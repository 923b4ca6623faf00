SPECIFICATION FairSpec
CONSTANTS
  tickRun = tickRun  forceRun = forceRun
  uploadA = uploadA  uploadB = uploadB
  NoMessage = NoMessage
  Invocations <- MCInvocations
  Messages = {uploadA, uploadB}
  MaxReceive = 2
  Threshold = 1
  MaxSize = 1
  FleetFaults = {"api", "launch", "lost", "heartbeat"}
  MaxForces = 1
  MaxFaults = 1
INVARIANTS
  TypeOK
  NoOverlap
PROPERTIES
  Drained
  ScaledBack
