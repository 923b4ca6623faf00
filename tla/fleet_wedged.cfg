SPECIFICATION FairSpec
CONSTANTS
  tickRun = tickRun  forceRun = forceRun
  uploadA = uploadA  uploadB = uploadB
  NoMessage = NoMessage
  Invocations <- MCInvocations
  Messages = {uploadA}
  MaxReceive = 2
  Threshold = 1
  MaxSize = 1
  FleetFaults = {"terminate"}
  MaxForces = 0
  MaxFaults = 1
PROPERTIES
  ScaledBack
