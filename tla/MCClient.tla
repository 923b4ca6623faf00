-------------------------------- MODULE MCClient --------------------------------
(***************************************************************************)
(* The client as deployed, in seconds: three attempts with backoffs of 2   *)
(* and 4, so that outages last up to 5.  Of three calls two run at a time, *)
(* and two transcripts are longer than what may be sent.                   *)
(***************************************************************************)
EXTENDS Client

CONSTANTS short, long, longer

MCCalls == {short, long, longer}
MCLengthOf == [c \in MCCalls |-> CASE c = short -> 7 [] c = long -> 9 [] c = longer -> 30]
==============================================================================
