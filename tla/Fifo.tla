-------------------------------- MODULE Fifo --------------------------------
(***************************************************************************)
(* What the simulator thread may assume of its message path to the GUI:    *)
(* messages are handed over one at a time, in the order in which they were *)
(* sent, each exactly once and with the content it was sent with.          *)
(***************************************************************************)
EXTENDS Sequences

CONSTANTS Messages,   \* the possible contents of a message
          Nothing     \* what has been delivered before the first delivery

VARIABLES chan,       \* the messages sent and not yet delivered
          out         \* the message delivered last

fvars == <<chan, out>>

FInit == chan = <<>> /\ out = Nothing

FSend(m) == chan' = Append(chan, m) /\ UNCHANGED out

FDeliver ==
  /\ chan # <<>>
  /\ out' = Head(chan)
  /\ chan' = Tail(chan)

FNext == FDeliver \/ \E m \in Messages : FSend(m)

FSafe == FInit /\ [][FNext]_fvars

FSpec == FSafe /\ WF_fvars(FDeliver)
=============================================================================
