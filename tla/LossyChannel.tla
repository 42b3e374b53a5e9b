---------------------------- MODULE LossyChannel ----------------------------
(***************************************************************************)
(* What the message queue promises its users: a channel from which every   *)
(* message that was sent is received at most once.  It promises neither an *)
(* order nor that a message is received at all.                            *)
(***************************************************************************)
EXTENDS Sequences

CONSTANT Msgs        \* the messages that can be sent

VARIABLES
    inFlight,        \* sent and not received, be it still in the queue or lost
    received         \* the messages received, in the order of their reception

cvars == <<inFlight, received>>

Init == inFlight = {} /\ received = <<>>

\* A message is sent once in its life.
Send(m) ==
    /\ m \notin inFlight
    /\ \A i \in DOMAIN received : received[i] # m
    /\ inFlight' = inFlight \cup {m}
    /\ UNCHANGED received

Receive(m) ==
    /\ m \in inFlight
    /\ inFlight' = inFlight \ {m}
    /\ received' = Append(received, m)

Next == \E m \in Msgs : Send(m) \/ Receive(m)

Spec == Init /\ [][Next]_cvars
=============================================================================
