-------------------------- MODULE HandshakeChannel --------------------------
(***************************************************************************)
(* What the buffer manager promises for one program thread: the timing     *)
(* simulator receives the handshakes the feeder has finished, each exactly *)
(* once and in the order in which the feeder finished them.                *)
(***************************************************************************)
EXTENDS Naturals, Sequences

VARIABLES
    sent,       \* how many handshakes the feeder has finished
    queue       \* the numbers of those that were not consumed yet

Init == sent = 0 /\ queue = <<>>

Send == sent' = sent + 1 /\ queue' = Append(queue, sent + 1)

Receive == queue # <<>> /\ queue' = Tail(queue) /\ UNCHANGED sent

Next == Send \/ Receive

Spec == Init /\ [][Next]_<<sent, queue>>
=============================================================================
