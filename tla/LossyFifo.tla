------------------------------ MODULE LossyFifo ------------------------------
(***************************************************************************)
(* What a bounded message queue promises its users, with no threads,       *)
(* mutexes or condition variables in it.  Messages are numbered in the     *)
(* order they are sent.  They are received in that order; one can only be  *)
(* lost when the buffer is full, and then only the oldest buffered message *)
(* (overwriting) or the one being sent (refusal).                          *)
(***************************************************************************)
EXTENDS Naturals, Sequences

CONSTANT Capacity

VARIABLES
  buffer,    \* messages sent and neither received nor lost, oldest first
  sent,      \* how many messages were sent; the next one has number sent + 1
  received   \* the messages received, in the order of their receipt

vars == <<buffer, sent, received>>

Full == Len(buffer) >= Capacity

Init ==
  /\ buffer = <<>>
  /\ sent = 0
  /\ received = <<>>

Send ==
  /\ sent' = sent + 1
  /\ \/ ~Full /\ buffer' = Append(buffer, sent')
     \/ Full /\ buffer' = buffer
     \/ Full /\ buffer # <<>> /\ buffer' = Append(Tail(buffer), sent')
  /\ UNCHANGED received

Receive ==
  /\ buffer # <<>>
  /\ received' = Append(received, Head(buffer))
  /\ buffer' = Tail(buffer)
  /\ UNCHANGED sent

Next == Send \/ Receive

Spec == Init /\ [][Next]_vars
=============================================================================
