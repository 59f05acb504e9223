------------------------------ MODULE FrameFifo ------------------------------
(***************************************************************************)
(* What the receive path promises: a bounded FIFO.  Frames accepted by the *)
(* NIC are handed to the application each once and in the order they were  *)
(* accepted, until a failure or a reload loses those that wait.            *)
(***************************************************************************)
EXTENDS Naturals, Sequences

CONSTANTS Frames, Capacity

VARIABLES queue, last, up  \* accepted, not delivered; last delivered; works

FifoInit == queue = <<>> /\ last = 0 /\ up = TRUE

Accept(f) ==
  /\ up /\ Len(queue) < Capacity
  /\ queue' = Append(queue, f)
  /\ UNCHANGED <<last, up>>

Deliver ==
  /\ up /\ queue # <<>>
  /\ last' = Head(queue)
  /\ queue' = Tail(queue)
  /\ UNCHANGED up

\* A failure and a reload both lose what waits; only the reload starts anew.
Fail   == up /\ up' = FALSE /\ queue' = <<>> /\ UNCHANGED last
Reload == up' = TRUE /\ queue' = <<>> /\ UNCHANGED last

FifoNext == Deliver \/ Fail \/ Reload \/ \E f \in Frames : Accept(f)

FifoSpec == FifoInit /\ [][FifoNext]_<<queue, last, up>>
=============================================================================
