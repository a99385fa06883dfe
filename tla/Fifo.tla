-------------------------------- MODULE Fifo --------------------------------
(***************************************************************************)
(* What the waiting list of a mutex promises: threads leave it in the      *)
(* order in which they entered it.                                         *)
(***************************************************************************)
EXTENDS Sequences

CONSTANT Threads

VARIABLES
  queue,   \* the waiting threads, the oldest first
  last     \* the last operation and its thread

Init == queue = <<>> /\ last = <<"none">>

Enter(t) ==
  /\ queue' = Append(queue, t)
  /\ last' = <<"enter", t>>

Leave ==
  /\ queue # <<>>
  /\ queue' = Tail(queue)
  /\ last' = <<"leave", Head(queue)>>

Next == Leave \/ \E t \in Threads : Enter(t)

Spec == Init /\ [][Next]_<<queue, last>>
=============================================================================
