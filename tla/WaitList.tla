------------------------------ MODULE WaitList ------------------------------
(***************************************************************************)
(* The list of waiting threads of a mutex of ulpt-noodlez102/threads.c at  *)
(* the level of its pointers: blocked_threads_head, blocked_threads_tail   *)
(* (NULL for a list of one) and the next pointers of malloc'ed nodes.      *)
(* UThreads uses a sequence in its place; this module shows that the       *)
(* pointers implement it.  SIGALRM is blocked throughout an operation, so  *)
(* each is one action.                                                     *)
(***************************************************************************)
EXTENDS Naturals, Sequences, FiniteSets

CONSTANTS
  Threads,    \* the threads that may wait
  Addresses,  \* addresses malloc returns for a Node
  NULL

ASSUME NullIsNoAddress == NULL \notin Addresses
ASSUME FiniteMemory == IsFiniteSet(Addresses)

VARIABLES
  head,       \* m->blocked_threads_head
  tail,       \* m->blocked_threads_tail
  tid,        \* the tid field of the node at each address
  next,       \* its next field
  allocated,  \* nodes not yet freed
  last        \* the last operation and its thread: the one that waits, or is woken

vars == <<head, tail, tid, next, allocated, last>>

Pointers == Addresses \cup {NULL}

\* pthread_mutex_init; the fields of memory that was never allocated are arbitrary.
Init ==
  /\ head = NULL /\ tail = NULL
  /\ tid \in [Addresses -> Threads]
  /\ next \in [Addresses -> Pointers]
  /\ allocated = {}
  /\ last = <<"none">>

\* s follows the next pointers from head to NULL.
FromHead(s) ==
  /\ IF s = <<>> THEN head = NULL ELSE head = s[1] /\ next[s[Len(s)]] = NULL
  /\ \A i \in 1 .. Len(s) - 1 : next[s[i]] = s[i + 1]

\* The nodes of the list, which are no more than there are addresses.
Nodes == CHOOSE s \in UNION {[1 .. n -> Addresses] : n \in 0 .. Cardinality(Addresses)} : FromHead(s)
Queue == [i \in 1 .. Len(Nodes) |-> tid[Nodes[i]]]
OnList == {Queue[i] : i \in 1 .. Len(Queue)}

-----------------------------------------------------------------------------
\* Mutant of LinkedAfter: the second waiter is not linked to the first.
LinkedAfterLoses(n) ==
  [p \in Addresses |-> IF p = n THEN NULL
                       ELSE IF tail # NULL /\ p = tail THEN n ELSE next[p]]

\* The next fields after node n was put at the end: behind tail, or behind head when there
\* is no tail yet.
LinkedAfter(n) ==
  LET end == IF head # NULL /\ tail # NULL THEN tail ELSE head IN
  [p \in Addresses |-> IF p = n THEN NULL ELSE IF p = end THEN n ELSE next[p]]

\* The blocking branch of pthread_mutex_lock.  A blocked thread makes no call.
Enter(t) ==
  /\ t \notin OnList
  /\ \E n \in Addresses \ allocated :
       /\ allocated' = allocated \cup {n}
       /\ tid' = [tid EXCEPT ![n] = t]
       /\ next' = LinkedAfter(n)
       /\ head' = IF head = NULL THEN n ELSE head
       /\ tail' = IF head = NULL THEN tail ELSE n
  /\ last' = <<"enter", t>>

\* Mutant of TailAfter: the tail pointer is kept when the list runs empty.
TailAfterStale(rest) == tail

\* The tail pointer when rest is the list left behind.
TailAfter(rest) == IF rest = NULL THEN NULL ELSE tail

\* The waking branch of pthread_mutex_unlock.
Leave ==
  /\ head # NULL
  /\ last' = <<"leave", tid[head]>>
  /\ allocated' = allocated \ {head}
  /\ tail' = TailAfter(next[head])
  /\ head' = next[head]
  /\ UNCHANGED <<tid, next>>

Next == Leave \/ \E t \in Threads : Enter(t)

Spec == Init /\ [][Next]_vars

-----------------------------------------------------------------------------
(* Properties                                                              *)

\* The list holds exactly the nodes that were not freed: no operation follows a pointer
\* to a freed node, and no node, hence no waiter, is lost.  tail is NULL or the last node.
NoStaleNode ==
  /\ {Nodes[i] : i \in 1 .. Len(Nodes)} = allocated
  /\ tail # NULL => Len(Nodes) > 0 /\ tail = Nodes[Len(Nodes)]
  /\ Len(Nodes) > 1 => tail # NULL

\* The pointers implement a queue: pthread_mutex_unlock wakes the thread that has waited
\* longest, and a waiter is woken once.
Abstract == INSTANCE Fifo WITH queue <- Queue
ImplementsFifo == Abstract!Spec
=============================================================================
