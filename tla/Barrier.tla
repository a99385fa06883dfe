------------------------------- MODULE Barrier -------------------------------
(***************************************************************************)
(* The barrier of ulpt-noodlez102/threads.c, used as barriertest.c uses    *)
(* it: main (thread 0) initialises it for Count threads, which each wait   *)
(* once per batch.  A waiting thread polls threads_blocked and calls       *)
(* schedule(0) in between; it is never TS_BLOCKED, because b->init is 1    *)
(* from pthread_barrier_init to pthread_barrier_destroy and the branches   *)
(* for b->init # 1 are not taken.                                          *)
(***************************************************************************)
EXTENDS Naturals, FiniteSets

CONSTANTS
  Count,       \* b->count, and the number of threads that use the barrier
  MaxBatches,  \* bound: how often each thread waits
  Preemptive   \* the choices for "SIGALRM is armed at first", that is, no thread exited
               \* before the barrier is used

ASSUME ConstantsOK ==
  /\ Count \in Nat \ {0} /\ MaxBatches \in Nat
  /\ Preemptive \subseteq BOOLEAN

Users == 1 .. Count

VARIABLES
  init,             \* b->init
  threads_blocked,  \* b->threads_blocked
  serialed,         \* b->serialed
  alarm,            \* ualarm is armed
  current,          \* the executing thread: 0 is main
  pc,               \* where each user stands in pthread_barrier_wait
  tmp,              \* the value of threads_blocked it is incrementing
  saw,              \* the value of b->serialed it read
  batch             \* how many waits main's program has released so far

\* What the program sees: calls made, calls returned, and who got
\* PTHREAD_BARRIER_SERIAL_THREAD in which batch.
VARIABLES arrived, passed, serial

barrierVars == <<init, threads_blocked, serialed>>
localVars == <<pc, tmp, saw>>
ghosts == <<arrived, passed, serial>>
schedVars == <<alarm, current>>
vars == <<barrierVars, schedVars, localVars, batch, ghosts>>

\* After pthread_barrier_init.  The threads of a program wait batch by batch, each one
\* released when main has joined the threads of the last (barriertest.c), or they wait
\* MaxBatches times in a row.
Init ==
  /\ init = 1 /\ threads_blocked = 0 /\ serialed = FALSE
  /\ alarm \in Preemptive /\ current = 0
  /\ pc = [t \in Users |-> "out"]
  /\ tmp = [t \in Users |-> 0]
  /\ saw = [t \in Users |-> FALSE]
  /\ batch \in {0, MaxBatches}
  /\ arrived = [t \in Users |-> 0]
  /\ passed = [t \in Users |-> 0]
  /\ serial = {}

-----------------------------------------------------------------------------
\* schedule(): round robin over threads that are all READY.
Successor(t) == (t + 1) % (Count + 1)

Idle == \A t \in Users : pc[t] = "out" /\ arrived[t] = batch

\* b->threads_blocked++ is a load and a store.
WaitLoad(t) ==
  /\ current = t /\ pc[t] = "out"
  /\ init = 1 /\ arrived[t] < batch
  /\ arrived' = [arrived EXCEPT ![t] = @ + 1]
  /\ tmp' = [tmp EXCEPT ![t] = threads_blocked]
  /\ pc' = [pc EXCEPT ![t] = "inc"]
  /\ UNCHANGED <<barrierVars, schedVars, saw, batch, passed, serial>>

WaitStore(t) ==
  /\ current = t /\ pc[t] = "inc"
  /\ threads_blocked' = tmp[t] + 1
  /\ tmp' = [tmp EXCEPT ![t] = 0]
  /\ pc' = [pc EXCEPT ![t] = "check"]
  /\ UNCHANGED <<init, serialed, schedVars, saw, batch, ghosts>>

\* Mutants of Full: one arrival too few, or one too many, ends the loop.
FullEarly == threads_blocked + 1 >= Count
FullLate == threads_blocked > Count

\* The while loop ends.
Full == threads_blocked >= Count

WaitSpin(t) ==
  /\ current = t /\ pc[t] = "check"
  /\ ~Full
  /\ current' = Successor(t)
  /\ UNCHANGED <<barrierVars, alarm, localVars, batch, ghosts>>

\* Past the loop: lock, unlock, and schedule(0) once more.
WaitThrough(t) ==
  /\ current = t /\ pc[t] = "check"
  /\ Full
  /\ pc' = [pc EXCEPT ![t] = "leave"]
  /\ current' = Successor(t)
  /\ UNCHANGED <<barrierVars, alarm, tmp, saw, batch, ghosts>>

WaitLeave(t) ==
  /\ current = t /\ pc[t] = "leave"
  /\ saw' = [saw EXCEPT ![t] = serialed]
  /\ pc' = [pc EXCEPT ![t] = "reset"]
  /\ UNCHANGED <<barrierVars, schedVars, tmp, batch, ghosts>>

\* Mutant of ResetTo: the leaving thread takes only itself off.
ResetByOne == IF threads_blocked > 0 THEN threads_blocked - 1 ELSE 0

\* threads_blocked when a thread leaves.
ResetTo == 0

\* Mutant of SerialedAfter: the flag is not set.
SerialedNever == serialed

\* serialed when a thread leaves: both branches end with it set, and nothing clears it.
SerialedAfter == TRUE

WaitReturn(t) ==
  /\ current = t /\ pc[t] = "reset"
  /\ threads_blocked' = ResetTo
  /\ init' = 1
  /\ serialed' = SerialedAfter
  /\ serial' = IF saw[t] THEN serial ELSE serial \cup {<<t, arrived[t]>>}
  /\ passed' = [passed EXCEPT ![t] = @ + 1]
  /\ saw' = [saw EXCEPT ![t] = FALSE]
  /\ pc' = [pc EXCEPT ![t] = "out"]
  /\ UNCHANGED <<schedVars, tmp, batch, arrived>>

\* A thread that has done its waits exits, which turns the timer off; or slot t has no
\* thread that waits in this batch and the search skips it.
Exits(t) ==
  /\ current = t /\ pc[t] = "out" /\ arrived[t] = batch
  /\ alarm' = (alarm /\ arrived[t] = 0)
  /\ current' = Successor(t)
  /\ UNCHANGED <<barrierVars, localVars, batch, ghosts>>

-----------------------------------------------------------------------------
\* main: pthread_join polls with schedule(); when all have returned, the next batch or
\* the end of the barrier.
MainJoins ==
  /\ current = 0
  /\ ~Idle \/ init = 0
  /\ current' = Successor(0)
  /\ UNCHANGED <<barrierVars, alarm, localVars, batch, ghosts>>

MainReleases ==
  /\ current = 0
  /\ Idle /\ init = 1 /\ batch < MaxBatches
  /\ batch' = batch + 1
  /\ current' = Successor(0)
  /\ UNCHANGED <<barrierVars, alarm, localVars, ghosts>>

\* pthread_barrier_destroy, refused while threads_blocked is not 0.
MainDestroys ==
  /\ current = 0
  /\ Idle /\ init = 1 /\ threads_blocked = 0
  /\ init' = 0
  /\ UNCHANGED <<threads_blocked, serialed, schedVars, localVars, batch, ghosts>>

Tick ==
  /\ alarm
  /\ current' = Successor(current)
  /\ UNCHANGED <<barrierVars, alarm, localVars, batch, ghosts>>

UserStep(t) ==
  \/ WaitLoad(t) \/ WaitStore(t) \/ WaitSpin(t) \/ WaitThrough(t) \/ WaitLeave(t)
  \/ WaitReturn(t) \/ Exits(t)

MainStep == MainJoins \/ MainReleases \/ MainDestroys

Next == MainStep \/ (\E t \in Users : UserStep(t)) \/ Tick

Spec == Init /\ [][Next]_vars

\* A thread that is switched to executes a step before the quantum ends.
FairSpec == Spec /\ SF_vars(MainStep) /\ \A t \in Users : SF_vars(UserStep(t))

-----------------------------------------------------------------------------
(* Properties                                                              *)

\* "threads should not reach this point until all threads in barrier" (barriertest.c): a
\* wait returns only after every thread made the same number of calls, whatever the alarm
\* interrupts and however soon the barrier is used again.
NoEarlyPass == \A t, u \in Users : passed[t] <= arrived[u]

\* When all threads have left, the counter is back at 0: pthread_barrier_destroy then
\* succeeds and the next batch starts afresh.
IdleIsReset == (\A t \in Users : pc[t] = "out") => threads_blocked = 0

\* Without the alarm, at most one wait of a batch returns PTHREAD_BARRIER_SERIAL_THREAD: the
\* test and the setting of b->serialed are not separated.
OneSerialUnpreempted ==
  ~alarm => [](\A r \in 1 .. MaxBatches : \A t, u \in Users :
                 <<t, r>> \in serial /\ <<u, r>> \in serial => t = u)

\* Every wait returns (barriertest.c joins every thread that waited).
EveryWaitReturns == \A t \in Users : pc[t] # "out" ~> pc[t] = "out"

\* Without the alarm, and when each batch starts after the last one was joined, every wait
\* returns although the first thread to leave resets the counter the others poll.
WaitReturnsUnpreempted == ~alarm /\ batch = 0 => EveryWaitReturns
=============================================================================
