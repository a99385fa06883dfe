------------------------------ MODULE UThreads ------------------------------
(***************************************************************************)
(* The user-level thread library ulpt-noodlez102/threads.c: the TCB table, *)
(* the round-robin scheduler driven by SIGALRM, pthread_create,            *)
(* pthread_exit, pthread_join and the mutex, together with the programs    *)
(* that call it.                                                           *)
(*                                                                         *)
(* One thread executes at a time, the one of slot current_tid.  An action  *)
(* is a stretch of its code that no SIGALRM can split in a way that        *)
(* matters: pc[t] says where thread t stands between two actions, and Tick *)
(* (the SIGALRM handler) may strike at each of those places while the      *)
(* timer is armed and the signal is not blocked.                           *)
(***************************************************************************)
EXTENDS Naturals, Sequences, FiniteSets, Functions

CONSTANTS
  MaxThreads,    \* MAX_THREADS, the number of TCBs (128 in the code)
  Creators,      \* the threads whose program calls pthread_create and pthread_join
  Lockers,       \* the threads whose program uses the mutex
  MaxLocks,      \* bound: pthread_mutex_lock calls of one thread
  DestroyEarly,  \* main may destroy the mutex before it has joined all its threads
  FailIsHeld,    \* the caller ignores the -1 of pthread_mutex_lock, as mutextest.c does
  SwitchWindow,  \* SIGALRM may strike inside a schedule() called with the timer armed
  NullRetval     \* the choices a caller of pthread_join has for "retval is NULL"

Tids == 0 .. MaxThreads - 1

ASSUME ConstantsOK ==
  /\ MaxThreads \in Nat \ {0}
  /\ Creators \subseteq Tids
  /\ Lockers \subseteq Tids
  /\ MaxLocks \in Nat
  /\ DestroyEarly \in BOOLEAN
  /\ FailIsHeld \in BOOLEAN
  /\ SwitchWindow \in BOOLEAN
  /\ NullRetval \subseteq BOOLEAN

\* A thread passes a value of its own to pthread_exit (test_busy_threads.c passes
\* &some_value[my_num]): thread t's value is t.  NoVal is the NULL of a TCB whose
\* exit_status was never assigned, NotJoined marks a thread nobody joined yet.
NoVal == MaxThreads
NotJoined == MaxThreads + 1

VARIABLES
  status,          \* threads[i].status
  stack,           \* threads[i].stack: NULL, allocated, or freed (and still not NULL)
  tid,             \* threads[i].tid, what pthread_self returns
  exit_status,     \* threads[i].exit_status
  current_tid,     \* the global of the same name
  num_threads,     \* the global of the same name
  is_first_call,   \* static local of pthread_create
  alarm,           \* ualarm is armed
  sigmask,         \* SIGALRM is blocked for the executing thread
  in_handler,      \* the threads the alarm descheduled: they stand in the SIGALRM handler
  mutex_live,      \* the mutex is initialised and not destroyed
  locked,          \* m->locked
  blocked_threads, \* the list between blocked_threads_head and blocked_threads_tail
  pc,              \* where each thread stands
  cont,            \* where a thread goes on when its schedule() call returns
  loc,             \* local of the call in progress: slot being created, thread joined
  next_tid         \* local of schedule()

\* What the programs know: who is in its critical section, how often each thread
\* called lock, and what pthread_join delivered.
VARIABLES held, nlocks, joined

tcbVars   == <<status, stack, tid, exit_status>>
libVars   == <<num_threads, is_first_call>>
sigVars   == <<alarm, sigmask, in_handler>>
mutexVars == <<mutex_live, locked, blocked_threads>>
localVars == <<pc, cont, loc, next_tid>>
userVars  == <<held, nlocks, joined>>
vars == <<tcbVars, current_tid, libVars, sigVars, mutexVars, localVars, userVars>>

Status == {"EXITED", "RUNNING", "READY", "EMPTY", "BLOCKED"}
PCs == {"none", "user", "create_find", "create_alloc", "create_ready",
        "create_publish", "join", "exit_value", "exit_alarm", "sched", "switch",
        "lock_ret", "dead", "crash", "done"}

Waiting == Range(blocked_threads)

TypeOK ==
  /\ status \in [Tids -> Status]
  /\ stack \in [Tids -> {"null", "alloc", "freed"}]
  /\ tid \in [Tids -> Nat]
  /\ exit_status \in [Tids -> Tids \cup {NoVal}]
  /\ current_tid \in Tids
  /\ num_threads \in Nat
  /\ is_first_call \in BOOLEAN
  /\ alarm \in BOOLEAN
  /\ sigmask \in BOOLEAN
  /\ in_handler \subseteq Tids
  /\ mutex_live \in BOOLEAN
  /\ locked \in {0, 1}
  /\ blocked_threads \in Seq(Tids)
  /\ pc \in [Tids -> PCs]
  /\ cont \in [Tids -> {"user", "join", "lock_ret", "dead"}]
  /\ loc \in [Tids -> 0 .. MaxThreads]
  /\ next_tid \in [Tids -> Tids]
  /\ held \subseteq Tids
  /\ nlocks \in [Tids -> 0 .. MaxLocks]
  /\ joined \in [Tids -> 0 .. NotJoined]

\* The globals before main runs: all zero, and TS_EXITED is the zero of the enum.
Init ==
  /\ status = [t \in Tids |-> "EXITED"]
  /\ stack = [t \in Tids |-> "null"]
  /\ tid = [t \in Tids |-> 0]
  /\ exit_status = [t \in Tids |-> NoVal]
  /\ current_tid = 0
  /\ num_threads = 0
  /\ is_first_call = TRUE
  /\ alarm = FALSE
  /\ sigmask = FALSE
  /\ in_handler = {}
  /\ mutex_live = FALSE
  /\ locked = 0
  /\ blocked_threads = <<>>
  /\ pc = [t \in Tids |-> IF t = 0 THEN "user" ELSE "none"]
  /\ cont = [t \in Tids |-> "user"]
  /\ loc = [t \in Tids |-> 0]
  /\ next_tid = [t \in Tids |-> 0]
  /\ held = {}
  /\ nlocks = [t \in Tids |-> 0]
  /\ joined = [t \in Tids |-> NotJoined]

At(t, p) == current_tid = t /\ pc[t] = p

GoTo(t, p) == pc' = [pc EXCEPT ![t] = p]

-----------------------------------------------------------------------------
(* schedule()                                                              *)

\* Slots the search loop looks at before (and up to) n, starting after c.
Dist(c, n) == IF n > c THEN n - c ELSE n + MaxThreads - c

\* Mutants of Preempted: the TS_RUNNING case is missing; a TS_BLOCKED case falls into it.
PreemptedForgets(st, c) == st
PreemptedUnblocks(st, c) ==
  [st EXCEPT ![c] = IF @ \in {"RUNNING", "BLOCKED"} THEN "READY" ELSE @]

\* The switch statement at the top: only a RUNNING thread is made READY.
Preempted(st, c) == [st EXCEPT ![c] = IF @ = "RUNNING" THEN "READY" ELSE @]

\* Mutant of IsNext: the search starts at slot 0 each time.
IsNextFromZero(st, c, n) ==
  /\ st[n] = "READY"
  /\ \A m \in Tids : m < n => st[m] # "READY"

\* n is where the while(1) loop stops; no n: the loop spins for ever.
IsNext(st, c, n) ==
  /\ st[n] = "READY"
  /\ \A m \in Tids : Dist(c, m) < Dist(c, n) => st[m] # "READY"

\* The caller of schedule() resumes at k once it is switched to again.
CallSchedule(t, k) ==
  /\ pc' = [pc EXCEPT ![t] = "sched"]
  /\ cont' = [cont EXCEPT ![t] = k]

\* Lines 59-81 of a schedule() called by the library: mark the caller, search.
ScheduleSearch(t) ==
  /\ At(t, "sched")
  /\ \E n \in Tids :
       /\ IsNext(Preempted(status, t), t, n)
       /\ next_tid' = [next_tid EXCEPT ![t] = n]
  /\ status' = Preempted(status, t)
  /\ GoTo(t, "switch")
  /\ UNCHANGED <<stack, tid, exit_status, current_tid, libVars, sigVars, mutexVars,
                 cont, loc, userVars>>

\* SIGALRM is blocked once n was switched to.  setjmp saves no mask, so a new thread and
\* one that called schedule() itself go on with the mask they find; a thread the alarm
\* descheduled returns from the handler, which restores the mask it was interrupted with
\* (SA_NODEFER adds nothing to it): SIGALRM is unblocked.
MaskAfter(n) == sigmask /\ n \notin in_handler

\* Lines 83-91: save the caller's registers (unless it has exited), jump to next_tid.
ScheduleSwitch(t) ==
  /\ At(t, "switch")
  /\ current_tid' = next_tid[t]
  /\ status' = [status EXCEPT ![next_tid[t]] = "RUNNING"]
  /\ GoTo(t, cont[t])
  /\ next_tid' = [next_tid EXCEPT ![t] = 0]
  /\ cont' = [cont EXCEPT ![t] = "user"]
  /\ sigmask' = MaskAfter(next_tid[t])
  /\ in_handler' = in_handler \ {next_tid[t]}
  /\ UNCHANGED <<stack, tid, exit_status, libVars, alarm, mutexVars, loc, userVars>>

\* SIGALRM: the handler is schedule() itself, run between two actions of the thread it
\* interrupts.  The next alarm is a quantum away, so the handler is not interrupted.
Tick(t) ==
  /\ current_tid = t
  /\ alarm /\ ~sigmask
  /\ pc[t] \notin {"done", "crash"}
  /\ pc[t] = "switch" => SwitchWindow
  /\ \E n \in Tids :
       /\ IsNext(Preempted(status, t), t, n)
       /\ current_tid' = n
       /\ status' = [Preempted(status, t) EXCEPT ![n] = "RUNNING"]
       /\ sigmask' = MaskAfter(n)
       /\ in_handler' = (in_handler \cup {t}) \ {n}
  /\ UNCHANGED <<stack, tid, exit_status, libVars, alarm, mutexVars, localVars,
                 userVars>>

-----------------------------------------------------------------------------
(* pthread_create                                                          *)

\* The first call runs scheduler_init: it arms the timer and makes slot 0 READY.
CreateCall(t) ==
  /\ t \in Creators
  /\ At(t, "user")
  /\ GoTo(t, "create_find")
  /\ is_first_call' = FALSE
  /\ IF is_first_call
     THEN /\ status' = [u \in Tids |-> IF u = 0 THEN "READY" ELSE "EMPTY"]
          /\ tid' = [u \in Tids |-> u]
          /\ stack' = [u \in Tids |-> "null"]
          /\ num_threads' = 1
          /\ alarm' = TRUE
     ELSE UNCHANGED <<status, tid, stack, num_threads, alarm>>
  /\ UNCHANGED <<exit_status, current_tid, sigmask, in_handler, mutexVars, cont, loc,
                 next_tid, userVars>>

\* Mutant of FreeSlot: a slot whose stack was freed counts as free.
FreeSlotReuses(k) ==
  /\ k \in 1 .. MaxThreads
  /\ k < MaxThreads => stack[k] # "alloc"
  /\ \A j \in 1 .. k - 1 : stack[j] = "alloc"

\* The loop "for(tid = 1; ...)" ends at the first slot without a stack, or at MAX_THREADS.
FreeSlot(k) ==
  /\ k \in 1 .. MaxThreads
  /\ k < MaxThreads => stack[k] = "null"
  /\ \A j \in 1 .. k - 1 : stack[j] # "null"

CreateFind(t) ==
  /\ At(t, "create_find")
  /\ IF num_threads >= MaxThreads
     THEN /\ GoTo(t, "user")
          /\ UNCHANGED loc
     ELSE /\ GoTo(t, "create_alloc")
          /\ \E k \in 1 .. MaxThreads : FreeSlot(k) /\ loc' = [loc EXCEPT ![t] = k]
  /\ UNCHANGED <<tcbVars, current_tid, libVars, sigVars, mutexVars, cont, next_tid,
                 userVars>>

\* Registers and stack of the new thread: it will start its routine when switched to.
CreateAlloc(t) ==
  /\ At(t, "create_alloc")
  /\ loc[t] \in Tids
  /\ stack' = [stack EXCEPT ![loc[t]] = "alloc"]
  /\ pc' = [pc EXCEPT ![loc[t]] = "user", ![t] = "create_ready"]
  /\ UNCHANGED <<status, tid, exit_status, current_tid, libVars, sigVars, mutexVars,
                 cont, loc, next_tid, userVars>>

CreateReady(t) ==
  /\ At(t, "create_ready")
  /\ status' = [status EXCEPT ![loc[t]] = "READY"]
  /\ GoTo(t, "create_publish")
  /\ UNCHANGED <<stack, tid, exit_status, current_tid, libVars, sigVars, mutexVars,
                 cont, loc, next_tid, userVars>>

\* The id handed to the caller is num_threads, not the slot.
CreatePublish(t) ==
  /\ At(t, "create_publish")
  /\ tid' = [tid EXCEPT ![loc[t]] = num_threads]
  /\ num_threads' = num_threads + 1
  /\ loc' = [loc EXCEPT ![t] = 0]
  /\ GoTo(t, "user")
  /\ UNCHANGED <<status, stack, exit_status, current_tid, is_first_call, sigVars,
                 mutexVars, cont, next_tid, userVars>>

-----------------------------------------------------------------------------
(* pthread_exit: status, then exit_status, then ualarm(0,0) and schedule(0) *)

\* A thread exits when its routine calls pthread_exit or returns into it.  Programs
\* release the mutex first; main does not call it.
ExitStatus(t) ==
  /\ At(t, "user")
  /\ t # 0
  /\ t \notin held \/ ~mutex_live
  /\ status' = [status EXCEPT ![t] = "EXITED"]
  /\ GoTo(t, "exit_value")
  /\ UNCHANGED <<stack, tid, exit_status, current_tid, libVars, sigVars, mutexVars,
                 cont, loc, next_tid, userVars>>

ExitValue(t) ==
  /\ At(t, "exit_value")
  /\ exit_status' = [exit_status EXCEPT ![t] = t]
  /\ GoTo(t, "exit_alarm")
  /\ UNCHANGED <<status, stack, tid, current_tid, libVars, sigVars, mutexVars,
                 cont, loc, next_tid, userVars>>

\* The timer is never armed again: scheduler_init runs once.
ExitAlarm(t) ==
  /\ At(t, "exit_alarm")
  /\ alarm' = FALSE
  /\ CallSchedule(t, "dead")
  /\ UNCHANGED <<tcbVars, current_tid, libVars, sigmask, in_handler, mutexVars, loc,
                 next_tid, userVars>>

-----------------------------------------------------------------------------
(* pthread_join                                                            *)

\* Programs join a thread once, by the id pthread_create returned.
JoinCall(t, u) ==
  /\ t \in Creators
  /\ At(t, "user")
  /\ u # t /\ u > 0 /\ u < num_threads
  /\ joined[u] = NotJoined
  /\ loc' = [loc EXCEPT ![t] = u]
  /\ GoTo(t, "join")
  /\ UNCHANGED <<tcbVars, current_tid, libVars, sigVars, mutexVars, cont, next_tid,
                 userVars>>

\* Mutants of HasExited: a blocked, or any descheduled, thread is taken for an exited one.
HasExitedOrBlocked(u) == status[u] \in {"EXITED", "BLOCKED"}
HasExitedOrReady(u) == status[u] \in {"EXITED", "READY"}

\* The test of pthread_join's loop.
HasExited(u) == status[u] = "EXITED"

\* "free(stack); *retval = exit_status": a NULL retval is written through all the same.
JoinReturn(t, isNull) ==
  /\ At(t, "join")
  /\ HasExited(loc[t])
  /\ stack' = [stack EXCEPT ![loc[t]] = "freed"]
  /\ joined' = [joined EXCEPT ![loc[t]] = exit_status[loc[t]]]
  /\ loc' = [loc EXCEPT ![t] = 0]
  /\ GoTo(t, IF isNull THEN "crash" ELSE "user")
  /\ UNCHANGED <<status, tid, exit_status, current_tid, libVars, sigVars, mutexVars,
                 cont, next_tid, held, nlocks>>

JoinWait(t) ==
  /\ At(t, "join")
  /\ ~HasExited(loc[t])
  /\ CallSchedule(t, "join")
  /\ UNCHANGED <<tcbVars, current_tid, libVars, sigVars, mutexVars, loc, next_tid,
                 userVars>>

-----------------------------------------------------------------------------
(* The mutex.  lock() and unlock() block and unblock SIGALRM.              *)

MutexInit(t) ==
  /\ At(t, "user")
  /\ t = 0 /\ ~mutex_live /\ held = {} /\ is_first_call
  /\ mutex_live' = TRUE
  /\ locked' = 0
  /\ blocked_threads' = <<>>
  /\ UNCHANGED <<tcbVars, current_tid, libVars, sigVars, localVars, userVars>>

\* Main has joined every thread it created.
AllJoined == \A u \in 1 .. num_threads - 1 : joined[u] # NotJoined

\* Mutant of MutexDestroy: the test of m->locked is missing.
MutexDestroyAnyway(t) ==
  /\ At(t, "user")
  /\ t = 0 /\ mutex_live
  /\ DestroyEarly \/ AllJoined
  /\ mutex_live' = FALSE
  /\ blocked_threads' = <<>>
  /\ UNCHANGED <<tcbVars, current_tid, libVars, sigVars, locked, localVars, userVars>>

\* Refused while locked is set, otherwise the list is freed with the mutex.
MutexDestroy(t) ==
  /\ At(t, "user")
  /\ t = 0 /\ mutex_live
  /\ DestroyEarly \/ AllJoined
  /\ locked = 0
  /\ mutex_live' = FALSE
  /\ blocked_threads' = <<>>
  /\ UNCHANGED <<tcbVars, current_tid, libVars, sigVars, locked, localVars, userVars>>

MayLock(t) ==
  /\ At(t, "user")
  /\ t \in Lockers \ held
  /\ mutex_live
  /\ nlocks[t] < MaxLocks

\* The mutex is free: take it, return 0 with SIGALRM unblocked.
MutexLockFree(t) ==
  /\ MayLock(t)
  /\ locked = 0
  /\ locked' = 1
  /\ status' = [status EXCEPT ![t] = "READY"]
  /\ sigmask' = FALSE
  /\ held' = held \cup {t}
  /\ nlocks' = [nlocks EXCEPT ![t] = @ + 1]
  /\ UNCHANGED <<stack, tid, exit_status, current_tid, libVars, alarm, in_handler,
                 mutex_live, blocked_threads, localVars, joined>>

\* The mutex is taken: join the list and switch away, SIGALRM still blocked.
MutexLockBusy(t) ==
  /\ MayLock(t)
  /\ locked # 0
  /\ status' = [status EXCEPT ![t] = "BLOCKED"]
  /\ blocked_threads' = Append(blocked_threads, t)
  /\ sigmask' = TRUE
  /\ CallSchedule(t, "lock_ret")
  /\ nlocks' = [nlocks EXCEPT ![t] = @ + 1]
  /\ UNCHANGED <<stack, tid, exit_status, current_tid, libVars, alarm, in_handler,
                 mutex_live, locked, loc, next_tid, held, joined>>

\* Mutant of MutexLockReturn: the woken waiter returns 0.
MutexLockReturnOwns(t) ==
  /\ At(t, "lock_ret")
  /\ GoTo(t, "user")
  /\ held' = held \cup {t}
  /\ UNCHANGED <<tcbVars, current_tid, libVars, sigVars, mutexVars, cont, loc,
                 next_tid, nlocks, joined>>

\* A woken waiter returns -1; a caller that ignores it is now in its critical section.
MutexLockReturn(t) ==
  /\ At(t, "lock_ret")
  /\ GoTo(t, "user")
  /\ held' = IF FailIsHeld THEN held \cup {t} ELSE held
  /\ UNCHANGED <<tcbVars, current_tid, libVars, sigVars, mutexVars, cont, loc,
                 next_tid, nlocks, joined>>

MayUnlock(t) == At(t, "user") /\ t \in held /\ mutex_live

\* Mutant of MutexUnlockNoWaiter: m->locked is not cleared.
MutexUnlockKeepsLocked(t) ==
  /\ MayUnlock(t)
  /\ blocked_threads = <<>>
  /\ sigmask' = FALSE
  /\ held' = held \ {t}
  /\ UNCHANGED <<tcbVars, current_tid, libVars, alarm, in_handler, mutexVars, localVars,
                 nlocks, joined>>

\* Nobody waits: the mutex becomes free.
MutexUnlockNoWaiter(t) ==
  /\ MayUnlock(t)
  /\ blocked_threads = <<>>
  /\ locked' = 0
  /\ sigmask' = FALSE
  /\ held' = held \ {t}
  /\ UNCHANGED <<tcbVars, current_tid, libVars, alarm, in_handler, mutex_live,
                 blocked_threads, localVars, nlocks, joined>>

\* Mutants of LockedAfterWake: always cleared; used as a counter of waiters.
LockedAfterWakeFree(q) == 0
LockedAfterWakeCounts(q) == Len(q)

\* m->locked after the head of list q was released: cleared when the list runs empty.
LockedAfterWake(q) == IF Tail(q) = <<>> THEN 0 ELSE locked

MutexUnlockWake(t) ==
  /\ MayUnlock(t)
  /\ blocked_threads # <<>>
  /\ status' = [status EXCEPT ![Head(blocked_threads)] = "READY"]
  /\ blocked_threads' = Tail(blocked_threads)
  /\ locked' = LockedAfterWake(blocked_threads)
  /\ sigmask' = FALSE
  /\ CallSchedule(t, "user")
  /\ held' = held \ {t}
  /\ UNCHANGED <<stack, tid, exit_status, current_tid, libVars, alarm, in_handler,
                 mutex_live, loc, next_tid, nlocks, joined>>

-----------------------------------------------------------------------------
\* main returns, which ends the process, once it has joined every thread it created.
Finish(t) ==
  /\ At(t, "user")
  /\ t = 0
  /\ AllJoined
  /\ GoTo(t, "done")
  /\ UNCHANGED <<tcbVars, current_tid, libVars, sigVars, mutexVars, cont, loc,
                 next_tid, userVars>>

Ended(t) == current_tid = t /\ pc[t] \in {"done", "crash"} /\ UNCHANGED vars

\* A call or return of thread t's program, and the steps inside a library call.
UserStep(t) ==
  \/ CreateCall(t) \/ (\E u \in Tids : JoinCall(t, u)) \/ ExitStatus(t)
  \/ MutexInit(t) \/ MutexDestroy(t)
  \/ MutexLockFree(t) \/ MutexLockBusy(t) \/ MutexUnlockNoWaiter(t) \/ MutexUnlockWake(t)
  \/ Finish(t)

LibStep(t) ==
  \/ CreateFind(t) \/ CreateAlloc(t) \/ CreateReady(t) \/ CreatePublish(t)
  \/ ExitValue(t) \/ ExitAlarm(t)
  \/ (\E isNull \in NullRetval : JoinReturn(t, isNull)) \/ JoinWait(t)
  \/ MutexLockReturn(t)
  \/ ScheduleSearch(t) \/ ScheduleSwitch(t)

Next == \E t \in Tids : UserStep(t) \/ LibStep(t) \/ Tick(t) \/ Ended(t)

Spec == Init /\ [][Next]_vars

\* A thread that is switched to executes at least one step of its code before the next
\* alarm (the quantum is 50 ms): no thread that gets the processor again and again is
\* starved of its own steps, and no program stays outside the library for ever.
FairSpec == Spec /\ \A t \in Tids : SF_vars(UserStep(t) \/ LibStep(t))

\* Programs may compute for ever without calling the library; the periodic timer and
\* the library's own steps go on.
TimerSpec == /\ Spec
             /\ SF_vars(\E t \in Tids : Tick(t))
             /\ \A t \in Tids : WF_vars(LibStep(t))

-----------------------------------------------------------------------------
(* Properties                                                              *)

\* "mark preempted thread as runnable" (comment of schedule()): a thread that is not
\* executing is never left with status TS_RUNNING, where the search would skip it for ever.
OnlyCurrentRuns == \A t \in Tids : status[t] = "RUNNING" => t = current_tid

\* Every thread with status TS_BLOCKED is on the mutex's list, exactly once, and the list
\* holds no other thread: a wake-up always reaches a thread that sleeps.
BlockedIffWaiting ==
  /\ \A t \in Tids : status[t] = "BLOCKED" <=> t \in Waiting
  /\ \A i, j \in DOMAIN blocked_threads :
       blocked_threads[i] = blocked_threads[j] => i = j

\* No thread sleeps on a mutex that is free or destroyed: m->locked = 0 leaves no waiter.
NoWaiterOnFreeMutex == locked = 0 => blocked_threads = <<>>

\* A waiter that pthread_mutex_unlock took off the list and that has not run since.
Woken == {t \in Tids : pc[t] = "lock_ret" /\ status[t] # "BLOCKED"}

\* With callers that ignore the -1 (mutextest.c), a set m->locked always has someone who
\* will clear it: a thread in its critical section or a woken one about to enter it.
LockHasOwner == FailIsHeld /\ locked = 1 => held \cup Woken # {}

\* Two threads are never in their critical sections together.
MutualExclusion == \A t, u \in held : t = u

\* pthread_mutex_destroy succeeds only when nobody holds or waits for the mutex.
DestroyedIsIdle == ~mutex_live => held = {} /\ blocked_threads = <<>>

\* pthread_join never frees a stack that is in use: the executing thread and every thread
\* the scheduler can still switch to or wake have an allocated one.
StacksInUseAreLive ==
  \A t \in Tids \ {0} :
    t = current_tid \/ status[t] \in {"READY", "RUNNING", "BLOCKED"} => stack[t] = "alloc"

\* The slot pthread_create fills is in the table and is the one its caller's id names
\* (pthread_join indexes the table with that id).
SlotIsId ==
  \A t \in Tids : pc[t] \in {"create_alloc", "create_ready", "create_publish"} =>
    loc[t] = num_threads /\ loc[t] \in Tids

\* pthread_join delivers the value given to pthread_exit, unless the alarm struck between
\* the two assignments of pthread_exit and the thread never got to store it.
JoinedValueOrPreempted ==
  \A t \in Tids : joined[t] # NotJoined => joined[t] = t \/ pc[t] = "exit_value"

\* The search loop of schedule() finds a READY thread whenever the library calls it.
SearchTerminates ==
  pc[current_tid] = "sched" =>
    \E n \in Tids : Preempted(status, current_tid)[n] = "READY"

\* A joiner gets the answer (or faults on its NULL retval): wherever the alarm strikes
\* outside a schedule() the library calls, the joined thread gets through its critical
\* section and its exit.  An alarm inside such a call can leave a thread TS_RUNNING, see
\* OnlyCurrentRuns, and whoever joins that thread spins for ever.
JoinReturns == \A t \in Creators : pc[t] = "join" ~> pc[t] \in {"user", "crash"}

\* Round robin: if SIGALRM is unblocked again and again, a READY thread gets the processor
\* while the timer is armed although the others may compute for ever.  The premise is
\* needed: a pthread_mutex_lock that waits leaves SIGALRM blocked, and when it switches to
\* a new thread or to one waiting in a schedule() of its own, that thread is not preempted
\* before it locks or unlocks.
ReadyRunsWhileArmed ==
  []<>~sigmask => \A t \in Tids : status[t] = "READY" ~>
    (current_tid = t \/ ~alarm \/ pc[0] = "done")
=============================================================================
