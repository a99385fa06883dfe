--------------------------- MODULE UThreadsProofs ---------------------------
(***************************************************************************)
(* Theorems about UThreads for every number of threads, every set of       *)
(* creators and lockers, and every bound on the lock calls.                *)
(***************************************************************************)
EXTENDS UThreads, TLAPS

-----------------------------------------------------------------------------
(* Type correctness                                                        *)

\* A thread inside pthread_join waits for a slot of the table: its local variable indexes
\* threads[].
JoinsASlot ==
  \A t \in Tids :
    pc[t] = "join" \/ (pc[t] \in {"sched", "switch"} /\ cont[t] = "join") => loc[t] \in Tids

TypeInv == TypeOK /\ JoinsASlot

\* main is slot 0 of a table that is never empty.
LEMMA MainIsAThread == 0 \in Tids
  BY ConstantsOK DEF Tids

\* What pthread_join may deliver is a value or the NULL of a fresh TCB.
LEMMA DeliveredType == Tids \cup {NoVal} \subseteq 0 .. NotJoined
  BY ConstantsOK DEF Tids, NoVal, NotJoined

LEMMA TypeInvInit == Init => TypeInv
  <1> SUFFICES ASSUME Init PROVE TypeInv
    OBVIOUS
  <1>1. TypeOK
    BY ConstantsOK, MainIsAThread
    DEF Init, TypeOK, Status, PCs, NoVal, NotJoined, Tids
  <1>2. JoinsASlot
    BY DEF Init, JoinsASlot
  <1> QED BY <1>1, <1>2 DEF TypeInv

\* The status table keeps its type when the caller of schedule() is marked.
LEMMA PreemptedType ==
  ASSUME NEW st \in [Tids -> Status], NEW c \in Tids
  PROVE  Preempted(st, c) \in [Tids -> Status]
  BY DEF Preempted, Status

\* schedule() called by the library, and the SIGALRM handler.
LEMMA TypeInvSchedule ==
  ASSUME TypeInv, NEW t \in Tids, ScheduleSearch(t) \/ ScheduleSwitch(t) \/ Tick(t)
  PROVE  TypeInv'
  <1> USE DEF TypeInv, TypeOK, JoinsASlot, Status, PCs
  <1>1. CASE ScheduleSearch(t)
    <2>1. Preempted(status, t) \in [Tids -> Status]
      BY PreemptedType
    <2>2. TypeOK'
      BY <1>1, <2>1 DEF ScheduleSearch, GoTo, libVars, sigVars, mutexVars, userVars
    <2>3. JoinsASlot'
      BY <1>1 DEF ScheduleSearch, At, GoTo
    <2> QED BY <2>2, <2>3
  <1>2. CASE ScheduleSwitch(t)
    <2>1. TypeOK'
      <3>1. sigmask' \in BOOLEAN
        BY <1>2 DEF ScheduleSwitch, MaskAfter
      <3>2. in_handler' \subseteq Tids
        BY <1>2 DEF ScheduleSwitch
      <3> QED BY <1>2, <3>1, <3>2, MainIsAThread
              DEF ScheduleSwitch, GoTo, libVars, mutexVars, userVars
    <2>2. JoinsASlot'
      BY <1>2 DEF ScheduleSwitch, At, GoTo
    <2> QED BY <2>1, <2>2
  <1>3. CASE Tick(t)
    <2>1. Preempted(status, t) \in [Tids -> Status]
      BY PreemptedType
    <2>2. TypeOK'
      <3>1. sigmask' \in BOOLEAN
        BY <1>3 DEF Tick, MaskAfter
      <3>2. in_handler' \subseteq Tids
        BY <1>3 DEF Tick
      <3> QED BY <1>3, <2>1, <3>1, <3>2 DEF Tick, libVars, mutexVars, localVars, userVars
    <2>3. JoinsASlot'
      BY <1>3 DEF Tick, localVars
    <2> QED BY <2>2, <2>3
  <1> QED BY <1>1, <1>2, <1>3

LEMMA TypeInvCreate ==
  ASSUME TypeInv, NEW t \in Tids,
         CreateCall(t) \/ CreateFind(t) \/ CreateAlloc(t) \/ CreateReady(t) \/ CreatePublish(t)
  PROVE  TypeInv'
  <1> USE DEF TypeInv, TypeOK, JoinsASlot, Status, PCs
  <1>1. CASE CreateCall(t)
    <2>1. \A u \in Tids : u \in Nat
      BY ConstantsOK DEF Tids
    <2>2. [u \in Tids |-> u] \in [Tids -> Nat]
      BY <2>1
    <2>3. [u \in Tids |-> IF u = 0 THEN "READY" ELSE "EMPTY"] \in [Tids -> Status]
      OBVIOUS
    <2>4. [u \in Tids |-> "null"] \in [Tids -> {"null", "alloc", "freed"}]
      OBVIOUS
    <2>5. status' \in [Tids -> Status] /\ tid' \in [Tids -> Nat]
      <3>1. CASE is_first_call
        BY <1>1, <2>2, <2>3, <3>1 DEF CreateCall
      <3>2. CASE ~is_first_call
        BY <1>1, <3>2 DEF CreateCall
      <3> QED BY <3>1, <3>2
    <2>6. stack' \in [Tids -> {"null", "alloc", "freed"}] /\ num_threads' \in Nat
      <3>1. CASE is_first_call
        BY <1>1, <2>4, <3>1 DEF CreateCall
      <3>2. CASE ~is_first_call
        BY <1>1, <3>2 DEF CreateCall
      <3> QED BY <3>1, <3>2
    <2>7. TypeOK'
      BY <1>1, <2>5, <2>6 DEF CreateCall, GoTo, mutexVars, userVars
    <2>8. JoinsASlot'
      BY <1>1 DEF CreateCall, At, GoTo
    <2> QED BY <2>7, <2>8
  <1>2. CASE CreateFind(t)
    <2>1. loc' \in [Tids -> 0 .. MaxThreads]
      <3>1. CASE num_threads >= MaxThreads
        BY <1>2, <3>1 DEF CreateFind
      <3>2. CASE ~(num_threads >= MaxThreads)
        <4>1. PICK k \in 1 .. MaxThreads : loc' = [loc EXCEPT ![t] = k]
          BY <1>2, <3>2 DEF CreateFind
        <4>2. k \in 0 .. MaxThreads
          BY ConstantsOK
        <4> QED BY <4>1, <4>2
      <3> QED BY <3>1, <3>2
    <2>2. pc' \in [Tids -> PCs]
      BY <1>2 DEF CreateFind, GoTo
    <2>3. TypeOK'
      BY <1>2, <2>1, <2>2 DEF CreateFind, tcbVars, libVars, sigVars, mutexVars, userVars
    <2>4. JoinsASlot'
      BY <1>2 DEF CreateFind, At, GoTo
    <2> QED BY <2>3, <2>4
  <1>3. CASE CreateAlloc(t)
    BY <1>3 DEF CreateAlloc, At, libVars, sigVars, mutexVars, userVars
  <1>4. CASE CreateReady(t)
    BY <1>4 DEF CreateReady, At, GoTo, libVars, sigVars, mutexVars, userVars
  <1>5. CASE CreatePublish(t)
    <2>1. loc' \in [Tids -> 0 .. MaxThreads]
      BY <1>5, ConstantsOK DEF CreatePublish
    <2>2. TypeOK'
      <3>1. tid' = [tid EXCEPT ![loc[t]] = num_threads] /\ num_threads' = num_threads + 1
        BY <1>5 DEF CreatePublish
      <3>2. tid' \in [Tids -> Nat]
        BY <3>1
      <3>3. num_threads' \in Nat
        BY <3>1
      <3> QED BY <1>5, <2>1, <3>2, <3>3 DEF CreatePublish, GoTo, sigVars, mutexVars, userVars
    <2>3. JoinsASlot'
      BY <1>5 DEF CreatePublish, At, GoTo
    <2> QED BY <2>2, <2>3
  <1> QED BY <1>1, <1>2, <1>3, <1>4, <1>5

LEMMA TypeInvExitJoin ==
  ASSUME TypeInv, NEW t \in Tids,
         \/ ExitStatus(t) \/ ExitValue(t) \/ ExitAlarm(t) \/ JoinWait(t)
         \/ \E u \in Tids : JoinCall(t, u)
         \/ \E isNull \in NullRetval : JoinReturn(t, isNull)
  PROVE  TypeInv'
  <1> USE DEF TypeInv, TypeOK, JoinsASlot, Status, PCs
  <1>1. CASE ExitStatus(t)
    BY <1>1 DEF ExitStatus, At, GoTo, libVars, sigVars, mutexVars, userVars
  <1>2. CASE ExitValue(t)
    BY <1>2 DEF ExitValue, At, GoTo, libVars, sigVars, mutexVars, userVars
  <1>3. CASE ExitAlarm(t)
    BY <1>3 DEF ExitAlarm, At, CallSchedule, tcbVars, libVars, mutexVars, userVars
  <1>4. CASE JoinWait(t)
    BY <1>4 DEF JoinWait, At, CallSchedule, tcbVars, libVars, sigVars, mutexVars, userVars
  <1>5. CASE \E u \in Tids : JoinCall(t, u)
    <2>1. Tids \subseteq 0 .. MaxThreads
      BY ConstantsOK DEF Tids
    <2>2. PICK u \in Tids : JoinCall(t, u)
      BY <1>5
    <2>3. TypeOK'
      BY <2>1, <2>2
      DEF JoinCall, GoTo, tcbVars, libVars, sigVars, mutexVars, userVars
    <2>4. JoinsASlot'
      BY <2>2 DEF JoinCall, At, GoTo
    <2> QED BY <2>3, <2>4
  <1>6. CASE \E isNull \in NullRetval : JoinReturn(t, isNull)
    <2>1. PICK isNull \in NullRetval : JoinReturn(t, isNull)
      BY <1>6
    <2>2. loc[t] \in Tids
      BY <2>1 DEF JoinReturn, At
    <2>3. exit_status[loc[t]] \in Tids \cup {NoVal}
      BY <2>2
    <2>4. exit_status[loc[t]] \in 0 .. NotJoined
      BY <2>3, DeliveredType
    <2>5. 0 \in 0 .. MaxThreads
      BY ConstantsOK
    <2>6. joined' \in [Tids -> 0 .. NotJoined] /\ loc' \in [Tids -> 0 .. MaxThreads]
      BY <2>1, <2>4, <2>5 DEF JoinReturn
    <2>7. TypeOK'
      BY <2>1, <2>6 DEF JoinReturn, GoTo, libVars, sigVars, mutexVars
    <2>8. JoinsASlot'
      BY <2>1 DEF JoinReturn, At, GoTo
    <2> QED BY <2>7, <2>8
  <1> QED BY <1>1, <1>2, <1>3, <1>4, <1>5, <1>6

LEMMA TypeInvMutex ==
  ASSUME TypeInv, NEW t \in Tids,
         \/ MutexInit(t) \/ MutexDestroy(t) \/ MutexLockFree(t) \/ MutexLockBusy(t)
         \/ MutexLockReturn(t) \/ MutexUnlockNoWaiter(t) \/ MutexUnlockWake(t)
  PROVE  TypeInv'
  <1> USE DEF TypeInv, TypeOK, JoinsASlot, Status, PCs
  <1>1. CASE MutexInit(t)
    <2>1. TypeOK'
      <3>1. mutex_live' \in BOOLEAN /\ locked' \in {0, 1} /\ blocked_threads' \in Seq(Tids)
        BY <1>1 DEF MutexInit
      <3> QED BY <1>1, <3>1 DEF MutexInit, tcbVars, libVars, sigVars, localVars, userVars
    <2>2. JoinsASlot'
      BY <1>1 DEF MutexInit, localVars
    <2> QED BY <2>1, <2>2
  <1>2. CASE MutexDestroy(t)
    <2>1. TypeOK'
      <3>1. mutex_live' \in BOOLEAN /\ locked' \in {0, 1}
        BY <1>2 DEF MutexDestroy
      <3>2. blocked_threads' \in Seq(Tids)
        BY <1>2 DEF MutexDestroy
      <3> QED BY <1>2, <3>1, <3>2 DEF MutexDestroy, tcbVars, libVars, sigVars, localVars, userVars
    <2>2. JoinsASlot'
      BY <1>2 DEF MutexDestroy, localVars
    <2> QED BY <2>1, <2>2
  <1>3. CASE MutexLockFree(t)
    <2>1. nlocks' \in [Tids -> 0 .. MaxLocks]
      BY <1>3, ConstantsOK DEF MutexLockFree, MayLock
    <2>2. TypeOK'
      BY <1>3, <2>1 DEF MutexLockFree, libVars, localVars
    <2>3. JoinsASlot'
      BY <1>3 DEF MutexLockFree, localVars
    <2> QED BY <2>2, <2>3
  <1>4. CASE MutexLockBusy(t)
    <2>1. nlocks' \in [Tids -> 0 .. MaxLocks]
      BY <1>4, ConstantsOK DEF MutexLockBusy, MayLock
    <2>2. blocked_threads' \in Seq(Tids)
      BY <1>4 DEF MutexLockBusy
    <2>3. TypeOK'
      BY <1>4, <2>1, <2>2 DEF MutexLockBusy, CallSchedule, libVars
    <2>4. JoinsASlot'
      BY <1>4 DEF MutexLockBusy, CallSchedule
    <2> QED BY <2>3, <2>4
  <1>5. CASE MutexLockReturn(t)
    BY <1>5 DEF MutexLockReturn, At, GoTo, tcbVars, libVars, sigVars, mutexVars
  <1>6. CASE MutexUnlockNoWaiter(t)
    BY <1>6 DEF MutexUnlockNoWaiter, MayUnlock, At, tcbVars, libVars, localVars
  <1>7. CASE MutexUnlockWake(t)
    <2>1. blocked_threads' \in Seq(Tids) /\ locked' \in {0, 1}
      BY <1>7 DEF MutexUnlockWake, LockedAfterWake
    <2>2. TypeOK'
      BY <1>7, <2>1 DEF MutexUnlockWake, CallSchedule, libVars
    <2>3. JoinsASlot'
      BY <1>7 DEF MutexUnlockWake, CallSchedule
    <2> QED BY <2>2, <2>3
  <1> QED BY <1>1, <1>2, <1>3, <1>4, <1>5, <1>6, <1>7

LEMMA TypeInvNext == TypeInv /\ [Next]_vars => TypeInv'
  <1> SUFFICES ASSUME TypeInv, [Next]_vars PROVE TypeInv'
    OBVIOUS
  <1>1. CASE Next
    <2>1. PICK t \in Tids : UserStep(t) \/ LibStep(t) \/ Tick(t) \/ Ended(t)
      BY <1>1 DEF Next
    <2>2. CASE Finish(t)
      BY <2>2 DEF Finish, At, GoTo, TypeInv, TypeOK, JoinsASlot, Status, PCs, tcbVars,
                  libVars, sigVars, mutexVars, userVars
    <2>3. CASE Ended(t)
      BY <2>3 DEF Ended, TypeInv, TypeOK, JoinsASlot, vars, tcbVars, libVars, sigVars,
                  mutexVars, localVars, userVars
    <2> QED BY <2>1, <2>2, <2>3, TypeInvSchedule, TypeInvCreate, TypeInvExitJoin,
               TypeInvMutex DEF UserStep, LibStep
  <1>2. CASE UNCHANGED vars
    BY <1>2 DEF TypeInv, TypeOK, JoinsASlot, vars, tcbVars, libVars, sigVars, mutexVars,
                localVars, userVars
  <1> QED BY <1>1, <1>2

LEMMA TypeInvHolds == Spec => []TypeInv
  BY TypeInvInit, TypeInvNext, PTL DEF Spec

\* Every variable of the library keeps its type; in particular current_tid, the slots the
\* scheduler jumps to and the slots on the mutex's list stay inside threads[].
THEOREM TypeCorrect == Spec => []TypeOK
  <1>1. TypeInv => TypeOK
    BY DEF TypeInv
  <1> QED BY <1>1, TypeInvHolds, PTL

-----------------------------------------------------------------------------
(* The mutex                                                               *)

MutexStep(t) ==
  \/ MutexInit(t) \/ MutexDestroy(t) \/ MutexLockFree(t) \/ MutexLockBusy(t)
  \/ MutexLockReturn(t) \/ MutexUnlockNoWaiter(t) \/ MutexUnlockWake(t)

\* No step outside the mutex's own operations touches it or who is in a critical section.
LEMMA MutexFrame ==
  ASSUME [Next]_vars
  PROVE  (\E t \in Tids : MutexStep(t)) \/ UNCHANGED <<mutexVars, held>>
  <1>1. CASE UNCHANGED vars
    BY <1>1 DEF vars, mutexVars, userVars
  <1>2. CASE Next
    <2>1. PICK t \in Tids : UserStep(t) \/ LibStep(t) \/ Tick(t) \/ Ended(t)
      BY <1>2 DEF Next
    <2>2. CASE CreateCall(t) \/ CreateFind(t) \/ CreateAlloc(t) \/ CreateReady(t)
               \/ CreatePublish(t)
      BY <2>2 DEF CreateCall, CreateFind, CreateAlloc, CreateReady, CreatePublish, userVars
    <2>3. CASE ExitStatus(t) \/ ExitValue(t) \/ ExitAlarm(t) \/ JoinWait(t) \/ Finish(t)
      BY <2>3 DEF ExitStatus, ExitValue, ExitAlarm, JoinWait, Finish, userVars
    <2>4. CASE (\E u \in Tids : JoinCall(t, u)) \/ \E isNull \in NullRetval : JoinReturn(t, isNull)
      BY <2>4 DEF JoinCall, JoinReturn, userVars
    <2>5. CASE ScheduleSearch(t) \/ ScheduleSwitch(t) \/ Tick(t)
      BY <2>5 DEF ScheduleSearch, ScheduleSwitch, Tick, userVars
    <2>6. CASE Ended(t)
      BY <2>6 DEF Ended, vars, mutexVars, userVars
    <2>7. CASE MutexStep(t)
      BY <2>7
    <2> QED BY <2>1, <2>2, <2>3, <2>4, <2>5, <2>6, <2>7 DEF UserStep, LibStep, MutexStep
  <1> QED BY <1>1, <1>2

LEMMA NoWaiterNext ==
  ASSUME TypeInv, NoWaiterOnFreeMutex, [Next]_vars
  PROVE  NoWaiterOnFreeMutex'
  <1> USE DEF NoWaiterOnFreeMutex
  <1>1. CASE UNCHANGED <<mutexVars, held>>
    BY <1>1 DEF mutexVars
  <1>2. ASSUME NEW t \in Tids, MutexStep(t) PROVE NoWaiterOnFreeMutex'
    <2>1. CASE MutexUnlockWake(t)
      <3>1. locked = 1
        BY <2>1 DEF MutexUnlockWake, TypeInv, TypeOK
      <3> QED BY <2>1, <3>1 DEF MutexUnlockWake, LockedAfterWake
    <2>2. CASE MutexInit(t) \/ MutexDestroy(t)
      BY <2>2 DEF MutexInit, MutexDestroy
    <2>3. CASE MutexLockFree(t) \/ MutexLockBusy(t)
      BY <2>3 DEF MutexLockFree, MutexLockBusy
    <2>4. CASE MutexLockReturn(t) \/ MutexUnlockNoWaiter(t)
      BY <2>4 DEF MutexLockReturn, MutexUnlockNoWaiter, mutexVars
    <2> QED BY <1>2, <2>1, <2>2, <2>3, <2>4 DEF MutexStep
  <1> QED BY <1>1, <1>2, MutexFrame

\* Whatever the callers do with the answer of pthread_mutex_lock: m->locked is never 0
\* while a thread sleeps on the list, so no sleeper is left behind by a free mutex.
THEOREM NoSleeperOnFreeMutex == Spec => []NoWaiterOnFreeMutex
  <1>1. Init => NoWaiterOnFreeMutex
    BY DEF Init, NoWaiterOnFreeMutex
  <1>2. TypeInv /\ NoWaiterOnFreeMutex /\ [Next]_vars => NoWaiterOnFreeMutex'
    BY NoWaiterNext
  <1> QED BY <1>1, <1>2, TypeInvHolds, PTL DEF Spec

\* With callers that honour the -1 (FailIsHeld is FALSE): a free mutex has no holder, and
\* a destroyed one is free.
HeldImpliesLocked ==
  /\ MutualExclusion
  /\ locked = 0 => held = {}
  /\ ~mutex_live => locked = 0

LEMMA HeldImpliesLockedNext ==
  ASSUME TypeInv, HeldImpliesLocked, [Next]_vars, ~FailIsHeld
  PROVE  HeldImpliesLocked'
  <1> USE DEF HeldImpliesLocked, MutualExclusion
  <1>1. CASE UNCHANGED <<mutexVars, held>>
    BY <1>1 DEF mutexVars
  <1>2. ASSUME NEW t \in Tids, MutexStep(t) PROVE HeldImpliesLocked'
    <2>1. CASE MutexInit(t)
      BY <2>1 DEF MutexInit, userVars
    <2>2. CASE MutexDestroy(t)
      BY <2>2 DEF MutexDestroy, userVars
    <2>3. CASE MutexLockFree(t)
      <3>1. held' = {t} /\ locked' = 1 /\ mutex_live' /\ mutex_live
        BY <2>3 DEF MutexLockFree, MayLock
      <3> QED BY <3>1
    <2>4. CASE MutexLockBusy(t)
      BY <2>4 DEF MutexLockBusy, MayLock
    <2>5. CASE MutexLockReturn(t)
      BY <2>5 DEF MutexLockReturn, mutexVars
    <2>6. CASE MutexUnlockNoWaiter(t) \/ MutexUnlockWake(t)
      <3>1. t \in held /\ held' = held \ {t}
        BY <2>6 DEF MutexUnlockNoWaiter, MutexUnlockWake, MayUnlock
      <3>2. held' = {}
        BY <3>1
      <3>3. mutex_live /\ mutex_live' = mutex_live
        BY <2>6 DEF MutexUnlockNoWaiter, MutexUnlockWake, MayUnlock
      <3> QED BY <3>2, <3>3
    <2> QED BY <1>2, <2>1, <2>2, <2>3, <2>4, <2>5, <2>6 DEF MutexStep
  <1> QED BY <1>1, <1>2, MutexFrame

\* Callers that treat the -1 of pthread_mutex_lock as "not acquired" are never in their
\* critical sections together.
THEOREM MutexExcludes == ASSUME ~FailIsHeld PROVE Spec => []MutualExclusion
  <1>1. Init => HeldImpliesLocked
    BY DEF Init, HeldImpliesLocked, MutualExclusion
  <1>2. TypeInv /\ HeldImpliesLocked /\ [Next]_vars => HeldImpliesLocked'
    BY HeldImpliesLockedNext
  <1>3. HeldImpliesLocked => MutualExclusion
    BY DEF HeldImpliesLocked
  <1> QED BY <1>1, <1>2, <1>3, TypeInvHolds, PTL DEF Spec

\* For the same callers pthread_mutex_destroy frees only a mutex that nobody holds or
\* waits for, and nobody takes it afterwards.
THEOREM DestroyIsSafe == ASSUME ~FailIsHeld PROVE Spec => []DestroyedIsIdle
  <1>1. Init => HeldImpliesLocked
    BY DEF Init, HeldImpliesLocked, MutualExclusion
  <1>2. TypeInv /\ HeldImpliesLocked /\ [Next]_vars => HeldImpliesLocked'
    BY HeldImpliesLockedNext
  <1>3. HeldImpliesLocked /\ NoWaiterOnFreeMutex => DestroyedIsIdle
    BY DEF HeldImpliesLocked, NoWaiterOnFreeMutex, DestroyedIsIdle
  <1> QED BY <1>1, <1>2, <1>3, TypeInvHolds, NoSleeperOnFreeMutex, PTL DEF Spec

-----------------------------------------------------------------------------
(* The scheduler and the sleepers, for programs whose main creates and     *)
(* joins all threads, and an alarm that does not strike inside a           *)
(* library-called schedule()                                               *)

\* Only the executing thread is between search and switch, marked as not running, and the
\* thread it is about to jump to is READY.
SwitchIsToReady ==
  \A t \in Tids : pc[t] = "switch" =>
    /\ t = current_tid
    /\ status[t] # "RUNNING"
    /\ status[next_tid[t]] = "READY"

\* An executing thread that put itself to sleep is on its way out of the processor.
SleeperIsSwitching ==
  status[current_tid] = "BLOCKED" => pc[current_tid] \in {"sched", "switch"}

\* Until the first pthread_create there is only main, and the mutex is its own.
OnlyMainBefore ==
  is_first_call =>
    /\ current_tid = 0 /\ num_threads = 0 /\ ~alarm
    /\ pc[0] \in {"user", "done"}
    /\ blocked_threads = <<>>
    /\ locked = 1 => 0 \in held

\* A slot without a stack was never filled, and the executing thread's slot was.
UnusedIsEmpty ==
  ~is_first_call =>
    /\ status[current_tid] # "EMPTY"
    /\ \A u \in Tids \ {0} : stack[u] = "null" => status[u] = "EMPTY"

\* main alone is ever inside pthread_create or pthread_join, and no thread takes part
\* in the scheduling from the slot it is filling.
SlotInCreation ==
  /\ \A t \in Tids :
       \/ pc[t] \in {"create_find", "create_alloc", "create_ready", "create_publish", "join"}
       \/ cont[t] = "join"
       => t = 0
  /\ pc[0] \in {"create_alloc", "create_ready"} =>
       /\ loc[0] # 0
       /\ loc[0] \in Tids => status[loc[0]] = "EMPTY"
  /\ pc[0] = "create_ready" => loc[0] \in Tids /\ stack[loc[0]] = "alloc"

SchedInv ==
  /\ OnlyCurrentRuns /\ BlockedIffWaiting /\ StacksInUseAreLive
  /\ NoWaiterOnFreeMutex
  /\ SwitchIsToReady /\ SleeperIsSwitching
  /\ OnlyMainBefore /\ UnusedIsEmpty /\ SlotInCreation

\* The programs of the repository: main creates and joins, and (the assumption on the
\* alarm) schedule() is not interrupted by its own handler.
MainCreates == Creators \subseteq {0} /\ ~SwitchWindow

LEMMA AppendRange ==
  ASSUME NEW q \in Seq(Tids), NEW t \in Tids
  PROVE  /\ Range(Append(q, t)) = Range(q) \cup {t}
         /\ DOMAIN Append(q, t) = DOMAIN q \cup {Len(q) + 1}
         /\ Append(q, t)[Len(q) + 1] = t
         /\ \A i \in DOMAIN q : i # Len(q) + 1 /\ Append(q, t)[i] = q[i]
  <1>1. /\ Len(q) \in Nat /\ DOMAIN q = 1 .. Len(q)
        /\ DOMAIN Append(q, t) = 1 .. Len(q) + 1
    OBVIOUS
  <1>2. Append(q, t)[Len(q) + 1] = t
    OBVIOUS
  <1>3. \A i \in 1 .. Len(q) : Append(q, t)[i] = q[i]
    OBVIOUS
  <1>4. DOMAIN Append(q, t) = DOMAIN q \cup {Len(q) + 1}
    BY <1>1
  <1>5. Range(Append(q, t)) = Range(q) \cup {t}
    BY <1>1, <1>2, <1>3, <1>4 DEF Range
  <1> QED BY <1>1, <1>2, <1>3, <1>4, <1>5

\* Taking the head off a list without repetitions removes exactly that thread.
LEMMA TailRange ==
  ASSUME NEW q \in Seq(Tids), q # <<>>, \A i, j \in DOMAIN q : q[i] = q[j] => i = j
  PROVE  /\ Range(Tail(q)) = Range(q) \ {Head(q)}
         /\ Head(q) \in Range(q)
         /\ \A i, j \in DOMAIN Tail(q) : Tail(q)[i] = Tail(q)[j] => i = j
  <1>1. /\ Len(q) \in Nat \ {0} /\ DOMAIN q = 1 .. Len(q)
        /\ Tail(q) \in Seq(Tids) /\ Len(Tail(q)) = Len(q) - 1
        /\ DOMAIN Tail(q) = 1 .. Len(q) - 1
    OBVIOUS
  <1>2. \A i \in 1 .. Len(q) - 1 : Tail(q)[i] = q[i + 1]
    OBVIOUS
  <1>3. Head(q) = q[1]
    OBVIOUS
  <1>4. Head(q) \in Range(q)
    BY <1>1, <1>3 DEF Range
  <1>5. \A i, j \in DOMAIN Tail(q) : Tail(q)[i] = Tail(q)[j] => i = j
    BY <1>1, <1>2
  <1>6. ASSUME NEW x \in Range(Tail(q)) PROVE x \in Range(q) \ {Head(q)}
    BY <1>1, <1>2, <1>3 DEF Range
  <1>7. ASSUME NEW x \in Range(q) \ {Head(q)} PROVE x \in Range(Tail(q))
    <2>1. PICK i \in 1 .. Len(q) : x = q[i]
      BY <1>1 DEF Range
    <2>2. i - 1 \in 1 .. Len(q) - 1 /\ Tail(q)[i - 1] = x
      BY <1>1, <1>2, <1>3, <2>1
    <2> QED BY <1>1, <2>2 DEF Range
  <1> QED BY <1>4, <1>5, <1>6, <1>7

\* The slot pthread_create's loop stops at has no stack, unless it ran off the table.
LEMMA FreeSlotIsUnused ==
  ASSUME NEW k \in 1 .. MaxThreads, FreeSlot(k)
  PROVE  k # 0 /\ (k \in Tids => stack[k] = "null")
  BY ConstantsOK DEF FreeSlot, Tids

\* What marking the caller of schedule() does to each slot.
LEMMA PreemptedAt ==
  ASSUME NEW st \in [Tids -> Status], NEW c \in Tids
  PROVE  \A u \in Tids :
           Preempted(st, c)[u] = IF u = c /\ st[u] = "RUNNING" THEN "READY" ELSE st[u]
  BY DEF Preempted

\* Steps that move only program counters and locals, of a thread that is neither sleeping
\* nor switching.
LEMMA SchedInvLocal ==
  ASSUME TypeInv, SchedInv, MainCreates, NEW t \in Tids,
         \/ CreateFind(t) \/ CreatePublish(t) \/ ExitValue(t) \/ ExitAlarm(t)
         \/ (\E u \in Tids : JoinCall(t, u)) \/ JoinWait(t) \/ MutexLockReturn(t)
         \/ Finish(t)
  PROVE  /\ (OnlyCurrentRuns /\ BlockedIffWaiting /\ StacksInUseAreLive)'
         /\ (SwitchIsToReady /\ SleeperIsSwitching)'
         /\ (OnlyMainBefore /\ UnusedIsEmpty)'
  <1>1. /\ current_tid = t /\ pc[t] \notin {"sched", "switch"}
        /\ UNCHANGED <<status, stack, current_tid, blocked_threads, is_first_call, locked,
                       next_tid>>
    BY DEF CreateFind, CreatePublish, ExitValue, ExitAlarm, JoinCall, JoinWait,
           MutexLockReturn, Finish, At, tcbVars, libVars, mutexVars
  <1>2. /\ pc'[t] \notin {"switch"}
        /\ \A u \in Tids \ {t} : pc'[u] = pc[u]
    BY DEF CreateFind, CreatePublish, ExitValue, ExitAlarm, JoinCall, JoinWait,
           MutexLockReturn, Finish, At, GoTo, CallSchedule, TypeInv, TypeOK
  <1>3. (OnlyCurrentRuns /\ BlockedIffWaiting /\ StacksInUseAreLive)'
    BY <1>1 DEF SchedInv, OnlyCurrentRuns, BlockedIffWaiting, StacksInUseAreLive, Waiting
  <1>4. (SwitchIsToReady /\ SleeperIsSwitching)'
    BY <1>1, <1>2 DEF SchedInv, SwitchIsToReady, SleeperIsSwitching
  <1>5. UnusedIsEmpty'
    BY <1>1 DEF SchedInv, UnusedIsEmpty
  <1>6. OnlyMainBefore'
    <2> SUFFICES ASSUME is_first_call' PROVE OnlyMainBefore'
      BY DEF OnlyMainBefore
    <2>1. is_first_call /\ t = 0 /\ num_threads = 0 /\ pc[0] \in {"user", "done"}
      BY <1>1 DEF SchedInv, OnlyMainBefore
    <2>2. Finish(t)
      BY <2>1 DEF CreateFind, CreatePublish, ExitValue, ExitAlarm, JoinCall, JoinWait,
                  MutexLockReturn, At, Tids
    <2>3. pc'[0] = "done" /\ UNCHANGED <<num_threads, alarm, held>>
      BY <2>1, <2>2 DEF Finish, GoTo, libVars, sigVars, userVars, TypeInv, TypeOK
    <2> QED BY <1>1, <2>1, <2>3 DEF SchedInv, OnlyMainBefore
  <1> QED BY <1>3, <1>4, <1>5, <1>6

\* For the same steps: who is inside pthread_create and pthread_join.
LEMMA SlotInCreationLocal ==
  ASSUME TypeInv, SchedInv, MainCreates, NEW t \in Tids,
         \/ CreateFind(t) \/ CreatePublish(t) \/ ExitValue(t) \/ ExitAlarm(t)
         \/ (\E u \in Tids : JoinCall(t, u)) \/ JoinWait(t) \/ MutexLockReturn(t)
         \/ Finish(t)
  PROVE  SlotInCreation'
  <1> USE DEF SchedInv, SlotInCreation, TypeInv, TypeOK
  <1>1. CASE CreateFind(t)
    <2>1. t = 0 /\ ~is_first_call
      BY <1>1 DEF CreateFind, At, OnlyMainBefore
    <2>2. CASE num_threads >= MaxThreads
      BY <1>1, <2>1, <2>2 DEF CreateFind, GoTo, tcbVars
    <2>3. CASE ~(num_threads >= MaxThreads)
      <3>1. PICK k \in 1 .. MaxThreads : FreeSlot(k) /\ loc' = [loc EXCEPT ![0] = k]
        BY <1>1, <2>1, <2>3 DEF CreateFind
      <3>2. k # 0 /\ (k \in Tids => stack[k] = "null")
        BY <3>1, FreeSlotIsUnused
      <3>3. k \in Tids => status[k] = "EMPTY"
        BY <2>1, <3>2 DEF UnusedIsEmpty
      <3>4. loc'[0] = k /\ pc' = [pc EXCEPT ![0] = "create_alloc"] /\ UNCHANGED <<status, cont>>
        BY <1>1, <2>1, <2>3, <3>1 DEF CreateFind, GoTo, tcbVars
      <3> QED BY <2>1, <3>2, <3>3, <3>4
    <2> QED BY <2>2, <2>3
  <1>2. CASE CreatePublish(t)
    BY <1>2 DEF CreatePublish, At, GoTo
  <1>3. CASE ExitValue(t)
    BY <1>3 DEF ExitValue, At, GoTo
  <1>4. CASE ExitAlarm(t)
    BY <1>4 DEF ExitAlarm, At, CallSchedule, tcbVars
  <1>5. CASE \E u \in Tids : JoinCall(t, u)
    BY <1>5 DEF JoinCall, At, GoTo, tcbVars, MainCreates
  <1>6. CASE JoinWait(t)
    BY <1>6 DEF JoinWait, At, CallSchedule, tcbVars
  <1>7. CASE MutexLockReturn(t)
    BY <1>7 DEF MutexLockReturn, At, GoTo, tcbVars
  <1>8. CASE Finish(t)
    BY <1>8 DEF Finish, At, GoTo, tcbVars
  <1> QED BY <1>1, <1>2, <1>3, <1>4, <1>5, <1>6, <1>7, <1>8

\* schedule(): the search of a library call.
LEMMA SchedInvSearch ==
  ASSUME TypeInv, SchedInv, MainCreates, NEW t \in Tids, ScheduleSearch(t)
  PROVE  SchedInv'
  <1> USE DEF SchedInv, TypeInv, TypeOK
  <1>1. PICK n \in Tids : /\ IsNext(Preempted(status, t), t, n)
                          /\ next_tid' = [next_tid EXCEPT ![t] = n]
    BY DEF ScheduleSearch
  <1>2. /\ t = current_tid /\ pc[t] = "sched" /\ status' = Preempted(status, t)
        /\ pc' = [pc EXCEPT ![t] = "switch"]
        /\ UNCHANGED <<stack, current_tid, is_first_call, blocked_threads, locked, cont, loc>>
    BY DEF ScheduleSearch, At, GoTo, libVars, mutexVars
  <1>3. \A u \in Tids :
          status'[u] = IF u = t /\ status[u] = "RUNNING" THEN "READY" ELSE status[u]
    BY <1>2, PreemptedAt
  <1>4. status'[n] = "READY"
    BY <1>1, <1>2 DEF IsNext
  <1>5. ~is_first_call
    BY <1>2 DEF OnlyMainBefore
  <1>6. OnlyCurrentRuns'
    BY <1>2, <1>3 DEF OnlyCurrentRuns
  <1>7. BlockedIffWaiting'
    <2>1. \A u \in Tids : status'[u] = "BLOCKED" <=> status[u] = "BLOCKED"
      BY <1>3
    <2> QED BY <1>2, <2>1 DEF BlockedIffWaiting, Waiting
  <1>8. StacksInUseAreLive'
    BY <1>2, <1>3 DEF StacksInUseAreLive
  <1>9. SwitchIsToReady' /\ SleeperIsSwitching'
    BY <1>1, <1>2, <1>3, <1>4 DEF SwitchIsToReady, SleeperIsSwitching
  <1>10. OnlyMainBefore' /\ NoWaiterOnFreeMutex'
    BY <1>2, <1>5 DEF OnlyMainBefore, NoWaiterOnFreeMutex
  <1>11. UnusedIsEmpty'
    BY <1>2, <1>3 DEF UnusedIsEmpty
  <1>12. SlotInCreation'
    BY <1>2, <1>3 DEF SlotInCreation
  <1> QED BY <1>6, <1>7, <1>8, <1>9, <1>10, <1>11, <1>12

\* schedule(): the switch of a library call, to a thread that is still READY.
LEMMA SchedInvSwitch ==
  ASSUME TypeInv, SchedInv, MainCreates, NEW t \in Tids, ScheduleSwitch(t)
  PROVE  SchedInv'
  <1> USE DEF SchedInv, TypeInv, TypeOK
  <1> DEFINE n == next_tid[t]
  <1>1. /\ t = current_tid /\ pc[t] = "switch" /\ n \in Tids
        /\ current_tid' = n /\ status' = [status EXCEPT ![n] = "RUNNING"]
        /\ pc' = [pc EXCEPT ![t] = cont[t]] /\ cont' = [cont EXCEPT ![t] = "user"]
        /\ UNCHANGED <<stack, is_first_call, blocked_threads, locked, loc>>
    BY DEF ScheduleSwitch, At, GoTo, libVars, mutexVars
  <1>2. status[n] = "READY" /\ status[t] # "RUNNING"
    BY <1>1 DEF SwitchIsToReady
  <1>3. \A u \in Tids : status'[u] = IF u = n THEN "RUNNING" ELSE status[u]
    BY <1>1
  <1>4. ~is_first_call
    BY <1>1 DEF OnlyMainBefore
  <1> HIDE DEF n
  <1>5. OnlyCurrentRuns'
    BY <1>1, <1>2, <1>3 DEF OnlyCurrentRuns
  <1>6. BlockedIffWaiting'
    <2>1. \A u \in Tids : status'[u] = "BLOCKED" <=> status[u] = "BLOCKED"
      BY <1>2, <1>3
    <2> QED BY <1>1, <2>1 DEF BlockedIffWaiting, Waiting
  <1>7. StacksInUseAreLive'
    BY <1>1, <1>2, <1>3 DEF StacksInUseAreLive
  <1>8. SwitchIsToReady' /\ SleeperIsSwitching'
    BY <1>1, <1>3 DEF SwitchIsToReady, SleeperIsSwitching
  <1>9. OnlyMainBefore' /\ NoWaiterOnFreeMutex'
    BY <1>1, <1>4 DEF OnlyMainBefore, NoWaiterOnFreeMutex
  <1>10. UnusedIsEmpty'
    BY <1>1, <1>2, <1>3 DEF UnusedIsEmpty
  <1>11. SlotInCreation'
    <2>1. \A u \in Tids : /\ cont'[u] = "join" => u = 0
                          /\ pc'[u] = pc[u] \/ (u = t /\ pc'[u] = cont[u])
      BY <1>1 DEF SlotInCreation
    <2>2. pc'[0] \in {"create_alloc", "create_ready"} => pc'[0] = pc[0]
      BY <2>1, MainIsAThread
    <2>3. loc[0] \in Tids /\ status[loc[0]] = "EMPTY" => status'[loc[0]] = "EMPTY"
      BY <1>2, <1>3
    <2> QED BY <1>1, <2>1, <2>2, <2>3 DEF SlotInCreation
  <1> QED BY <1>5, <1>6, <1>7, <1>8, <1>9, <1>10, <1>11

\* The SIGALRM handler: both in one.
LEMMA SchedInvTick ==
  ASSUME TypeInv, SchedInv, MainCreates, NEW t \in Tids, Tick(t)
  PROVE  SchedInv'
  <1> USE DEF SchedInv, TypeInv, TypeOK
  <1>1. PICK n \in Tids :
          /\ IsNext(Preempted(status, t), t, n)
          /\ current_tid' = n
          /\ status' = [Preempted(status, t) EXCEPT ![n] = "RUNNING"]
    BY DEF Tick
  <1>2. /\ t = current_tid /\ alarm /\ pc[t] # "switch"
        /\ UNCHANGED <<stack, is_first_call, blocked_threads, locked, pc, cont, loc, next_tid>>
    BY DEF Tick, MainCreates, libVars, mutexVars, localVars
  <1>3. Preempted(status, t) \in [Tids -> Status]
    BY PreemptedType
  <1>4. \A u \in Tids :
          status'[u] = IF u = n THEN "RUNNING"
                       ELSE IF u = t /\ status[u] = "RUNNING" THEN "READY" ELSE status[u]
    <2>1. \A u \in Tids : status'[u] = IF u = n THEN "RUNNING" ELSE Preempted(status, t)[u]
      BY <1>1, <1>3
    <2> QED BY <2>1, PreemptedAt
  <1>5. status[n] = "READY" \/ (n = t /\ status[n] = "RUNNING")
    BY <1>1, PreemptedAt DEF IsNext
  <1>6. ~is_first_call
    BY <1>2 DEF OnlyMainBefore
  <1>7. OnlyCurrentRuns'
    <2> SUFFICES ASSUME NEW u \in Tids, status'[u] = "RUNNING", u # n PROVE FALSE
      BY <1>1 DEF OnlyCurrentRuns
    <2> QED BY <1>2, <1>4 DEF OnlyCurrentRuns
  <1>8. BlockedIffWaiting'
    <2>1. \A u \in Tids : status'[u] = "BLOCKED" <=> status[u] = "BLOCKED"
      BY <1>4, <1>5
    <2> QED BY <1>2, <2>1 DEF BlockedIffWaiting, Waiting
  <1>9. StacksInUseAreLive'
    BY <1>1, <1>2, <1>4, <1>5 DEF StacksInUseAreLive
  <1>10. SwitchIsToReady' /\ SleeperIsSwitching'
    BY <1>1, <1>2, <1>4 DEF SwitchIsToReady, SleeperIsSwitching
  <1>11. OnlyMainBefore' /\ NoWaiterOnFreeMutex'
    BY <1>2, <1>6 DEF OnlyMainBefore, NoWaiterOnFreeMutex
  <1>12. UnusedIsEmpty'
    BY <1>1, <1>2, <1>4, <1>5 DEF UnusedIsEmpty
  <1>13. SlotInCreation'
    BY <1>2, <1>4, <1>5 DEF SlotInCreation
  <1> QED BY <1>7, <1>8, <1>9, <1>10, <1>11, <1>12, <1>13

\* pthread_create up to the line that makes the new thread READY.
LEMMA SchedInvCreateCall ==
  ASSUME TypeInv, SchedInv, MainCreates, NEW t \in Tids, CreateCall(t)
  PROVE  SchedInv'
  <1> USE DEF SchedInv, TypeInv, TypeOK
  <1>1. /\ t = 0 /\ current_tid = 0 /\ pc[0] = "user" /\ ~is_first_call'
        /\ pc' = [pc EXCEPT ![0] = "create_find"]
        /\ UNCHANGED <<current_tid, blocked_threads, locked, cont, loc, next_tid>>
    BY DEF CreateCall, At, GoTo, MainCreates, mutexVars
  <1>2. (SwitchIsToReady /\ SlotInCreation /\ OnlyMainBefore /\ NoWaiterOnFreeMutex)'
    <2>1. \A u \in Tids : pc'[u] # "switch"
      BY <1>1 DEF SwitchIsToReady
    <2> QED BY <1>1, <2>1, MainIsAThread
            DEF SwitchIsToReady, SlotInCreation, OnlyMainBefore, NoWaiterOnFreeMutex
  <1>3. CASE is_first_call
    <2>1. blocked_threads = <<>>
      BY <1>3 DEF OnlyMainBefore
    <2>2. /\ status' = [u \in Tids |-> IF u = 0 THEN "READY" ELSE "EMPTY"]
          /\ stack' = [u \in Tids |-> "null"]
      BY <1>3 DEF CreateCall
    <2>3. \A u \in Tids : status'[u] = IF u = 0 THEN "READY" ELSE "EMPTY"
      BY <2>2
    <2>4. OnlyCurrentRuns' /\ StacksInUseAreLive' /\ SleeperIsSwitching' /\ UnusedIsEmpty'
      BY <1>1, <2>3, MainIsAThread
      DEF OnlyCurrentRuns, StacksInUseAreLive, SleeperIsSwitching, UnusedIsEmpty
    <2>5. BlockedIffWaiting'
      BY <1>1, <2>1, <2>3 DEF BlockedIffWaiting, Waiting, Range
    <2> QED BY <1>2, <2>4, <2>5
  <1>4. CASE ~is_first_call
    <2>1. UNCHANGED <<status, stack>>
      BY <1>4 DEF CreateCall
    <2>2. OnlyCurrentRuns' /\ StacksInUseAreLive' /\ SleeperIsSwitching' /\ UnusedIsEmpty'
      BY <1>1, <1>4, <2>1
      DEF OnlyCurrentRuns, StacksInUseAreLive, SleeperIsSwitching, UnusedIsEmpty
    <2>3. BlockedIffWaiting'
      BY <1>1, <2>1 DEF BlockedIffWaiting, Waiting
    <2> QED BY <1>2, <2>2, <2>3
  <1> QED BY <1>3, <1>4

LEMMA SchedInvCreateFill ==
  ASSUME TypeInv, SchedInv, MainCreates, NEW t \in Tids, CreateAlloc(t) \/ CreateReady(t)
  PROVE  SchedInv'
  <1> USE DEF SchedInv, TypeInv, TypeOK
  <1> DEFINE k == loc[0]
  <1>1. /\ t = 0 /\ current_tid = 0 /\ pc[0] \in {"create_alloc", "create_ready"}
        /\ k \in Tids /\ k # 0 /\ status[k] = "EMPTY"
        /\ UNCHANGED <<current_tid, blocked_threads, locked, is_first_call, cont, loc, next_tid>>
    BY DEF CreateAlloc, CreateReady, At, SlotInCreation, libVars, mutexVars
  <1>2. ~is_first_call /\ ~is_first_call'
    BY <1>1 DEF OnlyMainBefore
  <1>3. OnlyMainBefore' /\ NoWaiterOnFreeMutex'
    BY <1>1, <1>2 DEF OnlyMainBefore, NoWaiterOnFreeMutex
  <1>4. status[0] # "BLOCKED" /\ \A u \in Tids : pc[u] # "switch"
    BY <1>1 DEF SleeperIsSwitching, SwitchIsToReady
  <1>5. CASE CreateAlloc(t)
    <2>1. /\ stack' = [stack EXCEPT ![k] = "alloc"] /\ status' = status
          /\ pc' = [pc EXCEPT ![k] = "user", ![0] = "create_ready"]
      BY <1>1, <1>5 DEF CreateAlloc
    <2> HIDE DEF k
    <2>2. OnlyCurrentRuns' /\ StacksInUseAreLive' /\ UnusedIsEmpty'
      BY <1>1, <1>2, <2>1 DEF OnlyCurrentRuns, StacksInUseAreLive, UnusedIsEmpty
    <2>3. BlockedIffWaiting'
      BY <1>1, <2>1 DEF BlockedIffWaiting, Waiting
    <2>4. SleeperIsSwitching' /\ SwitchIsToReady'
      BY <1>1, <1>4, <2>1, MainIsAThread DEF SleeperIsSwitching, SwitchIsToReady
    <2>5. SlotInCreation'
      <3>1. loc'[0] = k
        BY <1>1 DEF k
      <3>2. \A u \in Tids : pc'[u] \in {pc[u], "user"} \/ u = 0
        BY <2>1
      <3> QED BY <1>1, <2>1, <3>1, <3>2 DEF SlotInCreation
    <2> QED BY <1>3, <2>2, <2>3, <2>4, <2>5
  <1>6. CASE CreateReady(t)
    <2>1. /\ status' = [status EXCEPT ![k] = "READY"] /\ stack' = stack
          /\ pc' = [pc EXCEPT ![0] = "create_publish"] /\ stack[k] = "alloc"
      BY <1>1, <1>6 DEF CreateReady, At, GoTo, SlotInCreation
    <2> HIDE DEF k
    <2>2. OnlyCurrentRuns' /\ StacksInUseAreLive' /\ UnusedIsEmpty'
      BY <1>1, <1>2, <2>1 DEF OnlyCurrentRuns, StacksInUseAreLive, UnusedIsEmpty
    <2>3. BlockedIffWaiting'
      <3>1. \A u \in Tids : status'[u] = "BLOCKED" <=> status[u] = "BLOCKED"
        BY <1>1, <2>1
      <3> QED BY <1>1, <3>1 DEF BlockedIffWaiting, Waiting
    <2>4. SleeperIsSwitching' /\ SwitchIsToReady'
      BY <1>1, <1>4, <2>1, MainIsAThread DEF SleeperIsSwitching, SwitchIsToReady
    <2>5. SlotInCreation'
      BY <1>1, <2>1, MainIsAThread DEF SlotInCreation
    <2> QED BY <1>3, <2>2, <2>3, <2>4, <2>5
  <1> QED BY <1>5, <1>6

\* A thread marks itself as exited, and main frees the stack of an exited thread.
LEMMA SchedInvExitJoin ==
  ASSUME TypeInv, SchedInv, MainCreates, NEW t \in Tids,
         ExitStatus(t) \/ \E isNull \in NullRetval : JoinReturn(t, isNull)
  PROVE  SchedInv'
  <1> USE DEF SchedInv, TypeInv, TypeOK
  <1>1. /\ t = current_tid /\ pc[t] \in {"user", "join"}
        /\ UNCHANGED <<current_tid, blocked_threads, locked, is_first_call, cont, next_tid>>
    BY DEF ExitStatus, JoinReturn, At, libVars, mutexVars
  <1>2. ~is_first_call
    BY <1>1 DEF ExitStatus, JoinReturn, At, OnlyMainBefore
  <1>3. OnlyMainBefore' /\ NoWaiterOnFreeMutex'
    BY <1>1, <1>2 DEF OnlyMainBefore, NoWaiterOnFreeMutex
  <1>4. status[t] # "BLOCKED" /\ status[t] # "EMPTY" /\ \A u \in Tids : pc[u] # "switch"
    BY <1>1, <1>2 DEF SleeperIsSwitching, SwitchIsToReady, UnusedIsEmpty
  <1>5. CASE ExitStatus(t)
    <2>1. /\ status' = [status EXCEPT ![t] = "EXITED"] /\ UNCHANGED <<stack, loc>>
          /\ t # 0 /\ pc' = [pc EXCEPT ![t] = "exit_value"]
      BY <1>5 DEF ExitStatus, GoTo
    <2>2. OnlyCurrentRuns' /\ StacksInUseAreLive' /\ UnusedIsEmpty'
      BY <1>1, <1>2, <1>4, <2>1 DEF OnlyCurrentRuns, StacksInUseAreLive, UnusedIsEmpty
    <2>3. BlockedIffWaiting'
      <3>1. \A u \in Tids : status'[u] = "BLOCKED" <=> status[u] = "BLOCKED"
        BY <1>4, <2>1
      <3> QED BY <1>1, <3>1 DEF BlockedIffWaiting, Waiting
    <2>4. SleeperIsSwitching' /\ SwitchIsToReady'
      BY <1>1, <1>4, <2>1 DEF SleeperIsSwitching, SwitchIsToReady
    <2>5. SlotInCreation'
      BY <1>1, <1>4, <2>1, MainIsAThread DEF SlotInCreation
    <2> QED BY <1>3, <2>2, <2>3, <2>4, <2>5
  <1>6. CASE \E isNull \in NullRetval : JoinReturn(t, isNull)
    <2>1. /\ pc[t] = "join" /\ loc[t] \in Tids /\ status[loc[t]] = "EXITED"
          /\ stack' = [stack EXCEPT ![loc[t]] = "freed"] /\ status' = status
          /\ loc' = [loc EXCEPT ![t] = 0]
          /\ pc' = [pc EXCEPT ![t] = "crash"] \/ pc' = [pc EXCEPT ![t] = "user"]
      BY <1>6 DEF JoinReturn, At, GoTo, HasExited, JoinsASlot
    <2>2. t = 0
      BY <2>1 DEF SlotInCreation
    <2>3. OnlyCurrentRuns' /\ StacksInUseAreLive' /\ UnusedIsEmpty'
      BY <1>1, <1>2, <2>1, <2>2 DEF OnlyCurrentRuns, StacksInUseAreLive, UnusedIsEmpty
    <2>4. BlockedIffWaiting'
      BY <1>1, <2>1 DEF BlockedIffWaiting, Waiting
    <2>5. SleeperIsSwitching' /\ SwitchIsToReady'
      BY <1>1, <1>4, <2>1 DEF SleeperIsSwitching, SwitchIsToReady
    <2>6. SlotInCreation'
      BY <1>1, <2>1, <2>2 DEF SlotInCreation
    <2> QED BY <1>3, <2>3, <2>4, <2>5, <2>6
  <1> QED BY <1>5, <1>6

\* Mutex operations that leave every thread's status and the list as they are (destroying
\* a free mutex frees an empty list).
LEMMA SchedInvMutexQuiet ==
  ASSUME TypeInv, SchedInv, MainCreates, NEW t \in Tids,
         MutexInit(t) \/ MutexDestroy(t) \/ MutexUnlockNoWaiter(t)
  PROVE  SchedInv'
  <1> USE DEF SchedInv, TypeInv, TypeOK
  <1>1. /\ t = current_tid
        /\ UNCHANGED <<status, stack, current_tid, num_threads, is_first_call, alarm, pc, cont,
                       loc, next_tid>>
    BY DEF MutexInit, MutexDestroy, MutexUnlockNoWaiter, MayUnlock, At, tcbVars, libVars,
           sigVars, localVars
  <1>2. blocked_threads' = blocked_threads
    BY DEF MutexInit, MutexDestroy, MutexUnlockNoWaiter, OnlyMainBefore, NoWaiterOnFreeMutex
  <1>3. NoWaiterOnFreeMutex'
    BY <1>2 DEF MutexInit, MutexDestroy, MutexUnlockNoWaiter, NoWaiterOnFreeMutex
  <1>4. locked' = 0
    BY DEF MutexInit, MutexDestroy, MutexUnlockNoWaiter
  <1>5. (OnlyCurrentRuns /\ BlockedIffWaiting /\ StacksInUseAreLive)'
    BY <1>1, <1>2 DEF OnlyCurrentRuns, BlockedIffWaiting, StacksInUseAreLive, Waiting
  <1>6. (SwitchIsToReady /\ SleeperIsSwitching /\ UnusedIsEmpty /\ SlotInCreation)'
    BY <1>1 DEF SwitchIsToReady, SleeperIsSwitching, UnusedIsEmpty, SlotInCreation
  <1>7. OnlyMainBefore'
    BY <1>1, <1>2, <1>4 DEF OnlyMainBefore
  <1> QED BY <1>3, <1>5, <1>6, <1>7

\* Taking a free mutex marks the caller READY.
LEMMA SchedInvLockFree ==
  ASSUME TypeInv, SchedInv, MainCreates, NEW t \in Tids, MutexLockFree(t)
  PROVE  SchedInv'
  <1> USE DEF SchedInv, TypeInv, TypeOK
  <1>1. /\ t = current_tid /\ pc[t] = "user" /\ locked' = 1 /\ t \in held'
        /\ status' = [status EXCEPT ![t] = "READY"]
        /\ UNCHANGED <<stack, current_tid, num_threads, is_first_call, alarm, blocked_threads,
                       pc, cont, loc, next_tid>>
    BY DEF MutexLockFree, MayLock, At, libVars, localVars
  <1>2. status[t] # "BLOCKED" /\ \A u \in Tids : pc[u] # "switch"
    BY <1>1 DEF SleeperIsSwitching, SwitchIsToReady
  <1>3. OnlyMainBefore' /\ NoWaiterOnFreeMutex'
    BY <1>1 DEF OnlyMainBefore, NoWaiterOnFreeMutex
  <1>4. OnlyCurrentRuns' /\ StacksInUseAreLive'
    BY <1>1 DEF OnlyCurrentRuns, StacksInUseAreLive
  <1>5. BlockedIffWaiting'
    <2>1. \A u \in Tids : status'[u] = "BLOCKED" <=> status[u] = "BLOCKED"
      BY <1>1, <1>2
    <2> QED BY <1>1, <2>1 DEF BlockedIffWaiting, Waiting
  <1>6. SwitchIsToReady' /\ SleeperIsSwitching'
    BY <1>1, <1>2 DEF SwitchIsToReady, SleeperIsSwitching
  <1>7. UnusedIsEmpty'
    BY <1>1 DEF UnusedIsEmpty
  <1>8. SlotInCreation'
    <2>1. pc[0] \in {"create_alloc", "create_ready"} => ~is_first_call
      BY DEF OnlyMainBefore
    <2>2. ~is_first_call => status[t] # "EMPTY"
      BY <1>1 DEF UnusedIsEmpty
    <2> QED BY <1>1, <2>1, <2>2 DEF SlotInCreation
  <1> QED BY <1>3, <1>4, <1>5, <1>6, <1>7, <1>8

\* Going to sleep: the caller joins the list as its status becomes BLOCKED.
LEMMA SchedInvLockBusy ==
  ASSUME TypeInv, SchedInv, MainCreates, NEW t \in Tids, MutexLockBusy(t)
  PROVE  SchedInv'
  <1> USE DEF SchedInv, TypeInv, TypeOK
  <1>1. /\ t = current_tid /\ pc[t] = "user" /\ locked = 1 /\ t \notin held
        /\ status' = [status EXCEPT ![t] = "BLOCKED"]
        /\ blocked_threads' = Append(blocked_threads, t)
        /\ pc' = [pc EXCEPT ![t] = "sched"] /\ cont' = [cont EXCEPT ![t] = "lock_ret"]
        /\ UNCHANGED <<stack, current_tid, is_first_call, locked, loc, next_tid>>
    BY DEF MutexLockBusy, MayLock, CallSchedule, At, libVars
  <1>2. ~is_first_call
    BY <1>1 DEF OnlyMainBefore
  <1>3. /\ status[t] # "BLOCKED" /\ status[t] # "EMPTY"
        /\ \A u \in Tids : pc[u] # "switch"
    BY <1>1, <1>2 DEF SleeperIsSwitching, SwitchIsToReady, UnusedIsEmpty
  <1>4. OnlyMainBefore' /\ NoWaiterOnFreeMutex'
    BY <1>1, <1>2 DEF OnlyMainBefore, NoWaiterOnFreeMutex
  <1>5. OnlyCurrentRuns' /\ StacksInUseAreLive' /\ UnusedIsEmpty'
    BY <1>1, <1>2, <1>3 DEF OnlyCurrentRuns, StacksInUseAreLive, UnusedIsEmpty
  <1>6. BlockedIffWaiting'
    <2> DEFINE q == blocked_threads
    <2>1. /\ Range(blocked_threads') = Range(q) \cup {t}
          /\ DOMAIN blocked_threads' = DOMAIN q \cup {Len(q) + 1}
          /\ blocked_threads'[Len(q) + 1] = t
          /\ \A i \in DOMAIN q : i # Len(q) + 1 /\ blocked_threads'[i] = q[i]
      BY <1>1, AppendRange
    <2>2. t \notin Range(q)
      BY <1>3 DEF BlockedIffWaiting, Waiting
    <2>3. \A i \in DOMAIN q : q[i] # t
      BY <2>2 DEF Range
    <2>4. \A i, j \in DOMAIN blocked_threads' :
            blocked_threads'[i] = blocked_threads'[j] => i = j
      BY <2>1, <2>3 DEF BlockedIffWaiting
    <2>5. \A u \in Tids : status'[u] = "BLOCKED" <=> u \in Range(blocked_threads')
      BY <1>1, <2>1 DEF BlockedIffWaiting, Waiting
    <2> QED BY <2>4, <2>5 DEF BlockedIffWaiting, Waiting
  <1>7. SwitchIsToReady' /\ SleeperIsSwitching'
    BY <1>1, <1>3 DEF SwitchIsToReady, SleeperIsSwitching
  <1>8. SlotInCreation'
    BY <1>1, <1>3, MainIsAThread DEF SlotInCreation
  <1> QED BY <1>4, <1>5, <1>6, <1>7, <1>8

\* Waking the first sleeper: it leaves the list as its status becomes READY.
LEMMA SchedInvUnlockWake ==
  ASSUME TypeInv, SchedInv, MainCreates, NEW t \in Tids, MutexUnlockWake(t)
  PROVE  SchedInv'
  <1> USE DEF SchedInv, TypeInv, TypeOK
  <1> DEFINE q == blocked_threads
             h == Head(blocked_threads)
  <1>1. /\ t = current_tid /\ pc[t] = "user" /\ q # <<>>
        /\ status' = [status EXCEPT ![h] = "READY"]
        /\ blocked_threads' = Tail(q) /\ locked' = LockedAfterWake(q)
        /\ pc' = [pc EXCEPT ![t] = "sched"] /\ cont' = [cont EXCEPT ![t] = "user"]
        /\ UNCHANGED <<stack, current_tid, is_first_call, loc, next_tid>>
    BY DEF MutexUnlockWake, MayUnlock, CallSchedule, At, libVars
  <1>2. ~is_first_call
    BY <1>1 DEF OnlyMainBefore
  <1>3. /\ Range(Tail(q)) = Range(q) \ {h} /\ h \in Range(q)
        /\ \A i, j \in DOMAIN Tail(q) : Tail(q)[i] = Tail(q)[j] => i = j
    BY <1>1, TailRange DEF BlockedIffWaiting
  <1>4. h \in Tids
    BY <1>1
  <1> HIDE DEF h
  <1>5. status[h] = "BLOCKED" /\ status[t] # "BLOCKED" /\ \A u \in Tids : pc[u] # "switch"
    BY <1>1, <1>3, <1>4
    DEF BlockedIffWaiting, Waiting, SleeperIsSwitching, SwitchIsToReady
  <1>6. NoWaiterOnFreeMutex'
    BY <1>1 DEF LockedAfterWake, NoWaiterOnFreeMutex
  <1>7. OnlyCurrentRuns' /\ StacksInUseAreLive' /\ UnusedIsEmpty' /\ OnlyMainBefore'
    BY <1>1, <1>2, <1>4, <1>5
    DEF OnlyCurrentRuns, StacksInUseAreLive, UnusedIsEmpty, OnlyMainBefore
  <1>8. BlockedIffWaiting'
    <2>1. \A u \in Tids : status'[u] = "BLOCKED" <=> u \in Range(blocked_threads')
      BY <1>1, <1>3, <1>4 DEF BlockedIffWaiting, Waiting
    <2> QED BY <1>1, <1>3, <2>1 DEF BlockedIffWaiting, Waiting
  <1>9. SwitchIsToReady' /\ SleeperIsSwitching'
    BY <1>1, <1>5 DEF SwitchIsToReady, SleeperIsSwitching
  <1>10. SlotInCreation'
    BY <1>1, <1>4, <1>5, MainIsAThread DEF SlotInCreation
  <1> QED BY <1>6, <1>7, <1>8, <1>9, <1>10

LEMMA SchedInvNext == ASSUME MainCreates PROVE TypeInv /\ SchedInv /\ [Next]_vars => SchedInv'
  <1> SUFFICES ASSUME TypeInv, SchedInv, [Next]_vars PROVE SchedInv'
    OBVIOUS
  <1>1. NoWaiterOnFreeMutex'
    BY NoWaiterNext DEF SchedInv
  <1>2. CASE UNCHANGED vars
    BY <1>2 DEF SchedInv, OnlyCurrentRuns, BlockedIffWaiting, StacksInUseAreLive,
                NoWaiterOnFreeMutex, SwitchIsToReady, SleeperIsSwitching, OnlyMainBefore,
                UnusedIsEmpty, SlotInCreation, Waiting, vars, tcbVars, libVars, sigVars,
                mutexVars, localVars, userVars
  <1>3. CASE Next
    <2>1. PICK t \in Tids : UserStep(t) \/ LibStep(t) \/ Tick(t) \/ Ended(t)
      BY <1>3 DEF Next
    <2>2. CASE Ended(t)
      BY <1>2, <2>2 DEF Ended
    <2>3. CASE \/ CreateFind(t) \/ CreatePublish(t) \/ ExitValue(t) \/ ExitAlarm(t)
               \/ (\E u \in Tids : JoinCall(t, u)) \/ JoinWait(t) \/ MutexLockReturn(t)
               \/ Finish(t)
      BY <1>1, <2>3, SchedInvLocal, SlotInCreationLocal DEF SchedInv
    <2>4. CASE ScheduleSearch(t) \/ ScheduleSwitch(t) \/ Tick(t)
      BY <2>4, SchedInvSearch, SchedInvSwitch, SchedInvTick
    <2>5. CASE CreateCall(t) \/ CreateAlloc(t) \/ CreateReady(t)
      BY <2>5, SchedInvCreateCall, SchedInvCreateFill
    <2>6. CASE ExitStatus(t) \/ \E isNull \in NullRetval : JoinReturn(t, isNull)
      BY <2>6, SchedInvExitJoin
    <2>7. CASE \/ MutexInit(t) \/ MutexDestroy(t) \/ MutexUnlockNoWaiter(t)
               \/ MutexLockFree(t) \/ MutexLockBusy(t) \/ MutexUnlockWake(t)
      BY <2>7, SchedInvMutexQuiet, SchedInvLockFree, SchedInvLockBusy, SchedInvUnlockWake
    <2> QED BY <2>1, <2>2, <2>3, <2>4, <2>5, <2>6, <2>7 DEF UserStep, LibStep
  <1> QED BY <1>2, <1>3

LEMMA SchedInvHolds == ASSUME MainCreates PROVE Spec => []SchedInv
  <1>1. Init => SchedInv
    BY MainIsAThread
    DEF Init, SchedInv, OnlyCurrentRuns, BlockedIffWaiting, StacksInUseAreLive,
        NoWaiterOnFreeMutex, SwitchIsToReady, SleeperIsSwitching, OnlyMainBefore,
        UnusedIsEmpty, SlotInCreation, Waiting, Range
  <1>2. TypeInv /\ SchedInv /\ [Next]_vars => SchedInv'
    BY SchedInvNext
  <1> QED BY <1>1, <1>2, TypeInvHolds, PTL DEF Spec

\* Whenever SIGALRM strikes (outside schedule() itself), no thread that lost the processor
\* is left with status TS_RUNNING, where the search would never find it.
THEOREM PreemptedIsFound == ASSUME MainCreates PROVE Spec => []OnlyCurrentRuns
  <1>1. SchedInv => OnlyCurrentRuns
    BY DEF SchedInv
  <1> QED BY <1>1, SchedInvHolds, PTL

\* The threads with status TS_BLOCKED are exactly the ones on the mutex's list, each once:
\* no wake-up is lost or given to a thread that does not sleep.
THEOREM SleepersAreListed == ASSUME MainCreates PROVE Spec => []BlockedIffWaiting
  <1>1. SchedInv => BlockedIffWaiting
    BY DEF SchedInv
  <1> QED BY <1>1, SchedInvHolds, PTL

\* pthread_join frees no stack that a thread executes on or will be switched to.
THEOREM FreedStacksAreDead == ASSUME MainCreates PROVE Spec => []StacksInUseAreLive
  <1>1. SchedInv => StacksInUseAreLive
    BY DEF SchedInv
  <1> QED BY <1>1, SchedInvHolds, PTL

-----------------------------------------------------------------------------
(* Ids, exit values and the owner of the mutex, for the same programs      *)

\* main is inside pthread_create with a slot chosen; it is inside pthread_join.
Filling == pc[0] \in {"create_alloc", "create_ready", "create_publish"}
Joining == pc[0] = "join" \/ (pc[0] \in {"sched", "switch"} /\ cont[0] = "join")

\* The slots below num_threads, and the one being filled, are the ones with a stack
\* (freed or not), so the next free slot is num_threads itself.
IdInv ==
  /\ ~is_first_call =>
       /\ num_threads \in 1 .. MaxThreads
       /\ \A j \in Tids \ {0} : stack[j] # "null" <=>
            j < num_threads \/ (j = num_threads /\ pc[0] \in {"create_ready", "create_publish"})
  /\ Filling => loc[0] = num_threads /\ num_threads < MaxThreads
  /\ Joining => loc[0] > 0

\* An exited thread has stored its value or never will, and a joined one is out of the
\* scheduler's sight for good.
ExitInv ==
  /\ is_first_call => \A u \in Tids : joined[u] = NotJoined
  /\ ~is_first_call => \A u \in Tids :
       status[u] = "EXITED" => pc[u] = "exit_value" \/ exit_status[u] = u
  /\ \A u \in Tids : joined[u] # NotJoined =>
       /\ status[u] = "EXITED" /\ u # current_tid
       /\ joined[u] = u \/ pc[u] = "exit_value"

\* A thread in pthread_mutex_lock after it was queued: asleep, on its way there with
\* SIGALRM blocked, or woken.
SleepInv ==
  /\ \A u \in Tids : status[u] = "BLOCKED" =>
       \/ pc[u] = "lock_ret"
       \/ u = current_tid /\ pc[u] \in {"sched", "switch"} /\ cont[u] = "lock_ret"
  /\ \A u \in Tids : pc[u] \in {"sched", "switch"} /\ cont[u] = "lock_ret" =>
       u = current_tid /\ sigmask /\ status[u] = "BLOCKED"
  /\ \A u \in Tids : pc[u] = "lock_ret" =>
       ~is_first_call /\ status[u] \in {"READY", "RUNNING", "BLOCKED"}

\* A thread in its critical section can run, main can run or sleeps, and the mutex is
\* never locked after it was destroyed.
OwnerInv ==
  /\ mutex_live => \A u \in held : status[u] \in {"READY", "RUNNING"}
  /\ is_first_call => held \subseteq {0}
  /\ ~is_first_call => status[0] \in {"READY", "RUNNING", "BLOCKED"}
  /\ ~mutex_live => locked = 0
  /\ LockHasOwner

CallInv == IdInv /\ ExitInv /\ SleepInv /\ OwnerInv

LEMMA BelowSuccessor == ASSUME NEW a \in Nat, NEW b \in Nat PROVE a < b + 1 <=> a < b \/ a = b
  OBVIOUS

\* The first slot without a stack is the one num_threads names.
LEMMA FreeSlotIsNext ==
  ASSUME IdInv, ~is_first_call, pc[0] = "create_find", NEW k \in 1 .. MaxThreads, FreeSlot(k),
         num_threads < MaxThreads
  PROVE  k = num_threads
  <1>1. num_threads \in 1 .. MaxThreads - 1 /\ MaxThreads \in Nat
    BY ConstantsOK DEF IdInv
  <1>2. num_threads \in Tids \ {0} /\ stack[num_threads] = "null"
    BY <1>1 DEF IdInv, Tids
  <1>3. ~(num_threads < k)
    BY <1>1, <1>2 DEF FreeSlot
  <1>4. ASSUME k < num_threads PROVE FALSE
    <2>1. k \in Tids \ {0} /\ k < MaxThreads
      BY <1>1, <1>4 DEF Tids
    <2> QED BY <1>4, <2>1 DEF FreeSlot, IdInv
  <1> QED BY <1>1, <1>3, <1>4

\* Steps that leave the table of stacks alone and main where it was in its calls.
LEMMA IdFrame ==
  ASSUME IdInv, UNCHANGED <<is_first_call, num_threads, stack, loc>>,
         Filling' <=> Filling, Joining' => Joining,
         pc'[0] \in {"create_ready", "create_publish"} <=> pc[0] \in {"create_ready", "create_publish"}
  PROVE  IdInv'
  BY DEF IdInv

\* Steps that take no thread out of the processor's reach and leave the mutex alone.
LEMMA OwnerFrame ==
  ASSUME TypeOK, OwnerInv, UNCHANGED <<mutex_live, held, is_first_call, locked>>,
         \A u \in Tids : status[u] \in {"READY", "RUNNING"} =>
           status'[u] \in {"READY", "RUNNING"} \/ (u # 0 /\ (u \in held => ~mutex_live) /\ pc[u] # "lock_ret"),
         \A u \in Tids : status[u] \in {"BLOCKED", "EXITED", "EMPTY"} =>
           status'[u] = status[u] \/ (status'[u] = "READY" /\ u # 0),
         \A u \in Tids : pc[u] = "lock_ret" => pc'[u] = "lock_ret"
  PROVE  OwnerInv'
  <1>1. held \subseteq Tids /\ \A u \in Tids : status[u] \in Status
    BY DEF TypeOK
  <1>2. mutex_live => \A u \in held : status'[u] \in {"READY", "RUNNING"}
    BY <1>1 DEF OwnerInv
  <1>3. ~is_first_call => status'[0] \in {"READY", "RUNNING", "BLOCKED"}
    BY <1>1, MainIsAThread DEF OwnerInv
  <1>4. Woken \subseteq Woken'
    <2> SUFFICES ASSUME NEW u \in Tids, pc[u] = "lock_ret", status[u] # "BLOCKED"
                 PROVE  pc'[u] = "lock_ret" /\ status'[u] # "BLOCKED"
      BY DEF Woken
    <2>1. status[u] \in {"READY", "RUNNING", "EXITED", "EMPTY"}
      BY <1>1 DEF Status
    <2> QED BY <2>1
  <1>5. LockHasOwner'
    BY <1>4 DEF OwnerInv, LockHasOwner
  <1> QED BY <1>2, <1>3, <1>5 DEF OwnerInv

\* Steps inside a call that leave every status as it is.
LEMMA CallInvLocal ==
  ASSUME TypeInv, SchedInv, CallInv, MainCreates, NEW t \in Tids,
         \/ CreateFind(t) \/ CreatePublish(t) \/ ExitValue(t) \/ ExitAlarm(t)
         \/ (\E u \in Tids : JoinCall(t, u)) \/ JoinWait(t) \/ Finish(t)
  PROVE  CallInv'
  <1> USE DEF TypeInv, TypeOK
  <1>1. /\ current_tid = t /\ pc[t] \notin {"sched", "switch", "lock_ret"}
        /\ pc'[t] \notin {"switch", "lock_ret"} /\ (pc'[t] = "sched" => cont'[t] # "lock_ret")
        /\ pc' = [pc EXCEPT ![t] = pc'[t]]
        /\ \A u \in Tids \ {t} : pc'[u] = pc[u] /\ cont'[u] = cont[u]
        /\ UNCHANGED <<status, stack, current_tid, is_first_call, locked, mutex_live, held, sigmask,
                       joined>>
    BY DEF CreateFind, CreatePublish, ExitValue, ExitAlarm, JoinCall, JoinWait,
           Finish, At, GoTo, CallSchedule, tcbVars, libVars, sigVars, mutexVars, userVars
  <1>2. OwnerInv'
    BY <1>1, OwnerFrame DEF CallInv, Status
  <1>3. SleepInv'
    BY <1>1 DEF CallInv, SleepInv
  <1>4. ExitInv'
    <2>1. \A u \in Tids : /\ pc[u] = "exit_value" => pc'[u] = "exit_value" \/ (u = t /\ exit_status'[u] = u)
                          /\ exit_status[u] = u => exit_status'[u] = u
      BY <1>1 DEF CreateFind, CreatePublish, ExitValue, ExitAlarm, JoinCall, JoinWait,
                  Finish, At, tcbVars
    <2> QED BY <1>1, <2>1 DEF CallInv, ExitInv
  <1>5. IdInv'
    <2> USE DEF Filling, Joining
    <2>1. IdInv /\ t = current_tid
      BY <1>1 DEF CallInv
    <2>2. CASE CreateFind(t)
      <3>1. t = 0 /\ ~is_first_call /\ pc[0] = "create_find" /\ UNCHANGED <<num_threads, stack>>
        BY <2>2 DEF CreateFind, At, SchedInv, SlotInCreation, OnlyMainBefore, libVars, tcbVars
      <3>2. CASE num_threads >= MaxThreads
        BY <1>1, <2>1, <2>2, <3>1, <3>2, IdFrame DEF CreateFind, GoTo
      <3>3. CASE ~(num_threads >= MaxThreads)
        <4>1. PICK k \in 1 .. MaxThreads : FreeSlot(k) /\ loc' = [loc EXCEPT ![0] = k]
          BY <2>2, <3>1, <3>3 DEF CreateFind
        <4>2. num_threads < MaxThreads
          BY <3>3, ConstantsOK
        <4>3. loc'[0] = num_threads
          BY <2>1, <3>1, <4>1, <4>2, FreeSlotIsNext
        <4>4. pc'[0] = "create_alloc"
          BY <2>2, <3>1, <3>3 DEF CreateFind, GoTo
        <4> QED BY <1>1, <2>1, <3>1, <4>2, <4>3, <4>4 DEF IdInv
      <3> QED BY <3>2, <3>3
    <2>3. CASE CreatePublish(t)
      <3>1. /\ t = 0 /\ ~is_first_call /\ pc[0] = "create_publish" /\ num_threads' = num_threads + 1
            /\ pc'[0] = "user"
        BY <2>3 DEF CreatePublish, At, GoTo, SchedInv, SlotInCreation, OnlyMainBefore
      <3>2. num_threads \in 1 .. MaxThreads /\ num_threads < MaxThreads /\ MaxThreads \in Nat
        BY <2>1, <3>1, ConstantsOK DEF IdInv
      <3>3. \A j \in Tids \ {0} : stack'[j] # "null" <=> j < num_threads'
        <4>1. \A j \in Tids \ {0} : stack[j] # "null" <=> j < num_threads \/ j = num_threads
          BY <2>1, <3>1 DEF IdInv
        <4>2. \A j \in Tids \ {0} : j \in Nat
          BY DEF Tids
        <4>3. \A j \in Tids \ {0} : j < num_threads' <=> j < num_threads \/ j = num_threads
          BY <3>1, <4>2, BelowSuccessor
        <4> QED BY <1>1, <4>1, <4>3
      <3>4. num_threads' \in 1 .. MaxThreads
        BY <3>1, <3>2
      <3> QED BY <1>1, <3>1, <3>3, <3>4 DEF IdInv
    <2>4. CASE ExitValue(t) \/ ExitAlarm(t) \/ Finish(t)
      <3>1. UNCHANGED <<num_threads, loc>>
        BY <2>4 DEF ExitValue, ExitAlarm, Finish, libVars
      <3>2. pc[t] \in {"exit_value", "exit_alarm", "user"}
            /\ (pc'[t] \in {"exit_alarm", "done"} \/ (pc'[t] = "sched" /\ cont'[t] = "dead"))
        BY <2>4 DEF ExitValue, ExitAlarm, Finish, At, GoTo, CallSchedule
      <3> QED BY <1>1, <2>1, <3>1, <3>2, MainIsAThread, IdFrame
    <2>5. CASE \E u \in Tids : JoinCall(t, u)
      <3>1. PICK u \in Tids : JoinCall(t, u)
        BY <2>5
      <3>2. t = 0 /\ u > 0 /\ loc'[0] = u /\ pc'[0] = "join" /\ pc[0] = "user" /\ num_threads' = num_threads
        BY <3>1 DEF JoinCall, At, GoTo, MainCreates, libVars
      <3> QED BY <1>1, <2>1, <3>2 DEF IdInv
    <2>6. CASE JoinWait(t)
      <3>1. t = 0 /\ pc[0] = "join" /\ pc'[0] = "sched" /\ UNCHANGED <<num_threads, loc>>
        BY <2>6 DEF JoinWait, At, CallSchedule, SchedInv, SlotInCreation, libVars
      <3> QED BY <1>1, <2>1, <3>1, IdFrame
    <2> QED BY <2>2, <2>3, <2>4, <2>5, <2>6
  <1> QED BY <1>2, <1>3, <1>4, <1>5 DEF CallInv

\* A woken waiter leaves pthread_mutex_lock.
LEMMA CallInvLockReturn ==
  ASSUME TypeInv, SchedInv, CallInv, MainCreates, NEW t \in Tids, MutexLockReturn(t)
  PROVE  CallInv'
  <1> USE DEF TypeInv, TypeOK
  <1>1. /\ current_tid = t /\ pc[t] = "lock_ret" /\ pc' = [pc EXCEPT ![t] = "user"]
        /\ held' = IF FailIsHeld THEN held \cup {t} ELSE held
        /\ UNCHANGED <<status, stack, exit_status, current_tid, is_first_call, num_threads, locked,
                       mutex_live, sigmask, cont, loc, joined>>
    BY DEF MutexLockReturn, At, GoTo, tcbVars, libVars, sigVars, mutexVars
  <1>2. status[t] \in {"READY", "RUNNING"} /\ ~is_first_call
    BY <1>1 DEF CallInv, SleepInv, SchedInv, SleeperIsSwitching
  <1>3. IdInv'
    BY <1>1, MainIsAThread, IdFrame DEF CallInv, Filling, Joining
  <1>4. ExitInv'
    BY <1>1 DEF CallInv, ExitInv
  <1>5. SleepInv'
    <2>1. pc'[t] = "user" /\ \A u \in Tids \ {t} : pc'[u] = pc[u]
      BY <1>1
    <2>2. status'[t] # "BLOCKED"
      BY <1>1, <1>2
    <2> QED BY <1>1, <2>1, <2>2 DEF CallInv, SleepInv
  <1>6. LockHasOwner'
    BY <1>1 DEF LockHasOwner, Woken, CallInv, OwnerInv
  <1>7. OwnerInv'
    BY <1>1, <1>2, <1>6 DEF CallInv, OwnerInv
  <1> QED BY <1>3, <1>4, <1>5, <1>7 DEF CallInv

\* The search of a schedule() called by the library.
LEMMA CallInvSearch ==
  ASSUME TypeInv, SchedInv, CallInv, MainCreates, NEW t \in Tids, ScheduleSearch(t)
  PROVE  CallInv'
  <1>1. /\ t = current_tid /\ pc[t] = "sched" /\ status' = Preempted(status, t)
        /\ pc' = [pc EXCEPT ![t] = "switch"]
        /\ UNCHANGED <<stack, exit_status, current_tid, is_first_call, num_threads, locked,
                       mutex_live, sigmask, cont, loc, held, joined>>
    BY DEF ScheduleSearch, At, GoTo, libVars, sigVars, mutexVars, userVars
  <1>2. \A u \in Tids :
          status'[u] = IF u = t /\ status[u] = "RUNNING" THEN "READY" ELSE status[u]
    BY <1>1, PreemptedAt DEF TypeInv, TypeOK
  <1>3. pc'[t] = "switch" /\ \A u \in Tids \ {t} : pc'[u] = pc[u]
    BY <1>1 DEF TypeInv, TypeOK
  <1>4. IdInv'
    BY <1>1, <1>3, MainIsAThread, IdFrame DEF CallInv, Filling, Joining
  <1>5. ExitInv'
    BY <1>1, <1>2, <1>3 DEF CallInv, ExitInv
  <1>6. SleepInv'
    BY <1>1, <1>2, <1>3 DEF CallInv, SleepInv
  <1>7. OwnerInv'
    BY <1>1, <1>2, <1>3, OwnerFrame DEF CallInv, TypeInv
  <1> QED BY <1>4, <1>5, <1>6, <1>7 DEF CallInv

\* The switch: a caller that fell asleep is now waiting to be woken.
LEMMA CallInvSwitch ==
  ASSUME TypeInv, SchedInv, CallInv, MainCreates, NEW t \in Tids, ScheduleSwitch(t)
  PROVE  CallInv'
  <1>1. PICK n : n = next_tid[t]
    OBVIOUS
  <1>2. /\ t = current_tid /\ pc[t] = "switch" /\ n \in Tids
        /\ current_tid' = n /\ status' = [status EXCEPT ![n] = "RUNNING"]
        /\ pc' = [pc EXCEPT ![t] = cont[t]] /\ cont' = [cont EXCEPT ![t] = "user"]
        /\ UNCHANGED <<stack, exit_status, is_first_call, num_threads, locked, mutex_live,
                       loc, held, joined>>
    BY <1>1 DEF ScheduleSwitch, At, GoTo, libVars, mutexVars, userVars, TypeInv, TypeOK
  <1>3. status[n] = "READY"
    BY <1>1, <1>2 DEF SchedInv, SwitchIsToReady
  <1>4. \A u \in Tids : status'[u] = IF u = n THEN "RUNNING" ELSE status[u]
    BY <1>2 DEF TypeInv, TypeOK
  <1>5. /\ pc'[t] = cont[t] /\ cont'[t] = "user" /\ cont[t] \in {"user", "join", "lock_ret", "dead"}
        /\ \A u \in Tids \ {t} : pc'[u] = pc[u] /\ cont'[u] = cont[u]
    BY <1>2 DEF TypeInv, TypeOK
  <1>6. ~is_first_call
    BY <1>2 DEF SchedInv, OnlyMainBefore
  <1>7. IdInv'
    <2>1. CASE t = 0
      BY <1>2, <1>5, <2>1, IdFrame DEF CallInv, Filling, Joining
    <2>2. CASE t # 0
      BY <1>2, <1>5, <2>2, MainIsAThread, IdFrame DEF CallInv, Filling, Joining
    <2> QED BY <2>1, <2>2
  <1>8. ExitInv'
    BY <1>2, <1>3, <1>4, <1>5, <1>6 DEF CallInv, ExitInv
  <1>9. SleepInv'
    <2>1. cont[t] = "lock_ret" => status[t] = "BLOCKED" /\ status'[t] = "BLOCKED"
      BY <1>2, <1>3, <1>4 DEF CallInv, SleepInv
    <2>2. ASSUME NEW u \in Tids, status'[u] = "BLOCKED" PROVE pc'[u] = "lock_ret"
      BY <1>2, <1>4, <1>5, <2>2 DEF CallInv, SleepInv
    <2>3. ASSUME NEW u \in Tids PROVE ~(pc'[u] \in {"sched", "switch"} /\ cont'[u] = "lock_ret")
      BY <1>2, <1>5 DEF CallInv, SleepInv
    <2>4. ASSUME NEW u \in Tids, pc'[u] = "lock_ret"
          PROVE  status'[u] \in {"READY", "RUNNING", "BLOCKED"}
      BY <1>2, <1>4, <1>5, <2>1, <2>4 DEF CallInv, SleepInv
    <2> QED BY <1>2, <1>6, <2>2, <2>3, <2>4 DEF SleepInv
  <1>10. OwnerInv'
    BY <1>2, <1>3, <1>4, <1>5, OwnerFrame DEF CallInv, TypeInv
  <1> QED BY <1>7, <1>8, <1>9, <1>10 DEF CallInv

\* The SIGALRM handler never interrupts a thread on its way to sleep: the signal is blocked.
LEMMA CallInvTick ==
  ASSUME TypeInv, SchedInv, CallInv, MainCreates, NEW t \in Tids, Tick(t)
  PROVE  CallInv'
  <1>1. PICK n \in Tids :
          /\ IsNext(Preempted(status, t), t, n)
          /\ current_tid' = n
          /\ status' = [Preempted(status, t) EXCEPT ![n] = "RUNNING"]
    BY DEF Tick
  <1>2. /\ t = current_tid /\ ~sigmask
        /\ UNCHANGED <<stack, exit_status, is_first_call, num_threads, locked, mutex_live,
                       pc, cont, loc, held, joined>>
    BY DEF Tick, libVars, mutexVars, localVars, userVars
  <1>3. \A u \in Tids :
          status'[u] = IF u = n THEN "RUNNING"
                       ELSE IF u = t /\ status[u] = "RUNNING" THEN "READY" ELSE status[u]
    <2>1. Preempted(status, t) \in [Tids -> Status]
      BY PreemptedType DEF TypeInv, TypeOK
    <2>2. \A u \in Tids : status'[u] = IF u = n THEN "RUNNING" ELSE Preempted(status, t)[u]
      BY <1>1, <2>1
    <2> QED BY <2>2, PreemptedAt DEF TypeInv, TypeOK
  <1>4. status[n] \in {"READY", "RUNNING"}
    BY <1>1, PreemptedAt DEF IsNext, TypeInv, TypeOK
  <1>5. IdInv'
    BY <1>2, IdFrame DEF CallInv, Filling, Joining
  <1>6. ExitInv'
    BY <1>1, <1>2, <1>3, <1>4 DEF CallInv, ExitInv
  <1>7. SleepInv'
    BY <1>1, <1>2, <1>3, <1>4 DEF CallInv, SleepInv
  <1>8. OwnerInv'
    BY <1>2, <1>3, <1>4, OwnerFrame DEF CallInv, TypeInv
  <1> QED BY <1>5, <1>6, <1>7, <1>8 DEF CallInv

\* pthread_create; its first call gives every TCB a status.
LEMMA CallInvCreateCall ==
  ASSUME TypeInv, SchedInv, CallInv, MainCreates, NEW t \in Tids, CreateCall(t)
  PROVE  CallInv'
  <1>1. /\ t = 0 /\ current_tid = 0 /\ pc[0] = "user" /\ ~is_first_call'
        /\ pc' = [pc EXCEPT ![0] = "create_find"]
        /\ UNCHANGED <<exit_status, current_tid, locked, mutex_live, sigmask, cont, loc, held, joined>>
    BY DEF CreateCall, At, GoTo, MainCreates, mutexVars, userVars
  <1>2. pc'[0] = "create_find" /\ \A u \in Tids \ {0} : pc'[u] = pc[u]
    BY <1>1, MainIsAThread DEF TypeInv, TypeOK
  <1>3. CASE is_first_call
    <2>1. /\ \A u \in Tids : status'[u] = IF u = 0 THEN "READY" ELSE "EMPTY"
          /\ \A u \in Tids : stack'[u] = "null"
          /\ num_threads' = 1
      BY <1>3 DEF CreateCall
    <2>2. \A u \in Tids : pc[u] # "lock_ret" /\ ~(pc[u] \in {"sched", "switch"} /\ cont[u] = "lock_ret")
      BY <1>1, <1>3 DEF CallInv, SleepInv
    <2>3. IdInv'
      <3>1. 1 \in 1 .. MaxThreads /\ \A j \in Tids \ {0} : ~(j < 1)
        BY ConstantsOK DEF Tids
      <3> QED BY <1>1, <1>2, <2>1, <3>1 DEF IdInv, Filling, Joining
    <2>4. ExitInv'
      BY <1>1, <1>2, <1>3, <2>1 DEF CallInv, ExitInv
    <2>5. SleepInv'
      BY <1>1, <1>2, <2>1, <2>2 DEF SleepInv
    <2>6. locked = 1 => held # {}
      BY <1>3 DEF SchedInv, OnlyMainBefore
    <2>7. OwnerInv'
      BY <1>1, <1>3, <2>1, <2>6, MainIsAThread DEF CallInv, OwnerInv, LockHasOwner, TypeInv, TypeOK
    <2> QED BY <2>3, <2>4, <2>5, <2>7 DEF CallInv
  <1>4. CASE ~is_first_call
    <2>1. UNCHANGED <<status, stack, num_threads, is_first_call>>
      BY <1>1, <1>4 DEF CreateCall, TypeInv, TypeOK
    <2>2. IdInv'
      BY <1>1, <1>2, <2>1, IdFrame DEF CallInv, Filling, Joining
    <2>3. ExitInv'
      BY <1>1, <1>2, <2>1, MainIsAThread DEF CallInv, ExitInv
    <2>4. SleepInv'
      BY <1>1, <1>2, <2>1, MainIsAThread DEF CallInv, SleepInv
    <2>5. OwnerInv'
      BY <1>1, <1>2, <2>1, MainIsAThread, OwnerFrame DEF CallInv, TypeInv
    <2> QED BY <2>2, <2>3, <2>4, <2>5 DEF CallInv
  <1> QED BY <1>3, <1>4

\* Filling the slot num_threads names.
LEMMA CallInvCreateFill ==
  ASSUME TypeInv, SchedInv, CallInv, MainCreates, NEW t \in Tids, CreateAlloc(t) \/ CreateReady(t)
  PROVE  CallInv'
  <1>1. PICK k : k = loc[0]
    OBVIOUS
  <1>2. /\ t = 0 /\ current_tid = 0 /\ pc[0] \in {"create_alloc", "create_ready"}
        /\ k \in Tids /\ k # 0 /\ status[k] = "EMPTY"
        /\ UNCHANGED <<exit_status, current_tid, is_first_call, num_threads, locked, mutex_live,
                       sigmask, cont, loc, held, joined>>
    BY <1>1 DEF CreateAlloc, CreateReady, At, SchedInv, SlotInCreation, libVars, sigVars, mutexVars,
                userVars
  <1>3. ~is_first_call /\ k = num_threads /\ num_threads < MaxThreads
    BY <1>1, <1>2 DEF SchedInv, OnlyMainBefore, CallInv, IdInv, Filling
  <1>4. /\ pc[k] # "lock_ret"
        /\ ~(pc[k] \in {"sched", "switch"} /\ cont[k] = "lock_ret")
    BY <1>2 DEF CallInv, SleepInv
  <1>5. CASE CreateAlloc(t)
    <2>1. /\ stack' = [stack EXCEPT ![k] = "alloc"] /\ status' = status
          /\ pc' = [pc EXCEPT ![k] = "user", ![0] = "create_ready"] /\ pc[0] = "create_alloc"
      BY <1>1, <1>2, <1>5 DEF CreateAlloc, At
    <2>2. /\ pc'[0] = "create_ready" /\ pc'[k] = "user" /\ stack'[k] = "alloc"
          /\ \A u \in Tids \ {0, k} : pc'[u] = pc[u]
          /\ \A u \in Tids \ {k} : stack'[u] = stack[u]
      BY <1>2, <2>1, MainIsAThread DEF TypeInv, TypeOK
    <2>3. IdInv'
      BY <1>2, <1>3, <2>1, <2>2 DEF CallInv, IdInv, Filling, Joining
    <2>4. ExitInv'
      BY <1>2, <2>1, <2>2 DEF CallInv, ExitInv
    <2>5. SleepInv'
      BY <1>2, <1>4, <2>1, <2>2 DEF CallInv, SleepInv
    <2>6. OwnerInv'
      BY <1>2, <1>4, <2>1, <2>2, OwnerFrame DEF CallInv, TypeInv
    <2> QED BY <2>3, <2>4, <2>5, <2>6 DEF CallInv
  <1>6. CASE CreateReady(t)
    <2>1. /\ status' = [status EXCEPT ![k] = "READY"] /\ stack' = stack
          /\ pc' = [pc EXCEPT ![0] = "create_publish"] /\ pc[0] = "create_ready"
      BY <1>1, <1>2, <1>6 DEF CreateReady, At, GoTo
    <2>2. /\ pc'[0] = "create_publish" /\ \A u \in Tids \ {0} : pc'[u] = pc[u]
          /\ status'[k] = "READY" /\ \A u \in Tids \ {k} : status'[u] = status[u]
      BY <1>2, <2>1, MainIsAThread DEF TypeInv, TypeOK
    <2>3. IdInv'
      BY <1>2, <2>1, <2>2, IdFrame DEF CallInv, Filling, Joining
    <2>4. ExitInv'
      BY <1>2, <2>1, <2>2, MainIsAThread DEF CallInv, ExitInv
    <2>5. SleepInv'
      BY <1>2, <1>4, <2>1, <2>2, MainIsAThread DEF CallInv, SleepInv
    <2>6. OwnerInv'
      BY <1>2, <1>4, <2>1, <2>2, OwnerFrame DEF CallInv, TypeInv
    <2> QED BY <2>3, <2>4, <2>5, <2>6 DEF CallInv
  <1> QED BY <1>5, <1>6

\* A thread marks itself as exited, and main takes the value of an exited one.
LEMMA CallInvExitJoin ==
  ASSUME TypeInv, SchedInv, CallInv, MainCreates, NEW t \in Tids,
         ExitStatus(t) \/ \E isNull \in NullRetval : JoinReturn(t, isNull)
  PROVE  CallInv'
  <1>1. /\ t = current_tid /\ pc[t] \in {"user", "join"}
        /\ UNCHANGED <<exit_status, current_tid, is_first_call, num_threads, locked, mutex_live,
                       sigmask, cont, held>>
    BY DEF ExitStatus, JoinReturn, At, libVars, sigVars, mutexVars, userVars
  <1>2. CASE ExitStatus(t)
    <2>1. /\ status' = [status EXCEPT ![t] = "EXITED"] /\ UNCHANGED <<stack, loc, joined>>
          /\ t # 0 /\ pc[t] = "user" /\ pc' = [pc EXCEPT ![t] = "exit_value"]
          /\ t \in held => ~mutex_live
      BY <1>2 DEF ExitStatus, At, GoTo, userVars
    <2>2. /\ pc'[t] = "exit_value" /\ \A u \in Tids \ {t} : pc'[u] = pc[u]
          /\ status'[t] = "EXITED" /\ \A u \in Tids \ {t} : status'[u] = status[u]
      BY <2>1 DEF TypeInv, TypeOK
    <2>3. IdInv'
      BY <1>1, <2>1, <2>2, MainIsAThread, IdFrame DEF CallInv, Filling, Joining
    <2>4. ExitInv'
      BY <1>1, <2>1, <2>2 DEF CallInv, ExitInv
    <2>5. SleepInv'
      BY <1>1, <2>1, <2>2 DEF CallInv, SleepInv
    <2>6. status[t] # "BLOCKED" /\ status[t] # "EMPTY"
      <3>1. ~is_first_call
        BY <1>1, <2>1 DEF SchedInv, OnlyMainBefore
      <3> QED BY <1>1, <2>1, <3>1 DEF SchedInv, SleeperIsSwitching, UnusedIsEmpty
    <2>7. OwnerInv'
      BY <1>1, <2>1, <2>2, <2>6, OwnerFrame DEF CallInv, TypeInv
    <2> QED BY <2>3, <2>4, <2>5, <2>7 DEF CallInv
  <1>3. CASE \E isNull \in NullRetval : JoinReturn(t, isNull)
    <2>1. PICK k : k = loc[t]
      OBVIOUS
    <2>2. /\ pc[t] = "join" /\ k \in Tids /\ status[k] = "EXITED" /\ status' = status
          /\ stack' = [stack EXCEPT ![k] = "freed"] /\ joined' = [joined EXCEPT ![k] = exit_status[k]]
          /\ pc' = [pc EXCEPT ![t] = "crash"] \/ pc' = [pc EXCEPT ![t] = "user"]
      BY <1>3, <2>1 DEF JoinReturn, At, GoTo, HasExited, JoinsASlot, TypeInv
    <2>3. t = 0 /\ ~is_first_call
      BY <1>1, <2>2 DEF SchedInv, SlotInCreation, OnlyMainBefore
    <2>4. k # 0
      BY <2>1, <2>2, <2>3 DEF CallInv, IdInv, Joining
    <2>5. /\ pc'[0] \in {"crash", "user"} /\ \A u \in Tids \ {0} : pc'[u] = pc[u]
          /\ stack'[k] = "freed" /\ \A u \in Tids \ {k} : stack'[u] = stack[u]
          /\ joined'[k] = exit_status[k] /\ \A u \in Tids \ {k} : joined'[u] = joined[u]
      BY <2>2, <2>3 DEF TypeInv, TypeOK
    <2>6. stack[k] # "null"
      BY <2>2, <2>3, <2>4 DEF SchedInv, UnusedIsEmpty
    <2>7. IdInv'
      <3>1. \A j \in Tids : stack'[j] # "null" <=> stack[j] # "null"
        BY <2>2, <2>5, <2>6
      <3> QED BY <1>1, <2>2, <2>3, <2>5, <3>1 DEF CallInv, IdInv, Filling, Joining
    <2>8. ExitInv'
      <3>1. pc[k] = "exit_value" \/ exit_status[k] = k
        BY <2>2, <2>3 DEF CallInv, ExitInv
      <3> QED BY <1>1, <2>2, <2>3, <2>4, <2>5, <3>1, MainIsAThread DEF CallInv, ExitInv
    <2>9. SleepInv'
      BY <1>1, <2>2, <2>3, <2>5, MainIsAThread DEF CallInv, SleepInv
    <2>10. OwnerInv'
      BY <1>1, <2>2, <2>3, <2>5, MainIsAThread, OwnerFrame DEF CallInv, TypeInv
    <2> QED BY <2>7, <2>8, <2>9, <2>10 DEF CallInv
  <1> QED BY <1>2, <1>3

\* Mutex operations that leave every thread's status as it is.
LEMMA CallInvMutexQuiet ==
  ASSUME TypeInv, SchedInv, CallInv, MainCreates, NEW t \in Tids,
         MutexInit(t) \/ MutexDestroy(t) \/ MutexUnlockNoWaiter(t)
  PROVE  CallInv'
  <1>1. /\ t = current_tid /\ pc[t] = "user" /\ locked' = 0 /\ held' \subseteq held
        /\ UNCHANGED <<status, stack, exit_status, current_tid, num_threads, is_first_call, pc, cont,
                       loc, joined>>
    BY DEF MutexInit, MutexDestroy, MutexUnlockNoWaiter, MayUnlock, At, tcbVars, libVars,
           sigVars, localVars, userVars
  <1>2. IdInv' /\ ExitInv'
    BY <1>1 DEF CallInv, IdInv, ExitInv, Filling, Joining
  <1>3. SleepInv'
    <2>1. \A u \in Tids : ~(pc[u] \in {"sched", "switch"} /\ cont[u] = "lock_ret")
      BY <1>1 DEF CallInv, SleepInv
    <2> QED BY <1>1, <2>1 DEF CallInv, SleepInv
  <1>4. mutex_live' => \A u \in held' : status'[u] \in {"READY", "RUNNING"}
    BY <1>1 DEF MutexInit, MutexDestroy, MutexUnlockNoWaiter, MayUnlock, CallInv, OwnerInv, userVars
  <1>5. OwnerInv'
    BY <1>1, <1>4 DEF CallInv, OwnerInv, LockHasOwner
  <1> QED BY <1>2, <1>3, <1>5 DEF CallInv

\* Taking a free mutex, and going to sleep on a taken one.
LEMMA CallInvLock ==
  ASSUME TypeInv, SchedInv, CallInv, MainCreates, NEW t \in Tids, MutexLockFree(t) \/ MutexLockBusy(t)
  PROVE  CallInv'
  <1>1. /\ t = current_tid /\ pc[t] = "user" /\ mutex_live /\ t \notin held
        /\ UNCHANGED <<stack, exit_status, current_tid, num_threads, is_first_call, mutex_live, loc,
                       joined>>
    BY DEF MutexLockFree, MutexLockBusy, MayLock, At, libVars, localVars
  <1>2. joined[t] = NotJoined
    BY <1>1 DEF CallInv, ExitInv
  <1>3. \A u \in Tids : ~(pc[u] \in {"sched", "switch"} /\ cont[u] = "lock_ret")
    BY <1>1 DEF CallInv, SleepInv
  <1>4. CASE MutexLockFree(t)
    <2>1. /\ status' = [status EXCEPT ![t] = "READY"] /\ locked' = 1 /\ held' = held \cup {t}
          /\ UNCHANGED <<pc, cont>>
      BY <1>4 DEF MutexLockFree, localVars
    <2>2. status'[t] = "READY" /\ \A u \in Tids \ {t} : status'[u] = status[u]
      BY <2>1 DEF TypeInv, TypeOK
    <2>3. IdInv'
      BY <1>1, <2>1, IdFrame DEF CallInv, Filling, Joining
    <2>4. ExitInv'
      BY <1>1, <1>2, <2>1, <2>2 DEF CallInv, ExitInv
    <2>5. SleepInv'
      BY <1>1, <1>3, <2>1, <2>2 DEF CallInv, SleepInv
    <2>6. t = 0 \/ ~is_first_call
      BY <1>1 DEF SchedInv, OnlyMainBefore
    <2>7. held \subseteq Tids
      BY DEF TypeInv, TypeOK
    <2>8. OwnerInv'
      BY <1>1, <2>1, <2>2, <2>6, <2>7, MainIsAThread DEF CallInv, OwnerInv, LockHasOwner
    <2> QED BY <2>3, <2>4, <2>5, <2>8 DEF CallInv
  <1>5. CASE MutexLockBusy(t)
    <2>1. /\ status' = [status EXCEPT ![t] = "BLOCKED"] /\ UNCHANGED <<locked, held>>
          /\ pc' = [pc EXCEPT ![t] = "sched"] /\ cont' = [cont EXCEPT ![t] = "lock_ret"] /\ sigmask'
          /\ locked # 0
      BY <1>5 DEF MutexLockBusy, CallSchedule
    <2>2. /\ status'[t] = "BLOCKED" /\ \A u \in Tids \ {t} : status'[u] = status[u]
          /\ pc'[t] = "sched" /\ \A u \in Tids \ {t} : pc'[u] = pc[u]
          /\ cont'[t] = "lock_ret" /\ \A u \in Tids \ {t} : cont'[u] = cont[u]
      BY <2>1 DEF TypeInv, TypeOK
    <2>3. IdInv'
      BY <1>1, <2>1, <2>2, MainIsAThread, IdFrame DEF CallInv, Filling, Joining
    <2>4. ExitInv'
      BY <1>1, <1>2, <2>1, <2>2 DEF CallInv, ExitInv
    <2>5. SleepInv'
      BY <1>1, <1>3, <2>1, <2>2 DEF CallInv, SleepInv
    <2>6. Woken \subseteq Woken'
      BY <1>1, <2>2 DEF Woken
    <2>7. held \subseteq Tids
      BY DEF TypeInv, TypeOK
    <2>8. OwnerInv'
      BY <1>1, <2>1, <2>2, <2>6, <2>7, MainIsAThread DEF CallInv, OwnerInv, LockHasOwner
    <2> QED BY <2>3, <2>4, <2>5, <2>8 DEF CallInv
  <1> QED BY <1>4, <1>5

\* Waking the first sleeper makes it the one who will clear m->locked.
LEMMA CallInvUnlockWake ==
  ASSUME TypeInv, SchedInv, CallInv, MainCreates, NEW t \in Tids, MutexUnlockWake(t)
  PROVE  CallInv'
  <1>1. PICK h : h = Head(blocked_threads)
    OBVIOUS
  <1>2. /\ t = current_tid /\ pc[t] = "user" /\ t \in held /\ mutex_live /\ blocked_threads # <<>>
        /\ status' = [status EXCEPT ![h] = "READY"] /\ held' = held \ {t}
        /\ pc' = [pc EXCEPT ![t] = "sched"] /\ cont' = [cont EXCEPT ![t] = "user"]
        /\ UNCHANGED <<stack, exit_status, current_tid, num_threads, is_first_call, mutex_live, loc,
                       joined>>
    BY <1>1 DEF MutexUnlockWake, MayUnlock, CallSchedule, At, libVars
  <1>3. h \in Tids /\ status[h] = "BLOCKED"
    <2>1. blocked_threads \in Seq(Tids)
      BY DEF TypeInv, TypeOK
    <2>2. h \in Range(blocked_threads)
      BY <1>1, <1>2, <2>1, TailRange DEF SchedInv, BlockedIffWaiting
    <2>3. h \in Tids
      BY <1>1, <1>2, <2>1
    <2> QED BY <2>2, <2>3 DEF SchedInv, BlockedIffWaiting, Waiting
  <1>4. status[t] \in {"READY", "RUNNING"}
    BY <1>2 DEF CallInv, OwnerInv
  <1>5. pc[h] = "lock_ret" /\ h # t /\ ~is_first_call
    BY <1>2, <1>3, <1>4 DEF CallInv, SleepInv
  <1>6. /\ status'[h] = "READY" /\ \A u \in Tids \ {h} : status'[u] = status[u]
        /\ pc'[t] = "sched" /\ \A u \in Tids \ {t} : pc'[u] = pc[u]
        /\ cont'[t] = "user" /\ \A u \in Tids \ {t} : cont'[u] = cont[u]
    BY <1>2, <1>3 DEF TypeInv, TypeOK
  <1>7. IdInv'
    BY <1>2, <1>6, MainIsAThread, IdFrame DEF CallInv, Filling, Joining
  <1>8. ExitInv'
    BY <1>2, <1>3, <1>6 DEF CallInv, ExitInv
  <1>9. SleepInv'
    <2>1. \A u \in Tids : ~(pc[u] \in {"sched", "switch"} /\ cont[u] = "lock_ret")
      BY <1>2 DEF CallInv, SleepInv
    <2> QED BY <1>2, <1>5, <1>6, <2>1 DEF CallInv, SleepInv
  <1>10. OwnerInv'
    <2>1. h \in Woken'
      BY <1>3, <1>5, <1>6 DEF Woken
    <2>2. \A u \in held' : status'[u] \in {"READY", "RUNNING"}
      BY <1>2, <1>6 DEF CallInv, OwnerInv, TypeInv, TypeOK
    <2>3. status'[0] \in {"READY", "RUNNING", "BLOCKED"}
      BY <1>5, <1>6, MainIsAThread DEF CallInv, OwnerInv
    <2> QED BY <1>2, <1>5, <2>1, <2>2, <2>3 DEF OwnerInv, LockHasOwner
  <1> QED BY <1>7, <1>8, <1>9, <1>10 DEF CallInv

LEMMA CallInvNext ==
  ASSUME MainCreates PROVE TypeInv /\ SchedInv /\ CallInv /\ [Next]_vars => CallInv'
  <1> SUFFICES ASSUME TypeInv, SchedInv, CallInv, [Next]_vars PROVE CallInv'
    OBVIOUS
  <1>1. CASE UNCHANGED vars
    BY <1>1 DEF CallInv, IdInv, ExitInv, SleepInv, OwnerInv, LockHasOwner, Woken, Filling, Joining,
                vars, tcbVars, libVars, sigVars, mutexVars, localVars, userVars
  <1>2. CASE Next
    <2>1. PICK t \in Tids : UserStep(t) \/ LibStep(t) \/ Tick(t) \/ Ended(t)
      BY <1>2 DEF Next
    <2>2. CASE Ended(t)
      BY <1>1, <2>2 DEF Ended
    <2>3. CASE \/ CreateFind(t) \/ CreatePublish(t) \/ ExitValue(t) \/ ExitAlarm(t)
               \/ (\E u \in Tids : JoinCall(t, u)) \/ JoinWait(t) \/ Finish(t)
               \/ MutexLockReturn(t)
      BY <2>3, CallInvLocal, CallInvLockReturn
    <2>4. CASE ScheduleSearch(t) \/ ScheduleSwitch(t) \/ Tick(t)
      BY <2>4, CallInvSearch, CallInvSwitch, CallInvTick
    <2>5. CASE CreateCall(t) \/ CreateAlloc(t) \/ CreateReady(t)
      BY <2>5, CallInvCreateCall, CallInvCreateFill
    <2>6. CASE ExitStatus(t) \/ \E isNull \in NullRetval : JoinReturn(t, isNull)
      BY <2>6, CallInvExitJoin
    <2>7. CASE \/ MutexInit(t) \/ MutexDestroy(t) \/ MutexUnlockNoWaiter(t)
               \/ MutexLockFree(t) \/ MutexLockBusy(t) \/ MutexUnlockWake(t)
      BY <2>7, CallInvMutexQuiet, CallInvLock, CallInvUnlockWake
    <2> QED BY <2>1, <2>2, <2>3, <2>4, <2>5, <2>6, <2>7 DEF UserStep, LibStep
  <1> QED BY <1>1, <1>2

LEMMA CallInvHolds == ASSUME MainCreates PROVE Spec => []CallInv
  <1>1. Init => CallInv
    BY MainIsAThread
    DEF Init, CallInv, IdInv, ExitInv, SleepInv, OwnerInv, LockHasOwner, Filling, Joining
  <1>2. TypeInv /\ SchedInv /\ CallInv /\ [Next]_vars => CallInv'
    BY CallInvNext
  <1> QED BY <1>1, <1>2, TypeInvHolds, SchedInvHolds, PTL DEF Spec

\* pthread_create never runs off the table, and the id it returns (num_threads) names the
\* slot it filled, however creations, exits, joins and alarms interleave.
THEOREM IdNamesSlot == ASSUME MainCreates PROVE Spec => []SlotIsId
  <1>1. SchedInv /\ CallInv => SlotIsId
    <2> SUFFICES ASSUME SchedInv, CallInv, NEW t \in Tids,
                        pc[t] \in {"create_alloc", "create_ready", "create_publish"}
                 PROVE  loc[t] = num_threads /\ loc[t] \in Tids
      BY DEF SlotIsId
    <2>1. t = 0 /\ ~is_first_call
      BY DEF SchedInv, SlotInCreation, OnlyMainBefore
    <2>2. loc[0] = num_threads /\ num_threads < MaxThreads /\ num_threads \in 1 .. MaxThreads
      BY <2>1 DEF CallInv, IdInv, Filling
    <2> QED BY <2>1, <2>2, ConstantsOK DEF Tids
  <1> QED BY <1>1, SchedInvHolds, CallInvHolds, PTL

\* pthread_join delivers the joined thread's own value unless the alarm took the processor
\* from it for good between the two assignments of pthread_exit.
THEOREM JoinDeliversValue == ASSUME MainCreates PROVE Spec => []JoinedValueOrPreempted
  <1>1. CallInv => JoinedValueOrPreempted
    BY DEF CallInv, ExitInv, JoinedValueOrPreempted
  <1> QED BY <1>1, CallInvHolds, PTL

\* With callers that ignore the -1 of pthread_mutex_lock, a set m->locked always has a
\* thread that will clear it: no wake-up is consumed without passing the mutex on.
THEOREM LockIsPassedOn == ASSUME MainCreates PROVE Spec => []LockHasOwner
  <1>1. CallInv => LockHasOwner
    BY DEF CallInv, OwnerInv
  <1> QED BY <1>1, CallInvHolds, PTL

\* With the same callers the while(1) of a library-called schedule() always finds a thread
\* to run: the program never spins there with everyone asleep or gone.
THEOREM SearchFindsThread == ASSUME MainCreates, FailIsHeld PROVE Spec => []SearchTerminates
  <1>1. TypeInv /\ SchedInv /\ CallInv => SearchTerminates
    <2> SUFFICES ASSUME TypeInv, SchedInv, CallInv, pc[current_tid] = "sched"
                 PROVE  \E n \in Tids : Preempted(status, current_tid)[n] = "READY"
      BY DEF SearchTerminates
    <2>1. status \in [Tids -> Status] /\ current_tid \in Tids /\ held \subseteq Tids /\ locked \in {0, 1}
      BY DEF TypeInv, TypeOK
    <2>2. ~is_first_call
      BY DEF SchedInv, OnlyMainBefore
    <2>3. ASSUME NEW u \in Tids, status[u] \in {"READY", "RUNNING"}
          PROVE  Preempted(status, current_tid)[u] = "READY"
      BY <2>1, <2>3, PreemptedAt DEF SchedInv, OnlyCurrentRuns
    <2>4. CASE status[0] \in {"READY", "RUNNING"}
      BY <2>3, <2>4, MainIsAThread
    <2>5. CASE status[0] = "BLOCKED"
      <3>1. locked = 1
        BY <2>1, <2>5, MainIsAThread
        DEF SchedInv, BlockedIffWaiting, NoWaiterOnFreeMutex, Waiting, Range
      <3>2. mutex_live /\ held \cup Woken # {}
        BY <3>1 DEF CallInv, OwnerInv, LockHasOwner
      <3>3. PICK u \in held \cup Woken : TRUE
        BY <3>2
      <3>4. u \in Tids /\ status[u] \in {"READY", "RUNNING"}
        BY <2>1, <3>2, <3>3 DEF CallInv, OwnerInv, SleepInv, Woken
      <3> QED BY <2>3, <3>4
    <2> QED BY <2>2, <2>4, <2>5 DEF CallInv, OwnerInv
  <1> QED BY <1>1, TypeInvHolds, SchedInvHolds, CallInvHolds, PTL
=============================================================================
