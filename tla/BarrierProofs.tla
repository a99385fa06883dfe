---------------------------- MODULE BarrierProofs ----------------------------
(***************************************************************************)
(* Theorems about Barrier for every Count, every number of batches, and    *)
(* whatever the alarm interrupts.                                          *)
(***************************************************************************)
EXTENDS Barrier, FiniteSetTheorems, TLAPS

PCs == {"out", "inc", "check", "leave", "reset"}

TypeOK ==
  /\ threads_blocked \in Nat
  /\ serialed \in BOOLEAN
  /\ pc \in [Users -> PCs]
  /\ tmp \in [Users -> Nat]
  /\ saw \in [Users -> BOOLEAN]
  /\ arrived \in [Users -> Nat]
  /\ passed \in [Users -> Nat]

\* When r rounds are over: the threads whose increment counts for the next one.
Counted(r) == {t \in Users : arrived[t] = r + 1 /\ pc[t] \in {"check", "leave", "reset"}}

\* Every thread takes part in round r or has left it, and a call is open between its
\* arrival and its return.
InRound(r) ==
  \A t \in Users :
    /\ passed[t] <= r /\ r <= arrived[t]
    /\ arrived[t] = IF pc[t] = "out" THEN passed[t] ELSE passed[t] + 1

\* A thread between the load and the store of threads_blocked++ is in the current round,
\* and what it loaded is at most the number of threads that were counted before it.
LoadsInRound(r) ==
  \A t \in Users : pc[t] = "inc" => /\ passed[t] = r
                                    /\ tmp[t] <= Cardinality(Counted(r))

\* A thread that is first to get out of the loop has seen everybody's increment.
LeavesFull(r) ==
  \A t \in Users : pc[t] \in {"leave", "reset"} /\ passed[t] = r => Counted(r) = Users

\* Lost increments and increments that a late reset erases make threads_blocked too small,
\* nothing makes it too large.
RoundInv(r) ==
  /\ InRound(r) /\ LoadsInRound(r) /\ LeavesFull(r)
  /\ threads_blocked <= Cardinality(Counted(r))

IInv == TypeOK /\ \E r \in Nat : RoundInv(r)

-----------------------------------------------------------------------------
(* Facts about counting                                                    *)

LEMMA UsersFinite == IsFiniteSet(Users) /\ Cardinality(Users) = Count
  BY ConstantsOK, FS_Interval DEF Users

LEMMA CountedFinite ==
  ASSUME NEW r \in Nat
  PROVE  /\ IsFiniteSet(Counted(r))
         /\ Cardinality(Counted(r)) \in Nat
         /\ Cardinality(Counted(r)) <= Count
         /\ Cardinality(Counted(r)) >= Count => Counted(r) = Users
  <1>1. Counted(r) \in SUBSET Users
    BY DEF Counted
  <1>2. IsFiniteSet(Counted(r))
    BY <1>1, UsersFinite, FS_Subset
  <1>3. /\ Cardinality(Counted(r)) <= Count
        /\ Count = Cardinality(Counted(r)) => Counted(r) = Users
    BY <1>1, UsersFinite, FS_Subset
  <1>4. Cardinality(Counted(r)) \in Nat
    BY <1>2, FS_CardinalityType
  <1> QED BY <1>2, <1>3, <1>4, ConstantsOK

-----------------------------------------------------------------------------
(* The invariant                                                           *)

LEMMA InitIInv == Init => IInv
  <1> SUFFICES ASSUME Init PROVE IInv
    OBVIOUS
  <1>1. TypeOK
    BY DEF Init, TypeOK, PCs
  <1>2. InRound(0) /\ LoadsInRound(0) /\ LeavesFull(0)
    BY DEF Init, InRound, LoadsInRound, LeavesFull
  <1>3. threads_blocked <= Cardinality(Counted(0))
    BY CountedFinite DEF Init
  <1> QED BY <1>1, <1>2, <1>3 DEF IInv, RoundInv

LEMMA TypeNext == TypeOK /\ [Next]_vars => TypeOK'
  <1> SUFFICES ASSUME TypeOK, [Next]_vars PROVE TypeOK'
    OBVIOUS
  <1> USE DEF TypeOK, PCs
  <1>1. CASE UNCHANGED <<barrierVars, localVars, ghosts>>
    BY <1>1 DEF barrierVars, localVars, ghosts
  <1>2. CASE MainDestroys
    BY <1>2 DEF MainDestroys, localVars, ghosts
  <1>3. ASSUME NEW t \in Users, UserStep(t) PROVE TypeOK'
    <2>1. CASE WaitLoad(t)
      BY <2>1 DEF WaitLoad, barrierVars
    <2>2. CASE WaitStore(t)
      BY <2>2 DEF WaitStore, ghosts
    <2>3. CASE WaitSpin(t) \/ Exits(t)
      BY <2>3 DEF WaitSpin, Exits, barrierVars, localVars, ghosts
    <2>4. CASE WaitThrough(t)
      BY <2>4 DEF WaitThrough, barrierVars, ghosts
    <2>5. CASE WaitLeave(t)
      BY <2>5 DEF WaitLeave, barrierVars, ghosts
    <2>6. CASE WaitReturn(t)
      BY <2>6 DEF WaitReturn, ResetTo, SerialedAfter
    <2> QED BY <1>3, <2>1, <2>2, <2>3, <2>4, <2>5, <2>6 DEF UserStep
  <1>4. CASE MainJoins \/ MainReleases \/ Tick \/ UNCHANGED vars
    BY <1>1, <1>4 DEF MainJoins, MainReleases, Tick, vars, barrierVars, localVars, ghosts
  <1> QED BY <1>2, <1>3, <1>4 DEF Next, MainStep

\* Steps that leave the barrier, the callers and their counts alone.
LEMMA RoundFrame ==
  ASSUME NEW r \in Nat, RoundInv(r), UNCHANGED <<threads_blocked, pc, tmp, arrived, passed>>
  PROVE  RoundInv(r)'
  BY DEF RoundInv, InRound, LoadsInRound, LeavesFull, Counted

LEMMA RoundLoad ==
  ASSUME TypeOK, NEW r \in Nat, RoundInv(r), NEW t \in Users, WaitLoad(t)
  PROVE  RoundInv(r)'
  <1> USE DEF RoundInv, TypeOK
  <1>1. /\ arrived' = [arrived EXCEPT ![t] = @ + 1]
        /\ tmp' = [tmp EXCEPT ![t] = threads_blocked]
        /\ pc' = [pc EXCEPT ![t] = "inc"]
        /\ UNCHANGED <<threads_blocked, passed>>
        /\ pc[t] = "out"
    BY DEF WaitLoad, barrierVars
  <1>2. passed[t] = r /\ arrived[t] = r
    BY <1>1 DEF InRound
  <1>3. Counted(r)' = Counted(r)
    BY <1>1, <1>2 DEF Counted
  <1>4. InRound(r)'
    BY <1>1, <1>2 DEF InRound
  <1>5. LoadsInRound(r)'
    BY <1>1, <1>2, <1>3 DEF LoadsInRound
  <1>6. LeavesFull(r)'
    BY <1>1, <1>3 DEF LeavesFull
  <1> QED BY <1>1, <1>3, <1>4, <1>5, <1>6

LEMMA RoundStore ==
  ASSUME TypeOK, NEW r \in Nat, RoundInv(r), NEW t \in Users, WaitStore(t)
  PROVE  RoundInv(r)'
  <1> USE DEF RoundInv, TypeOK
  <1>1. /\ threads_blocked' = tmp[t] + 1
        /\ tmp' = [tmp EXCEPT ![t] = 0]
        /\ pc' = [pc EXCEPT ![t] = "check"]
        /\ UNCHANGED <<arrived, passed>>
        /\ pc[t] = "inc"
    BY DEF WaitStore, ghosts
  <1>2. passed[t] = r /\ arrived[t] = r + 1 /\ tmp[t] <= Cardinality(Counted(r))
    BY <1>1 DEF InRound, LoadsInRound
  <1>3. Counted(r)' = Counted(r) \cup {t} /\ t \notin Counted(r)
    BY <1>1, <1>2 DEF Counted
  <1>4. Cardinality(Counted(r)') = Cardinality(Counted(r)) + 1
    BY <1>3, CountedFinite, FS_AddElement
  <1>5. InRound(r)'
    BY <1>1 DEF InRound
  <1>6. LoadsInRound(r)'
    BY <1>1, <1>4, CountedFinite DEF LoadsInRound
  <1>7. LeavesFull(r)'
    BY <1>1, <1>3 DEF LeavesFull
  <1>8. (threads_blocked <= Cardinality(Counted(r)))'
    BY <1>1, <1>2, <1>4, CountedFinite
  <1> QED BY <1>5, <1>6, <1>7, <1>8

\* Past the loop: the counter was full, so that everybody is counted in the round.
LEMMA RoundThrough ==
  ASSUME TypeOK, NEW r \in Nat, RoundInv(r), NEW t \in Users, WaitThrough(t)
  PROVE  RoundInv(r)'
  <1> USE DEF RoundInv, TypeOK
  <1>1. /\ pc' = [pc EXCEPT ![t] = "leave"]
        /\ UNCHANGED <<threads_blocked, tmp, arrived, passed>>
        /\ pc[t] = "check" /\ threads_blocked >= Count
    BY DEF WaitThrough, Full, barrierVars, ghosts
  <1>2. Counted(r) = Users
    BY <1>1, CountedFinite, ConstantsOK
  <1>3. Counted(r)' = Counted(r)
    BY <1>1 DEF Counted
  <1>4. InRound(r)' /\ LoadsInRound(r)'
    BY <1>1, <1>3 DEF InRound, LoadsInRound
  <1>5. LeavesFull(r)'
    BY <1>2, <1>3 DEF LeavesFull
  <1> QED BY <1>1, <1>3, <1>4, <1>5

LEMMA RoundLeave ==
  ASSUME TypeOK, NEW r \in Nat, RoundInv(r), NEW t \in Users, WaitLeave(t)
  PROVE  RoundInv(r)'
  <1> USE DEF RoundInv, TypeOK
  <1>1. /\ pc' = [pc EXCEPT ![t] = "reset"]
        /\ UNCHANGED <<threads_blocked, tmp, arrived, passed>>
        /\ pc[t] = "leave"
    BY DEF WaitLeave, barrierVars, ghosts
  <1>2. Counted(r)' = Counted(r)
    BY <1>1 DEF Counted
  <1>3. InRound(r)' /\ LoadsInRound(r)'
    BY <1>1, <1>2 DEF InRound, LoadsInRound
  <1>4. LeavesFull(r)'
    BY <1>1, <1>2 DEF LeavesFull
  <1> QED BY <1>1, <1>2, <1>3, <1>4

\* The first thread to return from round r ends the round; the others of round r that are
\* already out of the loop return into the next one.
LEMMA RoundReturn ==
  ASSUME TypeOK, NEW r \in Nat, RoundInv(r), NEW t \in Users, WaitReturn(t)
  PROVE  \E s \in Nat : RoundInv(s)'
  <1> USE DEF RoundInv, TypeOK
  <1>1. /\ pc' = [pc EXCEPT ![t] = "out"]
        /\ passed' = [passed EXCEPT ![t] = @ + 1]
        /\ threads_blocked' = 0
        /\ UNCHANGED <<tmp, arrived>>
        /\ pc[t] = "reset"
    BY DEF WaitReturn, ResetTo
  <1>2. CASE passed[t] = r
    <2>1. \A u \in Users : arrived[u] = r + 1 /\ pc[u] \in {"check", "leave", "reset"}
      BY <1>1, <1>2 DEF LeavesFull, Counted
    <2>2. InRound(r + 1)'
      BY <1>1, <1>2, <2>1 DEF InRound
    <2>3. LoadsInRound(r + 1)'
      BY <1>1, <2>1 DEF LoadsInRound
    <2>4. LeavesFull(r + 1)'
      BY <1>1, <2>1 DEF LeavesFull, InRound
    <2>5. (threads_blocked <= Cardinality(Counted(r + 1)))'
      <3>1. IsFiniteSet(Users) /\ Counted(r + 1)' \subseteq Users
        BY UsersFinite DEF Counted
      <3>2. Cardinality(Counted(r + 1)') \in Nat
        BY <3>1, FS_Subset, FS_CardinalityType
      <3> QED BY <1>1, <3>2
    <2> QED BY <2>2, <2>3, <2>4, <2>5
  <1>3. CASE passed[t] # r
    <2>1. passed[t] < r /\ arrived[t] = passed[t] + 1
      BY <1>1, <1>3 DEF InRound
    <2>2. Counted(r)' = Counted(r)
      BY <1>1, <2>1 DEF Counted
    <2>3. InRound(r)'
      BY <1>1, <2>1 DEF InRound
    <2>4. LoadsInRound(r)'
      BY <1>1, <2>2 DEF LoadsInRound
    <2>5. LeavesFull(r)'
      BY <1>1, <2>2 DEF LeavesFull
    <2> QED BY <1>1, <2>2, <2>3, <2>4, <2>5, CountedFinite
  <1> QED BY <1>2, <1>3

LEMMA IInvNext == IInv /\ [Next]_vars => IInv'
  <1> SUFFICES ASSUME IInv, [Next]_vars PROVE IInv'
    OBVIOUS
  <1>1. TypeOK'
    BY TypeNext DEF IInv
  <1>2. PICK r \in Nat : RoundInv(r)
    BY DEF IInv
  <1>3. \E s \in Nat : RoundInv(s)'
    <2>1. CASE UNCHANGED <<threads_blocked, pc, tmp, arrived, passed>>
      BY <1>2, <2>1, RoundFrame
    <2>2. CASE MainStep \/ Tick \/ UNCHANGED vars
      BY <2>1, <2>2 DEF MainStep, MainJoins, MainReleases, MainDestroys, Tick, vars,
                        barrierVars, localVars, ghosts
    <2>3. ASSUME NEW t \in Users, UserStep(t) PROVE \E s \in Nat : RoundInv(s)'
      <3>1. CASE WaitSpin(t) \/ Exits(t)
        BY <2>1, <3>1 DEF WaitSpin, Exits, barrierVars, localVars, ghosts
      <3> QED BY <1>2, <2>3, <3>1, RoundLoad, RoundStore, RoundThrough, RoundLeave, RoundReturn
              DEF UserStep, IInv
    <2> QED BY <2>2, <2>3 DEF Next
  <1> QED BY <1>1, <1>3 DEF IInv

LEMMA IInvHolds == Spec => []IInv
  BY InitIInv, IInvNext, PTL DEF Spec

-----------------------------------------------------------------------------
(* Theorems                                                                *)

\* However SIGALRM interleaves threads_blocked++, the polling loop and the reset in
\* pthread_barrier_wait, and however soon the barrier is used again: nobody returns from
\* its n-th wait before everybody has made its n-th call.
THEOREM NobodyPassesEarly == Spec => []NoEarlyPass
  <1>1. IInv => NoEarlyPass
    BY DEF IInv, RoundInv, InRound, NoEarlyPass, TypeOK
  <1> QED BY <1>1, IInvHolds, PTL

\* When every thread is outside pthread_barrier_wait, threads_blocked is 0: no store of an
\* interrupted increment comes after the last reset, and pthread_barrier_destroy succeeds.
THEOREM LeftBarrierIsReset == Spec => []IdleIsReset
  <1>1. IInv => IdleIsReset
    <2> SUFFICES ASSUME IInv, \A t \in Users : pc[t] = "out" PROVE threads_blocked = 0
      BY DEF IdleIsReset
    <2>1. PICK r \in Nat : RoundInv(r)
      BY DEF IInv
    <2>2. Counted(r) = {}
      BY DEF Counted
    <2> QED BY <2>1, <2>2, FS_EmptySet DEF RoundInv, IInv, TypeOK
  <1> QED BY <1>1, IInvHolds, PTL

\* Without the alarm, the thread that tests b->serialed is the one that executes until it
\* has set it, and nothing clears it.
SerialInv ==
  /\ ~alarm
  /\ \A t \in Users : pc[t] = "reset" => current = t /\ saw[t] = serialed
  /\ serial # {} => serialed
  /\ \A x, y \in serial : x = y

LEMMA SerialNext == IInv /\ SerialInv /\ [Next]_vars => SerialInv'
  <1> SUFFICES ASSUME IInv, SerialInv, [Next]_vars PROVE SerialInv'
    OBVIOUS
  <1> USE DEF SerialInv, IInv, TypeOK
  <1>1. CASE UNCHANGED vars
    BY <1>1 DEF vars, barrierVars, schedVars, localVars, ghosts
  <1>2. CASE MainStep \/ Tick
    <2>1. \A t \in Users : t # 0
      BY DEF Users
    <2> QED BY <1>2, <2>1 DEF MainStep, MainJoins, MainReleases, MainDestroys, Tick, Idle,
                        barrierVars, schedVars, localVars, ghosts
  <1>3. ASSUME NEW t \in Users, UserStep(t) PROVE SerialInv'
    <2>1. CASE WaitLoad(t)
      BY <2>1 DEF WaitLoad, barrierVars, schedVars
    <2>2. CASE WaitStore(t)
      BY <2>2 DEF WaitStore, schedVars, ghosts
    <2>3. CASE WaitSpin(t) \/ Exits(t) \/ WaitThrough(t)
      <3>1. pc[t] # "reset" /\ current = t
        BY <2>3 DEF WaitSpin, Exits, WaitThrough
      <3>2. \A u \in Users : pc[u] # "reset"
        BY <3>1
      <3>3. \A u \in Users : pc'[u] # "reset"
        BY <2>3, <3>2 DEF WaitSpin, Exits, WaitThrough, localVars
      <3>4. ~alarm'
        BY <2>3 DEF WaitSpin, Exits, WaitThrough
      <3>5. UNCHANGED <<serialed, serial>>
        BY <2>3 DEF WaitSpin, Exits, WaitThrough, barrierVars, ghosts
      <3> QED BY <3>3, <3>4, <3>5
    <2>4. CASE WaitLeave(t)
      BY <2>4 DEF WaitLeave, barrierVars, schedVars, ghosts
    <2>5. CASE WaitReturn(t)
      <3>1. serial # {} => saw[t]
        BY <2>5 DEF WaitReturn
      <3>2. \A x, y \in serial' : x = y
        BY <2>5, <3>1 DEF WaitReturn
      <3>3. \A u \in Users : pc'[u] # "reset"
        BY <2>5 DEF WaitReturn
      <3> QED BY <2>5, <3>2, <3>3 DEF WaitReturn, SerialedAfter, schedVars
    <2> QED BY <1>3, <2>1, <2>2, <2>3, <2>4, <2>5 DEF UserStep
  <1> QED BY <1>1, <1>2, <1>3 DEF Next

\* Without the alarm at most one thread of a batch gets PTHREAD_BARRIER_SERIAL_THREAD.
THEOREM SerialIsUnique == Spec => OneSerialUnpreempted
  <1>1. Init /\ ~alarm => SerialInv
    BY DEF Init, SerialInv
  <1>2. SerialInv => \A r \in 1 .. MaxBatches : \A t, u \in Users :
                       <<t, r>> \in serial /\ <<u, r>> \in serial => t = u
    BY DEF SerialInv
  <1> QED BY <1>1, <1>2, SerialNext, IInvHolds, PTL DEF Spec, OneSerialUnpreempted
=============================================================================
