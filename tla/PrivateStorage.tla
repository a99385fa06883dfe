--------------------------- MODULE PrivateStorage ---------------------------
(***************************************************************************)
(* What copy-on-write-noodlez102/tls.c promises its callers, page sharing  *)
(* left out: each thread has at most one area of bytes, which no operation *)
(* of another thread changes, and tls_clone gives a thread an area that    *)
(* starts as a copy of another's.                                          *)
(***************************************************************************)
EXTENDS Naturals

CONSTANTS
  Threads,   \* the threads of the process
  Sizes,     \* the sizes callers pass to tls_create
  Offsets,   \* the offsets callers pass to tls_read and tls_write
  Lengths,   \* the lengths
  Bytes      \* the values callers write; a new area is filled with 0

VARIABLES
  area,   \* area[t]: the bytes of t's area, the empty function when t has none
  alive,  \* the threads that still run
  last    \* the last call: its operation, its caller, what it asked for and returned

vars == <<area, alive, last>>

None == <<>>

\* A finished call: len bytes were asked for, out are the bytes a read delivered, moved
\* is how many bytes were transferred.
Result(op, t, ret, len, moved, out) ==
  [op |-> op, by |-> t, ret |-> ret, len |-> len, moved |-> moved, out |-> out]

Failed(op, t) == Result(op, t, "fail", 0, 0, None)
Done(op, t) == Result(op, t, "ok", 0, 0, None)

Init ==
  /\ area = [t \in Threads |-> None]
  /\ alive = Threads
  /\ last = [op |-> "none"]

Has(t) == area[t] # None

\* The range ends inside the area, or is empty at its very start.
Fits(t, off, len) == Has(t) /\ (off + len = 0 \/ off + len - 1 \in DOMAIN area[t])

Create(t, n) ==
  LET ok == n > 0 /\ ~Has(t) IN
  /\ last' = IF ok THEN Done("create", t) ELSE Failed("create", t)
  /\ alive' = alive
  /\ area' = IF ok THEN [area EXCEPT ![t] = [i \in 0 .. n - 1 |-> 0]] ELSE area

Destroy(t) ==
  /\ last' = IF Has(t) THEN Done("destroy", t) ELSE Failed("destroy", t)
  /\ alive' = alive
  /\ area' = [area EXCEPT ![t] = None]

Clone(t, u) ==
  LET ok == ~Has(t) /\ Has(u) IN
  /\ last' = IF ok THEN Done("clone", t) ELSE Failed("clone", t)
  /\ alive' = alive
  /\ area' = IF ok THEN [area EXCEPT ![t] = area[u]] ELSE area

Read(t, off, len) ==
  /\ last' = IF Fits(t, off, len)
             THEN Result("read", t, "ok", len, len,
                         [i \in 0 .. len - 1 |-> area[t][off + i]])
             ELSE Failed("read", t)
  /\ UNCHANGED <<area, alive>>

Write(t, off, len, v) ==
  LET ok == Fits(t, off, len) IN
  /\ last' = IF ok THEN Result("write", t, "ok", len, len, None) ELSE Failed("write", t)
  /\ alive' = alive
  /\ area' = IF ok
             THEN [area EXCEPT ![t] = [i \in DOMAIN area[t] |->
                     IF i \in off .. off + len - 1 THEN v ELSE area[t][i]]]
             ELSE area

\* Threads that touch storage outside the calls stop; the areas stay as they are.
Stop ==
  /\ alive' \subseteq alive
  /\ UNCHANGED <<area, last>>

Next ==
  \/ \E t \in alive :
       \/ \E n \in Sizes : Create(t, n)
       \/ Destroy(t)
       \/ \E u \in Threads : Clone(t, u)
       \/ \E off \in Offsets, len \in Lengths :
            Read(t, off, len) \/ \E v \in Bytes : Write(t, off, len, v)
  \/ Stop

Spec == Init /\ [][Next]_vars
=============================================================================
