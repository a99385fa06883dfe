--------------------------- MODULE WaitListProofs ---------------------------
(***************************************************************************)
(* Theorems about WaitList for any set of threads and any finite memory:   *)
(* the pointers reach the nodes that are allocated, and implement a queue. *)
(***************************************************************************)
EXTENDS WaitList, FiniteSetTheorems, SequenceTheorems, WellFoundedInduction, TLAPS

-----------------------------------------------------------------------------
(* The inductive invariant                                                 *)

TypeInv ==
  /\ head \in Pointers /\ tail \in Pointers
  /\ tid \in [Addresses -> Threads]
  /\ next \in [Addresses -> Pointers]
  /\ allocated \subseteq Addresses

\* s is the list: it follows the pointers, has every allocated node once and nothing else,
\* and tail is its last node, or NULL as long as the list has no more than one.
Chain(s) ==
  /\ s \in Seq(Addresses)
  /\ FromHead(s)
  /\ \A i, j \in 1 .. Len(s) : s[i] = s[j] => i = j
  /\ \A n : n \in allocated <=> \E i \in 1 .. Len(s) : s[i] = n
  /\ tail # NULL => s # <<>> /\ tail = s[Len(s)]
  /\ Len(s) > 1 => tail # NULL

IInv == TypeInv /\ \E s : Chain(s)

-----------------------------------------------------------------------------
(* There is one list                                                       *)

LEMMA LeastNatural ==
  ASSUME NEW T, T \subseteq Nat, T # {}
  PROVE  \E x \in T : \A y \in T : x <= y
  <1>1. PICK x \in T : \A y \in T : ~(<<y, x>> \in OpToRel(<, Nat))
    BY NatLessThanWellFounded, WFMin
  <1>2. \A y \in T : ~(y < x)
    BY <1>1 DEF OpToRel
  <1>3. \A y \in T : x <= y
    BY <1>2
  <1> QED BY <1>3

\* Two lists that follow the same pointers to NULL are the same.
LEMMA OneChain ==
  ASSUME NEW s \in Seq(Addresses), NEW t \in Seq(Addresses), FromHead(s), FromHead(t)
  PROVE  s = t
  <1>1. Len(s) \in Nat /\ Len(t) \in Nat
    OBVIOUS
  <1>2. /\ \A i \in 1 .. Len(s) : s[i] \in Addresses
        /\ \A i \in 1 .. Len(t) : t[i] \in Addresses
    OBVIOUS
  <1>3. CASE s = <<>> \/ t = <<>>
    <2>1. s # <<>> => 1 \in 1 .. Len(s)
      BY <1>1
    <2>2. t # <<>> => 1 \in 1 .. Len(t)
      BY <1>1
    <2> QED BY <1>2, <1>3, <2>1, <2>2, NullIsNoAddress DEF FromHead
  <1>4. CASE s # <<>> /\ t # <<>>
    <2>1. /\ s[1] = head /\ t[1] = head /\ next[s[Len(s)]] = NULL /\ next[t[Len(t)]] = NULL
          /\ \A i \in 1 .. Len(s) - 1 : next[s[i]] = s[i + 1]
          /\ \A i \in 1 .. Len(t) - 1 : next[t[i]] = t[i + 1]
      BY <1>4 DEF FromHead
    <2>2. PICK D : D = {i \in Nat : i \in 1 .. Len(s) /\ i \in 1 .. Len(t) /\ s[i] # t[i]}
      OBVIOUS
    <2>3. D = {}
      <3> SUFFICES ASSUME D # {} PROVE FALSE
        OBVIOUS
      <3>1. PICK x \in D : \A y \in D : x <= y
        BY <2>2, LeastNatural
      <3>2. x \in Nat /\ x \in 1 .. Len(s) /\ x \in 1 .. Len(t) /\ s[x] # t[x]
        BY <2>2, <3>1
      <3>3. x # 1
        BY <2>1, <3>2
      <3>4. PICK y : y = x - 1
        OBVIOUS
      <3>5. /\ y \in Nat /\ y \in 1 .. Len(s) /\ y \in 1 .. Len(t) /\ y \in 1 .. Len(s) - 1 /\ y \in 1 .. Len(t) - 1
            /\ y + 1 = x /\ ~(x <= y)
        BY <1>1, <3>2, <3>3, <3>4
      <3>6. s[y] = t[y]
        BY <2>2, <3>1, <3>5
      <3>7. next[s[y]] = s[x] /\ next[t[y]] = t[x]
        BY <2>1, <3>5
      <3> QED BY <3>2, <3>6, <3>7
    <2>4. \A i \in 1 .. Len(s) : i \in 1 .. Len(t) => s[i] = t[i]
      BY <1>1, <2>2, <2>3
    <2>5. Len(s) > 0 /\ Len(t) > 0
      BY <1>1, <1>4
    <2>6. ~(Len(s) < Len(t))
      <3> SUFFICES ASSUME Len(s) < Len(t) PROVE FALSE
        OBVIOUS
      <3>1. /\ Len(s) \in 1 .. Len(s) /\ Len(s) \in 1 .. Len(t) /\ Len(s) \in 1 .. Len(t) - 1
            /\ Len(s) + 1 \in 1 .. Len(t)
        BY <1>1, <2>5
      <3>2. next[s[Len(s)]] = t[Len(s) + 1]
        BY <2>1, <2>4, <3>1
      <3> QED BY <1>2, <2>1, <3>1, <3>2, NullIsNoAddress
    <2>7. ~(Len(t) < Len(s))
      <3> SUFFICES ASSUME Len(t) < Len(s) PROVE FALSE
        OBVIOUS
      <3>1. /\ Len(t) \in 1 .. Len(t) /\ Len(t) \in 1 .. Len(s) /\ Len(t) \in 1 .. Len(s) - 1
            /\ Len(t) + 1 \in 1 .. Len(s)
        BY <1>1, <2>5
      <3>2. next[t[Len(t)]] = s[Len(t) + 1]
        BY <2>1, <2>4, <3>1
      <3> QED BY <1>2, <2>1, <3>1, <3>2, NullIsNoAddress
    <2>8. Len(s) = Len(t)
      BY <1>1, <2>6, <2>7
    <2>9. \A i \in 1 .. Len(s) : s[i] = t[i]
      BY <2>4, <2>8
    <2> QED BY <2>8, <2>9, SeqEqual
  <1> QED BY <1>3, <1>4

\* The list is the one that Nodes chooses.
LEMMA NodesIs ==
  ASSUME NEW s, Chain(s)
  PROVE  Nodes = s
  <1>1. s \in Seq(Addresses) /\ FromHead(s) /\ Len(s) \in Nat /\ s \in [1 .. Len(s) -> Addresses]
    BY DEF Chain
  <1>2. Cardinality(Addresses) \in Nat
    BY FiniteMemory, FS_CardinalityType
  <1>3. Len(s) <= Cardinality(Addresses)
    <2>1. s \in Injection(1 .. Len(s), Addresses)
      BY <1>1 DEF Chain, Injection, IsInjective
    <2>2. Cardinality(1 .. Len(s)) <= Cardinality(Addresses)
      BY <2>1, FiniteMemory, FS_Injection
    <2>3. Cardinality(1 .. Len(s)) = Len(s)
      BY <1>1, FS_Interval
    <2> QED BY <2>2, <2>3
  <1>4. PICK C : C = UNION {[1 .. n -> Addresses] : n \in 0 .. Cardinality(Addresses)}
    OBVIOUS
  <1>5. s \in C
    <2>1. Len(s) \in 0 .. Cardinality(Addresses)
      BY <1>1, <1>2, <1>3
    <2> QED BY <1>1, <1>4, <2>1
  <1>6. \A t \in C : t \in Seq(Addresses)
    <2> SUFFICES ASSUME NEW t \in C PROVE t \in Seq(Addresses)
      OBVIOUS
    <2>1. PICK n \in 0 .. Cardinality(Addresses) : t \in [1 .. n -> Addresses]
      BY <1>4
    <2>2. n \in Nat
      BY <1>2, <2>1
    <2> QED BY <2>1, <2>2
  <1>7. Nodes \in C /\ FromHead(Nodes)
    <2>1. Nodes = CHOOSE t \in C : FromHead(t)
      BY <1>4 DEF Nodes
    <2> QED BY <1>1, <1>5, <2>1, Zenon
  <1> QED BY <1>1, <1>6, <1>7, OneChain

-----------------------------------------------------------------------------
(* The steps                                                               *)

\* The blocking branch of pthread_mutex_lock appends a node.
LEMMA EnterChain ==
  ASSUME TypeInv, NEW s, Chain(s), NEW t \in Threads, NEW n \in Addresses \ allocated,
         allocated' = allocated \cup {n}, next' = LinkedAfter(n),
         head' = IF head = NULL THEN n ELSE head, tail' = IF head = NULL THEN tail ELSE n
  PROVE  Chain(Append(s, n))'
  <1>1. PICK u, m : u = Append(s, n) /\ m = Len(s)
    OBVIOUS
  <1>2. /\ s \in Seq(Addresses) /\ FromHead(s)
        /\ \A i, j \in 1 .. m : s[i] = s[j] => i = j
        /\ \A a : a \in allocated <=> \E i \in 1 .. m : s[i] = a
        /\ tail # NULL => s # <<>> /\ tail = s[m]
        /\ m > 1 => tail # NULL
    BY <1>1 DEF Chain
  <1>3. /\ u \in Seq(Addresses) /\ m \in Nat /\ Len(u) = m + 1 /\ u[m + 1] = n /\ u # <<>>
        /\ \A i \in 1 .. m : u[i] = s[i]
    <2>1. u \in Seq(Addresses) /\ m \in Nat /\ Len(u) = m + 1 /\ u[m + 1] = n /\ \A i \in 1 .. m : u[i] = s[i]
      BY <1>1, <1>2
    <2> QED BY <2>1
  <1>4. \A i \in 1 .. m + 1 : i \in 1 .. m \/ i = m + 1
    BY <1>3
  <1>5. \A i \in 1 .. m : s[i] # n /\ s[i] \in Addresses
    BY <1>1, <1>2
  <1>6. /\ (head = NULL <=> m = 0)
        /\ m > 0 => head = s[1] /\ next[s[m]] = NULL /\ m \in 1 .. m /\ 1 \in 1 .. m
        /\ \A i \in 1 .. m - 1 : next[s[i]] = s[i + 1]
    <2>1. CASE s = <<>>
      BY <1>1, <1>2, <2>1 DEF FromHead
    <2>2. CASE s # <<>>
      <3>1. m > 0 /\ m \in 1 .. m /\ 1 \in 1 .. m
        BY <1>1, <1>2, <1>3, <2>2
      <3> QED BY <1>1, <1>2, <1>5, <2>2, <3>1, NullIsNoAddress DEF FromHead
    <2> QED BY <2>1, <2>2
  <1>7. PICK end : end = (IF head # NULL /\ tail # NULL THEN tail ELSE head)
    OBVIOUS
  <1>8. m > 0 => end = s[m]
    <2>1. ASSUME m > 0, tail = NULL PROVE m = 1
      BY <1>2, <1>3, <2>1
    <2> QED BY <1>2, <1>6, <1>7, <2>1
  <1>9. \A p \in Addresses : next'[p] = IF p = n THEN NULL ELSE IF p = end THEN n ELSE next[p]
    BY <1>7 DEF LinkedAfter
  <1>10. FromHead(u)'
    <2>1. next'[u[Len(u)]] = NULL
      BY <1>3, <1>9
    <2>2. head' = u[1]
      <3>1. CASE m = 0
        BY <1>3, <1>6, <3>1
      <3>2. CASE m > 0
        BY <1>3, <1>6, <3>2
      <3> QED BY <1>3, <3>1, <3>2
    <2>3. ASSUME NEW i \in 1 .. Len(u) - 1 PROVE next'[u[i]] = u[i + 1]
      <3>1. i \in 1 .. m /\ m > 0 /\ u[i] = s[i] /\ s[i] # n /\ s[i] \in Addresses
        BY <1>3, <1>5
      <3>2. CASE i = m
        <4>1. s[i] = end
          BY <1>8, <3>1, <3>2
        <4> QED BY <1>3, <1>9, <3>1, <3>2, <4>1
      <3>3. CASE i # m
        <4>1. i \in 1 .. m - 1 /\ i + 1 \in 1 .. m /\ m \in 1 .. m
          BY <1>3, <3>1, <3>3
        <4>2. s[i] # end
          BY <1>2, <1>8, <3>1, <3>3, <4>1
        <4> QED BY <1>3, <1>6, <1>9, <3>1, <4>1, <4>2
      <3> QED BY <3>2, <3>3
    <2> QED BY <1>3, <2>1, <2>2, <2>3 DEF FromHead
  <1>11. \A i, j \in 1 .. Len(u) : u[i] = u[j] => i = j
    BY <1>2, <1>3, <1>4, <1>5
  <1>12. ASSUME NEW a PROVE a \in allocated' <=> \E i \in 1 .. Len(u) : u[i] = a
    <2>1. m + 1 \in 1 .. Len(u) /\ \A i \in 1 .. m : i \in 1 .. Len(u)
      BY <1>3
    <2> QED BY <1>2, <1>3, <1>4, <2>1
  <1>13. /\ tail' # NULL => u # <<>> /\ tail' = u[Len(u)]
         /\ Len(u) > 1 => tail' # NULL
    <2>1. CASE head = NULL
      <3>1. m = 0 /\ tail' = tail
        BY <1>6, <2>1
      <3>2. tail = NULL
        <4>1. s = <<>>
          BY <1>1, <1>2, <3>1, EmptySeq
        <4> QED BY <1>2, <4>1
      <3> QED BY <1>3, <3>1, <3>2
    <2>2. CASE head # NULL
      BY <1>3, <2>2, NullIsNoAddress
    <2> QED BY <2>1, <2>2
  <1>14. Chain(u)'
    BY <1>3, <1>10, <1>11, <1>12, <1>13 DEF Chain
  <1> QED BY <1>1, <1>14

\* The waking branch of pthread_mutex_unlock removes the first node.
LEMMA LeaveChain ==
  ASSUME TypeInv, NEW s, Chain(s), Leave
  PROVE  s # <<>> /\ head = s[1] /\ Chain(Tail(s))'
  <1>1. /\ head # NULL /\ allocated' = allocated \ {head} /\ tail' = (IF next[head] = NULL THEN NULL ELSE tail)
        /\ head' = next[head] /\ next' = next
    BY DEF Leave, TailAfter
  <1>2. PICK u, m : u = Tail(s) /\ m = Len(s)
    OBVIOUS
  <1>3. /\ s \in Seq(Addresses) /\ s # <<>> /\ head = s[1] /\ next[s[m]] = NULL
        /\ \A i \in 1 .. m - 1 : next[s[i]] = s[i + 1]
        /\ \A i, j \in 1 .. m : s[i] = s[j] => i = j
        /\ \A a : a \in allocated <=> \E i \in 1 .. m : s[i] = a
        /\ tail # NULL => tail = s[m]
        /\ m > 1 => tail # NULL
    BY <1>1, <1>2 DEF Chain, FromHead
  <1>4. /\ u \in Seq(Addresses) /\ m \in Nat \ {0} /\ Len(u) = m - 1
        /\ \A i \in 1 .. m - 1 : u[i] = s[i + 1]
    BY <1>2, <1>3
  <1>5. /\ u = <<>> <=> m = 1
        /\ 1 \in 1 .. m /\ m \in 1 .. m
        /\ m # 1 => 1 \in 1 .. m - 1 /\ m - 1 \in 1 .. m - 1 /\ 1 + 1 = 2 /\ m - 1 + 1 = m /\ m > 1
    <2>1. u = <<>> <=> m = 1
      BY <1>4
    <2> QED BY <1>4, <2>1
  <1>6. \A i \in 1 .. m : s[i] \in Addresses
    BY <1>2, <1>3
  <1>7. (m = 1 => head' = NULL) /\ (m # 1 => head' = u[1] /\ head' # NULL)
    <2>1. m # 1 => next[head] = s[2] /\ u[1] = s[2] /\ 2 \in 1 .. m
      BY <1>3, <1>4, <1>5
    <2> QED BY <1>1, <1>3, <1>6, <2>1, NullIsNoAddress
  <1>8. FromHead(u)'
    <2>1. m # 1 => next'[u[Len(u)]] = NULL
      BY <1>1, <1>3, <1>4, <1>5
    <2>2. ASSUME NEW i \in 1 .. Len(u) - 1 PROVE next'[u[i]] = u[i + 1]
      <3>1. i \in 1 .. m - 1 /\ i + 1 \in 1 .. m - 1
        BY <1>4
      <3> QED BY <1>1, <1>3, <1>4, <3>1
    <2> QED BY <1>5, <1>7, <2>1, <2>2 DEF FromHead
  <1>9. \A i, j \in 1 .. Len(u) : u[i] = u[j] => i = j
    <2> SUFFICES ASSUME NEW i \in 1 .. Len(u), NEW j \in 1 .. Len(u), u[i] = u[j] PROVE i = j
      OBVIOUS
    <2>1. i + 1 \in 1 .. m /\ j + 1 \in 1 .. m /\ s[i + 1] = s[j + 1]
      BY <1>4
    <2>2. i + 1 = j + 1
      BY <1>3, <2>1
    <2> QED BY <1>4, <2>2
  <1>10. ASSUME NEW a PROVE a \in allocated' <=> \E i \in 1 .. Len(u) : u[i] = a
    <2>1. ASSUME a \in allocated' PROVE \E i \in 1 .. Len(u) : u[i] = a
      <3>1. PICK k \in 1 .. m : s[k] = a
        BY <1>1, <1>3, <2>1
      <3>2. k # 1
        BY <1>1, <1>3, <2>1, <3>1
      <3>3. k - 1 \in 1 .. m - 1 /\ k - 1 + 1 = k
        BY <1>4, <3>2
      <3> QED BY <1>4, <3>1, <3>3
    <2>2. ASSUME NEW i \in 1 .. Len(u), u[i] = a PROVE a \in allocated'
      <3>1. i + 1 \in 1 .. m /\ i + 1 # 1 /\ s[i + 1] = a
        BY <1>4, <2>2
      <3>2. a # s[1]
        BY <1>3, <1>5, <3>1
      <3> QED BY <1>1, <1>3, <3>1, <3>2
    <2> QED BY <2>1, <2>2
  <1>11. /\ tail' # NULL => u # <<>> /\ tail' = u[Len(u)]
         /\ Len(u) > 1 => tail' # NULL
    <2>1. CASE m = 1
      BY <1>1, <1>4, <1>7, <2>1
    <2>2. CASE m # 1
      <3>1. tail' = tail /\ u[Len(u)] = s[m] /\ m > 1
        BY <1>1, <1>4, <1>5, <1>7, <2>2
      <3> QED BY <1>3, <1>5, <2>2, <3>1
    <2> QED BY <2>1, <2>2
  <1>12. Chain(u)'
    BY <1>4, <1>8, <1>9, <1>10, <1>11 DEF Chain
  <1> QED BY <1>2, <1>3, <1>12

LEMMA InitIInv == Init => IInv
  <1> SUFFICES ASSUME Init PROVE IInv
    OBVIOUS
  <1>1. TypeInv
    BY DEF Init, TypeInv, Pointers
  <1>2. <<>> \in Seq(Addresses) /\ Len(<<>>) = 0 /\ 1 .. Len(<<>>) = {} /\ 1 .. Len(<<>>) - 1 = {}
    OBVIOUS
  <1>3. Chain(<<>>)
    BY <1>2 DEF Init, Chain, FromHead
  <1> QED BY <1>1, <1>3 DEF IInv

LEMMA NextIInv == IInv /\ [Next]_vars => IInv'
  <1> SUFFICES ASSUME IInv, [Next]_vars PROVE IInv'
    OBVIOUS
  <1>1. TypeInv
    BY DEF IInv
  <1>2. PICK s : Chain(s)
    BY DEF IInv
  <1>3. CASE Leave
    <2>1. Chain(Tail(s))'
      BY <1>1, <1>2, <1>3, LeaveChain
    <2>2. TypeInv'
      BY <1>1, <1>3 DEF Leave, TailAfter, TypeInv, Pointers
    <2> QED BY <2>1, <2>2 DEF IInv
  <1>4. ASSUME NEW t \in Threads, Enter(t) PROVE IInv'
    <2>1. PICK n \in Addresses \ allocated :
            /\ allocated' = allocated \cup {n} /\ tid' = [tid EXCEPT ![n] = t] /\ next' = LinkedAfter(n)
            /\ head' = IF head = NULL THEN n ELSE head
            /\ tail' = IF head = NULL THEN tail ELSE n
      BY <1>4 DEF Enter
    <2>2. Chain(Append(s, n))'
      BY <1>1, <1>2, <2>1, EnterChain
    <2>3. TypeInv'
      BY <1>1, <2>1 DEF TypeInv, Pointers, LinkedAfter
    <2> QED BY <2>2, <2>3 DEF IInv
  <1>5. CASE UNCHANGED vars
    BY <1>5 DEF vars, IInv, TypeInv, Chain, FromHead
  <1> QED BY <1>3, <1>4, <1>5 DEF Next

LEMMA AlwaysIInv == Spec => []IInv
  BY InitIInv, NextIInv, PTL DEF Spec

-----------------------------------------------------------------------------
(* The theorems                                                            *)

\* Whatever the memory held before, the list of a mutex reaches the nodes that were not
\* freed and no other, each once, and tail is NULL or its last node.
THEOREM ListReachesItsNodes == Spec => []NoStaleNode
  <1>1. IInv => NoStaleNode
    <2> SUFFICES ASSUME IInv PROVE NoStaleNode
      OBVIOUS
    <2>1. PICK s : Chain(s)
      BY DEF IInv
    <2>2. Nodes = s
      BY <2>1, NodesIs
    <2>3. Len(s) \in Nat /\ (s # <<>> => Len(s) > 0)
      BY <2>1 DEF Chain
    <2>4. {s[i] : i \in 1 .. Len(s)} = allocated
      BY <2>1 DEF Chain
    <2> QED BY <2>1, <2>2, <2>3, <2>4 DEF NoStaleNode, Chain
  <1> QED BY <1>1, AlwaysIInv, PTL

\* The threads on the list, in order.
Waiting(s) == [i \in 1 .. Len(s) |-> tid[s[i]]]

LEMMA QueueIs == \A s : Chain(s) => Queue = Waiting(s)
  BY NodesIs DEF Queue, Waiting

LEMMA QueueIsNext == (\A s : Chain(s) => Queue = Waiting(s))'
  BY QueueIs, PTL

LEMMA EnterRefines ==
  ASSUME IInv, IInv', NEW t \in Threads, Enter(t)
  PROVE  Abstract!Enter(t)
  <1>1. PICK s : Chain(s)
    BY DEF IInv
  <1>2. TypeInv
    BY DEF IInv
  <1>3. PICK n \in Addresses \ allocated :
          /\ allocated' = allocated \cup {n} /\ tid' = [tid EXCEPT ![n] = t] /\ next' = LinkedAfter(n)
          /\ head' = IF head = NULL THEN n ELSE head
          /\ tail' = IF head = NULL THEN tail ELSE n
    BY DEF Enter
  <1>4. PICK u, m : u = Append(s, n) /\ m = Len(s)
    OBVIOUS
  <1>5. Chain(u)'
    BY <1>1, <1>2, <1>3, <1>4, EnterChain
  <1>6. Queue = Waiting(s) /\ Queue' = Waiting(u)'
    <2>1. Chain(u)' => Queue' = Waiting(u)'
      BY QueueIsNext
    <2> QED BY <1>1, <1>5, <2>1, QueueIs
  <1>7. /\ s \in Seq(Addresses) /\ m \in Nat /\ Len(u) = m + 1 /\ u[m + 1] = n
        /\ \A i \in 1 .. m : u[i] = s[i] /\ s[i] # n /\ s[i] \in Addresses
    <2>1. s \in Seq(Addresses) /\ \A i \in 1 .. m : s[i] \in allocated
      BY <1>1, <1>4 DEF Chain
    <2> QED BY <1>4, <2>1
  <1>8. PICK q, r : q = Waiting(s) /\ r = Waiting(u)'
    OBVIOUS
  <1>9. q \in Seq(Threads) /\ Len(q) = m /\ \A i \in 1 .. m : q[i] = tid[s[i]]
    <2>1. q = [i \in 1 .. m |-> tid[s[i]]]
      BY <1>4, <1>8 DEF Waiting
    <2>2. \A i \in 1 .. m : tid[s[i]] \in Threads
      BY <1>2, <1>7 DEF TypeInv
    <2> QED BY <1>7, <2>1, <2>2
  <1>10. r = [i \in 1 .. m + 1 |-> tid'[u[i]]]
    BY <1>7, <1>8 DEF Waiting
  <1>11. /\ \A i \in 1 .. m : tid'[u[i]] = q[i]
         /\ tid'[u[m + 1]] = t
    BY <1>2, <1>3, <1>7, <1>9 DEF TypeInv
  <1>12. r = Append(q, t)
    <2>1. \A i \in 1 .. m + 1 : i \in 1 .. m \/ i = m + 1
      BY <1>7
    <2>2. r \in Seq(Threads) /\ Len(r) = m + 1
      <3>1. \A i \in 1 .. m + 1 : tid'[u[i]] \in Threads
        BY <1>9, <1>11, <2>1
      <3> QED BY <1>7, <1>10, <3>1
    <2>3. /\ Append(q, t) \in Seq(Threads) /\ Len(Append(q, t)) = m + 1
          /\ \A i \in 1 .. m : Append(q, t)[i] = q[i]
          /\ Append(q, t)[m + 1] = t
      BY <1>9
    <2>4. \A i \in 1 .. m + 1 : r[i] = Append(q, t)[i]
      BY <1>10, <1>11, <2>1, <2>3
    <2> QED BY <2>2, <2>3, <2>4, SeqEqual
  <1>13. last' = <<"enter", t>>
    BY DEF Enter
  <1> QED BY <1>6, <1>8, <1>12, <1>13 DEF Abstract!Enter

LEMMA LeaveRefines ==
  ASSUME IInv, IInv', Leave
  PROVE  Abstract!Leave
  <1>1. PICK s : Chain(s)
    BY DEF IInv
  <1>2. TypeInv
    BY DEF IInv
  <1>3. PICK u, m : u = Tail(s) /\ m = Len(s)
    OBVIOUS
  <1>4. s # <<>> /\ head = s[1] /\ Chain(u)' /\ s \in Seq(Addresses)
    BY <1>1, <1>2, <1>3, LeaveChain DEF Chain
  <1>5. Queue = Waiting(s) /\ Queue' = Waiting(u)'
    <2>1. Chain(u)' => Queue' = Waiting(u)'
      BY QueueIsNext
    <2> QED BY <1>1, <1>4, <2>1, QueueIs
  <1>6. /\ m \in Nat \ {0} /\ Len(u) = m - 1 /\ \A i \in 1 .. m - 1 : u[i] = s[i + 1]
        /\ \A i \in 1 .. m : s[i] \in Addresses
    BY <1>3, <1>4
  <1>7. PICK q, r : q = Waiting(s) /\ r = Waiting(u)'
    OBVIOUS
  <1>8. q \in Seq(Threads) /\ Len(q) = m /\ \A i \in 1 .. m : q[i] = tid[s[i]]
    <2>1. q = [i \in 1 .. m |-> tid[s[i]]]
      BY <1>3, <1>7 DEF Waiting
    <2>2. \A i \in 1 .. m : tid[s[i]] \in Threads
      BY <1>2, <1>6 DEF TypeInv
    <2> QED BY <1>6, <2>1, <2>2
  <1>9. r = [i \in 1 .. m - 1 |-> tid[u[i]]]
    BY <1>6, <1>7 DEF Waiting, Leave
  <1>10. \A i \in 1 .. m - 1 : tid[u[i]] = q[i + 1] /\ i + 1 \in 1 .. m
    BY <1>6, <1>8
  <1>11. q # <<>> /\ Head(q) = tid[head]
    BY <1>4, <1>6, <1>8
  <1>12. r = Tail(q)
    <2>1. r \in Seq(Threads) /\ Len(r) = m - 1
      <3>1. \A i \in 1 .. m - 1 : tid[u[i]] \in Threads
        BY <1>8, <1>10
      <3> QED BY <1>6, <1>9, <3>1
    <2>2. Tail(q) \in Seq(Threads) /\ Len(Tail(q)) = m - 1 /\ \A i \in 1 .. m - 1 : Tail(q)[i] = q[i + 1]
      BY <1>6, <1>8, <1>11
    <2>3. \A i \in 1 .. m - 1 : r[i] = Tail(q)[i]
      BY <1>9, <1>10, <2>2
    <2> QED BY <2>1, <2>2, <2>3, SeqEqual
  <1>13. last' = <<"leave", tid[head]>>
    BY DEF Leave
  <1> QED BY <1>5, <1>7, <1>11, <1>12, <1>13 DEF Abstract!Leave

\* The head, tail and next pointers implement a queue: pthread_mutex_unlock wakes the
\* threads in the order in which pthread_mutex_lock blocked them, each once.
THEOREM ListIsQueue == Spec => ImplementsFifo
  <1>1. Init => Abstract!Init
    <2> SUFFICES ASSUME Init PROVE Abstract!Init
      OBVIOUS
    <2>1. <<>> \in Seq(Addresses) /\ Len(<<>>) = 0 /\ 1 .. Len(<<>>) = {} /\ 1 .. Len(<<>>) - 1 = {}
      OBVIOUS
    <2>2. Chain(<<>>)
      BY <2>1 DEF Init, Chain, FromHead
    <2>3. Queue = Waiting(<<>>)
      BY <2>2, QueueIs
    <2>4. Waiting(<<>>) = <<>>
      BY <2>1 DEF Waiting
    <2> QED BY <2>3, <2>4 DEF Init, Abstract!Init
  <1>2. IInv /\ IInv' /\ [Next]_vars => [Abstract!Next]_<<Queue, last>>
    <2> SUFFICES ASSUME IInv, IInv', [Next]_vars PROVE [Abstract!Next]_<<Queue, last>>
      OBVIOUS
    <2>1. CASE Leave
      BY <2>1, LeaveRefines DEF Abstract!Next
    <2>2. ASSUME NEW t \in Threads, Enter(t) PROVE Abstract!Next
      BY <2>2, EnterRefines DEF Abstract!Next
    <2>3. CASE UNCHANGED vars
      BY <2>3 DEF vars, Queue, Nodes, FromHead
    <2> QED BY <2>1, <2>2, <2>3 DEF Next
  <1> QED BY <1>1, <1>2, AlwaysIInv, PTL DEF Spec, ImplementsFifo, Abstract!Spec
=============================================================================
