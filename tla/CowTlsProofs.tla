---------------------------- MODULE CowTlsProofs ----------------------------
(***************************************************************************)
(* Theorems about CowTls for any threads, table length, page size, sizes,  *)
(* offsets and lengths, and any sequence of calls.                         *)
(***************************************************************************)
EXTENDS CowTls, FiniteSetTheorems, TLAPS

TypeOK ==
  /\ initialize \in BOOLEAN
  /\ pair_tid \in [Slots -> Threads \cup {Zero, Minus1}]
  /\ tls_size \in [Slots -> Nat]
  /\ tls_pages \in [Slots -> [PageIdx -> Pages \cup {NoPage}]]
  /\ mapped \in SUBSET Pages
  /\ ref_count \in [Pages -> Nat]
  /\ data \in [Pages -> [0 .. PageSize - 1 -> Bytes \cup {0}]]
  /\ alive \in SUBSET Threads

\* Slot i has an area exactly when it has a thread; the area's pages are the ones its size
\* asks for, each of them once.
AreaInv(i) ==
  /\ pair_tid[i] \in Threads <=> tls_size[i] > 0
  /\ tls_size[i] > 0 => tls_size[i] \in Sizes
  /\ \A j \in PageIdx : tls_pages[i][j] # NoPage <=> tls_size[i] > 0 /\ j < PageNum(tls_size[i])
  /\ \A j, k \in PageIdx : tls_pages[i][j] = tls_pages[i][k] /\ tls_pages[i][j] # NoPage => j = k

AreasInv == \A i \in Slots : AreaInv(i)

\* A thread has one slot; before the first tls_create nobody has; slots are taken in order.
TidsInv ==
  /\ \A i, k \in Slots : pair_tid[i] = pair_tid[k] /\ pair_tid[i] \in Threads => i = k
  /\ ~initialize => mapped = {} /\ \A i \in Slots : pair_tid[i] = Zero
  /\ initialize => \A i \in Slots : pair_tid[i] # Minus1 =>
                     \A k \in Slots : k < i => pair_tid[k] # Minus1

\* A page that an area points to exists, and is counted at least as often.
HeldInv ==
  \A p \in Pages : /\ References(p) # {} => p \in mapped
                   /\ ref_count[p] >= Cardinality(References(p))

\* As long as no clone is lost, the count is exact.
ExactInv == \A p \in mapped : References(p) # {} /\ ref_count[p] = Cardinality(References(p))

IInv ==
  /\ TypeOK /\ AreasInv /\ TidsInv /\ HeldInv
  /\ readable = {}
  /\ ~Exhaust => ExactInv

-----------------------------------------------------------------------------
(* Arithmetic of pages                                                     *)

LEMMA DivNat == ASSUME NEW a \in Nat, NEW n \in Nat \ {0} PROVE a \div n \in Nat /\ a \div n <= a
  OBVIOUS

LEMMA DivMonotone ==
  ASSUME NEW a \in Nat, NEW b \in Nat, NEW n \in Nat \ {0}, a <= b
  PROVE  a \div n <= b \div n
  OBVIOUS

LEMMA SizesNat == Sizes \subseteq Nat /\ Offsets \subseteq Nat /\ Lengths \subseteq Nat
  BY ConstantsOK DEF UInts

LEMMA PageNumNat ==
  ASSUME NEW n \in Sizes, n > 0
  PROVE  /\ PageNum(n) \in Nat \ {0} /\ PageNum(n) <= n
         /\ 0 .. PageNum(n) - 1 \subseteq PageIdx
  <1>1. n - 1 \in Nat /\ PageSize \in Nat \ {0}
    BY SizesNat, ConstantsOK
  <1>2. PageNum(n) \in Nat \ {0} /\ PageNum(n) <= n
    <2>1. (n - 1) \div PageSize \in Nat /\ (n - 1) \div PageSize <= n - 1
      BY <1>1, DivNat
    <2>2. n \in Nat
      BY SizesNat
    <2> QED BY <2>1, <2>2 DEF PageNum
  <1>3. 0 .. PageNum(n) - 1 \subseteq PageIdx
    <2>1. n \in Sizes \ {0}
      BY SizesNat
    <2> SUFFICES ASSUME NEW j \in 0 .. PageNum(n) - 1 PROVE j \in PageIdx
      OBVIOUS
    <2> QED BY <2>1, Zenon DEF PageIdx
  <1> QED BY <1>2, <1>3

LEMMA PageIdxFinite == IsFiniteSet(PageIdx) /\ PageIdx \subseteq Nat
  <1>1. ASSUME NEW j \in PageIdx PROVE j \in Nat /\ j <= 2 ^ UIntWidth
    <2>1. PICK n \in Sizes \ {0} : j \in 0 .. PageNum(n) - 1
      BY DEF PageIdx
    <2>2. n \in Nat /\ n > 0 /\ n <= 2 ^ UIntWidth
      BY ConstantsOK DEF UInts
    <2>3. PageNum(n) \in Nat /\ PageNum(n) <= n
      BY <2>2, PageNumNat
    <2> QED BY <2>1, <2>2, <2>3, ConstantsOK
  <1> QED BY <1>1, ConstantsOK, FS_BoundedSetOfNaturals

LEMMA PlacesFinite == IsFiniteSet(Slots \X PageIdx)
  <1>1. IsFiniteSet(Slots)
    BY ConstantsOK, FS_Interval DEF Slots
  <1> QED BY <1>1, PageIdxFinite, FS_Product

LEMMA ReferencesFinite ==
  ASSUME NEW p
  PROVE  IsFiniteSet(References(p)) /\ Cardinality(References(p)) \in Nat
  <1>1. References(p) \in SUBSET (Slots \X PageIdx)
    BY DEF References
  <1> QED BY <1>1, PlacesFinite, FS_Subset, FS_CardinalityType

-----------------------------------------------------------------------------
(* How the places of a page change when one slot gets a new row of pages   *)

OtherRowsSame(i) == \A k \in Slots : k # i => tls_pages'[k] = tls_pages[k]

LEMMA RefsSame ==
  ASSUME NEW p \in Pages, NEW i \in Slots, OtherRowsSame(i),
         \A j \in PageIdx : tls_pages'[i][j] = p <=> tls_pages[i][j] = p
  PROVE  References(p)' = References(p)
  BY DEF References, OtherRowsSame

LEMMA RefsAdd ==
  ASSUME NEW p \in Pages, NEW i \in Slots, NEW k \in PageIdx, OtherRowsSame(i),
         \A j \in PageIdx : tls_pages'[i][j] = p <=> j = k,
         \A j \in PageIdx : tls_pages[i][j] # p
  PROVE  /\ References(p)' = References(p) \cup {<<i, k>>}
         /\ Cardinality(References(p)') = Cardinality(References(p)) + 1
  <1>1. References(p)' = References(p) \cup {<<i, k>>}
    BY DEF References, OtherRowsSame
  <1>2. <<i, k>> \notin References(p)
    BY DEF References
  <1> QED BY <1>1, <1>2, ReferencesFinite, FS_AddElement

LEMMA RefsRemove ==
  ASSUME NEW p \in Pages, NEW i \in Slots, NEW k \in PageIdx, OtherRowsSame(i),
         \A j \in PageIdx : tls_pages[i][j] = p <=> j = k,
         \A j \in PageIdx : tls_pages'[i][j] # p
  PROVE  /\ References(p)' = References(p) \ {<<i, k>>}
         /\ Cardinality(References(p)) > 0
         /\ Cardinality(References(p)') = Cardinality(References(p)) - 1
  <1>1. References(p)' = References(p) \ {<<i, k>>}
    BY DEF References, OtherRowsSame
  <1>2. <<i, k>> \in References(p)
    BY DEF References
  <1>3. Cardinality(References(p)') = Cardinality(References(p)) - 1
    BY <1>1, <1>2, ReferencesFinite, FS_RemoveElement
  <1>4. Cardinality(References(p)) # 0
    BY <1>2, ReferencesFinite, FS_EmptySet
  <1> QED BY <1>1, <1>3, <1>4, ReferencesFinite

LEMMA NoReferences ==
  ASSUME NEW p
  PROVE  Cardinality(References(p)) = 0 <=> References(p) = {}
  BY ReferencesFinite, FS_EmptySet

\* A page of an area sits at exactly one index.
LEMMA PlaceInArea ==
  ASSUME TypeOK, NEW i \in Slots, AreaInv(i), NEW p \in AreaPages(i)
  PROVE  /\ p \in Pages
         /\ \E k \in PageIdx : \A j \in PageIdx : tls_pages[i][j] = p <=> j = k
  <1>1. PICK k \in PageIdx : tls_pages[i][k] = p /\ p # NoPage
    BY DEF AreaPages, Range, TypeOK
  <1>2. p \in Pages
    BY <1>1 DEF TypeOK
  <1>3. \A j \in PageIdx : tls_pages[i][j] = p <=> j = k
    BY <1>1 DEF AreaInv
  <1> QED BY <1>2, <1>3

LEMMA NotInArea ==
  ASSUME TypeOK, NEW i \in Slots, NEW p \in Pages
  PROVE  p \notin AreaPages(i) <=> \A j \in PageIdx : tls_pages[i][j] # p
  BY DEF AreaPages, Range, TypeOK, Pages, NoPage

LEMMA AreaIsHeld ==
  ASSUME TypeOK, HeldInv, NEW i \in Slots, NEW p \in AreaPages(i)
  PROVE  p \in Pages /\ p \in mapped /\ ref_count[p] \in Nat \ {0}
  <1>1. PICK k \in PageIdx : tls_pages[i][k] = p /\ p # NoPage
    BY DEF AreaPages, Range, TypeOK
  <1>2. p \in Pages /\ ref_count[p] \in Nat
    BY <1>1 DEF TypeOK
  <1>3. <<i, k>> \in References(p)
    BY <1>1 DEF References
  <1>4. Cardinality(References(p)) # 0
    BY <1>3, NoReferences
  <1> QED BY <1>2, <1>3, <1>4, ReferencesFinite DEF HeldInv

LEMMA NewPagesFacts ==
  ASSUME NEW S, NEW new \in NewPages(S)
  PROVE  /\ DOMAIN new = S
         /\ \A j \in S : new[j] \in Pages \ mapped
         /\ \A j, k \in S : new[j] = new[k] => j = k
         /\ \A p : p \in Range(new) <=> \E j \in S : new[j] = p
  <1>1. new \in [S -> Pages \ mapped] /\ IsInjective(new)
    BY DEF NewPages, Injection
  <1> QED BY <1>1 DEF IsInjective, Range

LEMMA UnmappedIsFree ==
  ASSUME HeldInv, NEW p \in Pages \ mapped
  PROVE  References(p) = {} /\ Cardinality(References(p)) = 0
  BY FS_EmptySet DEF HeldInv

\* What the table is after tls_init.
LEMMA InitTidsFacts ==
  ASSUME TypeOK, TidsInv
  PROVE  /\ InitTids \in [Slots -> Threads \cup {Zero, Minus1}]
         /\ \A i \in Slots : InitTids[i] \in Threads <=> pair_tid[i] \in Threads
         /\ \A i \in Slots : InitTids[i] \in Threads => InitTids[i] = pair_tid[i]
         /\ \A i \in Slots : InitTids[i] # Minus1 =>
              \A k \in Slots : k < i => InitTids[k] # Minus1
  BY ConstantsOK DEF InitTids, TypeOK, TidsInv

\* A free slot has no area.
LEMMA FreeSlotIsEmpty ==
  ASSUME TypeOK, AreasInv, NEW i \in Slots, pair_tid[i] \notin Threads
  PROVE  tls_size[i] = 0 /\ \A j \in PageIdx : tls_pages[i][j] = NoPage
  BY DEF TypeOK, AreasInv, AreaInv

LEMMA FrameIInv ==
  ASSUME IInv, UNCHANGED <<initialize, pair_tid, tls_size, tls_pages, mapped, ref_count, data, readable>>,
         alive' \in SUBSET Threads
  PROVE  IInv'
  <1>1. TypeOK'
    BY DEF IInv, TypeOK
  <1>2. AreasInv' /\ TidsInv'
    BY DEF IInv, AreasInv, AreaInv, TidsInv
  <1>3. HeldInv' /\ (~Exhaust => ExactInv')
    BY DEF IInv, HeldInv, ExactInv, References
  <1> QED BY <1>1, <1>2, <1>3 DEF IInv

LEMMA CreateRefusedIInv ==
  ASSUME IInv, NEW t \in Threads, NEW n, CreateRefused(t, n)
  PROVE  IInv'
  <1>1. /\ initialize' = TRUE /\ pair_tid' = InitTids
        /\ UNCHANGED <<tls_size, tls_pages, mapped, ref_count, data, readable, alive>>
    BY DEF CreateRefused, pageVars
  <1>2. /\ InitTids \in [Slots -> Threads \cup {Zero, Minus1}]
        /\ \A i \in Slots : InitTids[i] \in Threads <=> pair_tid[i] \in Threads
        /\ \A i \in Slots : InitTids[i] \in Threads => InitTids[i] = pair_tid[i]
        /\ \A i \in Slots : InitTids[i] # Minus1 =>
             \A k \in Slots : k < i => InitTids[k] # Minus1
    BY InitTidsFacts DEF IInv
  <1>3. TypeOK'
    BY <1>1, <1>2 DEF IInv, TypeOK
  <1>4. AreasInv'
    BY <1>1, <1>2 DEF IInv, AreasInv, AreaInv
  <1>5. TidsInv'
    BY <1>1, <1>2 DEF IInv, TidsInv
  <1>6. HeldInv' /\ (~Exhaust => ExactInv')
    BY <1>1 DEF IInv, HeldInv, ExactInv, References
  <1> QED BY <1>1, <1>3, <1>4, <1>5, <1>6 DEF IInv

-----------------------------------------------------------------------------
(* tls_create                                                              *)

LEMMA CreateIInv ==
  ASSUME IInv, NEW t \in Threads, NEW n \in Sizes, Create(t, n)
  PROVE  IInv'
  <1>1. PICK i \in Slots, new \in NewPages(0 .. PageNum(n) - 1) :
          /\ FirstSlot(InitTids, Minus1, i)
          /\ pair_tid' = [InitTids EXCEPT ![i] = t]
          /\ tls_size' = [tls_size EXCEPT ![i] = n]
          /\ tls_pages' = [tls_pages EXCEPT ![i] =
                             [j \in PageIdx |-> IF j < PageNum(n) THEN new[j] ELSE NoPage]]
          /\ mapped' = mapped \cup Range(new)
          /\ ref_count' = [p \in Pages |-> IF p \in Range(new) THEN 1 ELSE ref_count[p]]
          /\ data' = [p \in Pages |-> IF p \in Range(new) THEN ZeroPage ELSE data[p]]
    BY DEF Create
  <1>2. n > 0 /\ ~Registered(t) /\ initialize' = TRUE /\ UNCHANGED <<readable, alive>>
    BY DEF Create
  <1>3. TypeOK /\ AreasInv /\ TidsInv /\ HeldInv
    BY DEF IInv
  <1> DEFINE S == 0 .. PageNum(n) - 1
             row == [j \in PageIdx |-> IF j < PageNum(n) THEN new[j] ELSE NoPage]
  <1>4. /\ \A j \in S : new[j] \in Pages \ mapped
        /\ \A j, k \in S : new[j] = new[k] => j = k
        /\ \A p : p \in Range(new) <=> \E j \in S : new[j] = p
    <2>1. new \in NewPages(S)
      OBVIOUS
    <2> HIDE DEF S
    <2> QED BY <2>1, NewPagesFacts
  <1>5. PageNum(n) \in Nat \ {0} /\ S \subseteq PageIdx /\ PageIdx \subseteq Nat /\ n \in Nat
    BY <1>2, PageNumNat, PageIdxFinite, SizesNat
  <1>6. /\ \A j \in PageIdx : j < PageNum(n) <=> j \in S
        /\ \A j \in PageIdx : j \in S => row[j] = new[j]
        /\ \A j \in PageIdx : j \notin S => row[j] = NoPage
    BY <1>5
  <1>7. NoPage \notin Pages
    BY DEF NoPage, Pages
  <1>8. row \in [PageIdx -> Pages \cup {NoPage}] /\ DOMAIN row = PageIdx
    BY <1>4, <1>6
  <1>9. tls_pages' = [tls_pages EXCEPT ![i] = row] /\ tls_pages'[i] = row /\ OtherRowsSame(i)
    BY <1>1, <1>3 DEF TypeOK, OtherRowsSame
  <1> HIDE DEF S, row
  <1>10. /\ InitTids \in [Slots -> Threads \cup {Zero, Minus1}]
         /\ \A k \in Slots : InitTids[k] \in Threads <=> pair_tid[k] \in Threads
         /\ \A k \in Slots : InitTids[k] \in Threads => InitTids[k] = pair_tid[k]
    BY <1>3, InitTidsFacts
  <1>11. InitTids[i] = Minus1 /\ pair_tid[i] \notin Threads
    BY <1>1, <1>10, ConstantsOK DEF FirstSlot
  <1>12. \A j \in PageIdx : tls_pages[i][j] = NoPage
    BY <1>3, <1>11, FreeSlotIsEmpty
  <1>13. Range(new) \subseteq Pages \ mapped
    BY <1>4
  <1>14. TypeOK'
    <2>1. pair_tid' \in [Slots -> Threads \cup {Zero, Minus1}]
      BY <1>1, <1>10
    <2>2. tls_size' \in [Slots -> Nat]
      BY <1>1, <1>3, <1>5 DEF TypeOK
    <2>3. tls_pages' \in [Slots -> [PageIdx -> Pages \cup {NoPage}]]
      BY <1>3, <1>8, <1>9 DEF TypeOK
    <2>4. mapped' \in SUBSET Pages /\ ref_count' \in [Pages -> Nat]
      BY <1>1, <1>3, <1>13 DEF TypeOK
    <2>5. data' \in [Pages -> [0 .. PageSize - 1 -> Bytes \cup {0}]]
      <3>1. ZeroPage \in [0 .. PageSize - 1 -> Bytes \cup {0}]
        BY DEF ZeroPage
      <3> QED BY <1>1, <1>3, <3>1 DEF TypeOK
    <2> QED BY <1>2, <1>3, <2>1, <2>2, <2>3, <2>4, <2>5 DEF TypeOK
  <1>15. AreasInv'
    <2> SUFFICES ASSUME NEW k \in Slots PROVE AreaInv(k)'
      BY DEF AreasInv
    <2>1. CASE k = i
      <3>1. pair_tid'[i] = t /\ tls_size'[i] = n /\ tls_pages'[i] = row
        BY <1>1, <1>3, <1>9, <1>10 DEF TypeOK
      <3>2. \A j \in PageIdx : row[j] # NoPage <=> j < PageNum(n)
        BY <1>4, <1>6, <1>7
      <3>3. \A j, l \in PageIdx : row[j] = row[l] /\ row[j] # NoPage => j = l
        BY <1>4, <1>6
      <3> QED BY <1>2, <2>1, <3>1, <3>2, <3>3 DEF AreaInv
    <2>2. CASE k # i
      <3>1. /\ pair_tid'[k] \in Threads <=> pair_tid[k] \in Threads
            /\ tls_size'[k] = tls_size[k] /\ tls_pages'[k] = tls_pages[k]
        BY <1>1, <1>3, <1>9, <1>10, <2>2 DEF TypeOK
      <3>2. AreaInv(k)
        BY <1>3 DEF AreasInv
      <3> QED BY <3>1, <3>2 DEF AreaInv
    <2> QED BY <2>1, <2>2
  <1>16. TidsInv'
    <2>1. \A k \in Slots : pair_tid[k] # t
      BY <1>2 DEF Registered
    <2>2. \A k, l \in Slots : pair_tid'[k] = pair_tid'[l] /\ pair_tid'[k] \in Threads => k = l
      BY <1>1, <1>3, <1>10, <2>1 DEF TidsInv
    <2>3. \A k \in Slots : pair_tid'[k] # Minus1 =>
            \A l \in Slots : l < k => pair_tid'[l] # Minus1
      <3>1. \A k \in Slots : InitTids[k] # Minus1 => \A l \in Slots : l < k => InitTids[l] # Minus1
        BY <1>3, InitTidsFacts
      <3>2. \A l \in Slots : l < i => InitTids[l] # Minus1
        BY <1>1, ConstantsOK DEF FirstSlot, Slots
      <3> QED BY <1>1, <1>10, <3>1, <3>2, ConstantsOK
    <2> QED BY <1>2, <2>2, <2>3 DEF TidsInv
  <1>17. ASSUME NEW p \in Pages, p \in Range(new)
         PROVE  References(p)' # {} /\ ref_count'[p] = 1 /\ Cardinality(References(p)') = 1
    <2>1. PICK k \in S : new[k] = p
      BY <1>4, <1>17
    <2>2. k \in PageIdx /\ \A j \in PageIdx : row[j] = p <=> j = k
      BY <1>4, <1>5, <1>6, <1>7, <2>1
    <2>3. \A j \in PageIdx : tls_pages[i][j] # p
      BY <1>7, <1>12
    <2>4. References(p) = {} /\ Cardinality(References(p)) = 0
      BY <1>3, <1>13, <1>17, UnmappedIsFree
    <2>5. /\ References(p)' = References(p) \cup {<<i, k>>}
          /\ Cardinality(References(p)') = Cardinality(References(p)) + 1
      BY <1>9, <2>2, <2>3, RefsAdd
    <2> QED BY <1>1, <1>17, <2>4, <2>5
  <1>18. ASSUME NEW p \in Pages, p \notin Range(new)
         PROVE  References(p)' = References(p) /\ ref_count'[p] = ref_count[p]
    <2>1. \A j \in PageIdx : row[j] # p
      BY <1>4, <1>6, <1>7, <1>18
    <2>2. \A j \in PageIdx : tls_pages[i][j] # p
      BY <1>7, <1>12
    <2>3. References(p)' = References(p)
      BY <1>9, <2>1, <2>2, RefsSame
    <2> QED BY <1>1, <1>18, <2>3
  <1>19. HeldInv'
    BY <1>1, <1>3, <1>17, <1>18 DEF HeldInv
  <1>20. ~Exhaust => ExactInv'
    BY <1>1, <1>13, <1>14, <1>17, <1>18 DEF IInv, ExactInv, TypeOK
  <1> QED BY <1>2, <1>14, <1>15, <1>16, <1>19, <1>20 DEF IInv

-----------------------------------------------------------------------------
(* tls_destroy                                                             *)

LEMMA DestroyIInv ==
  ASSUME IInv, NEW t \in Threads, Destroy(t)
  PROVE  IInv'
  <1>1. PICK i \in Slots :
          /\ FirstSlot(pair_tid, t, i)
          /\ mapped' = mapped \ Unmapped(i)
          /\ data' = [p \in Pages |-> IF p \in Unmapped(i) THEN ZeroPage ELSE data[p]]
          /\ ref_count' = [p \in Pages |-> IF p \in AreaPages(i) THEN ref_count[p] - 1
                                                                 ELSE ref_count[p]]
          /\ pair_tid' = [pair_tid EXCEPT ![i] = Zero]
          /\ tls_size' = [tls_size EXCEPT ![i] = 0]
          /\ tls_pages' = [tls_pages EXCEPT ![i] = NoPages]
    BY DEF Destroy
  <1>2. UNCHANGED <<initialize, readable, alive>>
    BY DEF Destroy
  <1>3. TypeOK /\ AreasInv /\ TidsInv /\ HeldInv /\ AreaInv(i)
    BY DEF IInv, AreasInv
  <1>4. pair_tid[i] = t
    BY <1>1 DEF FirstSlot
  <1>5. tls_pages'[i] = NoPages /\ OtherRowsSame(i)
    BY <1>1, <1>3 DEF TypeOK, OtherRowsSame
  <1>6. \A j \in PageIdx : tls_pages'[i][j] = NoPage
    BY <1>5 DEF NoPages
  <1>7. NoPage \notin Pages
    BY DEF NoPage, Pages
  <1>8. TypeOK'
    <2>1. pair_tid' \in [Slots -> Threads \cup {Zero, Minus1}] /\ tls_size' \in [Slots -> Nat]
      BY <1>1, <1>3 DEF TypeOK
    <2>2. tls_pages' \in [Slots -> [PageIdx -> Pages \cup {NoPage}]]
      <3>1. NoPages \in [PageIdx -> Pages \cup {NoPage}]
        BY DEF NoPages
      <3> QED BY <1>1, <1>3, <3>1 DEF TypeOK
    <2>3. mapped' \in SUBSET Pages
      BY <1>1, <1>3 DEF TypeOK
    <2>4. ref_count' \in [Pages -> Nat]
      <3>1. \A p \in Pages : p \in AreaPages(i) => ref_count[p] - 1 \in Nat
        BY <1>3, AreaIsHeld
      <3> QED BY <1>1, <1>3, <3>1 DEF TypeOK
    <2>5. data' \in [Pages -> [0 .. PageSize - 1 -> Bytes \cup {0}]]
      <3>1. ZeroPage \in [0 .. PageSize - 1 -> Bytes \cup {0}]
        BY DEF ZeroPage
      <3> QED BY <1>1, <1>3, <3>1 DEF TypeOK
    <2> QED BY <1>2, <1>3, <2>1, <2>2, <2>3, <2>4, <2>5 DEF TypeOK
  <1>9. AreasInv'
    <2> SUFFICES ASSUME NEW k \in Slots PROVE AreaInv(k)'
      BY DEF AreasInv
    <2>1. CASE k = i
      <3>1. pair_tid'[i] = Zero /\ tls_size'[i] = 0
        BY <1>1, <1>3 DEF TypeOK
      <3> QED BY <1>6, <2>1, <3>1, ConstantsOK DEF AreaInv
    <2>2. CASE k # i
      <3>1. pair_tid'[k] = pair_tid[k] /\ tls_size'[k] = tls_size[k] /\ tls_pages'[k] = tls_pages[k]
        BY <1>1, <1>3, <2>2 DEF TypeOK
      <3>2. AreaInv(k)
        BY <1>3 DEF AreasInv
      <3> QED BY <3>1, <3>2 DEF AreaInv
    <2> QED BY <2>1, <2>2
  <1>10. TidsInv'
    <2>1. initialize
      BY <1>3, <1>4, ConstantsOK DEF TidsInv
    <2>2. \A k \in Slots : pair_tid'[k] = IF k = i THEN Zero ELSE pair_tid[k]
      BY <1>1, <1>3 DEF TypeOK
    <2>3. \A k, l \in Slots : pair_tid'[k] = pair_tid'[l] /\ pair_tid'[k] \in Threads => k = l
      BY <1>3, <2>2, ConstantsOK DEF TidsInv
    <2>4. Zero # Minus1 /\ t # Minus1
      BY ConstantsOK
    <2>5. \A k \in Slots : pair_tid'[k] # Minus1 <=> pair_tid[k] # Minus1
      BY <1>4, <2>2, <2>4
    <2>6. \A k \in Slots : pair_tid[k] # Minus1 => \A l \in Slots : l < k => pair_tid[l] # Minus1
      BY <1>3, <2>1 DEF TidsInv
    <2>7. \A k \in Slots : pair_tid'[k] # Minus1 => \A l \in Slots : l < k => pair_tid'[l] # Minus1
      BY <2>5, <2>6
    <2> QED BY <1>2, <2>1, <2>3, <2>7 DEF TidsInv
  <1>11. ASSUME NEW p \in Pages, p \in AreaPages(i)
         PROVE  /\ Cardinality(References(p)') = Cardinality(References(p)) - 1
                /\ Cardinality(References(p)) \in Nat \ {0}
                /\ ref_count'[p] = ref_count[p] - 1
                /\ References(p)' = {} <=> Cardinality(References(p)) = 1
    <2>1. PICK k \in PageIdx : \A j \in PageIdx : tls_pages[i][j] = p <=> j = k
      BY <1>3, <1>11, PlaceInArea
    <2>2. \A j \in PageIdx : tls_pages'[i][j] # p
      BY <1>6, <1>7
    <2>3. /\ References(p)' = References(p) \ {<<i, k>>}
          /\ Cardinality(References(p)) > 0
          /\ Cardinality(References(p)') = Cardinality(References(p)) - 1
      BY <1>5, <2>1, <2>2, RefsRemove
    <2>4. IsFiniteSet(References(p)') /\ Cardinality(References(p)) \in Nat
      <3>1. IsFiniteSet(References(p)) /\ Cardinality(References(p)) \in Nat
        BY ReferencesFinite
      <3>2. References(p)' \in SUBSET References(p)
        BY <2>3
      <3> QED BY <3>1, <3>2, FS_Subset
    <2>5. Cardinality(References(p)') = 0 <=> References(p)' = {}
      BY <2>4, FS_EmptySet
    <2> QED BY <1>1, <1>11, <2>3, <2>4, <2>5
  <1>12. ASSUME NEW p \in Pages, p \notin AreaPages(i)
         PROVE  References(p)' = References(p) /\ ref_count'[p] = ref_count[p]
    <2>1. \A j \in PageIdx : tls_pages[i][j] # p
      BY <1>3, <1>12, NotInArea
    <2>2. References(p)' = References(p)
      BY <1>5, <1>6, <1>7, <2>1, RefsSame
    <2> QED BY <1>1, <1>12, <2>2
  <1>13. HeldInv'
    <2> SUFFICES ASSUME NEW p \in Pages
                 PROVE  /\ References(p)' # {} => p \in mapped'
                        /\ ref_count'[p] >= Cardinality(References(p)')
      BY DEF HeldInv
    <2>1. /\ References(p) # {} => p \in mapped
          /\ ref_count[p] >= Cardinality(References(p)) /\ ref_count[p] \in Nat
      BY <1>3 DEF HeldInv, TypeOK
    <2>2. CASE p \in AreaPages(i)
      <3>1. p \in mapped
        BY <1>3, <2>2, AreaIsHeld
      <3>2. ref_count[p] = 1 => References(p)' = {}
        BY <1>11, <2>1, <2>2
      <3> QED BY <1>1, <1>11, <2>1, <2>2, <3>1, <3>2 DEF Unmapped
    <2>3. CASE p \notin AreaPages(i)
      BY <1>1, <1>12, <2>1, <2>3 DEF Unmapped
    <2> QED BY <2>2, <2>3
  <1>14. ~Exhaust => ExactInv'
    <2> SUFFICES ASSUME ~Exhaust, NEW p \in mapped'
                 PROVE  References(p)' # {} /\ ref_count'[p] = Cardinality(References(p)')
      BY DEF ExactInv
    <2>1. p \in Pages /\ p \in mapped /\ p \notin Unmapped(i)
      BY <1>1, <1>3 DEF TypeOK
    <2>2. References(p) # {} /\ ref_count[p] = Cardinality(References(p))
      BY <2>1 DEF IInv, ExactInv
    <2>3. CASE p \in AreaPages(i)
      <3>1. ref_count[p] # 1
        BY <2>1, <2>3 DEF Unmapped
      <3> QED BY <1>11, <2>1, <2>2, <2>3, <3>1
    <2>4. CASE p \notin AreaPages(i)
      BY <1>12, <2>1, <2>2, <2>4
    <2> QED BY <2>3, <2>4
  <1> QED BY <1>2, <1>8, <1>9, <1>10, <1>13, <1>14 DEF IInv

-----------------------------------------------------------------------------
(* tls_clone                                                               *)

\* ref_count++ for a new reference to each page of an area.
LEMMA SharedType ==
  ASSUME TypeOK, NEW j \in Slots
  PROVE  Shared(j) \in [Pages -> Nat]
  BY DEF TypeOK, Shared

LEMMA CloneIInv ==
  ASSUME IInv, NEW t \in Threads, NEW u \in Threads, Clone(t, u)
  PROVE  IInv'
  <1>1. PICK i \in Slots, m \in Slots :
          /\ FirstSlot(pair_tid, u, m)
          /\ FirstSlot(pair_tid, Minus1, i)
          /\ ref_count' = Shared(m)
          /\ pair_tid' = [pair_tid EXCEPT ![i] = t]
          /\ tls_size' = [tls_size EXCEPT ![i] = tls_size[m]]
          /\ tls_pages' = [tls_pages EXCEPT ![i] = tls_pages[m]]
    BY DEF Clone
  <1>2. ~Registered(t) /\ UNCHANGED <<initialize, mapped, data, readable, alive>>
    BY DEF Clone
  <1>3. TypeOK /\ AreasInv /\ TidsInv /\ HeldInv /\ AreaInv(m)
    BY DEF IInv, AreasInv
  <1>4. pair_tid[m] = u /\ pair_tid[i] = Minus1 /\ pair_tid[i] \notin Threads
    BY <1>1, ConstantsOK DEF FirstSlot
  <1>5. tls_pages'[i] = tls_pages[m] /\ OtherRowsSame(i)
    BY <1>1, <1>3 DEF TypeOK, OtherRowsSame
  <1>6. \A j \in PageIdx : tls_pages[i][j] = NoPage
    BY <1>3, <1>4, FreeSlotIsEmpty
  <1>7. NoPage \notin Pages
    BY DEF NoPage, Pages
  <1>8. TypeOK'
    <2>1. pair_tid' \in [Slots -> Threads \cup {Zero, Minus1}] /\ tls_size' \in [Slots -> Nat]
      BY <1>1, <1>3 DEF TypeOK
    <2>2. tls_pages' \in [Slots -> [PageIdx -> Pages \cup {NoPage}]]
      BY <1>1, <1>3 DEF TypeOK
    <2>3. ref_count' \in [Pages -> Nat]
      BY <1>1, <1>3, SharedType
    <2> QED BY <1>2, <1>3, <2>1, <2>2, <2>3 DEF TypeOK
  <1>9. AreasInv'
    <2> SUFFICES ASSUME NEW k \in Slots PROVE AreaInv(k)'
      BY DEF AreasInv
    <2>1. CASE k = i
      <3>1. pair_tid'[i] = t /\ tls_size'[i] = tls_size[m]
        BY <1>1, <1>3 DEF TypeOK
      <3> QED BY <1>3, <1>4, <1>5, <2>1, <3>1 DEF AreaInv
    <2>2. CASE k # i
      <3>1. pair_tid'[k] = pair_tid[k] /\ tls_size'[k] = tls_size[k] /\ tls_pages'[k] = tls_pages[k]
        BY <1>1, <1>3, <2>2 DEF TypeOK
      <3>2. AreaInv(k)
        BY <1>3 DEF AreasInv
      <3> QED BY <3>1, <3>2 DEF AreaInv
    <2> QED BY <2>1, <2>2
  <1>10. TidsInv'
    <2>1. initialize
      BY <1>3, <1>4, ConstantsOK DEF TidsInv
    <2>2. \A k \in Slots : pair_tid'[k] = IF k = i THEN t ELSE pair_tid[k]
      BY <1>1, <1>3 DEF TypeOK
    <2>3. \A k \in Slots : pair_tid[k] # t
      BY <1>2 DEF Registered
    <2>4. \A k, l \in Slots : pair_tid'[k] = pair_tid'[l] /\ pair_tid'[k] \in Threads => k = l
      BY <1>3, <2>2, <2>3 DEF TidsInv
    <2>5. \A l \in Slots : l < i => pair_tid[l] # Minus1
      BY <1>1, ConstantsOK DEF FirstSlot, Slots
    <2>6. \A k \in Slots : pair_tid'[k] # Minus1 => \A l \in Slots : l < k => pair_tid'[l] # Minus1
      BY <1>3, <2>1, <2>2, <2>5, ConstantsOK DEF TidsInv
    <2> QED BY <1>2, <2>1, <2>4, <2>6 DEF TidsInv
  <1>11. ASSUME NEW p \in Pages, p \in AreaPages(m)
         PROVE  /\ Cardinality(References(p)') = Cardinality(References(p)) + 1
                /\ Cardinality(References(p)) \in Nat /\ References(p)' # {}
                /\ ref_count'[p] = ref_count[p] + 1
    <2>1. PICK k \in PageIdx : \A j \in PageIdx : tls_pages[m][j] = p <=> j = k
      BY <1>3, <1>11, PlaceInArea
    <2>2. \A j \in PageIdx : tls_pages[i][j] # p
      BY <1>6, <1>7
    <2>3. /\ References(p)' = References(p) \cup {<<i, k>>}
          /\ Cardinality(References(p)') = Cardinality(References(p)) + 1
      BY <1>5, <2>1, <2>2, RefsAdd
    <2> QED BY <1>1, <1>11, <2>3, ReferencesFinite DEF Shared
  <1>12. ASSUME NEW p \in Pages, p \notin AreaPages(m)
         PROVE  References(p)' = References(p) /\ ref_count'[p] = ref_count[p]
    <2>1. \A j \in PageIdx : tls_pages[m][j] # p
      BY <1>3, <1>12, NotInArea
    <2>2. References(p)' = References(p)
      BY <1>5, <1>6, <1>7, <2>1, RefsSame
    <2> QED BY <1>1, <1>12, <2>2 DEF Shared
  <1>13. HeldInv'
    <2> SUFFICES ASSUME NEW p \in Pages
                 PROVE  /\ References(p)' # {} => p \in mapped'
                        /\ ref_count'[p] >= Cardinality(References(p)')
      BY DEF HeldInv
    <2>1. /\ References(p) # {} => p \in mapped
          /\ ref_count[p] >= Cardinality(References(p)) /\ ref_count[p] \in Nat
      BY <1>3 DEF HeldInv, TypeOK
    <2>2. CASE p \in AreaPages(m)
      <3>1. p \in mapped
        BY <1>3, <2>2, AreaIsHeld
      <3> QED BY <1>2, <1>11, <2>1, <2>2, <3>1
    <2>3. CASE p \notin AreaPages(m)
      BY <1>2, <1>12, <2>1, <2>3
    <2> QED BY <2>2, <2>3
  <1>14. ~Exhaust => ExactInv'
    <2> SUFFICES ASSUME ~Exhaust, NEW p \in mapped'
                 PROVE  References(p)' # {} /\ ref_count'[p] = Cardinality(References(p)')
      BY DEF ExactInv
    <2>1. p \in Pages /\ p \in mapped
      BY <1>2, <1>3 DEF TypeOK
    <2>2. References(p) # {} /\ ref_count[p] = Cardinality(References(p))
      BY <2>1 DEF IInv, ExactInv
    <2> QED BY <1>11, <1>12, <2>1, <2>2
  <1> QED BY <1>2, <1>8, <1>9, <1>10, <1>13, <1>14 DEF IInv

LEMMA CloneNoSlotIInv ==
  ASSUME IInv, NEW t \in Threads, NEW u \in Threads, CloneNoSlot(t, u)
  PROVE  IInv'
  <1>1. PICK m \in Slots : ref_count' = Shared(m)
    BY DEF CloneNoSlot
  <1>2. /\ Exhaust
        /\ UNCHANGED <<initialize, pair_tid, tls_size, tls_pages, mapped, data, readable, alive>>
    BY DEF CloneNoSlot, tableVars
  <1>3. TypeOK'
    BY <1>1, <1>2, SharedType DEF IInv, TypeOK
  <1>4. AreasInv' /\ TidsInv'
    BY <1>2 DEF IInv, AreasInv, AreaInv, TidsInv
  <1>5. HeldInv'
    <2>1. \A p \in Pages : References(p)' = References(p)
      BY <1>2 DEF References
    <2>2. \A p \in Pages : ref_count[p] \in Nat /\ ref_count'[p] >= ref_count[p]
      BY <1>1 DEF IInv, TypeOK, Shared
    <2>3. \A p \in Pages : ref_count'[p] \in Nat
      BY <1>3 DEF TypeOK
    <2> QED BY <1>2, <2>1, <2>2, <2>3, ReferencesFinite DEF IInv, HeldInv
  <1> QED BY <1>2, <1>3, <1>4, <1>5 DEF IInv

-----------------------------------------------------------------------------
(* tls_read and tls_write                                                  *)

LEMMA ReadIInv ==
  ASSUME IInv, NEW t \in Threads, NEW off, NEW len, Read(t, off, len)
  PROVE  IInv'
  <1>1. /\ readable' = {}
        /\ UNCHANGED <<initialize, pair_tid, tls_size, tls_pages, mapped, ref_count, data, alive>>
    BY DEF Read, IInv, tableVars
  <1>2. TypeOK'
    BY <1>1 DEF IInv, TypeOK
  <1>3. AreasInv' /\ TidsInv'
    BY <1>1 DEF IInv, AreasInv, AreaInv, TidsInv
  <1>4. HeldInv' /\ (~Exhaust => ExactInv')
    BY <1>1 DEF IInv, HeldInv, ExactInv, References
  <1> QED BY <1>1, <1>2, <1>3, <1>4 DEF IInv

\* The page numbers a transfer touches lie inside the area.
Touched(off, len) == {idx \div PageSize : idx \in Indices(off, len)}

LEMMA TouchedInArea ==
  ASSUME IInv, NEW i \in Slots, NEW off, NEW len, Sum(off, len) <= tls_size[i],
         Sum(off, len) \in Nat, NEW pn \in Touched(off, len)
  PROVE  /\ tls_size[i] > 0 /\ tls_size[i] \in Sizes
         /\ pn \in PageIdx /\ pn < PageNum(tls_size[i])
         /\ tls_pages[i][pn] \in AreaPages(i) /\ tls_pages[i][pn] # NoPage
  <1>1. PICK idx \in UInts : pn = idx \div PageSize /\ idx < Sum(off, len)
    BY DEF Touched, Indices
  <1>2. idx \in Nat /\ tls_size[i] \in Nat /\ PageSize \in Nat \ {0}
    BY ConstantsOK DEF IInv, TypeOK, UInts
  <1>3. tls_size[i] > 0 /\ tls_size[i] - 1 \in Nat /\ idx <= tls_size[i] - 1
    BY <1>1, <1>2
  <1>4. tls_size[i] \in Sizes /\ AreaInv(i)
    BY <1>3 DEF IInv, AreasInv, AreaInv
  <1>5. pn \in Nat /\ pn <= (tls_size[i] - 1) \div PageSize
    BY <1>1, <1>2, <1>3, DivNat, DivMonotone
  <1>6. (tls_size[i] - 1) \div PageSize \in Nat
    BY <1>2, <1>3, DivNat
  <1>7. pn < PageNum(tls_size[i]) /\ pn \in 0 .. PageNum(tls_size[i]) - 1
    BY <1>5, <1>6 DEF PageNum
  <1>8. pn \in PageIdx
    BY <1>3, <1>4, <1>7, PageNumNat
  <1>9. tls_pages[i][pn] # NoPage
    BY <1>3, <1>4, <1>7, <1>8 DEF AreaInv
  <1>10. tls_pages[i][pn] \in AreaPages(i)
    BY <1>8, <1>9 DEF AreaPages, Range, IInv, TypeOK
  <1> QED BY <1>3, <1>4, <1>7, <1>8, <1>9, <1>10

LEMMA SumNat == ASSUME NEW off \in Offsets, NEW len \in Lengths PROVE Sum(off, len) \in Nat
  <1>1. off + len \in Nat /\ 2 ^ UIntWidth \in Nat \ {0}
    BY SizesNat, ConstantsOK
  <1>2. ASSUME NEW a \in Nat, NEW n \in Nat \ {0} PROVE a % n \in Nat
    OBVIOUS
  <1> QED BY <1>1, <1>2 DEF Sum

\* What a write does to the table, in terms of the page numbers it copies.
WriteRow(i, copied, copy) ==
  [j \in PageIdx |-> IF j \in copied THEN copy[j] ELSE tls_pages[i][j]]

WriteEffect(i, copied, copy) ==
  /\ tls_pages' = [tls_pages EXCEPT ![i] = WriteRow(i, copied, copy)]
  /\ mapped' = mapped \cup Range(copy)
  /\ ref_count' = [p \in Pages |->
                     CASE p \in Range(copy) -> 1
                       [] p \in {tls_pages[i][pn] : pn \in copied} -> ref_count[p] - 1
                       [] OTHER -> ref_count[p]]
  /\ readable' = AfterWrite(AreaPages(i), {tls_pages[i][pn] : pn \in copied},
                            Range(WriteRow(i, copied, copy)) \ {NoPage})

\* Which bytes it changes: source is the page whose bytes a page starts with.
WriteData(i, moved, copied, copy, v) ==
  LET source(p) == IF p \in Range(copy)
                   THEN tls_pages[i][CHOOSE pn \in copied : copy[pn] = p]
                   ELSE p
      written(p, k) == \E idx \in moved : /\ WriteRow(i, copied, copy)[idx \div PageSize] = p
                                          /\ idx % PageSize = k
  IN  data' = [p \in Pages |-> [k \in 0 .. PageSize - 1 |->
                 IF written(p, k) THEN v ELSE data[source(p)][k]]]

LEMMA CopiedFacts ==
  ASSUME IInv, NEW i \in Slots, NEW off \in Offsets, NEW len \in Lengths,
         Sum(off, len) <= tls_size[i], NEW pn \in Copied(i, Touched(off, len))
  PROVE  /\ pn \in PageIdx /\ pn \in Touched(off, len)
         /\ tls_pages[i][pn] \in AreaPages(i)
         /\ ref_count[tls_pages[i][pn]] > 1
  <1>1. pn \in Touched(off, len) /\ ref_count[tls_pages[i][pn]] > 1
    BY DEF Copied
  <1> QED BY <1>1, TouchedInArea, SumNat

LEMMA WriteFacts ==
  ASSUME IInv, NEW t \in Threads, NEW off \in Offsets, NEW len \in Lengths, NEW v,
         Write(t, off, len, v)
  PROVE  /\ \E i \in Slots :
              /\ FirstSlot(pair_tid, t, i) /\ Sum(off, len) <= tls_size[i]
              /\ \E copy \in NewPages(Copied(i, Touched(off, len))) :
                   /\ WriteEffect(i, Copied(i, Touched(off, len)), copy)
                   /\ WriteData(i, Indices(off, len), Copied(i, Touched(off, len)), copy, v)
         /\ UNCHANGED <<initialize, pair_tid, tls_size, alive>>
  BY Zenon DEF Write, Touched, WriteRow, WriteEffect, WriteData

LEMMA WriteIInv ==
  ASSUME IInv, NEW t \in Threads, NEW off \in Offsets, NEW len \in Lengths, NEW v \in Bytes,
         Write(t, off, len, v)
  PROVE  IInv'
  <1>1. PICK i \in Slots :
          /\ FirstSlot(pair_tid, t, i) /\ Sum(off, len) <= tls_size[i]
          /\ \E copy \in NewPages(Copied(i, Touched(off, len))) :
               /\ WriteEffect(i, Copied(i, Touched(off, len)), copy)
               /\ WriteData(i, Indices(off, len), Copied(i, Touched(off, len)), copy, v)
    BY WriteFacts
  <1>2. PICK copied : copied = Copied(i, Touched(off, len))
    OBVIOUS
  <1>3. PICK copy \in NewPages(copied) : /\ WriteEffect(i, copied, copy)
                                         /\ WriteData(i, Indices(off, len), copied, copy, v)
    BY <1>1, <1>2
  <1>4. UNCHANGED <<initialize, pair_tid, tls_size, alive>>
    BY WriteFacts
  <1>5. TypeOK /\ AreasInv /\ TidsInv /\ HeldInv /\ AreaInv(i)
    BY DEF IInv, AreasInv
  <1>6. \A pn \in copied : /\ pn \in PageIdx /\ tls_pages[i][pn] \in AreaPages(i)
                           /\ ref_count[tls_pages[i][pn]] > 1
    BY <1>1, <1>2, CopiedFacts
  <1>7. /\ \A j \in copied : copy[j] \in Pages \ mapped
        /\ \A j, k \in copied : copy[j] = copy[k] => j = k
        /\ \A p : p \in Range(copy) <=> \E j \in copied : copy[j] = p
    BY NewPagesFacts
  <1>8. PICK row : row = WriteRow(i, copied, copy)
    OBVIOUS
  <1>9. /\ row \in [PageIdx -> Pages \cup {NoPage}]
        /\ \A j \in PageIdx : row[j] = IF j \in copied THEN copy[j] ELSE tls_pages[i][j]
    BY <1>5, <1>7, <1>8 DEF WriteRow, TypeOK
  <1>10. tls_pages' = [tls_pages EXCEPT ![i] = row] /\ tls_pages'[i] = row /\ OtherRowsSame(i)
    BY <1>3, <1>5, <1>8 DEF WriteEffect, TypeOK, OtherRowsSame
  <1>11. NoPage \notin Pages
    BY DEF NoPage, Pages
  <1>12. PICK replaced : /\ replaced = {tls_pages[i][pn] : pn \in copied}
                         /\ \A p : p \in replaced <=> \E pn \in copied : tls_pages[i][pn] = p
    <2>1. PICK replaced : replaced = {tls_pages[i][pn] : pn \in copied}
      OBVIOUS
    <2>2. \A p : p \in replaced <=> \E pn \in copied : tls_pages[i][pn] = p
      BY <2>1
    <2> QED BY <2>1, <2>2
  <1>13. \A p \in replaced : p \in AreaPages(i) /\ p \in mapped /\ p \in Pages /\ ref_count[p] > 1
    BY <1>5, <1>6, <1>12, AreaIsHeld
  <1>14. Range(copy) \subseteq Pages \ mapped
    BY <1>7
  <1>15. ref_count' = [p \in Pages |-> IF p \in Range(copy) THEN 1
                         ELSE IF p \in replaced THEN ref_count[p] - 1 ELSE ref_count[p]]
    <2>1. ref_count' = [p \in Pages |->
                          CASE p \in Range(copy) -> 1
                            [] p \in replaced -> ref_count[p] - 1
                            [] OTHER -> ref_count[p]]
      BY <1>3, <1>12 DEF WriteEffect
    <2>2. \A p : p \in Range(copy) => p \notin replaced
      BY <1>13, <1>14
    <2> QED BY <2>1, <2>2
  <1>16. mapped' = mapped \cup Range(copy)
    BY <1>3 DEF WriteEffect
  <1>17. readable' = {}
    <2>1. readable' = (readable \cup AreaPages(i) \cup (Range(row) \ {NoPage}))
                        \ (replaced \cup (Range(row) \ {NoPage}))
      BY <1>3, <1>8, <1>12 DEF WriteEffect, AfterWrite
    <2>2. ASSUME NEW p \in AreaPages(i) PROVE p \in replaced \/ p \in Range(row) \ {NoPage}
      <3>1. PICK j \in PageIdx : tls_pages[i][j] = p /\ p # NoPage
        BY <1>5 DEF AreaPages, Range, TypeOK
      <3>2. CASE j \in copied
        BY <1>12, <3>1, <3>2
      <3>3. CASE j \notin copied
        BY <1>9, <3>1, <3>3 DEF Range
      <3> QED BY <3>2, <3>3
    <2> QED BY <2>1, <2>2 DEF IInv
  <1>18. data' \in [Pages -> [0 .. PageSize - 1 -> Bytes \cup {0}]]
    <2> DEFINE source(p) == IF p \in Range(copy)
                            THEN tls_pages[i][CHOOSE pn \in copied : copy[pn] = p]
                            ELSE p
               written(p, k) == \E idx \in Indices(off, len) :
                                  /\ WriteRow(i, copied, copy)[idx \div PageSize] = p
                                  /\ idx % PageSize = k
    <2>1. data' = [p \in Pages |-> [k \in 0 .. PageSize - 1 |->
                    IF written(p, k) THEN v ELSE data[source(p)][k]]]
      BY <1>3, Zenon DEF WriteData
    <2>2. ASSUME NEW p \in Pages PROVE source(p) \in Pages
      <3>1. CASE p \in Range(copy)
        <4>1. \E pn \in copied : copy[pn] = p
          BY <1>7, <3>1
        <4>2. PICK m : m = CHOOSE pn \in copied : copy[pn] = p
          OBVIOUS
        <4>3. m \in copied
          BY <4>1, <4>2
        <4> QED BY <1>5, <1>6, <3>1, <4>2, <4>3, AreaIsHeld
      <3> QED BY <3>1
    <2> HIDE DEF source, written
    <2>3. \A p \in Pages, k \in 0 .. PageSize - 1 : data[source(p)][k] \in Bytes \cup {0}
      BY <1>5, <2>2 DEF TypeOK
    <2> QED BY <2>1, <2>3
  <1>19. TypeOK'
    <2>1. tls_pages' \in [Slots -> [PageIdx -> Pages \cup {NoPage}]]
      BY <1>5, <1>9, <1>10 DEF TypeOK
    <2>2. mapped' \in SUBSET Pages
      BY <1>5, <1>14, <1>16 DEF TypeOK
    <2>3. ref_count' \in [Pages -> Nat]
      BY <1>5, <1>13, <1>15 DEF TypeOK
    <2> QED BY <1>4, <1>5, <1>18, <2>1, <2>2, <2>3 DEF TypeOK
  <1>20. AreasInv'
    <2> SUFFICES ASSUME NEW k \in Slots PROVE AreaInv(k)'
      BY DEF AreasInv
    <2>1. CASE k = i
      <3>1. \A j \in PageIdx : row[j] # NoPage <=> tls_pages[i][j] # NoPage
        <4>1. \A j \in copied : copy[j] # NoPage /\ tls_pages[i][j] # NoPage
          BY <1>6, <1>7, <1>11 DEF AreaPages
        <4> QED BY <1>9, <4>1
      <3>2. \A j, l \in PageIdx : row[j] = row[l] /\ row[j] # NoPage => j = l
        <4>1. \A j \in PageIdx : tls_pages[i][j] # NoPage => tls_pages[i][j] \in mapped
          <5>1. \A j \in PageIdx : tls_pages[i][j] # NoPage => tls_pages[i][j] \in AreaPages(i)
            BY <1>5 DEF AreaPages, Range, TypeOK
          <5> QED BY <1>5, <5>1, AreaIsHeld
        <4> QED BY <1>5, <1>7, <1>9, <4>1 DEF AreaInv
      <3> QED BY <1>4, <1>5, <1>10, <2>1, <3>1, <3>2 DEF AreaInv
    <2>2. CASE k # i
      <3>1. AreaInv(k) /\ tls_pages'[k] = tls_pages[k]
        BY <1>5, <1>10, <2>2 DEF AreasInv, OtherRowsSame
      <3> QED BY <1>4, <3>1 DEF AreaInv
    <2> QED BY <2>1, <2>2
  <1>21. TidsInv'
    <2>1. initialize
      BY <1>1, <1>5, ConstantsOK DEF TidsInv, FirstSlot
    <2> QED BY <1>4, <1>5, <2>1 DEF TidsInv
  <1>22. ASSUME NEW p \in Pages, p \in Range(copy)
         PROVE  References(p)' # {} /\ ref_count'[p] = 1 /\ Cardinality(References(p)') = 1
    <2>1. PICK k \in copied : copy[k] = p
      BY <1>7, <1>22
    <2>2. References(p) = {} /\ Cardinality(References(p)) = 0
      BY <1>5, <1>14, <1>22, UnmappedIsFree
    <2>3. \A j \in PageIdx : tls_pages[i][j] # p
      <3>1. \A j \in PageIdx : tls_pages[i][j] = p => <<i, j>> \in References(p)
        BY DEF References
      <3> QED BY <2>2, <3>1
    <2>4. k \in PageIdx /\ \A j \in PageIdx : row[j] = p <=> j = k
      BY <1>6, <1>7, <1>9, <2>1, <2>3
    <2>5. /\ References(p)' = References(p) \cup {<<i, k>>}
          /\ Cardinality(References(p)') = Cardinality(References(p)) + 1
      BY <1>10, <2>3, <2>4, RefsAdd
    <2> QED BY <1>15, <1>22, <2>2, <2>5
  <1>23. ASSUME NEW p \in replaced
         PROVE  /\ Cardinality(References(p)') = Cardinality(References(p)) - 1
                /\ Cardinality(References(p)) \in Nat \ {0}
                /\ ref_count'[p] = ref_count[p] - 1
                /\ References(p)' = {} => Cardinality(References(p)) = 1
    <2>1. PICK k \in copied : tls_pages[i][k] = p
      BY <1>12
    <2>2. p \in Pages /\ p \in mapped /\ p \in AreaPages(i) /\ k \in PageIdx /\ p # NoPage
      BY <1>6, <1>11, <1>13, <2>1
    <2>3. \A j \in PageIdx : tls_pages[i][j] = p <=> j = k
      BY <1>5, <2>1, <2>2 DEF AreaInv
    <2>4. \A j \in PageIdx : row[j] # p
      BY <1>7, <1>9, <2>1, <2>2, <2>3
    <2>5. /\ References(p)' = References(p) \ {<<i, k>>}
          /\ Cardinality(References(p)) > 0
          /\ Cardinality(References(p)') = Cardinality(References(p)) - 1
      BY <1>10, <2>2, <2>3, <2>4, RefsRemove
    <2>6. Cardinality(References(p)) \in Nat
      BY ReferencesFinite
    <2>7. References(p)' = {} => Cardinality(References(p)') = 0
      BY FS_EmptySet
    <2>8. ref_count'[p] = ref_count[p] - 1
      BY <1>14, <1>15, <2>2
    <2> QED BY <2>5, <2>6, <2>7, <2>8
  <1>24. ASSUME NEW p \in Pages, p \notin Range(copy), p \notin replaced
         PROVE  References(p)' = References(p) /\ ref_count'[p] = ref_count[p]
    <2>1. \A j \in PageIdx : row[j] = p <=> tls_pages[i][j] = p
      BY <1>7, <1>9, <1>12, <1>24
    <2>2. References(p)' = References(p)
      BY <1>10, <2>1, RefsSame
    <2> QED BY <1>15, <1>24, <2>2
  <1>25. HeldInv'
    <2> SUFFICES ASSUME NEW p \in Pages
                 PROVE  /\ References(p)' # {} => p \in mapped'
                        /\ ref_count'[p] >= Cardinality(References(p)')
      BY DEF HeldInv
    <2>1. /\ References(p) # {} => p \in mapped
          /\ ref_count[p] >= Cardinality(References(p)) /\ ref_count[p] \in Nat
      BY <1>5 DEF HeldInv, TypeOK
    <2>2. CASE p \in Range(copy)
      BY <1>16, <1>22, <2>2
    <2>3. CASE p \in replaced
      BY <1>13, <1>16, <1>23, <2>1, <2>3
    <2>4. CASE p \notin Range(copy) /\ p \notin replaced
      BY <1>16, <1>24, <2>1, <2>4
    <2> QED BY <2>2, <2>3, <2>4
  <1>26. ~Exhaust => ExactInv'
    <2> SUFFICES ASSUME ~Exhaust, NEW p \in mapped'
                 PROVE  References(p)' # {} /\ ref_count'[p] = Cardinality(References(p)')
      BY DEF ExactInv
    <2>1. CASE p \in Range(copy)
      BY <1>14, <1>22, <2>1
    <2>2. CASE p \notin Range(copy)
      <3>1. p \in Pages /\ p \in mapped
        BY <1>5, <1>16, <2>2 DEF TypeOK
      <3>2. References(p) # {} /\ ref_count[p] = Cardinality(References(p))
        BY <3>1 DEF IInv, ExactInv
      <3>3. CASE p \in replaced
        BY <1>13, <1>23, <3>2, <3>3
      <3>4. CASE p \notin replaced
        BY <1>24, <2>2, <3>1, <3>2, <3>4
      <3> QED BY <3>3, <3>4
    <2> QED BY <2>1, <2>2
  <1> QED BY <1>17, <1>19, <1>20, <1>21, <1>25, <1>26 DEF IInv

-----------------------------------------------------------------------------
(* The invariant, and what follows from it                                 *)

LEMMA InitIInv == Init => IInv
  <1> SUFFICES ASSUME Init PROVE IInv
    OBVIOUS
  <1> USE DEF Init
  <1>1. TypeOK
    <2>1. NoPages \in [PageIdx -> Pages \cup {NoPage}]
      BY DEF NoPages
    <2>2. ZeroPage \in [0 .. PageSize - 1 -> Bytes \cup {0}]
      BY DEF ZeroPage
    <2> QED BY <2>1, <2>2 DEF TypeOK
  <1>2. AreasInv
    BY ConstantsOK DEF AreasInv, AreaInv, NoPages
  <1>3. TidsInv
    BY ConstantsOK DEF TidsInv
  <1>4. \A p \in Pages : References(p) = {}
    BY DEF References, NoPages, NoPage, Pages
  <1>5. HeldInv /\ ExactInv
    BY <1>4, FS_EmptySet DEF HeldInv, ExactInv
  <1> QED BY <1>1, <1>2, <1>3, <1>5 DEF IInv

\* The steps that touch neither the table nor a page.
Unrelated ==
  UNCHANGED <<initialize, pair_tid, tls_size, tls_pages, mapped, ref_count, data, readable>>

LEMMA UnrelatedSteps ==
  ASSUME NEW t \in Threads
  PROVE  /\ \A n : CreateNoSlot(t, n) => Unrelated /\ UNCHANGED alive
         /\ \A op : NoArea(t, op) => Unrelated /\ UNCHANGED alive
         /\ \A op, off, len : TooLong(t, op, off, len) => Unrelated /\ UNCHANGED alive
         /\ \A u : CloneRefused(t, u) => Unrelated /\ UNCHANGED alive
         /\ \A p : PageFault(t, p) => Unrelated /\ alive' \subseteq alive /\ UNCHANGED last
  BY DEF CreateNoSlot, NoArea, TooLong, CloneRefused, PageFault, Unrelated, tableVars, pageVars

LEMMA IInvNext == IInv /\ [Next]_vars => IInv'
  <1> SUFFICES ASSUME IInv, [Next]_vars PROVE IInv'
    OBVIOUS
  <1>1. CASE Unrelated /\ alive' \subseteq alive
    <2>1. alive' \in SUBSET Threads
      BY <1>1 DEF IInv, TypeOK
    <2> QED BY <1>1, <2>1, FrameIInv DEF Unrelated
  <1>2. CASE Ended \/ UNCHANGED vars
    BY <1>1, <1>2 DEF Ended, vars, tableVars, pageVars, Unrelated
  <1>3. ASSUME NEW t \in Threads, NEW n \in Sizes,
               CreateRefused(t, n) \/ Create(t, n) \/ CreateNoSlot(t, n)
        PROVE  IInv'
    BY <1>1, <1>3, CreateRefusedIInv, CreateIInv, UnrelatedSteps
  <1>4. ASSUME NEW t \in Threads, NEW u \in Threads,
               CloneRefused(t, u) \/ Clone(t, u) \/ CloneNoSlot(t, u)
        PROVE  IInv'
    BY <1>1, <1>4, CloneIInv, CloneNoSlotIInv, UnrelatedSteps
  <1>5. ASSUME NEW t \in Threads, NEW off \in Offsets, NEW len \in Lengths,
               Read(t, off, len) \/ \E v \in Bytes : Write(t, off, len, v)
        PROVE  IInv'
    BY <1>5, ReadIInv, WriteIInv
  <1>6. ASSUME NEW t \in Threads,
               \/ \E op \in {"destroy", "read", "write"} : NoArea(t, op)
               \/ \E op \in {"read", "write"}, off \in Offsets, len \in Lengths : TooLong(t, op, off, len)
               \/ \E p \in Pages : PageFault(t, p)
        PROVE  IInv'
    BY <1>1, <1>6, UnrelatedSteps
  <1> QED BY <1>2, <1>3, <1>4, <1>5, <1>6, DestroyIInv DEF Next

LEMMA IInvHolds == Spec => []IInv
  BY InitIInv, IInvNext, PTL DEF Spec

\* After any sequence of tls_create, tls_clone, tls_write and tls_destroy, lost clones
\* included, no area points to a page that was unmapped and freed, and no page's ref_count
\* has fallen below the number of areas that hold it.
THEOREM PagesOutliveReferences == Spec => []NoDanglingPage
  <1>1. IInv => NoDanglingPage
    BY DEF IInv, HeldInv, NoDanglingPage
  <1> QED BY <1>1, IInvHolds, PTL

\* Every call leaves all pages PROT_NONE, the page that a copy on write replaced included.
THEOREM EverythingProtected == Spec => []AllProtected
  <1>1. IInv => AllProtected
    BY DEF IInv, AllProtected
  <1> QED BY <1>1, IInvHolds, PTL

\* As long as callers do not go on when every slot has been used, ref_count is exact, and a
\* page is unmapped with its last reference: nothing leaks.
THEOREM CountsAreExact ==
  ASSUME ~Exhaust
  PROVE  Spec => []RefCountExact
  <1>1. IInv => RefCountExact
    BY DEF IInv, HeldInv, ExactInv, RefCountExact
  <1> QED BY <1>1, IInvHolds, PTL

\* Then, and while no area was destroyed, the fault handler finds the area of every page
\* without meeting a NULL: slots are taken in order.
THEOREM HandlerFindsArea ==
  ASSUME ~Exhaust
  PROVE  Spec => []FaultFindsArea
  <1>1. IInv => FaultFindsArea
    <2> SUFFICES ASSUME IInv, \A i \in Slots : initialize => pair_tid[i] # Zero, NEW p \in mapped
                 PROVE  HandlerFinds(p)
      BY DEF FaultFindsArea
    <2>1. p \in Pages /\ References(p) # {}
      BY DEF IInv, TypeOK, ExactInv
    <2>2. PICK i \in Slots, j \in PageIdx : tls_pages[i][j] = p
      BY <2>1 DEF References
    <2>3. p # NoPage
      BY <2>1 DEF Pages, NoPage
    <2>4. p \in AreaPages(i)
      BY <2>2, <2>3 DEF AreaPages, Range, IInv, TypeOK
    <2>5. initialize /\ pair_tid[i] \in Threads
      BY <2>2, <2>3 DEF IInv, TidsInv, AreasInv, AreaInv
    <2>6. ASSUME NEW k \in 0 .. i - 1 PROVE tls_size[k] > 0
      <3>1. k \in Slots /\ k < i
        BY ConstantsOK DEF Slots
      <3>2. pair_tid[k] # Minus1 /\ pair_tid[k] # Zero
        BY <2>5, <3>1, ConstantsOK DEF IInv, TidsInv
      <3>3. pair_tid[k] \in Threads
        BY <3>1, <3>2 DEF IInv, TypeOK
      <3> QED BY <3>1, <3>3 DEF IInv, AreasInv, AreaInv
    <2> QED BY <2>4, <2>6 DEF HandlerFinds
  <1> QED BY <1>1, IInvHolds, PTL

-----------------------------------------------------------------------------
(* Areas as their owners see them                                          *)

\* Byte idx of an area is a byte of one of its pages.
LEMMA ByteInArea ==
  ASSUME IInv, NEW s \in Slots, NEW idx \in 0 .. tls_size[s] - 1
  PROVE  /\ idx \in Nat /\ idx \div PageSize \in PageIdx
         /\ idx \div PageSize < PageNum(tls_size[s])
         /\ idx % PageSize \in 0 .. PageSize - 1
         /\ tls_pages[s][idx \div PageSize] \in Pages
         /\ tls_pages[s][idx \div PageSize] # NoPage
         /\ tls_pages[s][idx \div PageSize] \in mapped
  <1>1. tls_size[s] \in Nat /\ PageSize \in Nat \ {0}
    BY ConstantsOK DEF IInv, TypeOK
  <1>2. idx \in Nat /\ tls_size[s] > 0 /\ tls_size[s] - 1 \in Nat /\ idx <= tls_size[s] - 1
    BY <1>1
  <1>3. tls_size[s] \in Sizes /\ AreaInv(s)
    BY <1>2 DEF IInv, AreasInv, AreaInv
  <1>4. /\ idx \div PageSize \in Nat /\ (tls_size[s] - 1) \div PageSize \in Nat
        /\ idx \div PageSize <= (tls_size[s] - 1) \div PageSize
    BY <1>1, <1>2, DivNat, DivMonotone
  <1>5. idx \div PageSize < PageNum(tls_size[s]) /\ idx \div PageSize \in 0 .. PageNum(tls_size[s]) - 1
    BY <1>4 DEF PageNum
  <1>6. idx \div PageSize \in PageIdx
    BY <1>2, <1>3, <1>5, PageNumNat
  <1>7. tls_pages[s][idx \div PageSize] # NoPage
    BY <1>2, <1>3, <1>5, <1>6 DEF AreaInv
  <1>8. tls_pages[s][idx \div PageSize] \in AreaPages(s)
    BY <1>6, <1>7 DEF AreaPages, Range, IInv, TypeOK
  <1>9. tls_pages[s][idx \div PageSize] \in Pages /\ tls_pages[s][idx \div PageSize] \in mapped
    BY <1>8, AreaIsHeld DEF IInv
  <1>10. idx % PageSize \in 0 .. PageSize - 1
    BY <1>1, <1>2
  <1> QED BY <1>2, <1>5, <1>6, <1>7, <1>9, <1>10

\* The slot that AreaOf chooses is the only one the thread has.
AreaOfSlot ==
  \A t \in Threads, s \in Slots :
    pair_tid[s] = t => /\ AreaOf(t) = [idx \in 0 .. tls_size[s] - 1 |-> ByteAt(s, idx)]
                       /\ tls_size[s] \in Nat \ {0}

LEMMA AreaOfSlotHolds == IInv => AreaOfSlot
  <1> SUFFICES ASSUME IInv, NEW t \in Threads, NEW s \in Slots, pair_tid[s] = t
               PROVE  /\ AreaOf(t) = [idx \in 0 .. tls_size[s] - 1 |-> ByteAt(s, idx)]
                      /\ tls_size[s] \in Nat \ {0}
    BY DEF AreaOfSlot
  <1>1. Registered(t)
    BY DEF Registered
  <1>2. \A k \in Slots : pair_tid[k] = t => k = s
    BY DEF IInv, TidsInv
  <1>3. PICK i : i = CHOOSE k \in Slots : pair_tid[k] = t
    OBVIOUS
  <1>4. i = s
    BY <1>2, <1>3
  <1>5. AreaOf(t) = [idx \in 0 .. tls_size[i] - 1 |-> ByteAt(i, idx)]
    BY <1>1, <1>3, Zenon DEF AreaOf
  <1>6. tls_size[s] \in Nat \ {0}
    BY DEF IInv, TypeOK, AreasInv, AreaInv
  <1> QED BY <1>4, <1>5, <1>6

LEMMA AreaOfSlotNext == IInv' => AreaOfSlot'
  BY AreaOfSlotHolds, PTL

\* A step that leaves t's slot, its row of pages and their bytes alone.
Kept(t) ==
  \A s \in Slots :
    /\ pair_tid'[s] = t <=> pair_tid[s] = t
    /\ pair_tid[s] = t =>
         /\ tls_size'[s] = tls_size[s] /\ tls_pages'[s] = tls_pages[s]
         /\ \A j \in PageIdx : tls_pages[s][j] # NoPage =>
              data'[tls_pages[s][j]] = data[tls_pages[s][j]]

LEMMA KeptArea ==
  ASSUME IInv, IInv', NEW t \in Threads, Kept(t)
  PROVE  AreaOf(t)' = AreaOf(t)
  <1>1. CASE ~Registered(t)
    <2>1. ~Registered(t)'
      BY <1>1 DEF Registered, Kept
    <2> QED BY <1>1, <2>1 DEF AreaOf
  <1>2. CASE Registered(t)
    <2>1. PICK s \in Slots : pair_tid[s] = t
      BY <1>2 DEF Registered
    <2>2. /\ pair_tid'[s] = t /\ tls_size'[s] = tls_size[s] /\ tls_pages'[s] = tls_pages[s]
          /\ \A j \in PageIdx : tls_pages[s][j] # NoPage =>
               data'[tls_pages[s][j]] = data[tls_pages[s][j]]
      BY <2>1 DEF Kept
    <2>3. AreaOf(t) = [idx \in 0 .. tls_size[s] - 1 |-> ByteAt(s, idx)]
      BY <2>1, AreaOfSlotHolds DEF AreaOfSlot
    <2>4. AreaOf(t)' = [idx \in 0 .. tls_size'[s] - 1 |-> ByteAt(s, idx)']
      BY <2>2, AreaOfSlotNext DEF AreaOfSlot
    <2>5. ASSUME NEW idx \in 0 .. tls_size[s] - 1 PROVE ByteAt(s, idx)' = ByteAt(s, idx)
      <3>1. idx \div PageSize \in PageIdx /\ tls_pages[s][idx \div PageSize] # NoPage
        BY ByteInArea
      <3> QED BY <2>2, <3>1 DEF ByteAt
    <2> QED BY <2>2, <2>3, <2>4, <2>5
  <1> QED BY <1>1, <1>2

\* A page that is in two slots has a count of at least 2.
LEMMA SharedIsCounted ==
  ASSUME IInv, NEW i \in Slots, NEW s \in Slots, i # s, NEW j \in PageIdx, NEW k \in PageIdx,
         NEW p \in Pages, tls_pages[i][j] = p, tls_pages[s][k] = p
  PROVE  ref_count[p] > 1
  <1>1. <<i, j>> \in References(p) /\ <<s, k>> \in References(p) /\ <<i, j>> # <<s, k>>
    BY DEF References
  <1>2. IsFiniteSet(References(p)) /\ Cardinality(References(p)) \in Nat
    BY ReferencesFinite
  <1>3. Cardinality(References(p)) # 0 /\ Cardinality(References(p)) # 1
    <2>1. Cardinality(References(p)) # 0
      BY <1>1, <1>2, FS_EmptySet
    <2>2. ASSUME Cardinality(References(p)) = 1 PROVE FALSE
      <3>1. PICK x : References(p) = {x}
        BY <1>2, <2>2, FS_Singleton
      <3> QED BY <1>1, <3>1
    <2> QED BY <2>1, <2>2
  <1>4. ref_count[p] >= Cardinality(References(p)) /\ ref_count[p] \in Nat
    BY DEF IInv, HeldInv, TypeOK
  <1> QED BY <1>2, <1>3, <1>4

\* The pages a write changes: none that is mapped and in another slot.
LEMMA WriteKeepsOthers ==
  ASSUME IInv, NEW i \in Slots, NEW off \in Offsets, NEW len \in Lengths, NEW v,
         Sum(off, len) <= tls_size[i], NEW copied, copied = Copied(i, Touched(off, len)),
         NEW copy \in NewPages(copied), WriteData(i, Indices(off, len), copied, copy, v),
         NEW s \in Slots, s # i, NEW j \in PageIdx, tls_pages[s][j] # NoPage
  PROVE  data'[tls_pages[s][j]] = data[tls_pages[s][j]]
  <1>1. PICK p : p = tls_pages[s][j]
    OBVIOUS
  <1>2. p \in AreaPages(s)
    BY <1>1 DEF AreaPages, Range, IInv, TypeOK
  <1>3. p \in Pages /\ p \in mapped
    BY <1>2, AreaIsHeld DEF IInv
  <1>4. /\ \A l \in copied : copy[l] \in Pages \ mapped
        /\ \A q : q \in Range(copy) <=> \E l \in copied : copy[l] = q
    BY NewPagesFacts
  <1>5. p \notin Range(copy)
    BY <1>3, <1>4
  <1>6. ASSUME NEW idx \in Indices(off, len), WriteRow(i, copied, copy)[idx \div PageSize] = p
        PROVE  FALSE
    <2>1. idx \div PageSize \in Touched(off, len)
      BY DEF Touched
    <2>2. PICK pn : pn = idx \div PageSize
      OBVIOUS
    <2>3. pn \in PageIdx /\ pn \in Touched(off, len)
      BY <2>1, <2>2, TouchedInArea, SumNat
    <2>4. pn \notin copied /\ tls_pages[i][pn] = p
      BY <1>3, <1>4, <1>6, <2>2, <2>3 DEF WriteRow
    <2>5. ref_count[p] > 1
      BY <1>1, <1>3, <2>3, <2>4, SharedIsCounted
    <2> QED BY <2>3, <2>4, <2>5 DEF Copied
  <1>7. data'[p] = [k \in 0 .. PageSize - 1 |-> data[p][k]]
    <2> DEFINE source(q) == IF q \in Range(copy)
                            THEN tls_pages[i][CHOOSE pn \in copied : copy[pn] = q]
                            ELSE q
               written(q, k) == \E idx \in Indices(off, len) :
                                  /\ WriteRow(i, copied, copy)[idx \div PageSize] = q
                                  /\ idx % PageSize = k
    <2>1. data' = [q \in Pages |-> [k \in 0 .. PageSize - 1 |->
                    IF written(q, k) THEN v ELSE data[source(q)][k]]]
      BY Zenon DEF WriteData
    <2>2. source(p) = p
      BY <1>5
    <2>3. \A k : ~written(p, k)
      BY <1>6
    <2> HIDE DEF source, written
    <2> QED BY <1>3, <2>1, <2>2, <2>3
  <1>8. data[p] \in [0 .. PageSize - 1 -> Bytes \cup {0}]
    BY <1>3 DEF IInv, TypeOK
  <1> QED BY <1>1, <1>7, <1>8

LEMMA WriteOthers ==
  ASSUME IInv, NEW t \in Threads, NEW off \in Offsets, NEW len \in Lengths, NEW v,
         Write(t, off, len, v), NEW u \in Threads, u # t
  PROVE  Kept(u)
  <1>1. PICK i \in Slots :
          /\ FirstSlot(pair_tid, t, i) /\ Sum(off, len) <= tls_size[i]
          /\ \E copy \in NewPages(Copied(i, Touched(off, len))) :
               /\ WriteEffect(i, Copied(i, Touched(off, len)), copy)
               /\ WriteData(i, Indices(off, len), Copied(i, Touched(off, len)), copy, v)
    BY WriteFacts
  <1>2. PICK copied : copied = Copied(i, Touched(off, len))
    OBVIOUS
  <1>3. PICK copy \in NewPages(copied) : /\ WriteEffect(i, copied, copy)
                                         /\ WriteData(i, Indices(off, len), copied, copy, v)
    BY <1>1, <1>2
  <1>4. UNCHANGED <<pair_tid, tls_size>>
    BY WriteFacts
  <1> SUFFICES ASSUME NEW s \in Slots, pair_tid[s] = u
               PROVE  /\ tls_pages'[s] = tls_pages[s]
                      /\ \A j \in PageIdx : tls_pages[s][j] # NoPage =>
                           data'[tls_pages[s][j]] = data[tls_pages[s][j]]
    BY <1>4 DEF Kept
  <1>5. s # i
    BY <1>1 DEF FirstSlot
  <1>6. tls_pages'[s] = tls_pages[s]
    BY <1>3, <1>5 DEF WriteEffect, IInv, TypeOK
  <1>7. \A j \in PageIdx : tls_pages[s][j] # NoPage => data'[tls_pages[s][j]] = data[tls_pages[s][j]]
    BY <1>1, <1>2, <1>3, <1>5, WriteKeepsOthers
  <1> QED BY <1>6, <1>7

LEMMA CreateOthers ==
  ASSUME IInv, NEW t \in Threads, NEW n \in Sizes, Create(t, n), NEW u \in Threads, u # t
  PROVE  Kept(u)
  <1>1. PICK i \in Slots, new \in NewPages(0 .. PageNum(n) - 1) :
          /\ FirstSlot(InitTids, Minus1, i)
          /\ pair_tid' = [InitTids EXCEPT ![i] = t]
          /\ tls_size' = [tls_size EXCEPT ![i] = n]
          /\ tls_pages' = [tls_pages EXCEPT ![i] =
                             [j \in PageIdx |-> IF j < PageNum(n) THEN new[j] ELSE NoPage]]
          /\ data' = [p \in Pages |-> IF p \in Range(new) THEN ZeroPage ELSE data[p]]
    BY DEF Create
  <1>2. /\ InitTids \in [Slots -> Threads \cup {Zero, Minus1}]
        /\ \A k \in Slots : InitTids[k] \in Threads <=> pair_tid[k] \in Threads
        /\ \A k \in Slots : InitTids[k] \in Threads => InitTids[k] = pair_tid[k]
    BY InitTidsFacts DEF IInv
  <1>3. \A p \in Range(new) : p \in Pages \ mapped
    <2>1. PICK S : S = 0 .. PageNum(n) - 1
      OBVIOUS
    <2>2. new \in NewPages(S)
      BY <2>1
    <2> QED BY <2>2, NewPagesFacts
  <1>4. InitTids[i] = Minus1
    BY <1>1 DEF FirstSlot
  <1>5. \A s \in Slots : pair_tid'[s] = u <=> pair_tid[s] = u
    BY <1>1, <1>2, <1>4, ConstantsOK
  <1>6. ASSUME NEW s \in Slots, pair_tid[s] = u
        PROVE  /\ tls_size'[s] = tls_size[s] /\ tls_pages'[s] = tls_pages[s]
               /\ \A j \in PageIdx : tls_pages[s][j] # NoPage =>
                    data'[tls_pages[s][j]] = data[tls_pages[s][j]]
    <2>1. s # i
      BY <1>2, <1>4, <1>6, ConstantsOK
    <2>2. tls_size'[s] = tls_size[s] /\ tls_pages'[s] = tls_pages[s]
      BY <1>1, <2>1 DEF IInv, TypeOK
    <2>3. ASSUME NEW j \in PageIdx, tls_pages[s][j] # NoPage
          PROVE  data'[tls_pages[s][j]] = data[tls_pages[s][j]]
      <3>1. tls_pages[s][j] \in AreaPages(s)
        BY <2>3 DEF AreaPages, Range, IInv, TypeOK
      <3>2. tls_pages[s][j] \in Pages /\ tls_pages[s][j] \in mapped
        BY <3>1, AreaIsHeld DEF IInv
      <3> QED BY <1>1, <1>3, <3>2
    <2> QED BY <2>2, <2>3
  <1> QED BY <1>5, <1>6 DEF Kept

LEMMA DestroyOthers ==
  ASSUME IInv, NEW t \in Threads, Destroy(t), NEW u \in Threads, u # t
  PROVE  Kept(u)
  <1>1. PICK i \in Slots :
          /\ FirstSlot(pair_tid, t, i)
          /\ data' = [p \in Pages |-> IF p \in Unmapped(i) THEN ZeroPage ELSE data[p]]
          /\ pair_tid' = [pair_tid EXCEPT ![i] = Zero]
          /\ tls_size' = [tls_size EXCEPT ![i] = 0]
          /\ tls_pages' = [tls_pages EXCEPT ![i] = NoPages]
    BY DEF Destroy
  <1>2. pair_tid[i] = t /\ \A s \in Slots : pair_tid'[s] = u <=> pair_tid[s] = u
    BY <1>1, ConstantsOK DEF IInv, TypeOK, FirstSlot
  <1>3. ASSUME NEW s \in Slots, pair_tid[s] = u
        PROVE  /\ tls_size'[s] = tls_size[s] /\ tls_pages'[s] = tls_pages[s]
               /\ \A j \in PageIdx : tls_pages[s][j] # NoPage =>
                    data'[tls_pages[s][j]] = data[tls_pages[s][j]]
    <2>1. s # i
      BY <1>2, <1>3
    <2>2. tls_size'[s] = tls_size[s] /\ tls_pages'[s] = tls_pages[s]
      BY <1>1, <2>1 DEF IInv, TypeOK
    <2>3. ASSUME NEW j \in PageIdx, tls_pages[s][j] # NoPage
          PROVE  data'[tls_pages[s][j]] = data[tls_pages[s][j]]
      <3>1. tls_pages[s][j] \in AreaPages(s)
        BY <2>3 DEF AreaPages, Range, IInv, TypeOK
      <3>2. tls_pages[s][j] \in Pages
        BY <3>1, AreaIsHeld DEF IInv
      <3>3. ASSUME tls_pages[s][j] \in Unmapped(i) PROVE FALSE
        <4>1. tls_pages[s][j] \in AreaPages(i) /\ ref_count[tls_pages[s][j]] = 1
          BY <3>3 DEF Unmapped
        <4>2. PICK k \in PageIdx : tls_pages[i][k] = tls_pages[s][j]
          BY <3>2, <4>1, NotInArea DEF IInv
        <4>3. ref_count[tls_pages[s][j]] > 1
          BY <2>1, <3>2, <4>2, SharedIsCounted
        <4> QED BY <4>1, <4>3
      <3> QED BY <1>1, <3>2, <3>3
    <2> QED BY <2>2, <2>3
  <1> QED BY <1>2, <1>3 DEF Kept

LEMMA CloneOthers ==
  ASSUME IInv, NEW t \in Threads, NEW w, Clone(t, w), NEW u \in Threads, u # t
  PROVE  Kept(u)
  <1>1. PICK i \in Slots, j \in Slots :
          /\ FirstSlot(pair_tid, Minus1, i)
          /\ pair_tid' = [pair_tid EXCEPT ![i] = t]
          /\ tls_size' = [tls_size EXCEPT ![i] = tls_size[j]]
          /\ tls_pages' = [tls_pages EXCEPT ![i] = tls_pages[j]]
    BY DEF Clone
  <1>2. UNCHANGED data
    BY DEF Clone
  <1>3. pair_tid[i] = Minus1
    BY <1>1 DEF FirstSlot
  <1> QED BY <1>1, <1>2, <1>3, ConstantsOK DEF Kept, IInv, TypeOK

LEMMA CreateRefusedOthers ==
  ASSUME IInv, NEW t \in Threads, NEW n, CreateRefused(t, n), NEW u \in Threads
  PROVE  Kept(u)
  BY InitTidsFacts DEF CreateRefused, Kept, IInv, pageVars

\* Who made the call that a step finishes, and whose areas it leaves alone.
LEMMA NextKeepsOthers ==
  ASSUME IInv, Next, NEW u \in Threads
  PROVE  Kept(u) \/ last'.by = u
  <1>1. CASE UNCHANGED <<pair_tid, tls_size, tls_pages, data>>
    BY <1>1 DEF Kept
  <1>2. CASE Unrelated
    BY <1>1, <1>2 DEF Unrelated
  <1>3. CASE Ended
    BY <1>2, <1>3 DEF Ended, vars, tableVars, pageVars, Unrelated
  <1>4. ASSUME NEW t \in Threads, NEW n \in Sizes,
               CreateRefused(t, n) \/ Create(t, n) \/ CreateNoSlot(t, n)
        PROVE  Kept(u) \/ last'.by = u
    <2>1. CASE CreateRefused(t, n)
      BY <2>1, CreateRefusedOthers
    <2>2. CASE Create(t, n)
      <3>1. last'.by = t
        BY <2>2 DEF Create, Done, Result
      <3> QED BY <2>2, <3>1, CreateOthers
    <2> QED BY <1>2, <1>4, <2>1, <2>2, UnrelatedSteps
  <1>5. ASSUME NEW t \in Threads, Destroy(t) PROVE Kept(u) \/ last'.by = u
    <2>1. last'.by = t
      BY <1>5 DEF Destroy, Done, Result
    <2> QED BY <1>5, <2>1, DestroyOthers
  <1>6. ASSUME NEW t \in Threads, NEW w \in Threads,
               CloneRefused(t, w) \/ Clone(t, w) \/ CloneNoSlot(t, w)
        PROVE  Kept(u) \/ last'.by = u
    <2>1. CASE Clone(t, w)
      <3>1. last'.by = t
        BY <2>1 DEF Clone, Done, Result
      <3> QED BY <2>1, <3>1, CloneOthers
    <2>2. CASE CloneNoSlot(t, w)
      BY <1>1, <2>2 DEF CloneNoSlot, tableVars
    <2> QED BY <1>2, <1>6, <2>1, <2>2, UnrelatedSteps
  <1>7. ASSUME NEW t \in Threads, NEW off \in Offsets, NEW len \in Lengths, Read(t, off, len)
        PROVE  Kept(u) \/ last'.by = u
    BY <1>1, <1>7 DEF Read, tableVars
  <1>8. ASSUME NEW t \in Threads, NEW off \in Offsets, NEW len \in Lengths, NEW v \in Bytes,
               Write(t, off, len, v)
        PROVE  Kept(u) \/ last'.by = u
    <2>1. last'.by = t
      <3>1. \E m : last' = Result("write", t, "ok", len, m, None)
        BY <1>8 DEF Write
      <3> QED BY <3>1 DEF Result
    <2> QED BY <1>8, <2>1, WriteOthers
  <1>9. ASSUME NEW t \in Threads,
               \/ \E op \in {"destroy", "read", "write"} : NoArea(t, op)
               \/ \E op \in {"read", "write"}, off \in Offsets, len \in Lengths : TooLong(t, op, off, len)
               \/ \E p \in Pages : PageFault(t, p)
        PROVE  Kept(u) \/ last'.by = u
    BY <1>2, <1>9, UnrelatedSteps
  <1> QED BY <1>3, <1>4, <1>5, <1>6, <1>7, <1>8, <1>9 DEF Next

\* Whatever is shared, exhausted or lost, a call changes no area but its caller's: a write
\* copies every page that another area holds before it changes a byte, and destroy zeroes
\* only pages nobody else has.
THEOREM CallsKeepOtherAreas == Spec => OthersUntouched
  <1>1. IInv /\ IInv' /\ [Next]_vars => [\A t \in Threads : AreaOf(t)' # AreaOf(t) => last'.by = t]_vars
    <2> SUFFICES ASSUME IInv, IInv', Next, NEW t \in Threads, AreaOf(t)' # AreaOf(t)
                 PROVE  last'.by = t
      OBVIOUS
    <2> QED BY NextKeepsOthers, KeptArea
  <1> QED BY <1>1, IInvHolds, PTL DEF Spec, OthersUntouched

-----------------------------------------------------------------------------
(* What a call does to its caller's area                                   *)

LEMMA DivModUnique ==
  ASSUME NEW a \in Nat, NEW b \in Nat, NEW n \in Nat \ {0}, a \div n = b \div n, a % n = b % n
  PROVE  a = b
  OBVIOUS

LEMMA CreateOwn ==
  ASSUME IInv, IInv', NEW t \in Threads, NEW n \in Sizes, Create(t, n)
  PROVE  AreaOf(t)' = [idx \in 0 .. n - 1 |-> 0]
  <1>1. PICK i \in Slots, new \in NewPages(0 .. PageNum(n) - 1) :
          /\ pair_tid' = [InitTids EXCEPT ![i] = t]
          /\ tls_size' = [tls_size EXCEPT ![i] = n]
          /\ tls_pages' = [tls_pages EXCEPT ![i] =
                             [j \in PageIdx |-> IF j < PageNum(n) THEN new[j] ELSE NoPage]]
          /\ data' = [p \in Pages |-> IF p \in Range(new) THEN ZeroPage ELSE data[p]]
    BY DEF Create
  <1>2. /\ pair_tid'[i] = t /\ tls_size'[i] = n
        /\ tls_pages'[i] = [j \in PageIdx |-> IF j < PageNum(n) THEN new[j] ELSE NoPage]
    BY <1>1, InitTidsFacts DEF IInv, TypeOK
  <1>3. AreaOf(t)' = [idx \in 0 .. n - 1 |-> ByteAt(i, idx)']
    BY <1>2, AreaOfSlotNext DEF AreaOfSlot
  <1>4. ASSUME NEW idx \in 0 .. n - 1 PROVE ByteAt(i, idx)' = 0
    <2>1. n \in Nat /\ n > 0 /\ n - 1 \in Nat /\ idx \in Nat /\ idx <= n - 1 /\ PageSize \in Nat \ {0}
      BY ConstantsOK, SizesNat
    <2>2. /\ idx \div PageSize \in Nat /\ (n - 1) \div PageSize \in Nat
          /\ idx \div PageSize <= (n - 1) \div PageSize
      BY <2>1, DivNat, DivMonotone
    <2>3. idx \div PageSize < PageNum(n) /\ idx \div PageSize \in 0 .. PageNum(n) - 1
      BY <2>2 DEF PageNum
    <2>4. idx \div PageSize \in PageIdx
      BY <2>1, <2>3, PageNumNat
    <2>5. idx % PageSize \in 0 .. PageSize - 1
      BY <2>1
    <2>6. PICK pn : pn = idx \div PageSize
      OBVIOUS
    <2>7. tls_pages'[i][pn] = new[pn]
      BY <1>2, <2>3, <2>4, <2>6
    <2>8. new[pn] \in Range(new) /\ new[pn] \in Pages
      <3>1. PICK S : S = 0 .. PageNum(n) - 1
        OBVIOUS
      <3>2. new \in NewPages(S) /\ pn \in S
        BY <2>3, <2>6, <3>1
      <3> QED BY <3>2, NewPagesFacts
    <2>9. data'[new[pn]] = ZeroPage
      BY <1>1, <2>8
    <2> QED BY <2>5, <2>6, <2>7, <2>9 DEF ByteAt, ZeroPage
  <1> QED BY <1>3, <1>4

LEMMA DestroyOwn ==
  ASSUME IInv, NEW t \in Threads, Destroy(t)
  PROVE  AreaOf(t)' = None
  <1>1. PICK i \in Slots : FirstSlot(pair_tid, t, i) /\ pair_tid' = [pair_tid EXCEPT ![i] = Zero]
    BY DEF Destroy
  <1>2. \A s \in Slots : pair_tid'[s] # t
    BY <1>1, ConstantsOK DEF IInv, TypeOK, TidsInv, FirstSlot
  <1> QED BY <1>2 DEF AreaOf, Registered

LEMMA CloneOwn ==
  ASSUME IInv, IInv', NEW t \in Threads, NEW u \in Threads, Clone(t, u)
  PROVE  AreaOf(t)' = AreaOf(u)
  <1>1. PICK i \in Slots, j \in Slots :
          /\ FirstSlot(pair_tid, u, j) /\ FirstSlot(pair_tid, Minus1, i)
          /\ pair_tid' = [pair_tid EXCEPT ![i] = t]
          /\ tls_size' = [tls_size EXCEPT ![i] = tls_size[j]]
          /\ tls_pages' = [tls_pages EXCEPT ![i] = tls_pages[j]]
    BY DEF Clone
  <1>2. UNCHANGED data
    BY DEF Clone
  <1>3. /\ pair_tid'[i] = t /\ tls_size'[i] = tls_size[j] /\ tls_pages'[i] = tls_pages[j]
        /\ pair_tid[j] = u
    BY <1>1 DEF IInv, TypeOK, FirstSlot
  <1>4. AreaOf(u) = [idx \in 0 .. tls_size[j] - 1 |-> ByteAt(j, idx)]
    BY <1>3, AreaOfSlotHolds DEF AreaOfSlot
  <1>5. AreaOf(t)' = [idx \in 0 .. tls_size'[i] - 1 |-> ByteAt(i, idx)']
    BY <1>3, AreaOfSlotNext DEF AreaOfSlot
  <1>6. \A idx : ByteAt(i, idx)' = ByteAt(j, idx)
    BY <1>2, <1>3 DEF ByteAt
  <1> QED BY <1>3, <1>4, <1>5, <1>6

LEMMA WriteOwn ==
  ASSUME IInv, IInv', NEW t \in Threads, NEW off \in Offsets, NEW len \in Lengths, NEW v,
         Write(t, off, len, v), NEW i \in Slots, pair_tid[i] = t
  PROVE  AreaOf(t)' = [idx \in 0 .. tls_size[i] - 1 |->
                         IF idx \in Indices(off, len) THEN v ELSE AreaOf(t)[idx]]
  <1>1. /\ Sum(off, len) <= tls_size[i]
        /\ \E copy \in NewPages(Copied(i, Touched(off, len))) :
             /\ WriteEffect(i, Copied(i, Touched(off, len)), copy)
             /\ WriteData(i, Indices(off, len), Copied(i, Touched(off, len)), copy, v)
    <2>1. PICK s \in Slots :
            /\ FirstSlot(pair_tid, t, s) /\ Sum(off, len) <= tls_size[s]
            /\ \E copy \in NewPages(Copied(s, Touched(off, len))) :
                 /\ WriteEffect(s, Copied(s, Touched(off, len)), copy)
                 /\ WriteData(s, Indices(off, len), Copied(s, Touched(off, len)), copy, v)
      BY WriteFacts
    <2>2. s = i
      BY <2>1 DEF IInv, TidsInv, FirstSlot
    <2> QED BY <2>1, <2>2
  <1>2. PICK copied : copied = Copied(i, Touched(off, len))
    OBVIOUS
  <1>3. PICK copy \in NewPages(copied) : /\ WriteEffect(i, copied, copy)
                                         /\ WriteData(i, Indices(off, len), copied, copy, v)
    BY <1>1, <1>2
  <1>4. UNCHANGED <<pair_tid, tls_size>>
    BY WriteFacts
  <1>5. /\ \A l \in copied : copy[l] \in Pages \ mapped
        /\ \A l, m \in copied : copy[l] = copy[m] => l = m
        /\ \A q : q \in Range(copy) <=> \E l \in copied : copy[l] = q
    BY NewPagesFacts
  <1>6. PICK row : row = WriteRow(i, copied, copy)
    OBVIOUS
  <1>7. \A j \in PageIdx : row[j] = IF j \in copied THEN copy[j] ELSE tls_pages[i][j]
    BY <1>6 DEF WriteRow
  <1>8. tls_pages'[i] = row
    BY <1>3, <1>6 DEF WriteEffect, IInv, TypeOK
  <1>9. AreaOf(t) = [idx \in 0 .. tls_size[i] - 1 |-> ByteAt(i, idx)]
    BY AreaOfSlotHolds DEF AreaOfSlot
  <1>10. AreaOf(t)' = [idx \in 0 .. tls_size[i] - 1 |-> ByteAt(i, idx)']
    BY <1>4, AreaOfSlotNext DEF AreaOfSlot
  <1>11. ASSUME NEW idx \in 0 .. tls_size[i] - 1
         PROVE  ByteAt(i, idx)' = IF idx \in Indices(off, len) THEN v ELSE ByteAt(i, idx)
    <2>1. PICK pn, k : pn = idx \div PageSize /\ k = idx % PageSize
      OBVIOUS
    <2>2. /\ idx \in Nat /\ pn \in PageIdx /\ k \in 0 .. PageSize - 1
          /\ tls_pages[i][pn] \in Pages /\ tls_pages[i][pn] \in mapped /\ tls_pages[i][pn] # NoPage
      BY <2>1, ByteInArea
    <2>3. PICK p : p = row[pn]
      OBVIOUS
    <2>4. p \in Pages
      BY <1>5, <1>7, <2>2, <2>3
    <2> DEFINE source(q) == IF q \in Range(copy)
                            THEN tls_pages[i][CHOOSE l \in copied : copy[l] = q]
                            ELSE q
               written(q, m) == \E x \in Indices(off, len) :
                                  /\ WriteRow(i, copied, copy)[x \div PageSize] = q
                                  /\ x % PageSize = m
    <2>5. data' = [q \in Pages |-> [m \in 0 .. PageSize - 1 |->
                    IF written(q, m) THEN v ELSE data[source(q)][m]]]
      BY <1>3, Zenon DEF WriteData
    <2>6. source(p) = tls_pages[i][pn]
      <3>1. CASE pn \in copied
        <4>1. p = copy[pn] /\ p \in Range(copy)
          BY <1>5, <1>7, <2>2, <2>3, <3>1
        <4>2. PICK c : c = CHOOSE l \in copied : copy[l] = p
          OBVIOUS
        <4>3. c \in copied /\ copy[c] = p
          BY <3>1, <4>1, <4>2
        <4>4. c = pn
          BY <1>5, <3>1, <4>1, <4>3
        <4> QED BY <4>1, <4>2, <4>4
      <3>2. CASE pn \notin copied
        <4>1. p = tls_pages[i][pn] /\ p \notin Range(copy)
          BY <1>5, <1>7, <2>2, <2>3, <3>2
        <4> QED BY <4>1
      <3> QED BY <3>1, <3>2
    <2>7. written(p, k) <=> idx \in Indices(off, len)
      <3>1. ASSUME idx \in Indices(off, len) PROVE written(p, k)
        BY <1>6, <2>1, <2>3, <3>1
      <3>2. ASSUME NEW x \in Indices(off, len), row[x \div PageSize] = p, x % PageSize = k
            PROVE  x = idx
        <4>1. x \in Nat /\ x \div PageSize \in Touched(off, len)
          BY ConstantsOK DEF Touched, Indices, UInts
        <4>2. PICK xn : xn = x \div PageSize
          OBVIOUS
        <4>3. xn \in PageIdx /\ tls_pages[i][xn] \in AreaPages(i) /\ tls_pages[i][xn] # NoPage
          BY <1>1, <4>1, <4>2, TouchedInArea, SumNat
        <4>4. tls_pages[i][xn] \in mapped
          BY <4>3, AreaIsHeld DEF IInv
        <4>5. xn = pn
          <5>1. \A j, l \in PageIdx : tls_pages[i][j] = tls_pages[i][l] /\ tls_pages[i][j] # NoPage => j = l
            BY DEF IInv, AreasInv, AreaInv
          <5> QED BY <1>5, <1>7, <2>2, <2>3, <3>2, <4>2, <4>3, <4>4, <5>1
        <4> QED BY <2>1, <2>2, <3>2, <4>1, <4>2, <4>5, DivModUnique, ConstantsOK
      <3> QED BY <1>6, <3>1, <3>2
    <2> HIDE DEF source, written
    <2>8. data'[p][k] = IF written(p, k) THEN v ELSE data[source(p)][k]
      BY <2>2, <2>4, <2>5
    <2> QED BY <1>8, <2>1, <2>3, <2>6, <2>7, <2>8 DEF ByteAt
  <1> QED BY <1>9, <1>10, <1>11

-----------------------------------------------------------------------------
(* The library implements PrivateStorage                                   *)

\* offset + length stays below 2 ^ UIntWidth for the ranges callers pass.
NoWrap == \A off \in Offsets, len \in Lengths : off + len < 2 ^ UIntWidth

LEMMA IndicesAre ==
  ASSUME NoWrap, NEW off \in Offsets, NEW len \in Lengths
  PROVE  /\ Sum(off, len) = off + len
         /\ Indices(off, len) = off .. off + len - 1
         /\ Cardinality(Indices(off, len)) = len
  <1>1. off \in Nat /\ len \in Nat /\ 2 ^ UIntWidth \in Nat \ {0} /\ off + len < 2 ^ UIntWidth
    BY SizesNat, ConstantsOK DEF NoWrap
  <1>2. ASSUME NEW a \in Nat, NEW n \in Nat, a < n PROVE a % n = a
    BY <1>2
  <1>3. Sum(off, len) = off + len
    BY <1>1, <1>2 DEF Sum
  <1>4. Indices(off, len) = off .. off + len - 1
    BY <1>1, <1>3 DEF Indices, UInts
  <1>5. Cardinality(off .. off + len - 1) = len
    BY <1>1, FS_Interval
  <1> QED BY <1>3, <1>4, <1>5

\* A thread has a private area exactly when it is registered.
HasIsRegistered == \A t \in Threads : AreaOf(t) # None <=> Registered(t)

LEMMA HasIsRegisteredHolds == IInv => HasIsRegistered
  <1> SUFFICES ASSUME IInv, NEW t \in Threads PROVE AreaOf(t) # None <=> Registered(t)
    BY DEF HasIsRegistered
  <1>1. CASE Registered(t)
    <2>1. PICK s \in Slots : pair_tid[s] = t
      BY <1>1 DEF Registered
    <2>2. AreaOf(t) = [idx \in 0 .. tls_size[s] - 1 |-> ByteAt(s, idx)] /\ tls_size[s] \in Nat \ {0}
      BY <2>1, AreaOfSlotHolds DEF AreaOfSlot
    <2>3. DOMAIN AreaOf(t) = 0 .. tls_size[s] - 1 /\ 0 \in 0 .. tls_size[s] - 1
      BY <2>2
    <2>4. DOMAIN None = {}
      BY DEF None
    <2> QED BY <1>1, <2>3, <2>4
  <1>2. CASE ~Registered(t)
    BY <1>2 DEF AreaOf
  <1> QED BY <1>1, <1>2

\* The areas of all threads, as the refinement maps them.
Areas == [t \in Threads |-> AreaOf(t)]

LEMMA AreasUpdate ==
  ASSUME NEW t \in Threads, NEW x, AreaOf(t)' = x,
         \A u \in Threads : u # t => AreaOf(u)' = AreaOf(u)
  PROVE  Areas' = [Areas EXCEPT ![t] = x]
  BY DEF Areas

LEMMA AreasSame ==
  ASSUME \A u \in Threads : AreaOf(u)' = AreaOf(u)
  PROVE  Areas' = Areas
  BY DEF Areas

\* A range fits the private area when it ends inside the slot's area.
LEMMA FitsIsSum ==
  ASSUME IInv, NoWrap, NEW t \in Threads, NEW off \in Offsets, NEW len \in Lengths,
         NEW i \in Slots, pair_tid[i] = t
  PROVE  /\ Private!Fits(t, off, len) <=> Sum(off, len) <= tls_size[i]
         /\ Areas[t] = AreaOf(t) /\ DOMAIN Areas[t] = 0 .. tls_size[i] - 1
  <1>1. /\ AreaOf(t) = [idx \in 0 .. tls_size[i] - 1 |-> ByteAt(i, idx)]
        /\ tls_size[i] \in Nat \ {0}
    BY AreaOfSlotHolds DEF AreaOfSlot
  <1>2. AreaOf(t) # None
    BY HasIsRegisteredHolds DEF HasIsRegistered, Registered
  <1>3. Areas[t] = AreaOf(t) /\ DOMAIN Areas[t] = 0 .. tls_size[i] - 1
    BY <1>1 DEF Areas
  <1>4. Sum(off, len) = off + len /\ off \in Nat /\ len \in Nat
    BY IndicesAre, SizesNat
  <1>5. off + len <= tls_size[i] <=> (off + len = 0 \/ off + len - 1 \in 0 .. tls_size[i] - 1)
    BY <1>1, <1>4
  <1> QED BY <1>2, <1>3, <1>4, <1>5 DEF Private!Fits, Private!Has, Private!None, None, Areas

LEMMA CreateRefines ==
  ASSUME IInv, IInv', NEW t \in Threads, NEW n \in Sizes, CreateRefused(t, n) \/ Create(t, n)
  PROVE  Private!Create(t, n)
  <1>1. AreaOf(t) # None <=> Registered(t)
    BY HasIsRegisteredHolds DEF HasIsRegistered
  <1>2. Areas[t] = AreaOf(t)
    BY DEF Areas
  <1>3. CASE CreateRefused(t, n)
    <2>1. ~(n > 0 /\ ~Registered(t)) /\ last' = Failed("create", t) /\ alive' = alive
      BY <1>3, SizesNat DEF CreateRefused
    <2>2. Areas' = Areas
      BY <1>3, CreateRefusedOthers, KeptArea, AreasSame
    <2> QED BY <1>1, <1>2, <2>1, <2>2 DEF Private!Create, Private!Has, Private!None, None, Areas,
              Private!Failed, Private!Result, Failed, Result
  <1>4. CASE Create(t, n)
    <2>1. n > 0 /\ ~Registered(t) /\ last' = Done("create", t) /\ alive' = alive
      BY <1>4 DEF Create
    <2>2. Areas' = [Areas EXCEPT ![t] = [idx \in 0 .. n - 1 |-> 0]]
      BY <1>4, CreateOwn, CreateOthers, KeptArea, AreasUpdate
    <2> QED BY <1>1, <1>2, <2>1, <2>2 DEF Private!Create, Private!Has, Private!None, None, Areas,
              Private!Done, Private!Result, Done, Result
  <1> QED BY <1>3, <1>4

LEMMA CloneRefines ==
  ASSUME IInv, IInv', NEW t \in Threads, NEW u \in Threads, CloneRefused(t, u) \/ Clone(t, u)
  PROVE  Private!Clone(t, u)
  <1>1. /\ AreaOf(t) # None <=> Registered(t)
        /\ AreaOf(u) # None <=> Registered(u)
    BY HasIsRegisteredHolds DEF HasIsRegistered
  <1>2. Areas[t] = AreaOf(t) /\ Areas[u] = AreaOf(u)
    BY DEF Areas
  <1>3. CASE CloneRefused(t, u)
    <2>1. /\ Registered(t) \/ ~Registered(u)
          /\ last' = Failed("clone", t) /\ alive' = alive
      BY <1>3 DEF CloneRefused
    <2>2. \A w \in Threads : Kept(w)
      BY <1>3, UnrelatedSteps DEF Unrelated, Kept
    <2>3. Areas' = Areas
      BY <2>2, KeptArea, AreasSame
    <2> QED BY <1>1, <1>2, <2>1, <2>3 DEF Private!Clone, Private!Has, Private!None, None, Areas,
              Private!Failed, Private!Result, Failed, Result
  <1>4. CASE Clone(t, u)
    <2>1. ~Registered(t) /\ Registered(u) /\ last' = Done("clone", t) /\ alive' = alive
      BY <1>4 DEF Clone, FirstSlot, Registered
    <2>2. Areas' = [Areas EXCEPT ![t] = Areas[u]]
      BY <1>2, <1>4, CloneOwn, CloneOthers, KeptArea, AreasUpdate
    <2> QED BY <1>1, <1>2, <2>1, <2>2 DEF Private!Clone, Private!Has, Private!None, None, Areas,
              Private!Done, Private!Result, Done, Result
  <1> QED BY <1>3, <1>4

LEMMA DestroyRefines ==
  ASSUME IInv, IInv', NEW t \in Threads, Destroy(t)
  PROVE  Private!Destroy(t)
  <1>1. AreaOf(t) # None <=> Registered(t)
    BY HasIsRegisteredHolds DEF HasIsRegistered
  <1>2. Areas[t] = AreaOf(t)
    BY DEF Areas
  <1>3. Registered(t) /\ last' = Done("destroy", t) /\ alive' = alive
    BY DEF Destroy, FirstSlot, Registered
  <1>4. Areas' = [Areas EXCEPT ![t] = None]
    BY DestroyOwn, DestroyOthers, KeptArea, AreasUpdate
  <1> QED BY <1>1, <1>2, <1>3, <1>4 DEF Private!Destroy, Private!Has, Private!None, None, Areas,
            Private!Done, Private!Result, Done, Result

\* A call of a thread without an area fails in the abstract specification too.
LEMMA NoAreaRefines ==
  ASSUME IInv, IInv', NEW t \in Threads, NEW op, NoArea(t, op)
  PROVE  /\ op = "destroy" => Private!Destroy(t)
         /\ op = "read" => \A off, len : Private!Read(t, off, len)
         /\ op = "write" => \A off, len, v : Private!Write(t, off, len, v)
  <1>1. AreaOf(t) # None <=> Registered(t)
    BY HasIsRegisteredHolds DEF HasIsRegistered
  <1>2. Areas[t] = AreaOf(t)
    BY DEF Areas
  <1>3. ~Registered(t) /\ last' = Failed(op, t) /\ alive' = alive
    BY DEF NoArea
  <1>4. \A w \in Threads : Kept(w)
    BY UnrelatedSteps DEF Unrelated, Kept
  <1>5. Areas' = Areas
    BY <1>4, KeptArea, AreasSame
  <1>6. ~Private!Has(t)
    BY <1>1, <1>2, <1>3 DEF Private!Has, Private!None, None, Areas
  <1>7. \A off, len : ~Private!Fits(t, off, len)
    BY <1>6 DEF Private!Fits
  <1>8. ASSUME op = "destroy" PROVE Private!Destroy(t)
    <2>1. [Areas EXCEPT ![t] = None] = Areas
      BY <1>1, <1>2, <1>3 DEF Areas
    <2> QED BY <1>3, <1>5, <1>6, <1>8, <2>1 DEF Private!Destroy, Areas, None, Private!None,
              Private!Failed, Private!Result, Failed, Result
  <1>9. ASSUME op = "read", NEW off, NEW len PROVE Private!Read(t, off, len)
    BY <1>3, <1>5, <1>7, <1>9 DEF Private!Read, Areas, Private!None, None,
       Private!Failed, Private!Result, Failed, Result
  <1>10. ASSUME op = "write", NEW off, NEW len, NEW v PROVE Private!Write(t, off, len, v)
    BY <1>3, <1>5, <1>7, <1>10 DEF Private!Write, Areas, Private!None, None,
       Private!Failed, Private!Result, Failed, Result
  <1> QED BY <1>8, <1>9, <1>10

LEMMA TooLongRefines ==
  ASSUME IInv, IInv', NoWrap, NEW t \in Threads, NEW op, NEW off \in Offsets, NEW len \in Lengths,
         TooLong(t, op, off, len)
  PROVE  /\ op = "read" => Private!Read(t, off, len)
         /\ op = "write" => \A v : Private!Write(t, off, len, v)
  <1>1. PICK i \in Slots : FirstSlot(pair_tid, t, i) /\ Sum(off, len) > tls_size[i]
    BY DEF TooLong
  <1>2. pair_tid[i] = t
    BY <1>1 DEF FirstSlot
  <1>3. last' = Failed(op, t) /\ alive' = alive
    BY DEF TooLong
  <1>4. \A w \in Threads : Kept(w)
    BY UnrelatedSteps DEF Unrelated, Kept
  <1>5. Areas' = Areas
    BY <1>4, KeptArea, AreasSame
  <1>6. ~Private!Fits(t, off, len)
    <2>1. tls_size[i] \in Nat /\ Sum(off, len) \in Nat
      BY SumNat DEF IInv, TypeOK
    <2>2. Private!Fits(t, off, len) <=> Sum(off, len) <= tls_size[i]
      BY <1>2, FitsIsSum
    <2> QED BY <1>1, <2>1, <2>2
  <1>7. ASSUME op = "read" PROVE Private!Read(t, off, len)
    BY <1>3, <1>5, <1>6, <1>7 DEF Private!Read, Areas, Private!None, None,
       Private!Failed, Private!Result, Failed, Result
  <1>8. ASSUME op = "write", NEW v PROVE Private!Write(t, off, len, v)
    BY <1>3, <1>5, <1>6, <1>8 DEF Private!Write, Areas, Private!None, None,
       Private!Failed, Private!Result, Failed, Result
  <1> QED BY <1>7, <1>8

LEMMA ReadRefines ==
  ASSUME IInv, IInv', NoWrap, NEW t \in Threads, NEW off \in Offsets, NEW len \in Lengths,
         Read(t, off, len)
  PROVE  Private!Read(t, off, len)
  <1>1. PICK i \in Slots :
          /\ FirstSlot(pair_tid, t, i) /\ Sum(off, len) <= tls_size[i]
          /\ last' = Result("read", t, "ok", len, Cardinality(Indices(off, len)),
                            [k \in {idx - off : idx \in Indices(off, len)} |-> ByteAt(i, off + k)])
    BY DEF Read
  <1>2. pair_tid[i] = t
    BY <1>1 DEF FirstSlot
  <1>3. UNCHANGED <<pair_tid, tls_size, tls_pages, data, alive>>
    BY DEF Read, tableVars
  <1>4. Areas' = Areas
    <2>1. \A w \in Threads : Kept(w)
      BY <1>3 DEF Kept
    <2> QED BY <2>1, KeptArea, AreasSame
  <1>5. Private!Fits(t, off, len) /\ Areas[t] = AreaOf(t)
    BY <1>1, <1>2, FitsIsSum
  <1>6. /\ Sum(off, len) = off + len /\ Cardinality(Indices(off, len)) = len
        /\ Indices(off, len) = off .. off + len - 1
        /\ off \in Nat /\ len \in Nat
    BY IndicesAre, SizesNat
  <1>7. {idx - off : idx \in Indices(off, len)} = 0 .. len - 1
    <2>1. \A k \in 0 .. len - 1 : off + k \in off .. off + len - 1 /\ k = (off + k) - off
      BY <1>6
    <2>2. \A idx \in off .. off + len - 1 : idx - off \in 0 .. len - 1
      BY <1>6
    <2> QED BY <1>6, <2>1, <2>2
  <1>8. AreaOf(t) = [idx \in 0 .. tls_size[i] - 1 |-> ByteAt(i, idx)] /\ tls_size[i] \in Nat
    BY <1>2, AreaOfSlotHolds DEF AreaOfSlot
  <1>9. \A k \in 0 .. len - 1 : Areas[t][off + k] = ByteAt(i, off + k)
    <2>1. \A k \in 0 .. len - 1 : off + k \in 0 .. tls_size[i] - 1
      BY <1>1, <1>6, <1>8
    <2> QED BY <1>5, <1>8, <2>1
  <1>10. last' = Result("read", t, "ok", len, len, [k \in 0 .. len - 1 |-> Areas[t][off + k]])
    BY <1>1, <1>6, <1>7, <1>9
  <1> QED BY <1>3, <1>4, <1>5, <1>10 DEF Private!Read, Private!Result, Result, Areas

LEMMA WriteRefines ==
  ASSUME IInv, IInv', NoWrap, NEW t \in Threads, NEW off \in Offsets, NEW len \in Lengths, NEW v,
         Write(t, off, len, v)
  PROVE  Private!Write(t, off, len, v)
  <1>1. PICK i \in Slots : FirstSlot(pair_tid, t, i) /\ Sum(off, len) <= tls_size[i]
    BY WriteFacts
  <1>2. pair_tid[i] = t /\ alive' = alive
    BY <1>1, WriteFacts DEF FirstSlot
  <1>3. last' = Result("write", t, "ok", len, Cardinality(Indices(off, len)), None)
    BY DEF Write
  <1>4. /\ Private!Fits(t, off, len)
        /\ Areas[t] = AreaOf(t) /\ DOMAIN Areas[t] = 0 .. tls_size[i] - 1
    BY <1>1, <1>2, FitsIsSum
  <1>5. Indices(off, len) = off .. off + len - 1 /\ Cardinality(Indices(off, len)) = len
    BY IndicesAre
  <1>6. AreaOf(t)' = [idx \in DOMAIN Areas[t] |->
                        IF idx \in off .. off + len - 1 THEN v ELSE Areas[t][idx]]
    <2>1. AreaOf(t)' = [idx \in 0 .. tls_size[i] - 1 |->
                          IF idx \in Indices(off, len) THEN v ELSE AreaOf(t)[idx]]
      BY <1>2, WriteOwn
    <2> QED BY <1>4, <1>5, <2>1
  <1>7. Areas' = [Areas EXCEPT ![t] = [idx \in DOMAIN Areas[t] |->
                    IF idx \in off .. off + len - 1 THEN v ELSE Areas[t][idx]]]
    BY <1>6, WriteOthers, KeptArea, AreasUpdate
  <1> QED BY <1>2, <1>3, <1>4, <1>5, <1>7 DEF Private!Write, Private!Result, Result, Areas, None, Private!None

\* Every step is a step of the abstract specification, or changes nothing it sees.
LEMMA NextRefines ==
  ASSUME IInv, IInv', NoWrap, ~Exhaust, Next
  PROVE  Private!Next \/ UNCHANGED Private!vars
  <1>1. CASE Ended
    <2>1. \A w \in Threads : Kept(w)
      BY <1>1 DEF Ended, vars, tableVars, pageVars, Kept
    <2>2. Areas' = Areas
      BY <2>1, KeptArea, AreasSame
    <2> QED BY <1>1, <2>2 DEF Ended, vars, Private!vars, Areas
  <1>2. ASSUME NEW t \in Threads, NEW p, PageFault(t, p) PROVE Private!Next
    <2>1. \A w \in Threads : Kept(w)
      BY <1>2, UnrelatedSteps DEF Unrelated, Kept
    <2>2. Areas' = Areas
      BY <2>1, KeptArea, AreasSame
    <2> QED BY <1>2, <2>2, UnrelatedSteps DEF Private!Next, Private!Stop, Areas
  <1>3. ASSUME NEW t \in Threads, NEW n \in Sizes,
               CreateRefused(t, n) \/ Create(t, n) \/ CreateNoSlot(t, n)
        PROVE  Private!Next
    <2>1. t \in alive
      BY <1>3 DEF CreateRefused, Create, CreateNoSlot, Call
    <2>2. Private!Create(t, n)
      BY <1>3, CreateRefines DEF CreateNoSlot
    <2> QED BY <2>1, <2>2 DEF Private!Next
  <1>4. ASSUME NEW t \in Threads, Destroy(t) PROVE Private!Next
    <2>1. t \in alive
      BY <1>4 DEF Destroy, Call
    <2> QED BY <1>4, <2>1, DestroyRefines DEF Private!Next
  <1>5. ASSUME NEW t \in Threads, NEW u \in Threads,
               CloneRefused(t, u) \/ Clone(t, u) \/ CloneNoSlot(t, u)
        PROVE  Private!Next
    <2>1. t \in alive
      BY <1>5 DEF CloneRefused, Clone, CloneNoSlot, Call
    <2>2. Private!Clone(t, u)
      BY <1>5, CloneRefines DEF CloneNoSlot
    <2> QED BY <2>1, <2>2 DEF Private!Next
  <1>6. PICK off0 \in Offsets, len0 \in Lengths, v0 \in Bytes : TRUE
    BY ConstantsOK
  <1>7. ASSUME NEW t \in Threads, NEW op \in {"destroy", "read", "write"}, NoArea(t, op)
        PROVE  Private!Next
    <2>1. t \in alive
      BY <1>7 DEF NoArea, Call
    <2>2. Private!Destroy(t) \/ Private!Read(t, off0, len0) \/ Private!Write(t, off0, len0, v0)
      BY <1>7, NoAreaRefines
    <2> QED BY <1>6, <2>1, <2>2 DEF Private!Next
  <1>8. ASSUME NEW t \in Threads, NEW off \in Offsets, NEW len \in Lengths,
               \/ \E op \in {"read", "write"} : TooLong(t, op, off, len)
               \/ Read(t, off, len)
               \/ \E v \in Bytes : Write(t, off, len, v)
        PROVE  Private!Next
    <2>1. t \in alive
      BY <1>8 DEF TooLong, Read, Write, Call
    <2>2. Private!Read(t, off, len) \/ \E v \in Bytes : Private!Write(t, off, len, v)
      BY <1>6, <1>8, TooLongRefines, ReadRefines, WriteRefines
    <2> QED BY <2>1, <2>2 DEF Private!Next
  <1> QED BY <1>1, <1>2, <1>3, <1>4, <1>5, <1>7, <1>8 DEF Next

LEMMA InitRefines == Init => Private!Init
  <1> SUFFICES ASSUME Init PROVE Private!Init
    OBVIOUS
  <1>1. \A t \in Threads : AreaOf(t) = None
    BY ConstantsOK DEF Init, AreaOf, Registered
  <1> QED BY <1>1 DEF Init, Private!Init, None, Private!None

\* Sharing pages cannot be observed: with no offset + length that wraps and as long as
\* callers stop when every slot has been used, each call of tls_create, tls_clone, tls_read,
\* tls_write and tls_destroy returns, and does to the areas, what one private area per
\* thread would.
THEOREM SharingIsInvisible ==
  ASSUME NoWrap, ~Exhaust
  PROVE  Spec => ImplementsPrivateStorage
  <1>1. IInv /\ IInv' /\ [Next]_vars => [Private!Next]_(Private!vars)
    <2>1. ASSUME IInv, IInv', UNCHANGED vars PROVE UNCHANGED Private!vars
      <3>1. \A w \in Threads : Kept(w)
        BY <2>1 DEF vars, tableVars, pageVars, Kept
      <3>2. Areas' = Areas
        BY <2>1, <3>1, KeptArea, AreasSame
      <3> QED BY <2>1, <3>2 DEF vars, Private!vars, Areas
    <2> QED BY <2>1, NextRefines
  <1> QED BY <1>1, InitRefines, IInvHolds, PTL DEF Spec, ImplementsPrivateStorage, Private!Spec
=============================================================================
