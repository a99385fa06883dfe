------------------------------- MODULE CowTls -------------------------------
(***************************************************************************)
(* copy-on-write-noodlez102/tls.c: the table of (thread id, area) pairs,   *)
(* reference-counted pages shared by clones, copy on write, and the page   *)
(* fault handler.  Each call is one action: that calls do not overlap is   *)
(* an assumption, since nothing in the code orders calls that do.          *)
(***************************************************************************)
EXTENDS Naturals, FiniteSets, Functions

CONSTANTS
  Threads,    \* ids of the threads of the process
  MaxSlots,   \* MAX_THREAD_COUNT, the length of tid_tls_pairs (128 in the code)
  PageSize,   \* page_size
  MaxPages,   \* bound: the struct pages that may be in use at once
  MaxRefs,    \* bound: a page's ref_count, which lost clones make grow for ever
  UIntWidth,  \* width of unsigned int
  Sizes,      \* the sizes callers pass to tls_create
  Offsets,    \* the offsets callers pass to tls_read and tls_write
  Lengths,    \* the lengths
  Bytes,      \* the values callers write; a fresh byte is 0
  Exhaust     \* callers go on creating areas when every slot has been used

CONSTANTS Zero, Minus1   \* the thread ids 0 and -1

Slots == 0 .. MaxSlots - 1

Pages == 1 .. MaxPages
NoPage == 0      \* a null struct page pointer

UInts == 0 .. 2 ^ UIntWidth - 1

\* (size - 1) / page_size + 1
PageNum(size) == (size - 1) \div PageSize + 1

\* Indices of the pages array of the largest area.
PageIdx == UNION {0 .. PageNum(n) - 1 : n \in Sizes \ {0}}

ASSUME ConstantsOK ==
  /\ MaxSlots \in Nat \ {0} /\ PageSize \in Nat \ {0}
  /\ UIntWidth \in Nat /\ 2 ^ UIntWidth \in Nat \ {0}
  /\ Sizes \subseteq UInts /\ Offsets \subseteq UInts /\ Lengths \subseteq UInts
  /\ Offsets # {} /\ Lengths # {} /\ Bytes # {}
  /\ MaxPages \in Nat /\ MaxRefs \in Nat
  /\ Exhaust \in BOOLEAN
  /\ Zero \notin Threads /\ Minus1 \notin Threads /\ Zero # Minus1

VARIABLES
  initialize,  \* the global of the same name
  pair_tid,    \* tid_tls_pairs[i].tid
  tls_size,    \* tid_tls_pairs[i].tls->size, 0 when tls is NULL (no area is empty)
  tls_pages,   \* tid_tls_pairs[i].tls->pages, NoPage past page_num
  mapped,      \* the struct pages that exist, with their mapping
  ref_count,   \* ref_count of each page
  data,        \* the bytes of each page
  readable,    \* pages that are not PROT_NONE
  alive,       \* the threads that still run; empty when the process was killed
  corrupt,     \* tid_tls_pairs[-1] was written
  last         \* the last call, as in PrivateStorage

tableVars == <<pair_tid, tls_size, tls_pages>>
pageVars  == <<mapped, ref_count, data, readable>>
vars == <<initialize, tableVars, pageVars, alive, corrupt, last>>

None == <<>>

Result(op, t, ret, len, moved, out) ==
  [op |-> op, by |-> t, ret |-> ret, len |-> len, moved |-> moved, out |-> out]

Failed(op, t) == Result(op, t, "fail", 0, 0, None)
Done(op, t) == Result(op, t, "ok", 0, 0, None)

NoPages == [j \in PageIdx |-> NoPage]
ZeroPage == [k \in 0 .. PageSize - 1 |-> 0]

\* The pages of slot i's area.
AreaPages(i) == Range(tls_pages[i]) \ {NoPage}

\* Static storage: every id is 0 and every area NULL until the first tls_create.
Init ==
  /\ initialize = FALSE
  /\ pair_tid = [i \in Slots |-> Zero]
  /\ tls_size = [i \in Slots |-> 0]
  /\ tls_pages = [i \in Slots |-> NoPages]
  /\ mapped = {}
  /\ ref_count = [p \in Pages |-> 0]
  /\ data = [p \in Pages |-> ZeroPage]
  /\ readable = {}
  /\ alive = Threads
  /\ corrupt = FALSE
  /\ last = [op |-> "none"]

-----------------------------------------------------------------------------
\* Mutant of FirstSlot: the search does not stop at the first match.
LastSlot(tids, x, i) == tids[i] = x /\ \A j \in i + 1 .. MaxSlots - 1 : tids[j] # x

\* The loop all operations search the table with: i is the first slot of id x.
FirstSlot(tids, x, i) == tids[i] = x /\ \A j \in 0 .. i - 1 : tids[j] # x

Registered(t) == \E i \in Slots : pair_tid[i] = t

Call(t) == t \in alive /\ ~corrupt

\* Distinct new pages for the indices of S; which addresses malloc and mmap return is of
\* no consequence, so the lowest unmapped ones in order.
NewPages(S) ==
  {new \in Injection(S, Pages \ mapped) :
     /\ \A j, k \in S : j < k => new[j] < new[k]
     /\ \A j \in S, p \in Pages \ (mapped \cup Range(new)) : new[j] < p}

\* tls_init, on the first call: all ids become -1.
InitTids == IF initialize THEN pair_tid ELSE [i \in Slots |-> Minus1]

CreateRefused(t, n) ==
  /\ Call(t)
  /\ n = 0 \/ Registered(t)
  /\ initialize' = TRUE
  /\ pair_tid' = InitTids
  /\ last' = Failed("create", t)
  /\ UNCHANGED <<tls_size, tls_pages, pageVars, alive, corrupt>>

\* New pages are zero-filled, PROT_NONE and referenced once.
Create(t, n) ==
  /\ Call(t)
  /\ n > 0 /\ ~Registered(t)
  /\ initialize' = TRUE
  /\ \E i \in Slots, new \in NewPages(0 .. PageNum(n) - 1) :
       /\ FirstSlot(InitTids, Minus1, i)
       /\ pair_tid' = [InitTids EXCEPT ![i] = t]
       /\ tls_size' = [tls_size EXCEPT ![i] = n]
       /\ tls_pages' = [tls_pages EXCEPT ![i] =
                          [j \in PageIdx |-> IF j < PageNum(n) THEN new[j] ELSE NoPage]]
       /\ mapped' = mapped \cup Range(new)
       /\ ref_count' = [p \in Pages |-> IF p \in Range(new) THEN 1 ELSE ref_count[p]]
       /\ data' = [p \in Pages |-> IF p \in Range(new) THEN ZeroPage ELSE data[p]]
  /\ last' = Done("create", t)
  /\ UNCHANGED <<readable, alive, corrupt>>

\* No slot has id -1: new_tls_index is still -1 when the pair is stored.
CreateNoSlot(t, n) ==
  /\ Exhaust
  /\ Call(t)
  /\ n > 0 /\ ~Registered(t)
  /\ \A i \in Slots : InitTids[i] # Minus1
  /\ corrupt' = TRUE
  /\ last' = Done("create", t)
  /\ UNCHANGED <<initialize, tableVars, pageVars, alive>>

-----------------------------------------------------------------------------
\* Mutant of Unmapped: every page goes, shared or not.
UnmappedAll(i) == AreaPages(i)

\* The pages that go with slot i's area: nobody else holds them.
Unmapped(i) == {p \in AreaPages(i) : ref_count[p] = 1}

\* The slot's id becomes 0, not -1.
Destroy(t) ==
  /\ Call(t)
  /\ \E i \in Slots :
       /\ FirstSlot(pair_tid, t, i)
       /\ mapped' = mapped \ Unmapped(i)
       /\ data' = [p \in Pages |-> IF p \in Unmapped(i) THEN ZeroPage ELSE data[p]]
       /\ ref_count' = [p \in Pages |-> IF p \in AreaPages(i) THEN ref_count[p] - 1
                                                              ELSE ref_count[p]]
       /\ pair_tid' = [pair_tid EXCEPT ![i] = Zero]
       /\ tls_size' = [tls_size EXCEPT ![i] = 0]
       /\ tls_pages' = [tls_pages EXCEPT ![i] = NoPages]
  /\ last' = Done("destroy", t)
  /\ UNCHANGED <<initialize, readable, alive, corrupt>>

\* tls_destroy, tls_read and tls_write of a thread without an area return -1.
NoArea(t, op) ==
  /\ Call(t)
  /\ op \in {"destroy", "read", "write"}
  /\ ~Registered(t)
  /\ last' = Failed(op, t)
  /\ UNCHANGED <<initialize, tableVars, pageVars, alive, corrupt>>

-----------------------------------------------------------------------------
\* offset + length in unsigned int
Sum(off, len) == (off + len) % 2 ^ UIntWidth

\* The indices the transfer loop visits: idx = offset; idx < offset + length; ++idx.
Indices(off, len) == {idx \in UInts : off <= idx /\ idx < Sum(off, len)}

TooLong(t, op, off, len) ==
  /\ Call(t)
  /\ op \in {"read", "write"}
  /\ \E i \in Slots : FirstSlot(pair_tid, t, i) /\ Sum(off, len) > tls_size[i]
  /\ last' = Failed(op, t)
  /\ UNCHANGED <<initialize, tableVars, pageVars, alive, corrupt>>

\* Byte idx of the area of slot i.
ByteAt(i, idx) == data[tls_pages[i][idx \div PageSize]][idx % PageSize]

\* Unprotect the area's pages, copy out, protect them again.
Read(t, off, len) ==
  /\ Call(t)
  /\ \E i \in Slots :
       /\ FirstSlot(pair_tid, t, i)
       /\ Sum(off, len) <= tls_size[i]
       /\ readable' = (readable \cup AreaPages(i)) \ AreaPages(i)
       /\ LET moved == Indices(off, len) IN
          last' = Result("read", t, "ok", len, Cardinality(moved),
                         [k \in {idx - off : idx \in moved} |-> ByteAt(i, off + k)])
  /\ UNCHANGED <<initialize, tableVars, mapped, ref_count, data, alive, corrupt>>

\* Mutant of Copied: a page with one other holder is not copied.
CopiedLate(i, touched) == {pn \in touched : ref_count[tls_pages[i][pn]] > 2}

\* The page numbers of slot i that a write copies: touched, and shared.
Copied(i, touched) == {pn \in touched : ref_count[tls_pages[i][pn]] > 1}

\* Mutant of AfterWrite: tls_protect(p) on the replaced page is missing.
AfterWriteOpen(before, replaced, after) == (readable \cup before \cup after) \ after

\* What a write leaves accessible: the area was unprotected, each page it replaced was
\* protected at once, and the loop at the end protects the pages the area has then.
AfterWrite(before, replaced, after) == (readable \cup before \cup after) \ (replaced \cup after)

\* Every written page that is shared is first replaced by a private copy.
Write(t, off, len, v) ==
  /\ Call(t)
  /\ \E i \in Slots :
       /\ FirstSlot(pair_tid, t, i)
       /\ Sum(off, len) <= tls_size[i]
       /\ LET moved    == Indices(off, len)
              copied   == Copied(i, {idx \div PageSize : idx \in moved})
              replaced == {tls_pages[i][pn] : pn \in copied}
          IN \E copy \in NewPages(copied) :
               LET table   == [j \in PageIdx |-> IF j \in copied THEN copy[j]
                                                                 ELSE tls_pages[i][j]]
                   source(p) == IF p \in Range(copy)
                                THEN tls_pages[i][CHOOSE pn \in copied : copy[pn] = p]
                                ELSE p
                   written(p, k) == \E idx \in moved : /\ table[idx \div PageSize] = p
                                                       /\ idx % PageSize = k
               IN /\ tls_pages' = [tls_pages EXCEPT ![i] = table]
                  /\ mapped' = mapped \cup Range(copy)
                  /\ ref_count' = [p \in Pages |->
                                     CASE p \in Range(copy) -> 1
                                       [] p \in replaced -> ref_count[p] - 1
                                       [] OTHER -> ref_count[p]]
                  /\ data' = [p \in Pages |-> [k \in 0 .. PageSize - 1 |->
                                IF written(p, k) THEN v ELSE data[source(p)][k]]]
                  /\ readable' = AfterWrite(AreaPages(i), replaced, Range(table) \ {NoPage})
                  /\ last' = Result("write", t, "ok", len, Cardinality(moved), None)
  /\ UNCHANGED <<initialize, pair_tid, tls_size, alive, corrupt>>

-----------------------------------------------------------------------------
CloneRefused(t, u) ==
  /\ Call(t)
  /\ Registered(t) \/ ~Registered(u)
  /\ last' = Failed("clone", t)
  /\ UNCHANGED <<initialize, tableVars, pageVars, alive, corrupt>>

\* Mutant of Shared: ref_count++ is missing.
SharedUncounted(j) == ref_count

\* ref_count++ on every page of the target's area
Shared(j) == [p \in Pages |-> IF p \in AreaPages(j) THEN ref_count[p] + 1 ELSE ref_count[p]]

Clone(t, u) ==
  /\ Call(t)
  /\ ~Registered(t)
  /\ \E i, j \in Slots :
       /\ FirstSlot(pair_tid, u, j)
       /\ FirstSlot(pair_tid, Minus1, i)
       /\ ref_count' = Shared(j)
       /\ pair_tid' = [pair_tid EXCEPT ![i] = t]
       /\ tls_size' = [tls_size EXCEPT ![i] = tls_size[j]]
       /\ tls_pages' = [tls_pages EXCEPT ![i] = tls_pages[j]]
  /\ last' = Done("clone", t)
  /\ UNCHANGED <<initialize, mapped, data, readable, alive, corrupt>>

\* Every slot was used: the new area is stored nowhere, and the call returns 0.
CloneNoSlot(t, u) ==
  /\ Exhaust
  /\ Call(t)
  /\ ~Registered(t)
  /\ \A i \in Slots : pair_tid[i] # Minus1
  /\ \E j \in Slots :
       /\ FirstSlot(pair_tid, u, j)
       /\ \A p \in AreaPages(j) : ref_count[p] < MaxRefs
       /\ ref_count' = Shared(j)
  /\ last' = Done("clone", t)
  /\ UNCHANGED <<initialize, tableVars, mapped, data, readable, alive, corrupt>>

-----------------------------------------------------------------------------
\* The handler walks the table up to the first area with page p, through tls pointers it
\* does not test: a NULL on the way is a second fault, which ends the process.
HandlerFinds(p) == \E i \in Slots : p \in AreaPages(i) /\ \A j \in 0 .. i - 1 : tls_size[j] > 0

\* Thread t touches a protected page of some area.
PageFault(t, p) ==
  /\ Call(t)
  /\ p \in mapped \ readable
  /\ alive' = IF HandlerFinds(p) THEN alive \ {t} ELSE {}
  /\ UNCHANGED <<initialize, tableVars, pageVars, corrupt, last>>

\* No thread is left to make a call.
Ended == (alive = {} \/ corrupt) /\ UNCHANGED vars

Next ==
  \/ \E t \in Threads :
       \/ \E n \in Sizes : CreateRefused(t, n) \/ Create(t, n) \/ CreateNoSlot(t, n)
       \/ Destroy(t)
       \/ \E u \in Threads : CloneRefused(t, u) \/ Clone(t, u) \/ CloneNoSlot(t, u)
       \/ \E op \in {"destroy", "read", "write"} : NoArea(t, op)
       \/ \E off \in Offsets, len \in Lengths :
            \/ \E op \in {"read", "write"} : TooLong(t, op, off, len)
            \/ Read(t, off, len)
            \/ \E v \in Bytes : Write(t, off, len, v)
       \/ \E p \in Pages : PageFault(t, p)
  \/ Ended

Spec == Init /\ [][Next]_vars

-----------------------------------------------------------------------------
(* Properties                                                              *)

\* The (slot, index) places of the table that point to page p.
References(p) == {x \in Slots \X PageIdx : tls_pages[x[1]][x[2]] = p}

\* A page's ref_count is the number of areas that hold it, and it exists exactly as long
\* as that is not 0: no area points to an unmapped page, and none is leaked.
RefCountExact ==
  \A p \in Pages : /\ p \in mapped => ref_count[p] = Cardinality(References(p))
                   /\ p \in mapped <=> References(p) # {}

\* With or without lost clones, no area points to a page that was unmapped, and ref_count
\* never falls below the number of areas that hold the page.
NoDanglingPage ==
  \A p \in Pages : References(p) # {} =>
    p \in mapped /\ ref_count[p] >= Cardinality(References(p))

\* Between calls every page is PROT_NONE, so a stray access is always caught.
AllProtected == readable = {}

\* While no area was destroyed, a stray access to an area ends the offending thread only:
\* the handler meets no NULL before the area it looks for.
FaultFindsArea ==
  (\A i \in Slots : initialize => pair_tid[i] # Zero) => \A p \in mapped : HandlerFinds(p)

\* The area of thread t, as its owner sees it.
AreaOf(t) ==
  IF Registered(t)
  THEN LET i == CHOOSE s \in Slots : pair_tid[s] = t
       IN [idx \in 0 .. tls_size[i] - 1 |-> ByteAt(i, idx)]
  ELSE None

\* Whatever is shared, exhausted or lost: a call changes no area but its caller's.
OthersUntouched == [][\A t \in Threads : AreaOf(t)' # AreaOf(t) => last'.by = t]_vars

\* Sharing pages cannot be observed: the library implements one private area per thread.
Private == INSTANCE PrivateStorage WITH area <- [t \in Threads |-> AreaOf(t)]
ImplementsPrivateStorage == Private!Spec
=============================================================================
