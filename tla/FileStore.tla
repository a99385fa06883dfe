----------------------------- MODULE FileStore -----------------------------
(***************************************************************************)
(* What file-systems-noodlez102/fs.h promises a program, blocks left out:  *)
(* each file is a sequence of cells, each descriptor a position in a file. *)
(* A store has limits it does not tell: it may refuse a new file or a      *)
(* descriptor, and a write may end early.                                  *)
(***************************************************************************)
EXTENDS Integers, Sequences

CONSTANTS
  Names,         \* file names
  Descriptors,   \* file descriptors
  Values,        \* what programs write
  Lengths,       \* numbers of cells they read and write
  Positions      \* positions they seek and truncate to

VARIABLES
  mounted,   \* a store is mounted
  files,     \* the contents of each existing file
  fds,       \* name and position of each open descriptor
  last       \* the last call: its operation, result and output

vars == <<mounted, files, fds, last>>

Empty == [x \in {} |-> 0]
With(f, x, y) == [z \in DOMAIN f \cup {x} |-> IF z = x THEN y ELSE f[z]]
Without(f, x) == [z \in DOMAIN f \ {x} |-> f[z]]

\* The last call; on is the descriptor it was given.
Returned(op, ret, out) == last' = [op |-> op, on |-> -1, ret |-> ret, out |-> out]
ReturnedOn(d, op, ret, out) == last' = [op |-> op, on |-> d, ret |-> ret, out |-> out]

Init ==
  /\ mounted = FALSE
  /\ files = Empty
  /\ fds = Empty
  /\ last = [op |-> "none", on |-> -1, ret |-> 0, out |-> <<>>]

\* A refused call has no effect.  On an open descriptor only a position behind the end of
\* the file is refused.
Refuse ==
  /\ \E op \in {"mount", "umount", "create", "delete", "open"} : Returned(op, -1, <<>>)
  /\ UNCHANGED <<mounted, files, fds>>

RefuseOn(d) ==
  /\ \E op \in {"close", "read", "write", "lseek", "truncate", "size"} :
       /\ ReturnedOn(d, op, -1, <<>>)
       /\ d \in DOMAIN fds => /\ op \in {"lseek", "truncate"}
                              /\ \E p \in Positions : p > Len(files[fds[d].name])
  /\ UNCHANGED <<mounted, files, fds>>

Make == ~mounted /\ files' = Empty /\ Returned("make", 0, <<>>) /\ UNCHANGED <<mounted, fds>>
Mount == ~mounted /\ mounted' = TRUE /\ Returned("mount", 0, <<>>) /\ UNCHANGED <<files, fds>>

Create(n) ==
  /\ Returned("create", 0, <<>>)
  /\ mounted /\ n \notin DOMAIN files
  /\ files' = With(files, n, <<>>)
  /\ UNCHANGED <<mounted, fds>>

Open(n) ==
  /\ mounted /\ n \in DOMAIN files
  /\ \E d \in Descriptors \ DOMAIN fds :
       Returned("open", d, <<>>) /\ fds' = With(fds, d, [name |-> n, pos |-> 0])
  /\ UNCHANGED <<mounted, files>>

Close(d) ==
  /\ ReturnedOn(d, "close", 0, <<>>)
  /\ d \in DOMAIN fds
  /\ fds' = Without(fds, d)
  /\ UNCHANGED <<mounted, files>>

List == Returned("list", 0, DOMAIN files) /\ UNCHANGED <<mounted, files, fds>>

\* The contents s with m cells of value v from position p on.
Overwritten(s, p, m, v) ==
  [i \in 1 .. (IF p + m > Len(s) THEN p + m ELSE Len(s)) |-> IF i \in p + 1 .. p + m THEN v ELSE s[i]]

\* All n cells are written and n is returned, or fewer and -1.
Write(d, n, v) ==
  /\ d \in DOMAIN fds
  /\ \E m \in 0 .. n :
       /\ ReturnedOn(d, "write", IF m = n THEN n ELSE -1, <<>>)
       /\ fds' = [fds EXCEPT ![d].pos = @ + m]
       /\ files' = [files EXCEPT ![fds[d].name] = Overwritten(@, fds[d].pos, m, v)]
  /\ UNCHANGED mounted

Read(d, n) ==
  /\ d \in DOMAIN fds
  /\ LET s == files[fds[d].name]
         p == fds[d].pos
         end == IF p + n > Len(s) THEN Len(s) ELSE p + n
     IN  /\ ReturnedOn(d, "read", end - p, SubSeq(s, p + 1, end))
         /\ fds' = [fds EXCEPT ![d].pos = end]
  /\ UNCHANGED <<mounted, files>>

Lseek(d, p) ==
  /\ ReturnedOn(d, "lseek", 0, <<>>)
  /\ d \in DOMAIN fds /\ p <= Len(files[fds[d].name])
  /\ fds' = [fds EXCEPT ![d].pos = p]
  /\ UNCHANGED <<mounted, files>>

Truncate(d, p) ==
  /\ ReturnedOn(d, "truncate", 0, <<>>)
  /\ d \in DOMAIN fds /\ p <= Len(files[fds[d].name])
  /\ files' = [files EXCEPT ![fds[d].name] = SubSeq(@, 1, p)]
  /\ fds' = [fds EXCEPT ![d].pos = p]
  /\ UNCHANGED mounted

GetFilesize(d) ==
  /\ d \in DOMAIN fds
  /\ ReturnedOn(d, "size", Len(files[fds[d].name]), <<>>)
  /\ UNCHANGED <<mounted, files, fds>>

Next ==
  \/ Refuse \/ Make \/ Mount \/ List
  \/ \E n \in Names : Create(n) \/ Open(n)
  \/ \E d \in Descriptors :
       \/ Close(d) \/ GetFilesize(d) \/ RefuseOn(d)
       \/ \E n \in Lengths : Read(d, n) \/ \E v \in Values : Write(d, n, v)
       \/ \E p \in Positions : Lseek(d, p) \/ Truncate(d, p)

Spec == Init /\ [][Next]_vars
=============================================================================
