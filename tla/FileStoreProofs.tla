-------------------------- MODULE FileStoreProofs --------------------------
(***************************************************************************)
(* FileSystem implements FileStore, for disks, tables, files, descriptors  *)
(* and lengths of any size: programs that keep their disk mounted, delete  *)
(* nothing and have one descriptor per file see plain sequences of cells.  *)
(***************************************************************************)
EXTENDS FileSystemProofs, SequenceTheorems

\* Entries and inodes are taken in order, so that both have the same number.
PlaceInv ==
  \A i \in Inodes :
    /\ directory[i].is_used => directory[i].inode_number = i
    /\ inode_table[i].file_type = IF directory[i].is_used THEN 1 ELSE 0
    /\ \A j \in Inodes : j < i /\ directory[i].is_used => directory[j].is_used

\* A file has one descriptor, which is not behind its end.
SeekInv ==
  /\ \A d, e \in DOMAIN open_file_descriptors : InodeOf(d) = InodeOf(e) => d = e
  /\ \A d \in DOMAIN open_file_descriptors : OffsetOf(d) <= inode_table[InodeOf(d)].file_size

\* Every cell of a file is in a block.
FullInv ==
  \A i \in Inodes : \A p \in 0 .. inode_table[i].file_size - 1 :
    inode_table[i].file_type = 1 => <<i, p \div BLOCK_SIZE>> \in Allocated

SInv == BInv /\ PlaceInv /\ SeekInv /\ FullInv

-----------------------------------------------------------------------------
(* Numbers, and sets of them                                               *)

LEMMA DivisionFacts ==
  ASSUME NEW a \in Nat, NEW b \in Nat, NEW n \in Nat \ {0}
  PROVE  /\ a \div n \in Nat /\ a % n \in 0 .. n - 1
         /\ a \div n = b \div n /\ a % n = b % n => a = b
         /\ a <= b => a \div n <= b \div n
  <1>1. a \div n \in Nat /\ a % n \in 0 .. n - 1
    OBVIOUS
  <1>2. a = n * (a \div n) + (a % n) /\ b = n * (b \div n) + (b % n)
    OBVIOUS
  <1>3. a \div n = b \div n /\ a % n = b % n => a = b
    BY <1>2
  <1>4. a <= b => a \div n <= b \div n
    OBVIOUS
  <1> QED BY <1>1, <1>3, <1>4

LEMMA BlockSizeOK == BLOCK_SIZE \in Nat \ {0} /\ DirectBlocks \in Nat \ {0}
  BY DiskAssumption, FileSystemAssumption

\* A set of the first numbers.
LEMMA PrefixIs ==
  ASSUME NEW n \in Nat, NEW S \in SUBSET (0 .. n - 1), \A j \in S : \A i \in Nat : i < j => i \in S
  PROVE  /\ Cardinality(S) \in Nat /\ Cardinality(S) <= n
         /\ S = 0 .. Cardinality(S) - 1
  <1>1. PICK T : T = {i \in Nat : i \notin S}
    OBVIOUS
  <1>2. n \in T /\ T \in SUBSET Nat
    BY <1>1
  <1>3. PICK x : x = Min(T)
    OBVIOUS
  <1>4. x \in Nat /\ x \notin S /\ x <= n /\ \A i \in Nat : i \notin S => x <= i
    BY <1>1, <1>2, <1>3, MinIsLeast
  <1>5. S = 0 .. x - 1
    <2>1. \A i \in Nat : i < x => i \in S
      BY <1>4
    <2>2. \A i \in S : i \in Nat /\ i < x
      <3> SUFFICES ASSUME NEW i \in S, ~(i < x) PROVE FALSE
        OBVIOUS
      <3>1. i \in Nat /\ (x < i \/ x = i)
        BY <1>4
      <3> QED BY <1>4, <3>1
    <2>3. \A i : i \in 0 .. x - 1 <=> i \in Nat /\ i < x
      BY <1>4
    <2>4. \A i : i \in S <=> i \in 0 .. x - 1
      BY <2>1, <2>2, <2>3
    <2> QED BY <2>4
  <1>6. Cardinality(S) = x
    BY <1>4, <1>5, FS_Interval
  <1> QED BY <1>4, <1>5, <1>6

-----------------------------------------------------------------------------
(* Descriptors that move, files that change their size                     *)

LEMMA OpenIs ==
  ASSUME SInv, NEW d \in DOMAIN open_file_descriptors
  PROVE  /\ InodeOf(d) \in Inodes /\ directory[InodeOf(d)].is_used
         /\ inode_table[InodeOf(d)].file_type = 1 /\ IsInode(inode_table[InodeOf(d)])
         /\ OffsetOf(d) \in Nat /\ inode_table[InodeOf(d)].file_size \in Nat
         /\ OffsetOf(d) <= inode_table[InodeOf(d)].file_size
         /\ active /\ open_disk_fd = 0
  <1>1. InodeOf(d) \in Inodes
    BY OffsetsAre DEF SInv, IsDescriptor, InodeOf
  <1>2. PICK i \in Inodes : directory[i].is_used /\ directory[i].inode_number = InodeOf(d)
    BY DEF SInv, BInv, IInv, OpenInv
  <1>3. i = InodeOf(d) /\ inode_table[i].file_type = 1
    BY <1>2 DEF SInv, PlaceInv
  <1>4. active /\ open_disk_fd = 0 /\ IsInode(inode_table[InodeOf(d)])
    BY <1>1 DEF SInv, BInv, IInv, OpenInv, TypeOK, IsTable
  <1>5. OffsetOf(d) \in Nat /\ inode_table[InodeOf(d)].file_size \in Nat
    BY <1>1 DEF SInv, BInv, NumbersInv
  <1>6. OffsetOf(d) <= inode_table[InodeOf(d)].file_size
    BY DEF SInv, SeekInv
  <1> QED BY <1>1, <1>2, <1>3, <1>4, <1>5, <1>6

\* What a new offset changes.
LEMMA MovedOffset ==
  ASSUME SInv, NEW d \in DOMAIN open_file_descriptors, NEW o,
         open_file_descriptors' = [open_file_descriptors EXCEPT ![d].offset = o]
  PROVE  /\ DOMAIN open_file_descriptors' = DOMAIN open_file_descriptors
         /\ \A c \in DOMAIN open_file_descriptors :
              InodeOf(c)' = InodeOf(c) /\ OffsetOf(c)' = IF c = d THEN o ELSE OffsetOf(c)
  <1>1. PICK x : x = [open_file_descriptors[d] EXCEPT !.offset = o]
    OBVIOUS
  <1>2. open_file_descriptors' = [open_file_descriptors EXCEPT ![d] = x]
    BY <1>1
  <1>3. x.offset = o /\ x.inode_number = open_file_descriptors[d].inode_number
    <2>1. IsDescriptor(open_file_descriptors[d])
      BY OffsetsAre DEF SInv
    <2> QED BY <1>1, <2>1 DEF IsDescriptor
  <1> QED BY <1>2, <1>3 DEF InodeOf, OffsetOf

LEMMA MovedSeekInv ==
  ASSUME SInv, NEW d \in DOMAIN open_file_descriptors, NEW o,
         open_file_descriptors' = [open_file_descriptors EXCEPT ![d].offset = o],
         o <= inode_table'[InodeOf(d)].file_size,
         \A i \in Inodes : i # InodeOf(d) => inode_table'[i] = inode_table[i]
  PROVE  SeekInv'
  <1>1. /\ DOMAIN open_file_descriptors' = DOMAIN open_file_descriptors
        /\ \A c \in DOMAIN open_file_descriptors :
              InodeOf(c)' = InodeOf(c) /\ OffsetOf(c)' = IF c = d THEN o ELSE OffsetOf(c)
    BY MovedOffset
  <1>2. \A c, e \in DOMAIN open_file_descriptors' : InodeOf(c)' = InodeOf(e)' => c = e
    BY <1>1 DEF SInv, SeekInv
  <1>3. ASSUME NEW c \in DOMAIN open_file_descriptors'
        PROVE  OffsetOf(c)' <= inode_table'[InodeOf(c)'].file_size
    <2>1. CASE c = d
      BY <1>1, <2>1
    <2>2. CASE c # d
      <3>1. InodeOf(c) # InodeOf(d) /\ InodeOf(c) \in Inodes
        BY <1>1, <2>2, OpenIs DEF SInv, SeekInv
      <3> QED BY <1>1, <2>2, <3>1 DEF SInv, SeekInv
    <2> QED BY <2>1, <2>2
  <1> QED BY <1>2, <1>3 DEF SeekInv

LEMMA SameTypes ==
  ASSUME SInv, directory' = directory,
         \A i \in Inodes : inode_table'[i].file_type = inode_table[i].file_type
  PROVE  PlaceInv'
  BY DEF SInv, PlaceInv

LEMMA SameTables ==
  ASSUME SInv, UNCHANGED <<inode_table, directory>>
  PROVE  PlaceInv' /\ FullInv'
  <1>1. Allocated' = Allocated
    BY DEF Allocated
  <1> QED BY <1>1 DEF SInv, PlaceInv, FullInv

LEMMA UnchangedPlain ==
  ASSUME SInv, UNCHANGED memVars
  PROVE  PlaceInv' /\ SeekInv' /\ FullInv'
  <1>1. UNCHANGED <<inode_table, directory, open_file_descriptors>>
    BY DEF memVars
  <1>2. SeekInv'
    BY <1>1 DEF SInv, SeekInv, InodeOf, OffsetOf
  <1> QED BY <1>1, <1>2, SameTables

-----------------------------------------------------------------------------
(* The invariant, call by call                                             *)

Plain == Client = {}

LEMMA MakeFsPlain ==
  ASSUME SInv, MakeFs
  PROVE  PlaceInv' /\ SeekInv' /\ FullInv'
  <1>1. UNCHANGED <<inode_table, directory, open_file_descriptors>>
    BY DEF MakeFs
  <1>2. SeekInv'
    BY <1>1 DEF SInv, SeekInv, InodeOf, OffsetOf
  <1> QED BY <1>1, <1>2, SameTables

LEMMA MountPlain ==
  ASSUME SInv, Mount
  PROVE  PlaceInv' /\ SeekInv' /\ FullInv'
  <1>1. /\ DOMAIN open_file_descriptors' = {} /\ directory' = NoEntries
        /\ \A i \in Inodes : inode_table'[i].file_type = 0
    BY MountedEmpty DEF SInv
  <1> QED BY <1>1, EmptyEntries DEF PlaceInv, SeekInv, FullInv

\* fs_create takes the same number for the inode and for the entry.
LEMMA CreateIs ==
  ASSUME SInv, NEW n, Create(n)
  PROVE  \E ino \in Inodes :
           /\ ~directory[ino].is_used /\ \A j \in Inodes : j < ino => directory[j].is_used
           /\ inode_table'[ino].file_type = 1 /\ inode_table'[ino].file_size = 0
           /\ \A i \in Inodes : i # ino => inode_table'[i] = inode_table[i]
           /\ directory'[ino] = [is_used |-> TRUE, inode_number |-> ino, name |-> n]
           /\ \A i \in Inodes : i # ino => directory'[i] = directory[i]
           /\ last' = Call("create", -1, 0, <<>>)
  <1>1. FreeInodes # {} /\ FreeInodes \in SUBSET Nat /\ FreeInodes \subseteq Inodes
    BY IndexSets DEF Create, MayCreate, FreeInodes
  <1>2. FreeEntries = FreeInodes
    BY DEF SInv, PlaceInv, FreeEntries, FreeInodes
  <1>3. PICK ino : ino = Min(FreeInodes)
    OBVIOUS
  <1>4. ino \in FreeInodes /\ \A j \in FreeInodes : ino <= j
    BY <1>1, <1>3, MinIsLeast
  <1>5. ino \in Inodes /\ ~directory[ino].is_used
    BY <1>2, <1>4 DEF FreeEntries
  <1>6. ASSUME NEW j \in Inodes, j < ino PROVE directory[j].is_used
    <2>1. j \in Nat /\ ino \in Nat
      BY <1>5, IndexSets
    <2>2. j \notin FreeEntries
      BY <1>2, <1>4, <1>6, <2>1
    <2> QED BY <2>2 DEF FreeEntries
  <1>7. PICK x : x = [NoInode EXCEPT !.file_type = 1]
    OBVIOUS
  <1>8. x.file_type = 1 /\ x.file_size = 0
    BY <1>7 DEF NoInode
  <1>9. /\ inode_table' = [inode_table EXCEPT ![ino] = x]
        /\ directory' = [directory EXCEPT ![ino] = [is_used |-> TRUE, inode_number |-> ino, name |-> n]]
        /\ last' = Call("create", -1, 0, <<>>)
    BY <1>1, <1>2, <1>3, <1>7 DEF Create, Returns
  <1>10. DOMAIN inode_table = Inodes /\ DOMAIN directory = Inodes
    BY DEF SInv, BInv, IInv, TypeOK, IsTable
  <1> QED BY <1>5, <1>6, <1>8, <1>9, <1>10

LEMMA CreatePlain ==
  ASSUME SInv, NEW n, Create(n)
  PROVE  PlaceInv' /\ SeekInv' /\ FullInv'
  <1>1. PICK ino \in Inodes :
           /\ ~directory[ino].is_used /\ \A j \in Inodes : j < ino => directory[j].is_used
           /\ inode_table'[ino].file_type = 1 /\ inode_table'[ino].file_size = 0
           /\ \A i \in Inodes : i # ino => inode_table'[i] = inode_table[i]
           /\ directory'[ino] = [is_used |-> TRUE, inode_number |-> ino, name |-> n]
           /\ \A i \in Inodes : i # ino => directory'[i] = directory[i]
           /\ last' = Call("create", -1, 0, <<>>)
    BY CreateIs
  <1>2. UNCHANGED open_file_descriptors
    BY DEF Create
  <1>3. PlaceInv'
    <2>1. directory'[ino].is_used /\ directory'[ino].inode_number = ino
      BY <1>1
    <2>2. \A i \in Inodes : directory[i].is_used => directory'[i].is_used
      BY <1>1, <2>1
    <2>3. \A i \in Inodes : directory'[i].is_used => directory'[i].inode_number = i
      BY <1>1, <2>1 DEF SInv, PlaceInv
    <2>4. \A i \in Inodes : inode_table'[i].file_type = IF directory'[i].is_used THEN 1 ELSE 0
      BY <1>1, <2>1 DEF SInv, PlaceInv
    <2>5. \A i, j \in Inodes : j < i /\ directory'[i].is_used => directory'[j].is_used
      BY <1>1, <2>1, <2>2 DEF SInv, PlaceInv
    <2> QED BY <2>3, <2>4, <2>5 DEF PlaceInv
  <1>4. SeekInv'
    <2>1. \A d \in DOMAIN open_file_descriptors : inode_table'[InodeOf(d)] = inode_table[InodeOf(d)]
      BY <1>1, OpenIs
    <2> QED BY <1>2, <2>1 DEF SInv, SeekInv, InodeOf, OffsetOf
  <1>5. FullInv'
    <2> SUFFICES ASSUME NEW i \in Inodes, NEW p \in 0 .. inode_table'[i].file_size - 1,
                        inode_table'[i].file_type = 1
                 PROVE  <<i, p \div BLOCK_SIZE>> \in Allocated'
      BY DEF FullInv
    <2>1. i # ino
      BY <1>1
    <2>2. <<i, p \div BLOCK_SIZE>> \in Allocated
      BY <1>1, <2>1 DEF SInv, FullInv
    <2> QED BY <1>1, <2>1, <2>2 DEF Allocated
  <1> QED BY <1>3, <1>4, <1>5

\* fs_open gives descriptor f to file n, which has inode i and no other descriptor.
OpenedAs(n, i, f) ==
  /\ i \in Inodes /\ directory[i].is_used /\ directory[i].name = n
  /\ f \in Descriptors \ DOMAIN open_file_descriptors
  /\ \A d \in DOMAIN open_file_descriptors : InodeOf(d) # i
  /\ open_file_descriptors' =
       [d \in DOMAIN open_file_descriptors \cup {f} |->
          IF d = f THEN [inode_number |-> i, offset |-> 0] ELSE open_file_descriptors[d]]
  /\ last' = Call("open", -1, f, <<>>)
  /\ open_disk_fd = 0

LEMMA OpenIsNew ==
  ASSUME SInv, Plain, NEW n, Open(n)
  PROVE  \E i, f : OpenedAs(n, i, f)
  <1>1. Entries(n) # {} /\ Entries(n) \in SUBSET Nat /\ FreeDescriptors # {}
        /\ FreeDescriptors \in SUBSET Nat /\ open_disk_fd # -1
    BY IndexSets DEF Open, MayFsOpen, Mounted, Entries, FreeDescriptors
  <1>2. PICK i, f : i = Min(Entries(n)) /\ f = Min(FreeDescriptors)
    OBVIOUS
  <1>3. i \in Entries(n) /\ f \in FreeDescriptors
    BY <1>1, <1>2, MinInSet
  <1>4. i \in Inodes /\ directory[i].is_used /\ directory[i].name = n
    BY <1>3 DEF Entries
  <1>5. directory[i].inode_number = i
    BY <1>4 DEF SInv, PlaceInv
  <1>6. /\ ~IsOpen(i)
        /\ open_file_descriptors' =
             [d \in DOMAIN open_file_descriptors \cup {f} |->
                IF d = f THEN [inode_number |-> i, offset |-> 0] ELSE open_file_descriptors[d]]
        /\ last' = Call("open", -1, f, <<>>)
    BY <1>2, <1>5 DEF Open, Plain, Returns
  <1>7. open_disk_fd = 0
    BY <1>1 DEF SInv, BInv, IInv, TypeOK
  <1>8. \A d \in DOMAIN open_file_descriptors : InodeOf(d) # i
    BY <1>6 DEF IsOpen, InodeOf
  <1>9. f \in Descriptors \ DOMAIN open_file_descriptors
    BY <1>3 DEF FreeDescriptors
  <1>10. OpenedAs(n, i, f)
    BY <1>4, <1>6, <1>7, <1>8, <1>9 DEF OpenedAs
  <1> QED BY <1>10

LEMMA OpenPlain ==
  ASSUME SInv, Plain, NEW n, Open(n)
  PROVE  PlaceInv' /\ SeekInv' /\ FullInv'
  <1>1. PICK i, f : OpenedAs(n, i, f)
    BY OpenIsNew
  <1>2. UNCHANGED <<inode_table, directory>>
    BY DEF Open
  <1>3. /\ DOMAIN open_file_descriptors' = DOMAIN open_file_descriptors \cup {f}
        /\ InodeOf(f)' = i /\ OffsetOf(f)' = 0
        /\ \A d \in DOMAIN open_file_descriptors : InodeOf(d)' = InodeOf(d) /\ OffsetOf(d)' = OffsetOf(d)
    BY <1>1 DEF OpenedAs, InodeOf, OffsetOf
  <1>4. inode_table[i].file_size \in Nat
    BY <1>1 DEF OpenedAs, SInv, BInv, NumbersInv
  <1>5. SeekInv'
    BY <1>1, <1>2, <1>3, <1>4 DEF OpenedAs, SInv, SeekInv
  <1> QED BY <1>2, <1>5, SameTables

LEMMA ClosePlain ==
  ASSUME SInv, NEW d, Close(d)
  PROVE  PlaceInv' /\ SeekInv' /\ FullInv'
  <1>1. UNCHANGED <<inode_table, directory>>
    BY DEF Close
  <1>2. /\ DOMAIN open_file_descriptors' \subseteq DOMAIN open_file_descriptors
        /\ \A c \in DOMAIN open_file_descriptors' : open_file_descriptors'[c] = open_file_descriptors[c]
    BY DEF Close
  <1>3. SeekInv'
    BY <1>1, <1>2 DEF SInv, SeekInv, InodeOf, OffsetOf
  <1> QED BY <1>1, <1>3, SameTables

LEMMA MinOfTwo ==
  ASSUME NEW a \in Nat, NEW b \in Nat
  PROVE  Min({a, b}) = IF a <= b THEN a ELSE b
  <1>1. PICK S : S = {a, b}
    OBVIOUS
  <1>2. S \in SUBSET Nat /\ S # {}
    BY <1>1
  <1>3. Min(S) \in S /\ \A k \in S : Min(S) <= k
    BY <1>2, MinIsLeast
  <1> QED BY <1>1, <1>3

\* How much fs_read reads when the descriptor is not behind the end.
LEMMA ReadIs ==
  ASSUME SInv, NEW d, NEW n \in Nat, Read(d, n)
  PROVE  /\ d \in DOMAIN open_file_descriptors
         /\ \E m \in Nat :
              /\ m = IF OffsetOf(d) + n > inode_table[InodeOf(d)].file_size
                     THEN inode_table[InodeOf(d)].file_size - OffsetOf(d) ELSE n
              /\ OffsetOf(d) + m <= inode_table[InodeOf(d)].file_size
              /\ open_file_descriptors' = [open_file_descriptors EXCEPT ![d].offset = OffsetOf(d) + m]
              /\ last' = Call("read", d, m, [j \in 1 .. m |-> CellAt(InodeOf(d), OffsetOf(d) + j - 1)])
  <1>1. d \in DOMAIN open_file_descriptors
    BY DEF Read, Valid
  <1>2. PICK size, off : size = inode_table[InodeOf(d)].file_size /\ off = OffsetOf(d)
    OBVIOUS
  <1>3. size \in Nat /\ off \in Nat /\ off <= size
    BY <1>1, <1>2, OpenIs
  <1>4. PICK m : m = BytesToRead(size, off, n)
    OBVIOUS
  <1>5. m = IF off + n > size THEN size - off ELSE n
    <2>1. size - off \in Nat /\ ~(off > size)
      BY <1>3
    <2>2. m = Min({n, size - off})
      BY <1>4, <2>1 DEF BytesToRead
    <2> QED BY <1>3, <2>1, <2>2, MinOfTwo
  <1>6. m \in Nat /\ off + m <= size
    BY <1>3, <1>5
  <1>7. /\ open_file_descriptors' = [open_file_descriptors EXCEPT ![d].offset = @ + m]
        /\ last' = Call("read", d, m, [j \in 1 .. m |-> CellAt(InodeOf(d), OffsetOf(d) + j - 1)])
    BY <1>2, <1>4, Zenon DEF Read
  <1>8. open_file_descriptors' = [open_file_descriptors EXCEPT ![d].offset = OffsetOf(d) + m]
    BY <1>7 DEF OffsetOf
  <1> QED BY <1>1, <1>2, <1>5, <1>6, <1>7, <1>8

LEMMA ReadPlain ==
  ASSUME SInv, NEW d, NEW n \in Nat, Read(d, n)
  PROVE  PlaceInv' /\ SeekInv' /\ FullInv'
  <1>1. d \in DOMAIN open_file_descriptors /\ UNCHANGED <<inode_table, directory>>
    BY DEF Read, Valid
  <1>2. PICK m \in Nat :
          /\ OffsetOf(d) + m <= inode_table[InodeOf(d)].file_size
          /\ open_file_descriptors' = [open_file_descriptors EXCEPT ![d].offset = OffsetOf(d) + m]
    BY ReadIs
  <1>3. SeekInv'
    BY <1>1, <1>2, MovedSeekInv
  <1> QED BY <1>1, <1>3, SameTables

LEMMA LseekPlain ==
  ASSUME SInv, NEW d, NEW p, Lseek(d, p)
  PROVE  PlaceInv' /\ SeekInv' /\ FullInv'
  <1>1. /\ d \in DOMAIN open_file_descriptors /\ UNCHANGED <<inode_table, directory>>
        /\ p <= inode_table[InodeOf(d)].file_size
        /\ open_file_descriptors' = [open_file_descriptors EXCEPT ![d].offset = p]
    BY DEF Lseek, Valid
  <1>2. SeekInv'
    BY <1>1, MovedSeekInv
  <1> QED BY <1>1, <1>2, SameTables

LEMMA TruncateIs ==
  ASSUME SInv, NEW d, NEW p, Truncate(d, p)
  PROVE  /\ d \in DOMAIN open_file_descriptors /\ p <= inode_table[InodeOf(d)].file_size
         /\ open_file_descriptors' = [open_file_descriptors EXCEPT ![d].offset = p]
         /\ UNCHANGED <<diskVars, open_disk_fd, directory>>
         /\ inode_table'[InodeOf(d)].file_size = p
         /\ \A i \in Inodes : /\ inode_table'[i].file_type = inode_table[i].file_type
                              /\ inode_table'[i].direct_offset = inode_table[i].direct_offset
                              /\ i # InodeOf(d) => inode_table'[i] = inode_table[i]
  <1>1. /\ d \in DOMAIN open_file_descriptors /\ p <= inode_table[InodeOf(d)].file_size
        /\ inode_table' = [inode_table EXCEPT ![InodeOf(d)].file_size = p]
        /\ open_file_descriptors' = [open_file_descriptors EXCEPT ![d].offset = p]
        /\ UNCHANGED <<diskVars, open_disk_fd, directory>>
    BY DEF Truncate, TruncatedOffset, Valid
  <1>2. PICK x : x = [inode_table[InodeOf(d)] EXCEPT !.file_size = p]
    OBVIOUS
  <1>3. inode_table' = [inode_table EXCEPT ![InodeOf(d)] = x]
    BY <1>1, <1>2
  <1>4. /\ InodeOf(d) \in Inodes /\ inode_table'[InodeOf(d)] = x
        /\ \A i \in Inodes : i # InodeOf(d) => inode_table'[i] = inode_table[i]
    BY <1>1, <1>3, InodeChange DEF SInv
  <1>5. /\ x.file_type = inode_table[InodeOf(d)].file_type /\ x.file_size = p
        /\ x.direct_offset = inode_table[InodeOf(d)].direct_offset
    BY <1>1, <1>2, OpenIs DEF IsInode
  <1> QED BY <1>1, <1>4, <1>5

LEMMA TruncatePlain ==
  ASSUME SInv, NEW d, NEW p \in Nat, Truncate(d, p)
  PROVE  PlaceInv' /\ SeekInv' /\ FullInv'
  <1>1. PlaceInv'
    BY TruncateIs, SameTypes
  <1>2. SeekInv'
    BY TruncateIs, MovedSeekInv
  <1>3. Allocated' = Allocated
    BY TruncateIs DEF Allocated
  <1>4. \A i \in Inodes : inode_table[i].file_size \in Nat
    BY DEF SInv, BInv, NumbersInv
  <1>5. \A i \in Inodes : \A q \in 0 .. inode_table'[i].file_size - 1 : q \in 0 .. inode_table[i].file_size - 1
    <2> SUFFICES ASSUME NEW i \in Inodes, NEW q \in 0 .. inode_table'[i].file_size - 1
                 PROVE  q \in 0 .. inode_table[i].file_size - 1
      OBVIOUS
    <2>1. CASE i = InodeOf(d)
      BY <1>4, <2>1, TruncateIs
    <2>2. CASE i # InodeOf(d)
      BY <2>2, TruncateIs
    <2> QED BY <2>1, <2>2
  <1>6. FullInv'
    BY <1>3, <1>5, TruncateIs DEF SInv, FullInv
  <1> QED BY <1>1, <1>2, <1>6

-----------------------------------------------------------------------------
(* fs_write                                                                *)

LEMMA RankMonotone ==
  ASSUME NEW S \in SUBSET Nat, IsFiniteSet(S), NEW a \in Nat, NEW b \in Nat, a <= b
  PROVE  /\ Cardinality(UpTo(S, a)) \in Nat /\ Cardinality(UpTo(S, b)) \in Nat
         /\ Cardinality(UpTo(S, a)) <= Cardinality(UpTo(S, b))
  <1>1. UpTo(S, b) \in SUBSET S
    BY DEF UpTo
  <1>2. UpTo(S, a) \in SUBSET UpTo(S, b)
    <2>1. \A c \in S : c <= a => c <= b
      OBVIOUS
    <2> QED BY <2>1 DEF UpTo
  <1>3. IsFiniteSet(UpTo(S, b))
    BY <1>1, FS_Subset
  <1>4. IsFiniteSet(UpTo(S, a)) /\ Cardinality(UpTo(S, a)) <= Cardinality(UpTo(S, b))
    BY <1>2, <1>3, FS_Subset
  <1> QED BY <1>3, <1>4, FS_CardinalityType

LEMMA IndexesAre ==
  ASSUME SInv, NEW d \in DOMAIN open_file_descriptors, NEW n \in Nat
  PROVE  /\ OffsetOf(d) \in Nat
         /\ \A i, j \in 0 .. n - 1 : i <= j => IndexOf(d, i) <= IndexOf(d, j)
         /\ \A j \in 0 .. n - 1 : IndexOf(d, j) \in Nat /\ IndexOf(d, j) \in IndexesOf(d, n)
         /\ Missing(d, n) \in SUBSET Nat /\ IsFiniteSet(Missing(d, n))
         /\ Rounds(d, n) \subseteq 0 .. DirectBlocks - 1
  <1>1. OffsetOf(d) \in Nat
    BY OpenIs
  <1>2. ASSUME NEW j \in 0 .. n - 1 PROVE IndexOf(d, j) \in Nat /\ IndexOf(d, j) \in IndexesOf(d, n)
    <2>1. OffsetOf(d) + j \in Nat
      BY <1>1
    <2>2. IndexOf(d, j) \in Nat
      BY <2>1, BlockSizeOK, DivisionFacts DEF IndexOf
    <2> QED BY <2>2 DEF IndexesOf
  <1>3. ASSUME NEW i \in 0 .. n - 1, NEW j \in 0 .. n - 1, i <= j PROVE IndexOf(d, i) <= IndexOf(d, j)
    <2>1. OffsetOf(d) + i \in Nat /\ OffsetOf(d) + j \in Nat /\ OffsetOf(d) + i <= OffsetOf(d) + j
      BY <1>1, <1>3
    <2> QED BY <2>1, BlockSizeOK, DivisionFacts DEF IndexOf
  <1>4. IndexesOf(d, n) \subseteq Nat
    BY <1>2 DEF IndexesOf
  <1>5. Missing(d, n) \in SUBSET (0 .. DirectBlocks - 1) /\ Rounds(d, n) \subseteq 0 .. DirectBlocks - 1
    BY <1>4, BlockSizeOK DEF Missing, Rounds
  <1>6. IsFiniteSet(0 .. DirectBlocks - 1)
    BY BlockSizeOK, FS_Interval
  <1>7. IsFiniteSet(Missing(d, n)) /\ Missing(d, n) \in SUBSET Nat
    <2>1. IsFiniteSet(Missing(d, n))
      BY <1>5, <1>6, FS_Subset
    <2> QED BY <1>5, <2>1
  <1> QED BY <1>1, <1>2, <1>3, <1>5, <1>7

\* The cells that a write stores are the first ones: when the disk or the file is full
\* nothing behind that is written.
LEMMA StoredPrefix ==
  ASSUME SInv, NEW d \in DOMAIN open_file_descriptors, NEW n \in Nat
  PROVE  /\ Cardinality(StoredCells(d, n)) \in 0 .. n
         /\ StoredCells(d, n) = 0 .. Cardinality(StoredCells(d, n)) - 1
  <1>1. StoredCells(d, n) \in SUBSET (0 .. n - 1)
    BY DEF StoredCells
  <1>2. ASSUME NEW j \in StoredCells(d, n), NEW i \in Nat, i < j PROVE i \in StoredCells(d, n)
    <2>1. j \in 0 .. n - 1 /\ i \in 0 .. n - 1 /\ i <= j /\ IndexOf(d, j) \in Rounds(d, n)
      BY <1>1, <1>2 DEF StoredCells
    <2>2. PICK a, b : a = IndexOf(d, i) /\ b = IndexOf(d, j)
      OBVIOUS
    <2>3. a \in Nat /\ b \in Nat /\ a <= b /\ a \in IndexesOf(d, n)
      BY <2>1, <2>2, IndexesAre
    <2>4. /\ b < DirectBlocks
          /\ Cardinality(UpTo(Missing(d, n), b)) <= Cardinality(DataBlocks \ used_block_bitmap)
      BY <2>1, <2>2 DEF Rounds
    <2>5. /\ Cardinality(UpTo(Missing(d, n), a)) <= Cardinality(UpTo(Missing(d, n), b))
          /\ Cardinality(UpTo(Missing(d, n), a)) \in Nat /\ Cardinality(UpTo(Missing(d, n), b)) \in Nat
      BY <2>3, IndexesAre, RankMonotone
    <2>6. Cardinality(DataBlocks \ used_block_bitmap) \in Nat
      BY NthFreeFacts, FS_CardinalityType
    <2>7. a \in Rounds(d, n)
      BY <2>3, <2>4, <2>5, <2>6, BlockSizeOK DEF Rounds
    <2> QED BY <2>1, <2>2, <2>7 DEF StoredCells
  <1>3. PICK S : S = StoredCells(d, n)
    OBVIOUS
  <1>4. Cardinality(S) \in Nat /\ Cardinality(S) <= n /\ S = 0 .. Cardinality(S) - 1
    BY <1>1, <1>2, <1>3, PrefixIs
  <1> QED BY <1>3, <1>4

LEMMA NewSizeIs ==
  ASSUME SInv, NEW d \in DOMAIN open_file_descriptors, NEW n \in Nat
  PROVE  NewSize(d, n) = IF OffsetOf(d) + Cardinality(StoredCells(d, n)) > inode_table[InodeOf(d)].file_size
                         THEN OffsetOf(d) + Cardinality(StoredCells(d, n))
                         ELSE inode_table[InodeOf(d)].file_size
  <1>1. PICK off, size, m : /\ off = OffsetOf(d) /\ size = inode_table[InodeOf(d)].file_size
                            /\ m = Cardinality(StoredCells(d, n))
    OBVIOUS
  <1>2. off \in Nat /\ size \in Nat /\ off <= size /\ m \in Nat /\ StoredCells(d, n) = 0 .. m - 1
    <2>1. m \in 0 .. n /\ StoredCells(d, n) = 0 .. m - 1
      BY <1>1, StoredPrefix
    <2> QED BY <1>1, <2>1, OpenIs
  <1>3. CASE StoredCells(d, n) = {}
    <2>1. m = 0
      BY <1>2, <1>3
    <2> QED BY <1>1, <1>2, <1>3, <2>1 DEF NewSize
  <1>4. CASE StoredCells(d, n) # {}
    <2>1. NewSize(d, n) = Max({size, off + m})
      BY <1>1, <1>4 DEF NewSize, NewOffset
    <2>2. PICK S : S = {size, off + m}
      OBVIOUS
    <2>3. \E y \in S : \A z \in S : y >= z
      BY <1>2, <2>2
    <2>4. Max(S) \in S /\ \A z \in S : Max(S) >= z
      BY <2>3, Zenon DEF Max
    <2>5. Max(S) = IF off + m > size THEN off + m ELSE size
      BY <1>2, <2>2, <2>4
    <2> QED BY <1>1, <2>1, <2>2, <2>5
  <1> QED BY <1>3, <1>4

LEMMA WriteShape ==
  ASSUME SInv, NEW d, NEW n \in Nat, NEW v, Write(d, n, v)
  PROVE  /\ d \in DOMAIN open_file_descriptors /\ InodeOf(d) \in Inodes
         /\ open_file_descriptors' = [open_file_descriptors EXCEPT ![d].offset = NewOffset(d, n)]
         /\ UNCHANGED <<exists, active, open_disk_fd, directory>>
         /\ last' = Call("write", d, IF Cardinality(StoredCells(d, n)) = n THEN n ELSE -1, <<>>)
         /\ inode_table'[InodeOf(d)].file_type = 1
         /\ inode_table'[InodeOf(d)].file_size = NewSize(d, n)
         /\ inode_table'[InodeOf(d)].direct_offset = Direct(d, n)
         /\ \A i \in Inodes : i # InodeOf(d) => inode_table'[i] = inode_table[i]
  <1>1. d \in DOMAIN open_file_descriptors
    BY DEF Write, Valid
  <1>2. /\ UNCHANGED <<exists, active, open_disk_fd, directory>>
        /\ last' = Call("write", d, IF Cardinality(StoredCells(d, n)) = n THEN n ELSE -1, <<>>)
    BY Zenon DEF Write, ReturnsOn, IndexOf, IndexesOf, Missing, Rounds, StoredCells, UpTo
  <1>3. PICK dir, size, o, ino :
          dir = Direct(d, n) /\ size = NewSize(d, n) /\ o = NewOffset(d, n) /\ ino = InodeOf(d)
    OBVIOUS
  <1>4. /\ inode_table' = [inode_table EXCEPT ![ino].direct_offset = dir, ![ino].file_size = size]
        /\ open_file_descriptors' = [open_file_descriptors EXCEPT ![d].offset = o]
    BY <1>3, WriteFacts
  <1>5. PICK x : x = [inode_table[ino] EXCEPT !.direct_offset = dir, !.file_size = size]
    OBVIOUS
  <1>6. /\ DOMAIN inode_table = Inodes /\ ino \in Inodes /\ IsInode(inode_table[ino])
        /\ inode_table[ino].file_type = 1
    BY <1>1, <1>3, OpenIs DEF SInv, BInv, IInv, TypeOK, IsTable
  <1>7. inode_table' = [inode_table EXCEPT ![ino] = x]
    BY <1>4, <1>5, <1>6
  <1>8. x.file_type = 1 /\ x.file_size = size /\ x.direct_offset = dir
    BY <1>5, <1>6 DEF IsInode
  <1>9. inode_table'[ino] = x /\ \A i \in Inodes : i # ino => inode_table'[i] = inode_table[i]
    BY <1>6, <1>7
  <1> QED BY <1>1, <1>2, <1>3, <1>4, <1>6, <1>8, <1>9

\* A block that a file has stays, and every round has a block.
LEMMA DirectIs ==
  ASSUME SInv, NEW d \in DOMAIN open_file_descriptors, NEW n \in Nat
  PROVE  /\ \A k \in 0 .. DirectBlocks - 1 :
              inode_table[InodeOf(d)].direct_offset[k] # 0 =>
                Direct(d, n)[k] = inode_table[InodeOf(d)].direct_offset[k]
         /\ \A k \in Rounds(d, n) : k \in 0 .. DirectBlocks - 1 /\ Direct(d, n)[k] # 0
  <1>1. /\ New(d, n) \subseteq 0 .. DirectBlocks - 1
        /\ \A k \in New(d, n) : NewBlock(d, n, k) \in DataBlocks \ used_block_bitmap
        /\ \A k \in New(d, n) : inode_table[InodeOf(d)].direct_offset[k] = 0
    BY NewBlocks DEF SInv
  <1>2. \A k \in 0 .. DirectBlocks - 1 :
          Direct(d, n)[k] = IF k \in New(d, n) THEN NewBlock(d, n, k)
                                               ELSE inode_table[InodeOf(d)].direct_offset[k]
    BY DEF Direct
  <1>3. 0 \notin DataBlocks
    BY NumbersOK DEF DataBlocks, BitmapBlock
  <1>4. ASSUME NEW k \in Rounds(d, n) PROVE k \in 0 .. DirectBlocks - 1 /\ Direct(d, n)[k] # 0
    <2>1. k \in 0 .. DirectBlocks - 1
      BY IndexesAre
    <2>2. CASE k \in New(d, n)
      BY <1>1, <1>2, <1>3, <2>1, <2>2
    <2>3. CASE k \notin New(d, n)
      <3>1. k \notin Missing(d, n)
        BY <2>3 DEF New
      <3>2. inode_table[InodeOf(d)].direct_offset[k] # 0
        BY <3>1 DEF Missing, Rounds
      <3> QED BY <1>2, <2>1, <2>3, <3>2
    <2> QED BY <2>1, <2>2, <2>3
  <1> QED BY <1>1, <1>2, <1>4

LEMMA AllocatedAfterWrite ==
  ASSUME SInv, NEW d, NEW n \in Nat, NEW v, Write(d, n, v)
  PROVE  /\ \A i \in Inodes, k \in 0 .. DirectBlocks - 1 : <<i, k>> \in Allocated =>
              /\ <<i, k>> \in Allocated'
              /\ inode_table'[i].direct_offset[k] = inode_table[i].direct_offset[k]
         /\ \A k \in Rounds(d, n) : <<InodeOf(d), k>> \in Allocated'
  <1>1. ASSUME NEW i \in Inodes, NEW k \in 0 .. DirectBlocks - 1, <<i, k>> \in Allocated
        PROVE  /\ <<i, k>> \in Allocated'
               /\ inode_table'[i].direct_offset[k] = inode_table[i].direct_offset[k]
    <2>1. inode_table[i].file_type = 1 /\ inode_table[i].direct_offset[k] # 0
      BY <1>1 DEF Allocated
    <2>2. CASE i = InodeOf(d)
      <3>1. Direct(d, n)[k] = inode_table[i].direct_offset[k]
        BY <2>1, <2>2, WriteShape, DirectIs
      <3> QED BY <2>1, <2>2, <3>1, WriteShape DEF Allocated
    <2>3. CASE i # InodeOf(d)
      BY <2>1, <2>3, WriteShape DEF Allocated
    <2> QED BY <2>2, <2>3
  <1>2. ASSUME NEW k \in Rounds(d, n) PROVE <<InodeOf(d), k>> \in Allocated'
    <2>1. k \in 0 .. DirectBlocks - 1 /\ Direct(d, n)[k] # 0
      BY WriteShape, DirectIs
    <2> QED BY <2>1, WriteShape DEF Allocated
  <1> QED BY <1>1, <1>2

\* The cells that are written are in rounds; the others of the file were in it before.
LEMMA WrittenCells ==
  ASSUME SInv, NEW d, NEW n \in Nat, NEW v, Write(d, n, v), NEW m, m = Cardinality(StoredCells(d, n)),
         NEW p \in 0 .. inode_table'[InodeOf(d)].file_size - 1
  PROVE  /\ p \in OffsetOf(d) .. OffsetOf(d) + m - 1 =>
              p - OffsetOf(d) \in StoredCells(d, n) /\ p \div BLOCK_SIZE \in Rounds(d, n)
         /\ p \notin OffsetOf(d) .. OffsetOf(d) + m - 1 => p \in 0 .. inode_table[InodeOf(d)].file_size - 1
  <1>1. d \in DOMAIN open_file_descriptors /\ inode_table'[InodeOf(d)].file_size = NewSize(d, n)
    BY WriteShape
  <1>2. PICK off, size : off = OffsetOf(d) /\ size = inode_table[InodeOf(d)].file_size
    OBVIOUS
  <1>3. off \in Nat /\ size \in Nat /\ off <= size
    BY <1>1, <1>2, OpenIs
  <1>4. m \in 0 .. n /\ StoredCells(d, n) = 0 .. m - 1
    BY <1>1, StoredPrefix
  <1>5. p \in 0 .. (IF off + m > size THEN off + m ELSE size) - 1
    BY <1>1, <1>2, NewSizeIs
  <1>6. ASSUME p \in off .. off + m - 1 PROVE p - off \in StoredCells(d, n) /\ p \div BLOCK_SIZE \in Rounds(d, n)
    <2>1. p - off \in StoredCells(d, n) /\ off + (p - off) = p
      <3>1. m \in Nat /\ p \in Nat /\ off <= p /\ p <= off + m - 1
        BY <1>3, <1>4, <1>6
      <3>2. p - off \in 0 .. m - 1 /\ off + (p - off) = p
        BY <1>3, <3>1
      <3> QED BY <1>4, <3>2
    <2>2. IndexOf(d, p - off) \in Rounds(d, n)
      BY <2>1 DEF StoredCells
    <2> QED BY <1>2, <2>1, <2>2 DEF IndexOf
  <1>7. ASSUME p \notin off .. off + m - 1 PROVE p \in 0 .. size - 1
    BY <1>3, <1>4, <1>5, <1>7
  <1> QED BY <1>2, <1>6, <1>7

LEMMA WritePlain ==
  ASSUME SInv, NEW d, NEW n \in Nat, NEW v, Write(d, n, v)
  PROVE  PlaceInv' /\ SeekInv' /\ FullInv'
  <1>1. d \in DOMAIN open_file_descriptors /\ InodeOf(d) \in Inodes
    BY WriteShape
  <1>2. PlaceInv'
    <2>1. \A i \in Inodes : inode_table'[i].file_type = inode_table[i].file_type
      BY <1>1, WriteShape, OpenIs
    <2> QED BY <2>1, WriteShape, SameTypes
  <1>3. SeekInv'
    <2>1. PICK o : o = NewOffset(d, n)
      OBVIOUS
    <2>2. o = OffsetOf(d) + Cardinality(StoredCells(d, n))
      BY <2>1 DEF NewOffset
    <2>3. OffsetOf(d) \in Nat /\ Cardinality(StoredCells(d, n)) \in 0 .. n
      BY <1>1, OpenIs, StoredPrefix
    <2>4. inode_table[InodeOf(d)].file_size \in Nat
      BY <1>1, OpenIs
    <2>5. o <= NewSize(d, n)
      BY <1>1, <2>2, <2>3, <2>4, NewSizeIs
    <2> QED BY <1>1, <2>1, <2>5, WriteShape, MovedSeekInv
  <1>4. FullInv'
    <2> SUFFICES ASSUME NEW i \in Inodes, NEW p \in 0 .. inode_table'[i].file_size - 1,
                        inode_table'[i].file_type = 1
                 PROVE  <<i, p \div BLOCK_SIZE>> \in Allocated'
      BY DEF FullInv
    <2>1. inode_table[i].file_type = 1
      BY <1>1, WriteShape, OpenIs
    <2>2. ASSUME p \in 0 .. inode_table[i].file_size - 1 PROVE <<i, p \div BLOCK_SIZE>> \in Allocated'
      <3>1. <<i, p \div BLOCK_SIZE>> \in Allocated
        BY <2>1, <2>2 DEF SInv, FullInv
      <3>2. p \div BLOCK_SIZE \in 0 .. DirectBlocks - 1
        BY <3>1 DEF Allocated
      <3> QED BY <3>1, <3>2, AllocatedAfterWrite
    <2>3. CASE i # InodeOf(d)
      BY <2>2, <2>3, WriteShape
    <2>4. CASE i = InodeOf(d)
      BY <2>2, <2>4, WrittenCells, AllocatedAfterWrite
    <2> QED BY <2>3, <2>4
  <1> QED BY <1>2, <1>3, <1>4

-----------------------------------------------------------------------------

LEMMA InitSInv == Init => SInv
  <1> SUFFICES ASSUME Init PROVE SInv
    OBVIOUS
  <1>1. inode_table = NoInodes /\ directory = NoEntries /\ DOMAIN open_file_descriptors = {}
    BY DEF Init, NoDescriptors
  <1>2. \A i \in Inodes : inode_table[i].file_type = 0
    BY <1>1 DEF NoInodes, NoInode
  <1> QED BY <1>1, <1>2, EmptyEntries, InitBInv DEF SInv, PlaceInv, SeekInv, FullInv

LEMMA SInvNext ==
  ASSUME Plain, DISK_BLOCKS < 2 ^ CountWidth
  PROVE  SInv /\ [Next]_vars => SInv'
  <1> SUFFICES ASSUME SInv, [Next]_vars PROVE PlaceInv' /\ SeekInv' /\ FullInv'
    BY BInvNext DEF SInv, Plain, MountsOnce
  <1>1. CASE MakeFs \/ MakeFsMounted \/ Mount \/ Umount \/ Restart
    BY <1>1, MakeFsPlain, MountPlain DEF MakeFsMounted, Umount, Restart, Plain
  <1>2. CASE MountRefused \/ CreateRefused \/ DeleteRefused \/ OpenRefused \/ Listfiles
             \/ Stopped \/ UNCHANGED vars
    BY <1>2, UnchangedPlain DEF MountRefused, CreateRefused, DeleteRefused, OpenRefused, Listfiles,
       Stopped, vars
  <1>3. ASSUME NEW n \in Names, Create(n) \/ Delete(n) \/ Open(n)
        PROVE  PlaceInv' /\ SeekInv' /\ FullInv'
    BY <1>3, CreatePlain, OpenPlain DEF Delete, Plain
  <1>4. ASSUME NEW d \in Descriptors, Close(d) \/ GetFilesize(d) \/ Refused(d)
        PROVE  PlaceInv' /\ SeekInv' /\ FullInv'
    BY <1>4, ClosePlain, UnchangedPlain DEF GetFilesize, Refused
  <1>5. Lengths \subseteq Nat /\ Positions \subseteq Nat
    BY FileSystemAssumption
  <1>6. ASSUME NEW d \in Descriptors, NEW n \in Lengths, Read(d, n) \/ \E v \in Values : Write(d, n, v)
        PROVE  PlaceInv' /\ SeekInv' /\ FullInv'
    BY <1>5, <1>6, ReadPlain, WritePlain
  <1>7. ASSUME NEW d \in Descriptors, NEW p \in Positions, Lseek(d, p) \/ Truncate(d, p)
        PROVE  PlaceInv' /\ SeekInv' /\ FullInv'
    BY <1>5, <1>7, LseekPlain, TruncatePlain
  <1> QED BY <1>1, <1>2, <1>3, <1>4, <1>6, <1>7 DEF Next

-----------------------------------------------------------------------------
(* Contents                                                                *)

LEMMA DataBlocksAre ==
  ASSUME SInv, NEW i \in Inodes, NEW k, <<i, k>> \in Allocated
  PROVE  /\ k \in 0 .. DirectBlocks - 1
         /\ inode_table[i].direct_offset[k] \in used_block_bitmap
         /\ inode_table[i].direct_offset[k] \in Blocks
  <1>1. k \in 0 .. DirectBlocks - 1
    BY DEF Allocated
  <1>2. BlockOf(<<i, k>>) = inode_table[i].direct_offset[k]
    BY DEF BlockOf
  <1>3. BlockOf(<<i, k>>) \in used_block_bitmap /\ used_block_bitmap \subseteq DataBlocks
    BY DEF SInv, BInv, OwnedInv
  <1>4. DataBlocks \subseteq Blocks
    BY NumbersOK DEF DataBlocks, BitmapBlock, Blocks
  <1> QED BY <1>1, <1>2, <1>3, <1>4

LEMMA DataBlocksAreNext ==
  ASSUME SInv', NEW i \in Inodes, NEW k, <<i, k>> \in Allocated'
  PROVE  inode_table'[i].direct_offset[k] \in Blocks /\ k \in 0 .. DirectBlocks - 1
  <1>1. k \in 0 .. DirectBlocks - 1
    BY DEF Allocated
  <1>2. BlockOf(<<i, k>>)' = inode_table'[i].direct_offset[k]
    BY DEF BlockOf
  <1>3. BlockOf(<<i, k>>)' \in used_block_bitmap' /\ used_block_bitmap' \subseteq DataBlocks
    BY DEF SInv, BInv, OwnedInv
  <1>4. DataBlocks \subseteq Blocks
    BY NumbersOK DEF DataBlocks, BitmapBlock, Blocks
  <1> QED BY <1>1, <1>2, <1>3, <1>4

LEMMA OwnersNext ==
  ASSUME SInv', NEW i \in Inodes, NEW j \in Inodes, NEW k, NEW l,
         <<i, k>> \in Allocated', <<j, l>> \in Allocated',
         inode_table'[i].direct_offset[k] = inode_table'[j].direct_offset[l]
  PROVE  i = j /\ k = l
  <1>1. BlockOf(<<i, k>>)' = inode_table'[i].direct_offset[k] /\ BlockOf(<<j, l>>)' = inode_table'[j].direct_offset[l]
    BY DEF BlockOf
  <1>2. <<i, k>> = <<j, l>>
    BY <1>1 DEF SInv, BInv, OwnedInv
  <1> QED BY <1>2

\* Cell c of block b after a write.
HitBy(d, n, b, c) == \E j \in StoredCells(d, n) : /\ Direct(d, n)[IndexOf(d, j)] = b
                                                  /\ (OffsetOf(d) + j) % BLOCK_SIZE = c

LEMMA WriteBlocks ==
  ASSUME NEW d, NEW n, NEW v, Write(d, n, v), NEW b \in Blocks
  PROVE  /\ b \notin {Direct(d, n)[k] : k \in Rounds(d, n)} => CellsIn(b)' = CellsIn(b)
         /\ b \in {Direct(d, n)[k] : k \in Rounds(d, n)} =>
              \A c \in Cells : CellsIn(b)'[c] = IF HitBy(d, n, b, c) THEN v ELSE CellsIn(b)[c]
  <1>1. PICK W : W = {Direct(d, n)[k] : k \in Rounds(d, n)}
    OBVIOUS
  <1>2. PICK f : f = [a \in W |-> FileBytes([c \in Cells |-> IF HitBy(d, n, a, c) THEN v ELSE CellsIn(a)[c]])]
    OBVIOUS
  <1>3. blocks' = Stored(blocks, f)
    BY <1>1, <1>2, Zenon DEF Write, HitBy, IndexOf, IndexesOf, Missing, Rounds, New, NewBlock, Direct,
       StoredCells, UpTo
  <1>4. b \notin W => blocks'[b] = blocks[b]
    BY <1>2, <1>3 DEF Stored
  <1>5. b \in W => blocks'[b] = FileBytes([c \in Cells |-> IF HitBy(d, n, b, c) THEN v ELSE CellsIn(b)[c]])
    BY <1>2, <1>3 DEF Stored
  <1>6. b \in W => CellsIn(b)' = [c \in Cells |-> IF HitBy(d, n, b, c) THEN v ELSE CellsIn(b)[c]]
    BY <1>5 DEF CellsIn, FileBytes
  <1>7. b \notin W => CellsIn(b)' = CellsIn(b)
    BY <1>4 DEF CellsIn
  <1> QED BY <1>1, <1>6, <1>7

LEMMA CellAtNext ==
  ASSUME NEW i, NEW p, NEW b, b = inode_table'[i].direct_offset[p \div BLOCK_SIZE]
  PROVE  CellAt(i, p)' = CellsIn(b)'[p % BLOCK_SIZE]
  BY DEF CellAt, CellsIn

\* A write leaves the cells of other files alone.
LEMMA OtherFileKept ==
  ASSUME SInv, SInv', NEW d, NEW n \in Nat, NEW v, Write(d, n, v),
         NEW i \in Inodes, i # InodeOf(d), inode_table[i].file_type = 1,
         NEW p \in 0 .. inode_table[i].file_size - 1
  PROVE  CellAt(i, p)' = CellAt(i, p)
  <1>1. PICK k : k = p \div BLOCK_SIZE
    OBVIOUS
  <1>2. <<i, k>> \in Allocated
    BY <1>1 DEF SInv, FullInv
  <1>3. PICK b : b = inode_table[i].direct_offset[k]
    OBVIOUS
  <1>4. b \in Blocks /\ k \in 0 .. DirectBlocks - 1 /\ b = inode_table'[i].direct_offset[k]
    BY <1>2, <1>3, DataBlocksAre, WriteShape
  <1>5. <<i, k>> \in Allocated'
    BY <1>2, <1>4, AllocatedAfterWrite
  <1>6. ASSUME NEW r \in Rounds(d, n), Direct(d, n)[r] = b PROVE FALSE
    <2>1. <<InodeOf(d), r>> \in Allocated' /\ InodeOf(d) \in Inodes
      BY AllocatedAfterWrite, WriteShape
    <2>2. inode_table'[InodeOf(d)].direct_offset[r] = inode_table'[i].direct_offset[k]
      BY <1>4, <1>6, WriteShape
    <2> QED BY <1>5, <2>1, <2>2, OwnersNext
  <1>7. CellsIn(b)' = CellsIn(b)
    BY <1>4, <1>6, WriteBlocks
  <1>8. CellAt(i, p)' = CellsIn(b)'[p % BLOCK_SIZE]
    BY <1>1, <1>4, CellAtNext
  <1>9. CellAt(i, p) = CellsIn(b)[p % BLOCK_SIZE]
    BY <1>1, <1>3 DEF CellAt
  <1> QED BY <1>7, <1>8, <1>9

\* It stores its value in the cells from the offset on and leaves the others alone.
LEMMA OwnFileWritten ==
  ASSUME SInv, SInv', NEW d, NEW n \in Nat, NEW v, Write(d, n, v),
         NEW m, m = Cardinality(StoredCells(d, n)), NEW ino, ino = InodeOf(d),
         NEW p \in 0 .. inode_table'[ino].file_size - 1
  PROVE  CellAt(ino, p)' = IF p \in OffsetOf(d) .. OffsetOf(d) + m - 1 THEN v ELSE CellAt(ino, p)
  <1>1. PICK off, k, c : ino = InodeOf(d) /\ off = OffsetOf(d) /\ k = p \div BLOCK_SIZE /\ c = p % BLOCK_SIZE
    OBVIOUS
  <1>2. d \in DOMAIN open_file_descriptors /\ ino \in Inodes /\ inode_table'[ino].direct_offset = Direct(d, n)
    BY <1>1, WriteShape
  <1>3. off \in Nat /\ p \in Nat /\ BLOCK_SIZE \in Nat \ {0} /\ c \in Cells
    BY <1>1, <1>2, OpenIs, BlockSizeOK, DivisionFacts DEF Cells
  <1>4. m \in Nat /\ StoredCells(d, n) = 0 .. m - 1
    BY <1>2, StoredPrefix
  <1>5. PICK b : b = Direct(d, n)[k]
    OBVIOUS
  <1>6. CellAt(ino, p)' = CellsIn(b)'[c]
    BY <1>1, <1>2, <1>5, CellAtNext
  <1>7. PICK W : W = {Direct(d, n)[r] : r \in Rounds(d, n)}
    OBVIOUS
  <1>8. ASSUME p \in off .. off + m - 1 PROVE CellAt(ino, p)' = v
    <2>1. PICK j : j = p - off
      OBVIOUS
    <2>2. j \in StoredCells(d, n) /\ k \in Rounds(d, n)
      BY <1>1, <1>8, <2>1, WrittenCells
    <2>3. off + j = p
      BY <1>3, <2>1
    <2>4. b \in W
      BY <1>5, <1>7, <2>2
    <2>5. b \in Blocks
      <3>1. <<ino, k>> \in Allocated'
        BY <1>1, <2>2, AllocatedAfterWrite
      <3> QED BY <1>2, <1>5, <3>1, DataBlocksAreNext
    <2>6. HitBy(d, n, b, c)
      BY <1>1, <1>5, <2>2, <2>3 DEF HitBy, IndexOf
    <2> QED BY <1>3, <1>6, <1>7, <2>4, <2>5, <2>6, WriteBlocks
  <1>9. ASSUME p \notin off .. off + m - 1 PROVE CellAt(ino, p)' = CellAt(ino, p)
    <2>1. p \in 0 .. inode_table[ino].file_size - 1 /\ inode_table[ino].file_type = 1
      BY <1>1, <1>2, <1>9, WrittenCells, OpenIs
    <2>2. <<ino, k>> \in Allocated
      BY <1>1, <1>2, <2>1 DEF SInv, FullInv
    <2>3. /\ k \in 0 .. DirectBlocks - 1 /\ inode_table[ino].direct_offset[k] \in Blocks
      BY <1>2, <2>2, DataBlocksAre
    <2>4. <<ino, k>> \in Allocated' /\ b = inode_table[ino].direct_offset[k] /\ b \in Blocks
      BY <1>2, <1>5, <2>2, <2>3, AllocatedAfterWrite
    <2>5. ~HitBy(d, n, b, c)
      <3> SUFFICES ASSUME NEW j \in StoredCells(d, n), Direct(d, n)[IndexOf(d, j)] = b,
                          (off + j) % BLOCK_SIZE = c
                   PROVE  FALSE
        BY <1>1 DEF HitBy
      <3>1. IndexOf(d, j) \in Rounds(d, n) /\ j \in 0 .. m - 1
        BY <1>4 DEF StoredCells
      <3>2. <<ino, IndexOf(d, j)>> \in Allocated'
        BY <1>1, <3>1, AllocatedAfterWrite
      <3>3. IndexOf(d, j) = k
        BY <1>2, <1>5, <2>4, <3>2, OwnersNext
      <3>4. (off + j) \div BLOCK_SIZE = p \div BLOCK_SIZE /\ (off + j) % BLOCK_SIZE = p % BLOCK_SIZE
        BY <1>1, <3>3 DEF IndexOf
      <3>5. off + j \in Nat
        BY <1>3, <3>1
      <3>6. off + j = p
        BY <1>3, <3>4, <3>5, DivisionFacts
      <3> QED BY <1>3, <1>4, <1>9, <3>1, <3>6
    <2>6. CellsIn(b)'[c] = CellsIn(b)[c]
      BY <1>3, <2>4, <2>5, WriteBlocks
    <2>7. CellAt(ino, p) = CellsIn(b)[c]
      BY <1>1, <2>4 DEF CellAt
    <2> QED BY <1>6, <2>6, <2>7
  <1> QED BY <1>1, <1>8, <1>9

-----------------------------------------------------------------------------
(* Files and descriptors as programs see them                              *)

\* The store that FileSystem implements, and the sequence of cells in inode i.
Files == [n \in Existing |-> Contents(n)]
Fds == [d \in DOMAIN open_file_descriptors |-> [name |-> NameOf(InodeOf(d)), pos |-> OffsetOf(d)]]
FileAt(i) == [j \in 1 .. inode_table[i].file_size |-> CellAt(i, j - 1)]

FilesView ==
  /\ \A i \in Inodes : directory[i].is_used =>
       /\ directory[i].name \in DOMAIN Files /\ Files[directory[i].name] = FileAt(i)
       /\ Len(FileAt(i)) = inode_table[i].file_size
  /\ \A n \in DOMAIN Files : \E i \in Inodes : directory[i].is_used /\ directory[i].name = n
  /\ \A i, j \in Inodes :
       directory[i].is_used /\ directory[j].is_used /\ directory[i].name = directory[j].name => i = j

FdsView ==
  /\ DOMAIN Fds = DOMAIN open_file_descriptors
  /\ \A d \in DOMAIN open_file_descriptors :
       Fds[d] = [name |-> directory[InodeOf(d)].name, pos |-> OffsetOf(d)]

LEMMA NamesUnique ==
  ASSUME SInv
  PROVE  \A i, j \in Inodes :
           directory[i].is_used /\ directory[j].is_used /\ directory[i].name = directory[j].name => i = j
  <1>1. CASE active
    BY <1>1 DEF SInv, BInv, IInv, MemInv, Agree
  <1>2. CASE ~active
    BY <1>2, EmptyEntries DEF SInv, BInv, FreshInv
  <1> QED BY <1>1, <1>2

LEMMA FileAtSeq ==
  ASSUME SInv, NEW i \in Inodes
  PROVE  /\ inode_table[i].file_size \in Nat /\ Len(FileAt(i)) = inode_table[i].file_size
         /\ DOMAIN FileAt(i) = 1 .. inode_table[i].file_size
         /\ \E T : FileAt(i) \in Seq(T)
  <1>1. PICK n : n = inode_table[i].file_size
    OBVIOUS
  <1>2. n \in Nat
    BY <1>1 DEF SInv, BInv, NumbersInv
  <1>3. PICK T : T = {CellAt(i, j - 1) : j \in 1 .. n}
    OBVIOUS
  <1>4. DOMAIN FileAt(i) = 1 .. n
    BY <1>1 DEF FileAt
  <1>5. FileAt(i) \in [1 .. n -> T]
    BY <1>1, <1>3 DEF FileAt
  <1>6. FileAt(i) \in Seq(T)
    BY <1>2, <1>5, IsASeq
  <1>7. Len(FileAt(i)) = n
    BY <1>2, <1>4, <1>6, LenProperties
  <1> QED BY <1>1, <1>2, <1>4, <1>6, <1>7

LEMMA FilesAre == SInv => FilesView
  <1> SUFFICES ASSUME SInv PROVE FilesView
    OBVIOUS
  <1>1. DOMAIN Files = Existing
    BY DEF Files
  <1>2. ASSUME NEW i \in Inodes, directory[i].is_used
        PROVE  directory[i].name \in Existing /\ Files[directory[i].name] = FileAt(i)
    <2>1. PICK n : n = directory[i].name
      OBVIOUS
    <2>2. n \in Existing
      BY <1>2, <2>1 DEF Existing
    <2>3. Entries(n) = {i}
      BY <1>2, <2>1, NamesUnique DEF Entries
    <2>4. Min(Entries(n)) = i
      BY <2>3, IndexSets, MinInSet
    <2>5. directory[i].inode_number = i
      BY <1>2 DEF SInv, PlaceInv
    <2>6. Contents(n) = FileAt(i)
      BY <2>4, <2>5, Zenon DEF Contents, FileAt
    <2> QED BY <2>1, <2>2, <2>6 DEF Files
  <1>3. \A n \in Existing : \E i \in Inodes : directory[i].is_used /\ directory[i].name = n
    BY DEF Existing
  <1> QED BY <1>1, <1>2, <1>3, NamesUnique, FileAtSeq DEF FilesView

LEMMA FdsAre == SInv => FdsView
  <1> SUFFICES ASSUME SInv PROVE FdsView
    OBVIOUS
  <1>1. ASSUME NEW d \in DOMAIN open_file_descriptors
        PROVE  NameOf(InodeOf(d)) = directory[InodeOf(d)].name
    <2>1. PICK i : i = InodeOf(d)
      OBVIOUS
    <2>2. i \in Inodes /\ directory[i].is_used
      BY <2>1, OpenIs
    <2>3. NamesOf(i) = {directory[i].name}
      BY <2>2 DEF NamesOf, SInv, PlaceInv
    <2>4. NameOf(i) = directory[i].name
      BY <2>3 DEF NameOf
    <2> QED BY <2>1, <2>4
  <1> QED BY <1>1 DEF Fds, FdsView

LEMMA ViewNext == SInv' => FilesView' /\ FdsView'
  BY FilesAre, FdsAre, PTL

LEMMA FileAtKept ==
  ASSUME SInv, NEW i \in Inodes, inode_table'[i].file_size = inode_table[i].file_size,
         \A p \in 0 .. inode_table[i].file_size - 1 : CellAt(i, p)' = CellAt(i, p)
  PROVE  FileAt(i)' = FileAt(i)
  <1>1. inode_table[i].file_size \in Nat
    BY FileAtSeq
  <1>2. \A j \in 1 .. inode_table[i].file_size : j - 1 \in 0 .. inode_table[i].file_size - 1
    BY <1>1
  <1>3. \A j \in 1 .. inode_table[i].file_size : CellAt(i, j - 1)' = CellAt(i, j - 1)
    BY <1>2
  <1> QED BY <1>3 DEF FileAt

LEMMA FilesMoved ==
  ASSUME SInv, SInv', directory' = directory, NEW ino \in Inodes, directory[ino].is_used,
         \A i \in Inodes : directory[i].is_used /\ i # ino => FileAt(i)' = FileAt(i)
  PROVE  Files' = [Files EXCEPT ![directory[ino].name] = FileAt(ino)']
  <1>1. FilesView /\ FilesView'
    BY FilesAre, ViewNext
  <1>2. DOMAIN Files' = DOMAIN Files /\ directory[ino].name \in DOMAIN Files
    <2>1. DOMAIN Files' = DOMAIN Files
      BY DEF Files, Existing
    <2> QED BY <1>1, <2>1 DEF FilesView
  <1>3. ASSUME NEW n \in DOMAIN Files
        PROVE  Files'[n] = IF n = directory[ino].name THEN FileAt(ino)' ELSE Files[n]
    <2>1. PICK i \in Inodes : directory[i].is_used /\ directory[i].name = n
      BY <1>1 DEF FilesView
    <2>2. Files'[n] = FileAt(i)' /\ Files[n] = FileAt(i)
      BY <1>1, <2>1 DEF FilesView
    <2>3. n = directory[ino].name <=> i = ino
      BY <2>1, NamesUnique
    <2> QED BY <2>1, <2>2, <2>3
  <1>4. Files' = [n \in DOMAIN Files' |-> Files'[n]] /\ Files = [n \in DOMAIN Files |-> Files[n]]
    BY DEF Files
  <1> QED BY <1>2, <1>3, <1>4

LEMMA FilesKept ==
  ASSUME SInv, SInv', directory' = directory,
         \A i \in Inodes : directory[i].is_used => FileAt(i)' = FileAt(i)
  PROVE  Files' = Files
  <1>1. FilesView /\ FilesView'
    BY FilesAre, ViewNext
  <1>2. DOMAIN Files' = DOMAIN Files
    BY <1>1 DEF FilesView
  <1>3. \A n \in DOMAIN Files : Files'[n] = Files[n]
    BY <1>1 DEF FilesView
  <1>4. Files' = [n \in DOMAIN Files' |-> Files'[n]] /\ Files = [n \in DOMAIN Files |-> Files[n]]
    BY DEF Files
  <1> QED BY <1>2, <1>3, <1>4

LEMMA FilesSame ==
  ASSUME SInv, SInv', UNCHANGED <<directory, inode_table, blocks>>
  PROVE  Files' = Files
  <1>1. \A i \in Inodes : FileAt(i)' = FileAt(i)
    BY DEF FileAt, CellAt, CellsIn
  <1> QED BY <1>1, FilesKept

LEMMA FdsMoved ==
  ASSUME SInv, SInv', directory' = directory, NEW d \in DOMAIN open_file_descriptors, NEW o,
         open_file_descriptors' = [open_file_descriptors EXCEPT ![d].offset = o]
  PROVE  Fds' = [Fds EXCEPT ![d].pos = o]
  <1>1. FdsView /\ FdsView'
    BY FdsAre, ViewNext
  <1>2. /\ DOMAIN open_file_descriptors' = DOMAIN open_file_descriptors
        /\ \A c \in DOMAIN open_file_descriptors :
              InodeOf(c)' = InodeOf(c) /\ OffsetOf(c)' = IF c = d THEN o ELSE OffsetOf(c)
    BY MovedOffset
  <1>3. DOMAIN Fds' = DOMAIN Fds /\ d \in DOMAIN Fds
    BY <1>1, <1>2 DEF FdsView
  <1>4. \A c \in DOMAIN Fds : Fds'[c] = IF c = d THEN [Fds[d] EXCEPT !.pos = o] ELSE Fds[c]
    BY <1>1, <1>2 DEF FdsView
  <1>5. Fds' = [c \in DOMAIN Fds' |-> Fds'[c]] /\ Fds = [c \in DOMAIN Fds |-> Fds[c]]
    BY DEF Fds
  <1> QED BY <1>3, <1>4, <1>5

LEMMA FdsKept ==
  ASSUME UNCHANGED <<directory, open_file_descriptors>>
  PROVE  Fds' = Fds
  BY DEF Fds, NameOf, NamesOf, InodeOf, OffsetOf

LEMMA SameStore ==
  ASSUME SInv, SInv', UNCHANGED <<diskVars, memVars>>
  PROVE  Files' = Files /\ Fds' = Fds /\ UNCHANGED <<open_disk_fd>>
  <1>1. UNCHANGED <<blocks, directory, inode_table, open_file_descriptors, open_disk_fd>>
    BY DEF diskVars, memVars
  <1> QED BY <1>1, FilesSame, FdsKept

\* The file behind a descriptor, as the store has it.
LEMMA FileOf ==
  ASSUME SInv, NEW d \in DOMAIN open_file_descriptors, NEW i, i = InodeOf(d)
  PROVE  /\ d \in DOMAIN Fds /\ Fds[d].name = directory[i].name /\ Fds[d].pos = OffsetOf(d)
         /\ Files[Fds[d].name] = FileAt(i)
         /\ Len(Files[Fds[d].name]) = inode_table[i].file_size
  <1>1. i \in Inodes /\ directory[i].is_used
    BY OpenIs
  <1>2. d \in DOMAIN Fds /\ Fds[d] = [name |-> directory[i].name, pos |-> OffsetOf(d)]
    BY FdsAre DEF FdsView
  <1>3. Files[directory[i].name] = FileAt(i) /\ Len(FileAt(i)) = inode_table[i].file_size
    BY <1>1, FilesAre DEF FilesView
  <1>4. Fds[d].name = directory[i].name /\ Fds[d].pos = OffsetOf(d)
    BY <1>2
  <1> QED BY <1>2, <1>3, <1>4

-----------------------------------------------------------------------------
(* Every call is one of the store's                                        *)

LEMMA RefusedStep ==
  ASSUME SInv, SInv', MountRefused \/ CreateRefused \/ DeleteRefused \/ OpenRefused
  PROVE  Store!Refuse
  <1>1. UNCHANGED <<diskVars, memVars>>
    BY DEF MountRefused, CreateRefused, DeleteRefused, OpenRefused
  <1>2. Files' = Files /\ Fds' = Fds /\ UNCHANGED open_disk_fd
    BY <1>1, SameStore
  <1>3. \E op \in {"mount", "umount", "create", "delete", "open"} : Store!Returned(op, -1, <<>>)
    BY DEF MountRefused, CreateRefused, DeleteRefused, OpenRefused, Returns, Call, Store!Returned
  <1> QED BY <1>2, <1>3 DEF Store!Refuse, Files, Fds

LEMMA MakeFsStep ==
  ASSUME SInv, SInv', MakeFs
  PROVE  Store!Make
  <1>1. ~active /\ UNCHANGED <<open_disk_fd, directory, open_file_descriptors>>
        /\ last' = Call("make", -1, 0, <<>>)
    BY DEF MakeFs, Returns
  <1>2. directory' = NoEntries /\ open_disk_fd # 0
    BY <1>1 DEF SInv, BInv, FreshInv, IInv, TypeOK
  <1>3. Existing' = {}
    BY <1>2, EmptyEntries DEF Existing
  <1>4. Files' = Store!Empty
    BY <1>3 DEF Files, Store!Empty
  <1>5. Fds' = Fds
    BY <1>1, FdsKept
  <1> QED BY <1>1, <1>2, <1>4, <1>5 DEF Store!Make, Store!Returned, Call, Files, Fds

LEMMA MountStep ==
  ASSUME SInv, SInv', Mount
  PROVE  Store!Mount
  <1>1. ~active /\ open_disk_fd' = 0 /\ last' = Call("mount", -1, 0, <<>>)
    BY DEF Mount, MayOpen, Returns
  <1>2. directory = NoEntries /\ open_disk_fd # 0 /\ DOMAIN open_file_descriptors = {}
    BY <1>1 DEF SInv, BInv, FreshInv, IInv, TypeOK, OpenInv
  <1>3. directory' = NoEntries /\ DOMAIN open_file_descriptors' = {}
    BY MountedEmpty DEF SInv
  <1>4. Existing = {} /\ Existing' = {}
    BY <1>2, <1>3, EmptyEntries DEF Existing
  <1>5. Files' = Files
    BY <1>4 DEF Files
  <1>6. Fds' = Fds
    BY <1>2, <1>3 DEF Fds
  <1> QED BY <1>1, <1>2, <1>5, <1>6 DEF Store!Mount, Store!Returned, Call, Files, Fds

LEMMA CreateStep ==
  ASSUME SInv, SInv', NEW n, Create(n)
  PROVE  Store!Create(n)
  <1>1. PICK ino \in Inodes :
           /\ ~directory[ino].is_used /\ \A j \in Inodes : j < ino => directory[j].is_used
           /\ inode_table'[ino].file_type = 1 /\ inode_table'[ino].file_size = 0
           /\ \A i \in Inodes : i # ino => inode_table'[i] = inode_table[i]
           /\ directory'[ino] = [is_used |-> TRUE, inode_number |-> ino, name |-> n]
           /\ \A i \in Inodes : i # ino => directory'[i] = directory[i]
           /\ last' = Call("create", -1, 0, <<>>)
    BY CreateIs
  <1>2. /\ n \notin Existing /\ open_disk_fd # -1
        /\ UNCHANGED <<blocks, open_disk_fd, open_file_descriptors>>
    BY DEF Create, MayCreate, Mounted, diskVars
  <1>3. open_disk_fd = 0
    BY <1>2 DEF SInv, BInv, IInv, TypeOK
  <1>4. FilesView /\ FilesView' /\ FdsView /\ FdsView'
    BY FilesAre, FdsAre, ViewNext
  <1>5. n \notin DOMAIN Files
    BY <1>2 DEF Files
  <1>6. \A i \in Inodes : directory'[i].is_used <=> directory[i].is_used \/ i = ino
    BY <1>1
  <1>7. \A i \in Inodes : i # ino => FileAt(i)' = FileAt(i)
    BY <1>1, <1>2 DEF FileAt, CellAt, CellsIn
  <1>8. FileAt(ino)' = <<>>
    BY <1>1 DEF FileAt
  <1>9. Files' = Store!With(Files, n, <<>>)
    <2>1. directory'[ino].name = n
      BY <1>1
    <2>2. DOMAIN Files' = DOMAIN Files \cup {n}
      <3>1. \A i \in Inodes : directory[i].is_used => directory'[i].name = directory[i].name
        BY <1>1
      <3>2. \A m : m \in DOMAIN Files' <=> m \in DOMAIN Files \/ m = n
        BY <1>4, <1>6, <2>1, <3>1 DEF FilesView
      <3> QED BY <3>2
    <2>3. ASSUME NEW m \in DOMAIN Files' PROVE Files'[m] = IF m = n THEN <<>> ELSE Files[m]
      <3>1. CASE m = n
        BY <1>4, <1>6, <1>8, <2>1, <3>1 DEF FilesView
      <3>2. CASE m # n
        <4>1. PICK i \in Inodes : directory'[i].is_used /\ directory'[i].name = m
          BY <1>4 DEF FilesView
        <4>2. i # ino /\ directory[i].is_used /\ directory[i].name = m
          BY <1>1, <2>1, <3>2, <4>1
        <4>3. Files'[m] = FileAt(i)' /\ Files[m] = FileAt(i)
          BY <1>4, <4>1, <4>2 DEF FilesView
        <4> QED BY <1>7, <3>2, <4>2, <4>3
      <3> QED BY <3>1, <3>2
    <2>4. Files' = [m \in DOMAIN Files' |-> Files'[m]]
      BY DEF Files
    <2> QED BY <2>2, <2>3, <2>4 DEF Store!With
  <1>10. Fds' = Fds
    <2>1. DOMAIN Fds' = DOMAIN Fds
      BY <1>2, <1>4 DEF FdsView
    <2>2. ASSUME NEW d \in DOMAIN Fds PROVE Fds'[d] = Fds[d]
      <3>1. d \in DOMAIN open_file_descriptors
        BY <1>4 DEF FdsView
      <3>2. InodeOf(d)' = InodeOf(d) /\ OffsetOf(d)' = OffsetOf(d)
        BY <1>2 DEF InodeOf, OffsetOf
      <3>3. directory'[InodeOf(d)] = directory[InodeOf(d)]
        BY <1>1, <3>1, OpenIs
      <3> QED BY <1>2, <1>4, <3>1, <3>2, <3>3 DEF FdsView
    <2>3. Fds' = [c \in DOMAIN Fds' |-> Fds'[c]] /\ Fds = [c \in DOMAIN Fds |-> Fds[c]]
      BY DEF Fds
    <2> QED BY <2>1, <2>2, <2>3
  <1> QED BY <1>1, <1>2, <1>3, <1>5, <1>9, <1>10 DEF Store!Create, Store!Returned, Call, Files, Fds

LEMMA OpenStep ==
  ASSUME SInv, SInv', Plain, NEW n, Open(n)
  PROVE  Store!Open(n)
  <1>1. PICK i, f : OpenedAs(n, i, f)
    BY OpenIsNew
  <1>2. UNCHANGED <<blocks, inode_table, directory, open_disk_fd>>
    BY DEF Open, diskVars
  <1>3. Files' = Files
    BY <1>2, FilesSame
  <1>4. FilesView /\ FdsView /\ FdsView'
    BY FilesAre, FdsAre, ViewNext
  <1>5. n \in DOMAIN Files /\ open_disk_fd = 0
    BY <1>1, <1>4 DEF OpenedAs, FilesView
  <1>6. f \in Descriptors \ DOMAIN Fds
    BY <1>1, <1>4 DEF OpenedAs, FdsView
  <1>7. /\ DOMAIN open_file_descriptors' = DOMAIN open_file_descriptors \cup {f}
        /\ InodeOf(f)' = i /\ OffsetOf(f)' = 0
        /\ \A d \in DOMAIN open_file_descriptors : InodeOf(d)' = InodeOf(d) /\ OffsetOf(d)' = OffsetOf(d)
    BY <1>1 DEF OpenedAs, InodeOf, OffsetOf
  <1>8. Fds' = Store!With(Fds, f, [name |-> n, pos |-> 0])
    <2>1. DOMAIN Fds' = DOMAIN Fds \cup {f}
      BY <1>4, <1>7 DEF FdsView
    <2>2. Fds'[f] = [name |-> n, pos |-> 0]
      BY <1>1, <1>2, <1>4, <1>7 DEF FdsView, OpenedAs
    <2>3. \A d \in DOMAIN Fds : d # f => Fds'[d] = Fds[d]
      BY <1>2, <1>4, <1>7 DEF FdsView
    <2>4. Fds' = [c \in DOMAIN Fds' |-> Fds'[c]]
      BY DEF Fds
    <2>5. \A c \in DOMAIN Fds' : Fds'[c] = IF c = f THEN [name |-> n, pos |-> 0] ELSE Fds[c]
      BY <2>1, <2>2, <2>3
    <2> QED BY <2>1, <2>4, <2>5 DEF Store!With
  <1>9. Store!Returned("open", f, <<>>)
    BY <1>1 DEF OpenedAs, Call, Store!Returned
  <1>10. \E d \in Descriptors \ DOMAIN Fds :
           Store!Returned("open", d, <<>>) /\ Fds' = Store!With(Fds, d, [name |-> n, pos |-> 0])
    BY <1>6, <1>8, <1>9
  <1> QED BY <1>2, <1>3, <1>5, <1>10 DEF Store!Open, Files, Fds

LEMMA CloseStep ==
  ASSUME SInv, SInv', NEW d, Close(d)
  PROVE  Store!Close(d) \/ Store!RefuseOn(d)
  <1>1. UNCHANGED <<blocks, inode_table, directory, open_disk_fd>>
    BY DEF Close, diskVars
  <1>2. Files' = Files
    BY <1>1, FilesSame
  <1>3. FdsView /\ FdsView'
    BY FdsAre, ViewNext
  <1>4. CASE d \in DOMAIN open_file_descriptors
    <2>1. /\ open_file_descriptors' = [e \in DOMAIN open_file_descriptors \ {d} |-> open_file_descriptors[e]]
          /\ last' = Call("close", d, 0, <<>>)
      BY <1>4 DEF Close, ReturnsOn
    <2>2. /\ DOMAIN open_file_descriptors' = DOMAIN open_file_descriptors \ {d}
          /\ \A e \in DOMAIN open_file_descriptors' : InodeOf(e)' = InodeOf(e) /\ OffsetOf(e)' = OffsetOf(e)
      BY <2>1 DEF InodeOf, OffsetOf
    <2>3. Fds' = Store!Without(Fds, d)
      <3>1. DOMAIN Fds' = DOMAIN Fds \ {d}
        BY <1>3, <2>2 DEF FdsView
      <3>2. \A e \in DOMAIN Fds' : Fds'[e] = Fds[e]
        BY <1>1, <1>3, <2>2 DEF FdsView
      <3>3. Fds' = [c \in DOMAIN Fds' |-> Fds'[c]]
        BY DEF Fds
      <3> QED BY <3>1, <3>2, <3>3 DEF Store!Without
    <2>4. d \in DOMAIN Fds
      BY <1>3, <1>4 DEF FdsView
    <2> QED BY <1>1, <1>2, <2>1, <2>3, <2>4 DEF Store!Close, Store!ReturnedOn, Call, Files, Fds
  <1>5. CASE d \notin DOMAIN open_file_descriptors
    <2>1. UNCHANGED open_file_descriptors /\ last' = Call("close", d, -1, <<>>)
      BY <1>5 DEF Close, ReturnsOn
    <2>2. Fds' = Fds /\ d \notin DOMAIN Fds
      BY <1>1, <1>3, <1>5, <2>1, FdsKept DEF FdsView
    <2> QED BY <1>1, <1>2, <2>1, <2>2 DEF Store!RefuseOn, Store!ReturnedOn, Call, Files, Fds
  <1> QED BY <1>4, <1>5

\* fs_listfiles: the used entries are the first ones.
LEMMA ListStep ==
  ASSUME SInv, SInv', Listfiles
  PROVE  Store!List
  <1>1. UNCHANGED <<diskVars, memVars>>
    BY DEF Listfiles
  <1>2. Files' = Files /\ Fds' = Fds /\ UNCHANGED open_disk_fd
    BY <1>1, SameStore
  <1>3. PICK U : U = Inodes \ FreeEntries
    OBVIOUS
  <1>4. /\ U \in SUBSET (0 .. MAX_NUM_OF_FILES - 1) /\ MAX_NUM_OF_FILES \in Nat
        /\ \A i : i \in U <=> i \in Inodes /\ directory[i].is_used
    BY <1>3, NumbersOK DEF Inodes, FreeEntries
  <1>5. ASSUME NEW j \in U, NEW i \in Nat, i < j PROVE i \in U
    <2>1. i \in Inodes
      BY <1>4, <1>5 DEF Inodes
    <2> QED BY <1>4, <1>5, <2>1 DEF SInv, PlaceInv
  <1>6. U = 0 .. Cardinality(U) - 1
    BY <1>4, <1>5, PrefixIs
  <1>7. last' = Call("list", -1, 0, {directory[i].name : i \in U})
    BY <1>3, <1>6 DEF Listfiles
  <1>8. {directory[i].name : i \in U} = DOMAIN Files
    <2>1. {j \in Inodes : directory[j].is_used} = U
      BY <1>4
    <2> QED BY <2>1 DEF Files, Existing
  <1> QED BY <1>2, <1>7, <1>8 DEF Store!List, Store!Returned, Call, Files, Fds

LEMMA LseekStep ==
  ASSUME SInv, SInv', NEW d, NEW p, Lseek(d, p)
  PROVE  Store!Lseek(d, p)
  <1>1. /\ d \in DOMAIN open_file_descriptors /\ UNCHANGED <<blocks, inode_table, directory, open_disk_fd>>
        /\ p <= inode_table[InodeOf(d)].file_size
        /\ open_file_descriptors' = [open_file_descriptors EXCEPT ![d].offset = p]
        /\ last' = Call("lseek", d, 0, <<>>)
    BY DEF Lseek, Valid, ReturnsOn, diskVars
  <1>2. Files' = Files
    BY <1>1, FilesSame
  <1>3. Fds' = [Fds EXCEPT ![d].pos = p]
    BY <1>1, FdsMoved
  <1>4. d \in DOMAIN Fds /\ p <= Len(Files[Fds[d].name])
    BY <1>1, FileOf
  <1> QED BY <1>1, <1>2, <1>3, <1>4 DEF Store!Lseek, Store!ReturnedOn, Call, Files, Fds

LEMMA GetFilesizeStep ==
  ASSUME SInv, SInv', NEW d, GetFilesize(d)
  PROVE  Store!GetFilesize(d) \/ Store!RefuseOn(d)
  <1>1. UNCHANGED <<diskVars, memVars>>
    BY DEF GetFilesize
  <1>2. Files' = Files /\ Fds' = Fds /\ UNCHANGED open_disk_fd
    BY <1>1, SameStore
  <1>3. CASE d \in DOMAIN open_file_descriptors
    <2>1. NamesOf(InodeOf(d)) # {}
      BY <1>3 DEF SInv, BInv, IInv, OpenInv, NamesOf
    <2>2. last' = Call("size", d, inode_table[InodeOf(d)].file_size, <<>>)
      BY <1>3, <2>1 DEF GetFilesize, ReturnsOn
    <2>3. d \in DOMAIN Fds /\ Len(Files[Fds[d].name]) = inode_table[InodeOf(d)].file_size
      BY <1>3, FileOf
    <2> QED BY <1>2, <2>2, <2>3 DEF Store!GetFilesize, Store!ReturnedOn, Call, Files, Fds
  <1>4. CASE d \notin DOMAIN open_file_descriptors
    <2>1. last' = Call("size", d, -1, <<>>)
      BY <1>4 DEF GetFilesize, ReturnsOn
    <2>2. d \notin DOMAIN Fds
      BY <1>4 DEF Fds
    <2> QED BY <1>2, <2>1, <2>2 DEF Store!RefuseOn, Store!ReturnedOn, Call, Files, Fds
  <1> QED BY <1>3, <1>4

LEMMA RefusedOnStep ==
  ASSUME SInv, SInv', NEW d, Refused(d)
  PROVE  Store!RefuseOn(d)
  <1>1. UNCHANGED <<diskVars, memVars>>
    BY DEF Refused
  <1>2. Files' = Files /\ Fds' = Fds /\ UNCHANGED open_disk_fd
    BY <1>1, SameStore
  <1>3. Valid(d) <=> d \in DOMAIN open_file_descriptors
    BY OpenIs DEF Valid
  <1>4. DOMAIN Fds = DOMAIN open_file_descriptors
    BY DEF Fds
  <1>5. CASE ~Valid(d) /\ \E op \in {"read", "write"} : ReturnsOn(d, op, -1)
    BY <1>2, <1>3, <1>4, <1>5 DEF Store!RefuseOn, Store!ReturnedOn, ReturnsOn, Call, Files, Fds
  <1>6. CASE /\ {p \in Positions : Valid(d) => p > inode_table[InodeOf(d)].file_size} # {}
             /\ \E op \in {"lseek", "truncate"} : ReturnsOn(d, op, -1)
    <2>1. PICK op \in {"lseek", "truncate"} : Store!ReturnedOn(d, op, -1, <<>>)
      BY <1>6 DEF Store!ReturnedOn, ReturnsOn, Call
    <2>2. d \in DOMAIN Fds => \E p \in Positions : p > Len(Files[Fds[d].name])
      BY <1>3, <1>4, <1>6, FileOf
    <2>3. \E o \in {"close", "read", "write", "lseek", "truncate", "size"} :
            /\ Store!ReturnedOn(d, o, -1, <<>>)
            /\ d \in DOMAIN Fds => /\ o \in {"lseek", "truncate"}
                                   /\ \E p \in Positions : p > Len(Files[Fds[d].name])
      BY <2>1, <2>2
    <2> QED BY <1>2, <2>3 DEF Store!RefuseOn, Files, Fds
  <1> QED BY <1>5, <1>6 DEF Refused

\* A part of a sequence, cell by cell.
LEMMA PartOf ==
  ASSUME NEW n \in Nat, NEW s, DOMAIN s = 1 .. n, NEW a \in Nat, NEW b \in Nat, a <= b, b <= n
  PROVE  SubSeq(s, a + 1, b) = [j \in 1 .. b - a |-> s[a + j]]
  OBVIOUS

LEMMA ReadStep ==
  ASSUME SInv, SInv', NEW d, NEW n \in Nat, Read(d, n)
  PROVE  Store!Read(d, n)
  <1>1. d \in DOMAIN open_file_descriptors /\ UNCHANGED <<blocks, inode_table, directory, open_disk_fd>>
    BY DEF Read, Valid, diskVars
  <1>2. PICK i, off, size : i = InodeOf(d) /\ off = OffsetOf(d) /\ size = inode_table[i].file_size
    OBVIOUS
  <1>3. i \in Inodes /\ off \in Nat /\ size \in Nat /\ off <= size
    BY <1>1, <1>2, OpenIs
  <1>4. PICK m \in Nat :
              /\ m = IF off + n > size THEN size - off ELSE n
              /\ off + m <= size
              /\ open_file_descriptors' = [open_file_descriptors EXCEPT ![d].offset = off + m]
              /\ last' = Call("read", d, m, [j \in 1 .. m |-> CellAt(i, off + j - 1)])
    BY <1>2, ReadIs
  <1>5. Files' = Files
    BY <1>1, FilesSame
  <1>6. Fds' = [Fds EXCEPT ![d].pos = off + m]
    BY <1>1, <1>4, FdsMoved
  <1>7. PICK s : s = FileAt(i)
    OBVIOUS
  <1>8. d \in DOMAIN Fds /\ Fds[d].pos = off /\ Files[Fds[d].name] = s /\ Len(s) = size
    BY <1>1, <1>2, <1>7, FileOf
  <1>9. [j \in 1 .. m |-> CellAt(i, off + j - 1)] = SubSeq(s, off + 1, off + m)
    <2>1. DOMAIN s = 1 .. size
      BY <1>2, <1>3, <1>7, FileAtSeq
    <2>2. SubSeq(s, off + 1, off + m) = [j \in 1 .. m |-> s[off + j]]
      <3>1. PICK e : e = off + m
        OBVIOUS
      <3>2. e \in Nat /\ off <= e /\ e <= size /\ e - off = m
        BY <1>3, <1>4, <3>1
      <3>3. SubSeq(s, off + 1, e) = [j \in 1 .. e - off |-> s[off + j]]
        BY <1>3, <2>1, <3>2, PartOf
      <3> QED BY <3>1, <3>2, <3>3
    <2>3. ASSUME NEW j \in 1 .. m PROVE s[off + j] = CellAt(i, off + j - 1)
      <3>1. PICK k : k = off + j
        OBVIOUS
      <3>2. k \in 1 .. size
        BY <1>3, <1>4, <3>1
      <3>3. s[k] = CellAt(i, k - 1)
        BY <1>2, <1>7, <3>2 DEF FileAt
      <3>4. off + j - 1 = k - 1
        BY <1>3, <1>4, <3>1
      <3>5. CellAt(i, off + j - 1) = CellAt(i, k - 1)
        BY <3>4, Zenon
      <3> QED BY <3>1, <3>3, <3>5
    <2> QED BY <2>2, <2>3
  <1>10. (IF off + n > size THEN size ELSE off + n) = off + m /\ (off + m) - off = m
    BY <1>3, <1>4
  <1>11. PICK e : e = off + m
    OBVIOUS
  <1>12. /\ Store!ReturnedOn(d, "read", e - off, SubSeq(s, off + 1, e))
         /\ Fds' = [Fds EXCEPT ![d].pos = e]
    BY <1>4, <1>6, <1>9, <1>10, <1>11 DEF Store!ReturnedOn, Call
  <1>13. e = IF Fds[d].pos + n > Len(Files[Fds[d].name]) THEN Len(Files[Fds[d].name]) ELSE Fds[d].pos + n
    BY <1>8, <1>10, <1>11
  <1>14. /\ Store!ReturnedOn(d, "read", e - Fds[d].pos, SubSeq(Files[Fds[d].name], Fds[d].pos + 1, e))
         /\ Fds' = [Fds EXCEPT ![d].pos = e]
    BY <1>8, <1>12
  <1> QED BY <1>1, <1>5, <1>8, <1>13, <1>14, Zenon DEF Store!Read, Files, Fds

LEMMA TruncateStep ==
  ASSUME SInv, SInv', NEW d, NEW p \in Nat, Truncate(d, p)
  PROVE  Store!Truncate(d, p)
  <1>1. PICK i, size : i = InodeOf(d) /\ size = inode_table[i].file_size
    OBVIOUS
  <1>2. /\ d \in DOMAIN open_file_descriptors /\ p <= size
        /\ open_file_descriptors' = [open_file_descriptors EXCEPT ![d].offset = p]
        /\ UNCHANGED <<blocks, open_disk_fd, directory>>
        /\ inode_table'[i].file_size = p
        /\ \A j \in Inodes : inode_table'[j].direct_offset = inode_table[j].direct_offset
        /\ \A j \in Inodes : j # i => inode_table'[j] = inode_table[j]
    BY <1>1, TruncateIs DEF diskVars
  <1>3. last' = Call("truncate", d, 0, <<>>)
    BY DEF Truncate, ReturnsOn
  <1>4. i \in Inodes /\ size \in Nat /\ directory[i].is_used
    BY <1>1, <1>2, OpenIs
  <1>5. Fds' = [Fds EXCEPT ![d].pos = p]
    BY <1>2, FdsMoved
  <1>6. PICK s : s = FileAt(i)
    OBVIOUS
  <1>7. d \in DOMAIN Fds /\ Fds[d].name = directory[i].name /\ Files[Fds[d].name] = s /\ Len(s) = size
    BY <1>1, <1>2, <1>6, FileOf
  <1>8. \A j \in Inodes : j # i => FileAt(j)' = FileAt(j)
    BY <1>2 DEF FileAt, CellAt, CellsIn
  <1>9. FileAt(i)' = [j \in 1 .. p |-> CellAt(i, j - 1)]
    BY <1>2, <1>4 DEF FileAt, CellAt, CellsIn
  <1>10. FileAt(i)' = SubSeq(s, 1, p)
    <2>1. DOMAIN s = 1 .. size
      BY <1>1, <1>4, <1>6, FileAtSeq
    <2>2. SubSeq(s, 1, p) = [j \in 1 .. p |-> s[j]]
      <3>1. 0 + 1 = 1 /\ 0 <= p /\ p - 0 = p /\ \A j \in 1 .. p : 0 + j = j
        OBVIOUS
      <3> QED BY <1>2, <1>4, <2>1, <3>1, PartOf
    <2>3. \A j \in 1 .. p : s[j] = CellAt(i, j - 1)
      BY <1>1, <1>2, <1>4, <1>6 DEF FileAt
    <2> QED BY <1>9, <2>2, <2>3
  <1>11. Files' = [Files EXCEPT ![Fds[d].name] = SubSeq(s, 1, p)]
    BY <1>2, <1>4, <1>7, <1>8, <1>10, FilesMoved
  <1>12. Files' = [Files EXCEPT ![Fds[d].name] = SubSeq(@, 1, p)]
    BY <1>7, <1>11
  <1>13. p <= Len(Files[Fds[d].name])
    BY <1>2, <1>7
  <1> QED BY <1>2, <1>3, <1>5, <1>7, <1>12, <1>13 DEF Store!Truncate, Store!ReturnedOn, Call, Files, Fds

LEMMA WriteStep ==
  ASSUME SInv, SInv', NEW d, NEW n \in Nat, NEW v, Write(d, n, v)
  PROVE  Store!Write(d, n, v)
  <1>1. PICK i, off, size, m : /\ i = InodeOf(d) /\ off = OffsetOf(d) /\ size = inode_table[i].file_size
                               /\ m = Cardinality(StoredCells(d, n))
    OBVIOUS
  <1>2. /\ d \in DOMAIN open_file_descriptors
        /\ open_file_descriptors' = [open_file_descriptors EXCEPT ![d].offset = off + m]
        /\ UNCHANGED <<open_disk_fd, directory>>
        /\ last' = Call("write", d, IF m = n THEN n ELSE -1, <<>>)
        /\ inode_table'[i].file_size = NewSize(d, n)
        /\ \A j \in Inodes : j # i => inode_table'[j] = inode_table[j]
    BY <1>1, WriteShape DEF NewOffset
  <1>3. i \in Inodes /\ off \in Nat /\ size \in Nat /\ off <= size /\ directory[i].is_used
    BY <1>1, <1>2, OpenIs
  <1>4. m \in 0 .. n
    BY <1>1, <1>2, StoredPrefix
  <1>5. PICK z : z = IF off + m > size THEN off + m ELSE size
    OBVIOUS
  <1>6. inode_table'[i].file_size = z /\ z \in Nat
    BY <1>1, <1>2, <1>3, <1>4, <1>5, NewSizeIs
  <1>7. Fds' = [Fds EXCEPT ![d].pos = off + m]
    BY <1>2, FdsMoved
  <1>8. PICK s : s = FileAt(i)
    OBVIOUS
  <1>9. /\ d \in DOMAIN Fds /\ Fds[d].name = directory[i].name /\ Fds[d].pos = off
        /\ Files[Fds[d].name] = s /\ Len(s) = size
    BY <1>1, <1>2, <1>8, FileOf
  <1>10. ASSUME NEW j \in Inodes, directory[j].is_used, j # i PROVE FileAt(j)' = FileAt(j)
    <2>1. inode_table[j].file_type = 1
      BY <1>10 DEF SInv, PlaceInv
    <2>2. \A p \in 0 .. inode_table[j].file_size - 1 : CellAt(j, p)' = CellAt(j, p)
      BY <1>1, <1>10, <2>1, OtherFileKept
    <2> QED BY <1>2, <1>10, <2>2, FileAtKept
  <1>11. FileAt(i)' = Store!Overwritten(s, off, m, v)
    <2>1. FileAt(i)' = [j \in 1 .. z |-> CellAt(i, j - 1)']
      BY <1>6 DEF FileAt
    <2>2. ASSUME NEW j \in 1 .. z
          PROVE  CellAt(i, j - 1)' = IF j \in off + 1 .. off + m THEN v ELSE s[j]
      <3>1. PICK p : p = j - 1
        OBVIOUS
      <3>2. p \in 0 .. inode_table'[i].file_size - 1
        BY <1>6, <3>1
      <3>3. p \in off .. off + m - 1 <=> j \in off + 1 .. off + m
        BY <1>3, <1>4, <1>6, <3>1
      <3>4. CellAt(i, p)' = IF p \in off .. off + m - 1 THEN v ELSE CellAt(i, p)
        BY <1>1, <3>2, OwnFileWritten
      <3>5. p \notin off .. off + m - 1 => j \in 1 .. size
        BY <1>3, <1>4, <1>5, <3>1
      <3>6. j \in 1 .. size => s[j] = CellAt(i, j - 1)
        BY <1>1, <1>8 DEF FileAt
      <3>7. CellAt(i, j - 1)' = CellAt(i, p)' /\ CellAt(i, j - 1) = CellAt(i, p)
        BY <3>1
      <3> QED BY <3>3, <3>4, <3>5, <3>6, <3>7
    <2> QED BY <1>5, <1>9, <2>1, <2>2 DEF Store!Overwritten
  <1>12. Files' = [Files EXCEPT ![Fds[d].name] = Store!Overwritten(s, off, m, v)]
    BY <1>2, <1>3, <1>9, <1>10, <1>11, FilesMoved
  <1>13. Files' = [Files EXCEPT ![Fds[d].name] = Store!Overwritten(@, Fds[d].pos, m, v)]
    BY <1>9, <1>12
  <1>14. Fds' = [Fds EXCEPT ![d].pos = @ + m]
    BY <1>7, <1>9
  <1>15. Store!ReturnedOn(d, "write", IF m = n THEN n ELSE -1, <<>>)
    BY <1>2 DEF Store!ReturnedOn, Call
  <1>16. \E k \in 0 .. n :
           /\ Store!ReturnedOn(d, "write", IF k = n THEN n ELSE -1, <<>>)
           /\ Fds' = [Fds EXCEPT ![d].pos = @ + k]
           /\ Files' = [Files EXCEPT ![Fds[d].name] = Store!Overwritten(@, Fds[d].pos, k, v)]
    BY <1>4, <1>13, <1>14, <1>15
  <1> QED BY <1>2, <1>9, <1>16 DEF Store!Write, Files, Fds

LEMMA InitStore == Init => Store!Init
  <1> SUFFICES ASSUME Init PROVE Store!Init
    OBVIOUS
  <1>1. /\ directory = NoEntries /\ open_disk_fd = -1 /\ DOMAIN open_file_descriptors = {}
        /\ last = Call("none", -1, 0, <<>>)
    BY DEF Init, NoDescriptors
  <1>2. Existing = {}
    BY <1>1, EmptyEntries DEF Existing
  <1>3. Files = Store!Empty /\ Fds = Store!Empty
    BY <1>1, <1>2 DEF Files, Fds, Store!Empty
  <1> QED BY <1>1, <1>3 DEF Store!Init, Call, Files, Fds

LEMMA NextStore ==
  ASSUME Plain, SInv, SInv', [Next]_vars
  PROVE  [Store!Next]_(Store!vars)
  <1>1. CASE MakeFs \/ MakeFsMounted \/ Mount \/ Umount \/ Restart
    BY <1>1, MakeFsStep, MountStep DEF MakeFsMounted, Umount, Restart, Plain, Store!Next
  <1>2. CASE MountRefused \/ CreateRefused \/ DeleteRefused \/ OpenRefused
    BY <1>2, RefusedStep DEF Store!Next
  <1>3. CASE Listfiles
    BY <1>3, ListStep DEF Store!Next
  <1>4. CASE Stopped \/ UNCHANGED vars
    <2>1. UNCHANGED <<diskVars, memVars, last>>
      BY <1>4 DEF Stopped, vars
    <2>2. Files' = Files /\ Fds' = Fds /\ UNCHANGED open_disk_fd
      BY <2>1, SameStore
    <2> QED BY <2>1, <2>2 DEF Store!vars, Files, Fds
  <1>5. ASSUME NEW n \in Names, Create(n) \/ Delete(n) \/ Open(n) PROVE Store!Next
    <2>1. Store!Create(n) \/ Store!Open(n)
      BY <1>5, CreateStep, OpenStep DEF Delete, Plain
    <2> QED BY <2>1 DEF Store!Next
  <1>6. ASSUME NEW d \in Descriptors, Close(d) \/ GetFilesize(d) \/ Refused(d) PROVE Store!Next
    <2>1. Store!Close(d) \/ Store!GetFilesize(d) \/ Store!RefuseOn(d)
      BY <1>6, CloseStep, GetFilesizeStep, RefusedOnStep
    <2> QED BY <2>1 DEF Store!Next
  <1>7. Lengths \subseteq Nat /\ Positions \subseteq Nat
    BY FileSystemAssumption
  <1>8. ASSUME NEW d \in Descriptors, NEW n \in Lengths, Read(d, n) \/ \E v \in Values : Write(d, n, v)
        PROVE  Store!Next
    <2>1. Store!Read(d, n) \/ \E v \in Values : Store!Write(d, n, v)
      BY <1>7, <1>8, ReadStep, WriteStep
    <2> QED BY <2>1 DEF Store!Next
  <1>9. ASSUME NEW d \in Descriptors, NEW p \in Positions, Lseek(d, p) \/ Truncate(d, p) PROVE Store!Next
    <2>1. Store!Lseek(d, p) \/ Store!Truncate(d, p)
      BY <1>7, <1>9, LseekStep, TruncateStep
    <2> QED BY <2>1 DEF Store!Next
  <1> QED BY <1>1, <1>2, <1>3, <1>4, <1>5, <1>6, <1>8, <1>9 DEF Next

(***************************************************************************)
(* For every size of the disk, of its blocks and of the tables, programs   *)
(* that keep their disk mounted, delete nothing and open a file once at a  *)
(* time see the plain sequences of FileStore: fs_read returns what was     *)
(* last written, fs_write touches no other file and, when the disk or the  *)
(* file is full, has stored a prefix.  The disk has fewer blocks than      *)
(* used_block_bitmap_count can count, as disk.h's does.                    *)
(***************************************************************************)
THEOREM FilesAreSequences ==
  ASSUME Plain, DISK_BLOCKS < 2 ^ CountWidth
  PROVE  Spec => ImplementsFileStore
  <1>1. Init => SInv /\ Store!Init
    BY InitSInv, InitStore
  <1>2. SInv /\ [Next]_vars => SInv'
    BY SInvNext
  <1>3. SInv /\ SInv' /\ [Next]_vars => [Store!Next]_(Store!vars)
    BY NextStore
  <1> QED BY <1>1, <1>2, <1>3, PTL DEF Spec, ImplementsFileStore, Store!Spec
=============================================================================
