-------------------------- MODULE FileSystemProofs --------------------------
(***************************************************************************)
(* Theorems about FileSystem for disks, tables, files and descriptors of   *)
(* any number and size, whatever programs do.                              *)
(***************************************************************************)
EXTENDS FileSystem, FiniteSetTheorems, WellFoundedInduction, TLAPS

Entry == [is_used : BOOLEAN, inode_number : Inodes, name : Names \cup {Invalid}]

\* The fields of an inode and of a descriptor; what they hold is left open.
IsInode(x) == DOMAIN x = {"file_type", "direct_offset", "file_size"}
IsTable(tab) == DOMAIN tab = Inodes /\ \A i \in Inodes : IsInode(tab[i])
IsDescriptor(x) == DOMAIN x = {"inode_number", "offset"} /\ x.inode_number \in Inodes

TypeOK ==
  /\ exists \in BOOLEAN /\ active \in BOOLEAN /\ open_disk_fd \in {0, -1}
  /\ active <=> open_disk_fd = 0
  /\ active => exists
  /\ directory \in [Inodes -> Entry]
  /\ IsTable(inode_table)
  /\ DOMAIN open_file_descriptors \subseteq Descriptors
  /\ \A d \in DOMAIN open_file_descriptors : IsDescriptor(open_file_descriptors[d])

\* A directory and a table of inodes that agree with the sizes files should have.  The type
\* of inode InodeBlocks is on the disk, its size is not; of the later ones nothing is.
Agree(dir, tab, sz) ==
  /\ \A i \in Inodes : dir[i].is_used => dir[i].name \in DOMAIN sz
  /\ \A n \in DOMAIN sz : \E i \in Inodes : dir[i].is_used /\ dir[i].name = n
  /\ \A i, j \in Inodes : dir[i].is_used /\ dir[j].is_used /\ dir[i].name = dir[j].name => i = j
  /\ \A i \in Inodes : dir[i].is_used /\ dir[i].inode_number <= InodeBlocks =>
                       tab[dir[i].inode_number].file_type = 1
  /\ \A i \in Inodes : dir[i].is_used /\ dir[i].inode_number < InodeBlocks =>
                       tab[dir[i].inode_number].file_size = sz[dir[i].name]

NotShared(dir) ==
  \A i, j \in Inodes :
    dir[i].is_used /\ dir[j].is_used /\ i # j /\ dir[i].inode_number = dir[j].inode_number =>
      dir[i].inode_number > InodeBlocks

\* What mount_fs would find.
Loaded == [i \in Inodes |-> InodeAfterLoad(i)]

\* The mounted tables, or the ones on the disk, are those of the files that exist.
MemInv == active => Agree(directory, inode_table, sizes)

DiskInv ==
  exists /\ ~active =>
    /\ DirectoryIn(DirBlock) \in [Inodes -> Entry] /\ IsTable(Loaded)
    /\ Agree(DirectoryIn(DirBlock), Loaded, sizes)
    /\ NotShared(DirectoryIn(DirBlock))

OpenInv ==
  /\ \A d \in DOMAIN open_file_descriptors :
       \E i \in Inodes : directory[i].is_used /\ directory[i].inode_number = InodeOf(d)
  /\ ~active => DOMAIN open_file_descriptors = {}

IInv == TypeOK /\ MemInv /\ DiskInv /\ NotShared(directory) /\ OpenInv

-----------------------------------------------------------------------------
(* Indices, and the first of a set of them                                 *)

LEMMA NumbersOK ==
  /\ MAX_NUM_OF_FILES \in Nat \ {0} /\ InodeBlocks \in Nat \ {0} /\ InodeBlocks < MAX_NUM_OF_FILES
  /\ DISK_BLOCKS \in Nat \ {0} /\ InodeBlocks + 2 < DISK_BLOCKS
  /\ MAX_FILE_DESCRIPTORS \in Nat \ {0}
  BY FileSystemAssumption, DiskAssumption

LEMMA IndexSets == Inodes \subseteq Nat /\ Descriptors \subseteq Nat
  BY NumbersOK DEF Inodes, Descriptors

\* The least element of a set of numbers.
LEMMA MinIsLeast ==
  ASSUME NEW S \in SUBSET Nat, S # {}
  PROVE  Min(S) \in S /\ \A k \in S : Min(S) <= k
  <1>1. PICK R : R = OpToRel(<, Nat) /\ IsWellFoundedOn(R, Nat)
    BY NatLessThanWellFounded
  <1>2. PICK m \in S : \A k \in S : <<k, m>> \notin R
    BY <1>1, WFMin
  <1>3. \A k \in S : ~(k < m)
    <2>1. R = {ss \in Nat \X Nat : ss[1] < ss[2]}
      BY <1>1 DEF OpToRel
    <2>2. \A k \in S : k < m => <<k, m>> \in R
      BY <2>1
    <2> QED BY <1>2, <2>2
  <1>4. \E x \in S : \A y \in S : x <= y
    <2>1. \A k \in S : m <= k
      BY <1>3
    <2> QED BY <2>1
  <1> QED BY <1>4, Zenon DEF Min

LEMMA MinInSet == ASSUME NEW S \in SUBSET Nat, S # {} PROVE Min(S) \in S
  BY MinIsLeast

LEMMA EmptyEntries == NoEntries \in [Inodes -> Entry] /\ \A i \in Inodes : ~NoEntries[i].is_used
  <1>1. 0 \in Inodes
    BY NumbersOK DEF Inodes
  <1> QED BY <1>1 DEF NoEntries, NoEntry, Entry

LEMMA EmptyInodes == IsInode(NoInode) /\ IsTable(NoInodes) /\ NoInode.file_type = 0
  BY DEF NoInode, IsInode, IsTable, NoInodes

\* Agree looks at no more of a table than the inodes on the disk.
LEMMA AgreeSame ==
  ASSUME NEW dir \in [Inodes -> Entry], NEW tab, NEW tab2, NEW sz, Agree(dir, tab, sz),
         \A i \in Inodes : i < InodeBlocks => tab2[i] = tab[i],
         tab2[InodeBlocks].file_type = tab[InodeBlocks].file_type
  PROVE  Agree(dir, tab2, sz)
  <1>1. \A i \in Inodes : dir[i].inode_number \in Inodes /\ dir[i].inode_number \in Nat
    BY IndexSets DEF Entry
  <1>2. \A i \in Inodes : dir[i].inode_number <= InodeBlocks =>
          tab2[dir[i].inode_number].file_type = tab[dir[i].inode_number].file_type
    <2> SUFFICES ASSUME NEW i \in Inodes, dir[i].inode_number <= InodeBlocks
                 PROVE  tab2[dir[i].inode_number].file_type = tab[dir[i].inode_number].file_type
      OBVIOUS
    <2>1. dir[i].inode_number < InodeBlocks \/ dir[i].inode_number = InodeBlocks
      BY <1>1, NumbersOK
    <2> QED BY <1>1, <2>1
  <1>3. \A i \in Inodes : dir[i].inode_number < InodeBlocks =>
          tab2[dir[i].inode_number].file_size = tab[dir[i].inode_number].file_size
    BY <1>1
  <1> QED BY <1>2, <1>3 DEF Agree

LEMMA NothingAgrees ==
  ASSUME NEW tab
  PROVE  Agree(NoEntries, tab, NoFiles) /\ NotShared(NoEntries)
  BY EmptyEntries DEF Agree, NotShared, NoFiles

\* Inodes as mount_fs finds them.
LoadOK ==
  /\ \A i \in Inodes : i < InodeBlocks =>
       InodeAfterLoad(i) = IF blocks[InodeBlock(i)].kind = "inode" THEN blocks[InodeBlock(i)].inode
                                                                  ELSE NoInode
  /\ IsInode(inode_table[InodeBlocks]) =>
       /\ IsInode(InodeAfterLoad(InodeBlocks))
       /\ InodeAfterLoad(InodeBlocks).file_type =
            IF blocks[InodeBlock(InodeBlocks - 1)].kind = "inode"
            THEN blocks[InodeBlock(InodeBlocks - 1)].next.file_type ELSE 0
       /\ InodeAfterLoad(InodeBlocks).file_size = inode_table[InodeBlocks].file_size
  /\ \A i \in Inodes : i > InodeBlocks => InodeAfterLoad(i) = inode_table[i]

LEMMA LoadFacts == LoadOK
  <1>1. ASSUME NEW i \in Inodes, i < InodeBlocks
        PROVE  InodeAfterLoad(i) = IF blocks[InodeBlock(i)].kind = "inode"
                                   THEN blocks[InodeBlock(i)].inode ELSE NoInode
    <2>1. i # InodeBlocks /\ ~(i > InodeBlocks)
      BY <1>1, IndexSets, NumbersOK
    <2> QED BY <1>1, <2>1 DEF InodeAfterLoad
  <1>2. ASSUME NEW i \in Inodes, i > InodeBlocks PROVE InodeAfterLoad(i) = inode_table[i]
    <2>1. i # InodeBlocks /\ ~(i < InodeBlocks)
      BY <1>2, IndexSets, NumbersOK
    <2> QED BY <1>2, <2>1 DEF InodeAfterLoad
  <1>3. ASSUME IsInode(inode_table[InodeBlocks])
        PROVE  /\ IsInode(InodeAfterLoad(InodeBlocks))
               /\ InodeAfterLoad(InodeBlocks).file_type =
                    IF blocks[InodeBlock(InodeBlocks - 1)].kind = "inode"
                    THEN blocks[InodeBlock(InodeBlocks - 1)].next.file_type ELSE 0
               /\ InodeAfterLoad(InodeBlocks).file_size = inode_table[InodeBlocks].file_size
    <2>1. PICK b : b = InodeBlock(InodeBlocks - 1)
      OBVIOUS
    <2>2. PICK next : next = (IF blocks[b].kind = "inode" THEN blocks[b]
                              ELSE [inode |-> NoInode, next |-> NoInode]).next
      OBVIOUS
    <2>3. ~(InodeBlocks < InodeBlocks)
      BY NumbersOK
    <2>4. \E f : InodeAfterLoad(InodeBlocks) =
                   [inode_table[InodeBlocks] EXCEPT !.file_type = next.file_type, !.direct_offset = f]
      BY <2>1, <2>2, <2>3 DEF InodeAfterLoad
    <2>5. next.file_type = IF blocks[b].kind = "inode" THEN blocks[b].next.file_type ELSE 0
      BY <2>2, EmptyInodes
    <2> QED BY <1>3, <2>1, <2>4, <2>5 DEF IsInode
  <1> QED BY <1>1, <1>2, <1>3 DEF LoadOK

LEMMA LoadFactsNext == LoadOK'
  BY LoadFacts, PTL

\* The table that mount_fs makes is one if the memory and the disk have inodes.
LEMMA LoadedIsTable ==
  ASSUME IsTable(inode_table)', 
         \A i \in Inodes : i < InodeBlocks /\ blocks'[InodeBlock(i)].kind = "inode" =>
                           IsInode(blocks'[InodeBlock(i)].inode)
  PROVE  IsTable(Loaded)'
  <1>1. InodeBlocks \in Inodes
    BY NumbersOK DEF Inodes
  <1>2. ASSUME NEW i \in Inodes PROVE IsInode(InodeAfterLoad(i)')
    <2>1. i < InodeBlocks \/ i = InodeBlocks \/ i > InodeBlocks
      BY IndexSets, NumbersOK
    <2>2. CASE i < InodeBlocks
      BY <2>2, LoadFactsNext, EmptyInodes DEF LoadOK
    <2>3. CASE i = InodeBlocks
      BY <1>1, <2>3, LoadFactsNext DEF LoadOK, IsTable
    <2>4. CASE i > InodeBlocks
      BY <2>4, LoadFactsNext DEF LoadOK, IsTable
    <2> QED BY <2>1, <2>2, <2>3, <2>4
  <1> QED BY <1>2 DEF IsTable, Loaded

-----------------------------------------------------------------------------
(* Disks                                                                   *)

LEMMA MakeFsIInv ==
  ASSUME IInv, MakeFs
  PROVE  IInv'
  <1>1. /\ ~active /\ exists' = TRUE /\ sizes' = NoFiles
        /\ blocks' = Stored(Made, [b \in {0} |-> Super(1)])
        /\ UNCHANGED <<active, open_disk_fd, inode_table, directory, open_file_descriptors>>
    BY DEF MakeFs
  <1>2. TypeOK'
    BY <1>1 DEF IInv, TypeOK, IsTable, IsInode, IsDescriptor
  <1>3. \A b \in Blocks : b # 0 => blocks'[b].kind = "bytes"
    BY <1>1 DEF Stored, Made, Blank, FileBytes
  <1>4. DirBlock \in Blocks /\ DirBlock # 0
    BY NumbersOK DEF DirBlock, Blocks
  <1>5. DirectoryIn(DirBlock)' = NoEntries
    BY <1>3, <1>4 DEF DirectoryIn
  <1>6. IsTable(Loaded)'
    <2>1. \A i \in Inodes : i < InodeBlocks => InodeBlock(i) \in Blocks /\ InodeBlock(i) # 0
      BY NumbersOK, IndexSets DEF InodeBlock, Blocks
    <2>2. \A i \in Inodes : i < InodeBlocks => blocks'[InodeBlock(i)].kind # "inode"
      BY <1>3, <2>1
    <2> QED BY <1>2, <2>2, LoadedIsTable DEF TypeOK
  <1>7. DiskInv'
    BY <1>1, <1>5, <1>6, NothingAgrees, EmptyEntries DEF DiskInv
  <1>8. MemInv' /\ NotShared(directory)' /\ OpenInv'
    BY <1>1 DEF IInv, MemInv, NotShared, OpenInv, InodeOf
  <1> QED BY <1>2, <1>7, <1>8 DEF IInv

LEMMA MakeFsMountedIInv ==
  ASSUME IInv, MakeFsMounted
  PROVE  IInv'
  <1>1. active /\ UNCHANGED <<exists, active, memVars, sizes>>
    BY DEF MakeFsMounted
  <1>2. TypeOK'
    BY <1>1 DEF IInv, TypeOK, IsTable, IsInode, IsDescriptor, memVars
  <1> QED BY <1>1, <1>2 DEF IInv, MemInv, DiskInv, NotShared, OpenInv, InodeOf, memVars

LEMMA MountIInv ==
  ASSUME IInv, Mount
  PROVE  IInv'
  <1>1. /\ exists /\ ~active /\ active' = TRUE /\ open_disk_fd' = 0
        /\ directory' = DirectoryIn(DirBlock) /\ inode_table' = Loaded
        /\ open_file_descriptors' = NoDescriptors
        /\ UNCHANGED <<exists, blocks, sizes>>
    BY DEF Mount, MayOpen, Loaded
  <1>2. /\ DirectoryIn(DirBlock) \in [Inodes -> Entry] /\ IsTable(Loaded)
        /\ Agree(DirectoryIn(DirBlock), Loaded, sizes)
        /\ NotShared(DirectoryIn(DirBlock))
    BY <1>1 DEF IInv, DiskInv
  <1>3. DOMAIN NoDescriptors = {}
    BY DEF NoDescriptors
  <1>4. TypeOK'
    BY <1>1, <1>2, <1>3 DEF IInv, TypeOK
  <1>5. MemInv' /\ DiskInv' /\ NotShared(directory')
    BY <1>1, <1>2 DEF MemInv, DiskInv
  <1>6. OpenInv'
    BY <1>1, <1>3 DEF OpenInv
  <1>7. NotShared(directory)'
    BY <1>5 DEF NotShared
  <1> QED BY <1>4, <1>5, <1>6, <1>7 DEF IInv

\* What umount_fs leaves on the disk.
LEMMA UmountBlocks ==
  ASSUME Umount
  PROVE  /\ blocks'[DirBlock] = [kind |-> "dir", entries |-> directory]
         /\ \A i \in Inodes : i < InodeBlocks => blocks'[InodeBlock(i)] = InodePair(i)
  <1>1. blocks' = Stored(blocks, Written)
    BY DEF Umount
  <1>2. DirBlock \in Blocks /\ DirBlock # 0 /\ DirBlock \in DOMAIN Written
    BY NumbersOK DEF DirBlock, Blocks, Written
  <1>3. Written[DirBlock] = [kind |-> "dir", entries |-> directory]
    BY <1>2 DEF Written
  <1>4. ASSUME NEW i \in Inodes, i < InodeBlocks PROVE blocks'[InodeBlock(i)] = InodePair(i)
    <2>1. i \in 0 .. InodeBlocks - 1
      BY <1>4, NumbersOK, IndexSets
    <2>2. /\ InodeBlock(i) \in Blocks /\ InodeBlock(i) # 0 /\ InodeBlock(i) # DirBlock
          /\ InodeBlock(i) - 2 = i
      BY <2>1, NumbersOK DEF InodeBlock, Blocks, DirBlock
    <2>3. InodeBlock(i) \in DOMAIN Written
      BY <2>1 DEF Written
    <2>4. Written[InodeBlock(i)] = InodePair(i)
      BY <2>2, <2>3 DEF Written
    <2> QED BY <1>1, <2>2, <2>3, <2>4 DEF Stored
  <1>5. blocks'[DirBlock] = [kind |-> "dir", entries |-> directory]
    BY <1>1, <1>2, <1>3 DEF Stored
  <1> QED BY <1>4, <1>5

LEMMA UmountIInv ==
  ASSUME IInv, Umount
  PROVE  IInv'
  <1>1. /\ active /\ active' = FALSE /\ open_disk_fd' = -1
        /\ open_file_descriptors' = NoDescriptors
        /\ UNCHANGED <<exists, inode_table, directory, sizes>>
    BY DEF Umount
  <1>2. DOMAIN NoDescriptors = {}
    BY DEF NoDescriptors
  <1>3. TypeOK'
    <2>1. IsTable(inode_table)' /\ directory' \in [Inodes -> Entry]
      BY <1>1 DEF IInv, TypeOK, IsTable, IsInode
    <2>2. open_disk_fd' \in {0, -1} /\ open_disk_fd' # 0
      BY <1>1
    <2>3. exists' \in BOOLEAN /\ active' \in BOOLEAN
      BY <1>1 DEF IInv, TypeOK
    <2> QED BY <1>1, <1>2, <2>1, <2>2, <2>3 DEF TypeOK
  <1>4. DirectoryIn(DirBlock)' = directory
    BY UmountBlocks DEF DirectoryIn
  <1>5. \A i \in Inodes : i < InodeBlocks =>
          /\ blocks'[InodeBlock(i)].kind = "inode"
          /\ blocks'[InodeBlock(i)].inode = inode_table[i]
          /\ blocks'[InodeBlock(i)].next = inode_table[i + 1]
    <2> SUFFICES ASSUME NEW i \in Inodes, i < InodeBlocks
                 PROVE  /\ blocks'[InodeBlock(i)].kind = "inode"
                        /\ blocks'[InodeBlock(i)].inode = inode_table[i]
                        /\ blocks'[InodeBlock(i)].next = inode_table[i + 1]
      OBVIOUS
    <2>1. blocks'[InodeBlock(i)] = InodePair(i)
      BY UmountBlocks
    <2> QED BY <2>1 DEF InodePair
  <1>6. IsTable(Loaded)'
    BY <1>1, <1>3, <1>5, LoadedIsTable DEF TypeOK, IInv, IsTable
  <1>7. \A i \in Inodes : i < InodeBlocks => Loaded'[i] = inode_table[i]
    BY <1>5, LoadFactsNext DEF LoadOK, Loaded
  <1>8. Loaded'[InodeBlocks].file_type = inode_table[InodeBlocks].file_type
    <2>1. InodeBlocks \in Inodes /\ InodeBlocks - 1 \in Inodes /\ InodeBlocks - 1 < InodeBlocks
          /\ (InodeBlocks - 1) + 1 = InodeBlocks
      BY NumbersOK DEF Inodes
    <2>2. IsInode(inode_table'[InodeBlocks])
      BY <1>3, <2>1 DEF TypeOK, IsTable
    <2>3. InodeAfterLoad(InodeBlocks)'.file_type = inode_table[InodeBlocks].file_type
      BY <1>5, <2>1, <2>2, LoadFactsNext DEF LoadOK
    <2> QED BY <2>1, <2>3 DEF Loaded
  <1>9. Agree(directory, Loaded', sizes)
    BY <1>1, <1>7, <1>8, AgreeSame DEF IInv, MemInv, TypeOK
  <1>10. DiskInv'
    BY <1>1, <1>4, <1>6, <1>9 DEF IInv, TypeOK, DiskInv
  <1>11. MemInv' /\ NotShared(directory)' /\ OpenInv'
    BY <1>1, <1>2 DEF IInv, MemInv, NotShared, OpenInv
  <1> QED BY <1>3, <1>10, <1>11 DEF IInv

LEMMA RestartIInv ==
  ASSUME IInv, Restart
  PROVE  IInv'
  <1>1. /\ ~active /\ exists /\ inode_table' = NoInodes /\ directory' = NoEntries
        /\ UNCHANGED <<exists, active, blocks, open_disk_fd, open_file_descriptors, sizes>>
    BY DEF Restart, diskVars
  <1>2. TypeOK'
    BY <1>1, EmptyEntries, EmptyInodes DEF IInv, TypeOK, IsTable, IsInode, IsDescriptor
  <1>3. DirectoryIn(DirBlock)' = DirectoryIn(DirBlock)
    BY <1>1 DEF DirectoryIn
  <1>4. /\ DirectoryIn(DirBlock) \in [Inodes -> Entry] /\ IsTable(Loaded)
        /\ Agree(DirectoryIn(DirBlock), Loaded, sizes)
        /\ NotShared(DirectoryIn(DirBlock))
    BY <1>1 DEF IInv, DiskInv
  <1>5. \A i \in Inodes : i < InodeBlocks => Loaded'[i] = Loaded[i]
    BY <1>1, LoadFacts, LoadFactsNext DEF LoadOK, Loaded
  <1>6. Loaded'[InodeBlocks].file_type = Loaded[InodeBlocks].file_type
    <2>1. InodeBlocks \in Inodes
      BY NumbersOK DEF Inodes
    <2>2. IsInode(inode_table[InodeBlocks]) /\ IsInode(inode_table'[InodeBlocks])
      BY <1>2, <2>1 DEF IInv, TypeOK, IsTable
    <2> QED BY <1>1, <2>1, <2>2, LoadFacts, LoadFactsNext DEF LoadOK, Loaded
  <1>7. Agree(DirectoryIn(DirBlock), Loaded', sizes)
    BY <1>4, <1>5, <1>6, AgreeSame
  <1>8. IsTable(Loaded)'
    <2>1. \A i \in Inodes : i < InodeBlocks /\ blocks'[InodeBlock(i)].kind = "inode" =>
                            IsInode(blocks'[InodeBlock(i)].inode)
      BY <1>1, <1>4, LoadFacts DEF LoadOK, Loaded, IsTable
    <2> QED BY <1>2, <2>1, LoadedIsTable DEF TypeOK
  <1>9. DiskInv'
    BY <1>1, <1>3, <1>4, <1>7, <1>8 DEF DiskInv
  <1>10. MemInv' /\ NotShared(directory)' /\ OpenInv'
    <2>1. NotShared(directory')
      BY <1>1, NothingAgrees
    <2>2. OpenInv'
      BY <1>1 DEF IInv, OpenInv
    <2> QED BY <1>1, <2>1, <2>2 DEF MemInv, NotShared
  <1> QED BY <1>2, <1>9, <1>10 DEF IInv

-----------------------------------------------------------------------------
(* Names                                                                   *)

\* Steps that change descriptors and contents, but neither directory nor disk state.
LEMMA QuietIInv ==
  ASSUME IInv, UNCHANGED <<diskVars, open_disk_fd, inode_table, directory, sizes>>,
         DOMAIN open_file_descriptors' \subseteq Descriptors,
         \A d \in DOMAIN open_file_descriptors' :
           IsDescriptor(open_file_descriptors'[d])
           /\ \E i \in Inodes : /\ directory[i].is_used
                                /\ directory[i].inode_number = open_file_descriptors'[d].inode_number,
         ~active => DOMAIN open_file_descriptors' = {}
  PROVE  IInv'
  <1>1. TypeOK'
    <2>1. IsTable(inode_table)' /\ directory' \in [Inodes -> Entry]
      BY DEF IInv, TypeOK, IsTable, IsInode
    <2>2. \A d \in DOMAIN open_file_descriptors' : IsDescriptor(open_file_descriptors[d])'
      BY DEF IsDescriptor
    <2> QED BY <2>1, <2>2 DEF IInv, TypeOK, diskVars
  <1>2. DirectoryIn(DirBlock)' = DirectoryIn(DirBlock) /\ Loaded' = Loaded
    BY DEF DirectoryIn, Loaded, InodeAfterLoad, diskVars
  <1>3. DiskInv'
    BY <1>2 DEF IInv, DiskInv, diskVars
  <1>4. MemInv' /\ NotShared(directory)'
    BY DEF IInv, MemInv, NotShared, diskVars
  <1>5. OpenInv'
    BY DEF OpenInv, InodeOf, diskVars
  <1> QED BY <1>1, <1>3, <1>4, <1>5 DEF IInv

LEMMA UnchangedIInv ==
  ASSUME IInv, UNCHANGED <<diskVars, memVars, sizes>>
  PROVE  IInv'
  <1>1. /\ UNCHANGED <<diskVars, open_disk_fd, inode_table, directory, sizes>>
        /\ open_file_descriptors' = open_file_descriptors
    BY DEF memVars
  <1>2. \A d \in DOMAIN open_file_descriptors :
           IsDescriptor(open_file_descriptors[d])
           /\ \E i \in Inodes : /\ directory[i].is_used
                                /\ directory[i].inode_number = open_file_descriptors[d].inode_number
    BY DEF IInv, TypeOK, OpenInv, InodeOf
  <1> QED BY <1>1, <1>2, QuietIInv DEF IInv, TypeOK, OpenInv

LEMMA OpenIInv ==
  ASSUME IInv, NEW n, Open(n)
  PROVE  IInv'
  <1>1. Mounted /\ Entries(n) # {} /\ FreeDescriptors # {}
    BY DEF Open, MayFsOpen
  <1>2. PICK e : e = Min(Entries(n))
    OBVIOUS
  <1>3. e \in Inodes /\ directory[e].is_used
    <2>1. Entries(n) \in SUBSET Nat
      BY IndexSets DEF Entries
    <2>2. e \in Entries(n)
      BY <1>1, <1>2, <2>1, MinInSet
    <2> QED BY <2>2 DEF Entries
  <1>4. PICK f : f = Min(FreeDescriptors)
    OBVIOUS
  <1>5. f \in Descriptors
    <2>1. FreeDescriptors \in SUBSET Nat
      BY IndexSets DEF FreeDescriptors
    <2>2. f \in FreeDescriptors
      BY <1>1, <1>4, <2>1, MinInSet
    <2> QED BY <2>2 DEF FreeDescriptors
  <1>6. PICK x : x = [inode_number |-> directory[e].inode_number, offset |-> 0]
    OBVIOUS
  <1>7. IsDescriptor(x) /\ x.inode_number = directory[e].inode_number
    BY <1>3, <1>6 DEF IsDescriptor, IInv, TypeOK, Entry
  <1>8. /\ open_file_descriptors' = [d \in DOMAIN open_file_descriptors \cup {f} |->
                                       IF d = f THEN x ELSE open_file_descriptors[d]]
        /\ UNCHANGED <<diskVars, open_disk_fd, inode_table, directory, sizes>>
    BY <1>2, <1>4, <1>6 DEF Open
  <1>9. active
    BY <1>1 DEF Mounted, IInv, TypeOK
  <1>10. \A d \in DOMAIN open_file_descriptors :
           IsDescriptor(open_file_descriptors[d])
           /\ \E i \in Inodes : /\ directory[i].is_used
                                /\ directory[i].inode_number = open_file_descriptors[d].inode_number
    BY DEF IInv, TypeOK, OpenInv, InodeOf
  <1>11. DOMAIN open_file_descriptors' \subseteq Descriptors
    BY <1>5, <1>8 DEF IInv, TypeOK
  <1>12. \A d \in DOMAIN open_file_descriptors' :
           IsDescriptor(open_file_descriptors'[d])
           /\ \E i \in Inodes : /\ directory[i].is_used
                                /\ directory[i].inode_number = open_file_descriptors'[d].inode_number
    BY <1>3, <1>7, <1>8, <1>10
  <1> QED BY <1>8, <1>9, <1>11, <1>12, QuietIInv

LEMMA CloseIInv ==
  ASSUME IInv, NEW d, Close(d)
  PROVE  IInv'
  <1>1. UNCHANGED <<diskVars, open_disk_fd, inode_table, directory, sizes>>
    BY DEF Close
  <1>2. \A c \in DOMAIN open_file_descriptors :
           IsDescriptor(open_file_descriptors[c])
           /\ \E i \in Inodes : /\ directory[i].is_used
                                /\ directory[i].inode_number = open_file_descriptors[c].inode_number
    BY DEF IInv, TypeOK, OpenInv, InodeOf
  <1>3. /\ DOMAIN open_file_descriptors' \subseteq DOMAIN open_file_descriptors
        /\ \A c \in DOMAIN open_file_descriptors' : open_file_descriptors'[c] = open_file_descriptors[c]
    BY DEF Close
  <1>4. DOMAIN open_file_descriptors' \subseteq Descriptors
    BY <1>3 DEF IInv, TypeOK
  <1>5. ~active => DOMAIN open_file_descriptors' = {}
    BY <1>3 DEF IInv, OpenInv
  <1>6. \A c \in DOMAIN open_file_descriptors' :
           IsDescriptor(open_file_descriptors'[c])
           /\ \E i \in Inodes : /\ directory[i].is_used
                                /\ directory[i].inode_number = open_file_descriptors'[c].inode_number
    BY <1>2, <1>3
  <1> QED BY <1>1, <1>4, <1>5, <1>6, QuietIInv

LEMMA CreateIInv ==
  ASSUME IInv, NEW n, Create(n)
  PROVE  IInv'
  <1>1. Mounted /\ n \in Names /\ n \notin Existing /\ FreeInodes # {}
    BY DEF Create, MayCreate
  <1>2. PICK ino : ino = Min(FreeInodes)
    OBVIOUS
  <1>3. ino \in Inodes /\ inode_table[ino].file_type = 0
    <2>1. FreeInodes \in SUBSET Nat
      BY IndexSets DEF FreeInodes
    <2>2. ino \in FreeInodes
      BY <1>1, <1>2, <2>1, MinInSet
    <2> QED BY <2>2 DEF FreeInodes
  <1>4. PICK x : x = [NoInode EXCEPT !.file_type = 1]
    OBVIOUS
  <1>5. IsInode(x) /\ x.file_type = 1 /\ x.file_size = 0
    BY <1>4 DEF NoInode, IsInode
  <1>6. /\ inode_table' = [inode_table EXCEPT ![ino] = x]
        /\ UNCHANGED <<diskVars, open_disk_fd, open_file_descriptors>>
    BY <1>2, <1>4 DEF Create
  <1>7. active /\ active' /\ TypeOK /\ NotShared(directory) /\ Agree(directory, inode_table, sizes)
    BY <1>1, <1>6 DEF IInv, MemInv, Mounted, TypeOK, diskVars
  <1>8. IsTable(inode_table')
    BY <1>3, <1>5, <1>6, <1>7 DEF TypeOK, IsTable
  <1>9. /\ inode_table'[ino] = x
        /\ \A i \in Inodes : i # ino => inode_table'[i] = inode_table[i]
    BY <1>3, <1>6, <1>7 DEF TypeOK, IsTable
  <1>10. \A i \in Inodes : directory[i].inode_number \in Inodes /\ directory[i].inode_number \in Nat
    BY <1>7, IndexSets DEF TypeOK, Entry
  <1>11. \A i \in Inodes : directory[i].is_used /\ directory[i].inode_number = ino => ino > InodeBlocks
    BY <1>3, <1>7, <1>10, NumbersOK, IndexSets DEF Agree
  <1>12. \A i \in Inodes : directory[i].is_used /\ directory[i].inode_number <= InodeBlocks =>
           inode_table'[directory[i].inode_number] = inode_table[directory[i].inode_number]
    BY <1>9, <1>10, <1>11, NumbersOK, IndexSets
  <1>13. CASE FreeEntries = {}
    <2>1. UNCHANGED <<directory, sizes>>
      BY <1>13 DEF Create
    <2>2. Agree(directory, inode_table', sizes)
      BY <1>7, <1>10, <1>12, NumbersOK DEF Agree
    <2>3. TypeOK'
      BY <1>6, <1>7, <1>8, <2>1 DEF TypeOK, diskVars, IsTable, IsInode, IsDescriptor
    <2>4. MemInv' /\ DiskInv' /\ NotShared(directory)'
      BY <1>7, <2>1, <2>2 DEF MemInv, DiskInv, NotShared
    <2>5. OpenInv'
      BY <1>6, <2>1 DEF IInv, OpenInv, InodeOf, diskVars
    <2> QED BY <2>3, <2>4, <2>5 DEF IInv
  <1>14. CASE FreeEntries # {}
    <2>1. PICK e : e = Min(FreeEntries)
      OBVIOUS
    <2>2. e \in Inodes /\ ~directory[e].is_used
      <3>1. FreeEntries \in SUBSET Nat
        BY IndexSets DEF FreeEntries
      <3>2. e \in FreeEntries
        BY <1>14, <2>1, <3>1, MinInSet
      <3> QED BY <3>2 DEF FreeEntries
    <2>3. PICK y : y = [is_used |-> TRUE, inode_number |-> ino, name |-> n]
      OBVIOUS
    <2>4. y \in Entry /\ y.is_used /\ y.inode_number = ino /\ y.name = n
      BY <1>1, <1>3, <2>3 DEF Entry
    <2>5. /\ directory' = [directory EXCEPT ![e] = y]
          /\ sizes' = [m \in DOMAIN sizes \cup {n} |-> IF m = n THEN 0 ELSE sizes[m]]
      BY <1>2, <1>14, <2>1, <2>3 DEF Create
    <2>6. /\ directory' \in [Inodes -> Entry] /\ directory'[e] = y
          /\ \A i \in Inodes : i # e => directory'[i] = directory[i]
      BY <1>7, <2>2, <2>4, <2>5 DEF TypeOK
    <2>7. n \notin DOMAIN sizes /\ \A i \in Inodes : directory[i].is_used => directory[i].name # n
      BY <1>1, <1>7 DEF Agree, Existing
    <2>8. TypeOK'
      BY <1>6, <1>7, <1>8, <2>6 DEF TypeOK, diskVars, IsTable, IsInode, IsDescriptor
    <2>9. Agree(directory', inode_table', sizes')
      <3>1. \A i \in Inodes : directory'[i].is_used => directory'[i].name \in DOMAIN sizes'
        BY <1>7, <2>4, <2>5, <2>6 DEF Agree
      <3>2. \A m \in DOMAIN sizes' : \E i \in Inodes : directory'[i].is_used /\ directory'[i].name = m
        BY <1>7, <2>2, <2>4, <2>5, <2>6 DEF Agree
      <3>3. \A i, j \in Inodes : directory'[i].is_used /\ directory'[j].is_used
                                 /\ directory'[i].name = directory'[j].name => i = j
        BY <1>7, <2>4, <2>6, <2>7 DEF Agree
      <3>4. \A i \in Inodes : directory'[i].is_used /\ directory'[i].inode_number <= InodeBlocks =>
                              inode_table'[directory'[i].inode_number].file_type = 1
        BY <1>5, <1>7, <1>9, <1>12, <2>4, <2>6 DEF Agree
      <3>5. \A i \in Inodes : directory'[i].is_used /\ directory'[i].inode_number < InodeBlocks =>
                              inode_table'[directory'[i].inode_number].file_size = sizes'[directory'[i].name]
        <4> SUFFICES ASSUME NEW i \in Inodes, directory'[i].is_used,
                            directory'[i].inode_number < InodeBlocks
                     PROVE  inode_table'[directory'[i].inode_number].file_size = sizes'[directory'[i].name]
          OBVIOUS
        <4>1. CASE i = e
          BY <1>5, <1>9, <2>4, <2>5, <2>6, <4>1
        <4>2. CASE i # e
          <5>1. directory'[i] = directory[i] /\ directory[i].is_used /\ directory[i].name \in DOMAIN sizes
            BY <1>7, <2>6, <4>2 DEF Agree
          <5>2. directory[i].inode_number < InodeBlocks /\ directory[i].inode_number <= InodeBlocks
            BY <1>10, <5>1, NumbersOK
          <5>3. sizes'[directory[i].name] = sizes[directory[i].name]
            BY <2>5, <2>7, <5>1
          <5> QED BY <1>7, <1>12, <5>1, <5>2, <5>3 DEF Agree
        <4> QED BY <4>1, <4>2
      <3> QED BY <3>1, <3>2, <3>3, <3>4, <3>5 DEF Agree
    <2>10. MemInv' /\ DiskInv'
      BY <1>7, <2>9 DEF MemInv, DiskInv
    <2>11. NotShared(directory')
      BY <1>7, <1>11, <2>4, <2>6 DEF NotShared
    <2>12. OpenInv'
      <3>1. \A d \in DOMAIN open_file_descriptors :
              \E i \in Inodes : directory'[i].is_used /\ directory'[i].inode_number = InodeOf(d)
        BY <2>2, <2>6 DEF IInv, OpenInv
      <3> QED BY <1>6, <1>7, <3>1 DEF OpenInv, InodeOf
    <2>13. NotShared(directory)'
      BY <2>11 DEF NotShared
    <2> QED BY <2>8, <2>10, <2>12, <2>13 DEF IInv
  <1> QED BY <1>13, <1>14

LEMMA DeleteIInv ==
  ASSUME IInv, NEW n, Delete(n)
  PROVE  IInv'
  <1>1. Mounted /\ Entries(n) # {} /\ ~IsOpen(directory[Min(Entries(n))].inode_number)
    BY DEF Delete, MayDelete
  <1>2. PICK e : e = Min(Entries(n))
    OBVIOUS
  <1>3. e \in Inodes /\ directory[e].is_used /\ directory[e].name = n
    <2>1. Entries(n) \in SUBSET Nat
      BY IndexSets DEF Entries
    <2>2. e \in Entries(n)
      BY <1>1, <1>2, <2>1, MinInSet
    <2> QED BY <2>2 DEF Entries
  <1>4. /\ directory' = [directory EXCEPT ![e] = NoEntry]
        /\ sizes' = [m \in DOMAIN sizes \ {n} |-> sizes[m]]
        /\ UNCHANGED <<diskVars, open_disk_fd, inode_table, open_file_descriptors>>
    BY <1>2 DEF Delete
  <1>5. active /\ active' /\ TypeOK /\ NotShared(directory) /\ Agree(directory, inode_table, sizes)
    BY <1>1, <1>4 DEF IInv, MemInv, Mounted, TypeOK, diskVars
  <1>6. NoEntry \in Entry /\ ~NoEntry.is_used
    <2>1. 0 \in Inodes
      BY NumbersOK DEF Inodes
    <2> QED BY <2>1 DEF NoEntry, Entry
  <1>7. /\ directory' \in [Inodes -> Entry] /\ ~directory'[e].is_used
        /\ \A i \in Inodes : i # e => directory'[i] = directory[i]
    BY <1>3, <1>4, <1>5, <1>6 DEF TypeOK
  <1>8. TypeOK'
    BY <1>4, <1>5, <1>7 DEF TypeOK, diskVars, IsTable, IsInode, IsDescriptor
  <1>9. \A i \in Inodes : directory'[i].is_used =>
          i # e /\ directory'[i] = directory[i] /\ directory[i].name # n
    BY <1>3, <1>5, <1>7 DEF Agree
  <1>10. Agree(directory', inode_table', sizes')
    <2>1. \A i \in Inodes : directory'[i].is_used =>
            directory'[i].name \in DOMAIN sizes' /\ sizes'[directory'[i].name] = sizes[directory[i].name]
      BY <1>4, <1>5, <1>9 DEF Agree
    <2>2. \A m \in DOMAIN sizes' : \E i \in Inodes : directory'[i].is_used /\ directory'[i].name = m
      <3> SUFFICES ASSUME NEW m \in DOMAIN sizes'
                   PROVE  \E i \in Inodes : directory'[i].is_used /\ directory'[i].name = m
        OBVIOUS
      <3>1. m \in DOMAIN sizes /\ m # n
        BY <1>4
      <3>2. PICK i \in Inodes : directory[i].is_used /\ directory[i].name = m
        BY <1>5, <3>1 DEF Agree
      <3> QED BY <1>3, <1>7, <3>1, <3>2
    <2>3. \A i, j \in Inodes : directory'[i].is_used /\ directory'[j].is_used
                               /\ directory'[i].name = directory'[j].name => i = j
      BY <1>5, <1>9 DEF Agree
    <2>4. \A i \in Inodes : directory'[i].is_used /\ directory'[i].inode_number <= InodeBlocks =>
                            inode_table'[directory'[i].inode_number].file_type = 1
      BY <1>4, <1>5, <1>9 DEF Agree
    <2>5. \A i \in Inodes : directory'[i].is_used /\ directory'[i].inode_number < InodeBlocks =>
                            inode_table'[directory'[i].inode_number].file_size = sizes'[directory'[i].name]
      BY <1>4, <1>5, <1>9, <2>1 DEF Agree
    <2> QED BY <2>1, <2>2, <2>3, <2>4, <2>5 DEF Agree
  <1>11. NotShared(directory')
    BY <1>5, <1>9 DEF NotShared
  <1>12. OpenInv'
    <2>1. ASSUME NEW d \in DOMAIN open_file_descriptors
          PROVE  \E i \in Inodes : directory'[i].is_used /\ directory'[i].inode_number = InodeOf(d)
      <3>1. PICK i \in Inodes : directory[i].is_used /\ directory[i].inode_number = InodeOf(d)
        BY DEF IInv, OpenInv
      <3>2. i # e
        BY <1>1, <1>2, <3>1 DEF IsOpen, InodeOf
      <3> QED BY <1>7, <3>1, <3>2
    <2> QED BY <1>4, <1>5, <2>1 DEF OpenInv, InodeOf
  <1>13. MemInv' /\ DiskInv' /\ NotShared(directory)'
    BY <1>5, <1>10, <1>11 DEF MemInv, DiskInv, NotShared
  <1> QED BY <1>8, <1>12, <1>13 DEF IInv

-----------------------------------------------------------------------------
(* Contents                                                                *)

\* Moving the offset of a descriptor.
LEMMA OffsetMoves ==
  ASSUME IInv, NEW d \in DOMAIN open_file_descriptors, NEW o,
         open_file_descriptors' = [open_file_descriptors EXCEPT ![d].offset = o]
  PROVE  /\ DOMAIN open_file_descriptors' = DOMAIN open_file_descriptors
         /\ \A c \in DOMAIN open_file_descriptors :
              /\ IsDescriptor(open_file_descriptors'[c])
              /\ open_file_descriptors'[c].inode_number = open_file_descriptors[c].inode_number
              /\ \E i \in Inodes : /\ directory[i].is_used
                                   /\ directory[i].inode_number = open_file_descriptors[c].inode_number
         /\ active
  <1>1. PICK x : x = [open_file_descriptors[d] EXCEPT !.offset = o]
    OBVIOUS
  <1>2. open_file_descriptors' = [open_file_descriptors EXCEPT ![d] = x]
    BY <1>1
  <1>3. \A c \in DOMAIN open_file_descriptors : IsDescriptor(open_file_descriptors[c])
    BY DEF IInv, TypeOK
  <1>4. IsDescriptor(x) /\ x.inode_number = open_file_descriptors[d].inode_number
    <2>1. IsDescriptor(open_file_descriptors[d])
      BY <1>3
    <2> QED BY <1>1, <2>1 DEF IsDescriptor
  <1>5. \A c \in DOMAIN open_file_descriptors :
          \E i \in Inodes : directory[i].is_used /\ directory[i].inode_number = open_file_descriptors[c].inode_number
    BY DEF IInv, OpenInv, InodeOf
  <1>6. active
    BY DEF IInv, OpenInv
  <1> QED BY <1>2, <1>3, <1>4, <1>5, <1>6

LEMMA MoveIInv ==
  ASSUME IInv, NEW d \in DOMAIN open_file_descriptors, NEW o,
         open_file_descriptors' = [open_file_descriptors EXCEPT ![d].offset = o],
         UNCHANGED <<diskVars, open_disk_fd, inode_table, directory, sizes>>
  PROVE  IInv'
  <1>1. DOMAIN open_file_descriptors' \subseteq Descriptors
    BY OffsetMoves DEF IInv, TypeOK
  <1>2. ASSUME NEW c \in DOMAIN open_file_descriptors'
        PROVE  /\ IsDescriptor(open_file_descriptors'[c])
               /\ \E i \in Inodes : /\ directory[i].is_used
                                    /\ directory[i].inode_number = open_file_descriptors'[c].inode_number
    <2>1. c \in DOMAIN open_file_descriptors
      BY OffsetMoves
    <2>2. /\ IsDescriptor(open_file_descriptors'[c])
          /\ open_file_descriptors'[c].inode_number = open_file_descriptors[c].inode_number
          /\ \E i \in Inodes : /\ directory[i].is_used
                               /\ directory[i].inode_number = open_file_descriptors[c].inode_number
      BY <2>1, OffsetMoves
    <2> QED BY <2>2
  <1>3. active
    BY OffsetMoves
  <1> QED BY <1>1, <1>2, <1>3, QuietIInv

LEMMA ReadIInv ==
  ASSUME IInv, NEW d, NEW n, Read(d, n)
  PROVE  IInv'
  <1>1. d \in DOMAIN open_file_descriptors
    BY DEF Read, Valid
  <1>2. UNCHANGED <<diskVars, open_disk_fd, inode_table, directory, sizes>>
    BY DEF Read
  <1>3. \E m : open_file_descriptors' = [open_file_descriptors EXCEPT ![d].offset = @ + m]
    BY DEF Read
  <1> QED BY <1>1, <1>2, <1>3, MoveIInv

LEMMA LseekIInv ==
  ASSUME IInv, NEW d, NEW p, Lseek(d, p)
  PROVE  IInv'
  BY MoveIInv DEF Lseek, Valid

\* A call that gives the file of descriptor d a new size.
LEMMA ResizeIInv ==
  ASSUME IInv, NEW d \in DOMAIN open_file_descriptors, NEW o, NEW size,
         open_file_descriptors' = [open_file_descriptors EXCEPT ![d].offset = o],
         IsTable(inode_table'),
         \A i \in Inodes : inode_table'[i].file_type = inode_table[i].file_type,
         \A i \in Inodes : inode_table'[i].file_size = IF i = InodeOf(d) THEN size
                                                       ELSE inode_table[i].file_size,
         sizes' = SizesAfter(InodeOf(d), size),
         UNCHANGED <<exists, active, open_disk_fd, directory>>
  PROVE  IInv'
  <1>1. PICK ino : ino = InodeOf(d)
    OBVIOUS
  <1>2. active /\ active' /\ TypeOK /\ Agree(directory, inode_table, sizes)
    BY OffsetMoves DEF IInv, MemInv
  <1>3. /\ DOMAIN open_file_descriptors' = DOMAIN open_file_descriptors
        /\ \A c \in DOMAIN open_file_descriptors :
              /\ IsDescriptor(open_file_descriptors'[c])
              /\ open_file_descriptors'[c].inode_number = open_file_descriptors[c].inode_number
              /\ \E i \in Inodes : /\ directory[i].is_used
                                   /\ directory[i].inode_number = open_file_descriptors[c].inode_number
    BY OffsetMoves
  <1>4. TypeOK'
    <2>1. IsTable(inode_table)'
      BY DEF IsTable, IsInode
    <2>2. \A c \in DOMAIN open_file_descriptors' : IsDescriptor(open_file_descriptors[c])'
      BY <1>3 DEF IsDescriptor
    <2> QED BY <1>2, <1>3, <2>1, <2>2 DEF TypeOK
  <1>5. sizes' = [n \in DOMAIN sizes |-> IF n \in NamesOf(ino) THEN size ELSE sizes[n]]
    BY <1>1 DEF SizesAfter
  <1>6. \A i \in Inodes : directory[i].is_used => (directory[i].name \in NamesOf(ino) <=> directory[i].inode_number = ino)
    BY <1>2 DEF NamesOf, Agree
  <1>7. Agree(directory, inode_table', sizes')
    <2>1. \A i \in Inodes : directory[i].inode_number \in Inodes
      BY <1>2 DEF TypeOK, Entry
    <2>2. \A i \in Inodes : directory[i].is_used => directory[i].name \in DOMAIN sizes'
      BY <1>2, <1>5 DEF Agree
    <2>3. \A n \in DOMAIN sizes' : \E i \in Inodes : directory[i].is_used /\ directory[i].name = n
      BY <1>2, <1>5 DEF Agree
    <2>4. \A i \in Inodes : directory[i].is_used /\ directory[i].inode_number <= InodeBlocks =>
                            inode_table'[directory[i].inode_number].file_type = 1
      BY <1>2, <2>1 DEF Agree
    <2>5. \A i \in Inodes : directory[i].is_used /\ directory[i].inode_number < InodeBlocks =>
                            inode_table'[directory[i].inode_number].file_size = sizes'[directory[i].name]
      <3> SUFFICES ASSUME NEW i \in Inodes, directory[i].is_used, directory[i].inode_number < InodeBlocks
                   PROVE  inode_table'[directory[i].inode_number].file_size = sizes'[directory[i].name]
        OBVIOUS
      <3>1. directory[i].name \in DOMAIN sizes
        BY <1>2 DEF Agree
      <3>2. inode_table[directory[i].inode_number].file_size = sizes[directory[i].name]
        BY <1>2 DEF Agree
      <3>3. CASE directory[i].inode_number = ino
        BY <1>1, <1>5, <1>6, <2>1, <3>1, <3>3
      <3>4. CASE directory[i].inode_number # ino
        BY <1>1, <1>5, <1>6, <2>1, <3>1, <3>2, <3>4
      <3> QED BY <3>3, <3>4
    <2> QED BY <1>2, <2>2, <2>3, <2>4, <2>5 DEF Agree
  <1>8. MemInv' /\ DiskInv' /\ NotShared(directory)'
    BY <1>2, <1>7 DEF IInv, MemInv, DiskInv, NotShared
  <1>9. OpenInv'
    BY <1>2, <1>3 DEF OpenInv, InodeOf
  <1> QED BY <1>4, <1>8, <1>9 DEF IInv

LEMMA TruncateIInv ==
  ASSUME IInv, NEW d, NEW p, Truncate(d, p)
  PROVE  IInv'
  <1>1. d \in DOMAIN open_file_descriptors
    BY DEF Truncate, Valid
  <1>2. /\ inode_table' = [inode_table EXCEPT ![InodeOf(d)].file_size = p]
        /\ open_file_descriptors' = [open_file_descriptors EXCEPT ![d].offset = TruncatedOffset(d, p)]
        /\ sizes' = SizesAfter(InodeOf(d), p)
        /\ UNCHANGED <<exists, active, open_disk_fd, directory>>
    BY DEF Truncate, diskVars
  <1>3. PICK x : x = [inode_table[InodeOf(d)] EXCEPT !.file_size = p]
    OBVIOUS
  <1>4. inode_table' = [inode_table EXCEPT ![InodeOf(d)] = x] /\ IsTable(inode_table)
        /\ InodeOf(d) \in Inodes
    BY <1>1, <1>2, <1>3 DEF IInv, TypeOK, IsDescriptor, InodeOf
  <1>5. IsInode(x) /\ x.file_type = inode_table[InodeOf(d)].file_type /\ x.file_size = p
    <2>1. IsInode(inode_table[InodeOf(d)])
      BY <1>4 DEF IsTable
    <2> QED BY <1>3, <2>1 DEF IsInode
  <1>6. /\ IsTable(inode_table')
        /\ \A i \in Inodes : inode_table'[i].file_type = inode_table[i].file_type
        /\ \A i \in Inodes : inode_table'[i].file_size = IF i = InodeOf(d) THEN p
                                                         ELSE inode_table[i].file_size
    BY <1>4, <1>5 DEF IsTable
  <1> QED BY <1>1, <1>2, <1>6, ResizeIInv

LEMMA WriteIInv ==
  ASSUME IInv, NEW d, NEW n, NEW v, Write(d, n, v)
  PROVE  IInv'
  <1>1. d \in DOMAIN open_file_descriptors
    BY DEF Write, Valid
  <1>2. \E direct, size, o :
          /\ inode_table' = [inode_table EXCEPT ![InodeOf(d)].direct_offset = direct,
                                                ![InodeOf(d)].file_size = size]
          /\ open_file_descriptors' = [open_file_descriptors EXCEPT ![d].offset = o]
          /\ sizes' = SizesAfter(InodeOf(d), size)
    BY Zenon DEF Write
  <1>3. UNCHANGED <<exists, active, open_disk_fd, directory>>
    BY DEF Write
  <1>4. PICK direct, size, o :
          /\ inode_table' = [inode_table EXCEPT ![InodeOf(d)].direct_offset = direct,
                                                ![InodeOf(d)].file_size = size]
          /\ open_file_descriptors' = [open_file_descriptors EXCEPT ![d].offset = o]
          /\ sizes' = SizesAfter(InodeOf(d), size)
    BY <1>2
  <1>5. PICK x : x = [inode_table[InodeOf(d)] EXCEPT !.direct_offset = direct, !.file_size = size]
    OBVIOUS
  <1>6. IsTable(inode_table) /\ InodeOf(d) \in Inodes
    BY <1>1 DEF IInv, TypeOK, IsDescriptor, InodeOf
  <1>7. IsInode(x) /\ x.file_type = inode_table[InodeOf(d)].file_type /\ x.file_size = size
    <2>1. IsInode(inode_table[InodeOf(d)])
      BY <1>6 DEF IsTable
    <2> QED BY <1>5, <2>1 DEF IsInode
  <1>8. inode_table' = [inode_table EXCEPT ![InodeOf(d)] = x]
    BY <1>4, <1>5, <1>6 DEF IsTable
  <1>9. /\ IsTable(inode_table')
        /\ \A i \in Inodes : inode_table'[i].file_type = inode_table[i].file_type
        /\ \A i \in Inodes : inode_table'[i].file_size = IF i = InodeOf(d) THEN size
                                                         ELSE inode_table[i].file_size
    BY <1>6, <1>7, <1>8 DEF IsTable
  <1> QED BY <1>1, <1>3, <1>4, <1>9, ResizeIInv

-----------------------------------------------------------------------------
(* The invariant, and what follows from it                                 *)

LEMMA InitIInv == Init => IInv
  <1> SUFFICES ASSUME Init PROVE IInv
    OBVIOUS
  <1>1. /\ exists = FALSE /\ active = FALSE /\ open_disk_fd = -1 /\ inode_table = NoInodes
        /\ directory = NoEntries /\ DOMAIN open_file_descriptors = {}
    BY DEF Init, DiskInit, NoDescriptors
  <1>2. TypeOK
    <2>1. open_disk_fd \in {0, -1} /\ open_disk_fd # 0
      BY <1>1
    <2>2. directory \in [Inodes -> Entry] /\ IsTable(inode_table)
      BY <1>1, EmptyEntries, EmptyInodes
    <2> QED BY <1>1, <2>1, <2>2 DEF TypeOK
  <1>3. NotShared(directory)
    BY <1>1, NothingAgrees
  <1> QED BY <1>1, <1>2, <1>3 DEF IInv, MemInv, DiskInv, OpenInv

LEMMA IInvNext == IInv /\ [Next]_vars => IInv'
  <1> SUFFICES ASSUME IInv, [Next]_vars PROVE IInv'
    OBVIOUS
  <1>1. CASE MakeFs \/ MakeFsMounted \/ Mount \/ Umount \/ Restart
    BY <1>1, MakeFsIInv, MakeFsMountedIInv, MountIInv, UmountIInv, RestartIInv
  <1>2. CASE MountRefused \/ CreateRefused \/ DeleteRefused \/ OpenRefused \/ Listfiles
             \/ Stopped \/ UNCHANGED vars
    BY <1>2, UnchangedIInv DEF MountRefused, CreateRefused, DeleteRefused, OpenRefused, Listfiles,
       Stopped, vars
  <1>3. ASSUME NEW n \in Names, Create(n) \/ Delete(n) \/ Open(n) PROVE IInv'
    BY <1>3, CreateIInv, DeleteIInv, OpenIInv
  <1>4. ASSUME NEW d \in Descriptors, Close(d) \/ GetFilesize(d) \/ Refused(d) PROVE IInv'
    BY <1>4, CloseIInv, UnchangedIInv DEF GetFilesize, Refused
  <1>5. ASSUME NEW d \in Descriptors, NEW n \in Lengths, Read(d, n) \/ \E v \in Values : Write(d, n, v)
        PROVE  IInv'
    BY <1>5, ReadIInv, WriteIInv
  <1>6. ASSUME NEW d \in Descriptors, NEW p \in Positions, Lseek(d, p) \/ Truncate(d, p)
        PROVE  IInv'
    BY <1>6, LseekIInv, TruncateIInv
  <1> QED BY <1>1, <1>2, <1>3, <1>4, <1>5, <1>6 DEF Next

LEMMA IInvHolds == Spec => []IInv
  BY InitIInv, IInvNext, PTL DEF Spec

\* A descriptor never outlives its file, through any sequence of calls: fs_delete refuses
\* an open file, umount_fs closes every descriptor, and nothing is open before mount_fs.
THEOREM DescriptorsHaveFiles == Spec => []OpenHasEntry
  <1>1. IInv => OpenHasEntry
    BY DEF IInv, OpenInv, OpenHasEntry, NamesOf
  <1> QED BY <1>1, IInvHolds, PTL

\* Through any umount_fs, end of the process, mount_fs and make_fs, the mounted directory
\* names exactly the files that should exist, and inodes that umount_fs writes in full have
\* the sizes of their files, unless mount_fs has copied more than the bitmap holds (corrupt).
THEOREM FilesSurvive == Spec => []DirectorySurvives
  <1>1. IInv => DirectorySurvives
    <2> SUFFICES ASSUME IInv, open_disk_fd = 0
                 PROVE  /\ Existing = DOMAIN sizes
                        /\ \A e \in UsedEntries : e.inode_number < InodeBlocks =>
                             inode_table[e.inode_number].file_size = sizes[e.name]
      BY DEF DirectorySurvives
    <2>1. Agree(directory, inode_table, sizes)
      BY DEF IInv, TypeOK, MemInv
    <2>2. Existing = DOMAIN sizes
      BY <2>1 DEF Agree, Existing
    <2>3. \A e \in UsedEntries : \E i \in Inodes : directory[i].is_used /\ directory[i] = e
      BY DEF UsedEntries, FreeEntries
    <2> QED BY <2>1, <2>2, <2>3 DEF Agree
  <1> QED BY <1>1, IInvHolds, PTL

\* fs_create never gives a file the inode of another one, as long as the disk keeps at
\* least the beginning of that inode.
THEOREM InodesAreExclusive == Spec => []InodesNotShared
  <1>1. IInv => InodesNotShared
    BY DEF IInv, NotShared, InodesNotShared, FreeEntries
  <1> QED BY <1>1, IInvHolds, PTL

-----------------------------------------------------------------------------
(* Programs that neither delete files nor mount a disk twice: the blocks   *)

MountsOnce == "delete" \notin Client /\ "remount" \notin Client

\* Sizes and offsets are numbers, and only inodes of the type of files are named.
NumbersInv ==
  /\ \A i \in Inodes : inode_table[i].file_size \in Nat
  /\ \A d \in DOMAIN open_file_descriptors : OffsetOf(d) \in Nat
  /\ \A i \in Inodes : directory[i].is_used => inode_table[directory[i].inode_number].file_type = 1

\* Until the disk is mounted, there is nothing on it and nothing in the tables.
FreshInv ==
  ~active => /\ inode_table = NoInodes /\ directory = NoEntries /\ used_block_bitmap = {}
             /\ exists => /\ blocks[0].count = 1
                          /\ \A b \in Blocks : b # 0 => blocks[b] = Blank

OwnedInv ==
  /\ used_block_bitmap \subseteq DataBlocks
  /\ \A p, q \in Allocated : BlockOf(p) = BlockOf(q) => p = q
  /\ \A p \in Allocated : BlockOf(p) \in used_block_bitmap
  /\ \A b \in used_block_bitmap : \E p \in Allocated : BlockOf(p) = b
  /\ active => used_block_bitmap_count = 1 + Cardinality(used_block_bitmap)

BInv == IInv /\ NumbersInv /\ FreshInv /\ OwnedInv

-----------------------------------------------------------------------------
(* Counting the elements of a set up to one of them                        *)

UpTo(S, b) == {c \in S : c <= b}

LEMMA RankBounds ==
  ASSUME NEW S \in SUBSET Nat, IsFiniteSet(S), NEW b \in S
  PROVE  /\ IsFiniteSet(UpTo(S, b))
         /\ Cardinality(UpTo(S, b)) \in 1 .. Cardinality(S)
  <1>1. UpTo(S, b) \in SUBSET S /\ b \in UpTo(S, b)
    BY DEF UpTo
  <1>2. /\ IsFiniteSet(UpTo(S, b)) /\ Cardinality(UpTo(S, b)) <= Cardinality(S)
        /\ Cardinality(S) \in Nat /\ Cardinality(UpTo(S, b)) \in Nat
    BY <1>1, FS_Subset, FS_CardinalityType
  <1>3. Cardinality(UpTo(S, b)) # 0
    BY <1>1, <1>2, FS_EmptySet
  <1> QED BY <1>2, <1>3

LEMMA RankGrows ==
  ASSUME NEW S \in SUBSET Nat, IsFiniteSet(S), NEW a \in S, NEW b \in S, a < b
  PROVE  Cardinality(UpTo(S, a)) < Cardinality(UpTo(S, b))
  <1>1. /\ UpTo(S, a) \in SUBSET UpTo(S, b)
        /\ b \in UpTo(S, b) /\ b \notin UpTo(S, a)
    <2>1. \A c \in S : c <= a => c <= b
      OBVIOUS
    <2>2. b <= b /\ ~(b <= a)
      OBVIOUS
    <2> QED BY <2>1, <2>2 DEF UpTo
  <1>2. /\ IsFiniteSet(UpTo(S, b))
        /\ Cardinality(UpTo(S, b)) \in Nat /\ Cardinality(UpTo(S, a)) \in Nat
    BY RankBounds, FS_CardinalityType
  <1>3. /\ Cardinality(UpTo(S, a)) <= Cardinality(UpTo(S, b))
        /\ Cardinality(UpTo(S, b)) = Cardinality(UpTo(S, a)) => UpTo(S, b) = UpTo(S, a)
    BY <1>1, <1>2, FS_Subset
  <1> QED BY <1>1, <1>2, <1>3

LEMMA RankUnique ==
  ASSUME NEW S \in SUBSET Nat, IsFiniteSet(S), NEW a \in S, NEW b \in S,
         Cardinality(UpTo(S, a)) = Cardinality(UpTo(S, b))
  PROVE  a = b
  <1>1. a < b \/ a = b \/ b < a
    OBVIOUS
  <1>2. Cardinality(UpTo(S, b)) \in Nat /\ Cardinality(UpTo(S, a)) \in Nat
    BY RankBounds, FS_CardinalityType
  <1> QED BY <1>1, <1>2, RankGrows

\* Every rank occurs: an injection into a finite set of the same size is onto.
LEMMA RankOccurs ==
  ASSUME NEW S \in SUBSET Nat, IsFiniteSet(S), NEW r \in 1 .. Cardinality(S)
  PROVE  \E b \in S : Cardinality(UpTo(S, b)) = r
  <1>1. PICK T : T = 1 .. Cardinality(S)
    OBVIOUS
  <1>2. PICK f : f = [b \in S |-> Cardinality(UpTo(S, b))]
    OBVIOUS
  <1>3. Cardinality(S) \in Nat /\ IsFiniteSet(T) /\ Cardinality(T) = Cardinality(S)
    BY <1>1, FS_CardinalityType, FS_Interval
  <1>4. f \in [S -> T] /\ \A b \in S : f[b] = Cardinality(UpTo(S, b))
    <2>1. \A b \in S : Cardinality(UpTo(S, b)) \in T
      BY <1>1, RankBounds
    <2> QED BY <1>2, <2>1
  <1>5. \A a, b \in S : f[a] = f[b] => a = b
    BY <1>4, RankUnique
  <1>6. f \in Injection(S, T)
    BY <1>4, <1>5 DEF Injection, IsInjective
  <1>7. f \in Surjection(S, T)
    BY <1>3, <1>6, FS_Injection
  <1>8. \E b \in S : f[b] = r
    BY <1>1, <1>7 DEF Surjection
  <1> QED BY <1>4, <1>8

\* The blocks that fs_write finds free.
LEMMA NthFreeFacts ==
  /\ DataBlocks \ used_block_bitmap \in SUBSET Nat
  /\ IsFiniteSet(DataBlocks) /\ IsFiniteSet(DataBlocks \ used_block_bitmap)
  /\ \A r \in 1 .. Cardinality(DataBlocks \ used_block_bitmap) :
       /\ NthFree(r) \in DataBlocks \ used_block_bitmap
       /\ Cardinality(UpTo(DataBlocks \ used_block_bitmap, NthFree(r))) = r
  <1>1. DataBlocks \subseteq Nat /\ IsFiniteSet(DataBlocks)
    BY NumbersOK, FS_Interval DEF DataBlocks, BitmapBlock
  <1>2. PICK free : free = DataBlocks \ used_block_bitmap
    OBVIOUS
  <1>3. free \in SUBSET Nat /\ IsFiniteSet(free)
    <2>1. free \in SUBSET DataBlocks
      BY <1>2
    <2> QED BY <1>1, <2>1, FS_Subset
  <1>4. ASSUME NEW r \in 1 .. Cardinality(free)
        PROVE  NthFree(r) \in free /\ Cardinality(UpTo(free, NthFree(r))) = r
    <2>1. NthFree(r) = CHOOSE b \in free : Cardinality(UpTo(free, b)) = r
      BY <1>2, Zenon DEF NthFree, UpTo
    <2>2. \E b \in free : Cardinality(UpTo(free, b)) = r
      BY <1>3, RankOccurs
    <2> QED BY <2>1, <2>2, Zenon
  <1> QED BY <1>1, <1>2, <1>3, <1>4

-----------------------------------------------------------------------------
(* fs_write and the blocks                                                 *)

\* The parts of a write, as its action names them.
IndexOf(d, j) == (OffsetOf(d) + j) \div BLOCK_SIZE
IndexesOf(d, n) == {IndexOf(d, j) : j \in 0 .. n - 1}
Missing(d, n) == {k \in IndexesOf(d, n) : k < DirectBlocks /\ inode_table[InodeOf(d)].direct_offset[k] = 0}
Rounds(d, n) == {k \in IndexesOf(d, n) :
                   /\ k < DirectBlocks
                   /\ Cardinality(UpTo(Missing(d, n), k)) <= Cardinality(DataBlocks \ used_block_bitmap)}
New(d, n) == Missing(d, n) \cap Rounds(d, n)
NewBlock(d, n, k) == NthFree(Cardinality(UpTo(Missing(d, n), k)))
Direct(d, n) == [k \in 0 .. DirectBlocks - 1 |->
                   IF k \in New(d, n) THEN NewBlock(d, n, k) ELSE inode_table[InodeOf(d)].direct_offset[k]]
StoredCells(d, n) == {j \in 0 .. n - 1 : IndexOf(d, j) \in Rounds(d, n)}
NewOffset(d, n) == OffsetOf(d) + Cardinality(StoredCells(d, n))
NewSize(d, n) == IF StoredCells(d, n) = {} THEN inode_table[InodeOf(d)].file_size
                 ELSE Max({inode_table[InodeOf(d)].file_size, NewOffset(d, n)})

LEMMA WriteFacts ==
  ASSUME NEW d, NEW n, NEW v, Write(d, n, v)
  PROVE  /\ used_block_bitmap' = used_block_bitmap \cup {Direct(d, n)[k] : k \in New(d, n)}
         /\ used_block_bitmap_count' = (used_block_bitmap_count + Cardinality(New(d, n))) % 2 ^ CountWidth
         /\ inode_table' = [inode_table EXCEPT ![InodeOf(d)].direct_offset = Direct(d, n),
                                               ![InodeOf(d)].file_size = NewSize(d, n)]
         /\ open_file_descriptors' = [open_file_descriptors EXCEPT ![d].offset = NewOffset(d, n)]
  BY Zenon DEF Write, IndexOf, IndexesOf, Missing, Rounds, New, NewBlock, Direct, StoredCells,
     NewOffset, NewSize, UpTo

\* The blocks a write allocates are free ones, one for each index that had none.
LEMMA NewBlocks ==
  ASSUME BInv, NEW d \in DOMAIN open_file_descriptors, NEW n \in Nat
  PROVE  /\ New(d, n) \subseteq 0 .. DirectBlocks - 1 /\ IsFiniteSet(New(d, n))
         /\ \A k \in New(d, n) : NewBlock(d, n, k) \in DataBlocks \ used_block_bitmap
         /\ \A k, l \in New(d, n) : NewBlock(d, n, k) = NewBlock(d, n, l) => k = l
         /\ \A k \in New(d, n) : inode_table[InodeOf(d)].direct_offset[k] = 0
  <1>1. OffsetOf(d) \in Nat /\ BLOCK_SIZE \in Nat \ {0} /\ DirectBlocks \in Nat \ {0}
    BY DiskAssumption, FileSystemAssumption DEF BInv, NumbersInv
  <1>2. PICK m : m = Missing(d, n)
    OBVIOUS
  <1>3. \A j \in 0 .. n - 1 : IndexOf(d, j) \in Nat
    <2> SUFFICES ASSUME NEW j \in 0 .. n - 1 PROVE IndexOf(d, j) \in Nat
      OBVIOUS
    <2>1. OffsetOf(d) + j \in Nat
      BY <1>1
    <2>2. ASSUME NEW a \in Nat, NEW b \in Nat \ {0} PROVE a \div b \in Nat
      OBVIOUS
    <2> QED BY <1>1, <2>1, <2>2 DEF IndexOf
  <1>4. IndexesOf(d, n) \subseteq Nat
    BY <1>3 DEF IndexesOf
  <1>5. m \in SUBSET (0 .. DirectBlocks - 1)
    BY <1>1, <1>2, <1>4 DEF Missing
  <1>6. m \in SUBSET Nat /\ IsFiniteSet(m)
    <2>1. IsFiniteSet(0 .. DirectBlocks - 1)
      BY <1>1, FS_Interval
    <2>2. IsFiniteSet(m)
      BY <1>5, <2>1, FS_Subset
    <2> QED BY <1>5, <2>2
  <1>7. New(d, n) \in SUBSET m /\ IsFiniteSet(New(d, n))
    BY <1>2, <1>6, FS_Subset DEF New
  <1>8. ASSUME NEW k \in New(d, n)
        PROVE  Cardinality(UpTo(m, k)) \in 1 .. Cardinality(DataBlocks \ used_block_bitmap)
    <2>1. k \in m /\ Cardinality(UpTo(m, k)) <= Cardinality(DataBlocks \ used_block_bitmap)
      BY <1>2, <1>7 DEF New, Rounds
    <2>2. Cardinality(UpTo(m, k)) \in 1 .. Cardinality(m) /\ Cardinality(m) \in Nat
      BY <1>6, <2>1, RankBounds, FS_CardinalityType
    <2>3. Cardinality(DataBlocks \ used_block_bitmap) \in Nat
      BY NthFreeFacts, FS_CardinalityType
    <2> QED BY <2>1, <2>2, <2>3
  <1>9. \A k \in New(d, n) : NewBlock(d, n, k) \in DataBlocks \ used_block_bitmap
    BY <1>2, <1>8, NthFreeFacts DEF NewBlock
  <1>10. ASSUME NEW k \in New(d, n), NEW l \in New(d, n), NewBlock(d, n, k) = NewBlock(d, n, l)
         PROVE  k = l
    <2>1. /\ Cardinality(UpTo(DataBlocks \ used_block_bitmap, NewBlock(d, n, k))) = Cardinality(UpTo(m, k))
          /\ Cardinality(UpTo(DataBlocks \ used_block_bitmap, NewBlock(d, n, l))) = Cardinality(UpTo(m, l))
      BY <1>2, <1>8, NthFreeFacts DEF NewBlock
    <2>2. Cardinality(UpTo(m, k)) = Cardinality(UpTo(m, l))
      BY <1>10, <2>1
    <2> QED BY <1>6, <1>7, <2>2, RankUnique
  <1>11. \A k \in New(d, n) : inode_table[InodeOf(d)].direct_offset[k] = 0
    BY DEF New, Missing
  <1> QED BY <1>5, <1>7, <1>9, <1>10, <1>11

\* A set of n new blocks raises the number of used ones by n, which stays below DISK_BLOCKS.
LEMMA UsedGrows ==
  ASSUME NEW used \in SUBSET DataBlocks, NEW S, IsFiniteSet(S), NEW g \in [S -> DataBlocks \ used],
         \A k, l \in S : g[k] = g[l] => k = l
  PROVE  /\ used \cup {g[k] : k \in S} \in SUBSET DataBlocks
         /\ Cardinality(used \cup {g[k] : k \in S}) = Cardinality(used) + Cardinality(S)
         /\ Cardinality(used) \in Nat /\ Cardinality(S) \in Nat
         /\ Cardinality(used) + Cardinality(S) < DISK_BLOCKS
  <1>1. PICK N : N = {g[k] : k \in S}
    OBVIOUS
  <1>2. N \subseteq DataBlocks \ used /\ \A x \in N : \E k \in S : g[k] = x
    BY <1>1
  <1>3. g \in [S -> N]
    BY <1>1
  <1>4. g \in Surjection(S, N) /\ g \in Injection(S, N)
    <2>1. \A x \in N : \E k \in S : g[k] = x
      BY <1>2
    <2>2. IsInjective(g)
      BY <1>3 DEF IsInjective
    <2> QED BY <1>3, <2>1, <2>2 DEF Surjection, Injection
  <1>5. Cardinality(N) = Cardinality(S) /\ IsFiniteSet(N)
    BY <1>4, FS_Surjection
  <1>6. IsFiniteSet(DataBlocks) /\ Cardinality(DataBlocks) = DISK_BLOCKS - 1 /\ DISK_BLOCKS \in Nat
    BY NumbersOK, FS_Interval DEF DataBlocks, BitmapBlock
  <1>7. IsFiniteSet(used) /\ Cardinality(used) \in Nat /\ Cardinality(S) \in Nat
    BY <1>6, FS_Subset, FS_CardinalityType
  <1>8. used \cup N \in SUBSET DataBlocks /\ used \cap N = {}
    BY <1>2
  <1>9. Cardinality(used \cup N) = Cardinality(used) + Cardinality(N)
    <2>1. Cardinality(used \cap N) = 0
      BY <1>8, FS_EmptySet
    <2>2. Cardinality(used \cup N) = Cardinality(used) + Cardinality(N) - Cardinality(used \cap N)
      BY <1>5, <1>7, FS_Union
    <2> QED BY <1>5, <1>7, <2>1, <2>2
  <1>10. Cardinality(used \cup N) <= DISK_BLOCKS - 1
    BY <1>6, <1>8, FS_Subset
  <1> QED BY <1>1, <1>5, <1>6, <1>7, <1>8, <1>9, <1>10

LEMMA NothingAllocated ==
  ASSUME \A i \in Inodes : inode_table'[i].file_type = 0, used_block_bitmap' = {},
         active' => used_block_bitmap_count' = 1
  PROVE  OwnedInv'
  <1>1. Allocated' = {}
    BY DEF Allocated
  <1>2. Cardinality({}) = 0
    BY FS_EmptySet
  <1> QED BY <1>1, <1>2 DEF OwnedInv

LEMMA OwnedFrame ==
  ASSUME OwnedInv, UNCHANGED <<used_block_bitmap, used_block_bitmap_count, active>>,
         \A p \in Inodes \X (0 .. DirectBlocks - 1) : p \in Allocated' <=> p \in Allocated,
         \A p \in Allocated : BlockOf(p)' = BlockOf(p)
  PROVE  OwnedInv'
  <1>1. Allocated' = Allocated
    BY DEF Allocated
  <1> QED BY <1>1 DEF OwnedInv

LEMMA FreshMakeFs ==
  ASSUME BInv, MountsOnce, MakeFs
  PROVE  NumbersInv' /\ FreshInv' /\ OwnedInv'
  <1>1. /\ ~active /\ exists' = TRUE /\ used_block_bitmap' = {}
        /\ blocks' = Stored(Made, [b \in {0} |-> Super(1)])
        /\ UNCHANGED <<active, inode_table, directory, open_file_descriptors>>
    BY DEF MakeFs
  <1>2. inode_table = NoInodes /\ directory = NoEntries
    BY <1>1 DEF BInv, FreshInv
  <1>3. \A i \in Inodes : inode_table'[i].file_type = 0
    BY <1>1, <1>2 DEF NoInodes, NoInode
  <1>4. OwnedInv'
    BY <1>1, <1>3, NothingAllocated
  <1>5. NumbersInv'
    BY <1>1 DEF BInv, NumbersInv, OffsetOf
  <1>6. blocks'[0].count = 1 /\ \A b \in Blocks : b # 0 => blocks'[b] = Blank
    <2>1. 0 \in Blocks
      BY NumbersOK DEF Blocks
    <2> QED BY <1>1, <2>1 DEF Stored, Made, Super
  <1> QED BY <1>1, <1>2, <1>4, <1>5, <1>6 DEF FreshInv

\* The first mount_fs finds an empty disk.
LEMMA MountedEmpty ==
  ASSUME BInv, Mount
  PROVE  /\ active' = TRUE /\ DOMAIN open_file_descriptors' = {}
         /\ used_block_bitmap' = {} /\ used_block_bitmap_count' = 1
         /\ directory' = NoEntries
         /\ \A i \in Inodes : inode_table'[i].file_type = 0 /\ inode_table'[i].file_size = 0
  <1>1. /\ exists /\ ~active /\ active' = TRUE
        /\ used_block_bitmap_count' = blocks[0].count
        /\ directory' = DirectoryIn(DirBlock) /\ inode_table' = Loaded
        /\ DOMAIN open_file_descriptors' = {}
    BY DEF Mount, MayOpen, Loaded, NoDescriptors
  <1>2. /\ inode_table = NoInodes /\ directory = NoEntries /\ used_block_bitmap = {}
        /\ blocks[0].count = 1
        /\ \A b \in Blocks : b # 0 => blocks[b] = Blank
    BY <1>1 DEF BInv, FreshInv
  <1>3. Blank.kind = "bytes"
    BY DEF Blank, FileBytes
  <1>4. DirBlock \in Blocks /\ DirBlock # 0 /\ BitmapBlock \in Blocks /\ BitmapBlock # 0
    BY NumbersOK DEF DirBlock, Blocks, BitmapBlock
  <1>5. directory' = NoEntries
    BY <1>1, <1>2, <1>3, <1>4 DEF DirectoryIn
  <1>6. used_block_bitmap' = {}
    <2>1. \A count : BitsIn(count) = {{}}
      BY <1>2, <1>4 DEF BitsIn
    <2> QED BY <1>2, <2>1 DEF Mount
  <1>7. ASSUME NEW i \in Inodes PROVE inode_table'[i].file_type = 0 /\ inode_table'[i].file_size = 0
    <2>1. \A j \in Inodes : inode_table[j] = NoInode
      BY <1>2 DEF NoInodes
    <2>2. NoInode.file_type = 0 /\ NoInode.file_size = 0
      BY DEF NoInode
    <2>3. i < InodeBlocks \/ i = InodeBlocks \/ i > InodeBlocks
      BY IndexSets, NumbersOK
    <2>4. inode_table'[i] = InodeAfterLoad(i)
      BY <1>1 DEF Loaded
    <2>5. CASE i < InodeBlocks
      <3>1. InodeBlock(i) \in Blocks /\ InodeBlock(i) # 0
        BY <2>5, NumbersOK, IndexSets DEF InodeBlock, Blocks
      <3>2. blocks[InodeBlock(i)].kind # "inode"
        BY <1>2, <1>3, <3>1
      <3> QED BY <2>2, <2>4, <2>5, <3>2, LoadFacts DEF LoadOK
    <2>6. CASE i = InodeBlocks
      <3>1. InodeBlock(InodeBlocks - 1) \in Blocks /\ InodeBlock(InodeBlocks - 1) # 0
        BY NumbersOK DEF InodeBlock, Blocks
      <3>2. blocks[InodeBlock(InodeBlocks - 1)].kind # "inode"
        BY <1>2, <1>3, <3>1
      <3>3. IsInode(inode_table[InodeBlocks])
        BY <2>1, <2>6, EmptyInodes
      <3> QED BY <2>1, <2>2, <2>4, <2>6, <3>2, <3>3, LoadFacts DEF LoadOK
    <2>7. CASE i > InodeBlocks
      BY <2>1, <2>2, <2>4, <2>7, LoadFacts DEF LoadOK
    <2> QED BY <2>3, <2>5, <2>6, <2>7
  <1> QED BY <1>1, <1>2, <1>5, <1>6, <1>7

LEMMA FreshMount ==
  ASSUME BInv, Mount
  PROVE  NumbersInv' /\ FreshInv' /\ OwnedInv'
  <1>1. OwnedInv'
    BY MountedEmpty, NothingAllocated
  <1>2. NumbersInv'
    BY MountedEmpty, EmptyEntries DEF NumbersInv
  <1>3. FreshInv'
    BY MountedEmpty DEF FreshInv
  <1> QED BY <1>1, <1>2, <1>3

LEMMA OwnedCreate ==
  ASSUME BInv, NEW n, Create(n)
  PROVE  NumbersInv' /\ FreshInv' /\ OwnedInv'
  <1>1. Mounted /\ FreeInodes # {}
    BY DEF Create, MayCreate
  <1>2. PICK ino : ino = Min(FreeInodes)
    OBVIOUS
  <1>3. ino \in Inodes /\ inode_table[ino].file_type = 0
    <2>1. FreeInodes \in SUBSET Nat
      BY IndexSets DEF FreeInodes
    <2>2. ino \in FreeInodes
      BY <1>1, <1>2, <2>1, MinInSet
    <2> QED BY <2>2 DEF FreeInodes
  <1>4. PICK x : x = [NoInode EXCEPT !.file_type = 1]
    OBVIOUS
  <1>5. x.file_type = 1 /\ x.file_size = 0 /\ \A k \in 0 .. DirectBlocks - 1 : x.direct_offset[k] = 0
    BY <1>4 DEF NoInode
  <1>6. /\ inode_table' = [inode_table EXCEPT ![ino] = x]
        /\ UNCHANGED <<diskVars, open_disk_fd, used_block_bitmap, used_block_bitmap_count,
                       open_file_descriptors>>
    BY <1>2, <1>4 DEF Create
  <1>7. TypeOK /\ OwnedInv /\ NumbersInv /\ active /\ active'
    BY <1>1, <1>6 DEF BInv, IInv, TypeOK, Mounted, diskVars
  <1>8. /\ inode_table'[ino] = x
        /\ \A i \in Inodes : i # ino => inode_table'[i] = inode_table[i]
    BY <1>3, <1>6, <1>7 DEF TypeOK, IsTable
  <1>9. \A p \in Inodes \X (0 .. DirectBlocks - 1) : p \in Allocated' <=> p \in Allocated
    <2> SUFFICES ASSUME NEW p \in Inodes \X (0 .. DirectBlocks - 1)
                 PROVE  p \in Allocated' <=> p \in Allocated
      OBVIOUS
    <2>1. CASE p[1] = ino
      BY <1>3, <1>5, <1>8, <2>1 DEF Allocated
    <2>2. CASE p[1] # ino
      BY <1>8, <2>2 DEF Allocated
    <2> QED BY <2>1, <2>2
  <1>10. \A p \in Allocated : BlockOf(p)' = BlockOf(p)
    BY <1>3, <1>8 DEF Allocated, BlockOf
  <1>11. OwnedInv'
    BY <1>6, <1>7, <1>9, <1>10, OwnedFrame DEF diskVars
  <1>12. FreshInv'
    BY <1>7 DEF FreshInv
  <1>13. \A i \in Inodes : inode_table'[i].file_size \in Nat
    BY <1>5, <1>7, <1>8 DEF NumbersInv
  <1>14. \A d \in DOMAIN open_file_descriptors' : OffsetOf(d)' \in Nat
    BY <1>6, <1>7 DEF NumbersInv, OffsetOf
  <1>15. \A i \in Inodes : directory[i].inode_number \in Inodes
    BY <1>7 DEF TypeOK, Entry
  <1>16. \A i \in Inodes : directory[i].is_used => inode_table'[directory[i].inode_number].file_type = 1
    BY <1>5, <1>7, <1>8, <1>15 DEF NumbersInv
  <1>17. \A i \in Inodes : directory'[i].is_used => inode_table'[directory'[i].inode_number].file_type = 1
    <2>1. CASE FreeEntries = {}
      BY <1>16, <2>1 DEF Create
    <2>2. CASE FreeEntries # {}
      <3>1. PICK y : y = [is_used |-> TRUE, inode_number |-> ino, name |-> n]
        OBVIOUS
      <3>2. y.inode_number = ino
        BY <3>1
      <3>3. \E e : directory' = [directory EXCEPT ![e] = y]
        BY <1>2, <2>2, <3>1 DEF Create
      <3>4. \A i \in Inodes : directory'[i] = y \/ directory'[i] = directory[i]
        BY <1>7, <3>3 DEF TypeOK
      <3> QED BY <1>5, <1>8, <1>16, <3>2, <3>4
    <2> QED BY <2>1, <2>2
  <1> QED BY <1>11, <1>12, <1>13, <1>14, <1>17 DEF NumbersInv

\* Descriptors come and go; the tables stay.
LEMMA OwnedQuiet ==
  ASSUME BInv,
         UNCHANGED <<diskVars, used_block_bitmap, used_block_bitmap_count, inode_table, directory>>,
         \A d \in DOMAIN open_file_descriptors' : open_file_descriptors'[d].offset \in Nat
  PROVE  NumbersInv' /\ FreshInv' /\ OwnedInv'
  <1>1. Allocated' = Allocated /\ \A p : BlockOf(p)' = BlockOf(p)
    BY DEF Allocated, BlockOf
  <1>2. OwnedInv'
    BY <1>1 DEF BInv, OwnedInv, diskVars
  <1>3. NumbersInv'
    BY DEF BInv, NumbersInv, OffsetOf
  <1>4. FreshInv'
    BY DEF BInv, FreshInv, diskVars
  <1> QED BY <1>2, <1>3, <1>4

LEMMA OffsetsAre ==
  ASSUME BInv
  PROVE  \A d \in DOMAIN open_file_descriptors : /\ open_file_descriptors[d].offset \in Nat
                                                /\ IsDescriptor(open_file_descriptors[d])
  BY DEF BInv, NumbersInv, OffsetOf, IInv, TypeOK

LEMMA OwnedUnchanged ==
  ASSUME BInv, UNCHANGED <<diskVars, memVars>>
  PROVE  NumbersInv' /\ FreshInv' /\ OwnedInv'
  BY OffsetsAre, OwnedQuiet DEF memVars

LEMMA OwnedOpen ==
  ASSUME BInv, NEW n, Open(n)
  PROVE  NumbersInv' /\ FreshInv' /\ OwnedInv'
  <1>1. UNCHANGED <<diskVars, used_block_bitmap, used_block_bitmap_count, inode_table, directory>>
    BY DEF Open
  <1>2. \E f, ino : open_file_descriptors' =
                      [d \in DOMAIN open_file_descriptors \cup {f} |->
                         IF d = f THEN [inode_number |-> ino, offset |-> 0] ELSE open_file_descriptors[d]]
    BY DEF Open
  <1>3. PICK f, ino : open_file_descriptors' =
                      [d \in DOMAIN open_file_descriptors \cup {f} |->
                         IF d = f THEN [inode_number |-> ino, offset |-> 0] ELSE open_file_descriptors[d]]
    BY <1>2
  <1>4. \A d \in DOMAIN open_file_descriptors' : open_file_descriptors'[d].offset \in Nat
    BY <1>3, OffsetsAre
  <1> QED BY <1>1, <1>4, OwnedQuiet

LEMMA OwnedClose ==
  ASSUME BInv, NEW d, Close(d)
  PROVE  NumbersInv' /\ FreshInv' /\ OwnedInv'
  <1>1. UNCHANGED <<diskVars, used_block_bitmap, used_block_bitmap_count, inode_table, directory>>
    BY DEF Close
  <1>2. /\ DOMAIN open_file_descriptors' \subseteq DOMAIN open_file_descriptors
        /\ \A c \in DOMAIN open_file_descriptors' : open_file_descriptors'[c] = open_file_descriptors[c]
    BY DEF Close
  <1> QED BY <1>1, <1>2, OffsetsAre, OwnedQuiet

LEMMA OffsetsMove ==
  ASSUME BInv, NEW d \in DOMAIN open_file_descriptors, NEW o \in Nat,
         open_file_descriptors' = [open_file_descriptors EXCEPT ![d].offset = o]
  PROVE  \A c \in DOMAIN open_file_descriptors' : open_file_descriptors'[c].offset \in Nat
  <1>1. PICK x : x = [open_file_descriptors[d] EXCEPT !.offset = o]
    OBVIOUS
  <1>2. open_file_descriptors' = [open_file_descriptors EXCEPT ![d] = x]
    BY <1>1
  <1>3. x.offset = o
    <2>1. IsDescriptor(open_file_descriptors[d])
      BY OffsetsAre
    <2> QED BY <1>1, <2>1 DEF IsDescriptor
  <1> QED BY <1>2, <1>3, OffsetsAre

LEMMA OwnedRead ==
  ASSUME BInv, NEW d, NEW n \in Nat, Read(d, n)
  PROVE  NumbersInv' /\ FreshInv' /\ OwnedInv'
  <1>1. d \in DOMAIN open_file_descriptors
    BY DEF Read, Valid
  <1>2. UNCHANGED <<diskVars, used_block_bitmap, used_block_bitmap_count, inode_table, directory>>
    BY DEF Read
  <1>3. PICK m : m = BytesToRead(inode_table[InodeOf(d)].file_size, OffsetOf(d), n)
    OBVIOUS
  <1>4. open_file_descriptors' = [open_file_descriptors EXCEPT ![d].offset = @ + m]
    BY <1>3 DEF Read
  <1>5. m \in Nat
    <2>1. InodeOf(d) \in Inodes
      BY <1>1, OffsetsAre DEF IsDescriptor, InodeOf
    <2>2. inode_table[InodeOf(d)].file_size \in Nat /\ OffsetOf(d) \in Nat
      BY <1>1, <2>1 DEF BInv, NumbersInv
    <2>3. PICK size, off : size = inode_table[InodeOf(d)].file_size /\ off = OffsetOf(d)
      OBVIOUS
    <2>4. CASE off > size
      BY <1>3, <2>3, <2>4 DEF BytesToRead
    <2>5. CASE ~(off > size)
      <3>1. {n, size - off} \in SUBSET Nat
        BY <2>2, <2>3, <2>5
      <3>2. Min({n, size - off}) \in Nat
        BY <3>1, MinInSet
      <3> QED BY <1>3, <2>3, <2>5, <3>2 DEF BytesToRead
    <2> QED BY <2>4, <2>5
  <1>6. open_file_descriptors[d].offset + m \in Nat
    BY <1>1, <1>5, OffsetsAre
  <1>7. \A c \in DOMAIN open_file_descriptors' : open_file_descriptors'[c].offset \in Nat
    BY <1>1, <1>4, <1>6, OffsetsMove
  <1> QED BY <1>2, <1>7, OwnedQuiet

LEMMA OwnedLseek ==
  ASSUME BInv, NEW d, NEW p \in Nat, Lseek(d, p)
  PROVE  NumbersInv' /\ FreshInv' /\ OwnedInv'
  <1>1. d \in DOMAIN open_file_descriptors
    BY DEF Lseek, Valid
  <1>2. /\ UNCHANGED <<diskVars, used_block_bitmap, used_block_bitmap_count, inode_table, directory>>
        /\ open_file_descriptors' = [open_file_descriptors EXCEPT ![d].offset = p]
    BY DEF Lseek
  <1> QED BY <1>1, <1>2, OffsetsMove, OwnedQuiet

\* A new size and, for some indexes that had no block, blocks.
LEMMA InodeChange ==
  ASSUME BInv, NEW d \in DOMAIN open_file_descriptors, NEW x, inode_table' = [inode_table EXCEPT ![InodeOf(d)] = x]
  PROVE  /\ InodeOf(d) \in Inodes /\ inode_table'[InodeOf(d)] = x
         /\ inode_table[InodeOf(d)].file_type = 1
         /\ \A i \in Inodes : i # InodeOf(d) => inode_table'[i] = inode_table[i]
         /\ active
  <1>1. InodeOf(d) \in Inodes
    BY OffsetsAre DEF IsDescriptor, InodeOf
  <1>2. DOMAIN inode_table = Inodes
    BY DEF BInv, IInv, TypeOK, IsTable
  <1>3. PICK i \in Inodes : directory[i].is_used /\ directory[i].inode_number = InodeOf(d)
    BY DEF BInv, IInv, OpenInv
  <1>4. inode_table[InodeOf(d)].file_type = 1
    BY <1>3 DEF BInv, NumbersInv
  <1>5. active
    BY DEF BInv, IInv, OpenInv
  <1> QED BY <1>1, <1>2, <1>4, <1>5

LEMMA NumbersChange ==
  ASSUME BInv, NEW d \in DOMAIN open_file_descriptors, NEW x, inode_table' = [inode_table EXCEPT ![InodeOf(d)] = x],
         x.file_type = inode_table[InodeOf(d)].file_type, x.file_size \in Nat, NEW o \in Nat,
         open_file_descriptors' = [open_file_descriptors EXCEPT ![d].offset = o], UNCHANGED <<directory, active>>
  PROVE  NumbersInv' /\ FreshInv'
  <1>1. /\ InodeOf(d) \in Inodes /\ inode_table'[InodeOf(d)] = x
        /\ \A i \in Inodes : i # InodeOf(d) => inode_table'[i] = inode_table[i]
        /\ active
    BY InodeChange
  <1>2. \A i \in Inodes : inode_table'[i].file_size \in Nat /\ inode_table'[i].file_type = inode_table[i].file_type
    BY <1>1 DEF BInv, NumbersInv
  <1>3. \A c \in DOMAIN open_file_descriptors' : OffsetOf(c)' \in Nat
    BY OffsetsMove DEF OffsetOf
  <1>4. \A i \in Inodes : directory[i].inode_number \in Inodes
    BY DEF BInv, IInv, TypeOK, Entry
  <1>5. \A i \in Inodes : directory'[i].is_used => inode_table'[directory'[i].inode_number].file_type = 1
    BY <1>2, <1>4 DEF BInv, NumbersInv
  <1> QED BY <1>1, <1>2, <1>3, <1>5 DEF NumbersInv, FreshInv

LEMMA OwnedTruncate ==
  ASSUME BInv, NEW d, NEW p \in Nat, Truncate(d, p)
  PROVE  NumbersInv' /\ FreshInv' /\ OwnedInv'
  <1>1. d \in DOMAIN open_file_descriptors
    BY DEF Truncate, Valid
  <1>2. /\ inode_table' = [inode_table EXCEPT ![InodeOf(d)].file_size = p]
        /\ open_file_descriptors' = [open_file_descriptors EXCEPT ![d].offset = p]
        /\ UNCHANGED <<active, used_block_bitmap, used_block_bitmap_count, directory>>
    BY DEF Truncate, TruncatedOffset, diskVars
  <1>3. PICK x : x = [inode_table[InodeOf(d)] EXCEPT !.file_size = p]
    OBVIOUS
  <1>4. inode_table' = [inode_table EXCEPT ![InodeOf(d)] = x]
    BY <1>2, <1>3
  <1>5. /\ InodeOf(d) \in Inodes /\ inode_table'[InodeOf(d)] = x
        /\ \A i \in Inodes : i # InodeOf(d) => inode_table'[i] = inode_table[i]
    BY <1>1, <1>4, InodeChange
  <1>6. /\ x.file_type = inode_table[InodeOf(d)].file_type /\ x.file_size = p
        /\ x.direct_offset = inode_table[InodeOf(d)].direct_offset
    <2>1. IsInode(inode_table[InodeOf(d)])
      BY <1>5 DEF BInv, IInv, TypeOK, IsTable
    <2> QED BY <1>3, <2>1 DEF IsInode
  <1>7. NumbersInv' /\ FreshInv'
    BY <1>1, <1>2, <1>4, <1>6, NumbersChange
  <1>8. \A i \in Inodes : /\ inode_table'[i].file_type = inode_table[i].file_type
                          /\ inode_table'[i].direct_offset = inode_table[i].direct_offset
    BY <1>5, <1>6
  <1>9. Allocated' = Allocated /\ \A p1 \in Allocated : BlockOf(p1)' = BlockOf(p1)
    BY <1>8 DEF Allocated, BlockOf
  <1>10. OwnedInv'
    BY <1>2, <1>9, OwnedFrame DEF BInv
  <1> QED BY <1>7, <1>10

LEMMA OwnedWrite ==
  ASSUME BInv, DISK_BLOCKS < 2 ^ CountWidth, NEW d, NEW n \in Nat, NEW v, Write(d, n, v)
  PROVE  NumbersInv' /\ FreshInv' /\ OwnedInv'
  <1>1. d \in DOMAIN open_file_descriptors
    BY DEF Write, Valid
  <1>2. UNCHANGED <<active, directory>>
    BY DEF Write
  <1>3. PICK S, dir, size, o, ino :
          S = New(d, n) /\ dir = Direct(d, n) /\ size = NewSize(d, n) /\ o = NewOffset(d, n) /\ ino = InodeOf(d)
    OBVIOUS
  <1>4. /\ used_block_bitmap' = used_block_bitmap \cup {dir[k] : k \in S}
        /\ used_block_bitmap_count' = (used_block_bitmap_count + Cardinality(S)) % 2 ^ CountWidth
        /\ inode_table' = [inode_table EXCEPT ![ino].direct_offset = dir, ![ino].file_size = size]
        /\ open_file_descriptors' = [open_file_descriptors EXCEPT ![d].offset = o]
    BY <1>3, WriteFacts
  <1>5. PICK x : x = [inode_table[ino] EXCEPT !.direct_offset = dir, !.file_size = size]
    OBVIOUS
  <1>6. DOMAIN inode_table = Inodes /\ ino \in Inodes /\ IsInode(inode_table[ino])
    BY <1>1, <1>3, OffsetsAre DEF IsDescriptor, InodeOf, BInv, IInv, TypeOK, IsTable
  <1>7. inode_table' = [inode_table EXCEPT ![ino] = x]
    BY <1>4, <1>5, <1>6
  <1>8. /\ inode_table'[ino] = x /\ inode_table[ino].file_type = 1
        /\ \A i \in Inodes : i # ino => inode_table'[i] = inode_table[i]
        /\ active
    BY <1>1, <1>3, <1>7, InodeChange
  <1>9. x.file_type = inode_table[ino].file_type /\ x.file_size = size /\ x.direct_offset = dir
    BY <1>5, <1>6 DEF IsInode
  <1>10. /\ S \subseteq 0 .. DirectBlocks - 1 /\ IsFiniteSet(S)
         /\ \A k \in S : dir[k] \in DataBlocks \ used_block_bitmap
         /\ \A k, l \in S : dir[k] = dir[l] => k = l
         /\ \A k \in S : inode_table[ino].direct_offset[k] = 0
         /\ \A k \in 0 .. DirectBlocks - 1 : k \notin S => dir[k] = inode_table[ino].direct_offset[k]
    <2>1. /\ S \subseteq 0 .. DirectBlocks - 1 /\ IsFiniteSet(S)
          /\ \A k \in S : NewBlock(d, n, k) \in DataBlocks \ used_block_bitmap
          /\ \A k, l \in S : NewBlock(d, n, k) = NewBlock(d, n, l) => k = l
          /\ \A k \in S : inode_table[ino].direct_offset[k] = 0
      BY <1>1, <1>3, NewBlocks
    <2>2. \A k \in 0 .. DirectBlocks - 1 :
            dir[k] = IF k \in S THEN NewBlock(d, n, k) ELSE inode_table[ino].direct_offset[k]
      BY <1>3 DEF Direct
    <2>3. \A k \in S : dir[k] = NewBlock(d, n, k)
      BY <2>1, <2>2
    <2> QED BY <2>1, <2>2, <2>3
  <1>11. o \in Nat /\ size \in Nat
    <2>1. OffsetOf(d) \in Nat /\ inode_table[ino].file_size \in Nat
      BY <1>1, <1>6 DEF BInv, NumbersInv
    <2>2. StoredCells(d, n) \in SUBSET (0 .. n - 1)
      BY DEF StoredCells
    <2>3. IsFiniteSet(0 .. n - 1)
      BY FS_Interval
    <2>4. Cardinality(StoredCells(d, n)) \in Nat
      BY <2>2, <2>3, FS_Subset, FS_CardinalityType
    <2>5. o \in Nat
      BY <1>3, <2>1, <2>4 DEF NewOffset
    <2>6. Max({inode_table[ino].file_size, o}) \in Nat
      <3>1. PICK a : a = inode_table[ino].file_size
        OBVIOUS
      <3>2. \E y \in {a, o} : \A z \in {a, o} : y >= z
        BY <2>1, <2>5, <3>1
      <3>3. Max({a, o}) \in {a, o}
        BY <3>2, Zenon DEF Max
      <3> QED BY <2>1, <2>5, <3>1, <3>3
    <2> QED BY <1>3, <2>1, <2>5, <2>6 DEF NewSize
  <1>12. NumbersInv' /\ FreshInv'
    <2>1. /\ inode_table' = [inode_table EXCEPT ![InodeOf(d)] = x]
          /\ x.file_type = inode_table[InodeOf(d)].file_type
      BY <1>3, <1>7, <1>9
    <2>2. /\ x.file_size \in Nat /\ o \in Nat
          /\ open_file_descriptors' = [open_file_descriptors EXCEPT ![d].offset = o]
          /\ UNCHANGED <<directory, active>>
      BY <1>2, <1>4, <1>9, <1>11
    <2> QED BY <1>1, <2>1, <2>2, NumbersChange
  <1>13. ASSUME NEW p \in Inodes \X (0 .. DirectBlocks - 1)
         PROVE  /\ p \in Allocated' <=> p \in Allocated \/ (p[1] = ino /\ p[2] \in S)
                /\ p \in Allocated => BlockOf(p)' = BlockOf(p) /\ ~(p[1] = ino /\ p[2] \in S)
                /\ p[1] = ino /\ p[2] \in S => BlockOf(p)' = dir[p[2]]
    <2>1. CASE p[1] # ino
      BY <1>8, <2>1 DEF Allocated, BlockOf
    <2>2. CASE p[1] = ino /\ p[2] \in S
      <3>1. BlockOf(p)' = dir[p[2]] /\ inode_table'[p[1]].file_type = 1
        BY <1>8, <1>9, <2>2 DEF BlockOf
      <3>2. dir[p[2]] # 0 /\ inode_table[p[1]].direct_offset[p[2]] = 0
        BY <1>10, <2>2, NumbersOK DEF DataBlocks, BitmapBlock
      <3> QED BY <2>2, <3>1, <3>2 DEF Allocated, BlockOf
    <2>3. CASE p[1] = ino /\ p[2] \notin S
      <3>1. dir[p[2]] = inode_table[ino].direct_offset[p[2]]
        BY <1>10, <2>3
      <3>2. inode_table'[p[1]].file_type = 1 /\ inode_table'[p[1]].direct_offset = dir
        BY <1>8, <1>9, <2>3
      <3> QED BY <1>8, <2>3, <3>1, <3>2 DEF Allocated, BlockOf
    <2> QED BY <2>1, <2>2, <2>3
  <1>14. Allocated' \subseteq Inodes \X (0 .. DirectBlocks - 1) /\ Allocated \subseteq Inodes \X (0 .. DirectBlocks - 1)
    BY DEF Allocated
  <1>15. OwnedInv
    BY DEF BInv
  <1>16. \A p, q \in Allocated' : BlockOf(p)' = BlockOf(q)' => p = q
    <2> SUFFICES ASSUME NEW p \in Allocated', NEW q \in Allocated', BlockOf(p)' = BlockOf(q)' PROVE p = q
      OBVIOUS
    <2>1. p \in Inodes \X (0 .. DirectBlocks - 1) /\ q \in Inodes \X (0 .. DirectBlocks - 1)
      BY <1>14
    <2>2. p \in Allocated \/ (p[1] = ino /\ p[2] \in S)
      BY <1>13, <2>1
    <2>3. q \in Allocated \/ (q[1] = ino /\ q[2] \in S)
      BY <1>13, <2>1
    <2>4. CASE p \in Allocated /\ q \in Allocated
      BY <1>13, <1>15, <2>1, <2>4 DEF OwnedInv
    <2>5. CASE p \in Allocated /\ (q[1] = ino /\ q[2] \in S)
      <3>1. BlockOf(p)' \in used_block_bitmap
        BY <1>13, <1>15, <2>1, <2>5 DEF OwnedInv
      <3>2. BlockOf(q)' \notin used_block_bitmap
        BY <1>10, <1>13, <2>1, <2>5
      <3> QED BY <3>1, <3>2
    <2>6. CASE q \in Allocated /\ (p[1] = ino /\ p[2] \in S)
      <3>1. BlockOf(q)' \in used_block_bitmap
        BY <1>13, <1>15, <2>1, <2>6 DEF OwnedInv
      <3>2. BlockOf(p)' \notin used_block_bitmap
        BY <1>10, <1>13, <2>1, <2>6
      <3> QED BY <3>1, <3>2
    <2>7. CASE (p[1] = ino /\ p[2] \in S) /\ (q[1] = ino /\ q[2] \in S)
      <3>1. p[2] = q[2]
        BY <1>10, <1>13, <2>1, <2>7
      <3> QED BY <2>1, <2>7, <3>1
    <2> QED BY <2>2, <2>3, <2>4, <2>5, <2>6, <2>7
  <1>17. \A p \in Allocated' : BlockOf(p)' \in used_block_bitmap'
    <2> SUFFICES ASSUME NEW p \in Allocated' PROVE BlockOf(p)' \in used_block_bitmap'
      OBVIOUS
    <2>1. p \in Inodes \X (0 .. DirectBlocks - 1)
      BY <1>14
    <2>2. CASE p \in Allocated
      BY <1>4, <1>13, <1>15, <2>1, <2>2 DEF OwnedInv
    <2>3. CASE p[1] = ino /\ p[2] \in S
      BY <1>4, <1>13, <2>1, <2>3
    <2> QED BY <1>13, <2>1, <2>2, <2>3
  <1>18. \A b \in used_block_bitmap' : \E p \in Allocated' : BlockOf(p)' = b
    <2> SUFFICES ASSUME NEW b \in used_block_bitmap' PROVE \E p \in Allocated' : BlockOf(p)' = b
      OBVIOUS
    <2>1. CASE b \in used_block_bitmap
      <3>1. PICK p \in Allocated : BlockOf(p) = b
        BY <1>15, <2>1 DEF OwnedInv
      <3> QED BY <1>13, <1>14, <3>1
    <2>2. CASE b \notin used_block_bitmap
      <3>1. PICK k \in S : dir[k] = b
        BY <1>4, <2>2
      <3>2. <<ino, k>> \in Inodes \X (0 .. DirectBlocks - 1) /\ <<ino, k>>[1] = ino /\ <<ino, k>>[2] = k
        BY <1>6, <1>10
      <3> QED BY <1>13, <3>1, <3>2
    <2> QED BY <2>1, <2>2
  <1>19. /\ used_block_bitmap' \in SUBSET DataBlocks
         /\ used_block_bitmap_count' = 1 + Cardinality(used_block_bitmap')
    <2>1. PICK g : g = [k \in S |-> dir[k]]
      OBVIOUS
    <2>2. g \in [S -> DataBlocks \ used_block_bitmap] /\ \A k, l \in S : g[k] = g[l] => k = l
      BY <1>10, <2>1
    <2>3. {dir[k] : k \in S} = {g[k] : k \in S}
      BY <2>1
    <2>4. used_block_bitmap \in SUBSET DataBlocks /\ used_block_bitmap_count = 1 + Cardinality(used_block_bitmap)
      BY <1>8, <1>15 DEF OwnedInv
    <2>5. /\ used_block_bitmap' \in SUBSET DataBlocks
          /\ Cardinality(used_block_bitmap') = Cardinality(used_block_bitmap) + Cardinality(S)
          /\ Cardinality(used_block_bitmap) \in Nat /\ Cardinality(S) \in Nat
          /\ Cardinality(used_block_bitmap) + Cardinality(S) < DISK_BLOCKS
      <3>1. PICK used : used = used_block_bitmap
        OBVIOUS
      <3>2. /\ used \cup {g[k] : k \in S} \in SUBSET DataBlocks
            /\ Cardinality(used \cup {g[k] : k \in S}) = Cardinality(used) + Cardinality(S)
            /\ Cardinality(used) \in Nat /\ Cardinality(S) \in Nat
            /\ Cardinality(used) + Cardinality(S) < DISK_BLOCKS
        <4>1. used \in SUBSET DataBlocks /\ IsFiniteSet(S) /\ g \in [S -> DataBlocks \ used]
          BY <1>10, <2>2, <2>4, <3>1
        <4> QED BY <2>2, <4>1, UsedGrows, Zenon
      <3>3. used_block_bitmap' = used \cup {g[k] : k \in S}
        BY <1>4, <2>3, <3>1
      <3> QED BY <3>1, <3>2, <3>3
    <2>6. ASSUME NEW a \in Nat, NEW b \in Nat, a < b PROVE a % b = a
      BY <2>6
    <2>7. /\ used_block_bitmap_count + Cardinality(S) \in Nat
          /\ used_block_bitmap_count + Cardinality(S) < 2 ^ CountWidth /\ 2 ^ CountWidth \in Nat
      BY <2>4, <2>5, NumbersOK, FileSystemAssumption
    <2>8. used_block_bitmap_count' = used_block_bitmap_count + Cardinality(S)
      BY <1>4, <2>6, <2>7
    <2> QED BY <2>4, <2>5, <2>8
  <1> QED BY <1>12, <1>16, <1>17, <1>18, <1>19 DEF OwnedInv

LEMMA InitBInv == Init => BInv
  <1> SUFFICES ASSUME Init PROVE BInv
    OBVIOUS
  <1>1. /\ exists = FALSE /\ active = FALSE /\ inode_table = NoInodes
        /\ directory = NoEntries /\ DOMAIN open_file_descriptors = {} /\ used_block_bitmap = {}
    BY DEF Init, DiskInit, NoDescriptors
  <1>2. \A i \in Inodes : inode_table[i].file_type = 0 /\ inode_table[i].file_size = 0
    BY <1>1 DEF NoInodes, NoInode
  <1>3. Allocated = {}
    BY <1>2 DEF Allocated
  <1>4. OwnedInv
    BY <1>1, <1>3 DEF OwnedInv
  <1>5. NumbersInv
    BY <1>1, <1>2, EmptyEntries DEF NumbersInv
  <1>6. FreshInv
    BY <1>1 DEF FreshInv
  <1> QED BY <1>4, <1>5, <1>6, InitIInv DEF BInv

LEMMA BInvNext ==
  ASSUME MountsOnce, DISK_BLOCKS < 2 ^ CountWidth
  PROVE  BInv /\ [Next]_vars => BInv'
  <1> SUFFICES ASSUME BInv, [Next]_vars PROVE NumbersInv' /\ FreshInv' /\ OwnedInv'
    BY IInvNext DEF BInv
  <1>1. CASE MakeFs \/ MakeFsMounted \/ Mount \/ Umount \/ Restart
    BY <1>1, FreshMakeFs, FreshMount DEF MakeFsMounted, Umount, Restart, MountsOnce
  <1>2. CASE MountRefused \/ CreateRefused \/ DeleteRefused \/ OpenRefused \/ Listfiles
             \/ Stopped \/ UNCHANGED vars
    BY <1>2, OwnedUnchanged DEF MountRefused, CreateRefused, DeleteRefused, OpenRefused, Listfiles,
       Stopped, vars
  <1>3. ASSUME NEW n \in Names, Create(n) \/ Delete(n) \/ Open(n)
        PROVE  NumbersInv' /\ FreshInv' /\ OwnedInv'
    BY <1>3, OwnedCreate, OwnedOpen DEF Delete, MountsOnce
  <1>4. ASSUME NEW d \in Descriptors, Close(d) \/ GetFilesize(d) \/ Refused(d)
        PROVE  NumbersInv' /\ FreshInv' /\ OwnedInv'
    BY <1>4, OwnedClose, OwnedUnchanged DEF GetFilesize, Refused
  <1>5. Lengths \subseteq Nat /\ Positions \subseteq Nat
    BY FileSystemAssumption
  <1>6. ASSUME NEW d \in Descriptors, NEW n \in Lengths, Read(d, n) \/ \E v \in Values : Write(d, n, v)
        PROVE  NumbersInv' /\ FreshInv' /\ OwnedInv'
    BY <1>5, <1>6, OwnedRead, OwnedWrite
  <1>7. ASSUME NEW d \in Descriptors, NEW p \in Positions, Lseek(d, p) \/ Truncate(d, p)
        PROVE  NumbersInv' /\ FreshInv' /\ OwnedInv'
    BY <1>5, <1>7, OwnedLseek, OwnedTruncate
  <1> QED BY <1>1, <1>2, <1>3, <1>4, <1>6, <1>7 DEF Next

\* For programs that neither delete files nor mount a disk twice, whatever they write
\* through however many descriptors, up to a full disk: no block belongs to two places, the
\* bitmap marks exactly the blocks of files, and the superblock counts them, if its field
\* can hold the number of blocks (16 bits and 8192 blocks in the code).
THEOREM BlocksHaveOneOwner ==
  ASSUME MountsOnce, DISK_BLOCKS < 2 ^ CountWidth
  PROVE  Spec => []BlocksOwnedOnce
  <1>1. BInv => BlocksOwnedOnce
    BY DEF BInv, OwnedInv, BlocksOwnedOnce, IInv, TypeOK
  <1> QED BY <1>1, InitBInv, BInvNext, PTL DEF Spec
=============================================================================
