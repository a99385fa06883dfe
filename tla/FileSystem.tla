----------------------------- MODULE FileSystem -----------------------------
(***************************************************************************)
(* The file system, file-systems-noodlez102/fs.c, on the blocks of Disk.   *)
(* Each call is one action: a program uses the library from one thread.    *)
(* Sizes and offsets count cells.  A call writes one value into all its    *)
(* cells.                                                                  *)
(*                                                                         *)
(* Block 0 holds the superblock, 1 the bitmap, 2 and up the inodes, one in *)
(* each block, and the next block the directory.  The superblock's two     *)
(* offsets never change and are constants here.                            *)
(***************************************************************************)
EXTENDS Disk, FiniteSets, FiniteSetsExt

CONSTANTS
  MAX_NUM_OF_FILES,
  MAX_FILE_DESCRIPTORS,
  CHAR_BIT,       \* bits in a byte of the bitmap
  CountWidth,     \* bits of used_block_bitmap_count
  DirectBlocks,   \* blocks a file can have: direct_offset and the two fields behind it
  NextBlocks,     \* of these, the ones that fit behind another inode in its block
  InodeBlocks,    \* inode_metadata_blocks
  Names,          \* valid file names
  Invalid,        \* a name that is empty or too long
  Values,         \* what programs write
  Lengths,        \* numbers of cells they read and write
  Positions,      \* positions they seek and truncate to
  Client          \* what programs do besides reading and writing

ASSUME FileSystemAssumption ==
  /\ {MAX_NUM_OF_FILES, MAX_FILE_DESCRIPTORS, CHAR_BIT, CountWidth, DirectBlocks,
      InodeBlocks} \subseteq Nat \ {0}
  /\ 2 ^ CountWidth \in Nat
  /\ NextBlocks \in 0 .. DirectBlocks - 1
  /\ InodeBlocks < MAX_NUM_OF_FILES
  /\ InodeBlocks + 2 < DISK_BLOCKS
  /\ Invalid \notin Names
  /\ Values \subseteq Nat \ {0} /\ Lengths \subseteq Nat \ {0} /\ Positions \subseteq Nat
  /\ Client \subseteq {"delete", "remount", "share"}

VARIABLES
  open_disk_fd,              \* 0 between mount_fs and umount_fs, otherwise -1
  used_block_bitmap,         \* the blocks whose bit is set
  used_block_bitmap_count,   \* field of the superblock
  inode_table,
  directory,
  open_file_descriptors,     \* the used ones
  corrupt,                   \* mount_fs copied past the end of the bitmap
  sizes,                     \* auxiliary: the size each existing file should have
  last                       \* auxiliary: the last call, as in FileStore

memVars == <<open_disk_fd, used_block_bitmap, used_block_bitmap_count, inode_table,
             directory, open_file_descriptors>>
vars == <<diskVars, memVars, corrupt, sizes, last>>

Inodes == 0 .. MAX_NUM_OF_FILES - 1
Descriptors == 0 .. MAX_FILE_DESCRIPTORS - 1
BitmapBytes == DISK_BLOCKS \div CHAR_BIT
BitmapBlock == 1
InodeBlock(i) == 2 + i
DirBlock == 2 + InodeBlocks

NoInode == [file_type |-> 0, direct_offset |-> [k \in 0 .. DirectBlocks - 1 |-> 0],
            file_size |-> 0]
NoEntry == [is_used |-> FALSE, inode_number |-> 0, name |-> Invalid]
NoFiles == [n \in {} |-> 0]

NoInodes == [i \in Inodes |-> NoInode]
NoEntries == [i \in Inodes |-> NoEntry]
NoDescriptors == [d \in {} |-> 0]

\* A finished call; on is the descriptor it was given, if any.
Call(op, on, ret, out) == [op |-> op, on |-> on, ret |-> ret, out |-> out]
Returns(op, ret) == last' = Call(op, -1, ret, <<>>)
ReturnsOn(d, op, ret) == last' = Call(op, d, ret, <<>>)

Init ==
  /\ DiskInit
  /\ open_disk_fd = -1
  /\ used_block_bitmap = {}
  /\ used_block_bitmap_count = 0
  /\ inode_table = NoInodes
  /\ directory = NoEntries
  /\ open_file_descriptors = NoDescriptors
  /\ corrupt = FALSE
  /\ sizes = NoFiles
  /\ last = Call("none", -1, 0, <<>>)

-----------------------------------------------------------------------------
(* Disks: make_fs, mount_fs, umount_fs.                                    *)

Super(count) == [kind |-> "super", count |-> count]

\* A program that does not remount makes its file system once and keeps it mounted.
MakeFs ==
  /\ ~corrupt /\ ~active
  /\ "remount" \in Client \/ ~exists
  /\ exists' = TRUE
  /\ blocks' = Stored(Made, [b \in {0} |-> Super(1)])
  /\ used_block_bitmap' = {}
  /\ used_block_bitmap_count' = 1
  /\ sizes' = NoFiles
  /\ Returns("make", 0)
  /\ UNCHANGED <<active, open_disk_fd, inode_table, directory, open_file_descriptors, corrupt>>

\* On the mounted disk make_disk has erased every block when open_disk refuses.
MakeFsMounted ==
  /\ ~corrupt /\ active
  /\ "remount" \in Client
  /\ blocks' = Made
  /\ Returns("make", -1)
  /\ UNCHANGED <<exists, active, memVars, corrupt, sizes>>

\* An inode and the beginning of the one behind it share a block.
InodePair(i) == [kind |-> "inode", inode |-> inode_table[i], next |-> inode_table[i + 1]]

DirectoryIn(b) == IF blocks[b].kind = "dir" THEN blocks[b].entries ELSE NoEntries

\* Mutant of InodeAfterLoad: only the inode that starts in a block is read from it.
InodeAfterLoadWhole(i) ==
  IF i < InodeBlocks /\ blocks[InodeBlock(i)].kind = "inode" THEN blocks[InodeBlock(i)].inode
  ELSE IF i < InodeBlocks THEN NoInode
  ELSE inode_table[i]

\* The inodes as mount_fs leaves them: InodeBlocks of them from the disk, the beginning of
\* the next one too, and the others as they were in memory.
InodeAfterLoad(i) ==
  LET In(b) == IF blocks[b].kind = "inode" THEN blocks[b] ELSE [inode |-> NoInode, next |-> NoInode]
      next == In(InodeBlock(i - 1)).next
      first == 0 .. NextBlocks - 1
  IN  CASE i < InodeBlocks -> In(InodeBlock(i)).inode
        [] i = InodeBlocks ->
             [inode_table[i] EXCEPT !.file_type = next.file_type,
                                    !.direct_offset = [k \in DOMAIN @ |->
                                       IF k \in first THEN next.direct_offset[k] ELSE @[k]]]
        [] i > InodeBlocks -> inode_table[i]

\* The bits in the first used_block_bitmap_count bytes of the bitmap.  When block 1 holds
\* bytes of a file, these are any; here, all zero or all one.
Covered(count) == 0 .. count * CHAR_BIT - 1
BitsIn(count) == IF blocks[BitmapBlock] = Blank THEN {{}} ELSE {{}, Covered(count)}

Mount ==
  /\ ~corrupt /\ MayOpen
  /\ active' = TRUE
  /\ used_block_bitmap_count' = blocks[0].count
  /\ directory' = DirectoryIn(DirBlock)
  /\ inode_table' = [i \in Inodes |-> InodeAfterLoad(i)]
  /\ \/ /\ used_block_bitmap_count' <= BitmapBytes
        /\ \E bits \in BitsIn(used_block_bitmap_count') :
             used_block_bitmap' = (used_block_bitmap \ Covered(used_block_bitmap_count')) \cup bits
        /\ corrupt' = FALSE
     \/ /\ used_block_bitmap_count' > BitmapBytes
        /\ corrupt' = TRUE
        /\ UNCHANGED used_block_bitmap
  /\ open_file_descriptors' = NoDescriptors
  /\ open_disk_fd' = 0
  /\ Returns("mount", 0)
  /\ UNCHANGED <<exists, blocks, sizes>>

\* Mutant of Written: the inode table is not written.
WrittenWithoutInodes ==
  [b \in {0, DirBlock} |-> IF b = 0 THEN Super(used_block_bitmap_count)
                                    ELSE [kind |-> "dir", entries |-> directory]]

\* What umount_fs writes: not the bitmap, and only InodeBlocks inodes.
Written ==
  [b \in {0, DirBlock} \cup {InodeBlock(i) : i \in 0 .. InodeBlocks - 1} |->
     CASE b = 0 -> Super(used_block_bitmap_count)
       [] b = DirBlock -> [kind |-> "dir", entries |-> directory]
       [] OTHER -> InodePair(b - 2)]

Umount ==
  /\ ~corrupt /\ active
  /\ "remount" \in Client
  /\ blocks' = Stored(blocks, Written)
  /\ open_file_descriptors' = NoDescriptors
  /\ active' = FALSE
  /\ open_disk_fd' = -1
  /\ Returns("umount", 0)
  /\ UNCHANGED <<exists, used_block_bitmap, used_block_bitmap_count, inode_table, directory,
                 corrupt, sizes>>

\* The process ends after umount_fs and another one starts.
Restart ==
  /\ ~corrupt /\ ~active /\ exists
  /\ "remount" \in Client
  /\ used_block_bitmap' = {}
  /\ used_block_bitmap_count' = 0
  /\ inode_table' = NoInodes
  /\ directory' = NoEntries
  /\ last' = Call("none", -1, 0, <<>>)
  /\ UNCHANGED <<diskVars, open_disk_fd, open_file_descriptors, corrupt, sizes>>

\* mount_fs without a disk or with an open one, umount_fs without an open one.
MountRefused ==
  /\ ~corrupt
  /\ \/ ~MayOpen /\ Returns("mount", -1)
     \/ ~active /\ Returns("umount", -1)
  /\ UNCHANGED <<diskVars, memVars, corrupt, sizes>>

-----------------------------------------------------------------------------
(* Names: fs_create, fs_delete, fs_open, fs_close, fs_listfiles.           *)

Entries(n) == {i \in Inodes : directory[i].is_used /\ directory[i].name = n}
Existing == {directory[i].name : i \in {j \in Inodes : directory[j].is_used}}
FreeInodes == {i \in Inodes : inode_table[i].file_type = 0}
FreeEntries == {i \in Inodes : ~directory[i].is_used}
IsOpen(ino) == \E d \in DOMAIN open_file_descriptors :
                 open_file_descriptors[d].inode_number = ino

Mounted == ~corrupt /\ open_disk_fd # -1

MayCreate(n) == Mounted /\ n \in Names \ Existing /\ FreeInodes # {}

Create(n) ==
  /\ MayCreate(n)
  /\ LET ino == Min(FreeInodes) IN
       /\ inode_table' = [inode_table EXCEPT ![ino] = [NoInode EXCEPT !.file_type = 1]]
       /\ IF FreeEntries = {}
          THEN Returns("create", -1) /\ UNCHANGED <<directory, sizes>>
          ELSE /\ directory' = [directory EXCEPT ![Min(FreeEntries)] =
                                  [is_used |-> TRUE, inode_number |-> ino, name |-> n]]
               /\ sizes' = [m \in DOMAIN sizes \cup {n} |-> IF m = n THEN 0 ELSE sizes[m]]
               /\ Returns("create", 0)
  /\ UNCHANGED <<diskVars, open_disk_fd, used_block_bitmap, used_block_bitmap_count,
                 open_file_descriptors, corrupt>>

CreateRefused ==
  /\ ~corrupt
  /\ {n \in Names \cup {Invalid} : ~MayCreate(n)} # {}
  /\ Returns("create", -1)
  /\ UNCHANGED <<diskVars, memVars, corrupt, sizes>>

\* The value of byte i of the bitmap.
ByteOf(i) == MapThenSumSet(LAMBDA k : 2^k,
                           {k \in 0 .. CHAR_BIT - 1 : i * CHAR_BIT + k \in used_block_bitmap})

\* fs_delete compares every byte with the inode number.  Behind the bitmap it reads other
\* variables, which can match or not.
Matches(ino) == {i \in 0 .. BitmapBytes - 1 : ByteOf(i) = ino}

\* Mutant of MayDelete: no test for open descriptors.
MayDeleteOpen(n) == Mounted /\ Entries(n) # {}

MayDelete(n) ==
  /\ Mounted /\ Entries(n) # {}
  /\ ~IsOpen(directory[Min(Entries(n))].inode_number)

Delete(n) ==
  /\ MayDelete(n)
  /\ "delete" \in Client
  /\ LET e == Min(Entries(n)) IN
       /\ \E behind \in SUBSET (BitmapBytes .. DISK_BLOCKS - 1) :
            LET cleared == Matches(directory[e].inode_number) \cup behind IN
            /\ used_block_bitmap' = used_block_bitmap \ cleared
            /\ used_block_bitmap_count' =
                 (used_block_bitmap_count - Cardinality(cleared)) % 2^CountWidth
       /\ directory' = [directory EXCEPT ![e] = NoEntry]
  /\ sizes' = [m \in DOMAIN sizes \ {n} |-> sizes[m]]
  /\ Returns("delete", 0)
  /\ UNCHANGED <<diskVars, open_disk_fd, inode_table, open_file_descriptors, corrupt>>

DeleteRefused ==
  /\ ~corrupt
  /\ {n \in Names : ~MayDelete(n)} # {}
  /\ Returns("delete", -1)
  /\ UNCHANGED <<diskVars, memVars, corrupt, sizes>>

FreeDescriptors == Descriptors \ DOMAIN open_file_descriptors

MayFsOpen(n) == Mounted /\ Entries(n) # {} /\ FreeDescriptors # {}

Open(n) ==
  /\ MayFsOpen(n)
  /\ LET ino == directory[Min(Entries(n))].inode_number
         fildes == Min(FreeDescriptors)
     IN  /\ "share" \in Client \/ ~IsOpen(ino)
         /\ open_file_descriptors' =
              [d \in DOMAIN open_file_descriptors \cup {fildes} |->
                 IF d = fildes THEN [inode_number |-> ino, offset |-> 0]
                               ELSE open_file_descriptors[d]]
         /\ Returns("open", fildes)
  /\ UNCHANGED <<diskVars, open_disk_fd, used_block_bitmap, used_block_bitmap_count,
                 inode_table, directory, corrupt, sizes>>

OpenRefused ==
  /\ ~corrupt
  /\ {n \in Names : ~MayFsOpen(n)} # {}
  /\ Returns("open", -1)
  /\ UNCHANGED <<diskVars, memVars, corrupt, sizes>>

Close(d) ==
  /\ ~corrupt
  /\ IF d \in DOMAIN open_file_descriptors
     THEN /\ open_file_descriptors' = [e \in DOMAIN open_file_descriptors \ {d} |->
                                         open_file_descriptors[e]]
          /\ ReturnsOn(d, "close", 0)
     ELSE UNCHANGED open_file_descriptors /\ ReturnsOn(d, "close", -1)
  /\ UNCHANGED <<diskVars, open_disk_fd, used_block_bitmap, used_block_bitmap_count,
                 inode_table, directory, corrupt, sizes>>

\* fs_listfiles counts the used entries and copies that many names from the front.
Listfiles ==
  /\ ~corrupt
  /\ last' = Call("list", -1, 0, {directory[i].name : i \in 0 .. Cardinality(Inodes \ FreeEntries) - 1})
  /\ UNCHANGED <<diskVars, memVars, corrupt, sizes>>

-----------------------------------------------------------------------------
(* Contents: fs_read, fs_write, fs_lseek, fs_truncate, fs_get_filesize.    *)

InodeOf(d) == open_file_descriptors[d].inode_number
OffsetOf(d) == open_file_descriptors[d].offset

\* The tests at the start of the four calls: the number of the inode is also used as the
\* number of a directory entry.
Valid(d) == /\ d \in DOMAIN open_file_descriptors
            /\ directory[InodeOf(d)].is_used

\* Names under which an inode is known.
NamesOf(ino) == {directory[i].name : i \in {j \in Inodes : directory[j].is_used
                                                          /\ directory[j].inode_number = ino}}
SizesAfter(ino, size) ==
  [n \in DOMAIN sizes |-> IF n \in NamesOf(ino) THEN size ELSE sizes[n]]

\* The blocks fs_write may allocate.
DataBlocks == BitmapBlock .. DISK_BLOCKS - 1

\* Mutant of NthFree: the bits are set after the loop.
FirstFreeAgain(r) == Min(DataBlocks \ used_block_bitmap)

\* The block that the r-th allocation of a call to fs_write finds.
NthFree(r) ==
  LET free == DataBlocks \ used_block_bitmap
  IN  CHOOSE b \in free : Cardinality({c \in free : c <= b}) = r

\* fs_write: n cells with value v.  Round by round the loop takes the next block of the
\* file, allocates it if need be, and stops when the disk is full or the file has
\* DirectBlocks blocks: the next field is file_size, taken for the number of a block, and
\* there is none with that number unless another descriptor has truncated the file, which
\* the second guard leaves out.
Write(d, n, v) ==
  /\ ~corrupt /\ Valid(d)
  /\ \/ OffsetOf(d) <= inode_table[InodeOf(d)].file_size
     \/ OffsetOf(d) + n <= DirectBlocks * BLOCK_SIZE
  /\ LET ino == InodeOf(d)
         inode == inode_table[ino]
         IndexOf(j) == (OffsetOf(d) + j) \div BLOCK_SIZE
         indexes == {IndexOf(j) : j \in 0 .. n - 1}
         missing == {k \in indexes : k < DirectBlocks /\ inode.direct_offset[k] = 0}
         Rank(k) == Cardinality({i \in missing : i <= k})
         rounds == {k \in indexes : /\ k < DirectBlocks
                                    /\ Rank(k) <= Cardinality(DataBlocks \ used_block_bitmap)}
         direct == [k \in 0 .. DirectBlocks - 1 |->
                      IF k \in missing \cap rounds THEN NthFree(Rank(k))
                                                   ELSE inode.direct_offset[k]]
         stored == {j \in 0 .. n - 1 : IndexOf(j) \in rounds}
         offset == OffsetOf(d) + Cardinality(stored)
         size == IF stored = {} THEN inode.file_size ELSE Max({inode.file_size, offset})
         Hit(b, c) == \E j \in stored : /\ direct[IndexOf(j)] = b
                                        /\ (OffsetOf(d) + j) % BLOCK_SIZE = c
     IN  /\ used_block_bitmap' = used_block_bitmap \cup {direct[k] : k \in missing \cap rounds}
         /\ used_block_bitmap_count' =
              (used_block_bitmap_count + Cardinality(missing \cap rounds)) % 2^CountWidth
         /\ inode_table' = [inode_table EXCEPT ![ino].direct_offset = direct,
                                               ![ino].file_size = size]
         /\ blocks' = Stored(blocks, [b \in {direct[k] : k \in rounds} |->
                        FileBytes([c \in Cells |-> IF Hit(b, c) THEN v ELSE CellsIn(b)[c]])])
         /\ open_file_descriptors' = [open_file_descriptors EXCEPT ![d].offset = offset]
         /\ sizes' = SizesAfter(ino, size)
         /\ ReturnsOn(d, "write", IF Cardinality(stored) = n THEN n ELSE -1)
  /\ UNCHANGED <<exists, active, open_disk_fd, directory, corrupt>>

\* Cell p of a file; an index that was never allocated reads block 0.
CellAt(ino, p) == CellsIn(inode_table[ino].direct_offset[p \div BLOCK_SIZE])[p % BLOCK_SIZE]

\* bytes_to_read: the comparison is unsigned, so behind the end of the file nothing is cut.
BytesToRead(size, offset, n) ==
  IF offset > size THEN n ELSE Min({n, size - offset})

\* fs_read.  The bound keeps offsets behind the end of a file inside direct_offset.
Read(d, n) ==
  /\ ~corrupt /\ Valid(d)
  /\ LET m == BytesToRead(inode_table[InodeOf(d)].file_size, OffsetOf(d), n) IN
       /\ OffsetOf(d) + m <= DirectBlocks * BLOCK_SIZE
       /\ last' = Call("read", d, m, [j \in 1 .. m |-> CellAt(InodeOf(d), OffsetOf(d) + j - 1)])
       /\ open_file_descriptors' = [open_file_descriptors EXCEPT ![d].offset = @ + m]
  /\ UNCHANGED <<diskVars, open_disk_fd, used_block_bitmap, used_block_bitmap_count,
                 inode_table, directory, corrupt, sizes>>

Lseek(d, p) ==
  /\ ~corrupt /\ Valid(d)
  /\ p <= inode_table[InodeOf(d)].file_size
  /\ open_file_descriptors' = [open_file_descriptors EXCEPT ![d].offset = p]
  /\ ReturnsOn(d, "lseek", 0)
  /\ UNCHANGED <<diskVars, open_disk_fd, used_block_bitmap, used_block_bitmap_count,
                 inode_table, directory, corrupt, sizes>>

\* Mutant of TruncatedOffset: fs_truncate leaves the offset alone.
TruncatedOffsetKept(d, p) == OffsetOf(d)

TruncatedOffset(d, p) == p

Truncate(d, p) ==
  /\ ~corrupt /\ Valid(d)
  /\ p <= inode_table[InodeOf(d)].file_size
  /\ inode_table' = [inode_table EXCEPT ![InodeOf(d)].file_size = p]
  /\ open_file_descriptors' = [open_file_descriptors EXCEPT ![d].offset = TruncatedOffset(d, p)]
  /\ sizes' = SizesAfter(InodeOf(d), p)
  /\ ReturnsOn(d, "truncate", 0)
  /\ UNCHANGED <<diskVars, open_disk_fd, used_block_bitmap, used_block_bitmap_count,
                 directory, corrupt>>

GetFilesize(d) ==
  /\ ~corrupt
  /\ IF d \in DOMAIN open_file_descriptors /\ NamesOf(InodeOf(d)) # {}
     THEN ReturnsOn(d, "size", inode_table[InodeOf(d)].file_size)
     ELSE ReturnsOn(d, "size", -1)
  /\ UNCHANGED <<diskVars, memVars, corrupt, sizes>>

\* -1 from one of the four calls, without an effect.
Refused(d) ==
  /\ ~corrupt
  /\ \/ ~Valid(d) /\ \E op \in {"read", "write"} : ReturnsOn(d, op, -1)
     \/ /\ {p \in Positions : Valid(d) => p > inode_table[InodeOf(d)].file_size} # {}
        /\ \E op \in {"lseek", "truncate"} : ReturnsOn(d, op, -1)
  /\ UNCHANGED <<diskVars, memVars, corrupt, sizes>>

-----------------------------------------------------------------------------

\* After a copy past the end of the bitmap nothing more is said.
Stopped == corrupt /\ UNCHANGED vars

Next ==
  \/ MakeFs \/ MakeFsMounted \/ Mount \/ Umount \/ Restart \/ MountRefused
  \/ \E n \in Names : Create(n) \/ Delete(n) \/ Open(n)
  \/ CreateRefused \/ DeleteRefused \/ OpenRefused \/ Listfiles
  \/ \E d \in Descriptors :
       \/ Close(d) \/ GetFilesize(d) \/ Refused(d)
       \/ \E n \in Lengths : Read(d, n) \/ \E v \in Values : Write(d, n, v)
       \/ \E p \in Positions : Lseek(d, p) \/ Truncate(d, p)
  \/ Stopped

Spec == Init /\ [][Next]_vars

-----------------------------------------------------------------------------
(* Properties of programs that only create, read and write files.          *)

\* What is allocated: pairs of an inode in use and an index of its direct_offset.
Allocated == {p \in Inodes \X (0 .. DirectBlocks - 1) :
                inode_table[p[1]].file_type = 1 /\ inode_table[p[1]].direct_offset[p[2]] # 0}
BlockOf(p) == inode_table[p[1]].direct_offset[p[2]]

(***************************************************************************)
(* No block belongs to two places of files, blocks of files are the ones   *)
(* marked in the bitmap, and the superblock counts them (fs_write's search *)
(* for a free block, at the limits of the disk and of a file).             *)
(***************************************************************************)
BlocksOwnedOnce ==
  /\ \A p, q \in Allocated : BlockOf(p) = BlockOf(q) => p = q
  /\ {BlockOf(p) : p \in Allocated} = used_block_bitmap
  /\ open_disk_fd = 0 => used_block_bitmap_count = 1 + Cardinality(used_block_bitmap)

Contents(n) ==
  LET ino == directory[Min(Entries(n))].inode_number
  IN  [i \in 1 .. inode_table[ino].file_size |-> CellAt(ino, i - 1)]
NameOf(ino) == CHOOSE n \in NamesOf(ino) : TRUE

Store == INSTANCE FileStore WITH
  mounted <- open_disk_fd = 0,
  files <- [n \in Existing |-> Contents(n)],
  fds <- [d \in DOMAIN open_file_descriptors |->
            [name |-> NameOf(InodeOf(d)), pos |-> OffsetOf(d)]]

(***************************************************************************)
(* Reads, writes, seeks and truncations through blocks are those of plain  *)
(* sequences: no call changes another file, a read returns what was last   *)
(* written, a write that finds the disk full has stored a prefix.          *)
(***************************************************************************)
ImplementsFileStore == Store!Spec

-----------------------------------------------------------------------------
(* Properties that hold whatever programs do.                              *)

\* The entries of the directory that are used.
UsedEntries == {directory[i] : i \in Inodes \ FreeEntries}

(***************************************************************************)
(* A descriptor never outlives its file: fs_delete refuses while any       *)
(* descriptor of the file is open (fs.c:368, test_fs_delete.c:15), also    *)
(* one opened beside another that was closed, and umount_fs closes them    *)
(* all.  Two tests of the repository expect some open files to be deleted  *)
(* all the same, see ClosedIsDeletable.                                    *)
(***************************************************************************)
OpenHasEntry == \A d \in DOMAIN open_file_descriptors : NamesOf(InodeOf(d)) # {}

(***************************************************************************)
(* Through any umount_fs, end of the process, mount_fs and make_fs, the    *)
(* mounted directory names the files created and not deleted since the     *)
(* disk was made, and the size of each is what it was last, as long as its *)
(* inode is one of those that umount_fs writes in full.  Left out is what  *)
(* follows a mount_fs that copied bytes from behind the bitmap over other  *)
(* variables (fs.c:160), the state corrupt.                                *)
(***************************************************************************)
DirectorySurvives ==
  open_disk_fd = 0 /\ ~corrupt =>
    /\ Existing = DOMAIN sizes
    /\ \A e \in UsedEntries : e.inode_number < InodeBlocks =>
                              inode_table[e.inode_number].file_size = sizes[e.name]

(***************************************************************************)
(* Two files share an inode only if it is behind the last one that         *)
(* umount_fs writes at least in part: fs_create takes an inode by its      *)
(* file_type, which for those is lost when the process ends.               *)
(***************************************************************************)
InodesNotShared ==
  \A i, j \in Inodes \ FreeEntries :
    i # j /\ directory[i].inode_number = directory[j].inode_number =>
      directory[i].inode_number > InodeBlocks

-----------------------------------------------------------------------------
(* A property the repository's tests state and the code does not have.     *)

(***************************************************************************)
(* What test_writes_open.c:19-25 asserts: once a descriptor of a file was  *)
(* closed, "Now deletion should succeed".  The code does not promise it:   *)
(* that test still has the descriptor of its line 16 open, and fs_delete   *)
(* looks at every descriptor.  (test_big_writes.c:101 goes further and     *)
(* deletes a file whose only descriptor is open.)                          *)
(***************************************************************************)
ClosedIsDeletable ==
  [][\A d \in DOMAIN open_file_descriptors :
       Mounted' /\ d \notin DOMAIN open_file_descriptors' =>
         \A n \in NamesOf(InodeOf(d)) : MayDelete(n)']_vars
=============================================================================
