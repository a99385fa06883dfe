---------------------------- MODULE MCFileSystem ----------------------------
(***************************************************************************)
(* Instances of FileSystem for TLC.  Names are interchangeable.  The views *)
(* keep of a state what an action or a property reads, then or later.      *)
(*                                                                         *)
(* No action reads last, and TLC still compares every step, its new last   *)
(* included, with the abstract specification.                              *)
(*                                                                         *)
(* Where the contents of files are not looked at either, what counts is,   *)
(* of a mounted disk, whether the bitmap's block is blank, for umount_fs   *)
(* writes the structures anew; of the memory while nothing is mounted,     *)
(* what mount_fs keeps; of an inode that no file has, its type, and of     *)
(* others, whether a block is none, the bitmap's or another one.           *)
(***************************************************************************)
EXTENDS FileSystem, TLC

Interchangeable == Permutations(Names)

WithoutLast == <<diskVars, memVars, corrupt, sizes>>

\* The directory of the mounted disk, or the one mount_fs would find.
DirectoryNow == IF active THEN directory ELSE DirectoryIn(DirBlock)

Seen(i, inode) ==
  IF \E j \in Inodes : DirectoryNow[j].is_used /\ DirectoryNow[j].inode_number = i
  THEN [inode EXCEPT !.direct_offset = [k \in DOMAIN @ |-> Min({@[k], BitmapBlock + 1})]]
  ELSE inode.file_type

BlockSeen(b) ==
  CASE blocks[b].kind = "bytes" -> blocks[b].kind
    [] blocks[b].kind = "inode" -> <<Seen(b - 2, blocks[b].inode), Seen(b - 1, blocks[b].next)>>
    [] OTHER -> blocks[b]

DiskSeen == <<exists, active, blocks[BitmapBlock] = Blank,
              [b \in Blocks |-> IF active THEN Junk ELSE BlockSeen(b)]>>

MemSeen ==
  IF active THEN <<used_block_bitmap_count, directory, open_file_descriptors,
                   [i \in Inodes |-> Seen(i, inode_table[i])]>>
  ELSE [i \in InodeBlocks .. MAX_NUM_OF_FILES - 1 |-> Seen(i, inode_table[i])]

WithoutContents == <<DiskSeen, used_block_bitmap, MemSeen, corrupt, sizes>>
=============================================================================
