-------------------------------- MODULE Disk --------------------------------
(***************************************************************************)
(* The virtual disk, file-systems-noodlez102/disk.c: a file of DISK_BLOCKS *)
(* blocks that one process has open or not.  What a block holds is either  *)
(* bytes of files, BLOCK_SIZE cells of them, or a structure of the file    *)
(* system, as a record with another kind.  Errors of the host's open,      *)
(* lseek, read and write are left out.                                     *)
(***************************************************************************)
EXTENDS Integers

CONSTANTS
  DISK_BLOCKS,   \* blocks of the disk
  BLOCK_SIZE     \* cells of a block

ASSUME DiskAssumption == {DISK_BLOCKS, BLOCK_SIZE} \subseteq Nat \ {0}

VARIABLES
  exists,   \* the file that holds the disk exists
  active,   \* it is open
  blocks    \* what its blocks hold

diskVars == <<exists, active, blocks>>

Blocks == 0 .. DISK_BLOCKS - 1
Cells == 0 .. BLOCK_SIZE - 1

FileBytes(cells) == [kind |-> "bytes", cells |-> cells]
Blank == FileBytes([c \in Cells |-> 0])

DiskInit ==
  /\ exists = FALSE
  /\ active = FALSE
  /\ blocks = [b \in Blocks |-> Blank]

\* make_disk truncates and fills the file, whether or not somebody has it open.
Made == [b \in Blocks |-> Blank]

\* open_disk succeeds.
MayOpen == exists /\ ~active

\* block_write for every block in the domain of f.
Stored(bs, f) == [b \in Blocks |-> IF b \in DOMAIN f THEN f[b] ELSE bs[b]]

\* A cell that is read from a structure of the file system.
Junk == -1

\* block_read into a buffer of bytes.
CellsIn(b) == IF blocks[b].kind = "bytes" THEN blocks[b].cells ELSE [c \in Cells |-> Junk]
=============================================================================
