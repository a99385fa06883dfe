SPECIFICATION Spec
CONSTANTS
  DISK_BLOCKS = 4
  BLOCK_SIZE = 2
  MAX_NUM_OF_FILES = 2
  MAX_FILE_DESCRIPTORS = 2
  CHAR_BIT = 2
  CountWidth = 4
  DirectBlocks = 2
  NextBlocks = 1
  InodeBlocks = 1
  Names = {a, b}
  Invalid = Invalid
  Values = {1, 2}
  Lengths = {3}
  Positions = {0, 1, 3}
  Client = {}
SYMMETRY Interchangeable
VIEW WithoutLast
INVARIANT BlocksOwnedOnce
PROPERTY ImplementsFileStore
