SPECIFICATION Spec
CONSTANTS
  DISK_BLOCKS = 4
  BLOCK_SIZE = 1
  MAX_NUM_OF_FILES = 2
  MAX_FILE_DESCRIPTORS = 2
  CHAR_BIT = 2
  CountWidth = 2
  DirectBlocks = 1
  NextBlocks = 0
  InodeBlocks = 1
  Names = {a}
  Invalid = Invalid
  Values = {1}
  Lengths = {1}
  Positions = {0}
  Client = {"delete", "share"}
PROPERTY ClosedIsDeletable
