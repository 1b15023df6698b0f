\* Every access of up to 31 bytes, in an address space of eight blocks of eight bytes.
CONSTANTS
  BLOCK_SIZE = 8
  AddrBits = 6
  SizeBits = 5
  MaxSize = 31

SPECIFICATION Spec

INVARIANTS
  TypeOK
  SplitExact
