SPECIFICATION Spec
INVARIANT TypeOK
INVARIANT FilesIntact
INVARIANT NoCrossLink
INVARIANT CleanWhenQuiet
PROPERTY RepairLosesNoFile
PROPERTY ImplementsAbs
SYMMETRY Symmetry
CONSTANTS
  v1 = v1
  v2 = v2
  v3 = v3
  Name = {n1, n2}
  NoName = NoName
  Ino = {i1, i2, i3, i4}
  NoIno = NoIno
  Blk = {b1, b2, b3, b4}
  NoBlk = NoBlk
  Version = {v1, v2, v3}
  NoVer = NoVer
  Blocks <- MCBlocks
  MaxBlocks = 2
  CheckFirst = TRUE
  WriteFaults = {"lost"}
  ReadFaults = FALSE
