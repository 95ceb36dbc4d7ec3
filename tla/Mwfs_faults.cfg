SPECIFICATION FairSpec
INVARIANT NoCrossLink
PROPERTY CallReturns
CONSTANTS
  v1 = v1
  v2 = v2
  v3 = v3
  Name = {n1, n2}
  NoName = NoName
  Ino = {i1, i2, i3}
  NoIno = NoIno
  Blk = {b1, b2}
  NoBlk = NoBlk
  Version = {v1, v2}
  NoVer = NoVer
  Blocks <- MCBlocks
  MaxBlocks = 2
  CheckFirst = TRUE
  WriteFaults = {"lost", "landed"}
  ReadFaults = TRUE
