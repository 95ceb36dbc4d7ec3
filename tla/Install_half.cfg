SPECIFICATION Spec
INVARIANT NeverHalf
CONSTANTS
  Parts = {"inst"}
  root = root
  vol = vol
  mnt = mnt
  sub = sub
  words = words
  Sensible = TRUE
  BootBase = 2
  DiskSize = 8
  Align = 2
  Prim = 2
  Rootfs = 1
  InstallSize = 2
  BootTable <- Entries
  Wants = {0, 2, 4}
  MaxVolumes = 2
  MaxMounts = 1
  nil = nil
  NPages = 6
  Chunks = 2
  Sizes = {2, 6}
  Prog = {p1, p2}
  Refused = {p2}
  Key = {k1, k2}
  Ring = 3
  Blocks = {blk}
  Spins = 2
  TickMod = 6
  InstTargets = {hd, slice}
  WholeDisks = {hd}
  Chainable = {slice}
  System = 2
  Had = {"blank"}
