SPECIFICATION HSpec
CONSTANTS
  Sole = t1
  Threads = {t1}
  Files = {f1, f2}
  Bytes = {zero, a}
  Zero = zero
  Size = 2
  LoffMax = 7
  CopyMax = 4
  Perm = "RDWR"
  Uses <- SoleUses
  Calls <- SoleCalls
  Faulty = {t1}
  Counts = {0, 1, 3}
  Offsets <- EdgeOffsets
  Positions = {1, 2, 3, 6}
PROPERTY ImplementsMemory
