SPECIFICATION FairSpec
CONSTANTS
  t1 = t1
  t2 = t2
  f1 = f1
  f2 = f2
  zero = zero
  a = a
  Threads = {t1, t2}
  Files = {f1}
  Bytes = {zero, a}
  Zero = zero
  Size = 3
  LoffMax = 7
  CopyMax = 4
  Perm = "RDONLY"
  Uses <- OneFile
  Calls <- ReadersWhoMayWrite
  Faulty = {t1}
  Counts = {1, 2}
  Offsets <- EdgeOffsets
  Positions <- EdgePositions
PROPERTIES ReadOnlyMemory EventuallyAtEnd
