SPECIFICATION Spec
CONSTANTS
  t1 = t1
  t2 = t2
  f1 = f1
  f2 = f2
  zero = zero
  a = a
  Threads = {t1, t2}
  Files = {f1}
  Bytes = {zero, a}
  Zero = zero
  Size = 2
  LoffMax = 7
  CopyMax = 4
  Perm = "WRONLY"
  Uses <- OneFile
  Calls <- AllCalls
  Faulty = {}
  Counts = {1, 4}
  Offsets <- EdgeOffsets
  Positions <- EdgePositions
INVARIANT WriteOnlyHonoured
