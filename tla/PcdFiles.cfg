SPECIFICATION Spec
CONSTANTS
  t1 = t1
  t2 = t2
  f1 = f1
  f2 = f2
  zero = zero
  a = a
  Threads = {t1, t2}
  Files = {f1, f2}
  Bytes = {zero, a}
  Zero = zero
  Size = 2
  LoffMax = 7
  CopyMax = 4
  Perm = "RDWR"
  Uses <- SharedUses
  Calls <- SharedCalls
  Faulty = {t2}
  Counts = {1, 4}
  Offsets <- EdgeOffsets
  Positions <- EdgePositions
INVARIANTS TypeOK PositionInDevice TransferInDevice
PROPERTY MovesFromStart
