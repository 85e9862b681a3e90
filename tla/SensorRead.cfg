SPECIFICATION FairSpec
CONSTANTS
  cat = cat
  hwclock = hwclock
  Thermometers = {cat}
  Clocks = {hwclock}
  Registers <- EdgeRegisters
  Counts = {8, 40}
  ClockCounts = {7, 9}
  MaxErrors = 1
  MsgRange = 8
INVARIANTS TypeOK PiecesFollow ReadsTemperature MovesWhatItReturns
PROPERTY ReadingEnds
