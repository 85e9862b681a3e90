SPECIFICATION Spec
CONSTANTS
  Drivers <- LoopFails
  Pinned = TRUE
  Files = {f1, f2}
INVARIANT NothingLeaks
