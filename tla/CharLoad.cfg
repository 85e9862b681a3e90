SPECIFICATION Spec
CONSTANTS
  Drivers <- AllDrivers
  Pinned = TRUE
  Files = {f1, f2, f3}
INVARIANTS TypeOK LeaksAsKnown Layered OpenBacked
PROPERTY ReleasesHeld
