SPECIFICATION Spec
CONSTANTS
  N = 2
  MayFail = {"class"}
  NoThread = NoThread
INVARIANT NumbersOwned
