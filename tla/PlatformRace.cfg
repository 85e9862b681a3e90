SPECIFICATION FairDSpec
CONSTANTS
  N = 3
  MayFail <- AnyFailure
  NoThread = NoThread
  Requests <- SomeRequests
INVARIANTS TypeOK BoundIsWhole LayeredDevices NumbersOwned NoneMissed CountExact FileKeepsDriver
PROPERTIES ModulesSettle DevReadEnds
