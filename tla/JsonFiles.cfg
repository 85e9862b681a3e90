SPECIFICATION Spec
CONSTANTS
  Keys <- KeysTyped
  Fold <- LowerCase
  NoKey = NoKey
  EmptyKey = ""
  Strings = {"s"}
  Numbers = {"7"}
  Indices <- AroundArray
  MaxElements = 2
  NestedKeys = {"k", "x"}
  MaxNested = 1
  Missing = Missing
  Torn = Torn
  NullText = NullText
  NULL = NULL
  NoRoot = NoRoot
  MaxMembers <- Members
  MaxFailing <- Failing
  MaxUnread <- Unread
INVARIANTS TypeOK FileUpToDate
PROPERTIES OthersKept RemovesOneLeaf UpdateKeepsNames 
