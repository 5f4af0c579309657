CONSTANTS
  mine = mine
  other = other
  Null = Null
  Subs = {1, 2}
  Names = {"a", "b"}
  Mine = {mine}
  Others = {other}
  Requests <- MCRequests
  MaxLog = 2
  MaxFrames = 3
SPECIFICATION FairSpec
CHECK_DEADLOCK FALSE
INVARIANTS
  PushedExactly
  MappedIsOpen
  NamedRightly
  RepliesInOrder
PROPERTIES
  EventuallyServed
  DisconnectDestroys
