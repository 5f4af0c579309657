CONSTANTS
  folder = folder
  inner = inner
  Null = Null
  Objs = {folder, inner}
  Types = {"Folder"}
  Birth = "v0"
  Vals = {"v1"}
  TypeOf <- MCTypeOf
  ParentOf <- MCParentOf
  MaxSets = 1
SPECIFICATION FairSpec
CHECK_DEADLOCK FALSE
INVARIANTS
  MirrorTree
  SeenIsShown
PROPERTIES
  EventuallyShown
