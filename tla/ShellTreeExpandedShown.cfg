SPECIFICATION TreeSpec
CONSTANTS
  Top = {a, b}
  Leaf = {x}
  MaxObjects = 6
  MaxChanges = 2
  MaxOps = 3
CHECK_DEADLOCK FALSE
INVARIANTS ExpandedShown
