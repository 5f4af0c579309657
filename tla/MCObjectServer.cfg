CONSTANTS
  folder = folder
  file = file
  shell = shell
  compositor = compositor
  ai = ai
  dir = dir
  Null = Null
  Actors <- MCActors
  ClassOf <- MCClassOf
  AppOf <- MCAppOf
  Paths <- MCPaths
  Below <- MCBelow
  ObjectIds = {folder, file}
  Types = {"Folder", "File"}
  MethodNames = {"read", "delete"}
  Keys = {"count"}
  Values = {0}
  Blueprints <- MCBlueprints
  Acls <- MCAcls
  Grantees = {ai}
  Filters <- MCFilters
  MaxLog = 4
  MaxSubs = 1
SPECIFICATION Spec
CHECK_DEADLOCK FALSE
INVARIANTS
  TypeOK
  LifecycleOrder
  LogReplaysToStore
  EventsAuthorised
  TreeReachable
  DeliveryExact
PROPERTIES
  ImplementsFeed
