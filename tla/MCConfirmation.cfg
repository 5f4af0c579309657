SPECIFICATION FairSpec
CONSTANTS
  a1 = a1
  a2 = a2
  screenActor = screenActor
  user = user
  none = none
  Null = none
  Ais = {a1, a2}
  Compositor = screenActor
  LocalUser = user
  Names <- MCNames
  Cwd <- MCCwd
  FsIds = {1, 2, 3, 4}
  Tree <- MCTree
  Calls <- MCCalls
  Workspaces <- MCWorkspaces
  MaxCalls = 2
  MaxInbox = 2
  MaxSaid = 3
  MaxRuns = 2
INVARIANTS
  Consent
  NoSecondQuestion
  WorkspacesSurvive
  GrantsReachServer
PROPERTIES
  EventuallySettled
CHECK_DEADLOCK FALSE
