CONSTANTS
  main = main
  name = name
  SubDisplays <- MCSubDisplays
  Files <- MCFiles
  Heights <- MCHeights
  ViewNames <- MCViewNames
SPECIFICATION Spec
INVARIANT TypeOK
INVARIANT NoInternalError
INVARIANT NoUseAfterFree
INVARIANT DisplayFollowsState
INVARIANT BindingsFollowFocus
INVARIANT ViewSlotsFollowWindow
