CONSTANTS
  Current <- MCCurrent
  Deprecated <- MCDeprecated
  Libraries <- MCLibraries
  Dofs = 2
  Robots = {0, 2}
  Modes = {0, 1}
  Ignore = 0
  MaxScenes = 2
  MaxConnects = 3
SPECIFICATION Spec
INVARIANTS LibraryHeld NoNullCall ErrorModeKept QueuesHeld OwnAngle
CHECK_DEADLOCK FALSE
