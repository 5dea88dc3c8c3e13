CONSTANTS
  Given <- MCGiven
  Scalars <- MCScalars
  MaxBuild = 3
  CopyEntry <- MCCopyEntry
  BuildEntry <- MCBuildEntry
  BuildEntryOnto <- MCBuildEntryOnto
SPECIFICATION Spec
INVARIANTS ArgumentsInOrder ArraysUnmixed Dispatched ResultsAsPushed Echoed
