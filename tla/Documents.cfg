\* Two nodes with three entries in all.
SPECIFICATION Spec
CONSTANTS
  Roots = {1}
  Wrap = 3
  Width = 4
  Classes <- MCClasses
  Keys <- MCKeys
  Leaves = {"scalar", "resource"}
  Received <- MCReceived
  Limits <- MCLimits
  Modifiers <- MCModifiers
  MaxEntries = 3
INVARIANTS
  TypeOK
  EncodesUnlessEndless
  ArraysAscend
  LeavesKeepTheirPaths
  NamesClashOnlyWhenCut
  DecodingIsUndone
  CorruptionIsLocal
  BuiltMeansComplete
\* The script stops.
CHECK_DEADLOCK FALSE
