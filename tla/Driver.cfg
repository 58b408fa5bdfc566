\* Three objects of any classes and two clients.
SPECIFICATION Spec
SYMMETRY Symmetry
CONSTANTS
  Handles = {h1, h2, h3}
  MaxClients = 2
  MaxIdle = 1
INVARIANTS
  TypeOK
  ReleaseIsSafe
  DanglesOnlyWithoutManager
  NullIsExplained
  EachClientHasItsManager
\* The script stops.
CHECK_DEADLOCK FALSE
