SPECIFICATION FairSpec
CONSTANTS
  Results = {r1}
  Loops = {l1, l2, l3}
  MaxDocs = 3
INVARIANTS
  EndMeansNoError
CHECK_DEADLOCK FALSE
