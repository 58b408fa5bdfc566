\* Three loops over one result of up to three documents, in every order.
SPECIFICATION FairSpec
CONSTANTS
  Results = {r1}
  Loops = {l1, l2, l3}
  MaxDocs = 3
INVARIANTS
  TypeOK
  ResultOutlivesItsLoops
  FreedWithItsLastUser
  NothingLost
  NextGivesEachDocumentOnce
  SoleLoopSeesEverything
  EarlyLoopsStartAtTheFirst
PROPERTIES
  LoopsEnd
CHECK_DEADLOCK FALSE
