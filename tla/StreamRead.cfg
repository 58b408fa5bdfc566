\* Every way the peer's bytes can split up over the reads of one or more calls.
SPECIFICATION FairSpec
CONSTANTS
  Layouts <- MCLayouts
  MinBytes <- MCMinBytes
  MaxEntries = 3
  MaxOffset = 3
  MaxStream = 7
INVARIANTS
  TypeOK
  BuffersHoldTheStream
  ReadsIntoTheFirstGap
PROPERTIES
  ImplementsAtomicRead
  CallReturns
