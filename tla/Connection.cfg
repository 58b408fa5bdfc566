\* Two nodes of different hosts, two streams, two messages.
SPECIFICATION Spec
CONSTANTS
  n1 = n1
  n2 = n2
  h1 = h1
  h2 = h2
  Nodes = {n1, n2}
  Hosts = {h1, h2}
  HostOf <- MCHostOf
  Buffers <- MCBuffers
  Timeouts <- MCTimeouts
  None = None
  MaxStreams = 2
  MaxRequests = 2
INVARIANTS
  TypeOK
  OnlyOthersTakeTheStream
  WaitsAsLastAsked
  SentMeansWhole
  RepliesStayInStep
PROPERTIES
  CallsEnd
\* A script that has crashed or used up its messages stops.
CHECK_DEADLOCK FALSE
