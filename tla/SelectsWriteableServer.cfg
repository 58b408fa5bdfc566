SPECIFICATION Spec
CONSTANTS
  Batches = {b1}
  Servers = {1, 2}
  Primary = 2
  Documents = {"id", "prefix", "plain"}
  Options = {{}, {"limit"}, {"multi"}}
  MaxOps = 2
  MaxRuns = 2
INVARIANTS
  SelectsWriteableServer
CHECK_DEADLOCK FALSE
