\* A batch of up to two operations, and two executions in all.
SPECIFICATION Spec
CONSTANTS
  Batches = {b1}
  Servers = {1, 2}
  Primary = 2
  Documents = {"id", "prefix", "plain"}
  Options = {{}, {"limit"}, {"multi"}}
  MaxOps = 2
  MaxRuns = 2
INVARIANTS
  TypeOK
  NoExceptionMeansAllDone
  PartialFailureIsReported
  
  OnlyAHintLeadsAstray
  RetryStoresOnce
  OptionsMeanTheSame
\* A script may stop: it has crashed, or used up its executions.
CHECK_DEADLOCK FALSE
