CONSTANTS
  Task = {t1, t2, t3, t4, t5}
  MaxConcurrent = 2
  Buffer = 1

SPECIFICATION FairPipelineSpec

INVARIANTS
  PipelineTypeOK
  QuotesConserved
  Backpressure

PROPERTIES
  Terminates
  ImplementsBatch

CHECK_DEADLOCK FALSE
