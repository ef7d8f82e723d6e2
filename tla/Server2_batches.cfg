SPECIFICATION MCFairSpec
CONSTANTS
  NCpu = 2
  MaxThreads = 4
  MaxBatch = 3
  JobsPerBatch = 2
INVARIANTS BatchComplete ScratchExclusive SlotHeldWhileLive FirstBatchLosesNoWorker
PROPERTIES PoolSpec BatchReturns
