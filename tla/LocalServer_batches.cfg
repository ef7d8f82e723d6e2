SPECIFICATION MCSpec
CONSTANTS
  Cpus = 2
  TimeOut = 2
  MaxJobs = 3
  MaxBatch = 2
  Slots = 3
  MaxAdds = 4
INVARIANTS AtMostCpus CalledFinishedHasEnded RaisesOnlyWhenLate
PROPERTY BothEnd
