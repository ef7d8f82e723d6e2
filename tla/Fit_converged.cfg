SPECIFICATION MCSpec
CONSTANTS
  Problems <- MCProblems
  Dark = Dark
  Steps = 2
  Clever = 3
  Badly = 5
  RampFrom = 1
  RampStep = 1
  FirstMin = 4
  MaxTries = 1
  Parts = {"fit"}
  Configs <- MCConfigs
  Dims = {1, 2}
  Errors = {0, 1, 2}
  StopError = 1
  NoError = NoError
  Used = {"x"}
  Depth = 0
  Saved <- MCSaved
  Numbers = {"1"}
  MaxMembers = 3
PROPERTY ConvergedEndsFit
CHECK_DEADLOCK FALSE
