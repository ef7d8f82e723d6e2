SPECIFICATION MCFairSpec
CONSTANTS
  n1 = n1
  n2 = n2
  gui = gui
  Nodes = {n1, n2}
  MasterIp = gui
  Cpus <- OneCpu
  Needs = {1}
  MaxAdds = 3
  MaxConn = 1
  Commands = {"runjobs"}
INVARIANTS DispatchedOnce HeadSurvives WorkConserving
PROPERTY QueueDrains
