SPECIFICATION MCSpec
CONSTANTS
  n1 = n1
  n2 = n2
  gui = gui
  Nodes = {n1}
  MasterIp = gui
  Cpus <- ThreeCpus
  Needs = {2}
  MaxAdds = 2
  MaxConn = 2
  Commands = {"runjobs", "stop_all", "delete_all", "set_max_loads", "register"}
INVARIANTS LoadExact FinishedJobsRan
