SPECIFICATION MCSpec
CONSTANTS
  n1 = n1
  gui = gui
  a = a
  b = b
  d1 = d1
  d2 = d2
  d3 = d3
  Parts = {"save"}
  Nodes = {n1}
  GUI = gui
  NJobs = 1
  MaxRequests = 1
  Timely = TRUE
  Savers = {a, b}
  BufJobs = 1
  MaxAdds = 2
  MaxCrashes = 2
  Dirs = {d1}
  MaxOther = 0
  SleepCovers = "copy_packet"
INVARIANTS NoneHandedOutAgain
PROPERTY FileMended
