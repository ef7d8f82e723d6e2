SPECIFICATION MCSpec
CONSTANTS
  n1 = n1
  gui = gui
  a = a
  b = b
  d1 = d1
  d2 = d2
  d3 = d3
  Parts = {"command"}
  Nodes = {n1}
  GUI = gui
  NJobs = 1
  MaxRequests = 1
  Timely = TRUE
  Savers = {a}
  BufJobs = 1
  MaxAdds = 1
  MaxCrashes = 0
  Dirs = {d1, d2, d3}
  MaxOther = 1
  SleepCovers = "copy_packet"
INVARIANT EachReportsItself
PROPERTIES EachInItsDirectory AllReported
