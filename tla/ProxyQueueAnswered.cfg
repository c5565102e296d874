\* Liveness: predictions work and clients stay.
SPECIFICATION FairSpec
CONSTANTS
  t1 = t1
  t2 = t2
  t3 = t3
  w1 = w1
  w2 = w2
  NoTask = NoTask
  Task <- TwoTasks
  Worker <- TwoWorkers
  Text <- OneTask
  Chat <- TwoTasks
  Unpredictable <- NoTasks
  Impatient <- NoTasks
  Policy = "text_bypass"
  MaxBypass = 2
  PrepareConc = 2
  PrepareCap = 1
  ReadyCap = 1
  RespCap = 1
  MaxChunks = 2
PROPERTIES
  Answered
CHECK_DEADLOCK FALSE
