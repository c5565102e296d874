\* A reservation that raises loses its task: two tasks, one worker.
SPECIFICATION FairSpec
CONSTANTS
  t1 = t1
  t2 = t2
  t3 = t3
  w1 = w1
  w2 = w2
  NoTask = NoTask
  Task <- TwoTasks
  Worker <- OneWorker
  Text <- TwoTasks
  Chat <- TwoTasks
  Unpredictable <- OneTask
  Impatient <- NoTasks
  Policy = "ordered"
  MaxBypass = 1
  PrepareConc = 2
  PrepareCap = 1
  ReadyCap = 1
  RespCap = 1
  MaxChunks = 1
PROPERTIES
  Answered
CHECK_DEADLOCK FALSE
