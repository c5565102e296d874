\* text_bypass, where one prediction may raise; nobody disconnects.
SPECIFICATION Spec
CONSTANTS
  t1 = t1
  t2 = t2
  t3 = t3
  w1 = w1
  w2 = w2
  NoTask = NoTask
  Task <- ThreeTasks
  Worker <- TwoWorkers
  Text <- TwoTasks
  Chat <- TwoTasks
  Unpredictable <- OneTask
  Impatient <- NoTasks
  Policy = "text_bypass"
  MaxBypass = 1
  PrepareConc = 2
  PrepareCap = 1
  ReadyCap = 1
  RespCap = 1
  MaxChunks = 1
SYMMETRY WorkerSymmetry
INVARIANTS
  TextNeverWaits
PROPERTIES
  KeepsTicketOrder
CHECK_DEADLOCK FALSE
