\* The default policy, with a prediction that may raise and a client that may leave.
SPECIFICATION Spec
CONSTANTS
  t1 = t1
  t2 = t2
  t3 = t3
  w1 = w1
  w2 = w2
  NoTask = NoTask
  Task <- ThreeTasks
  Worker <- TwoWorkers
  Text <- TwoTasks
  Chat <- TwoTasks
  Unpredictable <- SecondTask
  Impatient <- OneTask
  Policy = "ordered"
  MaxBypass = 1
  PrepareConc = 2
  PrepareCap = 1
  ReadyCap = 1
  RespCap = 1
  MaxChunks = 2
SYMMETRY WorkerSymmetry
INVARIANTS
  TypeOK
  ReleaseOrder
  ReadyStageExact
  DispatchInOrder
  TerminatorIsLast
PROPERTIES
  KeepsTicketOrder
CHECK_DEADLOCK FALSE
