\* The modules of a request's way; the bounded behaviours stop at their bounds.
SPECIFICATION FairSpec
CONSTANTS
  p1 = p1
  p2 = p2
  k1 = k1
  k2 = k2
  x1 = x1
  x2 = x2
  t1 = t1
  t2 = t2
  t3 = t3
  ss_Proxy = {p1, p2}
  ss_Client = {c1, c2}
  ss_None = None
  ss_MaxId = 3
  ss_MaxLeaks = 1
  ss_MaxStarts = 2
  rr_Kdn = {k1, k2, k3}
  rr_Proxy = {p1, p2}
  rr_CursorPeriod = 6
  kc_Kdn = {k1, k2}
  kc_Kid = {x1, x2}
  kc_Rank <- KdnRank
  kc_LengthOf <- Lengths
  kc_MaxLoad = 1
  kc_LoadTh = 1
  pa_Proxy = {p1, p2}
  pa_Kid = {x1, x2}
  pa_Rank <- ProxyRank
  pa_MaxLink = 1
  pa_Window = 1
  pa_Unit = 2
  pa_Num = 1
  pa_Den = 2
  pa_TopK = 1
  pa_CursorPeriod = 2
  pa_MaxInflight = 3
  qf_Task = {t1, t2, t3}
  qf_KvTasks = {t1, t2}
  qf_Transfer <- Transfers
  qf_Service <- Services
  qf_Slots = 2
  qf_MaxTime = 3
  rt_None = None
  kl_Handler = {t1, t2, t3}
  Unused = Unused
INVARIANTS
  Typed
  CountsAreTrue
  FreshIds
  ChoosesAsPromised
  HistoryIsShared
  NoWindowIsPromisedTwice
  OneStory
PROPERTIES
  ListFollowsProcesses
  LoadBeforeHistory
  EveryTransferEnds
CHECK_DEADLOCK FALSE
