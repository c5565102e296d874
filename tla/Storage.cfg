\* The modules of what is stored and measured; the bounded behaviours stop at their bounds.
SPECIFICATION Spec
CONSTANTS
  x1 = x1
  x2 = x2
  x3 = x3
  ks_Kid = {x1, x2}
  ks_None = None
  ks_MaxFaults = 1
  ko_Kid = {x1, x2}
  ko_Absent = Absent
  ko_MaxFiles = 3
  kt_Kid = {x1, x2, x3}
  kt_First <- FirstDigits
  kt_Last <- LastDigits
  kt_Scores = {2, 3}
  kt_TopK = 2
  kt_MinScore = 1
  kt_Num = 3
  kt_Den = 4
  kt_Server = {s1}
  kt_MaxId = 2
  kt_None = None
  ma_Obj = {o1, o2, o3}
  ma_Size = 6
  ma_Align = 2
  ma_Raw = {1, 3}
  ma_MaxBatch = 3
  ma_MaxRef = 2
  ma_MaxPin = 1
  pa_Thread = {t1, t2}
  pa_Page = {o1, o2, o3}
  pa_MaxBatch = 3
  pa_MaxRef = 2
  pa_MaxPin = 1
  td_Token = {1, 2}
  td_Sep <- Separator
  td_ChunkSize = 2
  td_MaxTokens = 5
  pc_MaxRequests = 4
  pc_Templates = 3
  pc_Concurrency = 2
  pc_KvPart = 2
  pc_TextPart = 1
  pc_Block = {x1, x2}
  pc_MaxFailures = 1
  tp_Configs = 2
  tp_Repeats = 2
  tp_MaxRetries = 2
  tp_MaxReports = 2
  tb_Longest = 4
  tb_Offset = 1
  tb_Tokens = {1, 4}
  tb_Overlaps = {1, 4}
  tb_PrefillLoad = 1
  tb_MaxFaults = 1
  tb_MaxCollections = 2
  cf_BatchSizes = {1, 2, 4}
  cf_Asked = {0, 1, 3, 4}
  cf_MaxSamples = 2
  cf_MaxFits = 2
  cf_MaxTokens = 3
  cf_Align = 2
  cg_Key = {s1, s2}
  cg_Blank = {s2}
  cg_Artifact = {x1, x2}
  cg_Described = {x1}
  cg_Intent = {"prefetch", "clear"}
  cg_Lacking = {{"maintenance_eviction"}}
  cg_MaxGen = 2
  cg_MaxTime = 1
  cg_Lifetime = 1
  cg_None = None
  Unused = Unused
INVARIANTS
  Typed
  IndexHasItsFiles
  VerdictsAreTrue
  BlocksKeepTheirNames
  OneOwner
  KeysNameTheirTokens
  SummaryIsOfTheRun
  ModelIsOfOneCampaign
  CurveIsAsPlanned
  PredictionsAreOfOneFit
  AnswersHold
PROPERTIES
  NoHalfInjection
  KeptWhileHeld
CHECK_DEADLOCK FALSE
