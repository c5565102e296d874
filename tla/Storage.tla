------------------------------ MODULE Storage -------------------------------
(***************************************************************************)
(* The modules of what is stored and of what is measured, checked side by  *)
(* side: a behaviour is one of the module that `part' names, and the       *)
(* variables of the others are Unused.  Those of what runs on an           *)
(* Instance's host are in InstanceHost.                                    *)
(***************************************************************************)
EXTENDS Integers, Sequences, InstanceHost

(* The constants of every other module, under its prefix.                 *)
CONSTANTS
  ks_Kid, ks_None, ks_MaxFaults,
  ko_Kid, ko_Absent, ko_MaxFiles,
  kt_Kid, kt_First, kt_Last, kt_Scores, kt_TopK, kt_MinScore, kt_Num,
  kt_Den, kt_Server, kt_MaxId, kt_None,
  pc_MaxRequests, pc_Templates, pc_Concurrency, pc_KvPart, pc_TextPart,
  pc_Block, pc_MaxFailures,
  cg_Key, cg_Blank, cg_Artifact, cg_Described, cg_Intent, cg_Lacking,
  cg_MaxGen, cg_MaxTime, cg_Lifetime, cg_None,
  Unused   \* the value of the variables of the modules that are not checked

VARIABLES
  part,   \* the module that is checked
  ks_row, ks_file, ks_dump, ks_cached, ks_op, ks_injecting, ks_lost,
  ks_spoilt, ks_faults,
  ko_row, ko_manifest, ko_step, ko_verdict, ko_command, ko_kept, ko_undone,
  kt_origin, kt_faiss, kt_serving, kt_work, kt_changed, kt_local, kt_nextId,
  kt_loading,
  pc_mode, pc_phase, pc_n, pc_due, pc_created, pc_state, pc_inflight,
  pc_peak, pc_results, pc_known, pc_source, pc_monitor, pc_most, pc_failures,
  cg_profile, cg_supported, cg_gen, cg_now, cg_latest, cg_record, cg_task,
  cg_asked, cg_answer, cg_told, cg_ran

ks_vars == <<ks_row, ks_file, ks_dump, ks_cached, ks_op, ks_injecting,
              ks_lost, ks_spoilt, ks_faults>>
ko_vars == <<ko_row, ko_manifest, ko_step, ko_verdict, ko_command, ko_kept,
              ko_undone>>
kt_vars == <<kt_origin, kt_faiss, kt_serving, kt_work, kt_changed, kt_local,
              kt_nextId, kt_loading>>
pc_vars == <<pc_mode, pc_phase, pc_n, pc_due, pc_created, pc_state,
              pc_inflight, pc_peak, pc_results, pc_known, pc_source,
              pc_monitor, pc_most, pc_failures>>
cg_vars == <<cg_profile, cg_supported, cg_gen, cg_now, cg_latest, cg_record,
              cg_task, cg_asked, cg_answer, cg_told, cg_ran>>

vars == <<part, ks_vars, ko_vars, kt_vars, ma_vars, pa_vars, td_vars,
            pc_vars, tp_vars, tb_vars, cf_vars, cg_vars>>

KS == INSTANCE KdnStore WITH
  row <- ks_row, file <- ks_file, dump <- ks_dump, cached <- ks_cached,
  op <- ks_op, injecting <- ks_injecting, lost <- ks_lost,
  spoilt <- ks_spoilt, faults <- ks_faults, Kid <- ks_Kid, None <- ks_None,
  MaxFaults <- ks_MaxFaults

KO == INSTANCE KdnTools WITH
  row <- ko_row, manifest <- ko_manifest, step <- ko_step,
  verdict <- ko_verdict, command <- ko_command, kept <- ko_kept,
  undone <- ko_undone, Kid <- ko_Kid, Absent <- ko_Absent,
  MaxFiles <- ko_MaxFiles

KT == INSTANCE KnowledgeTable WITH
  origin <- kt_origin, faiss <- kt_faiss, serving <- kt_serving,
  work <- kt_work, changed <- kt_changed, local <- kt_local,
  nextId <- kt_nextId, loading <- kt_loading, Kid <- kt_Kid,
  First <- kt_First, Last <- kt_Last, Scores <- kt_Scores, TopK <- kt_TopK,
  MinScore <- kt_MinScore, Num <- kt_Num, Den <- kt_Den,
  Server <- kt_Server, MaxId <- kt_MaxId, None <- kt_None

PC == INSTANCE PerfClient WITH
  mode <- pc_mode, phase <- pc_phase, n <- pc_n, due <- pc_due,
  created <- pc_created, state <- pc_state, inflight <- pc_inflight,
  peak <- pc_peak, results <- pc_results, known <- pc_known,
  source <- pc_source, monitor <- pc_monitor, most <- pc_most,
  failures <- pc_failures, MaxRequests <- pc_MaxRequests,
  Templates <- pc_Templates, Concurrency <- pc_Concurrency,
  KvPart <- pc_KvPart, TextPart <- pc_TextPart, Block <- pc_Block,
  MaxFailures <- pc_MaxFailures

CG == INSTANCE CacheGateway WITH
  profile <- cg_profile, supported <- cg_supported, gen <- cg_gen,
  now <- cg_now, latest <- cg_latest, record <- cg_record,
  task <- cg_task, asked <- cg_asked, answer <- cg_answer,
  told <- cg_told, ran <- cg_ran, Key <- cg_Key, Blank <- cg_Blank,
  Artifact <- cg_Artifact, Described <- cg_Described,
  Intent <- cg_Intent, Lacking <- cg_Lacking, MaxGen <- cg_MaxGen,
  MaxTime <- cg_MaxTime, Lifetime <- cg_Lifetime, None <- cg_None

(* What the modules assume of their constants. *)
ASSUME StorageAssumption ==
  /\ KS!ConstantsAssumption /\ KO!ConstantsAssumption
  /\ KT!ConstantsAssumption /\ MA!ConstantsAssumption
  /\ PA!ConstantsAssumption /\ TD!ConstantsAssumption
  /\ PC!ConstantsAssumption /\ TP!ConstantsAssumption
  /\ TB!ConstantsAssumption /\ CF!ConstantsAssumption
  /\ CG!ConstantsAssumption

(* The variables of the modules that are not checked. *)
IdleKS ==
  /\ ks_row = Unused /\ ks_file = Unused /\ ks_dump = Unused
  /\ ks_cached = Unused /\ ks_op = Unused /\ ks_injecting = Unused
  /\ ks_lost = Unused /\ ks_spoilt = Unused /\ ks_faults = Unused
IdleKO ==
  /\ ko_row = Unused /\ ko_manifest = Unused /\ ko_step = Unused
  /\ ko_verdict = Unused /\ ko_command = Unused /\ ko_kept = Unused
  /\ ko_undone = Unused
IdleKT ==
  /\ kt_origin = Unused /\ kt_faiss = Unused /\ kt_serving = Unused
  /\ kt_work = Unused /\ kt_changed = Unused /\ kt_local = Unused
  /\ kt_nextId = Unused /\ kt_loading = Unused
IdleMA ==
  /\ ma_free = Unused /\ ma_obj = Unused /\ ma_total = Unused
  /\ ma_active = Unused /\ ma_stray = Unused
IdlePA ==
  /\ pa_freeBlocks = Unused /\ pa_ref = Unused /\ pa_pin = Unused
  /\ pa_cut = Unused /\ pa_wants = Unused /\ pa_full = Unused
  /\ pa_taken = Unused /\ pa_holds = Unused /\ pa_known = Unused
  /\ pa_overdrawn = Unused
IdleTD ==
  /\ td_kind = Unused /\ td_tokens = Unused /\ td_falses = Unused
  /\ td_unfull = Unused /\ td_matches = Unused /\ td_cut = Unused
  /\ td_at = Unused /\ td_prefix = Unused /\ td_yielded = Unused
  /\ td_result = Unused
IdlePC ==
  /\ pc_mode = Unused /\ pc_phase = Unused /\ pc_n = Unused
  /\ pc_due = Unused /\ pc_created = Unused /\ pc_state = Unused
  /\ pc_inflight = Unused /\ pc_peak = Unused /\ pc_results = Unused
  /\ pc_known = Unused /\ pc_source = Unused /\ pc_monitor = Unused
  /\ pc_most = Unused /\ pc_failures = Unused
IdleTP ==
  /\ tp_at = Unused /\ tp_config = Unused /\ tp_repeat = Unused
  /\ tp_mark = Unused /\ tp_retries = Unused /\ tp_data = Unused
  /\ tp_scaler = Unused /\ tp_model = Unused /\ tp_reports = Unused
IdleTB ==
  /\ tb_phase = Unused /\ tb_job = Unused /\ tb_todo = Unused
  /\ tb_start = Unused /\ tb_measured = Unused /\ tb_exact = Unused
  /\ tb_load = Unused /\ tb_prefills = Unused /\ tb_disturbed = Unused
  /\ tb_model = Unused /\ tb_curve = Unused /\ tb_collections = Unused
  /\ tb_faults = Unused
IdleCF ==
  /\ cf_samples = Unused /\ cf_lines = Unused /\ cf_fits = Unused
  /\ cf_writing = Unused /\ cf_file = Unused /\ cf_answer = Unused
IdleCG ==
  /\ cg_profile = Unused /\ cg_supported = Unused /\ cg_gen = Unused
  /\ cg_now = Unused /\ cg_latest = Unused /\ cg_record = Unused
  /\ cg_task = Unused /\ cg_asked = Unused /\ cg_answer = Unused
  /\ cg_told = Unused /\ cg_ran = Unused

Init ==
  \/ /\ part = "store" /\ KS!Init
     /\ IdleKO /\ IdleKT /\ IdleMA /\ IdlePA /\ IdleTD /\ IdlePC /\ IdleTP
     /\ IdleTB /\ IdleCF /\ IdleCG
  \/ /\ part = "tools" /\ KO!Init
     /\ IdleKS /\ IdleKT /\ IdleMA /\ IdlePA /\ IdleTD /\ IdlePC /\ IdleTP
     /\ IdleTB /\ IdleCF /\ IdleCG
  \/ /\ part = "table" /\ KT!Init
     /\ IdleKS /\ IdleKO /\ IdleMA /\ IdlePA /\ IdleTD /\ IdlePC /\ IdleTP
     /\ IdleTB /\ IdleCF /\ IdleCG
  \/ /\ part = "buffer" /\ MA!Init
     /\ IdleKS /\ IdleKO /\ IdleKT /\ IdlePA /\ IdleTD /\ IdlePC /\ IdleTP
     /\ IdleTB /\ IdleCF /\ IdleCG
  \/ /\ part = "pages" /\ PA!Init
     /\ IdleKS /\ IdleKO /\ IdleKT /\ IdleMA /\ IdleTD /\ IdlePC /\ IdleTP
     /\ IdleTB /\ IdleCF /\ IdleCG
  \/ /\ part = "tokens" /\ TD!Init
     /\ IdleKS /\ IdleKO /\ IdleKT /\ IdleMA /\ IdlePA /\ IdlePC /\ IdleTP
     /\ IdleTB /\ IdleCF /\ IdleCG
  \/ /\ part = "client" /\ PC!Init
     /\ IdleKS /\ IdleKO /\ IdleKT /\ IdleMA /\ IdlePA /\ IdleTD /\ IdleTP
     /\ IdleTB /\ IdleCF /\ IdleCG
  \/ /\ part = "ttft" /\ TP!Init
     /\ IdleKS /\ IdleKO /\ IdleKT /\ IdleMA /\ IdlePA /\ IdleTD /\ IdlePC
     /\ IdleTB /\ IdleCF /\ IdleCG
  \/ /\ part = "tpot" /\ TB!Init
     /\ IdleKS /\ IdleKO /\ IdleKT /\ IdleMA /\ IdlePA /\ IdleTD /\ IdlePC
     /\ IdleTP /\ IdleCF /\ IdleCG
  \/ /\ part = "coefficients" /\ CF!Init
     /\ IdleKS /\ IdleKO /\ IdleKT /\ IdleMA /\ IdlePA /\ IdleTD /\ IdlePC
     /\ IdleTP /\ IdleTB /\ IdleCG
  \/ /\ part = "gateway" /\ CG!Init
     /\ IdleKS /\ IdleKO /\ IdleKT /\ IdleMA /\ IdlePA /\ IdleTD /\ IdlePC
     /\ IdleTP /\ IdleTB /\ IdleCF

OthersKS == <<ko_vars, kt_vars, ma_vars, pa_vars, td_vars, pc_vars, tp_vars,
              tb_vars, cf_vars, cg_vars>>
OthersKO == <<ks_vars, kt_vars, ma_vars, pa_vars, td_vars, pc_vars, tp_vars,
              tb_vars, cf_vars, cg_vars>>
OthersKT == <<ks_vars, ko_vars, ma_vars, pa_vars, td_vars, pc_vars, tp_vars,
              tb_vars, cf_vars, cg_vars>>
OthersMA == <<ks_vars, ko_vars, kt_vars, pa_vars, td_vars, pc_vars, tp_vars,
              tb_vars, cf_vars, cg_vars>>
OthersPA == <<ks_vars, ko_vars, kt_vars, ma_vars, td_vars, pc_vars, tp_vars,
              tb_vars, cf_vars, cg_vars>>
OthersTD == <<ks_vars, ko_vars, kt_vars, ma_vars, pa_vars, pc_vars, tp_vars,
              tb_vars, cf_vars, cg_vars>>
OthersPC == <<ks_vars, ko_vars, kt_vars, ma_vars, pa_vars, td_vars, tp_vars,
              tb_vars, cf_vars, cg_vars>>
OthersTP == <<ks_vars, ko_vars, kt_vars, ma_vars, pa_vars, td_vars, pc_vars,
              tb_vars, cf_vars, cg_vars>>
OthersTB == <<ks_vars, ko_vars, kt_vars, ma_vars, pa_vars, td_vars, pc_vars,
              tp_vars, cf_vars, cg_vars>>
OthersCF == <<ks_vars, ko_vars, kt_vars, ma_vars, pa_vars, td_vars, pc_vars,
              tp_vars, tb_vars, cg_vars>>
OthersCG == <<ks_vars, ko_vars, kt_vars, ma_vars, pa_vars, td_vars, pc_vars,
              tp_vars, tb_vars, cf_vars>>

Next ==
  /\ part' = part
  /\ \/ part = "store" /\ KS!Next /\ UNCHANGED OthersKS
     \/ part = "tools" /\ KO!Next /\ UNCHANGED OthersKO
     \/ part = "table" /\ KT!Next /\ UNCHANGED OthersKT
     \/ part = "buffer" /\ MA!Next /\ UNCHANGED OthersMA
     \/ part = "pages" /\ PA!Next /\ UNCHANGED OthersPA
     \/ part = "tokens" /\ TD!Next /\ UNCHANGED OthersTD
     \/ part = "client" /\ PC!Next /\ UNCHANGED OthersPC
     \/ part = "ttft" /\ TP!Next /\ UNCHANGED OthersTP
     \/ part = "tpot" /\ TB!Next /\ UNCHANGED OthersTB
     \/ part = "coefficients" /\ CF!Next /\ UNCHANGED OthersCF
     \/ part = "gateway" /\ CG!Next /\ UNCHANGED OthersCG

Spec == Init /\ [][Next]_vars

-----------------------------------------------------------------------------
(* The types of the variables, and what the modules' type invariants say   *)
(* of them: a server that serves can predict, inflight counts the open     *)
(* requests, a half written file is one that is being written.             *)
Typed ==
  /\ part = "store" => KS!TypeOK
  /\ part = "tools" => KO!TypeOK
  /\ part = "table" => KT!TypeOK
  /\ part = "buffer" => MA!TypeOK
  /\ part = "pages" => PA!TypeOK
  /\ part = "tokens" => TD!TypeOK
  /\ part = "client" => PC!TypeOK
  /\ part = "ttft" => TP!TypeOK
  /\ part = "tpot" => TB!TypeOK
  /\ part = "coefficients" => CF!TypeOK
  /\ part = "gateway" => CG!TypeOK

(* Whatever crashes between two steps of the KDN, a row of its index has   *)
(* its text, and a row that says kv_ready a whole dump - but for a purge   *)
(* whose index part failed, a later build of the block that failed, and    *)
(* keys that were evicted while they were dumped (text_db.register_text,   *)
(* delete_one, kv_builder.build_from_text).                                *)
IndexHasItsFiles == part = "store" => KS!TextSurvives /\ KS!ReadyHasDump

(* An injection that found a block ready, waited, and meanwhile saw it     *)
(* deleted, registered and built again, does not report a half dump as     *)
(* injected (kdn_api.inject_ready_kv) - unless keys were evicted while the *)
(* dump was made, or a crash cut the rebuild of a ready block short        *)
(* (KdnStore, `spoilt').                                                   *)
NoHalfInjection ==
  [][part = "store" => \A x \in ks_Kid : KS!InjectsWhole(x)]_ks_vars

(* What the batch registration says of a text is true at its end: "ok"     *)
(* only if its cache is ready, and "failed" if the text it found is gone,  *)
(* but for what an operator removed (batch_register_kdn.main).             *)
VerdictsAreTrue == part = "tools" => KO!VerdictsAreTrue

(* A search answers with the best blocks, each under its own kid and with  *)
(* its own score, with an index or without one, whatever was registered    *)
(* and deleted before; the number a local item is given is free            *)
(* (KnowledgeTable.search_by_embedding, _register_kid, assign_new_id).     *)
BlocksKeepTheirNames == part = "table" => KT!BlocksKeepTheirNames

(* Memory has one owner.  Every unit of the buffer belongs to one free     *)
(* block or to one object and free neighbours are one block, until a batch *)
(* that begins with an object that is not valid any more strays; always    *)
(* the totals are those of the objects in use, and what nobody refers to   *)
(* or pins is free (TensorMemoryAllocator.allocate, free, batched_free).   *)
(* A page is in the deque once, or one thread has it, or a pin keeps it,   *)
(* until somebody gives up a reference or a pin that is not his; always a  *)
(* page in the deque has its whole buffer again                            *)
(* (PagedTensorMemoryAllocator.batched_allocate, free, unpin).             *)
OneOwner ==
  /\ part = "buffer" => /\ MA!BufferPartitioned /\ MA!NoFragments
                        /\ MA!CountsAreTrue /\ MA!NothingLeaks
  /\ part = "pages" => PA!OneOwner /\ PA!FreePagesAreWhole

(* Giving up a reference or a pin frees an object only when no reference   *)
(* and no pin is left (TensorMemoryObj.ref_count_down, unpin).             *)
KeptWhileHeld ==
  [][part = "buffer" => \A o \in ma_Obj : MA!FreedWhenUnused(o)]_ma_vars

(* A key of a chunk stands for all the tokens up to its end, a key of a    *)
(* segment for the tokens between its start and end                        *)
(* (ChunkedTokenDatabase, SegmentTokenDatabase.process_tokens).            *)
KeysNameTheirTokens == part = "tokens" => TD!KeysNameTheirTokens

(* What a summary says is about the run that was asked for: its load, its  *)
(* peak, every answer at its place, and the mix of kinds                   *)
(* (run_concurrent_mode, run_rps_mode, summarize).                         *)
SummaryIsOfTheRun == part = "client" => PC!SummaryIsOfTheRun

(* The coefficients of the TTFT model are of the seed alone, or of none of *)
(* it; a measurement is stored under the configuration it was made with,   *)
(* and a report is mistaken for one of its own round only; the scaler is   *)
(* of the same samples, unless the fit raised after it                     *)
(* (perform_detailed_warmup, PrefillTimeRegressor.fit).                    *)
ModelIsOfOneCampaign == part = "ttft" => TP!ModelIsOfOneCampaign

(* A TPOT curve is of the scenario it is labelled with and as dense as     *)
(* planned: no baseline request beside a prefill, no gap between windows,  *)
(* no model value where something was measured (collect_tpot_range,        *)
(* collect_continuous_tpot_curve, run_background_prefill_load).            *)
CurveIsAsPlanned == part = "tpot" => TB!CurveIsAsPlanned

(* A prediction comes from one fit, whatever failed before it was saved    *)
(* and whatever is saved while it is made, and the breakdown of a request  *)
(* accounts for every token (fit, save_coefficients_json,                  *)
(* predict_prefill_and_redis_breakdown).                                   *)
PredictionsAreOfOneFit == part = "coefficients" => CF!PredictionsAreOfOneFit

(* A gateway answers every request, with what was asked for or with the    *)
(* reason why not - but an intent whose key is blank, and an intent or a   *)
(* cancellation made while the clock is behind what it showed before, may  *)
(* end with an exception.  An intent that is submitted again is done once  *)
(* under its generation, and the end of it that a client was told of       *)
(* stays, across restarts too (MockGateway, LegacyCacheAdapter,            *)
(* CacheServiceResponse, CacheOperationTask).                              *)
AnswersHold == part = "gateway" => CG!AnswersHold
=============================================================================
