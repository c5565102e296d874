------------------------------ MODULE Routing -------------------------------
(***************************************************************************)
(* The modules of a request's way, from the Scheduler's routing to the     *)
(* Instance's answer, checked side by side: a behaviour is one of the      *)
(* module that `part' names, and the variables of the others are Unused.   *)
(***************************************************************************)
EXTENDS Integers

(* The constants of every module, under its prefix.                       *)
CONSTANTS
  ss_Proxy, ss_Client, ss_None, ss_MaxId, ss_MaxLeaks, ss_MaxStarts,
  rr_Kdn, rr_Proxy, rr_CursorPeriod,
  kc_Kdn, kc_Kid, kc_Rank, kc_LengthOf, kc_MaxLoad, kc_LoadTh,
  pa_Proxy, pa_Kid, pa_Rank, pa_MaxLink, pa_Window, pa_Unit, pa_Num, pa_Den,
  pa_TopK, pa_CursorPeriod, pa_MaxInflight,
  qf_Task, qf_KvTasks, qf_Transfer, qf_Service, qf_Slots, qf_MaxTime,
  rt_None,
  kl_Handler,
  Unused   \* the value of the variables of the modules that are not checked

VARIABLES
  part,   \* the module that is checked
  ss_up, ss_pool, ss_alive, ss_inflight, ss_current, ss_request, ss_age,
  ss_lost, ss_renewed, ss_leaks, ss_starts,
  rr_kdns, rr_proxies, rr_kdnCursor, rr_proxyCursor, rr_kdnTurns,
  rr_proxyTurns,
  kc_view, kc_wanted, kc_chosen,
  pa_listed, pa_link, pa_inflight, pa_score, pa_cursor, pa_stayed,
  qf_now, qf_stage, qf_linkFree, qf_activeUntil, qf_window, qf_slotFree,
  qf_prefillFree, qf_pending, qf_prefill,
  rt_chat, rt_stream, rt_header, rt_at, rt_context, rt_col,
  kl_pending, kl_active, kl_worker, kl_waiting, kl_stopped, kl_reported

ss_vars == <<ss_up, ss_pool, ss_alive, ss_inflight, ss_current, ss_request,
              ss_age, ss_lost, ss_renewed, ss_leaks, ss_starts>>
rr_vars == <<rr_kdns, rr_proxies, rr_kdnCursor, rr_proxyCursor, rr_kdnTurns,
              rr_proxyTurns>>
kc_vars == <<kc_view, kc_wanted, kc_chosen>>
pa_vars == <<pa_listed, pa_link, pa_inflight, pa_score, pa_cursor, pa_stayed>>
qf_vars == <<qf_now, qf_stage, qf_linkFree, qf_activeUntil, qf_window,
              qf_slotFree, qf_prefillFree, qf_pending, qf_prefill>>
rt_vars == <<rt_chat, rt_stream, rt_header, rt_at, rt_context, rt_col>>
kl_vars == <<kl_pending, kl_active, kl_worker, kl_waiting, kl_stopped,
              kl_reported>>

vars == <<part, ss_vars, rr_vars, kc_vars, pa_vars, qf_vars, rt_vars,
            kl_vars>>

SS == INSTANCE SchedulerService WITH
  up <- ss_up, pool <- ss_pool, alive <- ss_alive, inflight <- ss_inflight,
  current <- ss_current, request <- ss_request, age <- ss_age,
  lost <- ss_lost, renewed <- ss_renewed, leaks <- ss_leaks,
  starts <- ss_starts, Proxy <- ss_Proxy, Client <- ss_Client,
  None <- ss_None, MaxId <- ss_MaxId, MaxLeaks <- ss_MaxLeaks,
  MaxStarts <- ss_MaxStarts

RR == INSTANCE RoundRobinStrategy WITH
  kdns <- rr_kdns, proxies <- rr_proxies, kdnCursor <- rr_kdnCursor,
  proxyCursor <- rr_proxyCursor, kdnTurns <- rr_kdnTurns,
  proxyTurns <- rr_proxyTurns, Kdn <- rr_Kdn, Proxy <- rr_Proxy,
  CursorPeriod <- rr_CursorPeriod

KC == INSTANCE KdnChoice WITH
  view <- kc_view, wanted <- kc_wanted, chosen <- kc_chosen, Kdn <- kc_Kdn,
  Kid <- kc_Kid, Rank <- kc_Rank, LengthOf <- kc_LengthOf,
  MaxLoad <- kc_MaxLoad, LoadTh <- kc_LoadTh

PA == INSTANCE ProxyAffinity WITH
  listed <- pa_listed, link <- pa_link, inflight <- pa_inflight,
  score <- pa_score, cursor <- pa_cursor, stayed <- pa_stayed,
  Proxy <- pa_Proxy, Kid <- pa_Kid, Rank <- pa_Rank, MaxLink <- pa_MaxLink,
  Window <- pa_Window, Unit <- pa_Unit, Num <- pa_Num, Den <- pa_Den,
  TopK <- pa_TopK, CursorPeriod <- pa_CursorPeriod,
  MaxInflight <- pa_MaxInflight

QF == INSTANCE QueueForecast WITH
  now <- qf_now, stage <- qf_stage, linkFree <- qf_linkFree,
  activeUntil <- qf_activeUntil, window <- qf_window,
  slotFree <- qf_slotFree, prefillFree <- qf_prefillFree,
  pending <- qf_pending, prefill <- qf_prefill, Task <- qf_Task,
  KvTasks <- qf_KvTasks, Transfer <- qf_Transfer, Service <- qf_Service,
  Slots <- qf_Slots, MaxTime <- qf_MaxTime

RT == INSTANCE RequestTraces WITH
  chat <- rt_chat, stream <- rt_stream, header <- rt_header, at <- rt_at,
  context <- rt_context, col <- rt_col, None <- rt_None

KL == INSTANCE KdnLink WITH
  pending <- kl_pending, active <- kl_active, worker <- kl_worker,
  waiting <- kl_waiting, stopped <- kl_stopped, reported <- kl_reported,
  Handler <- kl_Handler

(* What the modules assume of their constants. *)
ASSUME RoutingAssumption ==
  /\ SS!ConstantsAssumption /\ RR!ConstantsAssumption
  /\ KC!ConstantsAssumption /\ PA!ConstantsAssumption
  /\ QF!ConstantsAssumption /\ RT!ConstantsAssumption
  /\ KL!ConstantsAssumption

(* The variables of the modules that are not checked. *)
IdleSS ==
  /\ ss_up = Unused /\ ss_pool = Unused /\ ss_alive = Unused
  /\ ss_inflight = Unused /\ ss_current = Unused /\ ss_request = Unused
  /\ ss_age = Unused /\ ss_lost = Unused /\ ss_renewed = Unused
  /\ ss_leaks = Unused /\ ss_starts = Unused
IdleRR ==
  /\ rr_kdns = Unused /\ rr_proxies = Unused /\ rr_kdnCursor = Unused
  /\ rr_proxyCursor = Unused /\ rr_kdnTurns = Unused
  /\ rr_proxyTurns = Unused
IdleKC ==
  /\ kc_view = Unused /\ kc_wanted = Unused /\ kc_chosen = Unused
IdlePA ==
  /\ pa_listed = Unused /\ pa_link = Unused /\ pa_inflight = Unused
  /\ pa_score = Unused /\ pa_cursor = Unused /\ pa_stayed = Unused
IdleQF ==
  /\ qf_now = Unused /\ qf_stage = Unused /\ qf_linkFree = Unused
  /\ qf_activeUntil = Unused /\ qf_window = Unused /\ qf_slotFree = Unused
  /\ qf_prefillFree = Unused /\ qf_pending = Unused /\ qf_prefill = Unused
IdleRT ==
  /\ rt_chat = Unused /\ rt_stream = Unused /\ rt_header = Unused
  /\ rt_at = Unused /\ rt_context = Unused /\ rt_col = Unused
IdleKL ==
  /\ kl_pending = Unused /\ kl_active = Unused /\ kl_worker = Unused
  /\ kl_waiting = Unused /\ kl_stopped = Unused /\ kl_reported = Unused

Init ==
  \/ /\ part = "service" /\ SS!Init
     /\ IdleRR /\ IdleKC /\ IdlePA /\ IdleQF /\ IdleRT /\ IdleKL
  \/ /\ part = "rotation" /\ RR!Init
     /\ IdleSS /\ IdleKC /\ IdlePA /\ IdleQF /\ IdleRT /\ IdleKL
  \/ /\ part = "choice" /\ KC!Init
     /\ IdleSS /\ IdleRR /\ IdlePA /\ IdleQF /\ IdleRT /\ IdleKL
  \/ /\ part = "affinity" /\ PA!Init
     /\ IdleSS /\ IdleRR /\ IdleKC /\ IdleQF /\ IdleRT /\ IdleKL
  \/ /\ part = "forecast" /\ QF!Init
     /\ IdleSS /\ IdleRR /\ IdleKC /\ IdlePA /\ IdleRT /\ IdleKL
  \/ /\ part = "traces" /\ RT!Init
     /\ IdleSS /\ IdleRR /\ IdleKC /\ IdlePA /\ IdleQF /\ IdleKL
  \/ /\ part = "link" /\ KL!Init
     /\ IdleSS /\ IdleRR /\ IdleKC /\ IdlePA /\ IdleQF /\ IdleRT

OthersSS == <<rr_vars, kc_vars, pa_vars, qf_vars, rt_vars, kl_vars>>
OthersRR == <<ss_vars, kc_vars, pa_vars, qf_vars, rt_vars, kl_vars>>
OthersKC == <<ss_vars, rr_vars, pa_vars, qf_vars, rt_vars, kl_vars>>
OthersPA == <<ss_vars, rr_vars, kc_vars, qf_vars, rt_vars, kl_vars>>
OthersQF == <<ss_vars, rr_vars, kc_vars, pa_vars, rt_vars, kl_vars>>
OthersRT == <<ss_vars, rr_vars, kc_vars, pa_vars, qf_vars, kl_vars>>
OthersKL == <<ss_vars, rr_vars, kc_vars, pa_vars, qf_vars, rt_vars>>

Next ==
  /\ part' = part
  /\ \/ part = "service" /\ SS!Next /\ UNCHANGED OthersSS
     \/ part = "rotation" /\ RR!Next /\ UNCHANGED OthersRR
     \/ part = "choice" /\ KC!Next /\ UNCHANGED OthersKC
     \/ part = "affinity" /\ PA!Next /\ UNCHANGED OthersPA
     \/ part = "forecast" /\ QF!Next /\ UNCHANGED OthersQF
     \/ part = "traces" /\ RT!Next /\ UNCHANGED OthersRT
     \/ part = "link" /\ KL!Next /\ UNCHANGED OthersKL

Spec == Init /\ [][Next]_vars

(* The modules' fairness: the Proxies' heartbeats and the pool's expiry    *)
(* (SchedulerService), and the worker of the link (KdnLink).               *)
Fairness ==
  /\ \A p \in ss_Proxy :
       /\ WF_ss_vars(part = "service" /\ SS!Heartbeat(p))
       /\ WF_ss_vars(part = "service" /\ p \notin ss_up /\ SS!Expire(p))
  /\ WF_kl_vars(part = "link" /\ KL!Start)
  /\ \A h \in kl_Handler : WF_kl_vars(part = "link" /\ KL!Finish(h))

FairSpec == Spec /\ Fairness

-----------------------------------------------------------------------------
(* The types of the variables, and what the modules' type invariants say   *)
(* of them: an id is never 0, no clock or reservation is negative, the     *)
(* forecast's list holds the ready tasks once each.                        *)
Typed ==
  /\ part = "service" => SS!TypeOK
  /\ part = "forecast" => QF!TypeOK
  /\ part = "traces" => RT!TypeOK
  /\ part = "link" => KL!TypeOK

(* The loads that requests are routed by are true.  The inflight count of  *)
(* a Proxy never exceeds its open requests, but for responses dropped      *)
(* before they started, and is exact while no registration or removal      *)
(* falls between their start and end (ProxyPool.inflight_delta); the load  *)
(* of a KDN is the number of injections that wait for its link, which      *)
(* carries one transfer at a time (NetworkSimulator).                      *)
CountsAreTrue ==
  /\ part = "service" => SS!NotOverstated /\ SS!ExactCount
  /\ part = "link" => KL!SerialLink

(* Two requests in flight have the same id only if MaxId ids were handed   *)
(* out while one of them was in flight (RequestIdAllocator.next_id).       *)
FreshIds == part = "service" => SS!FreshIds

(* A Proxy that stays in the pool and runs is listed again and again, one  *)
(* whose process is gone leaves the list (the Proxy's heartbeat loop,      *)
(* ProxyInfo.is_alive).                                                    *)
ListFollowsProcesses ==
  \A p \in ss_Proxy :
    /\ <>[](part = "service" /\ SS!Stays(p)) => []<>(part = "service" /\ SS!Listed(p))
    /\ <>[](part = "service" /\ SS!Gone(p)) => <>[](part = "service" /\ ~SS!Listed(p))

(* The strategies choose in the order they promise: the rotation takes a   *)
(* list that keeps its order in turn (RoundRobinStrategy.select), and      *)
(* another KDN is better in a criterion of CacheRouteStrategy only if it   *)
(* is worse in an earlier one (cacheroute.py:22).                          *)
ChoosesAsPromised ==
  /\ part = "rotation" => RR!RotatesWhileStable
  /\ part = "choice" => KC!PrefersAsPromised

(* However long the Scheduler runs, the history of a block, over the       *)
(* Proxies that never left the list, weighs no more than an endless run of *)
(* requests for it would give one of them (the update of                   *)
(* CacheRouteStrategy._proxy_kid_affinity).                                *)
HistoryIsShared == part = "affinity" => PA!HistoryIsShared

(* No history makes the strategy choose a Proxy without a link to the KDN  *)
(* while another has one, nor one whose load exceeds that of another with  *)
(* a link by more than the window (CacheRouteStrategy._select_proxy).      *)
LoadBeforeHistory ==
  [][part = "affinity" => \A p \in pa_Proxy : PA!ChoosesByLoad(p)]_pa_vars

(* The forecast of the Proxy's queues promises no window of the link or of *)
(* the prefill to two requests, and what it would tell the next request is *)
(* behind all of them (_reserve_ready_task, _recompute_pending_from_now,   *)
(* estimate_iws_costs).                                                    *)
NoWindowIsPromisedTwice == part = "forecast" => QF!NoWindowIsPromisedTwice

(* However a request ends, both sides' sampled traces come out whole, and  *)
(* they do not contradict each other (TraceCollector,                      *)
(* decode_trace_headers, collect_streaming, _ready_worker_loop).           *)
OneStory == part = "traces" => RT!OneStory

(* Unless the KDN shuts down, no injection is left waiting for the link,   *)
(* however many others keep submitting (NetworkSimulator._worker).         *)
EveryTransferEnds ==
  \A h \in kl_Handler :
    part = "link" /\ KL!Waits(h) ~> part = "link" /\ (~KL!Waits(h) \/ kl_stopped)
=============================================================================
