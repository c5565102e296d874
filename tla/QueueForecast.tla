--------------------------- MODULE QueueForecast ----------------------------
(***************************************************************************)
(* The forecasts of the Proxy's QueueManager (proxy/queue/manager.py) for  *)
(* one Instance and one KDN: the transfer windows reserved on the KDN link *)
(* and the prefill windows reserved on the Instance.  ProxyQueue says in   *)
(* which order tasks are released; here is when the Proxy thinks they run, *)
(* which is what the IWS strategy chooses the injection type by.  Time is  *)
(* counted in ticks; what really happens takes any time.                   *)
(***************************************************************************)
EXTENDS Integers, Sequences, SequencesExt, FiniteSetsExt

CONSTANTS
  Task,
  KvTasks,     \* the tasks of the injection type kvcache
  Transfer,    \* _predict_kv_transfer_s of a task
  Service,     \* _predict_prefill_service_s of a task
  Slots,       \* the ready workers of the Instance
  MaxTime      \* bound: the clock

ConstantsAssumption ==
  /\ KvTasks \subseteq Task /\ Transfer \in [Task -> Nat] /\ Service \in [Task -> Nat]
  /\ Slots \in Nat \ {0} /\ MaxTime \in Nat

VARIABLES
  now,
  stage,
  linkFree,      \* _kdn_kv_link_free_ts_s
  activeUntil,   \* _kdn_kv_active_until_ts_s
  window,        \* the reserved transfer of a task
  slotFree,      \* _instance_slot_free_ts_s
  prefillFree,   \* _instance_prefill_free_ts_s
  pending,       \* _instance_pending_tasks, by reservation_seq
  prefill        \* pred_prefill_start_ts_ms and pred_first_token_ts_ms

linkVars == <<linkFree, activeUntil, window>>
prefillVars == <<slotFree, prefillFree, pending, prefill>>
vars == <<now, stage, linkVars, prefillVars>>

Later(a, b) == Max({a, b})
NoWindow == [from |-> 0, to |-> 0]

Init ==
  /\ now = 0 /\ stage = [t \in Task |-> "new"]
  /\ linkFree = 0 /\ activeUntil = 0 /\ window = [t \in Task |-> NoWindow]
  /\ slotFree = [s \in 1 .. Slots |-> 0] /\ prefillFree = 0 /\ pending = <<>>
  /\ prefill = [t \in Task |-> NoWindow]

Tick == now < MaxTime /\ now' = now + 1 /\ UNCHANGED <<stage, linkVars, prefillVars>>

Without(s, t) == RemoveFirst(s, t)

-----------------------------------------------------------------------------
(* The KDN link. *)

(* enqueue_prepare, and a prepare that does not inject: a text request, one *)
(* without a ready block, one whose prepare raises.                        *)
Prepare(t) ==
  /\ stage[t] = "new" /\ \E next \in {"prepared", "gone"} : stage' = [stage EXCEPT ![t] = next]
  /\ UNCHANGED <<now, linkVars, prefillVars>>

ReserveLink(t) ==
  /\ stage[t] = "new" /\ t \in KvTasks /\ stage' = [stage EXCEPT ![t] = "waiting"]
  /\ LET start == Later(now, linkFree)
     IN  /\ window' = [window EXCEPT ![t] = [from |-> start, to |-> start + Transfer[t]]]
         /\ linkFree' = start + Transfer[t] /\ activeUntil' = start + Transfer[t]
  /\ UNCHANGED <<now, prefillVars>>

Inject(t) ==
  /\ stage[t] = "waiting" /\ now >= window[t].from
  /\ stage' = [stage EXCEPT ![t] = "injecting"]
  /\ UNCHANGED <<now, linkVars, prefillVars>>

(* A correction that takes the real end for the time the link is free. *)
InjectedAtNow(t) ==
  /\ stage[t] = "injecting" /\ stage' = [stage EXCEPT ![t] = "prepared"]
  /\ linkFree' = now /\ activeUntil' = now
  /\ UNCHANGED <<now, window, prefillVars>>

Injected(t) ==
  /\ stage[t] = "injecting" /\ stage' = [stage EXCEPT ![t] = "prepared"]
  /\ linkFree' = Later(linkFree, now)
  /\ activeUntil' = IF now >= activeUntil THEN now ELSE activeUntil
  /\ UNCHANGED <<now, window, prefillVars>>

(* The window is not given back. *)
InjectFails(t) ==
  /\ stage[t] \in {"waiting", "injecting"} /\ stage' = [stage EXCEPT ![t] = "prepared"]
  /\ stage[t] = "waiting" => now >= window[t].from
  /\ UNCHANGED <<now, linkVars, prefillVars>>

-----------------------------------------------------------------------------
(* The prefill of the Instance. *)

FirstFree(slots) == CHOOSE s \in 1 .. Slots :
  \A r \in 1 .. Slots : slots[s] < slots[r] \/ (slots[s] = slots[r] /\ s <= r)

(* The next task of a chain of reservations. *)
Chained(chain, t) ==
  LET s     == FirstFree(chain.slots)
      start == Later(Later(now, chain.slots[s]), chain.cursor)
      first == start + Service[t]
  IN  [slots |-> [chain.slots EXCEPT ![s] = first], cursor |-> first,
       prefill |-> [chain.prefill EXCEPT ![t] = [from |-> start, to |-> first]]]

Becomes(chain) ==
  slotFree' = chain.slots /\ prefillFree' = chain.cursor /\ prefill' = chain.prefill

ReserveReady(t) ==
  /\ stage[t] = "prepared" /\ stage' = [stage EXCEPT ![t] = "ready"]
  /\ Becomes(Chained([slots |-> slotFree, cursor |-> prefillFree, prefill |-> prefill], t))
  /\ pending' = Append(pending, t)
  /\ UNCHANGED <<now, linkVars>>

(* The chain is rebuilt, the time of the next prefill is left as it was. *)
RebuildSlots(rest) ==
  /\ pending' = rest /\ prefillFree' = now
  /\ LET chain == FoldLeft(Chained, [slots |-> [s \in 1 .. Slots |-> now], cursor |-> now,
                                     prefill |-> prefill], rest)
     IN  slotFree' = chain.slots /\ prefill' = chain.prefill

(* _recompute_pending_from_now. *)
Rebuild(rest) ==
  /\ pending' = rest
  /\ Becomes(FoldLeft(Chained, [slots |-> [s \in 1 .. Slots |-> now], cursor |-> now,
                                prefill |-> prefill], rest))

FirstToken(t) ==
  /\ stage[t] = "ready" /\ stage' = [stage EXCEPT ![t] = "streaming"]
  /\ Rebuild(Without(pending, t))
  /\ UNCHANGED <<now, linkVars>>

(* A forward that ends: without a first token when it is not streamed or   *)
(* fails.                                                                  *)
EndForward(t) ==
  /\ stage[t] \in {"ready", "streaming"} /\ stage' = [stage EXCEPT ![t] = "gone"]
  /\ IF stage[t] = "ready" THEN Rebuild(Without(pending, t)) ELSE UNCHANGED prefillVars
  /\ UNCHANGED <<now, linkVars>>

-----------------------------------------------------------------------------
(* estimate_iws_costs: the waits a new request would be told. *)

KvWait == Later(0, linkFree - now)
TextWait == Later(0, activeUntil - now)

(* The wait for a slot alone. *)
SlotWait == Later(now, slotFree[FirstFree(slotFree)]) - now

ReadyWait == Later(Later(now, slotFree[FirstFree(slotFree)]), prefillFree) - now

Next ==
  \/ Tick
  \/ \E t \in Task :
       \/ Prepare(t) \/ ReserveLink(t) \/ Inject(t) \/ Injected(t) \/ InjectFails(t)
       \/ ReserveReady(t) \/ FirstToken(t) \/ EndForward(t)

Spec == Init /\ [][Next]_vars

-----------------------------------------------------------------------------
(* The type invariant. *)
TypeOK ==
  /\ now \in 0 .. MaxTime
  /\ stage \in [Task -> {"new", "waiting", "injecting", "prepared", "ready",
                         "streaming", "gone"}]
  /\ {linkFree, activeUntil, prefillFree} \subseteq Nat /\ slotFree \in [1 .. Slots -> Nat]
  /\ ToSet(pending) = {t \in Task : stage[t] = "ready"} /\ IsInjective(pending)
  /\ window \in [Task -> [from : Nat, to : Nat]]
  /\ prefill \in [Task -> [from : Nat, to : Nat]]

Disjoint(a, b) == a.to <= b.from \/ b.to <= a.from

(* The forecast is of one link and one prefill at a time, whatever really  *)
(* happens: transfers that ended late or failed, first tokens that came    *)
(* early or never.  No two reserved transfers overlap, the prefills of the *)
(* tasks that are ready follow each other in the order they were reserved  *)
(* in, and what a strategy would be told now is behind all of them: no     *)
(* window is promised twice, and a text request is told to wait for        *)
(* exactly the transfers a KV request queues behind                        *)
(* (_reserve_ready_task, _recompute_pending_from_now, estimate_iws_costs). *)
NoWindowIsPromisedTwice ==
  /\ \A t, u \in Task : t # u /\ NoWindow \notin {window[t], window[u]} =>
       Disjoint(window[t], window[u])
  /\ \A i \in 1 .. Len(pending) - 1 : prefill[pending[i]].to <= prefill[pending[i + 1]].from
  /\ \A t \in Task : now + KvWait >= window[t].to
  /\ \A i \in 1 .. Len(pending) : now + ReadyWait >= prefill[pending[i]].to
  /\ TextWait = KvWait
=============================================================================
