---------------------------- MODULE CacheGateway ----------------------------
(***************************************************************************)
(* The gateway of the next API towards LMCache, as far as it exists: the   *)
(* MockGateway, which keeps the tasks of write intents, the read-only      *)
(* LegacyCacheAdapter, and the contracts every response has to meet when   *)
(* it is built (kdn_server/gateway, contracts/v1/cache_service.py,         *)
(* cache/models.py).  A client submits an intent under an idempotency key, *)
(* submits it again when it is unsure of the first answer, asks for its    *)
(* status, cancels it, and asks for facts about artifacts, while a worker  *)
(* starts and completes the tasks, time passes, the clock is set back, and *)
(* the endpoint restarts under its next generation.                        *)
(*                                                                         *)
(* A target is the endpoint with its runtime and compatibility profile     *)
(* ("mine" for the gateway's own, "other" for all that differ in one of    *)
(* them) and a generation.  A gateway is built with records of at most one *)
(* artifact: its description, an observation of it, the coverage of its    *)
(* tokens, and summaries, all of one target.  Left out: the ranges of a    *)
(* coverage and the list of endpoints, which depend on nothing that        *)
(* changes.                                                                *)
(***************************************************************************)
EXTENDS Integers

CONSTANTS
  Key,        \* idempotency keys
  Blank,      \* those of them that are nothing but blanks
  Artifact,   \* artifact ids
  Described,  \* those of them a gateway may be built with records of
  Intent,     \* the operations that are submitted
  Lacking,    \* the sets of capabilities a gateway may lack
  MaxGen,     \* bound: the last generation of the endpoint
  MaxTime,    \* bound: the last time
  Lifetime,   \* how long an observation is valid
  None

(* mock._OPERATION_CAPABILITY: the capability each operation needs. *)
OperationCapability ==
  [prefetch |-> "warm_prefetch", rebuild |-> "warm_prefetch",
   pin |-> "pin_unpin", unpin |-> "pin_unpin", clear |-> "object_deletion"]

(* CapabilitySnapshot: what a gateway may support. *)
Capability ==
  {"artifact_lookup", "cache_observation", "token_lookup", "warm_prefetch",
   "pin_unpin", "object_deletion", "operation_status", "cancellation",
   "tier_capacity_usage", "maintenance_eviction"}
Offers == {Capability \ l : l \in Lacking}

Home == {"mine", "other"}

(* CacheOperationTask._TRANSITIONS. *)
Transitions ==
  [pending |-> {"running", "cancelled"},
   running |-> {"succeeded", "retry_wait", "failed", "cancelled"},
   retry_wait |-> {"running", "failed", "cancelled"},
   succeeded |-> {}, failed |-> {}, cancelled |-> {}]

Time == 0 .. MaxTime

(* CacheOperationTask. *)
Task ==
  [operation : Intent, artifact : Artifact, home : Home, gen : 1 .. MaxGen,
   state : DOMAIN Transitions, attempt : Nat, updated : Time]

ConstantsAssumption ==
  /\ Intent \subseteq DOMAIN OperationCapability /\ Blank \subseteq Key
  /\ Described \subseteq Artifact
  /\ None \notin Task /\ None \notin DOMAIN Transitions
  /\ MaxGen \in Nat \ {0} /\ MaxTime \in Nat /\ Lifetime \in Nat \ {0}

VARIABLES
  profile,    \* "test/mock" (MockGateway) or "legacy" (LegacyCacheAdapter)
  supported,  \* the capabilities that are SUPPORTED
  gen,        \* the generation of the endpoint, 0 (unknown) for legacy
  now,        \* utc_now, which can be set back
  latest,     \* auxiliary: the latest time it showed
  record,     \* what the gateway was built with, or None
  task,       \* the task of each key, or None (_tasks, _logical)
  asked,      \* the observation request that is being answered, or None
  answer,     \* the answer that is being returned, or None
  told,       \* auxiliary: of each key and generation, the end of the task
              \* that a client was told of
  ran         \* auxiliary: and how often its work was started

vars == <<profile, supported, gen, now, latest, record, task, asked, answer,
          told, ran>>
kept == <<profile, supported, gen, now, latest, record>>

(* CacheOperationState.terminal. *)
Terminal(t) == t.state \in {"succeeded", "failed", "cancelled"}

(* CacheOperationTask.transition: to its own state a task goes unchanged;  *)
(* to a state the table does not allow, or while the clock shows less than *)
(* when the task was changed last, it raises.                              *)
Allowed(t, s) == s = t.state \/ (s \in Transitions[t.state] /\ t.updated <= now)
Transition(t, s) ==
  IF s = t.state THEN t
  ELSE [t EXCEPT !.state = s, !.attempt = @ + (IF s = "running" THEN 1 ELSE 0),
                 !.updated = now]

(* CacheReplicaObservation: valid from source_observed_at until expires_at *)
(* of its window; without a source_observed_at it is never fresh.          *)
Fresh(o, at) == o.window # None /\ o.window[1] <= at /\ at < o.window[2]

(* The windows of an observation made at `at': one that was observed       *)
(* before, or the projection of a row of the KDN's index, which forgets a  *)
(* kv_updated_at that is absent or in the future (from_legacy_kv_ready).   *)
ObservedWindows(at) == {<<f, f + Lifetime>> : f \in 0 .. at}
ProjectedWindows(at) == {None} \cup {<<f, f + Lifetime>> : f \in 0 .. at}

(* Requests.  Generation 0 is refused but for legacy targets               *)
(* (GatewayTargetedRequest.valid_generation); of a target that is another  *)
(* nothing else matters.                                                   *)
Target ==
  {r \in [home : Home, gen : 0 .. MaxGen] :
     IF r.home = "other" THEN r.gen = 0 ELSE r.gen = 0 => profile = "legacy"}

(* The records a gateway may be built with (create_gateway's fixtures):    *)
(* left from an earlier generation, or of another target, of which nothing *)
(* else matters.                                                           *)
Records(p, g, at) ==
  {None} \cup
  {x \in [artifact : Described, home : Home,
          gen : IF p = "legacy" THEN {0} ELSE 1 .. g,
          window : IF p = "legacy" THEN ProjectedWindows(at) ELSE ObservedWindows(at)] :
     x.home = "other" => x.gen \in {0, 1} /\ x.window = <<0, Lifetime>>}
-----------------------------------------------------------------------------
(* GatewayAdapterBase._negotiate, _gate: the target first, then the        *)
(* capability.  The legacy adapter has nothing but its two lookups.        *)
Supports(capability) ==
  /\ capability \in supported
  /\ profile = "legacy" => capability \in {"artifact_lookup", "cache_observation"}
Negotiated(r) == r.home = "mine" /\ r.gen = gen
Passes(r, capability) == Negotiated(r) /\ Supports(capability)
Refusal(r) ==
  IF r.home # "mine" THEN "incompatible"
  ELSE IF r.gen # gen THEN "stale" ELSE "unsupported"

SameTarget(x, r) == x.home = r.home /\ x.gen = r.gen

(* The validators of the responses (CacheServiceResponse.                  *)
(* consistent_outcome and those of each kind of response).                 *)
Consistent(call, r, outcome, fact, operation, at) ==
  /\ call = "artifact" /\ fact # None => fact.home = r.home
  /\ call \in {"observation", "summary"} /\ fact # None => SameTarget(fact, r)
  /\ operation # None => SameTarget(operation, r)
  /\ outcome = "cancelled" => operation # None /\ operation.state = "cancelled"
  /\ outcome = "stale" /\ call = "observation" /\ fact # None => ~Fresh(fact, at)
SuccessFits(call, fact, operation, at) ==
  /\ call \in {"observation", "artifact", "summary", "tokens"} => fact # None
  /\ call = "observation" => Fresh(fact, at)
  /\ call \in Intent => operation # None /\ operation.operation = call
  /\ call \in {"status", "cancel"} => operation # None
  /\ call = "cancel" => Terminal(operation)

(* _response: what does not meet the contract raises instead of answering. *)
Respond(call, a, k, r, outcome, fact, operation, at) ==
  LET valid == /\ Consistent(call, r, outcome, fact, operation, at)
               /\ outcome = "success" => SuccessFits(call, fact, operation, at)
  IN answer' = [call |-> call, artifact |-> a, key |-> k,
                outcome |-> IF valid THEN outcome ELSE "raised",
                fact |-> fact, operation |-> operation, behind |-> now < latest]

(* A call that ends with an exception before it has a response. *)
Raise(call, a, k, behind) ==
  answer' = [call |-> call, artifact |-> a, key |-> k, outcome |-> "raised",
             fact |-> None, operation |-> None, behind |-> behind]

Holds(a) == record # None /\ record.artifact = a

(* A response that carries nothing but its outcome: the same for every     *)
(* call, since what its kind adds to the contract is about what it carries.*)
Decline(r, outcome) == Respond(None, None, None, r, outcome, None, None, now)
Refuse(r) == Decline(r, Refusal(r))

Tell(k, operation) ==
  told' = IF Terminal(operation) /\ told[k][operation.gen] = None
          THEN [told EXCEPT ![k][operation.gen] = operation.state] ELSE told
Started(k) ==
  ran' = [ran EXCEPT ![k][task[k].gen] = @ + (task'[k].attempt - task[k].attempt)]
-----------------------------------------------------------------------------
NoTasks == [k \in Key |-> None]

Init ==
  /\ profile \in {"test/mock", "legacy"} /\ supported \in Offers
  /\ gen = IF profile = "legacy" THEN 0 ELSE 1
  /\ now = 0 /\ latest = 0 /\ record \in Records(profile, gen, 0)
  /\ task = NoTasks /\ asked = None /\ answer = None
  /\ told = [k \in Key |-> [g \in 1 .. MaxGen |-> None]]
  /\ ran = [k \in Key |-> [g \in 1 .. MaxGen |-> 0]]

(* The calls are synchronous: the next one starts when the caller has the  *)
(* answer.                                                                 *)
Idle == asked = None /\ answer = None
Return ==
  /\ answer # None /\ answer' = None
  /\ UNCHANGED <<kept, task, asked, told, ran>>

(* lookup_artifact *)
LookupArtifact(r, a) ==
  /\ Idle
  /\ \/ ~Passes(r, "artifact_lookup") /\ Refuse(r)
     \/ Passes(r, "artifact_lookup") /\ ~Holds(a) /\ Decline(r, "stale")
     \/ /\ Passes(r, "artifact_lookup") /\ Holds(a)
        /\ IF record.home # r.home
           THEN Decline(r, "incompatible")
           ELSE Respond("artifact", a, None, r, "success", record, None, now)
  /\ UNCHANGED <<kept, task, asked, told, ran>>

(* get_cache_observation reads the clock (response_at) before anything     *)
(* else; what the gate refuses is refused whatever the time is ...         *)
AskObservation(r, a) ==
  /\ Idle
  /\ \/ ~Passes(r, "cache_observation") /\ Refuse(r) /\ UNCHANGED asked
     \/ /\ Passes(r, "cache_observation")
        /\ asked' = [artifact |-> a, at |-> now] /\ UNCHANGED answer
  /\ UNCHANGED <<kept, task, told, ran>>

(* ... and the observation is judged as of then, and the answer dated so.  *)
AnswerObservation ==
  LET r == [home |-> "mine", gen |-> gen]
      a == asked.artifact
      Reply(outcome) ==
        Respond("observation", a, None, r, outcome, record, None, asked.at)
  IN
  /\ asked # None /\ asked' = None
  /\ \/ ~Holds(a) /\ Decline(r, "stale")
     \/ Holds(a) /\ record.home # r.home /\ Decline(r, "incompatible")
     \/ /\ Holds(a) /\ record.home = r.home /\ record.gen # r.gen
        /\ Decline(r, "stale")
     \/ /\ Holds(a) /\ SameTarget(record, r)
        /\ IF Fresh(record, asked.at) THEN Reply("success") ELSE Reply("stale")
  /\ UNCHANGED <<kept, task, told, ran>>

(* lookup_tokens *)
LookupTokens(r, a) ==
  /\ Idle
  /\ \/ ~Passes(r, "token_lookup") /\ Refuse(r)
     \/ /\ Passes(r, "token_lookup")
        /\ IF Holds(a)
           THEN Respond("tokens", a, None, r, "success", record, None, now)
           ELSE Decline(r, "text_fallback")
  /\ UNCHANGED <<kept, task, asked, told, ran>>

(* The task of an intent (submit_operation). *)
NewTask(op, a, r) ==
  [operation |-> op, artifact |-> a, home |-> r.home, gen |-> r.gen,
   state |-> "pending", attempt |-> 0, updated |-> now]
Logical(t) == <<t.operation, t.artifact, t.home, t.gen>>

(* A key that has a task keeps it, also when the task has ended.           *)
TakenWhileOpen(k) == task[k] # None /\ ~Terminal(task[k])
Taken(k) == task[k] # None

(* submit_operation *)
Submit(r, k, op, a) ==
  /\ Idle
  /\ \/ /\ ~Passes(r, OperationCapability[op]) /\ Refuse(r)
        /\ UNCHANGED <<task, told>>
     \/ /\ Passes(r, OperationCapability[op]) /\ ~Taken(k) /\ k \notin Blank
        /\ task' = [task EXCEPT ![k] = NewTask(op, a, r)]
        /\ Respond(op, a, k, r, "success", None, task'[k], now)
        /\ UNCHANGED told
     \/ /\ Passes(r, OperationCapability[op]) /\ Taken(k)
        /\ Logical(task[k]) # Logical(NewTask(op, a, r))
        /\ Decline(r, "idempotency_conflict")
        /\ UNCHANGED <<task, told>>
     \/ /\ Passes(r, OperationCapability[op]) /\ Taken(k)
        /\ Logical(task[k]) = Logical(NewTask(op, a, r))
        /\ Respond(op, a, k, r, "success", None, task[k], now)
        /\ Tell(k, task[k]) /\ UNCHANGED task
  /\ UNCHANGED <<kept, asked, ran>>

(* A new task whose own validators refuse it, and nothing is kept: its key *)
(* is blank (the request only asks for one character), or the clock was    *)
(* set back between its created_at and its updated_at                      *)
(* (CacheOperationTask.consistency).                                       *)
SubmitRaises(r, k, op, a) ==
  /\ Idle /\ Passes(r, OperationCapability[op]) /\ ~Taken(k)
  /\ \/ k \in Blank /\ Raise(op, a, k, now < latest) /\ UNCHANGED now
     \/ now > 0 /\ now' = now - 1 /\ Raise(op, a, k, TRUE)
  /\ UNCHANGED <<profile, supported, gen, latest, record, task, asked, told,
                 ran>>

(* start: the worker takes the task up; taking it up twice changes nothing.*)
Start(k) ==
  /\ Idle
  /\ task[k] # None /\ Allowed(task[k], "running")
  /\ task' = [task EXCEPT ![k] = Transition(@, "running")]
  /\ Started(k)
  /\ UNCHANGED <<kept, asked, answer, told>>

(* complete: a pending task is started first. *)
Complete(k, failed) ==
  LET running == IF task[k].state = "pending"
                 THEN Transition(task[k], "running") ELSE task[k]
      end == IF failed THEN "failed" ELSE "succeeded"
  IN
  /\ Idle
  /\ task[k] # None /\ Allowed(running, end)
  /\ task' = [task EXCEPT ![k] = Transition(running, end)]
  /\ Started(k)
  /\ UNCHANGED <<kept, asked, answer, told>>

(* get_operation_status, of the task a client was given under key k and    *)
(* generation g.                                                           *)
Found(k, g) == task[k] # None /\ task[k].gen = g
Status(r, k, g) ==
  /\ Idle
  /\ \/ /\ ~Passes(r, "operation_status") /\ Refuse(r)
        /\ UNCHANGED told
     \/ /\ Passes(r, "operation_status") /\ ~Found(k, g)
        /\ Decline(r, "stale")
        /\ UNCHANGED told
     \/ /\ Passes(r, "operation_status") /\ Found(k, g)
        /\ Respond("status", None, k, r, "success", None, task[k], now)
        /\ Tell(k, task[k])
  /\ UNCHANGED <<kept, task, asked, ran>>

(* cancel_operation *)
Cancel(r, k, g) ==
  /\ Idle
  /\ \/ /\ ~Passes(r, "cancellation") /\ Refuse(r)
        /\ UNCHANGED <<task, told>>
     \/ /\ Passes(r, "cancellation") /\ ~Found(k, g)
        /\ Decline(r, "stale")
        /\ UNCHANGED <<task, told>>
     \/ /\ Passes(r, "cancellation") /\ Found(k, g) /\ Terminal(task[k])
        /\ Respond("cancel", None, k, r, "success", None, task[k], now)
        /\ Tell(k, task[k]) /\ UNCHANGED task
     \/ /\ Passes(r, "cancellation") /\ Found(k, g) /\ ~Terminal(task[k])
        /\ ~Allowed(task[k], "cancelled")
        /\ Raise("cancel", None, k, now < latest)
        /\ UNCHANGED <<task, told>>
     \/ /\ Passes(r, "cancellation") /\ Found(k, g) /\ ~Terminal(task[k])
        /\ Allowed(task[k], "cancelled")
        /\ task' = [task EXCEPT ![k] = Transition(@, "cancelled")]
        /\ Respond("cancel", None, k, r, "cancelled", None, task'[k], now)
        /\ Tell(k, task'[k])
  /\ UNCHANGED <<kept, asked, ran>>

(* get_tier_adapter_summary and get_maintenance_status: a summary of       *)
(* another target is not handed on.                                        *)
Summary(r, capability) ==
  /\ Idle
  /\ \/ ~Passes(r, capability) /\ Refuse(r)
     \/ /\ Passes(r, capability) /\ record = None
        /\ Decline(r, "stale")
     \/ /\ Passes(r, capability) /\ record # None /\ ~SameTarget(record, r)
        /\ Decline(r, "incompatible")
     \/ /\ Passes(r, capability) /\ record # None /\ SameTarget(record, r)
        /\ Respond("summary", None, None, r, "success", record, None, now)
  /\ UNCHANGED <<kept, task, asked, told, ran>>

(* Time passes, also while an observation is being answered. *)
Tick ==
  /\ now < MaxTime /\ now' = now + 1
  /\ latest' = IF now' > latest THEN now' ELSE latest
  /\ UNCHANGED <<profile, supported, gen, record, task, asked, answer, told,
                 ran>>

(* The clock of the host is set back. *)
StepBack ==
  /\ now > 0 /\ now' = now - 1
  /\ UNCHANGED <<profile, supported, gen, latest, record, task, asked, answer,
                 told, ran>>

(* The endpoint comes back under its next generation and a gateway is      *)
(* built for it, with other records or with those that were there before;  *)
(* the tasks were in the memory of the old one (LMCacheEndpoint.           *)
(* next_generation, create_gateway).                                       *)
Restart ==
  /\ profile = "test/mock" /\ gen < MaxGen
  /\ gen' = gen + 1
  /\ record' \in Records(profile, gen', now)
  /\ task' = NoTasks /\ asked' = None /\ answer' = None
  /\ UNCHANGED <<profile, supported, now, latest, told, ran>>

Next ==
  \/ \E r \in Target :
       \/ \E a \in Artifact :
            \/ LookupArtifact(r, a) \/ AskObservation(r, a) \/ LookupTokens(r, a)
            \/ \E k \in Key, op \in Intent :
                 Submit(r, k, op, a) \/ SubmitRaises(r, k, op, a)
       \/ \E k \in Key \ Blank, g \in 1 .. MaxGen : Status(r, k, g) \/ Cancel(r, k, g)
       \/ \E c \in {"tier_capacity_usage", "maintenance_eviction"} : Summary(r, c)
  \/ \E k \in Key : Start(k) \/ \E failed \in BOOLEAN : Complete(k, failed)
  \/ AnswerObservation \/ Return \/ Tick \/ StepBack \/ Restart

Spec == Init /\ [][Next]_vars
-----------------------------------------------------------------------------
(* The types, and that only a gateway with its own generation has tasks:   *)
(* every task is of the target the gateway has now, the legacy adapter has *)
(* none.                                                                   *)
TypeOK ==
  /\ profile \in {"test/mock", "legacy"} /\ supported \in Offers
  /\ gen \in 0 .. MaxGen /\ (gen = 0) = (profile = "legacy")
  /\ now \in Time /\ latest \in Time /\ now <= latest
  /\ record \in Records(profile, gen, latest)
  /\ task \in [Key -> Task \cup {None}]
  /\ \A k \in Key : task[k] # None => task[k].home = "mine" /\ task[k].gen = gen
  /\ told \in [Key -> [1 .. MaxGen -> {"succeeded", "failed", "cancelled", None}]]
  /\ ran \in [Key -> [1 .. MaxGen -> Nat]]

(* A request ends with an exception only when it is an intent with a key   *)
(* of blanks, or an intent or a cancellation made while the clock is       *)
(* behind what it showed before (the ValueErrors of CacheOperationTask).   *)
(* Otherwise, whatever was built in and whenever time passes or the        *)
(* endpoint restarts, the gateway finds the mismatch before the contract   *)
(* of the response does (the checks of MockGateway against                 *)
(* CacheServiceResponse.consistent_outcome).                               *)
AlwaysAnswers ==
  answer # None /\ answer.outcome = "raised" =>
    \/ answer.call \in Intent /\ answer.key \in Blank
    \/ answer.call \in Intent \cup {"cancel"} /\ answer.behind

(* A success is about what was asked for: the operation a client is told   *)
(* of has the kind and the artifact of its intent, and a fact is of the    *)
(* artifact it asked for and of the endpoint as it is now.                 *)
AboutWhatWasAsked ==
  answer # None /\ answer.outcome = "success" =>
    /\ answer.call \in Intent =>
         /\ answer.operation.operation = answer.call
         /\ answer.operation.artifact = answer.artifact
         /\ answer.operation.gen = gen
    /\ answer.call \in {"artifact", "observation", "tokens"} =>
         answer.fact.artifact = answer.artifact
    /\ answer.call = "observation" => answer.fact.gen = gen

(* An intent submitted again, as often as its client likes, is done once   *)
(* under the generation it names, also when the gateway that did it is     *)
(* gone, and what a client was told succeeded or failed was done.  The end *)
(* a client was told of stays the end: no later start, completion,         *)
(* cancellation, submission or restart changes it, and no answer names     *)
(* another (submit_operation, CacheOperationTask.transition).  The tasks   *)
(* are kept by no restart: the same intent submitted under the next        *)
(* generation is another one, and is done again.                           *)
DoneOnce ==
  /\ \A k \in Key, g \in 1 .. MaxGen :
       /\ ran[k][g] <= 1
       /\ told[k][g] \in {"succeeded", "failed"} => ran[k][g] = 1
  /\ \A k \in Key : task[k] # None =>
       told[k][task[k].gen] \in {None, task[k].state}
  /\ answer # None /\ answer.operation # None =>
       told[answer.key][answer.operation.gen] \in {None, answer.operation.state}

AnswersHold == AlwaysAnswers /\ AboutWhatWasAsked /\ DoneOnce
=============================================================================
