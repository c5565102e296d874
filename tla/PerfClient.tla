----------------------------- MODULE PerfClient -----------------------------
(***************************************************************************)
(* The load generators: client/perf_client.py in its concurrent and rps    *)
(* modes, and client/kv_timing_sender.py ("timing": rps, and after its     *)
(* answer a request asks the Scheduler for the lengths of its blocks).     *)
(* Every request is a task of one event loop; asyncio.gather collects      *)
(* them.  The summary is what a run is for: it is printed from the         *)
(* gathered results only.                                                  *)
(***************************************************************************)
EXTENDS Integers, Sequences, FiniteSets, FiniteSetsExt

CONSTANTS
  MaxRequests,   \* bound of --requests
  Templates,     \* the request templates of the workload file
  Concurrency,   \* --concurrency
  KvPart, TextPart,   \* --hybrid-pattern A:B
  Block,         \* the knowledge ids
  MaxFailures    \* bound: requests that raise (a timeout, a refused connection)

ConstantsAssumption ==
  /\ MaxRequests \in Nat \ {0} /\ Templates \in Nat \ {0} /\ Concurrency \in Nat \ {0}
  /\ KvPart \in Nat \ {0} /\ TextPart \in Nat \ {0} /\ IsFiniteSet(Block)
  /\ MaxFailures \in Nat

VARIABLES
  mode, phase,
  n,          \* the number of requests asked for
  due,        \* the scheduled send times that have passed (rps, timing)
  created,    \* the tasks created
  state,      \* what every request is at
  inflight, peak,
  results,    \* what gather returned: the request and the injection type of each
  known,      \* knowledge_length_map
  source,     \* knowledge_length_source of every record
  monitor,    \* the GPU monitor
  most,       \* auxiliary: the most requests that were open at once
  failures

vars == <<mode, phase, n, due, created, state, inflight, peak, results, known, source,
          monitor, most, failures>>

Index == 0 .. MaxRequests - 1
Open == {i \in Index : state[i] \in {"open", "peek"}}

Init ==
  /\ mode = "concurrent" /\ phase = "new" /\ n = 0 /\ due = 0 /\ created = 0
  /\ state = [i \in Index |-> "none"] /\ inflight = 0 /\ peak = 0 /\ results = <<>>
  /\ known = {} /\ source = [i \in Index |-> "none"] /\ monitor = "off"
  /\ most = 0 /\ failures = 0

(* resolve_injection_type for "hybrid". *)
KindOf(i) == IF i % (KvPart + TextPart) < KvPart THEN "kvcache" ELSE "text"

-----------------------------------------------------------------------------
(* build_selected_templates; in the concurrent mode all tasks are created  *)
(* at once.                                                                *)
Begin(m, k) ==
  /\ phase = "new" /\ mode' = m /\ n' = k
  /\ \E duplicates \in BOOLEAN :
       phase' = IF duplicates \/ k <= Templates THEN "running" ELSE "refused"
  /\ monitor' \in IF phase' = "running" /\ m # "timing" THEN {"off", "on"} ELSE {"off"}
  /\ created' = IF phase' = "running" /\ m = "concurrent" THEN k ELSE 0
  /\ state' = [i \in Index |-> IF i < created' THEN "task" ELSE "none"]
  /\ \E learnt \in SUBSET Block :       \* peeks that fail are skipped
       known' = IF phase' = "running" /\ m = "timing" THEN learnt ELSE {}
  /\ UNCHANGED <<due, inflight, peak, results, source, most, failures>>

Tick ==
  /\ phase = "running" /\ mode # "concurrent" /\ due < n /\ due' = due + 1
  /\ UNCHANGED <<mode, phase, n, created, state, inflight, peak, results, known, source,
                 monitor, most, failures>>

(* A send loop that does not wait for the time of the next request. *)
SendAtOnce ==
  /\ phase = "running" /\ mode # "concurrent" /\ created < n
  /\ created' = created + 1 /\ state' = [state EXCEPT ![created] = "task"]
  /\ UNCHANGED <<mode, phase, n, due, inflight, peak, results, known, source, monitor,
                 most, failures>>

(* One request after the other, none before its time; a loop that is late  *)
(* catches up.                                                             *)
Send ==
  /\ phase = "running" /\ mode # "concurrent" /\ created < due
  /\ created' = created + 1 /\ state' = [state EXCEPT ![created] = "task"]
  /\ UNCHANGED <<mode, phase, n, due, inflight, peak, results, known, source, monitor,
                 most, failures>>

(* The semaphore serves its waiters in their order.  It is held for as     *)
(* long as the request is open.                                            *)
Permitted(i) ==
  mode = "concurrent" =>
    Cardinality(Open) < Concurrency /\ \A j \in 0 .. i - 1 : state[j] # "task"

Start(i) ==
  /\ phase = "running" /\ state[i] = "task" /\ Permitted(i)
  /\ state' = [state EXCEPT ![i] = "open"]
  /\ inflight' = inflight + 1 /\ peak' = Max({peak, inflight + 1})
  /\ most' = Max({most, Cardinality(Open) + 1})
  /\ UNCHANGED <<mode, phase, n, due, created, results, known, source, monitor, failures>>

(* run_one returns, after its finally clause. *)
Answer(i) ==
  /\ state[i] = "open" /\ mode # "timing"
  /\ state' = [state EXCEPT ![i] = "answered"] /\ inflight' = inflight - 1
  /\ UNCHANGED <<mode, phase, n, due, created, peak, results, known, source, monitor,
                 most, failures>>

AnswerThenPeek(i) ==
  /\ state[i] = "open" /\ mode = "timing" /\ state' = [state EXCEPT ![i] = "peek"]
  /\ UNCHANGED <<mode, phase, n, due, created, inflight, peak, results, known, source,
                 monitor, most, failures>>

(* The request's blocks are asked for, in chunks that may fail; the record *)
(* is made from whatever is in the map by then.                            *)
Record(i, wanted) ==
  /\ state[i] = "peek" /\ state' = [state EXCEPT ![i] = "answered"]
  /\ inflight' = inflight - 1
  /\ \E learnt \in SUBSET wanted : known' = known \cup learnt
  /\ source' = [source EXCEPT ![i] = IF wanted \cap known' # {} THEN "scheduler_peek"
                                     ELSE "fallback_total_length"]
  /\ UNCHANGED <<mode, phase, n, due, created, peak, results, monitor, most, failures>>

(* The count taken back only after an answer. *)
RaiseKeepsCount(i) ==
  /\ state[i] = "open" /\ failures < MaxFailures /\ failures' = failures + 1
  /\ state' = [state EXCEPT ![i] = "failed"]
  /\ UNCHANGED <<mode, phase, n, due, created, inflight, peak, results, known, source,
                 monitor, most>>

(* An error of the connection is not caught. *)
Raise(i) ==
  /\ state[i] = "open" /\ failures < MaxFailures /\ failures' = failures + 1
  /\ state' = [state EXCEPT ![i] = "failed"] /\ inflight' = inflight - 1
  /\ UNCHANGED <<mode, phase, n, due, created, peak, results, known, source, monitor, most>>

(* The requests that were answered, without those that failed. *)
GatherAnswered ==
  /\ phase = "running" /\ created = n /\ Open = {} /\ \A i \in Index : state[i] # "task"
  /\ phase' = "gathered"
  /\ results' = LET ok == {i \in Index : state[i] = "answered"}
                IN  [j \in 1 .. Cardinality(ok) |-> [index |-> j - 1, kind |-> KindOf(j - 1)]]
  /\ UNCHANGED <<mode, n, due, created, state, inflight, peak, known, source, monitor,
                 most, failures>>

Gather ==
  /\ phase = "running" /\ created = n /\ \A i \in 0 .. n - 1 : state[i] = "answered"
  /\ phase' = "gathered"
  /\ results' = [j \in 1 .. n |-> [index |-> j - 1, kind |-> KindOf(j - 1)]]
  /\ UNCHANGED <<mode, n, due, created, state, inflight, peak, known, source, monitor,
                 most, failures>>

(* The first failure ends the run: what was answered is not reported, the  *)
(* requests still open are cancelled with the event loop.                  *)
GatherRaises ==
  /\ phase = "running" /\ created = n /\ \E i \in Index : state[i] = "failed"
  /\ phase' = "raised" /\ monitor' = "off" /\ inflight' = 0
  /\ state' = [i \in Index |-> IF state[i] \in {"task", "open", "peek"} THEN "cancelled" ELSE state[i]]
  /\ UNCHANGED <<mode, n, due, created, peak, results, known, source, most, failures>>

(* nvidia-smi fails, or the stop event is seen after the sample. *)
MonitorEnds ==
  /\ monitor = "on" /\ phase \in {"running", "gathered"} /\ monitor' = "off"
  /\ UNCHANGED <<mode, phase, n, due, created, state, inflight, peak, results, known,
                 source, most, failures>>

Summarize ==
  /\ phase = "gathered" /\ monitor = "off" /\ phase' = "summarised"
  /\ UNCHANGED <<mode, n, due, created, state, inflight, peak, results, known, source,
                 monitor, most, failures>>

Next ==
  \/ \E m \in {"concurrent", "rps", "timing"}, k \in 1 .. MaxRequests : Begin(m, k)
  \/ Tick \/ Send \/ Gather \/ GatherRaises \/ MonitorEnds \/ Summarize
  \/ \E i \in Index : Start(i) \/ Answer(i) \/ AnswerThenPeek(i) \/ Raise(i)
  \/ \E i \in Index, wanted \in SUBSET Block : Record(i, wanted)

Spec == Init /\ [][Next]_vars

-----------------------------------------------------------------------------
(* The type invariant; inflight counts the requests that are open. *)
TypeOK ==
  /\ mode \in {"concurrent", "rps", "timing"} /\ n \in 0 .. MaxRequests
  /\ phase \in {"new", "refused", "running", "gathered", "summarised", "raised"}
  /\ due \in 0 .. n /\ created \in 0 .. n
  /\ state \in [Index -> {"none", "task", "open", "peek", "answered", "failed", "cancelled"}]
  /\ inflight = Cardinality(Open) /\ peak \in 0 .. MaxRequests
  /\ \A j \in DOMAIN results : results[j] \in [index : Index, kind : {"kvcache", "text"}]
  /\ known \subseteq Block /\ monitor \in {"off", "on"} /\ failures \in 0 .. MaxFailures
  /\ source \in [Index -> {"none", "scheduler_peek", "fallback_total_length"}]

(* What a summary says is about the run that was asked for: there is one   *)
(* only if every request was sent and answered, with a result for each at  *)
(* its place, of which any A + B in a row hold A of the kvcache kind (or   *)
(* the figures per kind would be of another mix); the peak it prints was   *)
(* really reached, and the load never exceeded what was asked for: the     *)
(* concurrency, or one request per interval that has passed                *)
(* (run_concurrent_mode, run_rps_mode, summarize).                         *)
SummaryIsOfTheRun ==
  /\ mode = "concurrent" => Cardinality(Open) <= Concurrency
  /\ mode # "concurrent" => Cardinality({i \in Index : state[i] \notin {"none", "task"}}) <= due
  /\ peak = most
  /\ phase = "summarised" =>
       /\ Len(results) = n
       /\ \A j \in 1 .. n : results[j].index = j - 1 /\ state[j - 1] = "answered"
       /\ \A j \in 1 .. n - (KvPart + TextPart) + 1 :
            Cardinality({k \in j .. j + KvPart + TextPart - 1 : results[k].kind = "kvcache"}) = KvPart
=============================================================================
