--------------------------- MODULE TpotBenchmark ----------------------------
(***************************************************************************)
(* The TPOT benchmark of an Instance (instance/TPOT_predictor): a          *)
(* collection plans the prompts whose answers cover a range of sequence    *)
(* lengths, measures them, in the "with_prefill_load" scenario under a     *)
(* background load, fits the four-term model and returns the curve of the  *)
(* range.  A length is a real sequence length: an answer of w tokens to a  *)
(* prompt of real length s measures s .. s + w - 1.  One batch size; the   *)
(* collections are called one after the other.                             *)
(***************************************************************************)
EXTENDS Integers, FiniteSets, FiniteSetsExt

CONSTANTS
  Longest,         \* bound: the longest sequence of a requested range
  Offset,          \* tokens the chat template adds to a prompt
  Tokens,          \* the values of max_tokens
  Overlaps,        \* the values of overlap_tokens
  PrefillLoad,     \* prefill_concurrency
  MaxFaults,       \* bound: answers that are short, late or missing
  MaxCollections   \* bound: the collections

ConstantsAssumption ==
  /\ Longest \in Nat \ {0} /\ Offset \in Nat
  /\ Tokens \subseteq Nat \ {0} /\ IsFiniteSet(Tokens)
  /\ Overlaps \subseteq Nat /\ PrefillLoad \in Nat \ {0}
  /\ MaxFaults \in Nat /\ MaxCollections \in Nat

VARIABLES
  phase,      \* idle, measuring, ended
  job,        \* what the collection was asked for
  todo,       \* the planned starts that are not measured yet
  start,      \* the start that is being measured, 0 for none
  measured,   \* _records: scenario -> the lengths measured in it
  exact,      \* auxiliary: every answer of the collection was complete
  load,       \* the background task: off, on
  prefills,   \* its open requests
  disturbed,  \* auxiliary: a prefill was open while start was measured
  model,      \* the scenarios the four-term model was fitted on
  curve,      \* the value_source of the returned rows
  collections, faults

vars == <<phase, job, todo, start, measured, exact, load, prefills, disturbed, model,
          curve, collections, faults>>

Scenario == {"baseline", "with_prefill_load"}
Length == 1 .. Longest
NoJob == [kind |-> "range", scenario |-> "baseline", lo |-> 1, hi |-> 1, w |-> 1]

(* generate_prompt_with_tokens reaches the target at least; the shortest   *)
(* prompt has one token.                                                   *)
Reachable(s) == Max({1, s - Offset}) + Offset

Init ==
  /\ phase = "idle" /\ job = NoJob /\ todo = {} /\ start = 0
  /\ measured = [sc \in Scenario |-> {}] /\ exact = TRUE /\ load = "off" /\ prefills = 0
  /\ disturbed = FALSE /\ model = {} /\ curve = <<>> /\ collections = 0 /\ faults = 0

-----------------------------------------------------------------------------
(* _build_configs_for_sequence_range: windows that overlap by half. *)
RangeStarts(lo, hi, w) ==
  LET last == Max({lo, hi - w + 1})
      step == Max({1, w \div 2})
      n    == Max({1, (last - lo + step) \div step})     \* the ceiling of (last - lo + 1) / step
  IN  {lo + i * step : i \in 0 .. n - 1}

(* A stride of the window and the overlap in the place of their difference. *)
StrideOver(w, overlap) == Max({1, w + overlap})

Stride(w, overlap) == Max({1, w - overlap})

(* _build_continuous_configs_for_single_bs: from the first start on, a     *)
(* window every stride; starts whose window misses the range are dropped.  *)
ContinuousStarts(lo, hi, w, overlap, first) ==
  LET from   == Min({lo, first})
      starts == {first, lo} \cup {s \in from .. hi : (s - from) % Stride(w, overlap) = 0}
  IN  {s \in starts : s <= hi /\ s + w - 1 >= lo}

(* collect_tpot_matrix drops the records of every earlier collection; the  *)
(* prompts are sorted by length.                                           *)
Begin(kind, scenario, lo, hi, w, starts) ==
  /\ phase = "idle" /\ collections < MaxCollections /\ collections' = collections + 1
  /\ phase' = "measuring" /\ curve' = <<>> /\ exact' = TRUE
  /\ job' = [kind |-> kind, scenario |-> scenario, lo |-> lo, hi |-> hi, w |-> w]
  /\ todo' = {Reachable(s) : s \in starts} /\ start' = 0 /\ disturbed' = FALSE
  /\ measured' = [sc \in Scenario |-> {}]
  /\ load' = IF scenario = "with_prefill_load" THEN "on" ELSE load
  /\ UNCHANGED <<prefills, model, faults>>

CollectRange ==
  \E scenario \in Scenario, lo, hi \in Length, w \in Tokens :
    lo <= hi /\ Begin("range", scenario, lo, hi, w, RangeStarts(lo, hi, w))

CollectContinuous ==
  \E scenario \in Scenario, lo, hi, first \in Length, w \in Tokens, overlap \in Overlaps :
    lo <= hi /\ Begin("continuous", scenario, lo, hi, w,
                      ContinuousStarts(lo, hi, w, overlap, first))

Send ==
  /\ phase = "measuring" /\ start = 0 /\ todo # {}
  /\ start' = Min(todo) /\ todo' = todo \ {Min(todo)}
  /\ disturbed' = (prefills > 0)
  /\ UNCHANGED <<phase, job, measured, exact, load, prefills, model, curve, collections, faults>>

(* send_stream_request_for_tpot: one length for every token. *)
Answer ==
  /\ start # 0 /\ start' = 0
  /\ measured' = [measured EXCEPT ![job.scenario] = @ \cup (start .. start + job.w - 1)]
  /\ UNCHANGED <<phase, job, todo, exact, load, prefills, disturbed, model, curve,
                 collections, faults>>

(* A prompt that is one token longer than asked for, an answer that ends   *)
(* early, or no answer.                                                    *)
AnswerPartly ==
  /\ start # 0 /\ start' = 0 /\ faults < MaxFaults /\ faults' = faults + 1 /\ exact' = FALSE
  /\ \E over \in {0, 1}, n \in 0 .. job.w :
       measured' = [measured EXCEPT ![job.scenario] =
                      @ \cup (start + over .. start + over + n - 1)]
  /\ UNCHANGED <<phase, job, todo, load, prefills, disturbed, model, curve, collections>>

-----------------------------------------------------------------------------
(* run_background_prefill_load: the semaphore bounds the open requests. *)
PrefillSent ==
  /\ load = "on" /\ prefills < PrefillLoad /\ prefills' = prefills + 1
  /\ disturbed' = (disturbed \/ start # 0)
  /\ UNCHANGED <<phase, job, todo, start, measured, exact, load, model, curve,
                 collections, faults>>

PrefillEnds ==
  /\ prefills > 0 /\ prefills' = prefills - 1
  /\ UNCHANGED <<phase, job, todo, start, measured, exact, load, disturbed, model, curve,
                 collections, faults>>

(* The finally clause that sets the stop event and goes on. *)
StopUnawaited ==
  /\ phase = "measuring" /\ start = 0 /\ todo = {} /\ phase' = "ended"
  /\ load' = "off"
  /\ UNCHANGED <<job, todo, start, measured, exact, prefills, disturbed, model, curve,
                 collections, faults>>

(* The finally clause: the task is told to stop, cancels its open requests *)
(* and is awaited.                                                         *)
Stop ==
  /\ phase = "measuring" /\ start = 0 /\ todo = {} /\ phase' = "ended"
  /\ load' = "off" /\ prefills' = 0
  /\ UNCHANGED <<job, todo, start, measured, exact, disturbed, model, curve,
                 collections, faults>>

(* The tokenizer raises: the finally clause runs, there is no curve. *)
Raise ==
  /\ phase = "measuring" /\ start = 0 /\ todo # {} /\ faults < MaxFaults
  /\ faults' = faults + 1 /\ phase' = "idle" /\ load' = "off" /\ prefills' = 0 /\ todo' = {}
  /\ UNCHANGED <<job, start, measured, exact, disturbed, model, curve, collections>>

(* fit_four_term_regressor wants four points; a fit that fails leaves the  *)
(* model of an earlier collection.                                         *)
Fitted ==
  IF Cardinality(measured[job.scenario]) >= 4 THEN {job.scenario} ELSE model

(* build_length_range_curve. *)
SourceOf(length) ==
  IF length \in measured[job.scenario] THEN "observed"
  ELSE IF measured[job.scenario] # {} THEN "interpolated"
  ELSE IF Fitted # {} THEN "fitted" ELSE "none"

Return ==
  /\ phase = "ended" /\ phase' = "idle" /\ model' = Fitted
  /\ curve' = [length \in job.lo .. job.hi |-> SourceOf(length)]
  /\ UNCHANGED <<job, todo, start, measured, exact, load, prefills, disturbed,
                 collections, faults>>

Next ==
  \/ CollectRange \/ CollectContinuous \/ Send \/ Answer \/ AnswerPartly
  \/ PrefillSent \/ PrefillEnds \/ Stop \/ Raise \/ Return

Spec == Init /\ [][Next]_vars

-----------------------------------------------------------------------------
(* The type invariant. *)
TypeOK ==
  /\ phase \in {"idle", "measuring", "ended"} /\ load \in {"off", "on"}
  /\ job \in [kind : {"range", "continuous"}, scenario : Scenario, lo : Length,
              hi : Length, w : Tokens \cup {1}]
  /\ start \in Nat /\ \A s \in todo : s \in Nat /\ s > start
  /\ measured \in [Scenario -> SUBSET (1 .. 2 * Longest + Offset + Max(Tokens))]
  /\ prefills \in 0 .. PrefillLoad /\ model \subseteq Scenario
  /\ DOMAIN curve \in {{}, job.lo .. job.hi} /\ exact \in BOOLEAN /\ disturbed \in BOOLEAN
  /\ collections \in 0 .. MaxCollections /\ faults \in 0 .. MaxFaults

Missing(lengths) == {l \in lengths : curve[l] # "observed"}

(* A curve is of the scenario it is labelled with and as dense as planned: *)
(* no baseline request is measured beside a prefill of the background load *)
(* (of an earlier collection); if every answer was complete, the windows   *)
(* of a continuous collection leave no length out that the chat template   *)
(* allows, and those of a range collection leave out no length between two *)
(* others and less than a step of them at the end, so that a value of the  *)
(* model is never used where something was measured (collect_tpot_range,   *)
(* collect_continuous_tpot_curve, run_background_prefill_load).            *)
CurveIsAsPlanned ==
  /\ start # 0 /\ job.scenario = "baseline" => ~disturbed /\ prefills = 0
  /\ phase = "idle" /\ exact /\ curve # <<>> =>
       LET reach == {l \in DOMAIN curve : l > Offset}
       IN  /\ job.kind = "continuous" => Missing(reach) = {}
           /\ job.kind = "range" =>
                Missing(reach) \subseteq job.hi - Max({1, job.w \div 2}) + 2 .. job.hi
           /\ reach # {} => "fitted" \notin {curve[l] : l \in DOMAIN curve}
=============================================================================
