--------------------------- MODULE TtftPredictor ----------------------------
(***************************************************************************)
(* The TTFT prediction service of an Instance                              *)
(* (instance/TTFT_predictor): a regressor that is seeded so that it can    *)
(* answer at once, and a warm-up that runs in the background, measures one *)
(* configuration after the other and fits the regressor once at the end.   *)
(* /report_prefill appends to the same buffer all the while.  The warm-up  *)
(* finds the samples of a round by their place in the buffer and gives     *)
(* them the configuration it is testing.                                   *)
(***************************************************************************)
EXTENDS Integers, Sequences, SequencesExt

CONSTANTS
  Configs,      \* the number of configurations of WARM_UP_CONFIGS_DEFAULT
  Repeats,      \* repeats
  MaxRetries,   \* max_retries
  MaxReports    \* bound: the accepted reports

ConstantsAssumption ==
  /\ Configs \in Nat \ {0} /\ Repeats \in Nat \ {0}
  /\ MaxRetries \in Nat \ {0} /\ MaxReports \in Nat

VARIABLES
  at,        \* where the background task is
  config,    \* the configuration under test
  repeat,    \* the repeats of the round that are over
  mark,      \* start_data_count
  retries,
  data,      \* _training_data
  scaler,    \* the samples the scaler was fitted on
  model,     \* the samples the coefficients were fitted on
  reports

vars == <<at, config, repeat, mark, retries, data, scaler, model, reports>>

Config == 1 .. Configs
Other == 0                      \* a configuration that is not of the warm-up

(* A sample: where it is from, the configuration it was measured with, the *)
(* one it is stored under, and the round in progress when it came.         *)
Sample(from, own) == [from |-> from, own |-> own, label |-> own, round |-> config]
Seed == [from |-> "seed", own |-> Other, label |-> Other, round |-> Other]

Init ==
  /\ at = "boot" /\ config = 0 /\ repeat = 0 /\ mark = 0 /\ retries = 0
  /\ data = <<>> /\ scaler = <<>> /\ model = <<>> /\ reports = 0

-----------------------------------------------------------------------------
(* get_regressor, called while the server starts; then the warm-up is      *)
(* scheduled and the server serves.                                        *)
Boot ==
  /\ at = "boot" /\ at' = "delay"
  /\ data' = <<Seed>> /\ scaler' = <<Seed>> /\ model' = <<Seed>>
  /\ UNCHANGED <<config, repeat, mark, retries, reports>>

(* A round that keeps the place of the round before. *)
MarkOnce(samples) == mark' = IF config' = 1 THEN Len(samples) ELSE mark

Mark(samples) == mark' = Len(samples)

(* perform_detailed_warmup drops the seed and whatever was reported. *)
BeginWarmup ==
  /\ at = "delay" /\ at' = "fire"
  /\ data' = <<>> /\ config' = 1 /\ repeat' = 0 /\ Mark(<<>>)
  /\ UNCHANGED <<retries, scaler, model, reports>>

(* One repeat: a batch of requests, one sample if any of them was answered. *)
Fire ==
  /\ at = "fire" /\ repeat < Repeats /\ repeat' = repeat + 1
  /\ \E answered \in BOOLEAN :
       data' = IF answered THEN Append(data, Sample("warmup", config)) ELSE data
  /\ UNCHANGED <<at, config, mark, retries, scaler, model, reports>>

TokenizerFails ==
  /\ at = "fire" /\ repeat = 0 /\ repeat' = Repeats
  /\ UNCHANGED <<at, config, mark, retries, data, scaler, model, reports>>

BeginPoll ==
  /\ at = "fire" /\ repeat = Repeats /\ at' = "poll" /\ retries' = MaxRetries
  /\ UNCHANGED <<config, repeat, mark, data, scaler, model, reports>>

Enough == Len(data) >= mark + Repeats

Relabelled ==
  [i \in DOMAIN data |-> IF i > mark THEN [data[i] EXCEPT !.label = config] ELSE data[i]]

(* fit: the scaler, and then the model, which may refuse a sample that     *)
(* the scaler and update_prefill_data let pass, such as a time that is not *)
(* a number.                                                               *)
FitAll(samples) ==
  \/ samples = <<>> /\ at' = "done" /\ UNCHANGED <<scaler, model>>
  \/ samples # <<>> /\ at' = "done" /\ scaler' = samples /\ model' = samples
  \/ samples # <<>> /\ at' = "failed" /\ scaler' = samples /\ UNCHANGED model

(* The next configuration, or the fit over all that was collected. *)
NextRound(samples) ==
  /\ data' = samples
  /\ IF config < Configs
       THEN /\ at' = "fire" /\ config' = config + 1 /\ repeat' = 0 /\ Mark(samples)
            /\ UNCHANGED <<scaler, model>>
       ELSE config' = 0 /\ FitAll(samples) /\ UNCHANGED <<repeat, mark>>

Collected ==
  /\ at = "poll" /\ retries > 0 /\ Enough /\ NextRound(Relabelled)
  /\ UNCHANGED <<retries, reports>>

PollAgain ==
  /\ at = "poll" /\ ~Enough /\ retries > 0 /\ retries' = retries - 1
  /\ UNCHANGED <<at, config, repeat, mark, data, scaler, model, reports>>

PollEnds ==
  /\ at = "poll" /\ retries = 0 /\ NextRound(data)
  /\ UNCHANGED <<retries, reports>>

(* An exception ends the warm-up; it is logged. *)
WarmupRaises ==
  /\ at \in {"fire", "poll"} /\ at' = "failed" /\ config' = 0
  /\ UNCHANGED <<repeat, mark, retries, data, scaler, model, reports>>

(* update_prefill_data, for a time that is in range. *)
Report(own) ==
  /\ at # "boot" /\ reports < MaxReports /\ reports' = reports + 1
  /\ data' = Append(data, Sample("report", own))
  /\ UNCHANGED <<at, config, repeat, mark, retries, scaler, model>>

Next ==
  \/ Boot \/ BeginWarmup \/ Fire \/ TokenizerFails \/ BeginPoll
  \/ Collected \/ PollAgain \/ PollEnds \/ WarmupRaises
  \/ \E own \in Config \cup {Other} : Report(own)

Spec == Init /\ [][Next]_vars

-----------------------------------------------------------------------------
(* The type invariant; a server that serves can always predict. *)
TypeOK ==
  /\ at \in {"boot", "delay", "fire", "poll", "done", "failed"}
  /\ config \in 0 .. Configs /\ repeat \in 0 .. Repeats /\ mark \in 0 .. Len(data)
  /\ retries \in 0 .. MaxRetries /\ reports \in 0 .. MaxReports
  /\ \A s \in ToSet(data) \cup ToSet(scaler) \cup ToSet(model) :
       s \in [from : {"seed", "warmup", "report"}, own : 0 .. Configs,
              label : 0 .. Configs, round : 0 .. Configs]
  /\ at # "boot" => model # <<>>

(* The coefficients are of one campaign: of the seed alone until the       *)
(* warm-up has been through every configuration, of none of it after that; *)
(* what the warm-up measured is stored under the configuration it was      *)
(* measured with, whatever failed and whatever was reported meanwhile; and *)
(* a report can only be mistaken for a measurement of the round it came    *)
(* into, never of another (perform_detailed_warmup).  The scaler, with     *)
(* which a prediction is scaled, is of the same campaign, but for a last   *)
(* fit that raised after it had fitted the scaler: then the server goes on *)
(* with the seed's coefficients and the scaler of the warm-up.             *)
ModelIsOfOneCampaign ==
  /\ (\A s \in ToSet(model) : s.from = "seed") \/ (\A s \in ToSet(model) : s.from # "seed")
  /\ at \in {"delay", "fire", "poll", "failed"} => model = <<Seed>>
  /\ scaler = model \/ at = "failed"
  /\ \A s \in ToSet(data) \cup ToSet(model) :
       /\ s.label # s.own => s.from = "report" /\ s.label = s.round
       /\ s.from = "warmup" => s.own = s.round
=============================================================================
