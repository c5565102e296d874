-------------------------- MODULE CoefficientFile ---------------------------
(***************************************************************************)
(* The prediction coefficients of a Proxy (proxy/metrics): the TPOT        *)
(* regressor collects samples, fits one line per batch size and writes     *)
(* them to a JSON file; the predictors of the queue read their files on    *)
(* every call.  The files of the two other regressors, TTFT and Redis      *)
(* pull, are read here too, but written by other processes: what a reader  *)
(* finds there is whole or not, at any time.                               *)
(* Fitting is a process of its own, so a write and the reads of a running  *)
(* Proxy meet: write_text truncates the file and then fills it.            *)
(*                                                                         *)
(* A line is known by the fit it is of.  The calibration table for short   *)
(* prompts of batch size 1 is kept as the three ranges it distinguishes.   *)
(***************************************************************************)
EXTENDS Integers, FiniteSets, FiniteSetsExt

CONSTANTS
  BatchSizes,   \* the batch sizes of samples
  Asked,        \* the batch sizes predictions are asked for
  MaxSamples,   \* bound: the samples of a batch size
  MaxFits,      \* bound: the fits
  MaxTokens,    \* bound: the lengths of a breakdown
  Align         \* align_size (256)

ConstantsAssumption ==
  /\ IsFiniteSet(BatchSizes) /\ BatchSizes \subseteq Nat \ {0} /\ BatchSizes # {}
  /\ Asked \subseteq Int /\ MaxSamples \in Nat /\ MaxFits \in Nat
  /\ MaxTokens \in Nat /\ Align \in Nat \ {0}

VARIABLES
  samples,   \* how many samples of every batch size the regressor holds
  lines,     \* _coeffs_by_bs: batch size -> the fit its line is of
  fits,      \* the fits so far
  writing,   \* what save_coefficients_json is writing, <<>> when it is not
  file,      \* "absent", "partial" or "whole", and the lines in it
  answer     \* what the last prediction was made from

vars == <<samples, lines, fits, writing, file, answer>>

NoLines == <<>>
LengthRange == {"none", "short", "medium", "long"}    \* 0, <= 115, <= 345, longer

Init ==
  /\ samples = [b \in BatchSizes |-> 0] /\ lines = NoLines /\ fits = 0
  /\ writing = NoLines /\ file = [is |-> "absent", lines |-> NoLines] /\ answer = [kind |-> "none"]

-----------------------------------------------------------------------------
(* load_from_json adds row after row, and stops at one that is malformed. *)
AddSamples(b) ==
  /\ samples[b] < MaxSamples
  /\ \E n \in 1 .. MaxSamples - samples[b] : samples' = [samples EXCEPT ![b] = @ + n]
  /\ UNCHANGED <<lines, fits, writing, file, answer>>

Grouped == {b \in BatchSizes : samples[b] > 0}

Enough == MapThenSumSet(LAMBDA b : samples[b], BatchSizes) >= 4

(* The coefficients are assigned as the groups are fitted. *)
FitLineByLine ==
  /\ Enough /\ fits < MaxFits /\ fits' = fits + 1
  /\ LET done == {b \in Grouped : \A c \in Grouped : c <= b => samples[c] >= 2}
     IN  lines' = [b \in done \cup DOMAIN lines |-> IF b \in done THEN fits' ELSE lines[b]]
  /\ UNCHANGED <<samples, writing, file, answer>>

(* A batch size with one sample raises before anything is assigned. *)
Fit ==
  /\ Enough /\ \A b \in Grouped : samples[b] >= 2
  /\ fits < MaxFits /\ fits' = fits + 1
  /\ lines' = [b \in Grouped |-> fits']
  /\ UNCHANGED <<samples, writing, file, answer>>

(* save_coefficients_json: "not fitted yet", or write_text. *)
Truncate ==
  /\ lines # NoLines /\ writing = NoLines
  /\ writing' = lines /\ file' = [is |-> "partial", lines |-> NoLines]
  /\ UNCHANGED <<samples, lines, fits, answer>>

Write ==
  /\ writing # NoLines /\ file' = [is |-> "whole", lines |-> writing] /\ writing' = NoLines
  /\ UNCHANGED <<samples, lines, fits, answer>>

-----------------------------------------------------------------------------
Distance(a, b) == Max({a - b, b - a})

(* min over the keys by distance; the first of two that are as near. *)
Nearest(b) == Min({k \in DOMAIN file.lines : \A j \in DOMAIN file.lines : Distance(k, b) <= Distance(j, b)})

Readable == file.is = "whole"

(* decode_tpot_predictor. *)
PredictDecode(b) ==
  /\ answer' = IF b <= 0 \/ ~Readable THEN [kind |-> "raises"]
               ELSE [kind |-> "decode", bs |-> b, used |-> Nearest(b),
                     lines |-> file.lines]
  /\ UNCHANGED <<samples, lines, fits, writing, file>>

(* queue_predictor reads ttft_coefficients.json first, also when the       *)
(* calibrated value of a short prompt is what it returns.                  *)
PredictPrefill(b, range) ==
  /\ \E ttftFile \in {"whole", "not whole"} :
       answer' = IF b <= 0 \/ range = "none" \/ ttftFile # "whole" THEN [kind |-> "raises"]
                 ELSE [kind |-> "prefill", bs |-> b,
                       by |-> IF b # 1 \/ range = "long" THEN "model"
                              ELSE IF range = "short" THEN "table" ELSE "larger of both"]
  /\ UNCHANGED <<samples, lines, fits, writing, file>>

(* align_hit_length_tokens, rounded up. *)
AlignedUp(tokens) == ((tokens + Align - 1) \div Align) * Align

Aligned(tokens) == (tokens \div Align) * Align

(* predict_prefill_and_redis_breakdown reads ttft_coefficients.json and    *)
(* redis_pull_coefficients.json.                                           *)
Breakdown(total, knowledge) ==
  /\ LET hit == Min({Aligned(Max({0, knowledge})), Max({0, total})})
     IN  \E ttftFile, redisFile \in {"whole", "not whole"} :
           answer' = IF ttftFile # "whole" \/ redisFile # "whole" THEN [kind |-> "raises"]
                     ELSE [kind |-> "breakdown", total |-> total, knowledge |-> knowledge,
                           hit |-> hit, compute |-> Max({1, Max({0, total}) - hit})]
  /\ UNCHANGED <<samples, lines, fits, writing, file>>

Next ==
  \/ \E b \in BatchSizes : AddSamples(b)
  \/ Fit \/ Truncate \/ Write
  \/ \E b \in Asked : PredictDecode(b)
  \/ \E b \in Asked, range \in LengthRange : PredictPrefill(b, range)
  \/ \E total \in -1 .. MaxTokens, knowledge \in -1 .. MaxTokens : Breakdown(total, knowledge)

Spec == Init /\ [][Next]_vars

-----------------------------------------------------------------------------
(* The type invariant. *)
TypeOK ==
  /\ samples \in [BatchSizes -> 0 .. MaxSamples] /\ fits \in 0 .. MaxFits
  /\ DOMAIN lines \subseteq BatchSizes /\ \A b \in DOMAIN lines : lines[b] \in 1 .. fits
  /\ file.is \in {"absent", "partial", "whole"} /\ DOMAIN file.lines \subseteq BatchSizes
  /\ writing # NoLines <=> file.is = "partial"
  /\ answer.kind \in {"none", "raises", "decode", "prefill", "breakdown"}

(* A prediction comes from one fit, whatever failed before it was saved    *)
(* and whatever is being saved while it is made: the lines of a file are   *)
(* of one fit, and a batch size that has a line gets its own; and the      *)
(* breakdown of a request accounts for every token: a hit is never more    *)
(* than the knowledge or the prompt, and the rest, a token at least, is    *)
(* computed (fit, save_coefficients_json, decode_tpot_predictor,           *)
(* predict_prefill_and_redis_breakdown).                                   *)
PredictionsAreOfOneFit ==
  /\ answer.kind = "decode" =>
       /\ \A k \in DOMAIN answer.lines : answer.lines[k] = answer.lines[answer.used]
       /\ answer.bs \in DOMAIN answer.lines => answer.used = answer.bs
  /\ answer.kind = "breakdown" =>
       LET total == Max({0, answer.total})
       IN  /\ answer.hit <= Max({0, answer.knowledge}) /\ answer.hit <= total
           /\ answer.compute >= 1 /\ answer.hit + answer.compute = Max({total, answer.hit + 1})
=============================================================================
