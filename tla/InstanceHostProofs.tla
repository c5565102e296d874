------------------------- MODULE InstanceHostProofs --------------------------
(***************************************************************************)
(* The inductive invariants of what runs on the host of an Instance, for   *)
(* all values of the constants: of the pages, of the buffer and of the     *)
(* token database of LMCache, and of the campaigns that measure TTFT and   *)
(* TPOT; StorageProofs has the theorems they lead to.                      *)
(***************************************************************************)
EXTENDS Integers, Sequences, InstanceHost, FiniteLemmas, FiniteSetTheorems, WellFoundedInduction, TLAPS

-----------------------------------------------------------------------------
(* The campaign of the TTFT predictor (TtftPredictor).                     *)

(* What the buffer of samples may hold.                                    *)
TtftSamples ==
  [from : {"seed", "warmup", "report"}, own : 0 .. tp_Configs, label : 0 .. tp_Configs, round : 0 .. tp_Configs]

(* The types of the TTFT campaign.                                         *)
TtftTypes ==
  /\ tp_at \in {"boot", "delay", "fire", "poll", "done", "failed"}
  /\ tp_config \in 0 .. tp_Configs /\ tp_repeat \in 0 .. tp_Repeats /\ tp_mark \in 0 .. Len(tp_data)
  /\ tp_retries \in 0 .. tp_MaxRetries /\ tp_reports \in 0 .. tp_MaxReports
  /\ tp_data \in Seq(TtftSamples) /\ tp_model \in Seq(TtftSamples) /\ tp_scaler \in Seq(TtftSamples)
  /\ tp_at # "boot" => tp_model # <<>>

(* What was measured bears the configuration it was measured with, but for *)
(* a report, which may bear that of the round it came into.                *)
TtftRightLabel(s) ==
  /\ s.label # s.own => s.from = "report" /\ s.label = s.round
  /\ s.from = "warmup" => s.own = s.round

TtftLabelled ==
  /\ \A i \in 1 .. Len(tp_data) : TtftRightLabel(tp_data[i])
  /\ \A i \in 1 .. Len(tp_model) : TtftRightLabel(tp_model[i])

(* What lies behind the mark came in the round in progress, and the seed   *)
(* is gone from the buffer once there is a round.                          *)
TtftOfRound ==
  /\ tp_at \in {"fire", "poll"} =>
       /\ tp_config \in 1 .. tp_Configs
       /\ \A i \in 1 .. Len(tp_data) : i > tp_mark => tp_data[i].round = tp_config
  /\ tp_at \in {"fire", "poll", "done", "failed"} => \A i \in 1 .. Len(tp_data) : tp_data[i].from # "seed"

TtftOneCampaign ==
  /\ \/ \A i \in 1 .. Len(tp_model) : tp_model[i].from = "seed"
     \/ \A i \in 1 .. Len(tp_model) : tp_model[i].from # "seed"
  /\ tp_at \in {"delay", "fire", "poll", "failed"} => tp_model = <<TP!Seed>>
  /\ tp_scaler = tp_model \/ tp_at = "failed"

(* Before the server serves nothing was sampled.                          *)
TtftEarly == tp_at = "boot" => tp_mark = 0

(* The inductive invariant of the TTFT campaign.                           *)
TtftIInv == TtftTypes /\ TtftEarly /\ TtftLabelled /\ TtftOfRound /\ TtftOneCampaign

(* The seed is one sample, and it is well labelled.                        *)
LEMMA TtftSeedOK ==
  ASSUME TP!ConstantsAssumption
  PROVE  /\ <<TP!Seed>> \in Seq(TtftSamples) /\ Len(<<TP!Seed>>) = 1
         /\ <<TP!Seed>>[1].from = "seed" /\ TtftRightLabel(<<TP!Seed>>[1])
BY DEF TP!ConstantsAssumption, TP!Seed, TtftSamples, TP!Other, TtftRightLabel

(* A sample more at the end of the buffer, in the round in progress.       *)
LEMMA TtftAppendOK ==
  ASSUME TP!ConstantsAssumption, TtftIInv, NEW s \in TtftSamples, tp_data' = Append(tp_data, s),
         UNCHANGED <<tp_config, tp_mark, tp_scaler, tp_model>>, tp_at' = tp_at, tp_repeat' \in 0 .. tp_Repeats,
         tp_retries' \in 0 .. tp_MaxRetries, tp_reports' \in 0 .. tp_MaxReports,
         TtftRightLabel(s), s.from # "seed", s.round = tp_config
  PROVE  TtftIInv'
<1> USE DEF TtftIInv
<1>1. /\ tp_data' \in Seq(TtftSamples) /\ Len(tp_data') = Len(tp_data) + 1 /\ Len(tp_data) \in Nat
      /\ \A i \in 1 .. Len(tp_data') : tp_data'[i] = IF i <= Len(tp_data) THEN tp_data[i] ELSE s
  BY DEF TtftTypes
<1>2. TtftTypes'
  BY <1>1 DEF TtftTypes
<1>3. TtftLabelled'
  BY <1>1 DEF TtftLabelled, TtftRightLabel
<1>4. TtftOfRound' /\ TtftOneCampaign' /\ TtftEarly'
  BY SMTT(30), <1>1 DEF TtftOfRound, TtftOneCampaign, TP!Seed, TP!Other, TtftEarly, TtftTypes
<1> QED
  BY <1>2, <1>3, <1>4

(* The campaign's invariant holds at first.                                *)
LEMMA TtftInitIInv == ASSUME TP!ConstantsAssumption, TP!Init PROVE TtftIInv
BY DEF TP!ConstantsAssumption, TP!Init, TtftIInv, TtftEarly, TtftTypes, TtftLabelled, TtftOfRound, TtftOneCampaign

(* The end of a round: whether the samples of the round got its label or   *)
(* not, they are well labelled.                                            *)
LEMMA TtftNextRoundOK ==
  ASSUME TP!ConstantsAssumption, TtftIInv, NEW samples \in Seq(TtftSamples), tp_at = "poll",
         Len(samples) = Len(tp_data),
         TP!NextRound(samples), UNCHANGED <<tp_retries, tp_reports>>,
         \A i \in 1 .. Len(samples) : TtftRightLabel(samples[i]) /\ samples[i].from # "seed"
  PROVE  TtftIInv'
<1> USE DEF TtftIInv
<1>1. tp_config \in 1 .. tp_Configs /\ tp_Configs \in Nat \ {0} /\ tp_model = <<TP!Seed>> /\ Len(samples) \in Nat
  BY DEF TtftOfRound, TtftOneCampaign, TP!ConstantsAssumption
<1>2. CASE tp_config < tp_Configs
  <2>1. /\ tp_data' = samples /\ tp_at' = "fire" /\ tp_config' = tp_config + 1 /\ tp_repeat' = 0
        /\ tp_mark' = Len(samples) /\ tp_model' = tp_model /\ tp_scaler' = tp_scaler
    BY <1>2 DEF TP!NextRound, TP!Mark
  <2>2. TtftTypes'
    BY <1>1, <1>2, <2>1 DEF TtftTypes, TP!ConstantsAssumption
  <2>3. TtftLabelled' /\ TtftOneCampaign' /\ TtftEarly'
    BY <1>1, <2>1, TtftSeedOK DEF TtftLabelled, TtftOneCampaign, TP!Seed, TP!Other, TtftEarly
  <2>4. TtftOfRound'
    BY <1>1, <1>2, <2>1 DEF TtftOfRound
  <2> QED
    BY <2>2, <2>3, <2>4
<1>3. CASE ~(tp_config < tp_Configs)
  <2>1. tp_data' = samples /\ tp_config' = 0 /\ UNCHANGED <<tp_repeat, tp_mark>> /\ TP!FitAll(samples)
    BY <1>3 DEF TP!NextRound
  <2>2. \/ tp_at' = "done" /\ tp_scaler' = tp_scaler /\ tp_model' = tp_model
        \/ samples # <<>> /\ tp_at' = "done" /\ tp_scaler' = samples /\ tp_model' = samples
        \/ samples # <<>> /\ tp_at' = "failed" /\ tp_scaler' = samples /\ tp_model' = tp_model
    BY <2>1 DEF TP!FitAll
  <2>3. tp_at' \in {"done", "failed"} /\ tp_model' \in {tp_model, samples} /\ tp_scaler' \in {tp_scaler, samples}
        /\ (tp_model' = samples => samples # <<>> \/ tp_model = samples) /\ (tp_at' = "failed" => tp_model' = tp_model)
        /\ (tp_scaler' = tp_model' \/ tp_at' = "failed")
    BY <2>2 DEF TtftOneCampaign
  <2>4. tp_mark \in 0 .. Len(samples) /\ tp_model \in Seq(TtftSamples) /\ tp_scaler \in Seq(TtftSamples) /\ tp_model # <<>>
    BY DEF TtftTypes
  <2>5. TtftTypes'
    <3>1. /\ tp_repeat' \in 0 .. tp_Repeats /\ tp_retries' \in 0 .. tp_MaxRetries /\ tp_reports' \in 0 .. tp_MaxReports
          /\ tp_config' \in 0 .. tp_Configs /\ tp_mark' \in 0 .. Len(tp_data')
      BY <1>1, <2>1, <2>4 DEF TtftTypes
    <3>2. /\ tp_data' \in Seq(TtftSamples) /\ tp_model' \in Seq(TtftSamples) /\ tp_scaler' \in Seq(TtftSamples)
          /\ tp_model' # <<>> /\ tp_at' \in {"boot", "delay", "fire", "poll", "done", "failed"}
      BY <2>1, <2>3, <2>4
    <3> QED
      BY <3>1, <3>2 DEF TtftTypes
  <2>6. ASSUME NEW q \in {tp_model, samples}
        PROVE  /\ \A i \in 1 .. Len(q) : TtftRightLabel(q[i])
               /\ (\A i \in 1 .. Len(q) : q[i].from = "seed") \/ (\A i \in 1 .. Len(q) : q[i].from # "seed")
    BY DEF TtftLabelled, TtftOneCampaign
  <2>7. TtftLabelled'
    BY <2>1, <2>3, <2>6 DEF TtftLabelled, TtftRightLabel
  <2>8. TtftOfRound' /\ TtftEarly'
    BY <2>1, <2>3 DEF TtftOfRound, TtftEarly
  <2>9. TtftOneCampaign'
    <3>1. tp_at' = "failed" => tp_model' = <<TP!Seed>>
      BY <1>1, <2>3
    <3> QED
      BY <2>3, <2>6, <3>1 DEF TtftOneCampaign, TP!Seed, TP!Other
  <2> QED
    BY <2>5, <2>7, <2>8, <2>9
<1> QED
  BY <1>2, <1>3

(* Every step of the campaign and every report keeps it.                   *)
LEMMA TtftNextIInv == ASSUME TP!ConstantsAssumption, TtftIInv, [TP!Next]_TP!vars PROVE TtftIInv'
<1> USE DEF TtftIInv
<1>0. /\ Len(tp_data) \in Nat /\ \A i \in 1 .. Len(tp_data) : tp_data[i] \in TtftSamples
      /\ tp_Configs \in Nat \ {0} /\ tp_MaxRetries \in Nat \ {0} /\ tp_Repeats \in Nat \ {0}
  BY DEF TtftTypes, TP!ConstantsAssumption
<1>1. CASE TP!Boot
  <2>1. /\ tp_data' = <<TP!Seed>> /\ tp_scaler' = <<TP!Seed>> /\ tp_model' = <<TP!Seed>> /\ tp_at' = "delay"
        /\ UNCHANGED <<tp_config, tp_repeat, tp_mark, tp_retries, tp_reports>>
    BY <1>1 DEF TP!Boot
  <2>2. TtftTypes'
    <3>1. tp_at = "boot" /\ tp_mark \in 0 .. 1
      BY <1>1 DEF TP!Boot, TtftTypes, TtftEarly
    <3> QED
      BY <2>1, <3>1, TtftSeedOK DEF TtftTypes
  <2>3. \A i \in 1 .. Len(<<TP!Seed>>) : i = 1
    BY TtftSeedOK
  <2>4. TtftLabelled' /\ TtftOneCampaign'
    BY <2>1, <2>3, TtftSeedOK DEF TtftLabelled, TtftOneCampaign
  <2>5. TtftOfRound' /\ TtftEarly'
    BY <2>1 DEF TtftOfRound, TtftEarly
  <2> QED
    BY <2>2, <2>4, <2>5
<1>2. CASE TP!BeginWarmup
  BY <1>0, <1>2, TtftSeedOK DEF TP!BeginWarmup, TP!Mark, TtftTypes, TtftLabelled, TtftOfRound, TtftOneCampaign, TP!Seed, TP!Other, TtftEarly
<1>3. CASE TP!Fire
  <2> DEFINE s == TP!Sample("warmup", tp_config)
  <2>1. s \in TtftSamples /\ TtftRightLabel(s) /\ s.from # "seed" /\ s.round = tp_config
    BY DEF TP!Sample, TtftSamples, TtftRightLabel, TtftTypes
  <2>2. tp_repeat' \in 0 .. tp_Repeats /\ UNCHANGED <<tp_at, tp_config, tp_mark, tp_scaler, tp_model, tp_retries, tp_reports>>
    BY <1>0, <1>3 DEF TP!Fire, TtftTypes
  <2>3. CASE tp_data' = Append(tp_data, s)
    BY <2>1, <2>2, <2>3, TtftAppendOK DEF TtftTypes
  <2>4. CASE tp_data' = tp_data
    BY <2>2, <2>4 DEF TtftTypes, TtftLabelled, TtftOfRound, TtftOneCampaign, TP!Seed, TP!Other, TtftEarly
  <2> QED
    BY <1>3, <2>3, <2>4 DEF TP!Fire
<1>4. CASE TP!TokenizerFails \/ TP!BeginPoll \/ TP!PollAgain \/ TP!WarmupRaises \/ UNCHANGED TP!vars
  <2>1. CASE TP!TokenizerFails
    BY <1>0, <2>1 DEF TP!TokenizerFails, TtftTypes, TtftLabelled, TtftOfRound, TtftOneCampaign, TP!Seed, TP!Other, TtftEarly
  <2>2. CASE TP!BeginPoll
    BY <1>0, <2>2 DEF TP!BeginPoll, TtftTypes, TtftLabelled, TtftOfRound, TtftOneCampaign, TP!Seed, TP!Other, TtftEarly
  <2>3. CASE TP!PollAgain
    BY <1>0, <2>3 DEF TP!PollAgain, TtftTypes, TtftLabelled, TtftOfRound, TtftOneCampaign, TP!Seed, TP!Other, TtftEarly
  <2>4. CASE TP!WarmupRaises
    BY <1>0, <2>4 DEF TP!WarmupRaises, TtftTypes, TtftLabelled, TtftOfRound, TtftOneCampaign, TP!Seed, TP!Other, TtftEarly
  <2>5. CASE UNCHANGED TP!vars
    BY <2>5 DEF TP!vars, TtftTypes, TtftLabelled, TtftOfRound, TtftOneCampaign, TP!Seed, TP!Other, TtftEarly
  <2> QED
    BY <1>4, <2>1, <2>2, <2>3, <2>4, <2>5
<1>5. CASE TP!Collected
  <2>1. /\ TP!Relabelled \in Seq(TtftSamples) /\ Len(TP!Relabelled) = Len(tp_data)
        /\ \A i \in 1 .. Len(tp_data) :
             TP!Relabelled[i] = IF i > tp_mark THEN [tp_data[i] EXCEPT !.label = tp_config] ELSE tp_data[i]
    <3>1. tp_config \in 0 .. tp_Configs /\ DOMAIN tp_data = 1 .. Len(tp_data)
      BY DEF TtftTypes
    <3>2. \A i \in 1 .. Len(tp_data) : [tp_data[i] EXCEPT !.label = tp_config] \in TtftSamples
      BY <1>0, <3>1 DEF TtftSamples
    <3> QED
      BY <1>0, <3>1, <3>2 DEF TP!Relabelled
  <2>2. ASSUME NEW i \in 1 .. Len(tp_data)
        PROVE  TtftRightLabel(TP!Relabelled[i]) /\ TP!Relabelled[i].from # "seed"
    <3>1. tp_data[i].from # "seed" /\ (i > tp_mark => tp_data[i].round = tp_config) /\ TtftRightLabel(tp_data[i])
      BY <1>5 DEF TP!Collected, TtftOfRound, TtftLabelled
    <3>2. tp_data[i] \in TtftSamples
      BY <1>0
    <3> QED
      BY <2>1, <3>1, <3>2 DEF TtftRightLabel, TtftSamples
  <2> QED
    BY <1>5, <2>1, <2>2, TtftNextRoundOK DEF TP!Collected
<1>6. CASE TP!PollEnds
  BY <1>6, TtftNextRoundOK DEF TP!PollEnds, TtftTypes, TtftOfRound, TtftLabelled
<1>7. ASSUME NEW own \in TP!Config \cup {TP!Other}, TP!Report(own) PROVE TtftIInv'
  <2> DEFINE s == TP!Sample("report", own)
  <2>1. s \in TtftSamples /\ TtftRightLabel(s) /\ s.from # "seed" /\ s.round = tp_config
    BY <1>0 DEF TP!Sample, TtftSamples, TtftRightLabel, TtftTypes, TP!Config, TP!Other
  <2>2. tp_reports' \in 0 .. tp_MaxReports
    BY <1>7 DEF TP!Report, TtftTypes, TP!ConstantsAssumption
  <2> QED
    BY <1>7, <2>1, <2>2, TtftAppendOK DEF TP!Report, TtftTypes
<1> QED
  BY <1>1, <1>2, <1>3, <1>4, <1>5, <1>6, <1>7 DEF TP!Next

(* The property speaks of the samples as sets.                             *)
LEMMA TtftIInvCampaign == ASSUME TtftIInv PROVE TP!ModelIsOfOneCampaign
<1>1. /\ TP!ToSet(tp_data) = {tp_data[i] : i \in 1 .. Len(tp_data)}
      /\ TP!ToSet(tp_model) = {tp_model[i] : i \in 1 .. Len(tp_model)}
  BY DEF TtftIInv, TtftTypes, TP!ToSet
<1> QED
  BY <1>1 DEF TtftIInv, TtftLabelled, TtftOneCampaign, TtftRightLabel, TP!ModelIsOfOneCampaign

-----------------------------------------------------------------------------
(* The coefficients of the TTFT predictor (CoefficientFile).               *)

(* A set of naturals has a least element.                                  *)
LEMMA CoeffNatMinimum == ASSUME NEW T \in SUBSET Nat, T # {} PROVE \E x \in T : \A y \in T : x <= y
<1> DEFINE R == OpToRel(<, Nat)
<1>1. \A x, y \in Nat : <<x, y>> \in R <=> x < y
  BY DEF OpToRel
<1>2. \E x \in T : \A y \in T : ~(<<y, x>> \in R)
  BY NatLessThanWellFounded, WFMin
<1> HIDE DEF R
<1>3. PICK x \in T : \A y \in T : ~(<<y, x>> \in R)
  BY <1>2
<1>4. ASSUME NEW y \in T PROVE x <= y
  <2>1. ~(<<y, x>> \in R) /\ x \in Nat /\ y \in Nat
    BY <1>3
  <2> QED
    BY <1>1, <2>1
<1> QED
  BY <1>4

(* The larger and the smaller of two numbers.                              *)
LEMMA CoeffLargerSmaller ==
  ASSUME NEW a \in Int, NEW b \in Int
  PROVE  /\ CF!Max({a, b}) = IF a >= b THEN a ELSE b
         /\ CF!Min({a, b}) = IF a <= b THEN a ELSE b
BY DEF CF!Max, CF!Min

(* Lines of one fit, for batch sizes there are samples of.                 *)
CoeffOneFit(f) ==
  /\ DOMAIN f \subseteq cf_BatchSizes /\ f = [k \in DOMAIN f |-> f[k]]
  /\ \A j, k \in DOMAIN f : f[j] = f[k]

(* The lines in memory, in writing and in the file are of one fit each.    *)
CoeffSavedOfOneFit ==
  /\ CoeffOneFit(cf_lines) /\ CoeffOneFit(cf_writing) /\ CoeffOneFit(cf_file.lines)
  /\ cf_file.is = "whole" => DOMAIN cf_file.lines # {}

(* The inductive invariant of the coefficients.                            *)
CoeffIInv == CoeffSavedOfOneFit /\ CF!PredictionsAreOfOneFit

(* The coefficients' invariant holds at first.                             *)
LEMMA CoeffInitIInv == ASSUME CF!ConstantsAssumption, CF!Init PROVE CoeffIInv
BY DEF CF!Init, CoeffIInv, CoeffSavedOfOneFit, CoeffOneFit, CF!NoLines, CF!PredictionsAreOfOneFit

(* The line that is used is one of the file, and a batch size that has a   *)
(* line gets its own.                                                      *)
LEMMA CoeffNearestOK ==
  ASSUME CF!ConstantsAssumption, CoeffIInv, CF!Readable, NEW b \in cf_Asked
  PROVE  /\ CF!Nearest(b) \in DOMAIN cf_file.lines
         /\ b \in DOMAIN cf_file.lines => CF!Nearest(b) = b
<1> DEFINE D == DOMAIN cf_file.lines
           Far == {CF!Distance(k, b) : k \in D}
           N == {k \in D : \A j \in D : CF!Distance(k, b) <= CF!Distance(j, b)}
<1>1. D \subseteq Nat /\ D # {} /\ b \in Int
  BY DEF CoeffIInv, CoeffSavedOfOneFit, CoeffOneFit, CF!Readable, CF!ConstantsAssumption
<1>2. \A k \in D : CF!Distance(k, b) = (IF k >= b THEN k - b ELSE b - k) /\ CF!Distance(k, b) \in Nat
  BY <1>1, CoeffLargerSmaller DEF CF!Distance
<1>3. PICK d \in Far : \A e \in Far : d <= e
  <2>1. Far \in SUBSET Nat /\ Far # {}
    BY <1>1, <1>2
  <2> QED
    BY <2>1, CoeffNatMinimum
<1>4. PICK k \in D : CF!Distance(k, b) = d
  OBVIOUS
<1>5. N \in SUBSET Nat /\ N # {}
  BY <1>1, <1>3, <1>4
<1>6. PICK m \in N : \A n \in N : m <= n
  BY <1>5, CoeffNatMinimum
<1>7. CF!Nearest(b) = CF!Min(N)
  BY DEF CF!Nearest
<1>8. CF!Min(N) \in N
  BY <1>6 DEF CF!Min
<1>9. b \in D => N = {b}
  <2>1. ASSUME b \in D, NEW j \in D PROVE CF!Distance(b, b) = 0 /\ CF!Distance(j, b) >= 0
                                          /\ (CF!Distance(j, b) <= 0 => j = b)
    BY <1>1, <1>2, <2>1
  <2> QED
    BY <2>1
<1> QED
  BY <1>7, <1>8, <1>9

(* The tokens of a breakdown, and that every one is counted once.          *)
CoeffHitOf(total, knowledge) == CF!Min({CF!Aligned(CF!Max({0, knowledge})), CF!Max({0, total})})
CoeffComputeOf(total, knowledge) == CF!Max({1, CF!Max({0, total}) - CoeffHitOf(total, knowledge)})

(* The tokens of a request are those hit and those computed, and one at    *)
(* least is computed.                                                      *)
LEMMA CoeffBreakdownOK ==
  ASSUME CF!ConstantsAssumption, NEW total \in Int, NEW knowledge \in Int
  PROVE  /\ CoeffHitOf(total, knowledge) <= CF!Max({0, knowledge}) /\ CoeffHitOf(total, knowledge) <= CF!Max({0, total})
         /\ CoeffComputeOf(total, knowledge) >= 1
         /\ CoeffHitOf(total, knowledge) + CoeffComputeOf(total, knowledge)
              = CF!Max({CF!Max({0, total}), CoeffHitOf(total, knowledge) + 1})
<1> DEFINE hit == CoeffHitOf(total, knowledge)
           compute == CoeffComputeOf(total, knowledge)
<1> DEFINE k == CF!Max({0, knowledge})
           t == CF!Max({0, total})
<1>1. k \in Nat /\ t \in Nat
  BY CoeffLargerSmaller
<1> HIDE DEF k, t, hit, compute
<1>2. CF!Aligned(k) \in Nat /\ CF!Aligned(k) <= k
  BY <1>1 DEF CF!Aligned, CF!ConstantsAssumption
<1>3. hit = (IF CF!Aligned(k) <= t THEN CF!Aligned(k) ELSE t) /\ hit \in Nat /\ hit <= k /\ hit <= t
  <2>1. hit = CF!Min({CF!Aligned(k), t}) /\ CF!Aligned(k) \in Int /\ t \in Int
    BY <1>1, <1>2 DEF k, t, hit, CoeffHitOf
  <2>2. CF!Min({CF!Aligned(k), t}) = IF CF!Aligned(k) <= t THEN CF!Aligned(k) ELSE t
    BY <2>1, CoeffLargerSmaller
  <2> QED
    BY <1>1, <1>2, <2>1, <2>2
<1>4. compute = (IF 1 >= t - hit THEN 1 ELSE t - hit) /\ compute \in Nat
  <2> DEFINE rest == t - hit
  <2>1. compute = CF!Max({1, rest}) /\ rest \in Int
    BY <1>1, <1>3 DEF t, hit, compute, CoeffComputeOf
  <2> HIDE DEF rest
  <2>2. CF!Max({1, rest}) = IF 1 >= rest THEN 1 ELSE rest
    BY <2>1, CoeffLargerSmaller
  <2> QED
    BY <1>1, <1>3, <2>1, <2>2 DEF rest
<1>5. CF!Max({t, hit + 1}) = (IF t >= hit + 1 THEN t ELSE hit + 1)
  <2>1. t \in Int /\ hit + 1 \in Int
    BY <1>1, <1>3
  <2> QED
    BY <2>1, CoeffLargerSmaller
<1>6. hit <= k /\ hit <= t /\ compute >= 1 /\ hit + compute = CF!Max({t, hit + 1})
  BY <1>1, <1>3, <1>4, <1>5
<1> QED
  BY <1>6 DEF k, t, hit, compute

(* A breakdown is answered, if the files it reads are whole.               *)
LEMMA CoeffBreakdownIInv ==
  ASSUME CF!ConstantsAssumption, CoeffIInv, NEW total \in Int, NEW knowledge \in Int, CF!Breakdown(total, knowledge)
  PROVE  CoeffIInv'
<1> USE DEF CoeffIInv
<1>2. CoeffSavedOfOneFit'
  <2>1. UNCHANGED <<cf_lines, cf_writing, cf_file>>
    BY DEF CF!Breakdown
  <2> QED
    BY <2>1 DEF CoeffSavedOfOneFit, CoeffOneFit
<1>1. \/ cf_answer' = [kind |-> "raises"]
      \/ LET hit == CoeffHitOf(total, knowledge)
         IN  cf_answer' = [kind |-> "breakdown", total |-> total, knowledge |-> knowledge,
                           hit |-> hit, compute |-> CF!Max({1, CF!Max({0, total}) - hit})]
  BY Zenon DEF CF!Breakdown, CoeffHitOf
<1>3. CASE cf_answer' = [kind |-> "raises"]
  <2>1. cf_answer'.kind = "raises"
    BY <1>3
  <2> QED
    BY <1>2, <2>1 DEF CF!PredictionsAreOfOneFit
<1>4. CASE cf_answer' # [kind |-> "raises"]
  <2>1. /\ cf_answer'.kind = "breakdown" /\ cf_answer'.total = total /\ cf_answer'.knowledge = knowledge
        /\ cf_answer'.hit = CoeffHitOf(total, knowledge)
        /\ cf_answer'.compute = CF!Max({1, CF!Max({0, total}) - CoeffHitOf(total, knowledge)})
    BY <1>1, <1>4
  <2>2. CF!PredictionsAreOfOneFit'
    <3>1. cf_answer'.hit = CoeffHitOf(total, knowledge) /\ cf_answer'.compute = CoeffComputeOf(total, knowledge)
      BY <2>1 DEF CoeffComputeOf
    <3>2. /\ cf_answer'.hit <= CF!Max({0, knowledge}) /\ cf_answer'.hit <= CF!Max({0, total})
          /\ cf_answer'.compute >= 1
          /\ cf_answer'.hit + cf_answer'.compute = CF!Max({CF!Max({0, total}), cf_answer'.hit + 1})
      BY <3>1, CoeffBreakdownOK
    <3> QED
      BY <2>1, <3>2 DEF CF!PredictionsAreOfOneFit
  <2> QED
    BY <1>2, <2>2
<1> QED
  BY <1>3, <1>4

(* Every fit, save and prediction keeps it.                                *)
LEMMA CoeffNextIInv == ASSUME CF!ConstantsAssumption, CoeffIInv, [CF!Next]_CF!vars PROVE CoeffIInv'
<1> USE DEF CoeffIInv
<1>1. CASE \E b \in cf_BatchSizes : CF!AddSamples(b)
  BY <1>1 DEF CF!AddSamples, CoeffSavedOfOneFit, CoeffOneFit, CF!PredictionsAreOfOneFit
<1>2. CASE CF!Fit
  BY <1>2 DEF CF!Fit, CF!Grouped, CoeffSavedOfOneFit, CoeffOneFit, CF!PredictionsAreOfOneFit
<1>3. CASE CF!Truncate
  BY <1>3 DEF CF!Truncate, CF!NoLines, CoeffSavedOfOneFit, CoeffOneFit, CF!PredictionsAreOfOneFit
<1>4. CASE CF!Write
  <2>1. DOMAIN cf_writing # {}
    <3>1. SUFFICES ASSUME DOMAIN cf_writing = {} PROVE cf_writing = <<>>
      BY <1>4 DEF CF!Write, CF!NoLines
    <3>2. cf_writing = [k \in {} |-> cf_writing[k]]
      BY <3>1 DEF CoeffSavedOfOneFit, CoeffOneFit
    <3>3. [k \in {} |-> cf_writing[k]] = <<>>
      OBVIOUS
    <3> QED
      BY <3>2, <3>3
  <2> QED
    BY <1>4, <2>1 DEF CF!Write, CF!NoLines, CoeffSavedOfOneFit, CoeffOneFit, CF!PredictionsAreOfOneFit
<1>5. ASSUME NEW b \in cf_Asked, CF!PredictDecode(b) PROVE CoeffIInv'
  BY <1>5, CoeffNearestOK DEF CF!PredictDecode, CoeffSavedOfOneFit, CoeffOneFit, CF!PredictionsAreOfOneFit
<1>6. ASSUME NEW b \in cf_Asked, NEW range \in CF!LengthRange, CF!PredictPrefill(b, range) PROVE CoeffIInv'
  <2>1. cf_answer'.kind \in {"raises", "prefill"}
    <3>1. PICK ttftFile \in {"whole", "not whole"} :
            cf_answer' = IF b <= 0 \/ range = "none" \/ ttftFile # "whole" THEN [kind |-> "raises"]
                         ELSE [kind |-> "prefill", bs |-> b,
                               by |-> IF b # 1 \/ range = "long" THEN "model"
                                      ELSE IF range = "short" THEN "table" ELSE "larger of both"]
      BY <1>6 DEF CF!PredictPrefill
    <3> QED
      BY <3>1
  <2>2. CoeffSavedOfOneFit'
    <3>1. UNCHANGED <<cf_lines, cf_writing, cf_file>>
      BY <1>6 DEF CF!PredictPrefill
    <3> QED
      BY <3>1 DEF CoeffSavedOfOneFit, CoeffOneFit
  <2>3. CF!PredictionsAreOfOneFit'
    BY <2>1 DEF CF!PredictionsAreOfOneFit
  <2> QED
    BY <2>2, <2>3
<1>7. ASSUME NEW total \in -1 .. cf_MaxTokens, NEW knowledge \in -1 .. cf_MaxTokens,
             CF!Breakdown(total, knowledge)
      PROVE  CoeffIInv'
  <2>1. total \in Int /\ knowledge \in Int
    BY DEF CF!ConstantsAssumption
  <2> QED
    BY <1>7, <2>1, CoeffBreakdownIInv
<1>8. CASE UNCHANGED CF!vars
  BY <1>8 DEF CF!vars, CoeffSavedOfOneFit, CoeffOneFit, CF!PredictionsAreOfOneFit
<1> QED
  BY <1>1, <1>2, <1>3, <1>4, <1>5, <1>6, <1>7, <1>8 DEF CF!Next

(* The coefficients and the file keep their types: a line is of a fit that *)
(* was made, and what is being written is a file that is not whole.        *)
LEMMA CoeffInitTyped == ASSUME CF!ConstantsAssumption, CF!Init PROVE CF!TypeOK
<1>1. DOMAIN CF!NoLines = {}
  BY DEF CF!NoLines
<1> QED
  BY <1>1 DEF CF!ConstantsAssumption, CF!Init, CF!TypeOK

(* So does every step.                                                     *)
LEMMA CoeffNextTyped ==
  ASSUME CF!ConstantsAssumption, CoeffIInv, CF!TypeOK, [CF!Next]_CF!vars PROVE CF!TypeOK'
<1>1. ASSUME NEW b \in cf_BatchSizes, CF!AddSamples(b) PROVE CF!TypeOK'
  <2>1. PICK n \in 1 .. cf_MaxSamples - cf_samples[b] : cf_samples' = [cf_samples EXCEPT ![b] = @ + n]
    BY <1>1 DEF CF!AddSamples
  <2>2. cf_samples[b] + n \in 0 .. cf_MaxSamples
    BY DEF CF!TypeOK, CF!ConstantsAssumption
  <2>3. cf_samples' \in [cf_BatchSizes -> 0 .. cf_MaxSamples]
    BY <2>1, <2>2 DEF CF!TypeOK
  <2> QED
    BY <1>1, <2>3 DEF CF!AddSamples, CF!TypeOK
<1>2. CASE CF!Fit
  <2>1. /\ cf_fits \in Nat /\ cf_fits + 1 \in 0 .. cf_MaxFits /\ cf_fits + 1 \in 1 .. cf_fits + 1
        /\ cf_fits' = cf_fits + 1 /\ cf_lines' = [b \in CF!Grouped |-> cf_fits + 1]
        /\ CF!Grouped \subseteq cf_BatchSizes
    BY <1>2 DEF CF!Fit, CF!TypeOK, CF!ConstantsAssumption, CF!Grouped
  <2> QED
    BY <1>2, <2>1 DEF CF!Fit, CF!TypeOK
<1>3. CASE CF!Truncate
  <2>1. DOMAIN CF!NoLines = {}
    BY DEF CF!NoLines
  <2> QED
    BY <1>3, <2>1 DEF CF!Truncate, CF!TypeOK
<1>4. CASE CF!Write
  BY <1>4 DEF CF!Write, CF!TypeOK, CoeffIInv, CoeffSavedOfOneFit, CoeffOneFit
<1>5. ASSUME NEW b \in cf_Asked, CF!PredictDecode(b) PROVE CF!TypeOK'
  BY <1>5 DEF CF!PredictDecode, CF!TypeOK
<1>6. ASSUME NEW b \in cf_Asked, NEW range, CF!PredictPrefill(b, range) PROVE CF!TypeOK'
  <2>1. UNCHANGED <<cf_samples, cf_lines, cf_fits, cf_writing, cf_file>>
    BY <1>6 DEF CF!PredictPrefill
  <2>2. PICK ttftFile \in {"whole", "not whole"} :
          cf_answer' = IF b <= 0 \/ range = "none" \/ ttftFile # "whole" THEN [kind |-> "raises"]
                       ELSE [kind |-> "prefill", bs |-> b,
                             by |-> IF b # 1 \/ range = "long" THEN "model"
                                    ELSE IF range = "short" THEN "table" ELSE "larger of both"]
    BY <1>6 DEF CF!PredictPrefill
  <2>3. cf_answer'.kind \in {"raises", "prefill"}
    BY <2>2
  <2> QED
    BY <2>1, <2>3 DEF CF!TypeOK
<1>7. ASSUME NEW total, NEW knowledge, CF!Breakdown(total, knowledge) PROVE CF!TypeOK'
  <2>1. UNCHANGED <<cf_samples, cf_lines, cf_fits, cf_writing, cf_file>>
    BY <1>7 DEF CF!Breakdown
  <2>2. \/ cf_answer' = [kind |-> "raises"]
        \/ \E h, c : cf_answer' = [kind |-> "breakdown", total |-> total, knowledge |-> knowledge, hit |-> h, compute |-> c]
    BY <1>7, Zenon DEF CF!Breakdown
  <2>3. cf_answer'.kind \in {"raises", "breakdown"}
    BY <2>2
  <2> QED
    BY <2>1, <2>3 DEF CF!TypeOK
<1>8. CASE UNCHANGED CF!vars
  BY <1>8 DEF CF!vars, CF!TypeOK
<1> QED
  BY <1>1, <1>2, <1>3, <1>4, <1>5, <1>6, <1>7, <1>8 DEF CF!Next

-----------------------------------------------------------------------------
(* The TPOT benchmark (TpotBenchmark).                                     *)

(* The greatest and the least of two numbers, and of some.                 *)
LEMMA BenchMax ==
  /\ \A S : TB!IsFiniteSet(S) <=> IsFiniteSet(S)
  /\ \A a, b \in Int : TB!Max({a, b}) = IF a >= b THEN a ELSE b
  /\ \A a, b \in Int : TB!Min({a, b}) = IF a <= b THEN a ELSE b
  /\ \A S \in SUBSET Nat : S # {} => TB!Min(S) \in S /\ \A x \in S : TB!Min(S) <= x
  /\ \A S \in SUBSET Nat : S # {} /\ IsFiniteSet(S) => TB!Max(S) \in S /\ \A x \in S : x <= TB!Max(S)
<1>1. ASSUME NEW a \in Int, NEW b \in Int PROVE TB!Max({a, b}) = IF a >= b THEN a ELSE b
  BY DEF TB!Max
<1>2. ASSUME NEW a \in Int, NEW b \in Int PROVE TB!Min({a, b}) = IF a <= b THEN a ELSE b
  BY DEF TB!Min
<1>3. ASSUME NEW S \in SUBSET Nat, S # {} PROVE TB!Min(S) \in S /\ \A x \in S : TB!Min(S) <= x
  <2>1. \E x \in S : \A y \in S : x <= y
    BY <1>3, NatMinimum
  <2> QED
    BY <2>1 DEF TB!Min
<1>4. ASSUME NEW S \in SUBSET Nat, S # {}, IsFiniteSet(S) PROVE TB!Max(S) \in S /\ \A x \in S : x <= TB!Max(S)
  <2> DEFINE f == [x \in S |-> x]
  <2>1. \A x \in S : f[x] \in Int
    OBVIOUS
  <2>2. \E x \in S : \A y \in S : f[y] <= f[x]
    <3> HIDE DEF f
    <3> QED
      BY <1>4, <2>1, GreatestExists
  <2>3. \E x \in S : \A y \in S : x >= y
    BY <2>2
  <2> QED
    BY <2>3 DEF TB!Max
<1>5. \A S : TB!IsFiniteSet(S) <=> IsFiniteSet(S)
  BY DEF TB!IsFiniteSet, IsFiniteSet
<1> QED
  BY <1>1, <1>2, <1>3, <1>4, <1>5

(* The lengths an answer of w tokens to a prompt of length r measures.     *)
BenchWindow(r, w) == r .. r + w - 1

(* What a prompt of a planned length measures of what can be reached.      *)
LEMMA BenchReachable ==
  ASSUME TB!ConstantsAssumption, NEW s \in 1 .. tb_Longest
  PROVE  /\ TB!Reachable(s) \in 1 .. tb_Longest + tb_Offset
         /\ \A w \in Nat, l \in Nat : l > tb_Offset /\ s <= l /\ l <= s + w - 1
              => l \in BenchWindow(TB!Reachable(s), w)
<1>1. tb_Longest \in Nat /\ tb_Offset \in Nat
  BY DEF TB!ConstantsAssumption
<1>2. TB!Reachable(s) = IF s - tb_Offset >= 1 THEN s ELSE 1 + tb_Offset
  <2>1. TB!Max({1, s - tb_Offset}) = IF 1 >= s - tb_Offset THEN 1 ELSE s - tb_Offset
    BY <1>1, BenchMax
  <2> QED
    BY <1>1, <2>1 DEF TB!Reachable
<1> QED
  BY <1>1, <1>2 DEF BenchWindow

(* The lengths that a set of planned starts measures.                      *)
BenchMeasures(starts, w) == UNION {BenchWindow(TB!Reachable(s), w) : s \in starts}

(* The windows of a range overlap: they leave out less than a step.        *)
LEMMA BenchRange ==
  ASSUME TB!ConstantsAssumption, NEW lo \in TB!Length, NEW hi \in TB!Length, lo <= hi, NEW w \in tb_Tokens
  PROVE  LET P == TB!RangeStarts(lo, hi, w)
         IN  /\ P \subseteq 1 .. tb_Longest /\ P # {}
             /\ \A l \in lo .. hi : l > tb_Offset /\ l <= hi - TB!Max({1, w \div 2}) + 1
                                      => l \in BenchMeasures(P, w)
<1> DEFINE P == TB!RangeStarts(lo, hi, w)
           last == TB!Max({lo, hi - w + 1})
           step == TB!Max({1, w \div 2})
           n == TB!Max({1, (last - lo + step) \div step})
<1>1. /\ w \in Nat \ {0} /\ lo \in 1 .. tb_Longest /\ hi \in 1 .. tb_Longest
      /\ tb_Longest \in Nat /\ tb_Offset \in Nat
  BY DEF TB!ConstantsAssumption, TB!Length
<1>2. step \in 1 .. w
  <2>1. w \div 2 \in Nat /\ w \div 2 <= w
    BY <1>1
  <2> QED
    BY <1>1, <2>1, BenchMax
<1>3. last \in lo .. hi /\ last >= hi - w + 1
  BY <1>1, BenchMax
<1> HIDE DEF last, step
<1>4. last - lo + step \in Nat /\ step \in Nat \ {0}
  BY <1>1, <1>2, <1>3
<1>5. PICK q \in Nat, r \in 0 .. step - 1 : last - lo + step = q * step + r /\ q = (last - lo + step) \div step
  BY <1>4, Division
<1>6. n = IF q >= 1 THEN q ELSE 1
  <2>1. n = TB!Max({1, q})
    BY <1>5
  <2> HIDE DEF n
  <2> QED
    BY <1>5, <2>1, BenchMax
<1>7. P = {lo + i * step : i \in 0 .. n - 1}
  BY DEF TB!RangeStarts, last, step
<1> HIDE DEF n, P
<1>8. n \in Nat \ {0} /\ (n - 1) * step <= last - lo /\ n * step > last - lo
  <2>1. CASE q >= 1
    <3>1. n = q /\ (n - 1) * step = q * step - step
      BY <1>4, <1>5, <1>6, <2>1
    <3> DEFINE x == q * step
    <3>2. x \in Nat /\ last - lo + step = x + r
      BY <1>4, <1>5
    <3> HIDE DEF x
    <3>3. x - step <= last - lo /\ x > last - lo
      BY <1>1, <1>2, <1>3, <1>5, <3>2
    <3> QED
      BY <1>5, <2>1, <3>1, <3>3 DEF x
  <2>2. CASE q = 0
    BY <1>1, <1>2, <1>3, <1>4, <1>5, <1>6, <2>2
  <2> QED
    BY <1>5, <2>1, <2>2
<1>9. ASSUME NEW i \in 0 .. n - 1 PROVE lo + i * step \in lo .. last
  <2>1. i * step <= (n - 1) * step /\ i * step \in Nat
    BY <1>4, <1>8, TimesKeeps
  <2> DEFINE x == i * step
             y == (n - 1) * step
  <2>2. y \in Int
    BY <1>4, <1>8
  <2> HIDE DEF x, y
  <2>3. x \in 0 .. last - lo
    BY <1>1, <1>3, <1>8, <2>1, <2>2 DEF x, y
  <2>4. lo + x \in lo .. last
    BY <1>1, <1>3, <2>3
  <2> QED
    BY <2>4 DEF x
<1>10. P \subseteq 1 .. tb_Longest /\ P # {}
  <2>1. lo .. last \subseteq 1 .. tb_Longest
    BY <1>1, <1>3
  <2>2. 0 \in 0 .. n - 1
    BY <1>8
  <2> QED
    BY <1>7, <1>9, <2>1, <2>2
<1>11. ASSUME NEW l \in lo .. hi, l > tb_Offset, l <= hi - step + 1 PROVE l \in BenchMeasures(P, w)
  <2>1. l - lo \in Nat
    BY <1>1
  <2>2. PICK j \in Nat, t \in 0 .. step - 1 : l - lo = j * step + t
    BY <1>4, <2>1, Division
  <2>3. \E i \in 0 .. n - 1 : lo + i * step <= l /\ l <= lo + i * step + w - 1
    <3>1. CASE j <= n - 1
      <4> DEFINE x == j * step
      <4>1. x \in Nat /\ l - lo = x + t
        BY <1>4, <2>2
      <4> HIDE DEF x
      <4>2. lo + x <= l /\ l <= lo + x + w - 1
        BY <1>1, <1>2, <2>2, <4>1
      <4> QED
        BY <1>8, <3>1, <4>2 DEF x
    <3>2. CASE j >= n
      <4> DEFINE x == (n - 1) * step
                 y == n * step
                 z == j * step
      <4>1. x \in Int /\ y \in Int /\ z \in Int /\ y = x + step /\ z >= y
        <5>1. y = x + step
          BY <1>4, <1>8
        <5>2. z >= y
          BY <1>4, <1>8, <3>2, TimesKeeps
        <5> QED
          BY <1>4, <1>8, <5>1, <5>2
      <4>2. l - lo = z + t /\ y > last - lo
        BY <1>8, <2>2
      <4> HIDE DEF x, y, z
      <4>3. lo + x <= l /\ l <= lo + x + w - 1
        BY <1>1, <1>2, <1>3, <1>11, <2>2, <4>1, <4>2
      <4>4. n - 1 \in 0 .. n - 1
        BY <1>8
      <4> QED
        BY <4>3, <4>4 DEF x
    <3> QED
      BY <1>8, <2>2, <3>1, <3>2
  <2>4. PICK s \in P : s <= l /\ l <= s + w - 1
    BY <1>7, <2>3
  <2>5. s \in 1 .. tb_Longest /\ l \in Nat /\ w \in Nat
    BY <1>1, <1>10
  <2>6. l \in BenchWindow(TB!Reachable(s), w)
    BY <1>11, <2>4, <2>5, BenchReachable
  <2> QED
    BY <2>6 DEF BenchMeasures
<1> QED
  BY <1>10, <1>11 DEF P, step

(* The windows of a continuous collection leave nothing out.               *)
LEMMA BenchContinuous ==
  ASSUME TB!ConstantsAssumption, NEW lo \in TB!Length, NEW hi \in TB!Length, lo <= hi,
         NEW w \in tb_Tokens, NEW overlap \in tb_Overlaps, NEW first \in TB!Length
  PROVE  LET P == TB!ContinuousStarts(lo, hi, w, overlap, first)
         IN  /\ P \subseteq 1 .. tb_Longest
             /\ \A l \in lo .. hi : l > tb_Offset => l \in BenchMeasures(P, w)
<1> DEFINE P == TB!ContinuousStarts(lo, hi, w, overlap, first)
           from == TB!Min({lo, first})
           d == TB!Stride(w, overlap)
<1>1. /\ w \in Nat \ {0} /\ lo \in 1 .. tb_Longest /\ hi \in 1 .. tb_Longest
      /\ tb_Longest \in Nat /\ tb_Offset \in Nat /\ overlap \in Nat /\ first \in 1 .. tb_Longest
  BY DEF TB!ConstantsAssumption, TB!Length
<1>2. d \in 1 .. w
  <2>1. TB!Max({1, w - overlap}) = IF 1 >= w - overlap THEN 1 ELSE w - overlap
    BY <1>1, BenchMax
  <2> QED
    BY <1>1, <2>1 DEF TB!Stride
<1>3. from \in 1 .. lo
  BY <1>1, BenchMax
<1>4. P = {s \in {first, lo} \cup {s \in from .. hi : (s - from) % d = 0} : s <= hi /\ s + w - 1 >= lo}
  BY DEF TB!ContinuousStarts
<1> HIDE DEF from, d, P
<1>5. P \subseteq 1 .. tb_Longest
  BY <1>1, <1>3, <1>4
<1>6. ASSUME NEW l \in lo .. hi, l > tb_Offset PROVE l \in BenchMeasures(P, w)
  <2>1. l - from \in Nat /\ d \in Nat \ {0}
    BY <1>1, <1>2, <1>3
  <2>2. PICK q \in Nat, r \in 0 .. d - 1 : l - from = q * d + r
    BY <2>1, Division
  <2> DEFINE s == from + q * d
  <2>3. q * d \in Nat
    BY <2>1, <2>2
  <2>4. s \in from .. hi /\ s <= l /\ l <= s + w - 1 /\ s - from = q * d + 0
    <3> DEFINE x == q * d
    <3>1. x \in Nat /\ l - from = x + r
      BY <2>2, <2>3
    <3>0. s = from + x
      OBVIOUS
    <3> HIDE DEF x, s
    <3>2. s \in from .. hi /\ s <= l /\ l <= s + w - 1
      BY <1>1, <1>2, <1>3, <2>2, <3>0, <3>1
    <3>3. s - from = x + 0
      BY <1>3, <3>0, <3>1
    <3> QED
      BY <3>2, <3>3, Zenon DEF x
  <2>5. (s - from) % d = 0
    <3>1. s - from \in Nat
      BY <2>3, <2>4
    <3> DEFINE y == s - from
    <3>2. y = q * d + 0 /\ 0 \in Nat /\ 0 < d
      BY <2>1, <2>4
    <3> HIDE DEF s, y
    <3>3. y % d = 0
      BY <2>1, <2>2, <3>1, <3>2, Remainder DEF y
    <3> QED
      BY <3>3 DEF y
  <2> HIDE DEF s
  <2>6. s \in P
    BY <1>1, <1>3, <1>4, <2>4, <2>5
  <2>7. l \in BenchWindow(TB!Reachable(s), w)
    BY <1>1, <1>5, <1>6, <2>4, <2>6, BenchReachable
  <2> QED
    BY <2>6, <2>7 DEF BenchMeasures
<1> QED
  BY <1>5, <1>6 DEF P

(* What a collection promises of the lengths that are measured.            *)
BenchCovers(j, D) ==
  /\ j.kind = "continuous" => \A l \in j.lo .. j.hi : l > tb_Offset => l \in D
  /\ j.kind = "range" => \A l \in j.lo .. j.hi :
       l > tb_Offset /\ l <= j.hi - TB!Max({1, j.w \div 2}) + 1 => l \in D
  /\ (\E l \in j.lo .. j.hi : l > tb_Offset) => D # {}

(* A curve that is as dense as planned.                                    *)
BenchReach(c) == {l \in DOMAIN c : l > tb_Offset}
BenchMissing(c) == {l \in BenchReach(c) : c[l] # "observed"}
BenchDense(j, c) ==
  /\ j.kind = "continuous" => BenchMissing(c) = {}
  /\ j.kind = "range" => BenchMissing(c) \subseteq j.hi - TB!Max({1, j.w \div 2}) + 2 .. j.hi
  /\ BenchReach(c) # {} => "fitted" \notin {c[l] : l \in DOMAIN c}

(* What was measured, and what the prompts that are left will measure.     *)
BenchCover(j, m, left) == m[j.scenario] \cup UNION {BenchWindow(r, j.w) : r \in left}
(* The lengths that are still to be measured.                              *)
BenchLeft == tb_todo \cup ({tb_start} \ {0})

(* The types of the TPOT benchmark.                                        *)
BenchTypes ==
  /\ tb_phase \in {"idle", "measuring", "ended"} /\ tb_load \in {"off", "on"}
  /\ tb_job \in [kind : {"range", "continuous"}, scenario : TB!Scenario, lo : TB!Length,
                 hi : TB!Length, w : tb_Tokens \cup {1}]
  /\ tb_start \in 0 .. tb_Longest + tb_Offset /\ tb_todo \subseteq 1 .. tb_Longest + tb_Offset
  /\ \A s \in tb_todo : s > tb_start
  /\ tb_measured \in [TB!Scenario -> SUBSET (1 .. 2 * tb_Longest + tb_Offset + TB!Max(tb_Tokens))]
  /\ tb_prefills \in 0 .. tb_PrefillLoad /\ tb_model \subseteq TB!Scenario
  /\ DOMAIN tb_curve \in {{}, tb_job.lo .. tb_job.hi}
  /\ tb_exact \in BOOLEAN /\ tb_disturbed \in BOOLEAN
  /\ tb_collections \in 0 .. tb_MaxCollections /\ tb_faults \in 0 .. tb_MaxFaults

(* A collection has a curve when it is over, and measures until then.      *)
BenchPhases ==
  /\ tb_phase # "idle" => tb_curve = <<>> /\ tb_job.w \in tb_Tokens
  /\ tb_phase # "measuring" => tb_start = 0 /\ tb_todo = {}

(* The background load is there for as long as its collection measures.    *)
BenchLoads ==
  /\ tb_load = "off" => tb_prefills = 0
  /\ tb_load = "on" => tb_phase = "measuring" /\ tb_job.scenario = "with_prefill_load"
  /\ tb_start # 0 /\ tb_job.scenario = "baseline" => ~tb_disturbed

(* Nothing is left out that was planned.                                   *)
BenchCovered ==
  /\ tb_phase # "idle" /\ tb_exact => BenchCovers(tb_job, BenchCover(tb_job, tb_measured, BenchLeft))
  /\ tb_phase = "idle" /\ tb_exact /\ tb_curve # <<>> => BenchDense(tb_job, tb_curve)

(* The inductive invariant of the TPOT benchmark.                          *)
BenchIInv == BenchTypes /\ BenchPhases /\ BenchLoads /\ BenchCovered

(* A sequence without elements has no index.                               *)
LEMMA BenchNothing == DOMAIN <<>> = {}
OBVIOUS

(* The benchmark's invariant holds at first.                               *)
LEMMA BenchInitIInv == ASSUME TB!ConstantsAssumption, TB!Init PROVE BenchIInv
<1>1. /\ tb_job.kind = "range" /\ tb_job.scenario = "baseline" /\ tb_job.lo = 1 /\ tb_job.hi = 1 /\ tb_job.w = 1
      /\ tb_phase = "idle" /\ tb_curve = <<>> /\ tb_start = 0 /\ tb_todo = {} /\ tb_load = "off" /\ tb_prefills = 0
  BY DEF TB!Init, TB!NoJob
<1>2. tb_job \in [kind : {"range", "continuous"}, scenario : TB!Scenario, lo : TB!Length,
                  hi : TB!Length, w : tb_Tokens \cup {1}]
  BY DEF TB!Init, TB!NoJob, TB!Scenario, TB!Length, TB!ConstantsAssumption
<1>3. BenchTypes
  <2>1. /\ 0 \in 0 .. tb_Longest + tb_Offset /\ 0 \in 0 .. tb_PrefillLoad /\ 0 \in 0 .. tb_MaxCollections
        /\ 0 \in 0 .. tb_MaxFaults
    BY DEF TB!ConstantsAssumption
  <2>2. tb_measured \in [TB!Scenario -> SUBSET (1 .. 2 * tb_Longest + tb_Offset + TB!Max(tb_Tokens))]
    BY DEF TB!Init
  <2>3. /\ tb_exact \in BOOLEAN /\ tb_disturbed \in BOOLEAN /\ tb_model \subseteq TB!Scenario
        /\ tb_collections = 0 /\ tb_faults = 0
    BY DEF TB!Init
  <2> QED
    BY <1>1, <1>2, <2>1, <2>2, <2>3, BenchNothing DEF BenchTypes
<1> QED
  BY <1>1, <1>3 DEF BenchIInv, BenchPhases, BenchLoads, BenchCovered

(* What is known of the constants and of the job.                          *)
LEMMA BenchFacts ==
  ASSUME TB!ConstantsAssumption, BenchIInv
  PROVE  /\ tb_Longest \in Nat \ {0} /\ tb_Offset \in Nat /\ tb_PrefillLoad \in Nat \ {0}
         /\ tb_MaxFaults \in Nat /\ tb_MaxCollections \in Nat
         /\ tb_job.scenario \in TB!Scenario /\ tb_job.lo \in TB!Length /\ tb_job.hi \in TB!Length
         /\ \A w \in tb_Tokens : w \in Nat \ {0} /\ w <= TB!Max(tb_Tokens) /\ TB!Max(tb_Tokens) \in Nat
         /\ BenchTypes /\ BenchPhases /\ BenchLoads /\ BenchCovered
<1>1. \A w \in tb_Tokens : w \in Nat \ {0} /\ w <= TB!Max(tb_Tokens) /\ TB!Max(tb_Tokens) \in Nat
  <2>1. tb_Tokens \in SUBSET Nat /\ IsFiniteSet(tb_Tokens) /\ 0 \notin tb_Tokens
    BY BenchMax DEF TB!ConstantsAssumption
  <2> QED
    BY <2>1, BenchMax
<1> QED
  BY <1>1 DEF TB!ConstantsAssumption, BenchIInv, BenchTypes

(* A collection begins.                                                    *)
LEMMA BenchBeginOK ==
  ASSUME TB!ConstantsAssumption, BenchIInv, NEW kind \in {"range", "continuous"},
         NEW scenario \in TB!Scenario, NEW lo \in TB!Length, NEW hi \in TB!Length, NEW w \in tb_Tokens,
         NEW starts \in SUBSET (1 .. tb_Longest), TB!Begin(kind, scenario, lo, hi, w, starts),
         BenchCovers([kind |-> kind, scenario |-> scenario, lo |-> lo, hi |-> hi, w |-> w],
                     BenchMeasures(starts, w))
  PROVE  BenchIInv'
<1> DEFINE j == [kind |-> kind, scenario |-> scenario, lo |-> lo, hi |-> hi, w |-> w]
<1>1. /\ tb_phase = "idle" /\ tb_collections' \in 0 .. tb_MaxCollections /\ tb_phase' = "measuring"
      /\ tb_curve' = <<>> /\ tb_exact' = TRUE /\ tb_job' = j /\ tb_start' = 0 /\ tb_disturbed' = FALSE
      /\ tb_todo' = {TB!Reachable(s) : s \in starts} /\ tb_measured' = [sc \in TB!Scenario |-> {}]
      /\ tb_load' = IF scenario = "with_prefill_load" THEN "on" ELSE tb_load
      /\ UNCHANGED <<tb_prefills, tb_model, tb_faults>>
  BY BenchFacts DEF TB!Begin, BenchTypes
<1>2. j.kind = kind /\ j.scenario = scenario /\ j.lo = lo /\ j.hi = hi /\ j.w = w
  OBVIOUS
<1>3. j \in [kind : {"range", "continuous"}, scenario : TB!Scenario, lo : TB!Length,
             hi : TB!Length, w : tb_Tokens \cup {1}]
  OBVIOUS
<1>4. BenchCovers(j, BenchMeasures(starts, w))
  OBVIOUS
<1> HIDE DEF j
<1>5. tb_todo' \subseteq 1 .. tb_Longest + tb_Offset
  BY <1>1, BenchReachable
<1>6. BenchTypes'
  <2>1. DOMAIN tb_curve' = {}
    BY <1>1, BenchNothing
  <2>2. \A s \in tb_todo' : s > 0
    BY <1>5, BenchFacts
  <2>3. tb_measured' \in [TB!Scenario -> SUBSET (1 .. 2 * tb_Longest + tb_Offset + TB!Max(tb_Tokens))]
    BY <1>1
  <2>4. 0 \in 0 .. tb_Longest + tb_Offset
    BY BenchFacts
  <2> QED
    BY <1>1, <1>3, <1>5, <2>1, <2>2, <2>3, <2>4, BenchFacts DEF BenchTypes
<1>7. BenchPhases' /\ BenchLoads'
  BY <1>1, <1>2, BenchFacts DEF BenchPhases, BenchLoads
<1>8. BenchCovered'
  <2>1. BenchLeft' = tb_todo'
    BY <1>1 DEF BenchLeft
  <2>2. tb_measured'[j.scenario] = {}
    BY <1>1, <1>2
  <2>3. UNION {BenchWindow(r, w) : r \in tb_todo'} = BenchMeasures(starts, w)
    BY <1>1 DEF BenchMeasures
  <2>4. BenchCover(j, tb_measured', tb_todo') = BenchMeasures(starts, w)
    BY <1>2, <2>2, <2>3 DEF BenchCover
  <2> QED
    BY <1>1, <1>4, <2>1, <2>4 DEF BenchCovered
<1> QED
  BY <1>6, <1>7, <1>8 DEF BenchIInv

(* A collection of a range, or a continuous one, begins.                   *)
LEMMA BenchCollectOK ==
  ASSUME TB!ConstantsAssumption, BenchIInv, TB!CollectRange \/ TB!CollectContinuous
  PROVE  BenchIInv'
<1>1. CASE TB!CollectRange
  <2>1. PICK scenario \in TB!Scenario, lo \in TB!Length, hi \in TB!Length, w \in tb_Tokens :
          lo <= hi /\ TB!Begin("range", scenario, lo, hi, w, TB!RangeStarts(lo, hi, w))
    BY <1>1 DEF TB!CollectRange
  <2> DEFINE P == TB!RangeStarts(lo, hi, w)
             j == [kind |-> "range", scenario |-> scenario, lo |-> lo, hi |-> hi, w |-> w]
  <2>2. /\ P \subseteq 1 .. tb_Longest /\ P # {}
        /\ \A l \in lo .. hi : l > tb_Offset /\ l <= hi - TB!Max({1, w \div 2}) + 1 => l \in BenchMeasures(P, w)
    BY <2>1, BenchRange
  <2>3. TB!Begin("range", scenario, lo, hi, w, P)
    BY <2>1
  <2> HIDE DEF P
  <2>4. BenchMeasures(P, w) # {}
    <3>1. PICK s \in P : TRUE
      BY <2>2
    <3>2. TB!Reachable(s) \in BenchWindow(TB!Reachable(s), w)
      BY <2>2, <3>1, BenchReachable, BenchFacts DEF BenchWindow
    <3> QED
      BY <3>1, <3>2 DEF BenchMeasures
  <2>5. j.kind = "range" /\ j.lo = lo /\ j.hi = hi /\ j.w = w
    OBVIOUS
  <2>6. BenchCovers(j, BenchMeasures(P, w))
    <3> HIDE DEF j
    <3> QED
      BY <2>2, <2>4, <2>5 DEF BenchCovers
  <2> QED
    BY <2>2, <2>3, <2>6, BenchBeginOK
<1>2. CASE TB!CollectContinuous
  <2>1. PICK scenario \in TB!Scenario, lo \in TB!Length, hi \in TB!Length, first \in TB!Length,
             w \in tb_Tokens, overlap \in tb_Overlaps :
          lo <= hi /\ TB!Begin("continuous", scenario, lo, hi, w, TB!ContinuousStarts(lo, hi, w, overlap, first))
    BY <1>2 DEF TB!CollectContinuous
  <2> DEFINE P == TB!ContinuousStarts(lo, hi, w, overlap, first)
             j == [kind |-> "continuous", scenario |-> scenario, lo |-> lo, hi |-> hi, w |-> w]
  <2>2. /\ P \subseteq 1 .. tb_Longest
        /\ \A l \in lo .. hi : l > tb_Offset => l \in BenchMeasures(P, w)
    BY <2>1, BenchContinuous
  <2>3. TB!Begin("continuous", scenario, lo, hi, w, P)
    BY <2>1
  <2>5. j.kind = "continuous" /\ j.lo = lo /\ j.hi = hi /\ j.w = w
    OBVIOUS
  <2> HIDE DEF P
  <2>6. BenchCovers(j, BenchMeasures(P, w))
    <3> HIDE DEF j
    <3> QED
      BY <2>2, <2>5 DEF BenchCovers
  <2> QED
    BY <2>2, <2>3, <2>6, BenchBeginOK
<1> QED
  BY <1>1, <1>2

(* The next prompt is sent.                                                *)
LEMMA BenchSendOK == ASSUME TB!ConstantsAssumption, BenchIInv, TB!Send PROVE BenchIInv'
<1> DEFINE m == TB!Min(tb_todo)
<1>1. /\ tb_phase = "measuring" /\ tb_start = 0 /\ tb_todo # {} /\ tb_start' = m /\ tb_todo' = tb_todo \ {m}
      /\ tb_disturbed' = (tb_prefills > 0)
      /\ UNCHANGED <<tb_phase, tb_job, tb_measured, tb_exact, tb_load, tb_prefills, tb_model, tb_curve,
                     tb_collections, tb_faults>>
  BY DEF TB!Send
<1>2. m \in tb_todo /\ \A x \in tb_todo : m <= x
  <2>1. tb_todo \in SUBSET Nat
    BY BenchFacts DEF BenchTypes
  <2> QED
    BY <1>1, <2>1, BenchMax
<1> HIDE DEF m
<1>3. m \in 1 .. tb_Longest + tb_Offset
  BY <1>2, BenchFacts DEF BenchTypes
<1>4. BenchTypes'
  <2>1. \A s \in tb_todo' : s > m
    BY <1>1, <1>2, <1>3, BenchFacts DEF BenchTypes
  <2>2. tb_disturbed' \in BOOLEAN
    BY <1>1
  <2>3. m \in 0 .. tb_Longest + tb_Offset
    BY <1>3, BenchFacts
  <2> QED
    BY <1>1, <2>1, <2>2, <2>3, BenchFacts DEF BenchTypes
<1>5. BenchPhases' /\ BenchLoads'
  <2>1. tb_job.scenario = "baseline" => tb_prefills = 0
    BY BenchFacts DEF BenchLoads, BenchTypes
  <2>2. ~(0 > 0)
    OBVIOUS
  <2> QED
    BY <1>1, <2>1, <2>2, BenchFacts DEF BenchPhases, BenchLoads
<1>6. BenchCovered'
  <2>1. BenchLeft' = BenchLeft
    BY <1>1, <1>2, <1>3, BenchFacts DEF BenchLeft, BenchTypes
  <2> QED
    BY <1>1, <2>1, BenchFacts DEF BenchCovered
<1> QED
  BY <1>4, <1>5, <1>6 DEF BenchIInv

(* An answer is measured, whole or in part.                                *)
LEMMA BenchAnswerOK ==
  ASSUME TB!ConstantsAssumption, BenchIInv, TB!Answer \/ TB!AnswerPartly PROVE BenchIInv'
<1>1. /\ tb_start # 0 /\ tb_start' = 0
      /\ UNCHANGED <<tb_phase, tb_job, tb_todo, tb_load, tb_prefills, tb_disturbed, tb_model, tb_curve, tb_collections>>
      /\ tb_faults' \in 0 .. tb_MaxFaults /\ tb_exact' \in BOOLEAN
  <2>1. tb_faults \in 0 .. tb_MaxFaults /\ tb_exact \in BOOLEAN /\ tb_MaxFaults \in Nat
    BY BenchFacts DEF BenchTypes
  <2>2. CASE TB!Answer
    BY <2>1, <2>2 DEF TB!Answer
  <2>3. CASE TB!AnswerPartly
    <3>1. tb_faults < tb_MaxFaults /\ tb_faults' = tb_faults + 1 /\ tb_exact' = FALSE
      BY <2>3 DEF TB!AnswerPartly
    <3>2. tb_faults' \in 0 .. tb_MaxFaults
      BY <2>1, <3>1
    <3>3. tb_exact' \in BOOLEAN
      BY <3>1, Zenon
    <3> QED
      BY <2>3, <3>2, <3>3 DEF TB!AnswerPartly
  <2> QED
    BY <2>2, <2>3
<1>2. /\ tb_start \in 1 .. tb_Longest + tb_Offset /\ tb_Longest \in Nat /\ tb_Offset \in Nat
  BY <1>1, BenchFacts DEF BenchTypes
<1>3. /\ tb_phase = "measuring" /\ tb_job.w \in tb_Tokens /\ tb_job.w \in Nat \ {0}
      /\ tb_job.w <= TB!Max(tb_Tokens) /\ TB!Max(tb_Tokens) \in Nat
  BY <1>1, BenchFacts DEF BenchPhases
<1>4. tb_measured' \in [TB!Scenario -> SUBSET (1 .. 2 * tb_Longest + tb_Offset + TB!Max(tb_Tokens))]
  <2>1. tb_measured \in [TB!Scenario -> SUBSET (1 .. 2 * tb_Longest + tb_Offset + TB!Max(tb_Tokens))]
    BY BenchFacts DEF BenchTypes
  <2>2. ASSUME NEW over \in {0, 1}, NEW n \in 0 .. tb_job.w
        PROVE  tb_start + over .. tb_start + over + n - 1 \subseteq 1 .. 2 * tb_Longest + tb_Offset + TB!Max(tb_Tokens)
    BY <1>2, <1>3
  <2>3. CASE TB!Answer
    <3>1. tb_start .. tb_start + tb_job.w - 1 \subseteq 1 .. 2 * tb_Longest + tb_Offset + TB!Max(tb_Tokens)
      BY <1>2, <1>3
    <3> DEFINE top == 2 * tb_Longest + tb_Offset + TB!Max(tb_Tokens)
               X == 1 .. top
               Y == tb_start .. tb_start + tb_job.w - 1
    <3>2. tb_measured' = [tb_measured EXCEPT ![tb_job.scenario] = @ \cup Y]
      BY <2>3 DEF TB!Answer
    <3> HIDE DEF X, Y
    <3> QED
      BY <2>1, <3>1, <3>2 DEF X, Y
  <2>4. CASE TB!AnswerPartly
    <3>1. PICK over \in {0, 1}, n \in 0 .. tb_job.w :
            tb_measured' = [tb_measured EXCEPT ![tb_job.scenario] = @ \cup (tb_start + over .. tb_start + over + n - 1)]
      BY <2>4 DEF TB!AnswerPartly
    <3> DEFINE Y == tb_start + over .. tb_start + over + n - 1
    <3>2. tb_measured' = [tb_measured EXCEPT ![tb_job.scenario] = @ \cup Y] /\ Y \subseteq 1 .. 2 * tb_Longest + tb_Offset + TB!Max(tb_Tokens)
      BY <2>2, <3>1
    <3> HIDE DEF Y
    <3> QED
      BY <2>1, <3>2
  <2> QED
    BY <2>3, <2>4
<1>5. BenchTypes'
  <2>1. \A s \in tb_todo' : s > 0
    BY <1>1, BenchFacts DEF BenchTypes
  <2>2. 0 \in 0 .. tb_Longest + tb_Offset /\ tb_exact' \in BOOLEAN
    BY <1>1, BenchFacts DEF BenchTypes
  <2> QED
    BY <1>1, <1>4, <2>1, <2>2, BenchFacts DEF BenchTypes
<1>6. BenchPhases' /\ BenchLoads'
  BY <1>1, <1>3, BenchFacts DEF BenchPhases, BenchLoads
<1>7. BenchCovered'
  <2>1. CASE tb_exact' = FALSE
    BY <2>1 DEF BenchCovered
  <2>2. CASE TB!Answer
    <3>1. /\ tb_exact' = tb_exact
          /\ tb_measured' = [tb_measured EXCEPT ![tb_job.scenario] = @ \cup BenchWindow(tb_start, tb_job.w)]
      BY <2>2 DEF TB!Answer, BenchWindow
    <3>2. tb_measured'[tb_job.scenario] = tb_measured[tb_job.scenario] \cup BenchWindow(tb_start, tb_job.w)
      BY <3>1, BenchFacts DEF BenchTypes
    <3>3. BenchLeft = tb_todo \cup {tb_start} /\ BenchLeft' = tb_todo
      BY <1>1 DEF BenchLeft
    <3>4. BenchCover(tb_job, tb_measured', tb_todo) = BenchCover(tb_job, tb_measured, tb_todo \cup {tb_start})
      BY <3>2 DEF BenchCover
    <3> QED
      BY <1>1, <1>3, <3>1, <3>3, <3>4, BenchFacts DEF BenchCovered
  <2>3. CASE TB!AnswerPartly
    BY <2>1, <2>3 DEF TB!AnswerPartly
  <2> QED
    BY <2>2, <2>3
<1> QED
  BY <1>5, <1>6, <1>7 DEF BenchIInv

(* A prefill begins or ends, the collection stops or raises.               *)
LEMMA BenchQuietOK ==
  ASSUME TB!ConstantsAssumption, BenchIInv,
         TB!PrefillSent \/ TB!PrefillEnds \/ TB!Stop \/ TB!Raise \/ UNCHANGED TB!vars
  PROVE  BenchIInv'
<1>1. CASE TB!PrefillSent
  <2>1. /\ tb_load = "on" /\ tb_prefills' \in 0 .. tb_PrefillLoad /\ tb_disturbed' \in BOOLEAN
        /\ UNCHANGED <<tb_phase, tb_job, tb_todo, tb_start, tb_measured, tb_exact, tb_load, tb_model, tb_curve,
                       tb_collections, tb_faults>>
    BY <1>1, BenchFacts DEF TB!PrefillSent, BenchTypes
  <2>2. BenchLeft' = BenchLeft
    BY <2>1 DEF BenchLeft
  <2> QED
    BY <2>1, <2>2, BenchFacts DEF BenchIInv, BenchTypes, BenchPhases, BenchLoads, BenchCovered
<1>2. CASE TB!PrefillEnds
  <2>1. /\ tb_prefills' \in 0 .. tb_PrefillLoad /\ tb_load = "on"
        /\ UNCHANGED <<tb_phase, tb_job, tb_todo, tb_start, tb_measured, tb_exact, tb_load, tb_disturbed, tb_model,
                       tb_curve, tb_collections, tb_faults>>
    BY <1>2, BenchFacts DEF TB!PrefillEnds, BenchTypes, BenchLoads
  <2>2. BenchLeft' = BenchLeft
    BY <2>1 DEF BenchLeft
  <2> QED
    BY <2>1, <2>2, BenchFacts DEF BenchIInv, BenchTypes, BenchPhases, BenchLoads, BenchCovered
<1>3. CASE TB!Stop
  <2>1. /\ tb_phase = "measuring" /\ tb_start = 0 /\ tb_todo = {} /\ tb_phase' = "ended" /\ tb_load' = "off"
        /\ tb_prefills' = 0
        /\ UNCHANGED <<tb_job, tb_todo, tb_start, tb_measured, tb_exact, tb_disturbed, tb_model, tb_curve,
                       tb_collections, tb_faults>>
    BY <1>3 DEF TB!Stop
  <2>2. BenchLeft' = BenchLeft /\ 0 \in 0 .. tb_PrefillLoad
    BY <2>1, BenchFacts DEF BenchLeft
  <2> QED
    BY <2>1, <2>2, BenchFacts DEF BenchIInv, BenchTypes, BenchPhases, BenchLoads, BenchCovered
<1>4. CASE TB!Raise
  <2>1. /\ tb_phase = "measuring" /\ tb_start = 0 /\ tb_todo' = {} /\ tb_phase' = "idle" /\ tb_load' = "off"
        /\ tb_prefills' = 0 /\ tb_faults' \in 0 .. tb_MaxFaults
        /\ UNCHANGED <<tb_job, tb_start, tb_measured, tb_exact, tb_disturbed, tb_model, tb_curve, tb_collections>>
    BY <1>4, BenchFacts DEF TB!Raise, BenchTypes
  <2>2. tb_curve = <<>> /\ 0 \in 0 .. tb_PrefillLoad
    BY <2>1, BenchFacts DEF BenchPhases
  <2> QED
    BY <2>1, <2>2, BenchFacts DEF BenchIInv, BenchTypes, BenchPhases, BenchLoads, BenchCovered
<1>5. CASE UNCHANGED TB!vars
  BY <1>5 DEF TB!vars, BenchIInv, BenchTypes, BenchPhases, BenchLoads, BenchCovered, BenchLeft
<1> QED
  BY <1>1, <1>2, <1>3, <1>4, <1>5

(* The curve is returned.                                                  *)
LEMMA BenchReturnOK == ASSUME TB!ConstantsAssumption, BenchIInv, TB!Return PROVE BenchIInv'
<1>1. /\ tb_phase = "ended" /\ tb_phase' = "idle" /\ tb_model' = TB!Fitted
      /\ tb_curve' = [l \in tb_job.lo .. tb_job.hi |-> TB!SourceOf(l)]
      /\ UNCHANGED <<tb_job, tb_todo, tb_start, tb_measured, tb_exact, tb_load, tb_prefills, tb_disturbed,
                     tb_collections, tb_faults>>
  BY DEF TB!Return
<1>2. tb_start = 0 /\ tb_todo = {} /\ BenchLeft = {}
  BY <1>1, BenchFacts DEF BenchPhases, BenchLeft
<1>3. BenchTypes'
  <2>1. TB!Fitted \subseteq TB!Scenario
    BY BenchFacts DEF TB!Fitted, BenchTypes
  <2>2. DOMAIN tb_curve' = tb_job.lo .. tb_job.hi
    BY <1>1
  <2> QED
    BY <1>1, <2>1, <2>2, BenchFacts DEF BenchTypes
<1>4. BenchPhases' /\ BenchLoads'
  BY <1>1, <1>2, BenchFacts DEF BenchPhases, BenchLoads
<1>5. ASSUME tb_exact PROVE BenchDense(tb_job, tb_curve')
  <2> DEFINE D == tb_measured[tb_job.scenario]
             c == tb_curve'
  <2>1. BenchCovers(tb_job, D)
    <3>1. BenchCovers(tb_job, BenchCover(tb_job, tb_measured, {}))
      BY <1>1, <1>2, <1>5, BenchFacts DEF BenchCovered
    <3> QED
      BY <3>1 DEF BenchCover
  <2>2. DOMAIN c = tb_job.lo .. tb_job.hi /\ \A l \in DOMAIN c : c[l] = TB!SourceOf(l)
    BY <1>1
  <2> HIDE DEF c
  <2>3. BenchMissing(c) = {l \in BenchReach(c) : l \notin D}
    BY <2>2 DEF BenchMissing, BenchReach, TB!SourceOf
  <2>4. BenchReach(c) # {} => "fitted" \notin {c[l] : l \in DOMAIN c}
    BY <2>1, <2>2 DEF BenchCovers, BenchReach, TB!SourceOf
  <2>5. tb_job.kind = "continuous" => BenchMissing(c) = {}
    BY <2>1, <2>2, <2>3 DEF BenchCovers, BenchReach
  <2>6. ASSUME tb_job.kind = "range", NEW l \in BenchReach(c), l \notin D
        PROVE  l \in tb_job.hi - TB!Max({1, tb_job.w \div 2}) + 2 .. tb_job.hi
    <3>1. /\ TB!Max({1, tb_job.w \div 2}) \in Int /\ l \in tb_job.lo .. tb_job.hi /\ l > tb_Offset
          /\ tb_job.lo \in Int /\ tb_job.hi \in Int
      <4>1. tb_job.w \in Nat
        BY <1>1, BenchFacts DEF BenchPhases
      <4>2. tb_job.w \div 2 \in Nat
        BY <4>1
      <4>3. TB!Max({1, tb_job.w \div 2}) \in Int
        BY <4>2, BenchMax
      <4> QED
        BY <2>2, <4>3, BenchFacts DEF TB!Length, BenchReach
    <3>2. ~(l <= tb_job.hi - TB!Max({1, tb_job.w \div 2}) + 1)
      BY <2>1, <2>6, <3>1 DEF BenchCovers
    <3> DEFINE s == TB!Max({1, tb_job.w \div 2})
    <3> HIDE DEF s
    <3>3. l \in tb_job.hi - s + 2 .. tb_job.hi
      BY <3>1, <3>2 DEF s
    <3> QED
      BY <3>3 DEF s
  <2>7. BenchDense(tb_job, c)
    BY <2>3, <2>4, <2>5, <2>6 DEF BenchDense
  <2> QED
    BY <2>7 DEF c
<1>6. BenchCovered'
  BY <1>1, <1>5 DEF BenchCovered
<1> QED
  BY <1>3, <1>4, <1>6 DEF BenchIInv

(* Every step keeps the invariant.                                         *)
LEMMA BenchNextIInv == ASSUME TB!ConstantsAssumption, BenchIInv, [TB!Next]_TB!vars PROVE BenchIInv'
BY BenchCollectOK, BenchSendOK, BenchAnswerOK, BenchQuietOK, BenchReturnOK DEF TB!Next

(* It implies the types and what a curve promises.                         *)
LEMMA BenchPromises ==
  ASSUME TB!ConstantsAssumption, BenchIInv PROVE TB!TypeOK /\ TB!CurveIsAsPlanned
<1>1. TB!TypeOK
  <2>1. tb_start \in Nat /\ \A s \in tb_todo : s \in Nat
    BY BenchFacts DEF BenchTypes
  <2> QED
    BY <2>1, BenchFacts DEF BenchTypes, TB!TypeOK
<1>2. tb_start # 0 /\ tb_job.scenario = "baseline" => ~tb_disturbed /\ tb_prefills = 0
  BY BenchFacts DEF BenchLoads, BenchTypes
<1> QED
  BY <1>1, <1>2, BenchFacts DEF TB!CurveIsAsPlanned, TB!Missing, BenchCovered, BenchDense, BenchMissing, BenchReach

-----------------------------------------------------------------------------
(* The pages of LMCache (PagedAllocator).                                  *)

(* A set has the same size in PagedAllocator as here.                      *)
LEMMA PagesSize ==
  /\ \A S : PA!Cardinality(S) = Cardinality(S)
  /\ \A S : PA!IsFiniteSet(S) <=> IsFiniteSet(S)
BY DEF PA!Cardinality, Cardinality, PA!IsFiniteSet, IsFiniteSet

(* The types of the pages.                                                 *)
PagesTypes ==
  /\ pa_freeBlocks \in Seq(pa_Page) /\ pa_ref \in [pa_Page -> 0 .. pa_MaxRef] /\ pa_pin \in [pa_Page -> 0 .. pa_MaxPin]
  /\ pa_known \subseteq pa_Page /\ pa_overdrawn \in BOOLEAN
  /\ pa_cut \subseteq pa_Page /\ pa_wants \in [pa_Thread -> 0 .. pa_MaxBatch] /\ pa_full \in [pa_Thread -> BOOLEAN]
  /\ pa_taken \in [pa_Thread -> SUBSET pa_Page] /\ pa_holds \in [pa_Thread -> SUBSET pa_Page]

(* The page is in the deque.                                               *)
PagesInDeque(p) == \E i \in 1 .. Len(pa_freeBlocks) : pa_freeBlocks[i] = p

(* No page is twice in the deque.                                          *)
PagesDequeOnce == \A i, j \in 1 .. Len(pa_freeBlocks) : pa_freeBlocks[i] = pa_freeBlocks[j] => i = j

(* A page in the deque is nobody's and pinned by nobody.                   *)
PagesDequeFree ==
  \A i \in 1 .. Len(pa_freeBlocks) :
    /\ pa_pin[pa_freeBlocks[i]] = 0 /\ pa_freeBlocks[i] \notin pa_cut
    /\ \A t \in pa_Thread : pa_freeBlocks[i] \notin pa_holds[t] /\ pa_freeBlocks[i] \notin pa_taken[t]

(* A page a thread has is referred to, and is that thread's alone; one of  *)
(* a batch that is not whole yet is not pinned.                            *)
PagesOneThread ==
  \A p \in pa_Page, t \in pa_Thread :
    /\ p \in pa_holds[t] => pa_ref[p] > 0
    /\ p \in pa_taken[t] => pa_ref[p] > 0 /\ pa_pin[p] = 0
    /\ \A u \in pa_Thread :
         /\ p \in pa_holds[t] /\ p \in pa_holds[u] => t = u
         /\ p \in pa_taken[t] /\ p \in pa_taken[u] => t = u
         /\ ~(p \in pa_holds[t] /\ p \in pa_taken[u])

(* A page that is nowhere is kept by a pin.                                *)
PagesNoneLost ==
  \A p \in pa_Page :
    \/ PagesInDeque(p) \/ (pa_pin[p] > 0 /\ pa_ref[p] = 0)
    \/ \E t \in pa_Thread : p \in pa_holds[t] \/ p \in pa_taken[t]

(* A thread asks for a new batch only when it has given up the last.       *)
PagesOneBatch == \A t \in pa_Thread : pa_wants[t] > 0 => pa_holds[t] = {}

(* Until somebody gives up what is not his.                                *)
PagesIInv == PagesTypes /\ PagesOneBatch /\ PagesDequeOnce /\ PagesDequeFree /\ PagesOneThread /\ PagesNoneLost

(* A page in the deque has its whole buffer.                               *)
PagesWhole == \A i \in 1 .. Len(pa_freeBlocks) : pa_freeBlocks[i] \notin pa_cut

(* The inductive invariant of the pages.                                   *)
PagesInv == PagesTypes /\ PagesWhole /\ (pa_overdrawn \/ PagesIInv)

(* A finite set in some order: each of its elements once.                  *)
LEMMA PagesListed ==
  ASSUME NEW S, IsFiniteSet(S)
  PROVE  /\ PA!SetToSeq(S) \in Seq(S)
         /\ \A i, j \in 1 .. Len(PA!SetToSeq(S)) : PA!SetToSeq(S)[i] = PA!SetToSeq(S)[j] => i = j
         /\ \A x \in S : \E i \in 1 .. Len(PA!SetToSeq(S)) : PA!SetToSeq(S)[i] = x
<1> DEFINE n == Cardinality(S)
           s == PA!SetToSeq(S)
<1>1. n \in Nat /\ ExistsBijection(1 .. n, S)
  BY FS_CardinalityType
<1>2. \E f \in [1 .. n -> S] : PA!IsInjective(f)
  BY <1>1 DEF ExistsBijection, Bijection, Injection, IsInjective, PA!IsInjective
<1>3. s \in [1 .. n -> S] /\ PA!IsInjective(s)
  BY <1>2, PagesSize DEF PA!SetToSeq
<1>4. s \in Surjection(1 .. n, S)
  <2>1. s \in Injection(1 .. n, S)
    BY <1>3 DEF Injection, IsInjective, PA!IsInjective
  <2>2. Cardinality(1 .. n) = n
    BY <1>1, FS_Interval
  <2> HIDE DEF s
  <2> QED
    BY <2>1, <2>2, FS_Injection
<1> HIDE DEF s, n
<1>5. s \in Seq(S) /\ Len(s) = n
  BY <1>1, <1>3
<1> QED
  BY <1>3, <1>4, <1>5 DEF Surjection, PA!IsInjective, s

(* All pages are in the deque at first, once.                              *)
LEMMA PagesInitInv == ASSUME PA!ConstantsAssumption, PA!Init PROVE PagesInv
<1>1. IsFiniteSet(pa_Page)
  BY PagesSize DEF PA!ConstantsAssumption
<1>2. /\ pa_freeBlocks \in Seq(pa_Page)
      /\ \A i, j \in 1 .. Len(pa_freeBlocks) : pa_freeBlocks[i] = pa_freeBlocks[j] => i = j
      /\ \A p \in pa_Page : PagesInDeque(p)
  BY <1>1, PagesListed DEF PA!Init, PagesInDeque
<1>3. PagesTypes /\ PagesOneBatch
  <2>1. /\ pa_MaxRef \in Nat \ {0} /\ pa_MaxPin \in Nat \ {0} /\ pa_MaxBatch \in Nat \ {0}
        /\ 1 \in 0 .. pa_MaxRef /\ 0 \in 0 .. pa_MaxPin /\ 0 \in 0 .. pa_MaxBatch
    BY DEF PA!ConstantsAssumption
  <2>2. /\ pa_ref \in [pa_Page -> 0 .. pa_MaxRef] /\ pa_pin \in [pa_Page -> 0 .. pa_MaxPin]
        /\ pa_wants \in [pa_Thread -> 0 .. pa_MaxBatch] /\ \A t \in pa_Thread : pa_wants[t] = 0
    BY <2>1 DEF PA!Init
  <2>3. /\ pa_full \in [pa_Thread -> BOOLEAN] /\ pa_taken \in [pa_Thread -> SUBSET pa_Page]
        /\ pa_holds \in [pa_Thread -> SUBSET pa_Page] /\ pa_cut \subseteq pa_Page
        /\ pa_known \subseteq pa_Page /\ pa_overdrawn \in BOOLEAN
    BY DEF PA!Init
  <2> QED
    BY <1>2, <2>2, <2>3 DEF PagesTypes, PagesOneBatch
<1>4. PagesDequeFree
  BY <1>2 DEF PA!Init, PagesDequeFree
<1>5. PagesIInv
  BY <1>2, <1>3, <1>4 DEF PA!Init, PagesIInv, PagesDequeOnce, PagesOneThread, PagesNoneLost
<1> QED
  BY <1>3, <1>4, <1>5 DEF PagesInv, PagesWhole, PagesDequeFree

(* Pages that no thread has any more, pinned by nobody, are appended.      *)
LEMMA PagesGiveBackOK ==
  ASSUME PA!ConstantsAssumption, PagesIInv, NEW t \in pa_Thread, NEW pages \in SUBSET pa_Page,
         PA!GiveBack(t, pages)
  PROVE  /\ pa_freeBlocks' \in Seq(pa_Page)
         /\ \A p : PagesInDeque(p)' <=> PagesInDeque(p) \/ p \in pages
         /\ (\A p \in pages : ~PagesInDeque(p)) => PagesDequeOnce'
         /\ pa_cut' = pa_cut \ pages
<1> DEFINE s == PA!SetToSeq(pages)
<1>1. IsFiniteSet(pages)
  BY FS_Subset, PagesSize DEF PA!ConstantsAssumption
<1>2. /\ s \in Seq(pages) /\ \A x \in pages : \E i \in 1 .. Len(s) : s[i] = x
      /\ \A i, j \in 1 .. Len(s) : s[i] = s[j] => i = j
  BY <1>1, PagesListed
<1>3. pa_freeBlocks' = pa_freeBlocks \o s /\ pa_cut' = pa_cut \ pages
  BY DEF PA!GiveBack
<1>4. pa_freeBlocks \in Seq(pa_Page)
  BY DEF PagesIInv, PagesTypes
<1> HIDE DEF s
<1>5. s \in Seq(pa_Page) /\ \A i \in 1 .. Len(s) : s[i] \in pages
  BY <1>2
<1>6. /\ pa_freeBlocks' \in Seq(pa_Page) /\ Len(pa_freeBlocks') = Len(pa_freeBlocks) + Len(s)
      /\ Len(pa_freeBlocks) \in Nat /\ Len(s) \in Nat
      /\ \A i \in 1 .. Len(pa_freeBlocks) : i \in 1 .. Len(pa_freeBlocks') /\ pa_freeBlocks'[i] = pa_freeBlocks[i]
      /\ \A i \in 1 .. Len(s) : /\ Len(pa_freeBlocks) + i \in 1 .. Len(pa_freeBlocks')
                               /\ pa_freeBlocks'[Len(pa_freeBlocks) + i] = s[i]
  BY <1>3, <1>4, <1>5
<1>9. \A i \in 1 .. Len(pa_freeBlocks') :
         i \in 1 .. Len(pa_freeBlocks) \/ \E j \in 1 .. Len(s) : i = Len(pa_freeBlocks) + j
  <2>1. ASSUME NEW i \in 1 .. Len(pa_freeBlocks'), i \notin 1 .. Len(pa_freeBlocks)
        PROVE  i - Len(pa_freeBlocks) \in 1 .. Len(s) /\ i = Len(pa_freeBlocks) + (i - Len(pa_freeBlocks))
    BY <1>6, <2>1
  <2> QED
    BY <2>1
<1>7. ASSUME NEW p PROVE PagesInDeque(p)' <=> PagesInDeque(p) \/ p \in pages
  <2>1. ASSUME PagesInDeque(p)' PROVE PagesInDeque(p) \/ p \in pages
    <3>1. PICK i \in 1 .. Len(pa_freeBlocks') : pa_freeBlocks'[i] = p
      BY <2>1 DEF PagesInDeque
    <3>2. CASE i \in 1 .. Len(pa_freeBlocks)
      BY <1>6, <3>1, <3>2 DEF PagesInDeque
    <3>3. CASE \E j \in 1 .. Len(s) : i = Len(pa_freeBlocks) + j
      BY <1>5, <1>6, <3>1, <3>3
    <3> QED
      BY <1>9, <3>2, <3>3
  <2>2. ASSUME PagesInDeque(p) PROVE PagesInDeque(p)'
    <3>1. PICK i \in 1 .. Len(pa_freeBlocks) : pa_freeBlocks[i] = p
      BY <2>2 DEF PagesInDeque
    <3>2. i \in 1 .. Len(pa_freeBlocks') /\ pa_freeBlocks'[i] = p
      BY <1>6, <3>1
    <3> QED
      BY <3>2 DEF PagesInDeque
  <2>3. ASSUME p \in pages PROVE PagesInDeque(p)'
    <3>1. PICK i \in 1 .. Len(s) : s[i] = p
      BY <1>2, <2>3
    <3> QED
      BY <1>6, <3>1 DEF PagesInDeque
  <2> QED
    BY <2>1, <2>2, <2>3
<1>8. ASSUME \A p \in pages : ~PagesInDeque(p) PROVE PagesDequeOnce'
  <2>1. SUFFICES ASSUME NEW i \in 1 .. Len(pa_freeBlocks'), NEW j \in 1 .. Len(pa_freeBlocks'),
                        pa_freeBlocks'[i] = pa_freeBlocks'[j]
                 PROVE  i = j
    BY DEF PagesDequeOnce
  <2>2. CASE i \in 1 .. Len(pa_freeBlocks) /\ j \in 1 .. Len(pa_freeBlocks)
    BY <1>6, <2>1, <2>2 DEF PagesIInv, PagesDequeOnce
  <2>3. ASSUME NEW k \in 1 .. Len(s), NEW l \in 1 .. Len(s), i = Len(pa_freeBlocks) + k, j = Len(pa_freeBlocks) + l
        PROVE  i = j
    BY <1>2, <1>6, <2>1, <2>3
  <2>4. ASSUME NEW k \in 1 .. Len(s), NEW l \in 1 .. Len(pa_freeBlocks)
        PROVE  s[k] # pa_freeBlocks[l]
    BY <1>5, <1>8 DEF PagesInDeque
  <2>5. ASSUME NEW k \in 1 .. Len(s), NEW l \in 1 .. Len(pa_freeBlocks)
        PROVE  pa_freeBlocks'[Len(pa_freeBlocks) + k] # pa_freeBlocks'[l]
    BY <1>6, <2>4, <2>5
  <2> QED
    BY <1>9, <2>1, <2>2, <2>3, <2>5
<1> QED
  BY <1>3, <1>6, <1>7, <1>8

(* A pop takes a page from the deque to one thread.                        *)
LEMMA PagesPopOK == ASSUME PA!ConstantsAssumption, PagesIInv, NEW t \in pa_Thread, PA!Pop(t) PROVE PagesIInv'
<1> DEFINE p == Head(pa_freeBlocks)
<1> USE DEF PagesIInv
<1>1. /\ pa_wants[t] > 0 /\ pa_freeBlocks # <<>> /\ pa_freeBlocks' = Tail(pa_freeBlocks)
      /\ pa_ref' = [pa_ref EXCEPT ![p] = 1] /\ pa_cut' = IF pa_full[t] THEN pa_cut ELSE pa_cut \cup {p}
      /\ pa_wants' = [pa_wants EXCEPT ![t] = @ - 1] /\ UNCHANGED <<pa_pin, pa_full, pa_overdrawn>>
      /\ IF pa_wants[t] = 1
           THEN /\ pa_holds' = [pa_holds EXCEPT ![t] = pa_taken[t] \cup {p}]
                /\ pa_taken' = [pa_taken EXCEPT ![t] = {}]
                /\ pa_known' = pa_known \cup pa_taken[t] \cup {p}
           ELSE pa_taken' = [pa_taken EXCEPT ![t] = @ \cup {p}] /\ UNCHANGED <<pa_holds, pa_known>>
  BY DEF PA!Pop
<1>2. /\ Len(pa_freeBlocks) \in Nat \ {0} /\ p = pa_freeBlocks[1] /\ p \in pa_Page
      /\ Len(pa_freeBlocks') = Len(pa_freeBlocks) - 1 /\ pa_freeBlocks' \in Seq(pa_Page)
  BY <1>1 DEF PagesTypes
<1>3. \A i \in 1 .. Len(pa_freeBlocks') : i + 1 \in 1 .. Len(pa_freeBlocks) /\ pa_freeBlocks'[i] = pa_freeBlocks[i + 1]
  BY <1>1, <1>2 DEF PagesTypes
<1>4. \A i \in 1 .. Len(pa_freeBlocks) : i = 1 \/ (i - 1 \in 1 .. Len(pa_freeBlocks') /\ (i - 1) + 1 = i)
  BY <1>2
<1>5. /\ pa_pin[p] = 0 /\ \A u \in pa_Thread : p \notin pa_holds[u] /\ p \notin pa_taken[u]
      /\ \A i \in 1 .. Len(pa_freeBlocks') : pa_freeBlocks'[i] # p
  <2>1. 1 \in 1 .. Len(pa_freeBlocks)
    BY <1>2
  <2>2. ASSUME NEW i \in 1 .. Len(pa_freeBlocks') PROVE pa_freeBlocks'[i] # p
    <3>1. i + 1 # 1
      BY <1>2
    <3> QED
      BY <1>2, <1>3, <2>1, <3>1 DEF PagesDequeOnce
  <2> QED
    BY <1>2, <2>1, <2>2 DEF PagesDequeFree
<1>6. \A q : PagesInDeque(q) => PagesInDeque(q)' \/ q = p
  <2>1. ASSUME NEW q, NEW i \in 1 .. Len(pa_freeBlocks), pa_freeBlocks[i] = q, q # p
        PROVE  \E j \in 1 .. Len(pa_freeBlocks') : pa_freeBlocks'[j] = q
    <3>1. i - 1 \in 1 .. Len(pa_freeBlocks') /\ (i - 1) + 1 = i
      BY <1>2, <1>4, <2>1
    <3>2. pa_freeBlocks'[i - 1] = pa_freeBlocks[(i - 1) + 1]
      BY <1>3, <3>1
    <3> QED
      BY <2>1, <3>1, <3>2
  <2> QED
    BY <2>1 DEF PagesInDeque
<1> HIDE DEF p
<1>7. PagesTypes' /\ PagesOneBatch'
  <2>1. /\ pa_wants' \in [pa_Thread -> 0 .. pa_MaxBatch] /\ pa_wants'[t] = pa_wants[t] - 1
        /\ \A u \in pa_Thread : u # t => pa_wants'[u] = pa_wants[u]
    BY <1>1 DEF PagesTypes, PA!ConstantsAssumption
  <2>2. pa_taken' \in [pa_Thread -> SUBSET pa_Page] /\ pa_holds' \in [pa_Thread -> SUBSET pa_Page]
    <3>1. pa_taken[t] \cup {p} \in SUBSET pa_Page /\ {} \in SUBSET pa_Page
      BY <1>2 DEF PagesTypes
    <3>2. CASE pa_wants[t] = 1
      BY <1>1, <3>1, <3>2 DEF PagesTypes
    <3>3. CASE pa_wants[t] # 1
      BY <1>1, <3>1, <3>3 DEF PagesTypes
    <3> QED
      BY <3>2, <3>3
  <2>3. pa_ref' \in [pa_Page -> 0 .. pa_MaxRef] /\ pa_cut' \subseteq pa_Page /\ pa_known' \subseteq pa_Page
    BY <1>1, <1>2 DEF PagesTypes, PA!ConstantsAssumption
  <2>4. PagesTypes'
    BY <1>1, <1>2, <2>1, <2>2, <2>3 DEF PagesTypes
  <2>5. PagesOneBatch'
    BY <1>1, <2>1 DEF PagesOneBatch, PagesTypes, PA!ConstantsAssumption
  <2> QED
    BY <2>4, <2>5
<1>8. /\ \A u \in pa_Thread : u # t => pa_holds'[u] = pa_holds[u] /\ pa_taken'[u] = pa_taken[u]
      /\ \/ pa_wants[t] = 1 /\ pa_holds'[t] = pa_taken[t] \cup {p} /\ pa_taken'[t] = {}
         \/ pa_wants[t] # 1 /\ pa_holds'[t] = pa_holds[t] /\ pa_taken'[t] = pa_taken[t] \cup {p}
  BY <1>1 DEF PagesTypes
<1>9. PagesDequeOnce'
  BY SMTT(30), <1>3 DEF PagesDequeOnce
<1>10. PagesDequeFree'
  <2>1. SUFFICES ASSUME NEW i \in 1 .. Len(pa_freeBlocks')
                 PROVE  /\ pa_pin[pa_freeBlocks'[i]] = 0 /\ pa_freeBlocks'[i] \notin pa_cut'
                        /\ \A u \in pa_Thread : pa_freeBlocks'[i] \notin pa_holds'[u] /\ pa_freeBlocks'[i] \notin pa_taken'[u]
    BY <1>1 DEF PagesDequeFree
  <2>2. /\ pa_pin[pa_freeBlocks'[i]] = 0 /\ pa_freeBlocks'[i] \notin pa_cut /\ pa_freeBlocks'[i] # p
        /\ \A u \in pa_Thread : pa_freeBlocks'[i] \notin pa_holds[u] /\ pa_freeBlocks'[i] \notin pa_taken[u]
    BY <1>3, <1>5 DEF PagesDequeFree
  <2> QED
    BY <1>1, <1>8, <2>2
<1>11. pa_ref'[p] = 1 /\ \A q \in pa_Page : q # p => pa_ref'[q] = pa_ref[q]
  BY <1>1, <1>2 DEF PagesTypes
<1>12. PagesOneThread'
  BY <1>1, <1>5, <1>8, <1>11 DEF PagesOneThread
<1>13. PagesNoneLost'
  <2>1. SUFFICES ASSUME NEW q \in pa_Page, ~PagesInDeque(q)', ~(pa_pin[q] > 0 /\ pa_ref'[q] = 0)
                 PROVE  \E u \in pa_Thread : q \in pa_holds'[u] \/ q \in pa_taken'[u]
    BY <1>1 DEF PagesNoneLost
  <2>2. CASE q = p
    BY <1>8, <2>2
  <2>3. CASE q # p
    <3>1. PICK u \in pa_Thread : q \in pa_holds[u] \/ q \in pa_taken[u]
      BY <1>6, <1>11, <2>1, <2>3 DEF PagesNoneLost
    <3>2. pa_wants[t] = 1 => pa_holds[t] = {}
      BY DEF PagesOneBatch
    <3> QED
      BY <1>8, <3>1, <3>2
  <2> QED
    BY <2>2, <2>3
<1> QED
  BY <1>7, <1>9, <1>10, <1>12, <1>13

(* A batch that finds the deque empty gives its pages back.                *)
LEMMA PagesFailOK == ASSUME PA!ConstantsAssumption, PagesIInv, NEW t \in pa_Thread, PA!Fail(t) PROVE PagesIInv'
<1> USE DEF PagesIInv
<1>1. /\ PA!GiveBack(t, pa_taken[t]) /\ pa_wants' = [pa_wants EXCEPT ![t] = 0] /\ pa_taken' = [pa_taken EXCEPT ![t] = {}]
      /\ UNCHANGED <<pa_ref, pa_pin, pa_full, pa_holds, pa_known, pa_overdrawn>> /\ pa_taken[t] \in SUBSET pa_Page /\ pa_freeBlocks = <<>>
  BY DEF PA!Fail, PagesTypes
<1>2. \A p : ~PagesInDeque(p)
  BY <1>1 DEF PagesInDeque
<1>3. /\ pa_freeBlocks' \in Seq(pa_Page) /\ \A p : PagesInDeque(p)' <=> p \in pa_taken[t]
      /\ PagesDequeOnce' /\ pa_cut' = pa_cut \ pa_taken[t]
  BY <1>1, <1>2, PagesGiveBackOK
<1>4. PagesTypes' /\ PagesOneBatch'
  BY <1>1, <1>3 DEF PagesTypes, PA!ConstantsAssumption, PagesOneBatch
<1>5. \A i \in 1 .. Len(pa_freeBlocks') : pa_freeBlocks'[i] \in pa_taken[t]
  BY <1>3 DEF PagesInDeque
<1>6. pa_taken'[t] = {} /\ \A u \in pa_Thread : u # t => pa_taken'[u] = pa_taken[u]
  BY <1>1 DEF PagesTypes
<1>7. PagesDequeFree'
  BY <1>1, <1>3, <1>5, <1>6 DEF PagesDequeFree, PagesOneThread
<1>8. PagesOneThread' /\ PagesNoneLost'
  BY <1>1, <1>2, <1>3, <1>6 DEF PagesOneThread, PagesNoneLost
<1> QED
  BY <1>3, <1>4, <1>7, <1>8

(* One page is free again.                                                 *)
LEMMA PagesOneBackOK ==
  ASSUME PA!ConstantsAssumption, PagesIInv, NEW t \in pa_Thread, NEW p \in pa_Page, PA!GiveBack(t, {p}),
         pa_ref' \in [pa_Page -> 0 .. pa_MaxRef], pa_pin' \in [pa_Page -> 0 .. pa_MaxPin], pa_holds' \in [pa_Thread -> SUBSET pa_Page],
         \A q \in pa_Page \ {p} : /\ pa_ref'[q] = pa_ref[q] /\ pa_pin'[q] = pa_pin[q]
                              /\ \A u \in pa_Thread : q \in pa_holds'[u] <=> q \in pa_holds[u],
         \A u \in pa_Thread : pa_holds'[u] \subseteq pa_holds[u],
         pa_pin'[p] = 0, ~PagesInDeque(p),
         \A u \in pa_Thread : p \notin pa_holds'[u] /\ p \notin pa_taken[u],
         UNCHANGED <<pa_wants, pa_full, pa_taken, pa_known>>, pa_overdrawn' \in BOOLEAN
  PROVE  PagesIInv'
<1> USE DEF PagesIInv
<1>1. /\ pa_freeBlocks' \in Seq(pa_Page) /\ \A q : PagesInDeque(q)' <=> PagesInDeque(q) \/ q = p
      /\ PagesDequeOnce' /\ pa_cut' = pa_cut \ {p}
  BY PagesGiveBackOK
<1>2. PagesTypes' /\ PagesOneBatch'
  BY <1>1 DEF PagesTypes, PagesOneBatch
<1>3. ASSUME NEW i \in 1 .. Len(pa_freeBlocks')
      PROVE  /\ pa_freeBlocks'[i] \in pa_Page
             /\ pa_freeBlocks'[i] = p \/ \E j \in 1 .. Len(pa_freeBlocks) : pa_freeBlocks[j] = pa_freeBlocks'[i]
  <2>1. pa_freeBlocks'[i] \in pa_Page
    BY <1>1
  <2>2. \A q : q = pa_freeBlocks'[i] => PagesInDeque(q)'
    BY DEF PagesInDeque
  <2> QED
    BY <1>1, <2>1, <2>2 DEF PagesInDeque
<1>4. PagesDequeFree'
  <2>1. ASSUME NEW i \in 1 .. Len(pa_freeBlocks')
        PROVE  /\ pa_pin'[pa_freeBlocks'[i]] = 0 /\ pa_freeBlocks'[i] \notin pa_cut'
               /\ \A u \in pa_Thread : pa_freeBlocks'[i] \notin pa_holds'[u] /\ pa_freeBlocks'[i] \notin pa_taken'[u]
    <3>1. CASE pa_freeBlocks'[i] = p
      BY <1>1, <3>1
    <3>2. CASE pa_freeBlocks'[i] # p
      <4>1. PICK j \in 1 .. Len(pa_freeBlocks) : pa_freeBlocks[j] = pa_freeBlocks'[i]
        BY <1>3, <3>2
      <4>2. pa_freeBlocks'[i] \in pa_Page \ {p}
        BY <1>3, <3>2
      <4>3. pa_pin[pa_freeBlocks[j]] = 0 /\ pa_freeBlocks[j] \notin pa_cut
            /\ \A u \in pa_Thread : pa_freeBlocks[j] \notin pa_holds[u] /\ pa_freeBlocks[j] \notin pa_taken[u]
        BY <4>1 DEF PagesDequeFree
      <4>4. PICK q \in pa_Page \ {p} : q = pa_freeBlocks'[i]
        BY <4>2
      <4>5. pa_pin[q] = 0 /\ q \notin pa_cut /\ \A u \in pa_Thread : q \notin pa_holds[u] /\ q \notin pa_taken[u]
        BY <4>1, <4>3, <4>4
      <4>6. pa_pin'[q] = 0 /\ q \notin pa_cut' /\ \A u \in pa_Thread : q \notin pa_holds'[u] /\ q \notin pa_taken'[u]
        BY <1>1, <4>5
      <4> QED
        BY <4>4, <4>6
    <3> QED
      BY <3>1, <3>2
  <2> QED
    BY <2>1 DEF PagesDequeFree
<1>5. PagesOneThread' /\ PagesNoneLost'
  <2>1. ASSUME NEW q \in pa_Page, NEW u \in pa_Thread
        PROVE  /\ q \in pa_holds'[u] => q \in pa_holds[u] /\ pa_ref'[q] = pa_ref[q]
               /\ q \in pa_taken'[u] <=> q \in pa_taken[u]
               /\ q \in pa_taken'[u] => pa_ref'[q] = pa_ref[q] /\ pa_pin'[q] = pa_pin[q]
    BY DEF PagesTypes
  <2>2. PagesOneThread'
    BY <2>1 DEF PagesOneThread
  <2>3. PagesNoneLost'
    BY <1>1 DEF PagesNoneLost
  <2> QED
    BY <2>2, <2>3
<1> QED
  BY <1>1, <1>2, <1>4, <1>5

(* A page that is free again by one release or unpin too many has its      *)
(* whole buffer all the same.                                              *)
LEMMA PagesOverdrawnOK ==
  ASSUME PA!ConstantsAssumption, PagesIInv, NEW t \in pa_Thread, NEW p \in pa_Page, PA!GiveBack(t, {p}),
         pa_ref' \in [pa_Page -> 0 .. pa_MaxRef], pa_pin' \in [pa_Page -> 0 .. pa_MaxPin], pa_holds' \in [pa_Thread -> SUBSET pa_Page],
         UNCHANGED <<pa_wants, pa_full, pa_taken, pa_known>>, pa_overdrawn' \in BOOLEAN
  PROVE  PagesTypes' /\ PagesWhole'
<1> USE DEF PagesIInv
<1>1. /\ pa_freeBlocks' \in Seq(pa_Page) /\ \A q : PagesInDeque(q)' <=> PagesInDeque(q) \/ q = p
      /\ pa_cut' = pa_cut \ {p}
  BY PagesGiveBackOK
<1>2. PagesTypes'
  BY <1>1 DEF PagesTypes
<1>3. ASSUME NEW i \in 1 .. Len(pa_freeBlocks') PROVE pa_freeBlocks'[i] \notin pa_cut'
  <2>1. \A q : q = pa_freeBlocks'[i] => PagesInDeque(q)'
    BY DEF PagesInDeque
  <2>2. pa_freeBlocks'[i] = p \/ \E j \in 1 .. Len(pa_freeBlocks) : pa_freeBlocks[j] = pa_freeBlocks'[i]
    BY <1>1, <2>1 DEF PagesInDeque
  <2> QED
    BY <1>1, <2>2 DEF PagesDequeFree
<1> QED
  BY <1>2, <1>3 DEF PagesWhole

(* A page that stays where it is: one reference or pin more or less.       *)
LEMMA PagesCountOK ==
  ASSUME PA!ConstantsAssumption, PagesIInv, NEW p \in pa_Page,
         pa_ref' \in [pa_Page -> 0 .. pa_MaxRef], pa_pin' \in [pa_Page -> 0 .. pa_MaxPin],
         \A q \in pa_Page \ {p} : pa_ref'[q] = pa_ref[q] /\ pa_pin'[q] = pa_pin[q],
         pa_ref[p] > 0 => pa_ref'[p] > 0, pa_ref[p] = 0 => pa_ref'[p] = 0,
         pa_ref[p] = 0 /\ pa_pin[p] > 0 => pa_pin'[p] > 0,
         pa_pin[p] = 0 /\ pa_pin'[p] > 0 => \E t \in pa_Thread : p \in pa_holds[t],
         UNCHANGED <<pa_freeBlocks, pa_cut, pa_wants, pa_full, pa_taken, pa_holds, pa_known, pa_overdrawn>>
  PROVE  PagesIInv'
<1> USE DEF PagesIInv
<1>1. PagesTypes' /\ PagesDequeOnce' /\ PagesOneBatch'
  BY DEF PagesTypes, PagesDequeOnce, PagesOneBatch
<1>2. \A q \in pa_Page : pa_ref[q] \in Nat /\ pa_pin[q] \in Nat /\ pa_ref'[q] \in Nat /\ pa_pin'[q] \in Nat
  BY DEF PagesTypes, PA!ConstantsAssumption
<1>3. ASSUME NEW i \in 1 .. Len(pa_freeBlocks) PROVE pa_pin'[pa_freeBlocks[i]] = 0
  <2>1. pa_freeBlocks[i] \in pa_Page
    BY DEF PagesTypes
  <2> QED
    BY <1>2, <2>1 DEF PagesDequeFree
<1>4. PagesDequeFree'
  BY <1>3 DEF PagesDequeFree
<1>5. PagesOneThread'
  BY <1>2 DEF PagesOneThread
<1>6. PagesNoneLost'
  BY <1>2 DEF PagesNoneLost, PagesInDeque
<1> QED
  BY <1>1, <1>4, <1>5, <1>6

(* A release frees the page of its holder, keeps it for a pin or another   *)
(* reference, or is one too many.                                          *)
LEMMA PagesReleaseOK ==
  ASSUME PA!ConstantsAssumption, PagesIInv, ~pa_overdrawn, NEW t \in pa_Thread, NEW p \in pa_Page, PA!Release(t, p)
  PROVE  PagesTypes' /\ PagesWhole' /\ (pa_overdrawn' \/ PagesIInv')
<1> USE DEF PagesIInv
<1>1. /\ pa_ref[p] > 0 /\ pa_ref' = [pa_ref EXCEPT ![p] = @ - 1] /\ UNCHANGED <<pa_pin, pa_wants, pa_full, pa_taken, pa_known>>
      /\ IF pa_ref[p] = 1 /\ pa_pin[p] = 0 THEN PA!GiveBack(t, {p}) ELSE UNCHANGED <<pa_freeBlocks, pa_cut>>
      /\ IF pa_ref[p] = 1 THEN pa_holds' = [pa_holds EXCEPT ![t] = @ \ {p}] /\ pa_overdrawn' = (p \notin pa_holds[t])
                          ELSE UNCHANGED <<pa_holds, pa_overdrawn>>
  BY DEF PA!Release
<1>2. /\ pa_ref[p] \in 1 .. pa_MaxRef /\ pa_ref' \in [pa_Page -> 0 .. pa_MaxRef] /\ pa_ref'[p] = pa_ref[p] - 1
      /\ \A q \in pa_Page \ {p} : pa_ref'[q] = pa_ref[q]
  BY <1>1 DEF PagesTypes, PA!ConstantsAssumption
<1>3. pa_holds' \in [pa_Thread -> SUBSET pa_Page] /\ pa_overdrawn' \in BOOLEAN
  BY <1>1 DEF PagesTypes
<1>4. CASE pa_ref[p] # 1
  <2>1. UNCHANGED <<pa_freeBlocks, pa_cut, pa_holds, pa_overdrawn>> /\ pa_pin' = pa_pin
    BY <1>1, <1>4
  <2>2. pa_ref'[p] > 0
    BY <1>2, <1>4 DEF PA!ConstantsAssumption
  <2>3. pa_pin' \in [pa_Page -> 0 .. pa_MaxPin]
    BY <2>1 DEF PagesTypes
  <2>4. PagesIInv'
    BY <1>1, <1>2, <2>1, <2>2, <2>3, PagesCountOK
  <2> QED
    BY <2>4 DEF PagesWhole, PagesDequeFree
<1>5. CASE pa_ref[p] = 1 /\ pa_pin[p] = 0
  <2>1. PA!GiveBack(t, {p}) /\ pa_pin' = pa_pin /\ pa_pin' \in [pa_Page -> 0 .. pa_MaxPin]
    BY <1>1, <1>5 DEF PagesTypes
  <2>2. PagesTypes' /\ PagesWhole'
    BY <1>1, <1>2, <1>3, <2>1, PagesOverdrawnOK
  <2>3. ASSUME p \in pa_holds[t] PROVE PagesIInv'
    <3>1. pa_holds'[t] = pa_holds[t] \ {p} /\ \A u \in pa_Thread \ {t} : pa_holds'[u] = pa_holds[u]
      BY <1>1, <1>5 DEF PagesTypes
    <3>2. ~PagesInDeque(p) /\ \A u \in pa_Thread : p \notin pa_holds'[u] /\ p \notin pa_taken[u]
      BY <2>3, <3>1 DEF PagesInDeque, PagesDequeFree, PagesOneThread
    <3>3. \A u \in pa_Thread : pa_holds'[u] \subseteq pa_holds[u]
      BY <3>1
    <3>4. \A q \in pa_Page \ {p} : \A u \in pa_Thread : q \in pa_holds'[u] <=> q \in pa_holds[u]
      BY <3>1
    <3> QED
      BY <1>1, <1>2, <1>3, <1>5, <2>1, <3>2, <3>3, <3>4, PagesOneBackOK
  <2> QED
    BY <1>1, <1>5, <2>2, <2>3
<1>6. CASE pa_ref[p] = 1 /\ pa_pin[p] # 0
  <2>1. UNCHANGED <<pa_freeBlocks, pa_cut>> /\ pa_pin' = pa_pin /\ pa_ref'[p] = 0
    BY <1>1, <1>2, <1>6
  <2>2. PagesTypes' /\ PagesWhole'
    BY <1>1, <1>2, <1>3, <2>1 DEF PagesTypes, PagesWhole, PagesDequeFree
  <2>3. ASSUME p \in pa_holds[t] PROVE PagesIInv'
    <3>1. pa_holds'[t] = pa_holds[t] \ {p} /\ \A u \in pa_Thread \ {t} : pa_holds'[u] = pa_holds[u]
      BY <1>1, <1>6 DEF PagesTypes
    <3>2. ~PagesInDeque(p) /\ \A u \in pa_Thread : p \notin pa_holds'[u] /\ p \notin pa_taken[u]
      BY <2>3, <3>1 DEF PagesInDeque, PagesDequeFree, PagesOneThread
    <3>3. pa_pin[p] > 0
      BY <1>6 DEF PagesTypes, PA!ConstantsAssumption
    <3>4. PagesDequeOnce' /\ PagesOneBatch'
      BY <1>1, <2>1, <3>1 DEF PagesDequeOnce, PagesOneBatch
    <3>5. PagesDequeFree'
      BY <1>1, <2>1, <3>1 DEF PagesDequeFree
    <3>6. PagesOneThread'
      BY <1>1, <1>2, <2>1, <3>1, <3>2 DEF PagesOneThread
    <3>7. PagesNoneLost'
      BY <1>1, <1>2, <2>1, <3>1, <3>2, <3>3 DEF PagesNoneLost, PagesInDeque
    <3> QED
      BY <2>2, <3>4, <3>5, <3>6, <3>7
  <2> QED
    BY <1>1, <1>6, <2>2, <2>3
<1> QED
  BY <1>4, <1>5, <1>6

(* An unpin frees the page that only a pin kept, or is one too many.       *)
LEMMA PagesUnpinOK ==
  ASSUME PA!ConstantsAssumption, PagesIInv, ~pa_overdrawn, NEW t \in pa_Thread, NEW p \in pa_Page, PA!Unpin(t, p)
  PROVE  PagesTypes' /\ PagesWhole' /\ (pa_overdrawn' \/ PagesIInv')
<1> USE DEF PagesIInv
<1>1. /\ pa_pin' = [pa_pin EXCEPT ![p] = IF @ > 0 THEN @ - 1 ELSE 0] /\ UNCHANGED <<pa_ref, pa_wants, pa_full, pa_taken, pa_holds, pa_known>>
      /\ IF pa_pin[p] <= 1 /\ pa_ref[p] <= 0
           THEN PA!GiveBack(t, {p}) /\ pa_overdrawn' = (pa_pin[p] = 0)
           ELSE UNCHANGED <<pa_freeBlocks, pa_cut, pa_overdrawn>>
  BY DEF PA!Unpin
<1>2. /\ pa_pin' \in [pa_Page -> 0 .. pa_MaxPin] /\ pa_pin[p] \in Nat /\ pa_ref[p] \in Nat
      /\ pa_pin'[p] = IF pa_pin[p] > 0 THEN pa_pin[p] - 1 ELSE 0
      /\ \A q \in pa_Page \ {p} : pa_pin'[q] = pa_pin[q]
      /\ pa_ref' \in [pa_Page -> 0 .. pa_MaxRef] /\ pa_holds' \in [pa_Thread -> SUBSET pa_Page]
  BY <1>1 DEF PagesTypes, PA!ConstantsAssumption
<1>3. CASE pa_pin[p] <= 1 /\ pa_ref[p] <= 0
  <2>1. PA!GiveBack(t, {p}) /\ pa_overdrawn' = (pa_pin[p] = 0) /\ pa_overdrawn' \in BOOLEAN
    BY <1>1, <1>3
  <2>2. PagesTypes' /\ PagesWhole'
    BY <1>1, <1>2, <2>1, PagesOverdrawnOK
  <2>3. ASSUME pa_pin[p] # 0 PROVE PagesIInv'
    <3>1. pa_pin'[p] = 0
      BY <1>2, <1>3, <2>3
    <3>2. ~PagesInDeque(p)
      BY <2>3 DEF PagesInDeque, PagesDequeFree
    <3>3. \A u \in pa_Thread : p \notin pa_holds'[u] /\ p \notin pa_taken[u]
      BY <1>1, <1>2, <1>3 DEF PagesOneThread
    <3>4. \A q \in pa_Page \ {p} : pa_ref'[q] = pa_ref[q] /\ \A u \in pa_Thread : q \in pa_holds'[u] <=> q \in pa_holds[u]
      BY <1>1
    <3>5. \A u \in pa_Thread : pa_holds'[u] \subseteq pa_holds[u]
      BY <1>1
    <3> QED
      BY <1>1, <1>2, <2>1, <3>1, <3>2, <3>3, <3>4, <3>5, PagesOneBackOK
  <2> QED
    BY <2>1, <2>2, <2>3
<1>4. CASE ~(pa_pin[p] <= 1 /\ pa_ref[p] <= 0)
  <2>1. UNCHANGED <<pa_freeBlocks, pa_cut, pa_overdrawn>>
    BY <1>1, <1>4
  <2>2. pa_ref[p] = 0 /\ pa_pin[p] > 0 => pa_pin'[p] > 0
    BY <1>2, <1>4
  <2>3. ~(pa_pin[p] = 0 /\ pa_pin'[p] > 0)
    BY <1>2
  <2>4. PagesIInv'
    BY <1>1, <1>2, <2>1, <2>2, <2>3, PagesCountOK
  <2> QED
    BY <2>4 DEF PagesWhole, PagesDequeFree
<1> QED
  BY <1>3, <1>4

(* Every step keeps the invariant.                                         *)
LEMMA PagesNextInv == ASSUME PA!ConstantsAssumption, PagesInv, [PA!Next]_PA!vars PROVE PagesInv'
<1>0. ASSUME PagesIInv' PROVE PagesInv'
  BY <1>0 DEF PagesInv, PagesIInv, PagesWhole, PagesDequeFree
<1>1. ASSUME PagesIInv, NEW t \in pa_Thread, PA!Begin(t) PROVE PagesIInv'
  <2> USE DEF PagesIInv
  <2>1. /\ pa_wants' \in [pa_Thread -> 0 .. pa_MaxBatch] /\ pa_full' \in [pa_Thread -> BOOLEAN] /\ pa_holds[t] = {}
        /\ \A u \in pa_Thread : u # t => pa_wants'[u] = pa_wants[u]
        /\ UNCHANGED <<pa_freeBlocks, pa_ref, pa_pin, pa_cut, pa_taken, pa_holds, pa_known, pa_overdrawn>>
    BY <1>1 DEF PA!Begin, PagesTypes, PA!ConstantsAssumption
  <2>2. PagesTypes'
    BY <1>1, <2>1 DEF PagesTypes
  <2>3. PagesOneBatch'
    BY <1>1, <2>1 DEF PagesTypes, PagesOneBatch
  <2>4. PagesDequeOnce' /\ PagesDequeFree'
    BY <1>1, <2>1 DEF PagesDequeOnce, PagesDequeFree
  <2>5. PagesOneThread'
    BY <1>1, <2>1 DEF PagesOneThread
  <2>6. PagesNoneLost'
    BY <1>1, <2>1 DEF PagesInDeque, PagesNoneLost
  <2> QED
    BY <2>2, <2>3, <2>4, <2>5, <2>6
<1>2. ASSUME PagesIInv, NEW t \in pa_Thread, NEW p \in pa_Page, PA!RefUp(t, p) PROVE PagesIInv'
  <2>1. /\ p \in pa_holds[t] /\ pa_ref[p] < pa_MaxRef /\ pa_ref' = [pa_ref EXCEPT ![p] = @ + 1]
        /\ UNCHANGED <<pa_freeBlocks, pa_pin, pa_cut, pa_wants, pa_full, pa_taken, pa_holds, pa_known, pa_overdrawn>>
    BY <1>2 DEF PA!RefUp
  <2>2. /\ pa_ref' \in [pa_Page -> 0 .. pa_MaxRef] /\ pa_ref'[p] = pa_ref[p] + 1 /\ pa_ref[p] > 0 /\ pa_ref[p] \in Nat
        /\ \A q \in pa_Page \ {p} : pa_ref'[q] = pa_ref[q]
        /\ pa_pin' \in [pa_Page -> 0 .. pa_MaxPin]
    BY <1>2, <2>1 DEF PagesIInv, PagesTypes, PagesOneThread, PA!ConstantsAssumption
  <2> QED
    BY <1>2, <2>1, <2>2, PagesCountOK
<1>3. ASSUME PagesIInv, NEW t \in pa_Thread, NEW p \in pa_Page, PA!Pin(t, p) PROVE PagesIInv'
  <2>1. /\ p \in pa_holds[t] /\ pa_pin[p] < pa_MaxPin /\ pa_pin' = [pa_pin EXCEPT ![p] = @ + 1]
        /\ UNCHANGED <<pa_freeBlocks, pa_ref, pa_cut, pa_wants, pa_full, pa_taken, pa_holds, pa_known, pa_overdrawn>>
    BY <1>3 DEF PA!Pin
  <2>2. /\ pa_pin' \in [pa_Page -> 0 .. pa_MaxPin] /\ pa_pin'[p] = pa_pin[p] + 1 /\ pa_pin[p] \in Nat
        /\ \A q \in pa_Page \ {p} : pa_pin'[q] = pa_pin[q]
        /\ pa_ref' \in [pa_Page -> 0 .. pa_MaxRef]
    BY <1>3, <2>1 DEF PagesIInv, PagesTypes, PA!ConstantsAssumption
  <2> QED
    BY <1>3, <2>1, <2>2, PagesCountOK
<1>4. CASE UNCHANGED PA!vars
  BY <1>4 DEF PA!vars, PagesInv, PagesIInv, PagesWhole, PagesTypes, PagesOneBatch, PagesInDeque, PagesDequeOnce, PagesDequeFree,
              PagesOneThread, PagesNoneLost
<1>5. CASE PA!Next
  <2>1. PagesIInv /\ ~pa_overdrawn
    BY <1>5 DEF PA!Next, PagesInv
  <2>2. PICK t \in pa_Thread :
          \/ PA!Begin(t) \/ PA!Pop(t) \/ PA!Fail(t)
          \/ \E p \in pa_Page : PA!RefUp(t, p) \/ PA!Release(t, p) \/ PA!Pin(t, p) \/ PA!Unpin(t, p)
    BY <1>5 DEF PA!Next
  <2>3. ASSUME NEW p \in pa_Page, PA!Release(t, p) \/ PA!Unpin(t, p) PROVE PagesInv'
    BY <2>1, <2>3, PagesReleaseOK, PagesUnpinOK DEF PagesInv
  <2> QED
    BY <1>0, <1>1, <1>2, <1>3, <2>1, <2>2, <2>3, PagesPopOK, PagesFailOK
<1> QED
  BY <1>4, <1>5

(* The invariant implies both statements on the owners of pages.           *)
LEMMA PagesOwnersOK == ASSUME PA!ConstantsAssumption, PagesInv PROVE PA!OneOwner /\ PA!FreePagesAreWhole
<1>1. Cardinality({}) = 0 /\ \A x : Cardinality({x}) = 1
  BY FS_EmptySet, FS_Singleton
<1>2. ASSUME ~pa_overdrawn, NEW p \in pa_Page
      PROVE  IF pa_pin[p] > 0 /\ pa_ref[p] = 0 THEN PA!Owners(p) = 0 ELSE PA!Owners(p) = 1
  <2> DEFINE D == {i \in DOMAIN pa_freeBlocks : pa_freeBlocks[i] = p}
             H == {t \in pa_Thread : p \in pa_holds[t]}
             T == {t \in pa_Thread : p \in pa_taken[t]}
  <2> PagesIInv
    BY <1>2 DEF PagesInv
  <2> USE DEF PagesIInv
  <2>1. DOMAIN pa_freeBlocks = 1 .. Len(pa_freeBlocks) /\ pa_pin[p] \in Nat /\ pa_ref[p] \in Nat
    BY DEF PagesTypes, PA!ConstantsAssumption
  <2>0. PA!Owners(p) = Cardinality(D) + Cardinality(H) + Cardinality(T)
    BY PagesSize DEF PA!Owners
  <2> HIDE DEF D, H, T
  <2>2. CASE PagesInDeque(p)
    <3>1. PICK i \in 1 .. Len(pa_freeBlocks) : pa_freeBlocks[i] = p
      BY <2>2 DEF PagesInDeque
    <3>2. D = {i} /\ H = {} /\ T = {} /\ pa_pin[p] = 0
      BY <2>1, <3>1 DEF PagesDequeOnce, PagesDequeFree, D, H, T
    <3>3. Cardinality(D) + Cardinality(H) + Cardinality(T) = 1
      <4>1. Cardinality({i}) = 1 /\ Cardinality({}) = 0
        BY <1>1
      <4> QED
        BY <3>2, <4>1
    <3> QED
      BY <2>0, <3>2, <3>3
  <2>3. CASE \E t \in pa_Thread : p \in pa_holds[t]
    <3>1. PICK t \in pa_Thread : p \in pa_holds[t]
      BY <2>3
    <3>2. D = {} /\ H = {t} /\ T = {} /\ pa_ref[p] > 0
      BY <2>1, <3>1 DEF PagesOneThread, PagesDequeFree, D, H, T
    <3>3. Cardinality(D) + Cardinality(H) + Cardinality(T) = 1
      <4>1. Cardinality({t}) = 1 /\ Cardinality({}) = 0
        BY <1>1
      <4> QED
        BY <3>2, <4>1
    <3> QED
      BY <2>0, <3>2, <3>3
  <2>4. CASE \E t \in pa_Thread : p \in pa_taken[t]
    <3>1. PICK t \in pa_Thread : p \in pa_taken[t]
      BY <2>4
    <3>2. D = {} /\ H = {} /\ T = {t} /\ pa_ref[p] > 0
      BY <2>1, <3>1 DEF PagesOneThread, PagesDequeFree, D, H, T
    <3>3. Cardinality(D) + Cardinality(H) + Cardinality(T) = 1
      <4>1. Cardinality({t}) = 1 /\ Cardinality({}) = 0
        BY <1>1
      <4> QED
        BY <3>2, <4>1
    <3> QED
      BY <2>0, <3>2, <3>3
  <2>5. CASE pa_pin[p] > 0 /\ pa_ref[p] = 0
    <3>1. D = {} /\ H = {} /\ T = {}
      BY <2>1, <2>5 DEF PagesOneThread, PagesDequeFree, D, H, T
    <3> QED
      BY <1>1, <2>0, <2>5, <3>1
  <2> QED
    BY <2>2, <2>3, <2>4, <2>5 DEF PagesNoneLost
<1>3. PA!FreePagesAreWhole
  BY DEF PA!FreePagesAreWhole, PA!ToSet, PagesInv, PagesWhole, PagesTypes
<1> QED
  BY <1>2, <1>3 DEF PA!OneOwner

-----------------------------------------------------------------------------
(* The buffer of LMCache (MemoryAllocator).                                *)

(* An object has its fields, and its counters are never negative.          *)
BufferFields(r) ==
  /\ r = [start |-> r.start, size |-> r.size, ref |-> r.ref, pin |-> r.pin, valid |-> r.valid]
  /\ r.ref \in Nat /\ r.pin \in Nat /\ r.valid \in BOOLEAN

(* Whoever is in use is referred to or pinned.                             *)
BufferCounted ==
  /\ ma_obj = [o \in ma_Obj |-> ma_obj[o]]
  /\ \A o \in ma_Obj : BufferFields(ma_obj[o]) /\ (ma_obj[o].valid => ma_obj[o].ref > 0 \/ ma_obj[o].pin > 0)

(* The object of which one counter is set.                                 *)
LEMMA BufferFieldSet ==
  ASSUME NEW r, BufferFields(r), NEW n \in Nat
  PROVE  /\ BufferFields([r EXCEPT !.ref = n]) /\ [r EXCEPT !.ref = n].ref = n
         /\ [r EXCEPT !.ref = n].pin = r.pin /\ [r EXCEPT !.ref = n].valid = r.valid
         /\ BufferFields([r EXCEPT !.pin = n]) /\ [r EXCEPT !.pin = n].pin = n
         /\ [r EXCEPT !.pin = n].ref = r.ref /\ [r EXCEPT !.pin = n].valid = r.valid
BY DEF BufferFields

(* The object that is not valid any more.                                  *)
LEMMA BufferValidCleared ==
  ASSUME NEW r, BufferFields(r)
  PROVE  /\ BufferFields([r EXCEPT !.valid = FALSE]) /\ ~[r EXCEPT !.valid = FALSE].valid
         /\ [r EXCEPT !.valid = FALSE].ref = r.ref /\ [r EXCEPT !.valid = FALSE].pin = r.pin
<1>1. \A b \in BOOLEAN :
        /\ BufferFields([r EXCEPT !.valid = b]) /\ ([r EXCEPT !.valid = b].valid <=> b)
        /\ [r EXCEPT !.valid = b].ref = r.ref /\ [r EXCEPT !.valid = b].pin = r.pin
  BY DEF BufferFields
<1> QED
  BY <1>1, Zenon

(* No object of the buffer is in use at first.                             *)
LEMMA BufferInitCounted == ASSUME MA!ConstantsAssumption, MA!Init PROVE BufferCounted
BY DEF MA!Init, BufferCounted, BufferFields, MA!Gone

(* One object is kept or freed: what becomes of its counters.              *)
LEMMA BufferKeepOK ==
  ASSUME MA!ConstantsAssumption, BufferCounted, NEW o \in ma_Obj, NEW fields, BufferFields(fields),
         MA!Keep(o, fields), ma_obj[o].valid = fields.valid, fields.valid => fields.ref > 0 \/ fields.pin > 0
  PROVE  BufferCounted' /\ \A q \in ma_Obj : MA!FreedWhenUnused(q)
<1>1. /\ ma_obj' = [q \in ma_Obj |-> ma_obj'[q]] /\ ma_obj'[o] = fields
      /\ \A q \in ma_Obj : q # o => ma_obj'[q] = ma_obj[q]
  BY DEF MA!Keep, BufferCounted
<1> QED
  BY <1>1 DEF BufferCounted, MA!FreedWhenUnused

(* An object that nobody refers to or pins is freed, once.                 *)
LEMMA BufferFreeThenOK ==
  ASSUME MA!ConstantsAssumption, BufferCounted, NEW o \in ma_Obj, NEW fields, BufferFields(fields),
         MA!FreeThen(o, fields), fields.ref = 0, fields.pin = 0
  PROVE  BufferCounted' /\ \A q \in ma_Obj : MA!FreedWhenUnused(q)
<1>1. BufferFields([fields EXCEPT !.valid = FALSE]) /\ ~[fields EXCEPT !.valid = FALSE].valid
      /\ [fields EXCEPT !.valid = FALSE].ref = 0 /\ [fields EXCEPT !.valid = FALSE].pin = 0
  BY BufferValidCleared
<1>2. \/ ma_obj' = [ma_obj EXCEPT ![o] = [fields EXCEPT !.valid = FALSE]]
      \/ ~fields.valid /\ ma_obj' = [ma_obj EXCEPT ![o] = fields]
  <2>1. CASE fields.valid
    <3>1. ma_obj' = [ma_obj EXCEPT ![o] = [fields EXCEPT !.valid = FALSE]]
      BY <2>1, Zenon DEF MA!FreeThen
    <3> QED
      BY <3>1, Zenon
  <2>2. CASE ~ fields.valid
    BY <2>2 DEF MA!FreeThen
  <2> QED
    BY <2>1, <2>2
<1>3. /\ ma_obj' = [q \in ma_Obj |-> ma_obj'[q]] /\ \A q \in ma_Obj : q # o => ma_obj'[q] = ma_obj[q]
      /\ BufferFields(ma_obj'[o]) /\ ~ma_obj'[o].valid /\ ma_obj'[o].ref = 0 /\ ma_obj'[o].pin = 0
  BY <1>1, <1>2 DEF BufferCounted
<1> QED
  BY <1>3 DEF BufferCounted, MA!FreedWhenUnused

(* Every call keeps the counters of the objects, and frees only unused     *)
(* ones.                                                                   *)
LEMMA BufferNextCounted ==
  ASSUME MA!ConstantsAssumption, BufferCounted, [MA!Next]_MA!vars
  PROVE  BufferCounted' /\ \A o \in ma_Obj : MA!FreedWhenUnused(o)
<1>1. ASSUME NEW count \in 1 .. ma_MaxBatch, NEW raw \in ma_Raw, MA!Allocate(count, raw)
      PROVE  BufferCounted' /\ \A o \in ma_Obj : MA!FreedWhenUnused(o)
  <2>1. ma_obj' = [o \in ma_Obj |-> ma_obj'[o]]
    BY <1>1 DEF MA!Allocate
  <2>2. ASSUME NEW o \in ma_Obj
        PROVE  \/ ma_obj'[o] = ma_obj[o]
               \/ \E s, n : ma_obj'[o] = [start |-> s, size |-> n, ref |-> 1, pin |-> 0, valid |-> TRUE]
    BY <1>1 DEF MA!Allocate
  <2>3. ASSUME NEW o \in ma_Obj
        PROVE  /\ BufferFields(ma_obj'[o]) /\ (ma_obj'[o].valid => ma_obj'[o].ref > 0 \/ ma_obj'[o].pin > 0)
               /\ ma_obj[o].valid => ma_obj'[o].valid
    <3>1. CASE ma_obj'[o] = ma_obj[o]
      BY <3>1 DEF BufferCounted
    <3>2. CASE \E s, n : ma_obj'[o] = [start |-> s, size |-> n, ref |-> 1, pin |-> 0, valid |-> TRUE]
      <4>1. PICK s, n : ma_obj'[o] = [start |-> s, size |-> n, ref |-> 1, pin |-> 0, valid |-> TRUE]
        BY <3>2
      <4>2. BufferFields(ma_obj'[o]) /\ ma_obj'[o].valid /\ ma_obj'[o].ref = 1
        BY <4>1 DEF BufferFields
      <4> QED
        BY <4>2
    <3> QED
      BY <2>2, <3>1, <3>2
  <2> QED
    BY <2>1, <2>3 DEF BufferCounted, MA!FreedWhenUnused
<1>2. ASSUME NEW o \in ma_Obj, MA!RefUp(o) PROVE BufferCounted' /\ \A q \in ma_Obj : MA!FreedWhenUnused(q)
  <2>1. BufferFields(ma_obj[o]) /\ ma_obj[o].ref + 1 \in Nat /\ ma_obj[o].ref + 1 > 0
    BY <1>2 DEF BufferCounted, MA!RefUp, BufferFields, MA!ConstantsAssumption
  <2>2. MA!Keep(o, [ma_obj[o] EXCEPT !.ref = ma_obj[o].ref + 1])
    BY <1>2 DEF MA!RefUp
  <2>3. PICK n \in Nat : n > 0 /\ MA!Keep(o, [ma_obj[o] EXCEPT !.ref = n])
    BY <2>1, <2>2
  <2> DEFINE fields == [ma_obj[o] EXCEPT !.ref = n]
  <2>4. BufferFields(fields) /\ fields.ref = n /\ fields.valid = ma_obj[o].valid
    BY <2>1, BufferFieldSet
  <2> HIDE DEF fields
  <2>5. MA!Keep(o, fields)
    BY <2>3 DEF fields
  <2> QED
    BY <2>3, <2>4, <2>5, BufferKeepOK
<1>3. ASSUME NEW o \in ma_Obj, MA!RefDown(o) PROVE BufferCounted' /\ \A q \in ma_Obj : MA!FreedWhenUnused(q)
  <2>1. BufferFields(ma_obj[o]) /\ ma_obj[o].ref \in Nat /\ ma_obj[o].pin \in Nat
    BY DEF BufferCounted, BufferFields
  <2>2. CASE ma_obj[o].ref <= 0
    BY <1>3, <2>1, <2>2, BufferKeepOK DEF MA!RefDown, BufferCounted
  <2>3. CASE ma_obj[o].ref > 0
    <3>1. ma_obj[o].ref - 1 \in Nat
      BY <2>1, <2>3
    <3>2. PICK n \in Nat : IF n = 0 /\ ma_obj[o].pin = 0
                            THEN MA!FreeThen(o, [ma_obj[o] EXCEPT !.ref = n])
                            ELSE MA!Keep(o, [ma_obj[o] EXCEPT !.ref = n])
      <4> DEFINE m == ma_obj[o].ref - 1
                 f == [ma_obj[o] EXCEPT !.ref = m]
      <4>1. m \in Nat /\ f.ref = m /\ f.pin = ma_obj[o].pin
        BY <2>1, <3>1 DEF BufferFields
      <4>2. ~ (ma_obj[o].ref <= 0)
        BY <2>1, <2>3
      <4>3. IF f.ref = 0 /\ f.pin = 0 THEN MA!FreeThen(o, f) ELSE MA!Keep(o, f)
        BY <1>3, <4>2 DEF MA!RefDown
      <4> HIDE DEF m
      <4> QED
        BY <4>1, <4>3
    <3> DEFINE fields == [ma_obj[o] EXCEPT !.ref = n]
    <3>3. /\ BufferFields(fields) /\ fields.ref = n /\ fields.pin = ma_obj[o].pin
          /\ fields.valid = ma_obj[o].valid
      BY <2>1, BufferFieldSet
    <3>4. IF n = 0 /\ ma_obj[o].pin = 0 THEN MA!FreeThen(o, fields) ELSE MA!Keep(o, fields)
      BY <3>2
    <3> HIDE DEF fields
    <3> QED
      BY <2>1, <3>3, <3>4, BufferFreeThenOK, BufferKeepOK
  <2> QED
    BY <2>1, <2>2, <2>3
<1>4. ASSUME NEW o \in ma_Obj, MA!Pin(o) PROVE BufferCounted' /\ \A q \in ma_Obj : MA!FreedWhenUnused(q)
  <2>1. BufferFields(ma_obj[o]) /\ ma_obj[o].pin + 1 \in Nat /\ ma_obj[o].ref > 0
    BY <1>4 DEF BufferCounted, MA!Pin, BufferFields
  <2>2. MA!Keep(o, [ma_obj[o] EXCEPT !.pin = ma_obj[o].pin + 1])
    BY <1>4 DEF MA!Pin
  <2> QED
    BY <2>1, <2>2, BufferFieldSet, BufferKeepOK
<1>5. ASSUME NEW o \in ma_Obj, MA!Unpin(o) PROVE BufferCounted' /\ \A q \in ma_Obj : MA!FreedWhenUnused(q)
  <2> DEFINE pin == ma_obj[o].pin - 1
             left == IF pin < 0 THEN 0 ELSE pin
             fields == [ma_obj[o] EXCEPT !.pin = left]
  <2>1. BufferFields(ma_obj[o]) /\ ma_obj[o].ref \in Nat /\ left \in Nat /\ (pin <= 0 => left = 0) /\ (pin > 0 => left = pin)
    BY DEF BufferCounted, BufferFields
  <2>2. /\ BufferFields(fields) /\ fields.ref = ma_obj[o].ref /\ fields.pin = left
        /\ fields.valid = ma_obj[o].valid
    <3> HIDE DEF left
    <3>1. PICK n \in Nat : n = left
      BY <2>1
    <3>2. /\ BufferFields([ma_obj[o] EXCEPT !.pin = n]) /\ [ma_obj[o] EXCEPT !.pin = n].ref = ma_obj[o].ref
          /\ [ma_obj[o] EXCEPT !.pin = n].pin = n /\ [ma_obj[o] EXCEPT !.pin = n].valid = ma_obj[o].valid
      BY <2>1, BufferFieldSet
    <3> QED
      BY <3>1, <3>2
  <2>3. IF pin <= 0 /\ ma_obj[o].ref <= 0 THEN MA!FreeThen(o, fields) ELSE MA!Keep(o, fields)
    BY <1>5 DEF MA!Unpin
  <2> HIDE DEF left, fields
  <2>4. pin \in Int
    BY DEF BufferCounted, BufferFields
  <2> HIDE DEF pin
  <2> QED
    BY <2>1, <2>2, <2>3, <2>4, BufferFreeThenOK, BufferKeepOK
<1>6. ASSUME NEW objs \in MA!Batches, MA!BatchedFree(objs)
      PROVE  BufferCounted' /\ \A o \in ma_Obj : MA!FreedWhenUnused(o)
  <2>1. ma_obj' = [o \in ma_Obj |-> ma_obj'[o]]
    BY <1>6 DEF MA!BatchedFree
  <2>2. ASSUME NEW o \in ma_Obj
        PROVE  ma_obj'[o] = ma_obj[o] \/ ma_obj'[o] = [ma_obj[o] EXCEPT !.valid = FALSE]
    BY <1>6 DEF MA!BatchedFree
  <2>3. ASSUME NEW o \in ma_Obj
        PROVE  /\ BufferFields([ma_obj[o] EXCEPT !.valid = FALSE]) /\ ~[ma_obj[o] EXCEPT !.valid = FALSE].valid
               /\ [ma_obj[o] EXCEPT !.valid = FALSE].ref = ma_obj[o].ref
               /\ [ma_obj[o] EXCEPT !.valid = FALSE].pin = ma_obj[o].pin
    BY BufferValidCleared DEF BufferCounted
  <2> QED
    BY <2>1, <2>2, <2>3 DEF BufferCounted, MA!FreedWhenUnused
<1>7. CASE UNCHANGED MA!vars
  BY <1>7 DEF MA!vars, BufferCounted, MA!FreedWhenUnused
<1> QED
  BY <1>1, <1>2, <1>3, <1>4, <1>5, <1>6, <1>7, Zenon DEF MA!Next

(* A block within the buffer.                                              *)
BufferBlock(b) ==
  b.start \in Nat /\ b.size \in Nat /\ b.size > 0 /\ b.start + b.size <= ma_Size

(* The blocks that can be in a list.                                       *)
BufferBlocks == {b \in [start : Nat, size : Nat] : BufferBlock(b)}

(* The units of the buffer that a block of the list holds.                 *)
BufferUnits(list) == {u \in 0 .. ma_Size - 1 : \E b \in list : MA!Holds(b, u)}

(* No unit is in both.                                                     *)
BufferApart(b, c) == b.start + b.size <= c.start \/ c.start + c.size <= b.start

(* And they do not touch.                                                  *)
BufferGap(b, c) == b.start + b.size < c.start \/ c.start + c.size < b.start

(* A free list: blocks that do not touch each other.                       *)
BufferList(list) ==
  list \subseteq BufferBlocks /\ \A b, c \in list : b = c \/ BufferGap(b, c)

(* Two blocks are apart when they have no unit in common.                  *)
LEMMA BufferApartOK ==
  ASSUME ma_Size \in Nat, NEW b, BufferBlock(b), NEW c, BufferBlock(c)
  PROVE  /\ BufferApart(b, c) <=> \A u \in 0 .. ma_Size - 1 : ~ (MA!Holds(b, u) /\ MA!Holds(c, u))
         /\ \A u \in Int : MA!Holds(b, u) <=> b.start <= u /\ u < b.start + b.size
         /\ \A u \in Int : MA!Holds(b, u) => u \in 0 .. ma_Size - 1
<1>1. b.start \in Nat /\ b.size \in Nat /\ b.size > 0 /\ b.start + b.size <= ma_Size
  BY DEF BufferBlock
<1>2. c.start \in Nat /\ c.size \in Nat /\ c.size > 0 /\ c.start + c.size <= ma_Size
  BY DEF BufferBlock
<1>3. \A u \in Int : MA!Holds(b, u) <=> b.start <= u /\ u < b.start + b.size
  BY <1>1 DEF MA!Holds
<1>4. \A u \in Int : MA!Holds(c, u) <=> c.start <= u /\ u < c.start + c.size
  BY <1>2 DEF MA!Holds
<1>5. ASSUME BufferApart(b, c), NEW u \in 0 .. ma_Size - 1, MA!Holds(b, u), MA!Holds(c, u) PROVE FALSE
  BY <1>1, <1>2, <1>3, <1>4, <1>5 DEF BufferApart
<1>6. ASSUME ~BufferApart(b, c)
      PROVE  \E u \in 0 .. ma_Size - 1 : MA!Holds(b, u) /\ MA!Holds(c, u)
  <2>1. CASE b.start <= c.start
    <3>1. c.start \in 0 .. ma_Size - 1 /\ MA!Holds(b, c.start) /\ MA!Holds(c, c.start)
      BY <1>1, <1>2, <1>3, <1>4, <1>6, <2>1 DEF BufferApart
    <3> QED
      BY <3>1
  <2>2. CASE c.start <= b.start
    <3>1. b.start \in 0 .. ma_Size - 1 /\ MA!Holds(b, b.start) /\ MA!Holds(c, b.start)
      BY <1>1, <1>2, <1>3, <1>4, <1>6, <2>2 DEF BufferApart
    <3> QED
      BY <3>1
  <2> QED
    BY <1>1, <1>2, <2>1, <2>2
<1>7. \A u \in Int : MA!Holds(b, u) => u \in 0 .. ma_Size - 1
  BY <1>1, <1>3
<1> QED
  BY <1>3, <1>5, <1>6, <1>7

(* A block has its fields.                                                 *)
LEMMA BufferBlockOK ==
  ASSUME NEW s \in Nat, NEW n \in Nat, n > 0, s + n <= ma_Size
  PROVE  /\ MA!Block(s, n) \in BufferBlocks /\ MA!Block(s, n).start = s /\ MA!Block(s, n).size = n
         /\ \A b \in BufferBlocks : BufferBlock(b) /\ b = MA!Block(b.start, b.size)
         /\ \A b \in BufferBlocks : b.start = s /\ b.size = n => b = MA!Block(s, n)
BY DEF MA!Block, BufferBlock, BufferBlocks

(* The blocks that touch a block from one side are one at most.            *)
LEMMA BufferTouching ==
  ASSUME ma_Size \in Nat, NEW list, BufferList(list), NEW T \in SUBSET list,
         \A p, q \in T : p.start = q.start \/ p.start + p.size = q.start + q.size
  PROVE  \/ T = {} /\ MA!SumSet({p.size : p \in T}) = 0
         \/ \E p \in list : T = {p} /\ MA!SumSet({q.size : q \in T}) = p.size
<1>0. MA!SumSet({}) = 0 /\ \A x \in Nat : MA!SumSet({x}) = x
  BY SumSetOne DEF MA!SumSet, MA!FoldSet, MA!MapThenFoldSet, SumSet, FoldSet, MapThenFoldSet
<1>1. CASE T = {}
  BY <1>0, <1>1
<1>2. CASE T # {}
  <2>1. PICK p \in T : TRUE
    BY <1>2
  <2>2. \A b \in list : b.start \in Nat /\ b.size \in Nat /\ b.size > 0
    BY DEF BufferList, BufferBlocks, BufferBlock
  <2>3. ASSUME NEW q \in T PROVE q = p
    BY <2>1, <2>2 DEF BufferList, BufferGap
  <2>4. T = {p} /\ {q.size : q \in T} = {p.size} /\ p.size \in Nat
    BY <2>1, <2>2, <2>3
  <2> QED
    BY <1>0, <2>4
<1> QED
  BY <1>1, <1>2

(* A block given back and merged with those it touches: the list is one    *)
(* still, and holds the units of the block besides its own.                *)
LEMMA BufferCoalesceOK ==
  ASSUME ma_Size \in Nat, NEW list, BufferList(list), NEW b \in BufferBlocks,
         \A c \in list : BufferApart(b, c)
  PROVE  /\ BufferList(MA!Coalesce(list, b))
         /\ BufferUnits(MA!Coalesce(list, b)) = BufferUnits(list) \cup BufferUnits({b})
<1> DEFINE prev == {p \in MA!Before(list, b) : p.start + p.size = b.start}
           succ == {s \in MA!After(list, b) : b.start + b.size = s.start}
           before == MA!SumSet({p.size : p \in prev})
           after == MA!SumSet({s.size : s \in succ})
           m == MA!Block(b.start - before, b.size + before + after)
           rest == list \ (prev \cup succ)
<1>0. \A c \in list \cup {b} : BufferBlock(c) /\ c.start \in Nat /\ c.size \in Nat /\ c.size > 0 /\ c.start + c.size <= ma_Size
  BY DEF BufferList, BufferBlocks, BufferBlock
<1>1. MA!Coalesce(list, b) = rest \cup {m}
  BY DEF MA!Coalesce
<1>12. prev = {p \in list : p.start + p.size = b.start}
  <2> SUFFICES ASSUME NEW p \in list, p.start + p.size = b.start PROVE p \in MA!Before(list, b)
    BY DEF MA!Before
  <2>1. p.start <= b.start
    BY <1>0
  <2>2. ASSUME NEW q \in list, q.start <= b.start PROVE q.start <= p.start
    BY <1>0, <2>2 DEF BufferList, BufferGap, BufferApart
  <2> QED
    BY <2>1, <2>2 DEF MA!Before
<1>13. succ = {s \in list : b.start + b.size = s.start}
  <2> SUFFICES ASSUME NEW s \in list, b.start + b.size = s.start PROVE s \in MA!After(list, b)
    BY DEF MA!After
  <2>1. s.start > b.start
    BY <1>0
  <2>2. ASSUME NEW q \in list, q.start > b.start PROVE q.start >= s.start
    <3>1. BufferApart(b, q)
      OBVIOUS
    <3> QED
      BY <1>0, <2>2, <3>1 DEF BufferApart
  <2> QED
    BY <2>1, <2>2 DEF MA!After
<1>2. \/ prev = {} /\ before = 0
      \/ \E p \in list : prev = {p} /\ before = p.size /\ p.start + p.size = b.start
  <2>1. \A p, q \in prev : p.start = q.start \/ p.start + p.size = q.start + q.size
    OBVIOUS
  <2>2. \A p \in prev : p.start + p.size = b.start
    OBVIOUS
  <2>3. prev \in SUBSET list
    BY <1>12
  <2> HIDE DEF prev
  <2>4. (prev = {} /\ before = 0) \/ \E p \in list : prev = {p} /\ before = p.size
    BY Zenon, <2>1, <2>3, BufferTouching
  <2> HIDE DEF before
  <2> QED
    BY <2>2, <2>4
<1>3. \/ succ = {} /\ after = 0
      \/ \E s \in list : succ = {s} /\ after = s.size /\ b.start + b.size = s.start
  <2>1. \A p, q \in succ : p.start = q.start \/ p.start + p.size = q.start + q.size
    OBVIOUS
  <2>2. \A s \in succ : b.start + b.size = s.start
    OBVIOUS
  <2>3. succ \in SUBSET list
    BY <1>13
  <2> HIDE DEF succ
  <2>4. (succ = {} /\ after = 0) \/ \E s \in list : succ = {s} /\ after = s.size
    BY Zenon, <2>1, <2>3, BufferTouching
  <2> HIDE DEF after
  <2> QED
    BY <2>2, <2>4
<1>4. \A c \in list : c \in rest <=> c.start + c.size # b.start /\ b.start + b.size # c.start
  BY <1>12, <1>13
<1>5. before \in Nat /\ after \in Nat /\ b.start - before \in Nat /\ b.start + b.size + after <= ma_Size
  <2> HIDE DEF before, after, prev, succ
  <2> QED
    BY <1>0, <1>2, <1>3
<1>6. rest \subseteq list
  OBVIOUS
<1> HIDE DEF before, after, rest, m, prev, succ
<1>7. m \in BufferBlocks /\ BufferBlock(m) /\ m.start = b.start - before /\ m.size = b.size + before + after
  <2>1. b.start - before \in Nat /\ b.size + before + after \in Nat /\ b.size + before + after > 0
        /\ (b.start - before) + (b.size + before + after) <= ma_Size
    BY <1>0, <1>5
  <2> QED
    BY <2>1, BufferBlockOK DEF m
<1>8. ASSUME NEW c \in rest PROVE BufferGap(m, c)
  <2>1. c \in list /\ c.start + c.size # b.start /\ b.start + b.size # c.start
    BY <1>4, <1>6
  <2>2. BufferGap(b, c)
    BY <1>0, <2>1 DEF BufferGap, BufferApart
  <2>3. before = 0 \/ \E p \in list : before = p.size /\ p.start + p.size = b.start /\ p # c /\ BufferGap(p, c)
    BY <1>2, <2>1 DEF BufferList
  <2>4. after = 0 \/ \E s \in list : after = s.size /\ b.start + b.size = s.start /\ s # c /\ BufferGap(s, c)
    BY <1>3, <2>1 DEF BufferList
  <2> QED
    BY <1>0, <1>5, <1>7, <2>1, <2>2, <2>3, <2>4 DEF BufferGap
<1>9. BufferList(rest \cup {m})
  <2>1. rest \cup {m} \subseteq BufferBlocks
    BY <1>6, <1>7 DEF BufferList
  <2>2. ASSUME NEW c \in rest \cup {m}, NEW d \in rest \cup {m} PROVE c = d \/ BufferGap(c, d)
    <3>1. CASE c \in rest /\ d \in rest
      BY <1>6, <3>1 DEF BufferList
    <3>2. CASE c = m
      BY <1>8, <3>2
    <3>3. CASE d = m /\ c \in rest
      BY <1>8, <3>3 DEF BufferGap
    <3> QED
      BY <3>1, <3>2, <3>3
  <2> QED
    BY <2>1, <2>2 DEF BufferList
<1>10. ASSUME NEW u \in 0 .. ma_Size - 1
       PROVE  (\E c \in rest \cup {m} : MA!Holds(c, u)) <=> MA!Holds(b, u) \/ \E c \in list : MA!Holds(c, u)
  <2>1. \A c \in list \cup {b, m} : MA!Holds(c, u) <=> c.start <= u /\ u < c.start + c.size
    BY <1>0, <1>7, BufferApartOK
  <2>2. MA!Holds(m, u) <=> b.start - before <= u /\ u < b.start + b.size + after
    <3>1. MA!Holds(m, u) <=> m.start <= u /\ u < m.start + m.size
      BY <2>1
    <3> QED
      BY <1>0, <1>5, <1>7, <3>1
  <2>3. MA!Holds(b, u) => MA!Holds(m, u)
    BY <1>0, <1>5, <2>1, <2>2
  <2>4. ASSUME NEW c \in list, MA!Holds(c, u) PROVE \E d \in rest \cup {m} : MA!Holds(d, u)
    <3>1. CASE c \in rest
      BY <2>4, <3>1
    <3>2. CASE c.start + c.size = b.start
      <4>1. before = c.size
        BY <1>2, <1>12, <3>2
      <4>2. MA!Holds(m, u)
        BY <1>0, <1>5, <2>1, <2>2, <2>4, <3>2, <4>1
      <4> QED
        BY <4>2
    <3>3. CASE b.start + b.size = c.start
      <4>1. after = c.size
        BY <1>3, <1>13, <3>3
      <4>2. MA!Holds(m, u)
        BY <1>0, <1>5, <2>1, <2>2, <2>4, <3>3, <4>1
      <4> QED
        BY <4>2
    <3> QED
      BY <1>4, <3>1, <3>2, <3>3
  <2>5. ASSUME MA!Holds(m, u) PROVE MA!Holds(b, u) \/ \E c \in list : MA!Holds(c, u)
    <3>1. CASE u < b.start
      <4>1. before > 0
        BY <1>0, <1>5, <2>2, <2>5, <3>1
      <4>2. PICK p \in list : before = p.size /\ p.start + p.size = b.start
        BY <1>2, <4>1
      <4>3. MA!Holds(p, u)
        BY <1>0, <2>1, <2>2, <2>5, <3>1, <4>2
      <4> QED
        BY <4>3
    <3>2. CASE u >= b.start + b.size
      <4>1. after > 0
        BY <1>0, <1>5, <2>2, <2>5, <3>2
      <4>2. PICK p \in list : after = p.size /\ b.start + b.size = p.start
        BY <1>3, <4>1
      <4>3. MA!Holds(p, u)
        BY <1>0, <2>1, <2>2, <2>5, <3>2, <4>2
      <4> QED
        BY <4>3
    <3>3. CASE b.start <= u /\ u < b.start + b.size
      BY <2>1, <3>3
    <3> QED
      BY <1>0, <3>1, <3>2, <3>3
  <2> QED
    BY <1>6, <2>3, <2>4, <2>5
<1>11. BufferUnits(rest \cup {m}) = BufferUnits(list) \cup BufferUnits({b})
  BY <1>10 DEF BufferUnits
<1> QED
  BY <1>1, <1>9, <1>11

(* The first block that is large enough loses its front: the list is one   *)
(* still, and holds the units in front no more.                            *)
LEMMA BufferTakeFirstOK ==
  ASSUME ma_Size \in Nat, BufferList(ma_free), NEW n \in Nat, n > 0, MA!Fits(n) # {}
  PROVE  /\ MA!First(n) \in ma_free /\ MA!First(n).size >= n
         /\ MA!Block(MA!First(n).start, n) \in BufferBlocks
         /\ BufferList(MA!TakeFirst(n))
         /\ BufferUnits(MA!TakeFirst(n)) = BufferUnits(ma_free) \ BufferUnits({MA!Block(MA!First(n).start, n)})
         /\ BufferUnits({MA!Block(MA!First(n).start, n)}) \subseteq BufferUnits(ma_free)
<1> DEFINE b == MA!First(n)
           front == MA!Block(b.start, n)
           back == MA!Block(b.start + n, b.size - n)
           rest == ma_free \ {b}
<1>0. \A c \in ma_free : BufferBlock(c) /\ c.start \in Nat /\ c.size \in Nat /\ c.size > 0 /\ c.start + c.size <= ma_Size
  BY DEF BufferList, BufferBlocks, BufferBlock
<1>1. b \in ma_free /\ b.size >= n
  <2> DEFINE starts == [c \in MA!Fits(n) |-> c.start]
  <2>1. \A c \in MA!Fits(n) : starts[c] \in Nat
    BY <1>0 DEF MA!Fits
  <2>2. \E c \in MA!Fits(n) : \A d \in MA!Fits(n) : starts[c] <= starts[d]
    <3> HIDE DEF starts
    <3> QED
      BY <2>1, LeastExists
  <2>3. \E c \in MA!Fits(n) : \A d \in MA!Fits(n) : c.start <= d.start
    BY <2>2
  <2>4. b \in MA!Fits(n)
    BY <2>3 DEF MA!First
  <2> HIDE DEF b
  <2> QED
    BY <2>4 DEF MA!Fits
<1>2. MA!TakeFirst(n) = rest \cup (IF b.size > n THEN {back} ELSE {})
  BY DEF MA!TakeFirst
<1> HIDE DEF b
<1>3. b.start \in Nat /\ b.size \in Nat /\ b.start + b.size <= ma_Size
  BY <1>0, <1>1
<1>4. front \in BufferBlocks /\ BufferBlock(front) /\ front.start = b.start /\ front.size = n
  BY <1>1, <1>3, BufferBlockOK
<1>5. b.size > n => back \in BufferBlocks /\ BufferBlock(back) /\ back.start = b.start + n /\ back.size = b.size - n
  <2> SUFFICES ASSUME b.size > n PROVE back \in BufferBlocks /\ BufferBlock(back) /\ back.start = b.start + n /\ back.size = b.size - n
    OBVIOUS
  <2>1. b.start + n \in Nat /\ b.size - n \in Nat /\ b.size - n > 0 /\ (b.start + n) + (b.size - n) <= ma_Size
    BY <1>3
  <2> QED
    BY <2>1, BufferBlockOK
<1> DEFINE list == rest \cup (IF b.size > n THEN {back} ELSE {})
<1> HIDE DEF front, back
<1>6. \A c \in rest : c \in ma_free /\ c # b /\ BufferGap(b, c)
  BY <1>1 DEF BufferList
<1>7. BufferList(list)
  <2>1. list \subseteq BufferBlocks
    BY <1>5 DEF BufferList
  <2>2. ASSUME b.size > n, NEW c \in rest PROVE BufferGap(back, c) /\ BufferGap(c, back)
    BY <1>0, <1>3, <1>5, <1>6, <2>2 DEF BufferGap
  <2>3. ASSUME NEW c \in list, NEW d \in list PROVE c = d \/ BufferGap(c, d)
    <3>1. CASE c \in rest /\ d \in rest
      BY <3>1 DEF BufferList
    <3>2. CASE c \notin rest \/ d \notin rest
      BY <2>2, <3>2
    <3> QED
      BY <3>1, <3>2
  <2> HIDE DEF list
  <2> QED
    BY <2>1, <2>3 DEF BufferList
<1>8. ASSUME NEW u \in 0 .. ma_Size - 1
      PROVE  /\ (\E c \in list : MA!Holds(c, u)) <=> (\E c \in ma_free : MA!Holds(c, u)) /\ ~MA!Holds(front, u)
             /\ MA!Holds(front, u) => MA!Holds(b, u)
  <2>1. \A c \in ma_free : MA!Holds(c, u) <=> c.start <= u /\ u < c.start + c.size
    BY <1>0, BufferApartOK
  <2>2. MA!Holds(front, u) <=> b.start <= u /\ u < b.start + n
    <3>1. MA!Holds(front, u) <=> front.start <= u /\ u < front.start + front.size
      BY <1>4, BufferApartOK
    <3> QED
      BY <1>4, <3>1
  <2>3. b.size > n => (MA!Holds(back, u) <=> b.start + n <= u /\ u < b.start + b.size)
    <3> SUFFICES ASSUME b.size > n PROVE MA!Holds(back, u) <=> b.start + n <= u /\ u < b.start + b.size
      OBVIOUS
    <3>1. MA!Holds(back, u) <=> back.start <= u /\ u < back.start + back.size
      BY <1>5, BufferApartOK
    <3> QED
      BY <1>3, <1>5, <3>1
  <2>4. MA!Holds(b, u) <=> b.start <= u /\ u < b.start + b.size
    BY <1>1, <2>1
  <2>5. MA!Holds(b, u) /\ ~MA!Holds(front, u) <=> b.size > n /\ MA!Holds(back, u)
    BY <1>1, <1>3, <2>2, <2>3, <2>4
  <2>6. ASSUME NEW c \in rest PROVE ~ (MA!Holds(c, u) /\ MA!Holds(b, u))
    BY <1>0, <1>1, <1>6, <2>1 DEF BufferGap
  <2>7. MA!Holds(front, u) => MA!Holds(b, u)
    BY <1>1, <1>3, <2>2, <2>4
  <2>8. (\E c \in list : MA!Holds(c, u)) <=> (b.size > n /\ MA!Holds(back, u)) \/ \E c \in rest : MA!Holds(c, u)
    OBVIOUS
  <2>9. (\E c \in ma_free : MA!Holds(c, u)) <=> MA!Holds(b, u) \/ \E c \in rest : MA!Holds(c, u)
    BY <1>1
  <2> HIDE DEF rest, list
  <2> QED
    BY <2>5, <2>6, <2>7, <2>8, <2>9
<1>9. BufferUnits(list) = BufferUnits(ma_free) \ BufferUnits({front}) /\ BufferUnits({front}) \subseteq BufferUnits(ma_free)
  <2> HIDE DEF list
  <2> QED
    BY <1>1, <1>8 DEF BufferUnits
<1> QED
  BY <1>1, <1>2, <1>4, <1>7, <1>9 DEF front, b

(* The fold of the merges.                                                 *)
FC == INSTANCE Folding WITH Op <- MA!Coalesce

(* The fold of the model is that one.                                      *)
LEMMA BufferFoldIs ==
  ASSUME NEW list, NEW q PROVE MA!FoldLeft(MA!Coalesce, list, q) = FC!Fold(list, q)
BY DEF MA!FoldLeft, MA!MapThenFoldSet, FC!Fold, FC!IsFolding, MA!Max, FC!Greatest

(* The units of the blocks of a sequence.                                  *)
BufferBlocksUnits(q, i) == {u \in 0 .. ma_Size - 1 : \E j \in 1 .. i : MA!Holds(q[j], u)}

(* Blocks given back one after the other, none of whose units is free or   *)
(* in another of them: the list is one still, and holds all their units.   *)
LEMMA BufferCoalescedOK ==
  ASSUME ma_Size \in Nat, NEW list, BufferList(list), NEW q \in Seq(BufferBlocks),
         \A j \in 1 .. Len(q) : \A c \in list : BufferApart(q[j], c),
         \A j, k \in 1 .. Len(q) : j = k \/ BufferApart(q[j], q[k])
  PROVE  /\ BufferList(MA!FoldLeft(MA!Coalesce, list, q))
         /\ BufferUnits(MA!FoldLeft(MA!Coalesce, list, q)) = BufferUnits(list) \cup BufferBlocksUnits(q, Len(q))
<1> DEFINE Reached(i) == {l \in SUBSET BufferBlocks : BufferList(l) /\ BufferUnits(l) = BufferUnits(list) \cup BufferBlocksUnits(q, i)}
           R == [i \in 0 .. Len(q) |-> Reached(i)]
<1>0. Len(q) \in Nat /\ \A j \in 1 .. Len(q) : q[j] \in BufferBlocks /\ BufferBlock(q[j])
  BY DEF BufferBlocks
<1>1. list \in Reached(0)
  BY DEF BufferList, BufferBlocksUnits
<1>2. ASSUME NEW i \in 1 .. Len(q), NEW l \in Reached(i - 1) PROVE MA!Coalesce(l, q[i]) \in Reached(i)
  <2>1. BufferList(l) /\ BufferUnits(l) = BufferUnits(list) \cup BufferBlocksUnits(q, i - 1)
    BY <1>2
  <2>2. \A c \in l : BufferBlock(c)
    BY <2>1 DEF BufferList, BufferBlocks
  <2>3. ASSUME NEW c \in l PROVE BufferApart(q[i], c)
    <3> SUFFICES ASSUME NEW u \in 0 .. ma_Size - 1, MA!Holds(q[i], u), MA!Holds(c, u) PROVE FALSE
      BY <1>0, <2>2, BufferApartOK
    <3>1. u \in BufferUnits(l)
      BY DEF BufferUnits
    <3>2. CASE u \in BufferUnits(list)
      <4>1. PICK d \in list : MA!Holds(d, u)
        BY <3>2 DEF BufferUnits
      <4>2. BufferApart(q[i], d) /\ BufferBlock(d)
        BY DEF BufferList, BufferBlocks
      <4> QED
        BY <1>0, <4>1, <4>2, BufferApartOK
    <3>3. CASE u \in BufferBlocksUnits(q, i - 1)
      <4>1. PICK j \in 1 .. i - 1 : MA!Holds(q[j], u)
        BY <3>3 DEF BufferBlocksUnits
      <4>2. j \in 1 .. Len(q) /\ j # i
        BY <1>0
      <4>3. BufferApart(q[i], q[j])
        BY <4>2
      <4> QED
        BY <1>0, <4>1, <4>2, <4>3, BufferApartOK
    <3> QED
      BY <2>1, <3>1, <3>2, <3>3
  <2>4. /\ BufferList(MA!Coalesce(l, q[i]))
        /\ BufferUnits(MA!Coalesce(l, q[i])) = BufferUnits(l) \cup BufferUnits({q[i]})
    BY <1>0, <2>1, <2>3, BufferCoalesceOK
  <2>5. BufferBlocksUnits(q, i) = BufferBlocksUnits(q, i - 1) \cup BufferUnits({q[i]})
    <3>1. 1 .. i = (1 .. i - 1) \cup {i}
      BY <1>0
    <3> QED
      BY <3>1 DEF BufferBlocksUnits, BufferUnits
  <2>6. MA!Coalesce(l, q[i]) \subseteq BufferBlocks
    BY <2>4 DEF BufferList
  <2> QED
    BY <2>1, <2>4, <2>5, <2>6
<1> HIDE DEF Reached
<1>3. list \in R[0] /\ \A i \in 1 .. Len(q) : \A l \in R[i - 1] : MA!Coalesce(l, q[i]) \in R[i]
  BY <1>0, <1>1, <1>2
<1>4. R[Len(q)] = Reached(Len(q))
  BY <1>0
<1> HIDE DEF R
<1>5. FC!Fold(list, q) \in R[Len(q)]
  BY <1>3, FC!FoldReaches
<1> QED
  BY <1>4, <1>5, BufferFoldIs DEF Reached

(* The units that the objects of a set hold.                               *)
BufferCells(S) == {u \in 0 .. ma_Size - 1 : \E o \in S : MA!Holds(ma_obj[o], u)}

(* Whoever is in use has a part of the buffer to itself.                   *)
BufferObjects ==
  /\ MA!InUse \subseteq ma_Obj
  /\ \A o \in MA!InUse : BufferBlock(ma_obj[o])
  /\ \A o, q \in MA!InUse : o = q \/ BufferApart(ma_obj[o], ma_obj[q])

BufferSizes(S) == [o \in S |-> ma_obj[o].size]

(* The sum that the model speaks of is the sum of these sizes.             *)
LEMMA BufferTotalIs ==
  ASSUME NEW S, IsFiniteSet(S)
  PROVE  MA!MapThenSumSet(LAMBDA o : ma_obj[o].size, S) = Total(BufferSizes(S), S)
<1> DEFINE F(g) == [s \in SUBSET S |-> IF s = {} THEN 0
                      ELSE LET o == CHOOSE o \in s : TRUE IN ma_obj[o].size + g[s \ {o}]]
           G(g) == [s \in SUBSET S |-> IF s = {} THEN 0
                      ELSE LET o == CHOOSE o \in s : TRUE IN BufferSizes(S)[o] + g[s \ {o}]]
           iter == CHOOSE g : g = F(g)
<1>1. MA!MapThenSumSet(LAMBDA o : ma_obj[o].size, S) = iter[S]
  BY DEF MA!MapThenSumSet, MA!MapThenFoldSet
<1>2. ASSUME NEW g PROVE F(g) = G(g)
  <2>1. ASSUME NEW s \in SUBSET S PROVE F(g)[s] = G(g)[s]
    <3>1. CASE s # {}
      <4> DEFINE o == CHOOSE o \in s : TRUE
      <4>1. o \in S
        BY <3>1
      <4> HIDE DEF o
      <4>2. BufferSizes(S)[o] = ma_obj[o].size
        BY <4>1 DEF BufferSizes
      <4> QED
        BY <3>1, <4>2 DEF o
    <3> QED
      BY <3>1
  <2> QED
    BY <2>1
<1>4. PICK g : Sums(BufferSizes(S), S, g)
  BY SumsExist
<1>5. g = F(g)
  BY <1>2, <1>4 DEF Sums
<1>6. iter = F(iter)
  <2> HIDE DEF F
  <2> QED
    BY <1>5
<1>7. Sums(BufferSizes(S), S, iter)
  <2> HIDE DEF iter
  <2> QED
    BY SMTT(30), <1>2, <1>6 DEF Sums
<1> QED
  BY <1>1, <1>7, TotalIs

(* The sizes of the objects in a set add up to the units they hold.        *)
LEMMA BufferCellsTotal ==
  ASSUME ma_Size \in Nat, BufferObjects, NEW S \in SUBSET MA!InUse, IsFiniteSet(S)
  PROVE  /\ MA!MapThenSumSet(LAMBDA o : ma_obj[o].size, S) = Cardinality(BufferCells(S))
         /\ IsFiniteSet(BufferCells(S)) /\ Cardinality(BufferCells(S)) \in 0 .. ma_Size
<1> DEFINE f == BufferSizes(S)
           T == {s \in SUBSET S : Total(f, s) = Cardinality(BufferCells(s))}
<1>0. ASSUME NEW s PROVE IsFiniteSet(BufferCells(s)) /\ Cardinality(BufferCells(s)) \in 0 .. ma_Size
  <2>1. IsFiniteSet(0 .. ma_Size - 1) /\ Cardinality(0 .. ma_Size - 1) = ma_Size
    BY FS_Interval
  <2>2. BufferCells(s) \subseteq 0 .. ma_Size - 1
    BY DEF BufferCells
  <2> QED
    BY <2>1, <2>2, FS_Subset, FS_CardinalityType
<1>1. {} \in T
  <2>1. BufferCells({}) = {}
    BY DEF BufferCells
  <2> QED
    BY <2>1, TotalEmpty, FS_EmptySet
<1>2. \A x \in S : f[x] = ma_obj[x].size /\ f[x] \in Nat /\ BufferBlock(ma_obj[x])
  BY DEF BufferSizes, BufferObjects, BufferBlock
<1>3. ASSUME NEW s \in SUBSET S, s # {}, \A x \in s : s \ {x} \in T PROVE s \in T
  <2>1. PICK x \in s : TRUE
    BY <1>3
  <2>2. Total(f, s) = f[x] + Total(f, s \ {x})
    <3>1. IsFiniteSet(s) /\ \A y \in s : f[y] \in Nat
      BY <1>2, FS_Subset
    <3> HIDE DEF f
    <3> QED
      BY <3>1, TotalSplit
  <2>3. Total(f, s \ {x}) = Cardinality(BufferCells(s \ {x}))
    BY <1>3
  <2> DEFINE r == ma_obj[x]
             cells == r.start .. r.start + r.size - 1
  <2>4. r.start \in Nat /\ r.size \in Nat /\ r.size > 0 /\ r.start + r.size <= ma_Size
    BY <1>2 DEF BufferBlock
  <2>5. IsFiniteSet(cells) /\ Cardinality(cells) = r.size
    <3> DEFINE last == r.start + r.size - 1
    <3>1. r.start \in Int /\ last \in Int /\ ~(r.start > last) /\ last - r.start + 1 = r.size
      <4> HIDE DEF r
      <4> QED
        BY <2>4
    <3> HIDE DEF last, r
    <3>2. IsFiniteSet(r.start .. last) /\ Cardinality(r.start .. last) = r.size
      BY <3>1, FS_Interval
    <3> QED
      BY <3>2 DEF last
  <2>6. BufferCells(s) = BufferCells(s \ {x}) \cup cells
    <3>1. \A u \in 0 .. ma_Size - 1 : MA!Holds(r, u) <=> u \in cells
      BY DEF MA!Holds
    <3>2. cells \subseteq 0 .. ma_Size - 1
      <4> HIDE DEF r
      <4> QED
        BY <2>4
    <3> HIDE DEF cells
    <3> QED
      BY <2>1, <3>1, <3>2 DEF BufferCells
  <2>7. BufferCells(s \ {x}) \cap cells = {}
    <3> SUFFICES ASSUME NEW u \in BufferCells(s \ {x}), u \in cells PROVE FALSE
      OBVIOUS
    <3>1. PICK y \in s \ {x} : MA!Holds(ma_obj[y], u)
      BY DEF BufferCells
    <3>2. MA!Holds(ma_obj[x], u) /\ u \in 0 .. ma_Size - 1
      BY DEF MA!Holds, BufferCells
    <3>3. BufferApart(ma_obj[x], ma_obj[y]) /\ BufferBlock(ma_obj[x]) /\ BufferBlock(ma_obj[y])
      BY <1>2, <2>1, <3>1 DEF BufferObjects
    <3> HIDE DEF cells
    <3> QED
      BY <3>1, <3>2, <3>3, BufferApartOK
  <2> HIDE DEF cells
  <2>8. Cardinality(BufferCells(s)) = Cardinality(BufferCells(s \ {x})) + r.size
    <3>1. Cardinality(BufferCells(s \ {x}) \cup cells) = Cardinality(BufferCells(s \ {x})) + Cardinality(cells) - Cardinality({})
      BY <1>0, <2>5, <2>7, FS_Union
    <3>2. Cardinality({}) = 0 /\ Cardinality(BufferCells(s \ {x})) \in Nat
      BY <1>0, FS_EmptySet
    <3> QED
      BY <2>4, <2>5, <2>6, <3>1, <3>2
  <2>9. f[x] = r.size /\ Cardinality(BufferCells(s \ {x})) \in Nat
    BY <1>0, <1>2
  <2> HIDE DEF f, r
  <2>10. Total(f, s) = Cardinality(BufferCells(s))
    BY <2>2, <2>3, <2>4, <2>8, <2>9
  <2> QED
    BY <2>10
<1> HIDE DEF T
<1>4. S \in T
  BY <1>1, <1>3, BySize
<1> QED
  BY <1>0, <1>4, BufferTotalIs DEF T

(* The fold that gathers the objects of a batch.                           *)
FG == INSTANCE Folding WITH Op <- MA!Gather

(* The fold of the model is that one.                                      *)
LEMMA BufferGatherIs ==
  ASSUME NEW base, NEW q PROVE MA!FoldLeft(MA!Gather, base, q) = FG!Fold(base, q)
BY DEF MA!FoldLeft, MA!MapThenFoldSet, FG!Fold, FG!IsFolding, MA!Max, FG!Greatest

(* One valid object was gathered so far: curr counts from the first of the *)
(* list.                                                                   *)
BufferFirstOnly(objs, i, acc) == \E k \in 1 .. i :
  /\ ma_obj[objs[k]].valid /\ \A j \in 1 .. i : j # k => ~ma_obj[objs[j]].valid
  /\ acc.blocks = <<MA!Block(ma_obj[objs[k]].start, ma_obj[objs[k]].size)>>
  /\ acc.curr = ma_obj[objs[1]].start + ma_obj[objs[k]].size

(* What is gathered of the first i objects: blocks that are apart and hold *)
(* the units of those that are valid, and curr is the end of the last but  *)
(* for the first one.                                                      *)
BufferGathered(objs, i, acc) ==
  /\ \A j, k \in 1 .. Len(acc.blocks) : j = k \/ BufferApart(acc.blocks[j], acc.blocks[k])
  /\ BufferBlocksUnits(acc.blocks, Len(acc.blocks)) = BufferCells({objs[m] : m \in 1 .. i} \cap MA!InUse)
  /\ acc.blocks = <<>> =>
       acc.curr = ma_obj[objs[1]].start /\ \A j \in 1 .. i : ~ma_obj[objs[j]].valid
  /\ acc.blocks # <<>> =>
       \/ acc.curr = acc.blocks[Len(acc.blocks)].start + acc.blocks[Len(acc.blocks)].size
       \/ BufferFirstOnly(objs, i, acc)

(* The last block of a sequence that is replaced.                          *)
LEMMA BufferLastSet ==
  ASSUME NEW B \in Seq(BufferBlocks), B # <<>>, NEW m \in Nat,
         BufferBlock(MA!Block(B[Len(B)].start, B[Len(B)].size + m))
  PROVE  LET n == Len(B)
             C == [B EXCEPT ![n].size = @ + m]
         IN  /\ n \in 1 .. n /\ C \in Seq(BufferBlocks) /\ Len(C) = n
             /\ C[n] = MA!Block(B[n].start, B[n].size + m)
             /\ \A j \in 1 .. n : j # n => C[j] = B[j]
<1> DEFINE n == Len(B)
           C == [B EXCEPT ![n].size = @ + m]
           b == MA!Block(B[n].start, B[n].size + m)
<1>1. n \in Nat /\ n \in 1 .. n /\ DOMAIN B = 1 .. n /\ B[n] \in BufferBlocks
  BY DEF n
<1>2. [B[n] EXCEPT !.size = B[n].size + m] = b
  BY <1>1 DEF BufferBlocks, MA!Block
<1>3. b \in BufferBlocks
  BY <1>1 DEF BufferBlocks, MA!Block, BufferBlock
<1>4. C = [B EXCEPT ![n] = b]
  BY <1>2
<1> HIDE DEF C, b, n
<1>5. C \in Seq(BufferBlocks) /\ Len(C) = n
  BY <1>1, <1>3, <1>4 DEF n
<1>6. C[n] = b /\ \A j \in 1 .. n : j # n => C[j] = B[j]
  BY <1>1, <1>4
<1> QED
  BY <1>1, <1>5, <1>6 DEF C, b, n

(* One more object is gathered.                                            *)
LEMMA BufferGatherOK ==
  ASSUME ma_Size \in Nat, BufferObjects, NEW objs \in Seq(ma_Obj), MA!IsInjective(objs), NEW i \in 1 .. Len(objs),
         ~MA!Strays(objs), NEW acc \in [blocks : Seq(BufferBlocks), curr : Int], BufferGathered(objs, i - 1, acc)
  PROVE  /\ MA!Gather(acc, objs[i]) \in [blocks : Seq(BufferBlocks), curr : Int]
         /\ BufferGathered(objs, i, MA!Gather(acc, objs[i]))
<1> DEFINE o == objs[i]
           f == ma_obj[o]
           B == acc.blocks
           n == Len(B)
           before == {objs[m] : m \in 1 .. i - 1} \cap MA!InUse
           after == {objs[m] : m \in 1 .. i} \cap MA!InUse
           b == MA!Block(f.start, f.size)
<1>0. /\ B \in Seq(BufferBlocks) /\ acc.curr \in Int /\ n \in Nat /\ o \in ma_Obj /\ i \in Nat /\ i >= 1
      /\ acc = [blocks |-> B, curr |-> acc.curr]
  OBVIOUS
<1>1. \A j \in 1 .. n : B[j] \in BufferBlocks /\ BufferBlock(B[j])
  BY <1>0 DEF BufferBlocks
<1>2. {objs[m] : m \in 1 .. i} = {objs[m] : m \in 1 .. i - 1} \cup {o}
  <2>1. 1 .. i = (1 .. i - 1) \cup {i}
    BY <1>0
  <2> QED
    BY <2>1
<1>3. CASE ~f.valid
  <2>1. MA!Gather(acc, o) = acc
    BY <1>3 DEF MA!Gather
  <2>2. after = before
    BY <1>2, <1>3 DEF MA!InUse
  <2>3. \A j \in 1 .. i : j \in 1 .. i - 1 \/ j = i
    BY <1>0
  <2>4. BufferFirstOnly(objs, i - 1, acc) => BufferFirstOnly(objs, i, acc)
    <3> SUFFICES ASSUME BufferFirstOnly(objs, i - 1, acc) PROVE BufferFirstOnly(objs, i, acc)
      OBVIOUS
    <3>1. PICK k \in 1 .. i - 1 :
            /\ ma_obj[objs[k]].valid /\ \A j \in 1 .. i - 1 : j # k => ~ma_obj[objs[j]].valid
            /\ acc.blocks = <<MA!Block(ma_obj[objs[k]].start, ma_obj[objs[k]].size)>>
            /\ acc.curr = ma_obj[objs[1]].start + ma_obj[objs[k]].size
      BY DEF BufferFirstOnly
    <3>2. k \in 1 .. i /\ \A j \in 1 .. i : j # k => ~ma_obj[objs[j]].valid
      BY <1>0, <1>3, <2>3, <3>1
    <3> QED
      BY <3>1, <3>2 DEF BufferFirstOnly
  <2>5. B = <<>> => \A j \in 1 .. i : ~ma_obj[objs[j]].valid
    BY <1>3, <2>3 DEF BufferGathered
  <2>6. BufferGathered(objs, i, acc)
    <3> HIDE DEF after, before
    <3> QED
      BY <2>2, <2>4, <2>5 DEF BufferGathered, after, before
  <2> QED
    BY <2>1, <2>6
<1>4. CASE f.valid
  <2>1. o \in MA!InUse /\ BufferBlock(f)
    BY <1>0, <1>4 DEF MA!InUse, BufferObjects
  <2>2. f.start \in Nat /\ f.size \in Nat /\ f.size > 0 /\ f.start + f.size <= ma_Size
    BY <2>1 DEF BufferBlock
  <2>3. b \in BufferBlocks /\ BufferBlock(b) /\ b.start = f.start /\ b.size = f.size
    BY <2>2, BufferBlockOK
  <2>4. BufferCells(after) = BufferCells(before) \cup BufferUnits({b})
    <3>1. after = before \cup {o}
      BY <1>2, <2>1
    <3>2. \A u : MA!Holds(b, u) <=> MA!Holds(ma_obj[o], u)
      BY <2>3 DEF MA!Holds
    <3> HIDE DEF after, before, b
    <3> QED
      BY <3>1, <3>2 DEF BufferCells, BufferUnits
  <2>5. ASSUME NEW j \in 1 .. n PROVE BufferApart(B[j], b)
    <3> SUFFICES ASSUME NEW u \in 0 .. ma_Size - 1, MA!Holds(B[j], u), MA!Holds(b, u) PROVE FALSE
      BY <1>1, <2>3, BufferApartOK
    <3>1. u \in BufferCells(before)
      BY DEF BufferGathered, BufferBlocksUnits
    <3>2. PICK q \in before : MA!Holds(ma_obj[q], u)
      BY <3>1 DEF BufferCells
    <3>3. PICK m \in 1 .. i - 1 : q = objs[m]
      BY <3>2
    <3>4. m # i /\ m \in DOMAIN objs /\ i \in DOMAIN objs
      BY <1>0, <3>3
    <3>5. q # o
      BY <3>3, <3>4 DEF MA!IsInjective
    <3>6. q \in MA!InUse /\ BufferBlock(ma_obj[q]) /\ BufferApart(ma_obj[o], ma_obj[q])
      BY <2>1, <3>2, <3>5 DEF BufferObjects
    <3>7. MA!Holds(ma_obj[o], u)
      BY <2>3 DEF MA!Holds
    <3> QED
      BY <2>1, <3>2, <3>6, <3>7, BufferApartOK
  <2> HIDE DEF b
  <2>6. CASE B = <<>>
    <3> DEFINE C == <<b>>
    <3>1. MA!Gather(acc, o) = [blocks |-> C, curr |-> acc.curr + f.size]
      BY <1>4, <2>6 DEF MA!Gather, b
    <3>2. acc.curr = ma_obj[objs[1]].start /\ \A j \in 1 .. i - 1 : ~ma_obj[objs[j]].valid
      BY <1>0, <2>6 DEF BufferGathered
    <3>3. C \in Seq(BufferBlocks) /\ Len(C) = 1 /\ C[1] = b /\ C # <<>>
      BY <2>3
    <3>4. BufferBlocksUnits(C, 1) = BufferUnits({b})
      BY <3>3 DEF BufferBlocksUnits, BufferUnits
    <3>5. BufferCells(before) = {}
      <4>1. before = {}
        BY <3>2 DEF MA!InUse
      <4> QED
        BY <4>1 DEF BufferCells
    <3> HIDE DEF C
    <3>6. [blocks |-> C, curr |-> acc.curr + f.size] \in [blocks : Seq(BufferBlocks), curr : Int]
      BY <1>0, <2>2, <3>3
    <3>7. BufferBlocksUnits(C, Len(C)) = BufferCells(after)
      BY <2>4, <3>3, <3>4, <3>5
    <3>8. (\A j, k \in 1 .. Len(C) : j = k) /\ BufferFirstOnly(objs, i, [blocks |-> C, curr |-> acc.curr + f.size])
      <4>1. i \in 1 .. i /\ \A j \in 1 .. i : j # i => ~ma_obj[objs[j]].valid
        BY <1>0, <3>2
      <4>2. C = <<MA!Block(ma_obj[objs[i]].start, ma_obj[objs[i]].size)>>
        BY DEF C, b
      <4>3. acc.curr + f.size = ma_obj[objs[1]].start + ma_obj[objs[i]].size
        BY <3>2
      <4>4. BufferFirstOnly(objs, i, [blocks |-> C, curr |-> acc.curr + f.size])
        BY <1>4, <4>1, <4>2, <4>3 DEF BufferFirstOnly
      <4> QED
        BY <3>3, <4>4
    <3>9. BufferGathered(objs, i, [blocks |-> C, curr |-> acc.curr + f.size])
      <4> HIDE DEF after, before, f
      <4> QED
        BY <3>3, <3>7, <3>8 DEF BufferGathered, after
    <3> QED
      BY <3>1, <3>6, <3>9
  <2>7. CASE B # <<>> /\ acc.curr = f.start
    <3> DEFINE C == [B EXCEPT ![n].size = @ + f.size]
               d == MA!Block(B[n].start, B[n].size + f.size)
    <3>1. MA!Gather(acc, o) = [blocks |-> C, curr |-> acc.curr + f.size]
      BY <1>4, <2>7 DEF MA!Gather
    <3>2. n \in 1 .. n
      BY <1>0, <2>7
    <3>14. acc.curr = B[n].start + B[n].size
      <4> SUFFICES ASSUME BufferFirstOnly(objs, i - 1, acc) PROVE acc.curr = B[n].start + B[n].size
        BY <2>7 DEF BufferGathered
      <4>1. PICK k \in 1 .. i - 1 :
              /\ ma_obj[objs[k]].valid /\ \A j \in 1 .. i - 1 : j # k => ~ma_obj[objs[j]].valid
              /\ acc.blocks = <<MA!Block(ma_obj[objs[k]].start, ma_obj[objs[k]].size)>>
              /\ acc.curr = ma_obj[objs[1]].start + ma_obj[objs[k]].size
        BY DEF BufferFirstOnly
      <4>2. k \in DOMAIN objs /\ i \in DOMAIN objs /\ k < i
        BY <1>0
      <4>3. ma_obj[objs[1]].start + ma_obj[objs[k]].size = ma_obj[objs[i]].start
        BY <2>7, <4>1
      <4>4. ma_obj[objs[1]].start = ma_obj[objs[k]].start
        BY <1>4, <4>1, <4>2, <4>3 DEF MA!Strays
      <4>5. n = 1 /\ B[n] = MA!Block(ma_obj[objs[k]].start, ma_obj[objs[k]].size)
        BY <4>1
      <4>6. B[n].start = ma_obj[objs[k]].start /\ B[n].size = ma_obj[objs[k]].size
        BY <4>5 DEF MA!Block
      <4> QED
        BY <4>1, <4>4, <4>6
    <3>3. B[n].start \in Nat /\ B[n].size \in Nat /\ B[n].size > 0 /\ B[n].start + B[n].size = f.start /\ BufferBlock(B[n])
      BY <1>1, <2>7, <3>2, <3>14 DEF BufferBlock
    <3> DEFINE s == B[n].start
               z == B[n].size
               s2 == f.start
               z2 == f.size
    <3>13. /\ z + z2 \in Nat /\ z + z2 > 0 /\ s + (z + z2) <= ma_Size /\ s + (z + z2) = s2 + z2
           /\ \A u \in Int : s <= u /\ u < s + (z + z2) <=> (s <= u /\ u < s + z) \/ (s2 <= u /\ u < s2 + z2)
           /\ \A x, y \in Nat : y > 0 /\ (x + y <= s \/ s2 <= x) /\ (x + y <= s2 \/ s2 + z2 <= x)
                                => x + y <= s \/ s2 + z2 <= x
      <4>1. /\ s \in Nat /\ z \in Nat /\ z > 0 /\ s + z = s2
            /\ s2 \in Nat /\ z2 \in Nat /\ z2 > 0 /\ s2 + z2 <= ma_Size
        BY <2>2, <3>3
      <4> HIDE DEF s, z, s2, z2
      <4>2. z + z2 \in Nat /\ z + z2 > 0 /\ s + (z + z2) <= ma_Size /\ s + (z + z2) = s2 + z2
        BY <4>1
      <4>3. \A u \in Int : s <= u /\ u < s + (z + z2) <=> (s <= u /\ u < s + z) \/ (s2 <= u /\ u < s2 + z2)
        BY <4>1
      <4>4. \A x, y \in Nat : y > 0 /\ (x + y <= s \/ s2 <= x) /\ (x + y <= s2 \/ s2 + z2 <= x)
                              => x + y <= s \/ s2 + z2 <= x
        BY <4>1
      <4> QED
        BY <4>2, <4>3, <4>4
    <3>4. BufferBlock(d) /\ d.start = B[n].start /\ d.size = B[n].size + f.size
      <4>1. s \in Nat
        BY <3>3
      <4> HIDE DEF s, z, s2, z2
      <4>2. BufferBlock(MA!Block(s, z + z2)) /\ MA!Block(s, z + z2).start = s /\ MA!Block(s, z + z2).size = z + z2
        BY <3>13, <4>1, BufferBlockOK
      <4> QED
        BY <4>2 DEF s, z, s2, z2
    <3>5. /\ C \in Seq(BufferBlocks) /\ Len(C) = n /\ C[n] = d /\ \A j \in 1 .. n : j # n => C[j] = B[j]
      <4> HIDE DEF B
      <4> QED
        BY <1>0, <2>2, <2>7, <3>4, BufferLastSet
    <3> HIDE DEF C, d
    <3>6. \A u \in Int : MA!Holds(d, u) <=> MA!Holds(B[n], u) \/ MA!Holds(b, u)
      <4>1. \A u \in Int : /\ MA!Holds(d, u) <=> d.start <= u /\ u < d.start + d.size
                           /\ MA!Holds(b, u) <=> b.start <= u /\ u < b.start + b.size
                           /\ MA!Holds(B[n], u) <=> B[n].start <= u /\ u < B[n].start + B[n].size
        BY <2>3, <3>3, <3>4, BufferApartOK
      <4>2. d.start = s /\ d.size = z + z2 /\ b.start = s2 /\ b.size = z2 /\ B[n].start = s /\ B[n].size = z
        BY <2>3, <3>4
      <4> HIDE DEF f, B, n, s, z, s2, z2
      <4>3. ASSUME NEW u \in Int PROVE MA!Holds(d, u) <=> MA!Holds(B[n], u) \/ MA!Holds(b, u)
        <5>1. MA!Holds(d, u) <=> s <= u /\ u < s + (z + z2)
          BY Zenon, <4>1, <4>2
        <5>2. MA!Holds(b, u) <=> s2 <= u /\ u < s2 + z2
          BY Zenon, <4>1, <4>2
        <5>3. MA!Holds(B[n], u) <=> s <= u /\ u < s + z
          BY Zenon, <4>1, <4>2
        <5>4. s <= u /\ u < s + (z + z2) <=> (s <= u /\ u < s + z) \/ (s2 <= u /\ u < s2 + z2)
          BY Zenon, <3>13
        <5> QED
          BY <5>1, <5>2, <5>3, <5>4
      <4> QED
        BY <4>3
    <3>7. BufferBlocksUnits(C, n) = BufferBlocksUnits(B, n) \cup BufferUnits({b})
      <4>1. \A u \in 0 .. ma_Size - 1 :
              (\E j \in 1 .. n : MA!Holds(C[j], u)) <=> MA!Holds(b, u) \/ \E j \in 1 .. n : MA!Holds(B[j], u)
        BY <3>2, <3>5, <3>6
      <4> QED
        BY <4>1 DEF BufferBlocksUnits, BufferUnits
    <3>8. ASSUME NEW j \in 1 .. n, NEW k \in 1 .. n PROVE j = k \/ BufferApart(C[j], C[k])
      <4>1. ASSUME NEW m \in 1 .. n, m # n PROVE BufferApart(B[m], d) /\ BufferApart(d, B[m])
        <5>1. BufferApart(B[m], B[n]) /\ BufferApart(B[m], b) /\ BufferBlock(B[m])
          BY <1>1, <2>5, <3>2, <4>1 DEF BufferGathered
        <5>2. d.start = s /\ d.size = z + z2 /\ b.start = s2 /\ b.size = z2 /\ B[n].start = s /\ B[n].size = z /\ s + z = s2
          BY <2>3, <3>3, <3>4
        <5>3. B[m].start \in Nat /\ B[m].size \in Nat /\ B[m].size > 0
          BY <5>1 DEF BufferBlock
        <5> DEFINE x == B[m].start
                   y == B[m].size
        <5> HIDE DEF f, B, n, s, z, s2, z2
        <5>4. (x + y <= s \/ s2 <= x) /\ (x + y <= s2 \/ s2 + z2 <= x)
          BY <5>1, <5>2 DEF BufferApart
        <5>5. x + y <= s \/ s2 + z2 <= x
          <6> HIDE DEF x, y
          <6> QED
            BY <3>13, <5>3, <5>4 DEF x, y
        <5>6. x + y <= d.start \/ d.start + d.size <= x
          <6> HIDE DEF x, y
          <6> QED
            BY <3>13, <5>2, <5>5
        <5> QED
          BY <5>6 DEF BufferApart
      <4>2. CASE j # n /\ k # n
        BY <3>5, <4>2 DEF BufferGathered
      <4>3. CASE j = n /\ k # n
        BY <3>5, <4>1, <4>3
      <4>4. CASE j # n /\ k = n
        BY <3>5, <4>1, <4>4
      <4> QED
        BY <4>2, <4>3, <4>4
    <3>9. [blocks |-> C, curr |-> acc.curr + f.size] \in [blocks : Seq(BufferBlocks), curr : Int]
      BY <1>0, <2>2, <3>5
    <3>10. C # <<>> /\ acc.curr + f.size = d.start + d.size
      <4>1. C # <<>>
        BY <3>2, <3>5
      <4>2. acc.curr + f.size = d.start + d.size
        <5>1. acc.curr = s2 /\ d.start = s /\ d.size = z + z2
          BY <2>7, <3>4
        <5> HIDE DEF s, z, s2, z2
        <5>2. s2 + z2 = s + (z + z2)
          BY <3>13
        <5> QED
          BY <5>1, <5>2 DEF z2
      <4> QED
        BY <4>1, <4>2
    <3>11. BufferBlocksUnits(C, n) = BufferCells(after)
      BY <2>4, <3>7 DEF BufferGathered
    <3>12. BufferGathered(objs, i, [blocks |-> C, curr |-> acc.curr + f.size])
      <4> HIDE DEF after, before
      <4> QED
        BY <3>5, <3>8, <3>10, <3>11 DEF BufferGathered, after
    <3> QED
      BY <3>1, <3>9, <3>12
  <2>8. CASE B # <<>> /\ acc.curr # f.start
    <3> DEFINE C == Append(B, b)
    <3>1. MA!Gather(acc, o) = [blocks |-> C, curr |-> f.start + f.size]
      BY <1>4, <2>8 DEF MA!Gather, b
    <3>2. C \in Seq(BufferBlocks) /\ Len(C) = n + 1 /\ C[n + 1] = b /\ (\A j \in 1 .. n : C[j] = B[j]) /\ C # <<>>
      <4> HIDE DEF B
      <4>1. C \in Seq(BufferBlocks) /\ Len(C) = n + 1
        BY <1>0, <2>3
      <4>2. C[n + 1] = b
        BY <1>0, <2>3
      <4>3. \A j \in 1 .. n : C[j] = B[j]
        BY <1>0, <2>3
      <4>4. C # <<>>
        <5> HIDE DEF C
        <5> QED
          BY <1>0, <4>1
      <4> QED
        BY <4>1, <4>2, <4>3, <4>4
    <3> HIDE DEF C
    <3>3. 1 .. n + 1 = (1 .. n) \cup {n + 1}
      BY <1>0
    <3>4. BufferBlocksUnits(C, n + 1) = BufferBlocksUnits(B, n) \cup BufferUnits({b})
      <4>1. \A u \in 0 .. ma_Size - 1 :
              (\E j \in 1 .. n + 1 : MA!Holds(C[j], u)) <=> MA!Holds(b, u) \/ \E j \in 1 .. n : MA!Holds(B[j], u)
        BY <3>2, <3>3
      <4> QED
        BY <4>1 DEF BufferBlocksUnits, BufferUnits
    <3>5. ASSUME NEW j \in 1 .. n + 1, NEW k \in 1 .. n + 1 PROVE j = k \/ BufferApart(C[j], C[k])
      <4>1. \A m \in 1 .. n : BufferApart(B[m], b) /\ BufferApart(b, B[m])
        BY <2>5 DEF BufferApart
      <4>2. CASE j \in 1 .. n /\ k \in 1 .. n
        BY <3>2, <4>2 DEF BufferGathered
      <4>3. CASE j = n + 1 /\ k \in 1 .. n
        BY <3>2, <4>1, <4>3
      <4>4. CASE j \in 1 .. n /\ k = n + 1
        BY <3>2, <4>1, <4>4
      <4> QED
        BY <3>3, <4>2, <4>3, <4>4
    <3>6. [blocks |-> C, curr |-> f.start + f.size] \in [blocks : Seq(BufferBlocks), curr : Int]
      BY <2>2, <3>2
    <3>7. BufferBlocksUnits(C, n + 1) = BufferCells(after)
      BY <2>4, <3>4 DEF BufferGathered
    <3>8. BufferGathered(objs, i, [blocks |-> C, curr |-> f.start + f.size])
      <4> HIDE DEF after, before
      <4> QED
        BY <2>3, <3>2, <3>5, <3>7 DEF BufferGathered, after
    <3> QED
      BY <3>1, <3>6, <3>8
  <2> QED
    BY <2>6, <2>7, <2>8
<1> QED
  BY <1>3, <1>4

(* What a batch gives back: blocks that are apart, with the units of the   *)
(* objects of the batch that are in use.                                   *)
LEMMA BufferGatheredOK ==
  ASSUME ma_Size \in Nat, BufferObjects, NEW objs \in Seq(ma_Obj), MA!IsInjective(objs), objs # <<>>,
         ~MA!Strays(objs), ma_obj[objs[1]].start \in Nat
  PROVE  /\ MA!Gathered(objs) \in Seq(BufferBlocks)
         /\ \A j, k \in 1 .. Len(MA!Gathered(objs)) : j = k \/ BufferApart(MA!Gathered(objs)[j], MA!Gathered(objs)[k])
         /\ BufferBlocksUnits(MA!Gathered(objs), Len(MA!Gathered(objs))) = BufferCells(MA!ToSet(objs) \cap MA!InUse)
<1> DEFINE Accs == [blocks : Seq(BufferBlocks), curr : Int]
           Reached(i) == {acc \in Accs : BufferGathered(objs, i, acc)}
           R == [i \in 0 .. Len(objs) |-> Reached(i)]
           base == [blocks |-> <<>>, curr |-> ma_obj[objs[1]].start]
<1>0. Len(objs) \in Nat /\ 1 \in 1 .. Len(objs)
  OBVIOUS
<1>1. base \in Reached(0)
  <2>1. ma_obj[objs[1]].start \in Int
    OBVIOUS
  <2>2. base \in Accs
    BY <2>1
  <2>3. BufferBlocksUnits(<<>>, 0) = {} /\ BufferCells({objs[m] : m \in 1 .. 0} \cap MA!InUse) = {}
    BY DEF BufferBlocksUnits, BufferCells
  <2>4. BufferGathered(objs, 0, base)
    <3>1. base.blocks = <<>> /\ base.curr = ma_obj[objs[1]].start /\ Len(<<>>) = 0 /\ \A j \in 1 .. 0 : FALSE
      OBVIOUS
    <3> HIDE DEF base
    <3> QED
      BY <2>3, <3>1 DEF BufferGathered
  <2> QED
    BY <2>2, <2>4
<1>2. ASSUME NEW i \in 1 .. Len(objs), NEW acc \in Reached(i - 1) PROVE MA!Gather(acc, objs[i]) \in Reached(i)
  BY <1>2, BufferGatherOK
<1> HIDE DEF Reached, base
<1>3. base \in R[0] /\ \A i \in 1 .. Len(objs) : \A acc \in R[i - 1] : MA!Gather(acc, objs[i]) \in R[i]
  BY <1>0, <1>1, <1>2
<1>4. R[Len(objs)] = Reached(Len(objs))
  BY <1>0
<1> HIDE DEF R
<1>5. FG!Fold(base, objs) \in R[Len(objs)]
  BY <1>3, FG!FoldReaches
<1>6. PICK acc \in Reached(Len(objs)) : MA!Gathered(objs) = acc.blocks
  BY <1>4, <1>5, BufferGatherIs DEF MA!Gathered, base
<1>7. MA!ToSet(objs) = {objs[m] : m \in 1 .. Len(objs)}
  BY DEF MA!ToSet
<1> QED
  BY <1>6, <1>7 DEF Reached, BufferGathered

(* The objects in use are apart, and the counts are of what is in use.     *)
BufferHeld ==
  /\ BufferObjects
  /\ ma_total = Cardinality(BufferCells(MA!InUse)) /\ ma_active = Cardinality(MA!InUse)
  /\ \A o \in ma_Obj : ma_obj[o].ref <= ma_MaxRef /\ ma_obj[o].pin <= ma_MaxPin /\ ma_obj[o].start \in Nat

(* Every unit is free or in use.                                           *)
BufferOwned ==
  /\ BufferHeld /\ BufferList(ma_free)
  /\ BufferUnits(ma_free) = (0 .. ma_Size - 1) \ BufferCells(MA!InUse)

(* The buffer while no batch strayed.                                      *)
BufferIInv == BufferCounted /\ BufferOwned

(* The inductive invariant of the buffer: of a batch that strays only the  *)
(* list is wrong.                                                          *)
BufferInv == BufferCounted /\ BufferHeld /\ ma_stray \in BOOLEAN /\ (ma_stray \/ BufferOwned)

(* Sets are counted as everywhere.                                         *)
LEMMA BufferCounts ==
  /\ \A S : MA!Cardinality(S) = Cardinality(S)
  /\ \A S : MA!IsFiniteSet(S) <=> IsFiniteSet(S)
BY DEF MA!Cardinality, Cardinality, MA!IsFiniteSet, IsFiniteSet

(* What of the assumption the proofs use.                                  *)
LEMMA BufferSize ==
  ASSUME MA!ConstantsAssumption
  PROVE  /\ IsFiniteSet(ma_Obj) /\ ma_Size \in Nat /\ ma_Size > 0 /\ ma_Align \in Nat /\ ma_Align > 0
         /\ ma_Raw \subseteq Nat \ {0} /\ ma_MaxRef \in Nat /\ ma_MaxRef > 0 /\ ma_MaxPin \in Nat /\ ma_MaxPin > 0
         /\ ma_MaxBatch \in Nat
<1>1. /\ IsFiniteSet(ma_Obj) /\ {ma_Align, ma_Size} \subseteq Nat \ {0} /\ ma_Raw \subseteq Nat \ {0}
      /\ {ma_MaxBatch, ma_MaxRef, ma_MaxPin} \subseteq Nat \ {0}
  BY BufferCounts DEF MA!ConstantsAssumption
<1>2. ma_Align \in Nat \ {0} /\ ma_Size \in Nat \ {0}
  BY <1>1
<1>3. ma_MaxBatch \in Nat \ {0} /\ ma_MaxRef \in Nat \ {0} /\ ma_MaxPin \in Nat \ {0}
  BY <1>1
<1> QED
  BY <1>1, <1>2, <1>3

(* All of the buffer is free at first.                                     *)
LEMMA BufferInitInv == ASSUME MA!ConstantsAssumption, MA!Init PROVE BufferIInv /\ BufferInv
<1>1. MA!InUse = {}
  BY DEF MA!Init, MA!InUse, MA!Gone
<1>2. ma_free = {MA!Block(0, ma_Size)} /\ MA!Block(0, ma_Size) \in BufferBlocks
      /\ MA!Block(0, ma_Size).start = 0 /\ MA!Block(0, ma_Size).size = ma_Size
  BY BufferSize, BufferBlockOK DEF MA!Init
<1>3. BufferList(ma_free)
  BY <1>2 DEF BufferList
<1>4. BufferCells({}) = {}
  BY DEF BufferCells
<1>5. BufferUnits(ma_free) = 0 .. ma_Size - 1
  <2>1. \A u \in 0 .. ma_Size - 1 : MA!Holds(MA!Block(0, ma_Size), u)
    BY <1>2, BufferSize DEF MA!Holds
  <2> QED
    BY <1>2, <2>1 DEF BufferUnits
<1>6. BufferObjects
  BY <1>1 DEF BufferObjects
<1>7. \A o \in ma_Obj : ma_obj[o].ref <= ma_MaxRef /\ ma_obj[o].pin <= ma_MaxPin /\ ma_obj[o].start \in Nat
  <2>1. \A o \in ma_Obj : ma_obj[o].ref = 0 /\ ma_obj[o].pin = 0 /\ ma_obj[o].start = 0
    BY DEF MA!Init, MA!Gone
  <2>2. 0 <= ma_MaxRef /\ 0 <= ma_MaxPin /\ 0 \in Nat
    BY BufferSize
  <2> QED
    BY <2>1, <2>2, Zenon
<1>8. ma_total = 0 /\ ma_active = 0 /\ ma_stray = FALSE
  BY DEF MA!Init
<1> QED
  BY <1>1, <1>3, <1>4, <1>5, <1>6, <1>7, <1>8, BufferInitCounted, FS_EmptySet DEF BufferIInv, BufferInv, BufferOwned, BufferHeld

(* Objects that are valid no more: the rest keeps what it has, and the     *)
(* totals are of the rest.                                                 *)
LEMMA BufferHeldOK ==
  ASSUME MA!ConstantsAssumption, BufferHeld, NEW G \in SUBSET MA!InUse,
         \A o \in ma_Obj : /\ ma_obj'[o].start = ma_obj[o].start /\ ma_obj'[o].size = ma_obj[o].size
                           /\ ma_obj'[o].valid <=> ma_obj[o].valid /\ o \notin G
                           /\ ma_obj'[o].ref <= ma_MaxRef /\ ma_obj'[o].pin <= ma_MaxPin,
         ma_total' = ma_total - Cardinality(BufferCells(G)), ma_active' = ma_active - Cardinality(G)
  PROVE  /\ BufferHeld' /\ BufferCells(MA!InUse)' = BufferCells(MA!InUse \ G)
         /\ BufferCells(MA!InUse) = BufferCells(MA!InUse \ G) \cup BufferCells(G)
         /\ BufferCells(MA!InUse \ G) \cap BufferCells(G) = {}
<1> DEFINE K == MA!InUse \ G
<1>1. MA!InUse' = K
  BY DEF MA!InUse
<1>2. \A o \in ma_Obj : /\ BufferBlock(ma_obj'[o]) <=> BufferBlock(ma_obj[o])
                        /\ \A u : MA!Holds(ma_obj'[o], u) <=> MA!Holds(ma_obj[o], u)
                        /\ \A q \in ma_Obj : BufferApart(ma_obj'[o], ma_obj'[q]) <=> BufferApart(ma_obj[o], ma_obj[q])
  BY DEF BufferBlock, MA!Holds, BufferApart
<1>3. K \subseteq MA!InUse /\ MA!InUse \subseteq ma_Obj /\ IsFiniteSet(MA!InUse)
  BY BufferSize, FS_Subset DEF MA!InUse
<1>4. BufferObjects'
  <2>1. BufferObjects
    BY DEF BufferHeld
  <2> QED
    BY <1>1, <1>2, <1>3, <2>1 DEF BufferObjects
<1>5. BufferCells(MA!InUse)' = BufferCells(K)
  <2>1. \A u \in 0 .. ma_Size - 1 :
          (\E o \in K : MA!Holds(ma_obj'[o], u)) <=> \E o \in K : MA!Holds(ma_obj[o], u)
    BY <1>2, <1>3
  <2> HIDE DEF K
  <2> QED
    BY <1>1, <2>1 DEF BufferCells
<1>6. BufferCells(MA!InUse) = BufferCells(K) \cup BufferCells(G)
  BY DEF BufferCells
<1>7. BufferCells(K) \cap BufferCells(G) = {}
  <2> SUFFICES ASSUME NEW u \in BufferCells(K), u \in BufferCells(G) PROVE FALSE
    OBVIOUS
  <2>1. PICK o \in K : MA!Holds(ma_obj[o], u)
    BY DEF BufferCells
  <2>2. PICK q \in G : MA!Holds(ma_obj[q], u)
    BY DEF BufferCells
  <2>3. u \in 0 .. ma_Size - 1 /\ o # q /\ o \in MA!InUse /\ q \in MA!InUse
    BY DEF BufferCells
  <2>4. BufferBlock(ma_obj[o]) /\ BufferBlock(ma_obj[q]) /\ BufferApart(ma_obj[o], ma_obj[q])
    BY <2>3 DEF BufferHeld, BufferObjects
  <2> QED
    BY <2>1, <2>2, <2>3, <2>4, BufferApartOK, BufferSize
<1>9. ma_total' = Cardinality(BufferCells(K))
  <2>1. /\ IsFiniteSet(BufferCells(K)) /\ Cardinality(BufferCells(K)) \in Nat
        /\ IsFiniteSet(BufferCells(G)) /\ Cardinality(BufferCells(G)) \in Nat
    <3>1. IsFiniteSet(0 .. ma_Size - 1)
      BY BufferSize, FS_Interval
    <3>2. BufferCells(K) \subseteq 0 .. ma_Size - 1 /\ BufferCells(G) \subseteq 0 .. ma_Size - 1
      BY DEF BufferCells
    <3> HIDE DEF K
    <3> QED
      BY <3>1, <3>2, FS_Subset, FS_CardinalityType
  <2>2. Cardinality(BufferCells(MA!InUse)) = Cardinality(BufferCells(K)) + Cardinality(BufferCells(G)) - Cardinality({})
    <3> HIDE DEF K
    <3> QED
      BY <1>6, <1>7, <2>1, FS_Union
  <2>3. ma_total = Cardinality(BufferCells(MA!InUse)) /\ Cardinality({}) = 0
    BY FS_EmptySet DEF BufferHeld
  <2> HIDE DEF K
  <2> QED
    BY <2>1, <2>2, <2>3
<1>10. ma_active' = Cardinality(K)
  <2>1. /\ IsFiniteSet(K) /\ Cardinality(K) \in Nat /\ IsFiniteSet(G) /\ Cardinality(G) \in Nat
    <3> HIDE DEF K
    <3> QED
      BY <1>3, FS_Subset, FS_CardinalityType
  <2>2. K \cup G = MA!InUse /\ K \cap G = {}
    OBVIOUS
  <2>3. Cardinality(MA!InUse) = Cardinality(K) + Cardinality(G) - Cardinality({})
    <3> HIDE DEF K
    <3> QED
      BY <2>1, <2>2, FS_Union
  <2>4. ma_active = Cardinality(MA!InUse) /\ Cardinality({}) = 0
    BY FS_EmptySet DEF BufferHeld
  <2> HIDE DEF K
  <2> QED
    BY <2>1, <2>3, <2>4
<1>8. \A o \in ma_Obj : ma_obj'[o].ref <= ma_MaxRef /\ ma_obj'[o].pin <= ma_MaxPin /\ ma_obj'[o].start \in Nat
  BY DEF BufferHeld
<1> HIDE DEF K
<1>11. Cardinality(BufferCells(MA!InUse))' = Cardinality(BufferCells(K)) /\ Cardinality(MA!InUse)' = Cardinality(K)
  BY <1>1, <1>5
<1>12. BufferHeld'
  BY <1>4, <1>8, <1>9, <1>10, <1>11 DEF BufferHeld
<1> QED
  BY <1>5, <1>6, <1>7, <1>12 DEF K

(* And they give their units to the free list.                             *)
LEMMA BufferGiveOK ==
  ASSUME MA!ConstantsAssumption, BufferOwned, NEW G \in SUBSET MA!InUse,
         \A o \in ma_Obj : /\ ma_obj'[o].start = ma_obj[o].start /\ ma_obj'[o].size = ma_obj[o].size
                           /\ ma_obj'[o].valid <=> ma_obj[o].valid /\ o \notin G
                           /\ ma_obj'[o].ref <= ma_MaxRef /\ ma_obj'[o].pin <= ma_MaxPin,
         BufferList(ma_free'), BufferUnits(ma_free') = BufferUnits(ma_free) \cup BufferCells(G),
         ma_total' = ma_total - Cardinality(BufferCells(G)), ma_active' = ma_active - Cardinality(G)
  PROVE  BufferOwned'
<1>1. BufferHeld
  BY DEF BufferOwned
<1>2. /\ BufferHeld' /\ BufferCells(MA!InUse)' = BufferCells(MA!InUse \ G)
      /\ BufferCells(MA!InUse) = BufferCells(MA!InUse \ G) \cup BufferCells(G)
      /\ BufferCells(MA!InUse \ G) \cap BufferCells(G) = {}
  BY <1>1, BufferHeldOK
<1>3. BufferUnits(ma_free') = (0 .. ma_Size - 1) \ BufferCells(MA!InUse \ G)
  <2>1. BufferCells(G) \subseteq 0 .. ma_Size - 1
    BY DEF BufferCells
  <2>2. BufferUnits(ma_free) = (0 .. ma_Size - 1) \ BufferCells(MA!InUse)
    BY DEF BufferOwned
  <2> QED
    BY <1>2, <2>1, <2>2
<1>4. BufferUnits(ma_free)' = BufferUnits(ma_free') /\ BufferList(ma_free)'
  BY DEF BufferUnits, BufferList
<1> QED
  BY <1>2, <1>3, <1>4 DEF BufferOwned

(* One object keeps or loses its part of the buffer.                       *)
LEMMA BufferOneOK ==
  ASSUME MA!ConstantsAssumption, BufferIInv, NEW o \in ma_Obj, NEW fields, BufferFields(fields),
         fields.start = ma_obj[o].start, fields.size = ma_obj[o].size, fields.valid = ma_obj[o].valid,
         fields.ref <= ma_MaxRef, fields.pin <= ma_MaxPin,
         MA!Keep(o, fields) \/ MA!FreeThen(o, fields)
  PROVE  BufferOwned'
<1> DEFINE freed == [fields EXCEPT !.valid = FALSE]
<1>0. freed.start = fields.start /\ freed.size = fields.size /\ ~freed.valid
      /\ freed.ref = fields.ref /\ freed.pin = fields.pin
  <2>1. \A b \in BOOLEAN :
          LET f == [fields EXCEPT !.valid = b]
          IN  f.start = fields.start /\ f.size = fields.size /\ (f.valid <=> b) /\ f.ref = fields.ref /\ f.pin = fields.pin
    BY DEF BufferFields
  <2> QED
    BY <2>1, Zenon
<1> HIDE DEF freed
<1>1. /\ ma_obj = [q \in ma_Obj |-> ma_obj[q]] /\ BufferOwned
      /\ \A q \in ma_Obj : ma_obj[q].ref <= ma_MaxRef /\ ma_obj[q].pin <= ma_MaxPin
  BY DEF BufferIInv, BufferCounted, BufferOwned, BufferHeld
<1>2. CASE ma_obj' = [ma_obj EXCEPT ![o] = fields] /\ UNCHANGED <<ma_free, ma_total, ma_active>>
  <2>1. \A q \in ma_Obj : ma_obj'[q] = IF q = o THEN fields ELSE ma_obj[q]
    BY <1>1, <1>2
  <2>2. \A q \in ma_Obj : /\ ma_obj'[q].start = ma_obj[q].start /\ ma_obj'[q].size = ma_obj[q].size
                          /\ ma_obj'[q].valid <=> ma_obj[q].valid /\ q \notin {}
                          /\ ma_obj'[q].ref <= ma_MaxRef /\ ma_obj'[q].pin <= ma_MaxPin
    BY <1>1, <2>1
  <2>3. BufferCells({}) = {} /\ Cardinality({}) = 0
    BY FS_EmptySet DEF BufferCells
  <2>4. ma_total \in Nat /\ ma_active \in Nat
    <3>1. IsFiniteSet(MA!InUse) /\ MA!InUse \in SUBSET MA!InUse
      BY BufferSize, FS_Subset DEF MA!InUse
    <3> QED
      BY <1>1, <3>1, BufferSize, BufferCellsTotal, FS_CardinalityType DEF BufferOwned, BufferHeld
  <2>5. /\ BufferList(ma_free') /\ BufferUnits(ma_free') = BufferUnits(ma_free) \cup BufferCells({})
        /\ ma_total' = ma_total - Cardinality(BufferCells({})) /\ ma_active' = ma_active - Cardinality({})
    <3>1. ma_free' = ma_free /\ ma_total' = ma_total /\ ma_active' = ma_active
      BY <1>2
    <3>2. BufferList(ma_free)
      BY <1>1 DEF BufferOwned, BufferHeld
    <3>3. ma_total - 0 = ma_total /\ ma_active - 0 = ma_active
      BY <2>4
    <3> QED
      BY <2>3, <3>1, <3>2, <3>3
  <2> QED
    BY <1>1, <2>2, <2>5, BufferGiveOK
<1>3. CASE fields.valid /\ MA!FreeThen(o, fields)
  <2> DEFINE b == MA!Block(fields.start, fields.size)
  <2>1. /\ ma_free' = MA!Coalesce(ma_free, b) /\ ma_obj' = [ma_obj EXCEPT ![o] = freed]
        /\ ma_total' = ma_total - fields.size /\ ma_active' = ma_active - 1
    BY <1>3, Zenon DEF MA!FreeThen, freed
  <2>2. o \in MA!InUse
    BY <1>3 DEF MA!InUse
  <2>3. BufferBlock(ma_obj[o]) /\ BufferObjects /\ BufferList(ma_free)
    BY <1>1, <2>2 DEF BufferOwned, BufferHeld, BufferObjects
  <2>4. b \in BufferBlocks /\ BufferBlock(b) /\ b.start = ma_obj[o].start /\ b.size = ma_obj[o].size
    <3>1. fields.start \in Nat /\ fields.size \in Nat /\ fields.size > 0 /\ fields.start + fields.size <= ma_Size
      BY <2>3 DEF BufferBlock
    <3> QED
      BY <3>1, BufferBlockOK
  <2> HIDE DEF b
  <2>5. BufferUnits({b}) = BufferCells({o})
    BY <2>4 DEF BufferUnits, BufferCells, MA!Holds
  <2>6. ASSUME NEW c \in ma_free PROVE BufferApart(b, c)
    <3> SUFFICES ASSUME NEW u \in 0 .. ma_Size - 1, MA!Holds(b, u), MA!Holds(c, u) PROVE FALSE
      BY <2>3, <2>4, BufferApartOK, BufferSize DEF BufferList, BufferBlocks
    <3>1. u \in BufferUnits(ma_free) /\ u \in BufferUnits({b})
      BY DEF BufferUnits
    <3>2. BufferCells({o}) \subseteq BufferCells(MA!InUse)
      BY <2>2 DEF BufferCells
    <3> QED
      BY <1>1, <2>5, <3>1, <3>2 DEF BufferOwned, BufferHeld
  <2>7. BufferList(ma_free') /\ BufferUnits(ma_free') = BufferUnits(ma_free) \cup BufferCells({o})
    BY <2>1, <2>3, <2>4, <2>5, <2>6, BufferCoalesceOK, BufferSize
  <2>8. Cardinality(BufferCells({o})) = fields.size /\ Cardinality({o}) = 1
    <3>1. IsFiniteSet({o}) /\ Cardinality({o}) = 1 /\ {o} \in SUBSET MA!InUse
      BY <2>2, FS_Singleton
    <3>2. Total(BufferSizes({o}), {o}) = Cardinality(BufferCells({o}))
      BY <2>3, <3>1, BufferCellsTotal, BufferTotalIs, BufferSize
    <3>3. \A x \in {o} : BufferSizes({o})[x] \in Nat /\ BufferSizes({o})[x] = fields.size
      BY <2>3 DEF BufferSizes, BufferBlock
    <3>4. Total(BufferSizes({o}), {o}) = BufferSizes({o})[o] + Total(BufferSizes({o}), {o} \ {o})
      BY <3>1, <3>3, TotalSplit
    <3>5. {o} \ {o} = {} /\ Total(BufferSizes({o}), {}) = 0
      BY TotalEmpty
    <3> QED
      BY <3>1, <3>2, <3>3, <3>4, <3>5
  <2>9. \A q \in ma_Obj : ma_obj'[q] = IF q = o THEN freed ELSE ma_obj[q]
    BY <1>1, <2>1
  <2>10. \A q \in ma_Obj : /\ ma_obj'[q].start = ma_obj[q].start /\ ma_obj'[q].size = ma_obj[q].size
                           /\ ma_obj'[q].valid <=> ma_obj[q].valid /\ q \notin {o}
                           /\ ma_obj'[q].ref <= ma_MaxRef /\ ma_obj'[q].pin <= ma_MaxPin
    BY <1>0, <1>1, <2>9
  <2> QED
    BY <1>1, <2>1, <2>2, <2>7, <2>8, <2>10, BufferGiveOK
<1>4. CASE ~fields.valid /\ MA!FreeThen(o, fields)
  BY <1>2, <1>4 DEF MA!FreeThen
<1> QED
  BY <1>2, <1>3, <1>4 DEF MA!Keep

(* Setting a counter moves no object.                                      *)
LEMMA BufferPlaceKept ==
  ASSUME NEW r, BufferFields(r), NEW n \in Nat
  PROVE  /\ [r EXCEPT !.ref = n].start = r.start /\ [r EXCEPT !.ref = n].size = r.size
         /\ [r EXCEPT !.pin = n].start = r.start /\ [r EXCEPT !.pin = n].size = r.size
BY DEF BufferFields

(* Setting a counter within its bound, and what follows from it.           *)
LEMMA BufferSetOK ==
  ASSUME MA!ConstantsAssumption, BufferIInv, NEW o \in ma_Obj, NEW n \in Nat, NEW fields,
         \/ fields = [ma_obj[o] EXCEPT !.ref = n] /\ n <= ma_MaxRef
         \/ fields = [ma_obj[o] EXCEPT !.pin = n] /\ n <= ma_MaxPin,
         MA!Keep(o, fields) \/ MA!FreeThen(o, fields)
  PROVE  BufferOwned'
<1>1. BufferFields(ma_obj[o]) /\ ma_obj[o].ref <= ma_MaxRef /\ ma_obj[o].pin <= ma_MaxPin
  BY DEF BufferIInv, BufferCounted, BufferOwned, BufferHeld
<1>2. /\ BufferFields(fields) /\ fields.start = ma_obj[o].start /\ fields.size = ma_obj[o].size
      /\ fields.valid = ma_obj[o].valid /\ fields.ref <= ma_MaxRef /\ fields.pin <= ma_MaxPin
  <2>1. CASE fields = [ma_obj[o] EXCEPT !.ref = n] /\ n <= ma_MaxRef
    BY <1>1, <2>1, BufferFieldSet, BufferPlaceKept
  <2>2. CASE fields = [ma_obj[o] EXCEPT !.pin = n] /\ n <= ma_MaxPin
    BY <1>1, <2>2, BufferFieldSet, BufferPlaceKept
  <2> QED
    BY <2>1, <2>2
<1> QED
  BY <1>2, BufferOneOK

(* A call on one object.                                                   *)
LEMMA BufferCallOK ==
  ASSUME MA!ConstantsAssumption, BufferIInv, NEW o \in ma_Obj,
         MA!RefUp(o) \/ MA!RefDown(o) \/ MA!Pin(o) \/ MA!Unpin(o)
  PROVE  BufferOwned'
<1>1. /\ BufferFields(ma_obj[o]) /\ ma_obj[o].ref \in Nat /\ ma_obj[o].ref <= ma_MaxRef
      /\ ma_obj[o].pin \in Nat /\ ma_obj[o].pin <= ma_MaxPin
  BY DEF BufferIInv, BufferCounted, BufferOwned, BufferHeld, BufferFields
<1>2. ma_MaxRef \in Nat /\ ma_MaxPin \in Nat /\ ma_MaxPin > 0
  BY BufferSize
<1>3. ASSUME MA!Keep(o, ma_obj[o]) PROVE BufferOwned'
  BY <1>1, <1>3, BufferOneOK
<1>4. CASE MA!RefUp(o)
  <2> DEFINE n == ma_obj[o].ref + 1
  <2>1. n \in Nat /\ n <= ma_MaxRef /\ MA!Keep(o, [ma_obj[o] EXCEPT !.ref = n])
    BY <1>1, <1>2, <1>4 DEF MA!RefUp
  <2> HIDE DEF n
  <2> QED
    BY <2>1, BufferSetOK
<1>5. CASE MA!RefDown(o)
  <2>1. CASE ma_obj[o].ref <= 0
    BY <1>3, <1>5, <2>1 DEF MA!RefDown
  <2>2. CASE ~ (ma_obj[o].ref <= 0)
    <3> DEFINE n == ma_obj[o].ref - 1
               f == [ma_obj[o] EXCEPT !.ref = n]
    <3>1. n \in Nat /\ n <= ma_MaxRef
      BY <1>1, <1>2, <2>2
    <3>2. MA!Keep(o, f) \/ MA!FreeThen(o, f)
      BY <1>5, <2>2, Zenon DEF MA!RefDown
    <3>3. f = [ma_obj[o] EXCEPT !.ref = n]
      OBVIOUS
    <3> HIDE DEF n, f
    <3> QED
      BY <3>1, <3>2, <3>3, BufferSetOK
  <2> QED
    BY <2>1, <2>2
<1>6. CASE MA!Pin(o)
  <2> DEFINE n == ma_obj[o].pin + 1
  <2>1. n \in Nat /\ n <= ma_MaxPin /\ MA!Keep(o, [ma_obj[o] EXCEPT !.pin = n])
    BY <1>1, <1>2, <1>6 DEF MA!Pin
  <2> HIDE DEF n
  <2> QED
    BY <2>1, BufferSetOK
<1>7. CASE MA!Unpin(o)
  <2> DEFINE pin == ma_obj[o].pin - 1
             n == IF pin < 0 THEN 0 ELSE pin
             f == [ma_obj[o] EXCEPT !.pin = n]
  <2>1. n \in Nat /\ n <= ma_MaxPin
    BY <1>1, <1>2
  <2>2. MA!Keep(o, f) \/ MA!FreeThen(o, f)
    BY <1>7, Zenon DEF MA!Unpin
  <2>3. f = [ma_obj[o] EXCEPT !.pin = n]
    OBVIOUS
  <2> HIDE DEF n, f
  <2> QED
    BY <2>1, <2>2, <2>3, BufferSetOK
<1> QED
  BY <1>4, <1>5, <1>6, <1>7

(* A batch is given back: whoever was in use is not any more.              *)
LEMMA BufferBatchIs ==
  ASSUME MA!ConstantsAssumption, BufferCounted, BufferHeld, NEW objs \in MA!Batches, MA!BatchedFree(objs)
  PROVE  LET G == MA!ToSet(objs) \cap MA!InUse
         IN  /\ objs \in Seq(ma_Obj) /\ objs # <<>> /\ MA!IsInjective(objs) /\ objs[1] \in ma_Obj
             /\ G \in SUBSET MA!InUse
             /\ ma_free' = MA!FoldLeft(MA!Coalesce, ma_free, MA!Gathered(objs))
             /\ \A o \in ma_Obj : /\ ma_obj'[o].start = ma_obj[o].start /\ ma_obj'[o].size = ma_obj[o].size
                                  /\ ma_obj'[o].valid <=> ma_obj[o].valid /\ o \notin G
                                  /\ ma_obj'[o].ref <= ma_MaxRef /\ ma_obj'[o].pin <= ma_MaxPin
             /\ ma_total' = ma_total - Cardinality(BufferCells(G)) /\ ma_active' = ma_active - Cardinality(G)
<1> DEFINE G == MA!ToSet(objs) \cap MA!InUse
<1>1. objs \in Seq(ma_Obj) /\ objs # <<>> /\ MA!IsInjective(objs) /\ objs[1] \in ma_Obj
  <2>1. PICK m \in 0 .. ma_MaxBatch : objs \in [1 .. m -> ma_Obj]
    BY DEF MA!Batches, MA!SeqOf
  <2>2. m \in Nat
    BY <2>1, BufferSize
  <2>3. objs \in Seq(ma_Obj) /\ objs # <<>> /\ MA!IsInjective(objs)
    BY <2>1, <2>2 DEF MA!Batches
  <2> QED
    BY <2>3
<1>2. BufferObjects
  BY DEF BufferHeld
<1>4. {o \in MA!ToSet(objs) : ma_obj[o].valid} = G
  <2>1. MA!ToSet(objs) \subseteq ma_Obj
    BY <1>1 DEF MA!ToSet
  <2> QED
    BY <2>1 DEF MA!InUse
<1>5. /\ ma_free' = MA!FoldLeft(MA!Coalesce, ma_free, MA!Gathered(objs))
      /\ ma_obj' = [o \in ma_Obj |-> IF o \in G THEN [ma_obj[o] EXCEPT !.valid = FALSE] ELSE ma_obj[o]]
      /\ ma_total' = ma_total - MA!MapThenSumSet(LAMBDA o : ma_obj[o].size, G)
      /\ ma_active' = ma_active - Cardinality(G)
  BY <1>4, BufferCounts DEF MA!BatchedFree
<1>6. G \in SUBSET MA!InUse /\ IsFiniteSet(G)
  BY BufferSize, FS_Subset DEF MA!InUse
<1> HIDE DEF G
<1>9. ma_total' = ma_total - Cardinality(BufferCells(G))
  BY <1>2, <1>5, <1>6, BufferCellsTotal, BufferSize
<1>10. ASSUME NEW o \in ma_Obj
       PROVE  /\ ma_obj'[o].start = ma_obj[o].start /\ ma_obj'[o].size = ma_obj[o].size
              /\ ma_obj'[o].valid <=> ma_obj[o].valid /\ o \notin G
              /\ ma_obj'[o].ref <= ma_MaxRef /\ ma_obj'[o].pin <= ma_MaxPin
  <2>1. BufferFields(ma_obj[o]) /\ ma_obj[o].ref <= ma_MaxRef /\ ma_obj[o].pin <= ma_MaxPin
    BY DEF BufferCounted, BufferHeld
  <2>2. CASE o \in G
    <3> DEFINE f == [ma_obj[o] EXCEPT !.valid = FALSE]
    <3>1. f.start = ma_obj[o].start /\ f.size = ma_obj[o].size /\ ~f.valid /\ f.ref = ma_obj[o].ref /\ f.pin = ma_obj[o].pin
      <4>1. \A b \in BOOLEAN :
              LET g == [ma_obj[o] EXCEPT !.valid = b]
              IN  g.start = ma_obj[o].start /\ g.size = ma_obj[o].size /\ (g.valid <=> b)
                  /\ g.ref = ma_obj[o].ref /\ g.pin = ma_obj[o].pin
        BY <2>1 DEF BufferFields
      <4> QED
        BY <4>1, Zenon
    <3>2. ma_obj'[o] = f
      BY <1>5, <2>2, Zenon
    <3> HIDE DEF f
    <3> QED
      BY <2>1, <2>2, <3>1, <3>2
  <2>3. CASE o \notin G
    <3>1. ma_obj'[o] = ma_obj[o]
      BY <1>5, <2>3, Zenon
    <3> QED
      BY <2>1, <2>3, <3>1
  <2> QED
    BY <2>2, <2>3
<1> QED
  BY <1>1, <1>5, <1>6, <1>9, <1>10 DEF G

(* What is in use then is apart, and counted.                              *)
LEMMA BufferBatchHeldOK ==
  ASSUME MA!ConstantsAssumption, BufferCounted, BufferHeld, NEW objs \in MA!Batches, MA!BatchedFree(objs)
  PROVE  BufferHeld'
<1> DEFINE G == MA!ToSet(objs) \cap MA!InUse
<1>1. /\ G \in SUBSET MA!InUse
      /\ \A o \in ma_Obj : /\ ma_obj'[o].start = ma_obj[o].start /\ ma_obj'[o].size = ma_obj[o].size
                           /\ ma_obj'[o].valid <=> ma_obj[o].valid /\ o \notin G
                           /\ ma_obj'[o].ref <= ma_MaxRef /\ ma_obj'[o].pin <= ma_MaxPin
      /\ ma_total' = ma_total - Cardinality(BufferCells(G)) /\ ma_active' = ma_active - Cardinality(G)
  BY BufferBatchIs
<1> HIDE DEF G
<1> QED
  BY <1>1, BufferHeldOK

(* When the batch does not stray, its units are free.                      *)
LEMMA BufferBatchOK ==
  ASSUME MA!ConstantsAssumption, BufferIInv, NEW objs \in MA!Batches, ~MA!Strays(objs), MA!BatchedFree(objs)
  PROVE  BufferOwned'
<1> DEFINE G == MA!ToSet(objs) \cap MA!InUse
           q == MA!Gathered(objs)
<1>2. BufferOwned /\ BufferObjects /\ BufferList(ma_free) /\ BufferHeld /\ BufferCounted
  BY DEF BufferIInv, BufferOwned, BufferHeld
<1>5. /\ objs \in Seq(ma_Obj) /\ objs # <<>> /\ MA!IsInjective(objs) /\ objs[1] \in ma_Obj
      /\ G \in SUBSET MA!InUse
      /\ ma_free' = MA!FoldLeft(MA!Coalesce, ma_free, q)
      /\ \A o \in ma_Obj : /\ ma_obj'[o].start = ma_obj[o].start /\ ma_obj'[o].size = ma_obj[o].size
                           /\ ma_obj'[o].valid <=> ma_obj[o].valid /\ o \notin G
                           /\ ma_obj'[o].ref <= ma_MaxRef /\ ma_obj'[o].pin <= ma_MaxPin
      /\ ma_total' = ma_total - Cardinality(BufferCells(G)) /\ ma_active' = ma_active - Cardinality(G)
  BY <1>2, BufferBatchIs
<1>1. ma_obj[objs[1]].start \in Nat
  BY <1>2, <1>5 DEF BufferHeld
<1>3. /\ q \in Seq(BufferBlocks)
      /\ \A j, k \in 1 .. Len(q) : j = k \/ BufferApart(q[j], q[k])
      /\ BufferBlocksUnits(q, Len(q)) = BufferCells(G)
  BY <1>1, <1>2, <1>5, BufferGatheredOK, BufferSize
<1> HIDE DEF G, q
<1>7. ASSUME NEW j \in 1 .. Len(q), NEW c \in ma_free PROVE BufferApart(q[j], c)
  <2>1. BufferBlock(q[j]) /\ BufferBlock(c)
    BY <1>2, <1>3 DEF BufferList, BufferBlocks
  <2> SUFFICES ASSUME NEW u \in 0 .. ma_Size - 1, MA!Holds(q[j], u), MA!Holds(c, u) PROVE FALSE
    BY <2>1, BufferApartOK, BufferSize
  <2>2. u \in BufferUnits(ma_free) /\ u \in BufferBlocksUnits(q, Len(q))
    BY DEF BufferUnits, BufferBlocksUnits
  <2>3. BufferCells(G) \subseteq BufferCells(MA!InUse)
    BY <1>5 DEF BufferCells
  <2> QED
    BY <1>2, <1>3, <2>2, <2>3 DEF BufferOwned, BufferHeld
<1>8. BufferList(ma_free') /\ BufferUnits(ma_free') = BufferUnits(ma_free) \cup BufferCells(G)
  BY <1>2, <1>3, <1>5, <1>7, BufferCoalescedOK, BufferSize
<1> QED
  BY <1>2, <1>5, <1>8, BufferGiveOK

(* An aligned size is a size.                                              *)
LEMMA BufferAligned ==
  ASSUME MA!ConstantsAssumption, NEW raw \in ma_Raw PROVE MA!Aligned(raw) \in Nat /\ MA!Aligned(raw) > 0
<1> DEFINE k == raw + ma_Align - 1
<1>1. ma_Align \in Nat \ {0} /\ raw \in Nat /\ raw > 0
  BY BufferSize
<1>2. k \in Nat /\ k >= ma_Align
  BY <1>1
<1> HIDE DEF k
<1>3. PICK q \in Nat, r \in 0 .. ma_Align - 1 : k = q * ma_Align + r /\ q = k \div ma_Align
  BY <1>1, <1>2, Division
<1>4. MA!Aligned(raw) = q * ma_Align
  BY <1>3, Zenon DEF MA!Aligned, k
<1>5. q # 0
  <2> SUFFICES ASSUME q = 0 PROVE FALSE
    OBVIOUS
  <2>1. q * ma_Align = 0
    BY <1>1
  <2> QED
    BY <1>1, <1>2, <1>3, <2>1
<1>6. q * ma_Align >= 1 * ma_Align
  BY <1>1, <1>3, <1>5, TimesKeeps
<1>7. 1 * ma_Align = ma_Align /\ q * ma_Align \in Nat
  BY <1>1, <1>3
<1> QED
  BY <1>1, <1>4, <1>6, <1>7

(* The places of equal parts, one behind the other.                        *)
LEMMA BufferPlaces ==
  ASSUME NEW unit \in Nat, unit > 0, NEW count \in Nat, count > 0
  PROVE  /\ unit * count \in Nat /\ unit * count > 0
         /\ \A i \in 1 .. count : (i - 1) * unit \in Nat /\ (i - 1) * unit + unit <= unit * count
         /\ \A i, j \in 1 .. count : i < j => (i - 1) * unit + unit <= (j - 1) * unit
         /\ \A v \in Nat : v < unit * count =>
              \E i \in 1 .. count : (i - 1) * unit <= v /\ v < (i - 1) * unit + unit
<1>0. unit * count = count * unit /\ unit * count \in Nat
  OBVIOUS
<1>1. ASSUME NEW i \in Int PROVE (i - 1) * unit + unit = i * unit
  <2>1. (i - 1) * unit = i * unit - unit
    OBVIOUS
  <2>2. i * unit \in Int
    OBVIOUS
  <2> QED
    BY <2>1, <2>2
<1>2. unit * count > 0
  <2>1. count * unit >= 1 * unit /\ 1 * unit = unit
    BY TimesKeeps
  <2> QED
    BY <1>0, <2>1
<1>3. ASSUME NEW i \in 1 .. count PROVE (i - 1) * unit \in Nat /\ (i - 1) * unit + unit <= unit * count
  <2>1. (i - 1) * unit \in Nat
    <3>1. i - 1 \in Nat
      OBVIOUS
    <3> QED
      BY <3>1
  <2>2. count * unit >= i * unit
    BY TimesKeeps
  <2>3. i * unit <= count * unit
    <3>1. i * unit \in Int /\ count * unit \in Int
      OBVIOUS
    <3> QED
      BY <2>2, <3>1
  <2>4. (i - 1) * unit + unit = i * unit
    BY <1>1
  <2> QED
    BY <1>0, <2>1, <2>3, <2>4
<1>4. ASSUME NEW i \in 1 .. count, NEW j \in 1 .. count, i < j PROVE (i - 1) * unit + unit <= (j - 1) * unit
  <2>1. i \in Int /\ j - 1 \in Int /\ j - 1 >= i
    BY <1>4
  <2>2. (j - 1) * unit >= i * unit
    BY <2>1, TimesKeeps
  <2>3. (i - 1) * unit + unit = i * unit /\ i * unit \in Int /\ (j - 1) * unit \in Int
    BY <1>1
  <2> QED
    BY <2>2, <2>3
<1>5. ASSUME NEW v \in Nat, v < unit * count
      PROVE  \E i \in 1 .. count : (i - 1) * unit <= v /\ v < (i - 1) * unit + unit
  <2>0. unit \in Nat \ {0}
    OBVIOUS
  <2>1. PICK q \in Nat, r \in 0 .. unit - 1 : v = q * unit + r
    BY <2>0, Division
  <2>2. q < count
    <3> SUFFICES ASSUME q >= count PROVE FALSE
      OBVIOUS
    <3>1. q * unit >= count * unit /\ q * unit \in Int /\ count * unit \in Int
      BY TimesKeeps
    <3> QED
      BY <1>0, <1>5, <2>1, <3>1
  <2>3. q + 1 \in 1 .. count /\ (q + 1) - 1 = q
    BY <2>2
  <2>4. q * unit <= v /\ v < q * unit + unit
    <3>1. q * unit \in Int
      OBVIOUS
    <3> QED
      BY <2>1, <3>1
  <2>5. ((q + 1) - 1) * unit <= v /\ v < ((q + 1) - 1) * unit + unit
    BY <2>3, <2>4, Zenon
  <2> QED
    BY <2>3, <2>5
<1> QED
  BY <1>0, <1>2, <1>3, <1>4, <1>5

(* A finite set in some order: each of its elements once.                  *)
LEMMA BufferListed ==
  ASSUME NEW S, IsFiniteSet(S)
  PROVE  /\ MA!SetToSeq(S) \in Seq(S) /\ Len(MA!SetToSeq(S)) = Cardinality(S)
         /\ \A i, j \in 1 .. Len(MA!SetToSeq(S)) : MA!SetToSeq(S)[i] = MA!SetToSeq(S)[j] => i = j
         /\ \A x \in S : \E i \in 1 .. Len(MA!SetToSeq(S)) : MA!SetToSeq(S)[i] = x
<1> DEFINE n == Cardinality(S)
           s == MA!SetToSeq(S)
<1>1. n \in Nat /\ ExistsBijection(1 .. n, S)
  BY FS_CardinalityType
<1>2. \E f \in [1 .. n -> S] : MA!IsInjective(f)
  BY <1>1 DEF ExistsBijection, Bijection, Injection, IsInjective, MA!IsInjective
<1>3. s \in [1 .. n -> S] /\ MA!IsInjective(s)
  BY <1>2, BufferCounts DEF MA!SetToSeq
<1>4. s \in Surjection(1 .. n, S)
  <2>1. s \in Injection(1 .. n, S)
    BY <1>3 DEF Injection, IsInjective, MA!IsInjective
  <2>2. Cardinality(1 .. n) = n
    BY <1>1, FS_Interval
  <2> HIDE DEF s
  <2> QED
    BY <2>1, <2>2, FS_Injection
<1> HIDE DEF s, n
<1>5. s \in Seq(S) /\ Len(s) = n
  BY <1>1, <1>3
<1> QED
  BY <1>3, <1>4, <1>5 DEF Surjection, MA!IsInjective, s, n

(* The objects of an allocation: as many as asked for, each with its place.*)
LEMMA BufferChosen ==
  ASSUME MA!ConstantsAssumption, NEW count \in Nat, count > 0, count <= MA!Cardinality(MA!Unheld)
  PROVE  LET objs == SubSeq(MA!SetToSeq(MA!Unheld), 1, count)
             New == {objs[j] : j \in 1 .. count}
         IN  /\ New \subseteq ma_Obj /\ New \cap MA!InUse = {}
             /\ IsFiniteSet(New) /\ Cardinality(New) = count
             /\ \A i, j \in 1 .. count : objs[i] = objs[j] => i = j
             /\ \A o \in ma_Obj :
                  \/ o \notin New /\ MA!SelectInSeq(objs, LAMBDA x : x = o) = 0
                  \/ /\ MA!SelectInSeq(objs, LAMBDA x : x = o) \in 1 .. count
                     /\ objs[MA!SelectInSeq(objs, LAMBDA x : x = o)] = o
<1> DEFINE L == MA!SetToSeq(MA!Unheld)
           objs == SubSeq(L, 1, count)
           New == {objs[j] : j \in 1 .. count}
<1>1. IsFiniteSet(MA!Unheld) /\ MA!Unheld \subseteq ma_Obj /\ MA!Unheld \cap MA!InUse = {}
  BY BufferSize, FS_Subset DEF MA!Unheld, MA!InUse
<1>2. /\ L \in Seq(MA!Unheld) /\ Len(L) = Cardinality(MA!Unheld)
      /\ \A i, j \in 1 .. Len(L) : L[i] = L[j] => i = j
  BY <1>1, BufferListed
<1>3. count <= Len(L)
  BY <1>2, BufferCounts
<1> HIDE DEF L
<1>4. objs \in Seq(MA!Unheld) /\ Len(objs) = count /\ \A j \in 1 .. count : objs[j] = L[j]
  BY <1>2, <1>3
<1> HIDE DEF objs
<1>5. \A i, j \in 1 .. count : objs[i] = objs[j] => i = j
  BY <1>2, <1>3, <1>4
<1>6. New \subseteq MA!Unheld
  BY <1>4
<1>7. IsFiniteSet(New) /\ Cardinality(New) = count
  <2>1. objs \in Bijection(1 .. count, New)
    BY <1>4, <1>5 DEF Bijection, Injection, Surjection, IsInjective
  <2>2. IsFiniteSet(1 .. count) /\ Cardinality(1 .. count) = count
    BY FS_Interval
  <2> HIDE DEF New
  <2> QED
    BY <2>1, <2>2, FS_Bijection DEF ExistsBijection
<1>8. ASSUME NEW o \in ma_Obj
      PROVE  \/ o \notin New /\ MA!SelectInSeq(objs, LAMBDA x : x = o) = 0
             \/ /\ MA!SelectInSeq(objs, LAMBDA x : x = o) \in 1 .. count
                /\ objs[MA!SelectInSeq(objs, LAMBDA x : x = o)] = o
  <2> DEFINE I == {i \in 1 .. Len(objs) : objs[i] = o}
  <2>1. MA!SelectInSeq(objs, LAMBDA x : x = o) = IF I # {} THEN MA!Min(I) ELSE 0
    BY DEF MA!SelectInSeq
  <2>2. CASE I = {}
    BY <1>4, <2>1, <2>2
  <2>3. CASE I # {}
    <3>1. PICK j \in 1 .. count : objs[j] = o
      BY <1>4, <2>3
    <3>2. I = {j}
      BY <1>4, <1>5, <3>1
    <3>3. MA!Min({j}) = j
      BY DEF MA!Min
    <3> HIDE DEF I
    <3>4. MA!SelectInSeq(objs, LAMBDA x : x = o) = j
      BY <2>1, <2>3, <3>2, <3>3, Zenon
    <3> QED
      BY <3>1, <3>4, Zenon
  <2> QED
    BY <2>2, <2>3
<1> QED
  BY <1>1, <1>5, <1>6, <1>7, <1>8 DEF objs, L

(* An allocation: new objects take the front of a free block.              *)
LEMMA BufferAllocateOK ==
  ASSUME MA!ConstantsAssumption, BufferIInv, NEW count \in 1 .. ma_MaxBatch, NEW raw \in ma_Raw,
         MA!Allocate(count, raw)
  PROVE  BufferOwned'
<1> DEFINE unit == MA!Aligned(raw)
           n == unit * count
           s == MA!First(n).start
           front == MA!Block(s, n)
           objs == SubSeq(MA!SetToSeq(MA!Unheld), 1, count)
           New == {objs[j] : j \in 1 .. count}
           idx(o) == MA!SelectInSeq(objs, LAMBDA x : x = o)
           place(i) == (i - 1) * unit
           given(o) == [start |-> s + (idx(o) - 1) * unit, size |-> unit, ref |-> 1, pin |-> 0, valid |-> TRUE]
           new(o) == IF idx(o) = 0 THEN ma_obj[o] ELSE given(o)
<1>1. unit \in Nat /\ unit > 0 /\ count \in Nat /\ count > 0
  BY BufferAligned, BufferSize
<1>2. /\ count <= MA!Cardinality(MA!Unheld) /\ MA!Fits(n) # {} /\ ma_free' = MA!TakeFirst(n)
      /\ ma_total' = ma_total + n /\ ma_active' = ma_active + count
  BY DEF MA!Allocate
<1>3. ma_obj' = [o \in ma_Obj |-> new(o)]
  BY DEF MA!Allocate
<1>4. /\ New \subseteq ma_Obj /\ New \cap MA!InUse = {} /\ IsFiniteSet(New) /\ Cardinality(New) = count
      /\ \A i, j \in 1 .. count : objs[i] = objs[j] => i = j
      /\ \A o \in ma_Obj : \/ o \notin New /\ idx(o) = 0
                           \/ idx(o) \in 1 .. count /\ objs[idx(o)] = o
  BY <1>1, <1>2, Zenon, BufferChosen
<1> HIDE DEF unit, objs
<1>5. /\ n \in Nat /\ n > 0
      /\ \A i \in 1 .. count : place(i) \in Nat /\ place(i) + unit <= n
      /\ \A i, j \in 1 .. count : i < j => place(i) + unit <= place(j)
      /\ \A v \in Nat : v < n => \E i \in 1 .. count : place(i) <= v /\ v < place(i) + unit
  BY <1>1, BufferPlaces
<1> HIDE DEF n
<1>6. BufferOwned /\ BufferObjects /\ BufferList(ma_free)
  BY DEF BufferIInv, BufferOwned, BufferHeld
<1>7. /\ front \in BufferBlocks /\ BufferList(MA!TakeFirst(n))
      /\ BufferUnits(MA!TakeFirst(n)) = BufferUnits(ma_free) \ BufferUnits({front})
      /\ BufferUnits({front}) \subseteq BufferUnits(ma_free)
  BY <1>2, <1>5, <1>6, BufferTakeFirstOK, BufferSize
<1>8. s \in Nat /\ s + n <= ma_Size /\ front.start = s /\ front.size = n /\ BufferBlock(front)
  BY <1>7 DEF BufferBlocks, MA!Block, BufferBlock
<1> HIDE DEF s, front
<1>9. ASSUME NEW o \in New
      PROVE  /\ idx(o) \in 1 .. count /\ ma_obj'[o] = given(o)
             /\ ma_obj'[o].start = s + place(idx(o)) /\ ma_obj'[o].size = unit /\ ma_obj'[o].valid
             /\ ma_obj'[o].ref = 1 /\ ma_obj'[o].pin = 0
  <2>1. o \in ma_Obj /\ idx(o) \in 1 .. count
    <3> HIDE DEF New, idx
    <3> QED
      BY <1>4
  <2>2. ma_obj'[o] = new(o)
    <3> HIDE DEF new, New
    <3> QED
      BY <1>3, <2>1
  <2>3. idx(o) # 0
    <3> HIDE DEF idx
    <3> QED
      BY <2>1
  <2>4. ma_obj'[o] = given(o)
    <3> HIDE DEF given, idx
    <3> QED
      BY <2>2, <2>3 DEF new
  <2>5. given(o).start = s + place(idx(o)) /\ given(o).size = unit /\ given(o).valid /\ given(o).ref = 1 /\ given(o).pin = 0
    <3> HIDE DEF idx
    <3> QED
      OBVIOUS
  <2> HIDE DEF given, idx, place
  <2> QED
    BY <2>1, <2>4, <2>5
<1>10. ASSUME NEW o \in ma_Obj, o \notin New PROVE ma_obj'[o] = ma_obj[o]
  <2>1. idx(o) = 0
    <3>1. \A i \in 1 .. count : objs[i] \in New
      OBVIOUS
    <3> HIDE DEF idx, New
    <3> QED
      BY <1>4, <1>10, <3>1
  <2>2. ma_obj'[o] = new(o)
    <3> HIDE DEF new
    <3> QED
      BY <1>3
  <2> HIDE DEF idx, given
  <2> QED
    BY <2>1, <2>2 DEF new
<1>11. \A o, q \in New : idx(o) = idx(q) => o = q
  <2> HIDE DEF idx
  <2>1. \A o \in New : objs[idx(o)] = o
    <3>1. \A i \in 1 .. count : objs[i] \in New /\ objs[i] \in ma_Obj
      BY <1>4
    <3>2. \A o \in New : o \in ma_Obj /\ idx(o) \in 1 .. count
      BY <1>4, <1>9
    <3>3. 0 \notin 1 .. count
      OBVIOUS
    <3> HIDE DEF New
    <3> QED
      BY <1>4, <3>2, <3>3
  <2> HIDE DEF New
  <2> QED
    BY <2>1
<1>12. \A i \in 1 .. count : \E o \in New : idx(o) = i
  <2> SUFFICES ASSUME NEW i \in 1 .. count PROVE idx(objs[i]) = i /\ objs[i] \in New
    <3> HIDE DEF idx
    <3> QED
      OBVIOUS
  <2>1. objs[i] \in New
    OBVIOUS
  <2>2. objs[i] \in ma_Obj /\ idx(objs[i]) \in 1 .. count
    <3> HIDE DEF idx, New
    <3> QED
      BY <1>4, <1>9, <2>1
  <2>3. objs[idx(objs[i])] = objs[i]
    <3>1. ~ (objs[i] \notin New)
      BY <2>1
    <3> HIDE DEF idx, New
    <3> QED
      BY <1>4, <2>2, <3>1
  <2> HIDE DEF idx
  <2> QED
    BY <1>4, <2>1, <2>2, <2>3
<1> HIDE DEF New, idx, given, new, place
<1>13. MA!InUse' = MA!InUse \cup New
  <2>1. \A o \in ma_Obj : ma_obj'[o].valid <=> ma_obj[o].valid \/ o \in New
    BY <1>9, <1>10
  <2> QED
    BY <1>4, <2>1 DEF MA!InUse
<1>14. ASSUME NEW o \in New
       PROVE  /\ BufferBlock(ma_obj'[o]) /\ \A u \in Int : MA!Holds(ma_obj'[o], u) => MA!Holds(front, u)
  <2> DEFINE p == place(idx(o))
             x == s + p
  <2>1. p \in Nat /\ p + unit <= n
    BY <1>5, <1>9
  <2>2. ma_obj'[o].start = x /\ ma_obj'[o].size = unit
    BY <1>9
  <2> HIDE DEF p
  <2>3. x \in Nat /\ x >= s /\ x + unit <= s + n /\ x + unit <= ma_Size
    BY <1>1, <1>5, <1>8, <2>1, BufferSize
  <2> HIDE DEF x
  <2>4. BufferBlock(ma_obj'[o])
    BY <1>1, <2>2, <2>3 DEF BufferBlock
  <2>5. ASSUME NEW u \in Int, MA!Holds(ma_obj'[o], u) PROVE MA!Holds(front, u)
    <3>1. x <= u /\ u < x + unit
      BY <1>1, <2>2, <2>3, <2>5 DEF MA!Holds
    <3>2. s <= u /\ u <= s + n - 1
      BY <1>1, <1>5, <1>8, <2>3, <3>1
    <3> QED
      BY <1>5, <1>8, <3>2 DEF MA!Holds
  <2> QED
    BY <2>4, <2>5
<1>15. ASSUME NEW o \in New, NEW q \in New, idx(o) < idx(q)
       PROVE  BufferApart(ma_obj'[o], ma_obj'[q]) /\ BufferApart(ma_obj'[q], ma_obj'[o])
  <2> DEFINE p == place(idx(o))
             r == place(idx(q))
  <2>1. p \in Nat /\ r \in Nat /\ p + unit <= r
    BY <1>5, <1>9, <1>15
  <2>2. ma_obj'[o].start = s + p /\ ma_obj'[o].size = unit /\ ma_obj'[q].start = s + r
    BY <1>9
  <2> HIDE DEF p, r
  <2>3. (s + p) + unit <= s + r
    BY <1>1, <1>8, <2>1
  <2> QED
    BY <2>2, <2>3 DEF BufferApart
<1>16. ASSUME NEW o \in New, NEW q \in MA!InUse
       PROVE  BufferApart(ma_obj'[o], ma_obj[q]) /\ BufferApart(ma_obj[q], ma_obj'[o])
  <2>1. BufferBlock(ma_obj'[o]) /\ BufferBlock(ma_obj[q])
    BY <1>6, <1>14 DEF BufferObjects
  <2>2. BufferApart(ma_obj'[o], ma_obj[q])
    <3> SUFFICES ASSUME NEW u \in 0 .. ma_Size - 1, MA!Holds(ma_obj'[o], u), MA!Holds(ma_obj[q], u) PROVE FALSE
      BY <2>1, BufferApartOK, BufferSize
    <3>1. u \in BufferUnits({front})
      BY <1>14 DEF BufferUnits
    <3>2. u \in BufferCells(MA!InUse)
      BY DEF BufferCells
    <3> QED
      BY <1>6, <1>7, <3>1, <3>2 DEF BufferOwned, BufferHeld
  <2> QED
    BY <2>2 DEF BufferApart
<1>17. BufferObjects'
  <2>1. MA!InUse \cup New \subseteq ma_Obj
    BY <1>4, <1>6 DEF BufferObjects
  <2>2. \A o \in MA!InUse : o \notin New /\ ma_obj'[o] = ma_obj[o] /\ BufferBlock(ma_obj[o])
    BY <1>4, <1>6, <1>10 DEF BufferObjects
  <2>3. \A o \in MA!InUse \cup New : BufferBlock(ma_obj'[o])
    BY <1>14, <2>2
  <2>4. ASSUME NEW o \in MA!InUse \cup New, NEW q \in MA!InUse \cup New
        PROVE  o = q \/ BufferApart(ma_obj'[o], ma_obj'[q])
    <3>1. CASE o \in MA!InUse /\ q \in MA!InUse
      BY <1>6, <2>2, <3>1 DEF BufferObjects
    <3>2. CASE o \in MA!InUse /\ q \in New
      BY <1>16, <2>2, <3>2
    <3>3. CASE o \in New /\ q \in MA!InUse
      BY <1>16, <2>2, <3>3
    <3>4. CASE o \in New /\ q \in New
      <4>1. idx(o) \in 1 .. count /\ idx(q) \in 1 .. count
        BY <1>9, <3>4
      <4>2. idx(o) = idx(q) \/ idx(o) < idx(q) \/ idx(q) < idx(o)
        BY <4>1
      <4> QED
        BY <1>11, <1>15, <3>4, <4>2
    <3> QED
      BY <3>1, <3>2, <3>3, <3>4
  <2>5. (BufferObjects)' <=>
          /\ MA!InUse' \subseteq ma_Obj
          /\ \A o \in MA!InUse' : BufferBlock(ma_obj'[o])
          /\ \A o, q \in MA!InUse' : o = q \/ BufferApart(ma_obj'[o], ma_obj'[q])
    BY DEF BufferObjects
  <2> QED
    BY <1>13, <2>1, <2>3, <2>4, <2>5
<1>18. BufferCells(MA!InUse)' = BufferCells(MA!InUse) \cup BufferUnits({front})
  <2>1. ASSUME NEW u \in 0 .. ma_Size - 1
        PROVE  (\E o \in MA!InUse \cup New : MA!Holds(ma_obj'[o], u))
                 <=> (\E o \in MA!InUse : MA!Holds(ma_obj[o], u)) \/ MA!Holds(front, u)
    <3>1. \A o \in MA!InUse : ma_obj'[o] = ma_obj[o]
      BY <1>4, <1>6, <1>10 DEF BufferObjects
    <3>2. ASSUME MA!Holds(front, u) PROVE \E o \in New : MA!Holds(ma_obj'[o], u)
      <4>1. u - s \in Nat /\ u - s < n
        <5>1. front.start <= u /\ u < front.start + front.size
          BY <1>8, <3>2, BufferApartOK, BufferSize
        <5> QED
          BY <1>5, <1>8, <5>1
      <4>2. PICK i \in 1 .. count : place(i) <= u - s /\ u - s < place(i) + unit
        BY <1>5, <4>1
      <4>3. PICK o \in New : idx(o) = i
        BY <1>12
      <4>4. ma_obj'[o].start = s + place(i) /\ ma_obj'[o].size = unit /\ place(i) \in Nat
        BY <1>5, <1>9, <4>3
      <4>5. s + place(i) <= u /\ u <= (s + place(i)) + unit - 1
        BY <1>1, <1>8, <4>2, <4>4
      <4>6. u \in (s + place(i)) .. (s + place(i)) + unit - 1
        BY <1>1, <1>8, <4>4, <4>5
      <4> QED
        BY <4>3, <4>4, <4>6 DEF MA!Holds
    <3> QED
      BY <1>14, <3>1, <3>2
  <2>2. BufferCells(MA!InUse)' = {u \in 0 .. ma_Size - 1 : \E o \in MA!InUse' : MA!Holds(ma_obj'[o], u)}
    BY DEF BufferCells
  <2> QED
    BY <1>13, <2>1, <2>2 DEF BufferCells, BufferUnits
<1>19. BufferUnits(ma_free)' = (0 .. ma_Size - 1) \ BufferCells(MA!InUse)'
  <2>1. BufferUnits(ma_free)' = BufferUnits(ma_free')
    BY DEF BufferUnits
  <2> QED
    BY <1>2, <1>6, <1>7, <1>18, <2>1 DEF BufferOwned, BufferHeld
<1>20. ma_total' = Cardinality(BufferCells(MA!InUse)')
  <2>1. BufferUnits({front}) = s .. s + n - 1
    <3>1. ASSUME NEW u \in Int PROVE u \in BufferUnits({front}) <=> u \in s .. s + n - 1
      <4>1. MA!Holds(front, u) <=> front.start <= u /\ u < front.start + front.size
        BY <1>8, BufferApartOK, BufferSize
      <4>2. MA!Holds(front, u) => u \in 0 .. ma_Size - 1
        BY <1>8, BufferApartOK, BufferSize
      <4>3. u \in BufferUnits({front}) <=> MA!Holds(front, u)
        BY <4>2 DEF BufferUnits
      <4> QED
        BY <1>5, <1>8, <4>1, <4>3
    <3>2. BufferUnits({front}) \subseteq Int
      BY BufferSize DEF BufferUnits
    <3>3. s .. s + n - 1 \subseteq Int
      BY <1>5, <1>8
    <3> QED
      BY <3>1, <3>2, <3>3
  <2>2. IsFiniteSet(BufferUnits({front})) /\ Cardinality(BufferUnits({front})) = n
    <3> DEFINE last == s + n - 1
    <3>1. s \in Int /\ last \in Int /\ ~(s > last) /\ last - s + 1 = n
      BY <1>5, <1>8
    <3> HIDE DEF last
    <3>2. IsFiniteSet(s .. last) /\ Cardinality(s .. last) = n
      BY <3>1, FS_Interval
    <3> QED
      BY <2>1, <3>2 DEF last
  <2>3. IsFiniteSet(BufferCells(MA!InUse)) /\ Cardinality(BufferCells(MA!InUse)) \in Nat
    <3>1. IsFiniteSet(0 .. ma_Size - 1)
      BY BufferSize, FS_Interval
    <3>2. BufferCells(MA!InUse) \subseteq 0 .. ma_Size - 1
      BY DEF BufferCells
    <3> QED
      BY <3>1, <3>2, FS_Subset, FS_CardinalityType
  <2>4. BufferCells(MA!InUse) \cap BufferUnits({front}) = {}
    BY <1>6, <1>7 DEF BufferOwned, BufferHeld
  <2>5. Cardinality(BufferCells(MA!InUse) \cup BufferUnits({front}))
          = Cardinality(BufferCells(MA!InUse)) + Cardinality(BufferUnits({front})) - Cardinality({})
    BY <2>2, <2>3, <2>4, FS_Union
  <2>6. Cardinality({}) = 0 /\ ma_total = Cardinality(BufferCells(MA!InUse))
    BY <1>6, FS_EmptySet DEF BufferOwned, BufferHeld
  <2>7. ma_total' = Cardinality(BufferCells(MA!InUse) \cup BufferUnits({front}))
    BY <1>2, <1>5, <2>2, <2>3, <2>5, <2>6
  <2> QED
    BY <1>18, <2>7
<1>21. ma_active' = Cardinality(MA!InUse')
  <2>1. IsFiniteSet(MA!InUse) /\ Cardinality(MA!InUse) \in Nat
    BY BufferSize, FS_Subset, FS_CardinalityType DEF MA!InUse
  <2>2. MA!InUse \cap New = {}
    BY <1>4
  <2>3. Cardinality(MA!InUse \cup New) = Cardinality(MA!InUse) + Cardinality(New) - Cardinality({})
    BY <1>4, <2>1, <2>2, FS_Union
  <2>4. Cardinality({}) = 0 /\ ma_active = Cardinality(MA!InUse)
    BY <1>6, FS_EmptySet DEF BufferOwned, BufferHeld
  <2>5. ma_active' = Cardinality(MA!InUse \cup New)
    BY <1>1, <1>2, <1>4, <2>1, <2>3, <2>4
  <2> QED
    BY <1>13, <2>5
<1>22. \A o \in ma_Obj : ma_obj'[o].ref <= ma_MaxRef /\ ma_obj'[o].pin <= ma_MaxPin /\ ma_obj'[o].start \in Nat
  <2>1. 1 <= ma_MaxRef /\ 0 <= ma_MaxPin
    BY BufferSize
  <2>2. \A o \in New : ma_obj'[o].ref <= ma_MaxRef /\ ma_obj'[o].pin <= ma_MaxPin
    BY <1>9, <2>1
  <2>4. \A o \in New : ma_obj'[o].start \in Nat
    BY <1>5, <1>8, <1>9
  <2>3. \A o \in ma_Obj : ma_obj[o].ref <= ma_MaxRef /\ ma_obj[o].pin <= ma_MaxPin /\ ma_obj[o].start \in Nat
    BY <1>6 DEF BufferOwned, BufferHeld
  <2> QED
    BY <1>10, <2>2, <2>3, <2>4
<1>23. BufferList(ma_free)'
  BY <1>2, <1>7 DEF BufferList
<1> QED
  BY <1>17, <1>19, <1>20, <1>21, <1>22, <1>23 DEF BufferOwned, BufferHeld

(* A step keeps the invariant, whatever a batch begins with.               *)
LEMMA BufferNextInv ==
  ASSUME MA!ConstantsAssumption, BufferInv, [MA!Next]_MA!vars PROVE BufferInv'
<1>1. BufferCounted'
  BY BufferNextCounted DEF BufferInv
<1>2. CASE UNCHANGED MA!vars
  <2>1. BufferHeld' /\ (BufferOwned => BufferOwned') /\ ma_stray' = ma_stray
    BY <1>2 DEF MA!vars, BufferInv, BufferHeld, BufferOwned, BufferList, BufferObjects, BufferUnits, BufferCells, MA!InUse
  <2> QED
    BY <1>1, <2>1 DEF BufferInv
<1>3. CASE MA!Next
  <2>1. ~ma_stray /\ BufferIInv /\ BufferHeld /\ BufferCounted
    BY <1>3 DEF MA!Next, BufferInv, BufferIInv
  <2>2. ASSUME NEW count \in 1 .. ma_MaxBatch, NEW raw \in ma_Raw, MA!Allocate(count, raw) PROVE BufferOwned'
    BY <2>1, <2>2, BufferAllocateOK
  <2>3. ASSUME NEW o \in ma_Obj, MA!RefUp(o) \/ MA!RefDown(o) \/ MA!Pin(o) \/ MA!Unpin(o) PROVE BufferOwned'
    BY <2>1, <2>3, BufferCallOK
  <2>4. ASSUME NEW objs \in MA!Batches, MA!BatchedFree(objs)
        PROVE  BufferHeld' /\ ma_stray' \in BOOLEAN /\ (ma_stray' \/ BufferOwned')
    <3>1. BufferHeld' /\ (ma_stray' <=> MA!Strays(objs)) /\ ma_stray' \in BOOLEAN
      <4>1. ma_stray' = MA!Strays(objs) /\ MA!Strays(objs) \in BOOLEAN
        BY <2>4 DEF MA!BatchedFree, MA!Strays
      <4> QED
        BY <2>1, <2>4, <4>1, BufferBatchHeldOK
    <3>2. ~MA!Strays(objs) => BufferOwned'
      BY <2>1, <2>4, BufferBatchOK
    <3> QED
      BY <3>1, <3>2
  <2>5. \/ BufferOwned' /\ ma_stray' = ma_stray
        \/ BufferHeld' /\ ma_stray' \in BOOLEAN /\ (ma_stray' \/ BufferOwned')
    BY <1>3, <2>2, <2>3, <2>4, Zenon DEF MA!Next
  <2>6. BufferOwned' => BufferHeld'
    BY DEF BufferOwned
  <2> QED
    BY <1>1, <2>1, <2>5, <2>6 DEF BufferInv
<1> QED
  BY <1>2, <1>3

(* What the invariant is for.                                              *)
LEMMA BufferPromises ==
  ASSUME MA!ConstantsAssumption, BufferInv
  PROVE  MA!TypeOK /\ MA!BufferPartitioned /\ MA!NoFragments /\ MA!CountsAreTrue /\ MA!NothingLeaks
<1>1. /\ BufferHeld /\ BufferObjects /\ BufferCounted /\ ma_stray \in BOOLEAN
      /\ ~ma_stray => BufferOwned /\ BufferList(ma_free)
  BY DEF BufferInv, BufferOwned, BufferHeld
<1>2. ~ma_stray => \A b \in ma_free : BufferBlock(b) /\ b.start \in Nat /\ b.size \in Nat /\ b.size > 0 /\ b.start + b.size <= ma_Size
  BY <1>1 DEF BufferList, BufferBlocks, BufferBlock
<1>3. IsFiniteSet(MA!InUse) /\ MA!InUse \in SUBSET MA!InUse /\ Cardinality(MA!InUse) \in Nat
      /\ Cardinality(MA!InUse) <= Cardinality(ma_Obj) /\ Cardinality(ma_Obj) \in Nat
  BY BufferSize, FS_Subset, FS_CardinalityType DEF MA!InUse
<1>4. /\ MA!MapThenSumSet(LAMBDA o : ma_obj[o].size, MA!InUse) = Cardinality(BufferCells(MA!InUse))
      /\ Cardinality(BufferCells(MA!InUse)) \in 0 .. ma_Size
  BY <1>1, <1>3, BufferCellsTotal, BufferSize
<1>5. MA!TypeOK
  <2>1. ma_stray \/ \A b \in ma_free : b.start \in 0 .. ma_Size - 1 /\ b.size \in 1 .. ma_Size
    BY <1>1, <1>2, BufferSize
  <2>2. \A o \in ma_Obj : ma_obj[o].ref \in 0 .. ma_MaxRef /\ ma_obj[o].pin \in 0 .. ma_MaxPin
    <3>1. ma_MaxRef \in Nat /\ ma_MaxPin \in Nat
      BY BufferSize
    <3> SUFFICES ASSUME NEW o \in ma_Obj
                 PROVE  ma_obj[o].ref \in 0 .. ma_MaxRef /\ ma_obj[o].pin \in 0 .. ma_MaxPin
      OBVIOUS
    <3>2. ma_obj[o].ref \in Nat /\ ma_obj[o].pin \in Nat
      BY <1>1 DEF BufferCounted, BufferFields
    <3>3. ma_obj[o].ref <= ma_MaxRef /\ ma_obj[o].pin <= ma_MaxPin
      BY <1>1 DEF BufferOwned, BufferHeld
    <3> QED
      BY <3>1, <3>2, <3>3
  <2>3. ma_total \in 0 .. ma_Size /\ ma_active \in 0 .. MA!Cardinality(ma_Obj)
    BY <1>1, <1>3, <1>4, BufferCounts DEF BufferOwned, BufferHeld
  <2> QED
    BY <1>1, <2>1, <2>2, <2>3 DEF MA!TypeOK
<1>6. ASSUME ~ma_stray, NEW u \in 0 .. ma_Size - 1
      PROVE  MA!Cardinality({b \in ma_free : MA!Holds(b, u)}) + MA!Cardinality({o \in MA!InUse : MA!Holds(ma_obj[o], u)}) = 1
  <2> DEFINE F == {b \in ma_free : MA!Holds(b, u)}
             H == {o \in MA!InUse : MA!Holds(ma_obj[o], u)}
  <2>1. u \in BufferUnits(ma_free) <=> F # {}
    BY DEF BufferUnits
  <2>2. u \in BufferCells(MA!InUse) <=> H # {}
    BY DEF BufferCells
  <2>3. F # {} <=> H = {}
    <3> HIDE DEF F, H
    <3> QED
      BY <1>1, <1>6, <2>1, <2>2 DEF BufferOwned, BufferHeld
  <2>4. ASSUME NEW b \in F, NEW c \in F PROVE b = c
    <3> SUFFICES ASSUME BufferGap(b, c) PROVE FALSE
      BY <1>1, <1>6 DEF BufferList
    <3>1. b.start <= u /\ u < b.start + b.size /\ c.start <= u /\ u < c.start + c.size
      BY <1>2, <1>6, BufferApartOK, BufferSize
    <3> QED
      BY <1>2, <1>6, <3>1 DEF BufferGap
  <2>5. ASSUME NEW o \in H, NEW q \in H PROVE o = q
    <3> SUFFICES ASSUME BufferApart(ma_obj[o], ma_obj[q]) PROVE FALSE
      BY <1>1 DEF BufferObjects
    <3> QED
      BY <1>1, BufferApartOK, BufferSize DEF BufferObjects
  <2> HIDE DEF F, H
  <2>6. CASE H = {}
    <3>1. PICK b \in F : F = {b}
      BY <2>3, <2>4, <2>6
    <3>2. MA!Cardinality(F) = 1 /\ MA!Cardinality(H) = 0
      BY Zenon, <2>6, <3>1, BufferCounts, FS_Singleton, FS_EmptySet
    <3>3. MA!Cardinality(F) + MA!Cardinality(H) = 1
      BY <3>2
    <3> QED
      BY Zenon, <3>3 DEF F, H
  <2>7. CASE H # {}
    <3>1. PICK o \in H : H = {o}
      BY <2>5, <2>7
    <3>2. F = {}
      BY <2>3, <2>7
    <3>3. MA!Cardinality(F) = 0 /\ MA!Cardinality(H) = 1
      BY Zenon, <3>1, <3>2, BufferCounts, FS_Singleton, FS_EmptySet
    <3>4. MA!Cardinality(F) + MA!Cardinality(H) = 1
      BY <3>3
    <3> QED
      BY Zenon, <3>4 DEF F, H
  <2> QED
    BY <2>6, <2>7
<1>7. MA!BufferPartitioned
  BY <1>6 DEF MA!BufferPartitioned
<1>8. MA!NoFragments
  <2>1. ASSUME ~ma_stray, NEW b \in ma_free, NEW c \in ma_free PROVE b.start + b.size # c.start
    BY <1>1, <1>2, <2>1 DEF BufferList, BufferGap
  <2> QED
    BY <2>1 DEF MA!NoFragments
<1>10. MA!CountsAreTrue
  BY <1>1, <1>4, BufferCounts DEF MA!CountsAreTrue, BufferHeld
<1>9. MA!NothingLeaks
  BY <1>1 DEF BufferCounted, MA!NothingLeaks, MA!InUse
<1> QED
  BY <1>5, <1>7, <1>8, <1>9, <1>10

-----------------------------------------------------------------------------
(* The token database (TokenDatabase).                                     *)

(* The folds that find the separator and that join the chunks of a key.    *)
KeysJoin(a, b) == a \o b

FM == INSTANCE Folding WITH Op <- TD!Match
FJ == INSTANCE Folding WITH Op <- KeysJoin

(* The fold of the model is the first.                                     *)
LEMMA KeysMatchIs ==
  ASSUME NEW base, NEW q PROVE TD!FoldLeft(TD!Match, base, q) = FM!Fold(base, q)
BY DEF TD!FoldLeft, TD!MapThenFoldSet, FM!Fold, FM!IsFolding, TD!Max, FM!Greatest

(* The separator is at this place of the tokens.                           *)
KeysSepAt(ts, p) ==
  p \in Nat /\ p + Len(td_Sep) <= Len(ts) /\ SubSeq(ts, p + 1, p + Len(td_Sep)) = td_Sep

(* Places of the separator, in order and without a token in common.        *)
KeysSpaced(ts, m) ==
  /\ m \in Seq(Nat)
  /\ \A i \in 1 .. Len(m) : KeysSepAt(ts, m[i])
  /\ \A i, j \in 1 .. Len(m) : i < j => m[i] + Len(td_Sep) <= m[j]

(* A separator that does not overlap with itself is found in other tokens. *)
LEMMA KeysApart ==
  ASSUME TD!ConstantsAssumption, NEW ts \in Seq(td_Token), NEW a, NEW p,
         KeysSepAt(ts, a), KeysSepAt(ts, p), a < p
  PROVE  a + Len(td_Sep) <= p
<1> DEFINE L == Len(td_Sep)
           d == p - a
<1>1. /\ L \in Nat /\ td_Sep \in Seq(td_Token) /\ Len(ts) \in Nat /\ a \in Nat /\ p \in Nat
      /\ a + L <= Len(ts) /\ p + L <= Len(ts)
  BY DEF TD!ConstantsAssumption, KeysSepAt
<1>2. ASSUME NEW x \in 1 .. L PROVE td_Sep[x] = ts[a + x] /\ td_Sep[x] = ts[p + x]
  <2>1. SubSeq(ts, a + 1, a + L) = td_Sep /\ SubSeq(ts, p + 1, p + L) = td_Sep
    BY DEF KeysSepAt
  <2>2. SubSeq(ts, a + 1, a + L)[x] = ts[a + x] /\ SubSeq(ts, p + 1, p + L)[x] = ts[p + x]
    BY <1>1
  <2> QED
    BY <2>1, <2>2
<1> SUFFICES ASSUME d < L PROVE FALSE
  BY <1>1
<1>3. d \in 1 .. L - 1
  BY <1>1
<1>4. SubSeq(td_Sep, d + 1, L) = SubSeq(td_Sep, 1, L - d)
  <2> DEFINE A == SubSeq(td_Sep, d + 1, L)
             B == SubSeq(td_Sep, 1, L - d)
  <2>1. A \in Seq(td_Token) /\ B \in Seq(td_Token) /\ Len(A) = L - d /\ Len(B) = L - d
    BY <1>1, <1>3
  <2>2. ASSUME NEW x \in 1 .. L - d PROVE A[x] = B[x]
    <3>0. x \in Nat /\ x >= 1 /\ x <= L - d /\ d \in Nat /\ d >= 1 /\ d < L
      BY <1>1, <1>3
    <3>a. A[x] = td_Sep[d + x]
      BY <1>1, <3>0
    <3>b. B[x] = td_Sep[x]
      BY <1>1, <3>0
    <3>1. A[x] = td_Sep[d + x] /\ B[x] = td_Sep[x]
      BY <3>a, <3>b
    <3>2. d + x \in 1 .. L /\ x \in 1 .. L /\ a + (d + x) = p + x
      BY <1>1, <1>3
    <3>3. td_Sep[d + x] = ts[a + (d + x)] /\ td_Sep[x] = ts[p + x]
      BY <1>2, <3>2
    <3> QED
      BY <3>1, <3>2, <3>3
  <2> HIDE DEF A, B
  <2>3. A = B
    BY <1>1, <1>3, <2>1, <2>2
  <2> QED
    BY <2>3 DEF A, B
<1> QED
  BY <1>3, <1>4 DEF TD!ConstantsAssumption

(* What is found in the first n windows.                                   *)
KeysFound(ts, n, m) == KeysSpaced(ts, m) /\ \A i \in 1 .. Len(m) : m[i] < n

(* The separator is found where it is, each place once and in order.       *)
LEMMA KeysMatches ==
  ASSUME TD!ConstantsAssumption, NEW ts \in Seq(td_Token) PROVE KeysSpaced(ts, TD!MatchesIn(ts))
<1> DEFINE L == Len(td_Sep)
           N == Len(ts) - L + 1
           q == TD!Windows(ts)
           T == {q[i] : i \in 1 .. N}
           n == IF N < 0 THEN 0 ELSE N
           R == [i \in 0 .. n |-> {m \in Seq(Nat) : KeysFound(ts, i, m)}]
<1>1. L \in Nat /\ L > 0 /\ Len(ts) \in Nat /\ td_Sep \in Seq(td_Token)
  BY DEF TD!ConstantsAssumption
<1>2. n \in Nat /\ N \in Int /\ 1 .. N = 1 .. n
  BY <1>1
<1>3. q = [i \in 1 .. n |-> [place |-> i - 1, window |-> SubSeq(ts, i, i + L - 1)]]
  BY <1>2 DEF TD!Windows
<1> HIDE DEF N, n, L, q
<1>4. q \in Seq(T) /\ Len(q) = n
  <2>1. q = [i \in 1 .. n |-> q[i]]
    BY <1>3
  <2>2. \A i \in 1 .. n : q[i] \in T
    BY <1>2
  <2> HIDE DEF T
  <2> QED
    BY <1>2, <2>1, <2>2
<1> HIDE DEF T
<1>5. <<>> \in R[0]
  <2>1. <<>> \in Seq(Nat) /\ Len(<<>>) = 0
    OBVIOUS
  <2>2. KeysFound(ts, 0, <<>>)
    BY <2>1 DEF KeysFound, KeysSpaced
  <2> QED
    BY <1>2, <2>1, <2>2
<1>6. ASSUME NEW i \in 1 .. Len(q), NEW m \in R[i - 1] PROVE TD!Match(m, q[i]) \in R[i]
  <2>1. i \in 1 .. n /\ i - 1 \in 0 .. n /\ i \in 0 .. n
    BY <1>2, <1>4
  <2>2. m \in Seq(Nat) /\ KeysFound(ts, i - 1, m)
    BY <2>1
  <2>3. q[i].place = i - 1 /\ q[i].window = SubSeq(ts, i, i + L - 1)
    BY <1>3, <2>1
  <2> SUFFICES TD!Match(m, q[i]) \in Seq(Nat) /\ KeysFound(ts, i, TD!Match(m, q[i]))
    BY <2>1
  <2> HIDE DEF R
  <2>4. CASE q[i].window # td_Sep
    <3>1. TD!Match(m, q[i]) = m
      BY <2>4 DEF TD!Match
    <3>2. KeysFound(ts, i, m)
      BY <2>1, <2>2 DEF KeysFound
    <3> QED
      BY <2>2, <3>1, <3>2
  <2>5. CASE q[i].window = td_Sep
    <3> DEFINE p == i - 1
               r == Append(m, p)
    <3>1. p \in Nat /\ p + 1 = i /\ p + L = i + L - 1 /\ p + L <= Len(ts)
      BY <1>1, <1>2, <2>1 DEF n, N
    <3>2. TD!Match(m, q[i]) = r
      BY <2>3, <2>5 DEF TD!Match
    <3>3. KeysSepAt(ts, p)
      BY <2>3, <2>5, <3>1 DEF KeysSepAt, L
    <3>4. /\ r \in Seq(Nat) /\ Len(r) = Len(m) + 1 /\ Len(m) \in Nat
          /\ r[Len(m) + 1] = p /\ \A k \in 1 .. Len(m) : r[k] = m[k]
      BY <2>2, <3>1
    <3> HIDE DEF p, r
    <3>5. \A k \in 1 .. Len(m) : KeysSepAt(ts, m[k]) /\ m[k] < p
      BY <2>2 DEF KeysFound, KeysSpaced, p
    <3>6. \A k \in 1 .. Len(m) : m[k] + L <= p
      BY <3>3, <3>5, KeysApart DEF L
    <3>7. \A k \in 1 .. Len(r) : KeysSepAt(ts, r[k]) /\ r[k] < i
      <4> SUFFICES ASSUME NEW k \in 1 .. Len(r) PROVE KeysSepAt(ts, r[k]) /\ r[k] < i
        OBVIOUS
      <4>1. CASE k = Len(m) + 1
        BY <3>1, <3>3, <3>4, <4>1 DEF p
      <4>2. CASE k # Len(m) + 1
        <5>1. k \in 1 .. Len(m)
          BY <3>4, <4>2
        <5>2. m[k] \in Nat
          BY <2>2, <5>1
        <5> QED
          BY <3>1, <3>4, <3>5, <5>1, <5>2
      <4> QED
        BY <4>1, <4>2
    <3>8. ASSUME NEW j \in 1 .. Len(r), NEW k \in 1 .. Len(r), j < k PROVE r[j] + L <= r[k]
      <4>1. j \in 1 .. Len(m)
        BY <3>4, <3>8
      <4>2. CASE k = Len(m) + 1
        BY <3>4, <3>6, <4>1, <4>2
      <4>3. CASE k # Len(m) + 1
        <5>1. k \in 1 .. Len(m)
          BY <3>4, <4>3
        <5>2. m[j] + L <= m[k]
          BY <2>2, <3>8, <4>1, <5>1 DEF KeysFound, KeysSpaced, L
        <5> QED
          BY <3>4, <4>1, <5>1, <5>2
      <4> QED
        BY <4>2, <4>3
    <3>9. KeysFound(ts, i, r)
      BY <3>4, <3>7, <3>8 DEF KeysFound, KeysSpaced, L
    <3> QED
      BY <3>2, <3>4, <3>9
  <2> QED
    BY <2>4, <2>5
<1> HIDE DEF R
<1>7. FM!Fold(<<>>, q) \in R[Len(q)]
  BY <1>4, <1>5, <1>6, FM!FoldReaches
<1>8. TD!MatchesIn(ts) \in R[n]
  BY <1>4, <1>7, KeysMatchIs DEF TD!MatchesIn, q
<1>9. n \in 0 .. n
  BY <1>2
<1> QED
  BY <1>8, <1>9 DEF R, KeysFound

(* The chunks of a key, one after the other: they are the fold.            *)
LEMMA KeysFlattenIs ==
  ASSUME NEW s \in Seq(Seq(td_Token))
  PROVE  TD!FlattenSeq(s) = FJ!Fold(<<>>, s)
<1> DEFINE n == Len(s)
           G(g) == g = [i \in 1 .. n |-> IF i = 1 THEN s[i] ELSE g[i - 1] \o s[i]]
<1>1. PICK h : FJ!Results(<<>>, s, h) /\ FJ!Fold(<<>>, s) = h[n]
  BY FJ!FoldSteps
<1>2. /\ h[0] = <<>> /\ \A i \in 1 .. n : h[i] = h[i - 1] \o s[i]
      /\ n \in Nat /\ \A i \in 1 .. n : s[i] \in Seq(td_Token)
  <2>1. h[0] = <<>> /\ \A i \in 1 .. n : h[i] = KeysJoin(h[i - 1], s[i])
    BY <1>1 DEF FJ!Results
  <2>2. n \in Nat /\ \A i \in 1 .. n : s[i] \in Seq(td_Token)
    OBVIOUS
  <2> QED
    BY <2>1, <2>2, Zenon DEF KeysJoin
<1>3. CASE n = 0
  <2>1. s = <<>>
    BY <1>3
  <2>2. TD!FlattenSeq(s) = s
    BY <1>3 DEF TD!FlattenSeq
  <2> QED
    BY <1>1, <1>2, <1>3, <2>1, <2>2
<1>4. CASE n # 0
  <2>1. n \in 1 .. n
    BY <1>2, <1>4
  <2>2. \E g : G(g)
    <3> DEFINE w == [i \in 1 .. n |-> h[i]]
    <3>1. \A i \in 1 .. n : w[i] = h[i]
      OBVIOUS
    <3>2. w = [i \in 1 .. n |-> w[i]]
      OBVIOUS
    <3> HIDE DEF w
    <3>3. ASSUME NEW i \in 1 .. n PROVE w[i] = IF i = 1 THEN s[i] ELSE w[i - 1] \o s[i]
      <4>1. CASE i = 1
        <5>1. h[1] = h[0] \o s[1] /\ s[1] \in Seq(td_Token)
          <6>1. 1 \in 1 .. n /\ 1 - 1 = 0
            BY <1>2, <4>1
          <6>2. h[1] = h[1 - 1] \o s[1] /\ s[1] \in Seq(td_Token)
            BY <1>2, <6>1
          <6> QED
            BY <6>1, <6>2
        <5>2. <<>> \o s[1] = s[1]
          BY <5>1
        <5> QED
          BY <1>2, <3>1, <4>1, <5>1, <5>2
      <4>2. CASE i # 1
        <5>1. i - 1 \in 1 .. n
          BY <1>2, <4>2
        <5> QED
          BY <1>2, <3>1, <4>2, <5>1
      <4> QED
        BY <4>1, <4>2
    <3>4. G(w)
      BY <3>2, <3>3
    <3> QED
      BY <3>4
  <2> DEFINE g == CHOOSE g : G(g)
  <2>3. G(g)
    BY <2>2
  <2>4. TD!FlattenSeq(s) = g[n]
    BY <1>4 DEF TD!FlattenSeq
  <2> HIDE DEF g
  <2>5. \A i \in 1 .. n : g[i] = IF i = 1 THEN s[i] ELSE g[i - 1] \o s[i]
    <3> DEFINE e(i) == IF i = 1 THEN s[i] ELSE g[i - 1] \o s[i]
    <3>1. g = [i \in 1 .. n |-> e(i)]
      BY <2>3
    <3> HIDE DEF e
    <3>2. \A i \in 1 .. n : g[i] = e(i)
      BY <3>1
    <3> QED
      BY <3>2 DEF e
  <2> HIDE DEF G
  <2> DEFINE R == [i \in 0 .. n |-> IF i = 0 THEN {<<>>} ELSE {g[i]}]
  <2>6. <<>> \in R[0]
    BY <1>2
  <2>7. ASSUME NEW i \in 1 .. n, NEW acc \in R[i - 1] PROVE KeysJoin(acc, s[i]) \in R[i]
    <3>1. i - 1 \in 0 .. n /\ i \in 0 .. n /\ i # 0
      BY <1>2
    <3>2. CASE i = 1
      <4>1. acc = <<>> /\ s[1] \in Seq(td_Token)
        BY <1>2, <3>1, <3>2
      <4>2. <<>> \o s[1] = s[1]
        BY <4>1
      <4> QED
        BY <2>5, <3>1, <3>2, <4>1, <4>2 DEF KeysJoin
    <3>3. CASE i # 1
      <4>1. acc = g[i - 1]
        BY <1>2, <3>1, <3>3
      <4> QED
        BY <2>5, <3>1, <3>3, <4>1 DEF KeysJoin
    <3> QED
      BY <3>2, <3>3
  <2>8. R[n] = {g[n]}
    BY <1>2, <1>4
  <2> HIDE DEF R
  <2>9. FJ!Fold(<<>>, s) \in R[n]
    BY <2>6, <2>7, FJ!FoldReaches
  <2> QED
    BY <2>4, <2>8, <2>9
<1> QED
  BY <1>3, <1>4

(* A chunk more is joined at the end.                                      *)
LEMMA KeysFlattenAppend ==
  ASSUME NEW s \in Seq(Seq(td_Token)), NEW x \in Seq(td_Token)
  PROVE  TD!FlattenSeq(Append(s, x)) = TD!FlattenSeq(s) \o x
<1>1. Append(s, x) \in Seq(Seq(td_Token))
  OBVIOUS
<1>2. FJ!Fold(<<>>, Append(s, x)) = KeysJoin(FJ!Fold(<<>>, s), x)
  BY FJ!FoldAppend
<1> QED
  BY <1>1, <1>2, KeysFlattenIs DEF KeysJoin

(* A slice of the tokens and the one that follows.                         *)
LEMMA KeysSlices ==
  ASSUME NEW ts \in Seq(td_Token), NEW a \in Nat, NEW b \in Nat, a <= b, b <= Len(ts)
  PROVE  /\ SubSeq(ts, a + 1, b) \in Seq(td_Token) /\ Len(SubSeq(ts, a + 1, b)) = b - a
         /\ SubSeq(ts, 1, a) \o SubSeq(ts, a + 1, b) = SubSeq(ts, 1, b)
<1> DEFINE A == SubSeq(ts, 1, a)
           B == SubSeq(ts, a + 1, b)
           C == SubSeq(ts, 1, b)
<1>1. /\ A \in Seq(td_Token) /\ B \in Seq(td_Token) /\ C \in Seq(td_Token)
      /\ Len(A) = a /\ Len(B) = b - a /\ Len(C) = b
  OBVIOUS
<1>2. /\ \A i \in 1 .. a : A[i] = ts[i]
      /\ \A i \in 1 .. b - a : B[i] = ts[a + i]
      /\ \A i \in 1 .. b : C[i] = ts[i]
  OBVIOUS
<1> HIDE DEF A, B, C
<1>3. A \o B \in Seq(td_Token) /\ Len(A \o B) = b
  BY <1>1
<1>4. ASSUME NEW i \in 1 .. b PROVE (A \o B)[i] = C[i]
  <2>1. CASE i <= a
    <3>1. i \in 1 .. a /\ i \in 1 .. Len(A)
      BY <1>1, <2>1
    <3>2. (A \o B)[i] = A[i]
      BY <1>1, <3>1
    <3> QED
      BY <1>2, <3>1, <3>2
  <2>2. CASE ~(i <= a)
    <3>1. i - a \in 1 .. b - a /\ a + (i - a) = i
      BY <2>2
    <3>2. (A \o B)[i] = B[i - a]
      BY <1>1, <2>2
    <3> QED
      BY <1>2, <3>1, <3>2
  <2> QED
    BY <2>1, <2>2
<1> DEFINE AB == A \o B
<1>5. AB \in Seq(td_Token) /\ Len(AB) = b /\ \A i \in 1 .. b : AB[i] = C[i]
  BY <1>3, <1>4
<1> HIDE DEF AB
<1>6. AB = C
  BY <1>1, <1>5
<1> QED
  BY <1>1, <1>6 DEF A, B, C, AB

(* What is yielded: the start, the end, and the hash, which of ready-made  *)
(* hashes is one of them.                                                  *)
KeysYields == [start : Nat, end : Nat, hash : Seq(Seq(td_Token)) \cup td_Token]

(* The key names its tokens.                                               *)
KeysNamed(y) ==
  /\ td_kind = "chunked" => TD!FlattenSeq(y.hash) = TD!Slice(0, y.end)
  /\ td_kind = "segment" => y.hash = <<TD!Slice(y.start, y.end)>>

(* The chunks so far are the tokens before start_idx.                      *)
KeysOfChunks ==
  /\ td_prefix \in Seq(Seq(td_Token))
  /\ TD!FlattenSeq(td_prefix) = TD!Slice(0, IF td_at < Len(td_tokens) THEN td_at ELSE Len(td_tokens))

(* start_idx follows the cutting, a separator behind from the second       *)
(* segment on, and the next places to cut at are ahead.                    *)
KeysOfSegments ==
  /\ td_cut <= Len(td_tokens)
  /\ (td_cut = 0 /\ td_at = 0) \/ td_cut = td_at + Len(td_Sep)
  /\ KeysSpaced(td_tokens, td_matches)
  /\ \A i \in 1 .. Len(td_matches) : td_cut <= td_matches[i]

(* The inductive invariant of the token database.                          *)
KeysIInv ==
  /\ td_tokens \in Seq(td_Token) /\ td_at \in Nat /\ td_cut \in Nat
  /\ td_result \in {"running", "ended", "raised"}
  /\ td_yielded \in Seq(KeysYields) /\ \A i \in 1 .. Len(td_yielded) : KeysNamed(td_yielded[i])
  /\ td_kind = "none" => td_cut = 0 /\ td_at = 0 /\ td_prefix = <<>> /\ td_yielded = <<>>
  /\ td_kind = "hashes" => td_cut <= Len(td_tokens)
  /\ td_kind = "chunked" => KeysOfChunks
  /\ td_kind = "segment" /\ td_result = "running" => KeysOfSegments

(* One key more is yielded, or the mask hides it.                          *)
LEMMA KeysYield ==
  ASSUME KeysIInv, NEW start \in Nat, NEW end \in Nat, NEW hash,
         TD!Yield(start, end, hash), UNCHANGED <<td_kind, td_tokens>>,
         LET y == [start |-> start, end |-> end, hash |-> hash] IN y \in KeysYields /\ KeysNamed(y)
  PROVE  /\ td_yielded' \in Seq(KeysYields)
         /\ \A i \in 1 .. Len(td_yielded') : KeysNamed(td_yielded[i])'
<1> DEFINE y == [start |-> start, end |-> end, hash |-> hash]
<1>1. y \in KeysYields /\ KeysNamed(y)
  OBVIOUS
<1>2. td_yielded \in Seq(KeysYields) /\ \A i \in 1 .. Len(td_yielded) : KeysNamed(td_yielded[i])
  BY DEF KeysIInv
<1>3. td_yielded' = td_yielded \/ td_yielded' = Append(td_yielded, y)
  BY DEF TD!Yield
<1> HIDE DEF y
<1>4. td_yielded' \in Seq(KeysYields)
  BY <1>1, <1>2, <1>3
<1>5. ASSUME NEW i \in 1 .. Len(td_yielded') PROVE KeysNamed(td_yielded'[i])
  <2>1. CASE td_yielded' = td_yielded
    BY <1>2, <1>5, <2>1
  <2>2. CASE td_yielded' = Append(td_yielded, y)
    <3>1. /\ Len(td_yielded') = Len(td_yielded) + 1 /\ Len(td_yielded) \in Nat
          /\ td_yielded'[Len(td_yielded) + 1] = y
          /\ \A k \in 1 .. Len(td_yielded) : td_yielded'[k] = td_yielded[k]
      BY <1>1, <1>2, <2>2
    <3>2. CASE i = Len(td_yielded) + 1
      BY <1>1, <3>1, <3>2
    <3>3. CASE i # Len(td_yielded) + 1
      <4>1. i \in 1 .. Len(td_yielded)
        BY <3>1, <3>3
      <4> QED
        BY <1>2, <3>1, <4>1
    <3> QED
      BY <3>2, <3>3
  <2> QED
    BY <1>3, <2>1, <2>2
<1>6. ASSUME NEW i \in 1 .. Len(td_yielded') PROVE KeysNamed(td_yielded[i])'
  <2>1. KeysNamed(td_yielded'[i])
    BY <1>5
  <2> QED
    BY <2>1 DEF KeysNamed, TD!Slice
<1> QED
  BY <1>4, <1>6

(* A sequence with one entry more.                                         *)
LEMMA KeysAppendOK ==
  ASSUME NEW T, NEW s \in Seq(T), NEW x \in T PROVE Append(s, x) \in Seq(T)
OBVIOUS

(* Nothing is yielded before the first call.                               *)
LEMMA KeysInitIInv ==
  ASSUME TD!ConstantsAssumption, TD!Init PROVE KeysIInv
BY DEF TD!Init, KeysIInv

(* A call begins with nothing cut and nothing hashed.                      *)
LEMMA KeysCallOK ==
  ASSUME TD!ConstantsAssumption, KeysIInv, NEW k, NEW ts \in Seq(td_Token), NEW f, NEW u, k # "none",
         TD!Call(k, ts, f, u)
  PROVE  KeysIInv'
<1>1. /\ td_cut = 0 /\ td_at = 0 /\ td_prefix = <<>> /\ td_yielded = <<>>
      /\ td_cut' = 0 /\ td_at' = 0 /\ td_prefix' = <<>> /\ td_yielded' = <<>>
      /\ td_kind' = k /\ td_tokens' = ts /\ td_result' \in {"running", "raised"}
  BY DEF TD!Call, KeysIInv
<1>2. td_yielded' \in Seq(KeysYields) /\ \A i \in 1 .. Len(td_yielded') : KeysNamed(td_yielded[i])'
  BY <1>1
<1>5. 0 <= Len(ts)
  OBVIOUS
<1>3. ASSUME k = "chunked" PROVE KeysOfChunks'
  <2>1. Len(ts) \in Nat /\ SubSeq(ts, 1, 0) = <<>>
    OBVIOUS
  <2>2. TD!FlattenSeq(<<>>) = <<>>
    BY DEF TD!FlattenSeq
  <2>3. (IF 0 < Len(ts) THEN 0 ELSE Len(ts)) = 0
    BY <2>1
  <2>4. td_prefix' \in Seq(Seq(td_Token)) /\ TD!FlattenSeq(td_prefix') = SubSeq(ts, 1, 0)
    <3>1. <<>> \in Seq(Seq(td_Token))
      OBVIOUS
    <3>2. td_prefix' = <<>>
      BY <1>1
    <3> QED
      BY <2>1, <2>2, <3>1, <3>2, Zenon
  <2>5. KeysOfChunks' <=>
          /\ td_prefix' \in Seq(Seq(td_Token))
          /\ TD!FlattenSeq(td_prefix') = SubSeq(ts, 0 + 1, IF 0 < Len(ts) THEN 0 ELSE Len(ts))
    BY <1>1 DEF KeysOfChunks, TD!Slice
  <2>6. 0 + 1 = 1
    OBVIOUS
  <2> QED
    BY <2>3, <2>4, <2>5, <2>6
<1>4. ASSUME k = "segment" PROVE KeysOfSegments'
  <2>1. KeysSpaced(ts, TD!MatchesIn(ts))
    BY KeysMatches
  <2>2. td_matches' = TD!MatchesIn(ts)
    BY <1>4 DEF TD!Call
  <2>3. \A i \in 1 .. Len(td_matches') : td_matches'[i] \in Nat
    BY <2>1, <2>2 DEF KeysSpaced
  <2>4. KeysSpaced(td_tokens, td_matches)'
    BY <1>1, <2>1, <2>2 DEF KeysSpaced, KeysSepAt
  <2>5. Len(ts) \in Nat
    OBVIOUS
  <2> QED
    BY <1>1, <2>3, <2>4, <2>5 DEF KeysOfSegments
<1> QED
  BY <1>1, <1>2, <1>3, <1>4, <1>5 DEF KeysIInv

(* A chunk: its key stands for the tokens up to its end.                   *)
LEMMA KeysNextChunkOK ==
  ASSUME TD!ConstantsAssumption, KeysIInv, TD!NextChunk PROVE KeysIInv'
<1> DEFINE n == Len(td_tokens)
           end == IF td_at + td_ChunkSize < n THEN td_at + td_ChunkSize ELSE n
           chunk == TD!Slice(td_at, end)
           hash == Append(td_prefix, chunk)
<1>1. /\ td_kind = "chunked" /\ td_result = "running" /\ td_at < TD!End
      /\ td_prefix' = hash /\ td_at' = td_at + td_ChunkSize /\ TD!Yield(td_at, end, hash)
      /\ UNCHANGED <<td_kind, td_tokens, td_cut, td_result>>
  BY DEF TD!NextChunk, TD!Running
<1>2. /\ td_tokens \in Seq(td_Token) /\ td_at \in Nat /\ n \in Nat
      /\ td_ChunkSize \in Nat /\ td_ChunkSize > 0 /\ KeysOfChunks /\ td_cut \in Nat
  BY <1>1 DEF KeysIInv, TD!ConstantsAssumption
<1>3. TD!End <= n /\ TD!End \in Int
  <2>1. n % td_ChunkSize \in Nat
    BY <1>2
  <2> QED
    BY <1>2, <2>1 DEF TD!End
<1>4. td_at < n /\ end \in Nat /\ td_at <= end /\ end <= n
  BY <1>1, <1>2, <1>3
<1> HIDE DEF end, n
<1>5. TD!FlattenSeq(td_prefix) = SubSeq(td_tokens, 1, td_at)
  BY <1>2, <1>4 DEF KeysOfChunks, TD!Slice, n
<1>6. /\ chunk \in Seq(td_Token)
      /\ SubSeq(td_tokens, 1, td_at) \o chunk = SubSeq(td_tokens, 1, end)
  BY <1>2, <1>4, KeysSlices DEF TD!Slice, n
<1>7. td_prefix \in Seq(Seq(td_Token))
  BY <1>2 DEF KeysOfChunks
<1>8. hash \in Seq(Seq(td_Token)) /\ TD!FlattenSeq(hash) = SubSeq(td_tokens, 1, end)
  <2> HIDE DEF chunk
  <2>1. TD!FlattenSeq(hash) = TD!FlattenSeq(td_prefix) \o chunk
    BY <1>6, <1>7, KeysFlattenAppend
  <2>2. TD!FlattenSeq(hash) = SubSeq(td_tokens, 1, end)
    BY <1>5, <1>6, <2>1, Zenon
  <2>3. Append(td_prefix, chunk) \in Seq(Seq(td_Token))
    BY <1>6, <1>7, KeysAppendOK
  <2> QED
    BY <2>2, <2>3
<1> HIDE DEF hash
<1>9. td_yielded' \in Seq(KeysYields) /\ \A i \in 1 .. Len(td_yielded') : KeysNamed(td_yielded[i])'
  <2> DEFINE y == [start |-> td_at, end |-> end, hash |-> hash]
  <2>1. y \in KeysYields
    BY <1>2, <1>4, <1>8 DEF KeysYields
  <2>2. KeysNamed(y)
    BY <1>1, <1>8 DEF KeysNamed, TD!Slice
  <2> QED
    BY <1>1, <1>2, <1>4, <2>1, <2>2, KeysYield
<1>10. KeysOfChunks'
  <2>1. (IF td_at' < Len(td_tokens') THEN td_at' ELSE Len(td_tokens')) = end
    BY <1>1, <1>2 DEF end, n
  <2> QED
    BY <1>1, <1>8, <2>1 DEF KeysOfChunks, TD!Slice
<1>11. td_at' \in Nat
  BY <1>1, <1>2
<1> QED
  BY <1>1, <1>9, <1>10, <1>11 DEF KeysIInv

(* A segment: its key stands for the tokens between its start and its end. *)
LEMMA KeysNextSegmentOK ==
  ASSUME TD!ConstantsAssumption, KeysIInv, TD!NextSegment PROVE KeysIInv'
<1> DEFINE L == Len(td_Sep)
           n == Len(td_tokens)
           to == IF td_matches = <<>> THEN n ELSE Head(td_matches)
           segment == TD!Slice(td_cut, to)
           end == TD!SegmentStart + Len(segment)
<1>1. /\ td_kind = "segment" /\ td_result = "running"
      /\ TD!Yield(TD!SegmentStart, end, <<segment>>)
      /\ td_at' = end /\ td_cut' = to + L
      /\ td_matches' = IF td_matches = <<>> THEN <<>> ELSE Tail(td_matches)
      /\ td_result' \in {"running", "ended", "raised"} /\ (td_result' = "running" => td_matches # <<>>)
      /\ UNCHANGED <<td_kind, td_tokens, td_prefix>>
  BY DEF TD!NextSegment, TD!Running
<1>2. /\ td_tokens \in Seq(td_Token) /\ td_at \in Nat /\ td_cut \in Nat /\ n \in Nat
      /\ L \in Nat /\ L > 0 /\ KeysOfSegments
  BY <1>1 DEF KeysIInv, TD!ConstantsAssumption
<1>3. td_matches \in Seq(Nat) /\ td_cut <= n
  BY <1>2 DEF KeysOfSegments, KeysSpaced
<1>4. td_matches # <<>> => /\ to \in Nat /\ 1 \in 1 .. Len(td_matches) /\ to = td_matches[1]
                           /\ td_cut <= to /\ to + L <= n
  <2> SUFFICES ASSUME td_matches # <<>>
               PROVE  /\ td_matches[1] \in Nat /\ 1 \in 1 .. Len(td_matches) /\ Head(td_matches) = td_matches[1]
                      /\ td_cut <= td_matches[1] /\ td_matches[1] + L <= n
    OBVIOUS
  <2>1. 1 \in 1 .. Len(td_matches) /\ td_matches[1] \in Nat /\ Head(td_matches) = td_matches[1]
    BY <1>3
  <2> QED
    BY <1>2, <2>1 DEF KeysOfSegments, KeysSpaced, KeysSepAt
<1>5. to \in Nat /\ td_cut <= to /\ to <= n
  BY <1>2, <1>3, <1>4
<1> HIDE DEF to
<1>6. segment \in Seq(td_Token) /\ Len(segment) = to - td_cut
  BY <1>2, <1>5, KeysSlices DEF TD!Slice
<1>7. TD!SegmentStart = td_cut
  BY <1>2 DEF KeysOfSegments, TD!SegmentStart
<1> HIDE DEF segment
<1>8. end = to
  BY <1>2, <1>5, <1>6, <1>7
<1> HIDE DEF end
<1>9. td_yielded' \in Seq(KeysYields) /\ \A i \in 1 .. Len(td_yielded') : KeysNamed(td_yielded[i])'
  <2> DEFINE y == [start |-> td_cut, end |-> to, hash |-> <<segment>>]
  <2>1. y \in KeysYields
    BY <1>2, <1>5, <1>6 DEF KeysYields
  <2>2. KeysNamed(y)
    BY <1>1 DEF KeysNamed, segment
  <2>3. TD!Yield(td_cut, to, <<segment>>)
    BY <1>1, <1>7, <1>8
  <2> QED
    BY <1>1, <1>2, <1>5, <2>1, <2>2, <2>3, KeysYield
<1>10. td_at' \in Nat /\ td_cut' \in Nat /\ td_cut' = td_at' + L
  BY <1>1, <1>2, <1>5, <1>8
<1>11. ASSUME td_matches # <<>> PROVE KeysOfSegments'
  <2> DEFINE r == Tail(td_matches)
  <2>1. /\ r \in Seq(Nat) /\ Len(r) = Len(td_matches) - 1 /\ Len(td_matches) \in Nat
        /\ \A i \in 1 .. Len(r) : r[i] = td_matches[i + 1]
    BY <1>3, <1>11
  <2> HIDE DEF r
  <2>2. td_matches' = r
    BY <1>1, <1>11 DEF r
  <2>3. \A i \in 1 .. Len(r) : i + 1 \in 1 .. Len(td_matches) /\ 1 < i + 1
    BY <2>1
  <2>4. \A i, j \in 1 .. Len(r) : i < j => i + 1 < j + 1
    BY <2>1
  <2>5. KeysSpaced(td_tokens, td_matches)
    BY <1>2 DEF KeysOfSegments
  <2>6. KeysSpaced(td_tokens, r)
    BY <2>1, <2>3, <2>4, <2>5 DEF KeysSpaced
  <2>7. ASSUME NEW i \in 1 .. Len(r) PROVE to + L <= r[i]
    <3>1. td_matches[1] + L <= td_matches[i + 1]
      BY <1>4, <1>11, <2>3, <2>5 DEF KeysSpaced
    <3> QED
      BY <1>4, <1>11, <2>1, <3>1
  <2>8. KeysSpaced(td_tokens, td_matches)'
    BY <1>1, <2>2, <2>6 DEF KeysSpaced, KeysSepAt
  <2>9. \A i \in 1 .. Len(td_matches') : td_cut' <= td_matches'[i]
    BY <1>1, <2>2, <2>7
  <2>10. td_cut' <= Len(td_tokens')
    BY <1>1, <1>4, <1>11
  <2> QED
    BY <1>10, <2>8, <2>9, <2>10 DEF KeysOfSegments
<1> QED
  BY <1>1, <1>2, <1>9, <1>10, <1>11 DEF KeysIInv

(* The other steps: the end, the ready-made hashes, and the next call.     *)
LEMMA KeysOtherOK ==
  ASSUME TD!ConstantsAssumption, KeysIInv, TD!LastChunk \/ TD!NextHash \/ TD!Done \/ UNCHANGED TD!vars
  PROVE  KeysIInv'
<1>1. CASE UNCHANGED TD!vars
  BY <1>1 DEF KeysIInv, TD!vars, KeysNamed, TD!Slice, KeysOfChunks, KeysOfSegments, KeysSpaced, KeysSepAt
<1>2. CASE TD!LastChunk
  BY <1>2 DEF KeysIInv, TD!LastChunk, TD!Running, KeysNamed, TD!Slice, KeysOfChunks
<1>3. CASE TD!NextHash
  <2>1. td_kind = "hashes" /\ UNCHANGED <<td_kind, td_tokens>> /\ td_tokens \in Seq(td_Token)
        /\ td_yielded \in Seq(KeysYields) /\ td_cut \in Nat /\ td_at \in Nat /\ td_ChunkSize \in Nat
        /\ td_result \in {"running", "ended", "raised"}
    BY <1>3 DEF TD!NextHash, TD!Running, KeysIInv, TD!ConstantsAssumption
  <2>2. CASE td_cut = Len(td_tokens)
    <3>1. td_result' = "ended" /\ UNCHANGED <<td_cut, td_at, td_yielded>>
      BY <1>3, <2>2 DEF TD!NextHash
    <3> QED
      BY <2>1, <3>1 DEF KeysIInv, KeysNamed
  <2>3. CASE td_cut # Len(td_tokens)
    <3>1. td_result' = td_result /\ td_cut' = td_cut + 1 /\ td_at' = td_at + td_ChunkSize
      BY <1>3, <2>3 DEF TD!NextHash
    <3> DEFINE y == [start |-> td_at, end |-> td_at + td_ChunkSize, hash |-> td_tokens[td_cut + 1]]
    <3>2. td_cut <= Len(td_tokens) /\ Len(td_tokens) \in Nat /\ td_cut' <= Len(td_tokens)
      BY <2>1, <2>3, <3>1 DEF KeysIInv
    <3>3. td_tokens[td_cut + 1] \in td_Token
      BY <2>1, <2>3, <3>2
    <3>4. y \in KeysYields
      BY <2>1, <3>3 DEF KeysYields
    <3>5. td_yielded' = Append(td_yielded, y)
      BY <1>3, <2>3 DEF TD!NextHash
    <3> HIDE DEF y
    <3>6. td_yielded' \in Seq(KeysYields)
      BY <2>1, <3>4, <3>5, KeysAppendOK
    <3> QED
      BY <2>1, <3>1, <3>2, <3>6 DEF KeysIInv, KeysNamed
  <2> QED
    BY <2>2, <2>3
<1>4. CASE TD!Done
  BY <1>4 DEF TD!Done, KeysIInv
<1> QED
  BY <1>1, <1>2, <1>3, <1>4

(* Every step keeps the invariant.                                         *)
LEMMA KeysNextIInv ==
  ASSUME TD!ConstantsAssumption, KeysIInv, [TD!Next]_TD!vars PROVE KeysIInv'
<1>1. ASSUME NEW k \in {"chunked", "segment", "hashes"}, NEW ts \in TD!SeqOf(td_Token, td_MaxTokens),
             NEW f, NEW u, TD!Call(k, ts, f, u)
      PROVE  KeysIInv'
  <2>1. ts \in Seq(td_Token)
    BY DEF TD!SeqOf, TD!ConstantsAssumption
  <2> QED
    BY <1>1, <2>1, KeysCallOK
<1>2. CASE TD!NextChunk
  BY <1>2, KeysNextChunkOK
<1>3. CASE TD!NextSegment
  BY <1>3, KeysNextSegmentOK
<1>4. CASE TD!LastChunk \/ TD!NextHash \/ TD!Done \/ UNCHANGED TD!vars
  BY <1>4, KeysOtherOK
<1> QED
  BY <1>1, <1>2, <1>3, <1>4 DEF TD!Next

(* What the invariant promises.                                            *)
LEMMA KeysPromises ==
  ASSUME KeysIInv PROVE TD!TypeOK /\ TD!KeysNameTheirTokens
<1>1. td_yielded \in Seq(KeysYields) /\ DOMAIN td_yielded = 1 .. Len(td_yielded)
  BY DEF KeysIInv
<1> QED
  BY <1>1 DEF KeysIInv, TD!TypeOK, TD!KeysNameTheirTokens, KeysNamed
=============================================================================
