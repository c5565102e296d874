--------------------------- MODULE StorageProofs ----------------------------
(***************************************************************************)
(* Proofs about the properties of the run of Storage, for all values of    *)
(* the constants: first the invariant of every module it composes, then    *)
(* what they say together.                                                 *)
(***************************************************************************)
EXTENDS Storage, InstanceHostProofs

-----------------------------------------------------------------------------
(* The index and the files of a KDN (KdnStore).                            *)

(* Where a handler of the KDN may be.                                      *)
StoreStep ==
  {"idle", "insert", "unlink", "undump", "purgeIndex", "purgeDumps",
   "infer", "dump", "dumpRest", "mark", "fail"}

(* The types of the KDN's index and files.                                 *)
StoreTypes ==
  /\ ks_row \in [ks_Kid -> {"none", "text", "ready"}]
  /\ ks_dump \in [ks_Kid -> {"none", "empty", "part", "whole"}]
  /\ ks_op \in [at : StoreStep, kid : ks_Kid \cup {ks_None}]
  /\ ks_file \subseteq ks_Kid /\ ks_cached \subseteq ks_Kid /\ ks_injecting \subseteq ks_Kid
  /\ ks_lost \subseteq ks_Kid /\ ks_spoilt \subseteq ks_Kid /\ ks_faults \in 0 .. ks_MaxFaults

(* What the handler that runs knows of its block.                          *)
StoreOpKnows ==
  /\ ks_op.at \in {"insert", "unlink", "undump"} => ks_op.kid \in ks_Kid
  /\ KS!Building => ks_op.kid \in ks_Kid /\ ks_row[ks_op.kid] # "none"
  /\ ks_op.at = "insert" => ks_op.kid \in ks_file
  /\ ks_op.at \in {"unlink", "undump"} => ks_row[ks_op.kid] = "none"
  /\ ks_op.at = "mark" => ks_dump[ks_op.kid] \in {"part", "whole"}

(* A purge past the texts: the rows that are left have lost theirs.        *)
StorePurgeKnows ==
  ks_op.at \in {"purgeIndex", "purgeDumps"} => \A x \in ks_Kid : ks_row[x] # "none" => x \in ks_lost

(* A build of the block runs.                                              *)
StoreBuildOf(x) == KS!Building /\ ks_op.kid = x

(* A ready row has its whole dump, but for the known exceptions.           *)
StoreDumped ==
  \A x \in ks_Kid : ks_row[x] = "ready" /\ ~StoreBuildOf(x) => ks_dump[x] = "whole" \/ x \in ks_spoilt \cup ks_lost

(* A half dump is known to be one, or nobody can have found its block      *)
(* ready: the first build of a block was cut short by a crash, which also  *)
(* ended every injection that waited.                                      *)
StorePartIsKnown ==
  \A x \in ks_Kid : ks_dump[x] = "part" /\ ~StoreBuildOf(x) =>
                   x \in ks_spoilt \/ (x \notin ks_injecting /\ ks_row[x] # "ready")

(* The inductive invariant of the KDN's index and files.                   *)
StoreIInv == StoreTypes /\ StoreOpKnows /\ StorePurgeKnows /\ KS!TextSurvives /\ StoreDumped /\ StorePartIsKnown

(* The invariant holds at first.                                           *)
LEMMA StoreInitIInv == ASSUME KS!ConstantsAssumption, KS!Init PROVE StoreIInv
BY DEF KS!ConstantsAssumption, KS!Init, StoreIInv, StoreTypes, StoreStep, StoreOpKnows, StorePurgeKnows, KS!TextSurvives, StoreDumped,
       StorePartIsKnown, KS!Building, StoreBuildOf, KS!Idle, KS!At

(* The handlers of the texts and the index.                                *)
LEMMA StoreTextSteps ==
  ASSUME KS!ConstantsAssumption, StoreIInv,
         (\E x \in ks_Kid : KS!WriteText(x) \/ KS!DeleteRow(x)) \/ KS!InsertRow \/ KS!UnlinkText \/ KS!RemoveDump
  PROVE  StoreIInv'
<1> USE DEF StoreIInv, KS!At, KS!Idle, StoreStep, KS!Building, StoreBuildOf
<1>1. ASSUME NEW x \in ks_Kid, KS!WriteText(x) PROVE StoreIInv'
  BY <1>1 DEF KS!WriteText, StoreTypes, StoreOpKnows, StorePurgeKnows, KS!TextSurvives, StoreDumped, StorePartIsKnown
<1>2. ASSUME NEW x \in ks_Kid, KS!DeleteRow(x) PROVE StoreIInv'
  BY <1>2 DEF KS!DeleteRow, StoreTypes, StoreOpKnows, StorePurgeKnows, KS!TextSurvives, StoreDumped, StorePartIsKnown
<1>3. CASE KS!InsertRow
  BY <1>3 DEF KS!InsertRow, StoreTypes, StoreOpKnows, StorePurgeKnows, KS!TextSurvives, StoreDumped, StorePartIsKnown
<1>4. CASE KS!UnlinkText
  BY <1>4 DEF KS!UnlinkText, StoreTypes, StoreOpKnows, StorePurgeKnows, KS!TextSurvives, StoreDumped, StorePartIsKnown
<1>5. CASE KS!RemoveDump
  BY <1>5 DEF KS!RemoveDump, StoreTypes, StoreOpKnows, StorePurgeKnows, KS!TextSurvives, StoreDumped, StorePartIsKnown
<1> QED
  BY <1>1, <1>2, <1>3, <1>4, <1>5

(* The purge.                                                              *)
LEMMA StorePurgeSteps ==
  ASSUME KS!ConstantsAssumption, StoreIInv, KS!PurgeTexts \/ KS!PurgeIndex \/ KS!PurgeDumps
  PROVE  StoreIInv'
<1> USE DEF StoreIInv, KS!At, KS!Idle, StoreStep, KS!Building, StoreBuildOf
<1>1. CASE KS!PurgeTexts
  BY <1>1 DEF KS!PurgeTexts, StoreTypes, StoreOpKnows, StorePurgeKnows, KS!TextSurvives, StoreDumped, StorePartIsKnown
<1>2. CASE KS!PurgeIndex
  BY <1>2 DEF KS!ConstantsAssumption, KS!PurgeIndex, KS!Fault, StoreTypes, StoreOpKnows, StorePurgeKnows, KS!TextSurvives, StoreDumped,
              StorePartIsKnown
<1>3. CASE KS!PurgeDumps
  BY <1>3 DEF KS!PurgeDumps, StoreTypes, StoreOpKnows, StorePurgeKnows, KS!TextSurvives, StoreDumped, StorePartIsKnown
<1> QED
  BY <1>1, <1>2, <1>3

(* A build.                                                                *)
LEMMA StoreBuildSteps ==
  ASSUME KS!ConstantsAssumption, StoreIInv,
         (\E x \in ks_Kid : KS!BeginBuild(x)) \/ KS!Infer \/ KS!DumpFirst \/ KS!DumpRest \/ KS!MarkReady \/ KS!BuildFails
  PROVE  StoreIInv'
<1> USE DEF StoreIInv, KS!At, KS!Idle, StoreStep, KS!Building, StoreBuildOf
<1>1. ASSUME NEW x \in ks_Kid, KS!BeginBuild(x) PROVE StoreIInv'
  BY <1>1 DEF KS!BeginBuild, StoreTypes, StoreOpKnows, StorePurgeKnows, KS!TextSurvives, StoreDumped, StorePartIsKnown
<1>2. CASE KS!Infer
  BY <1>2 DEF KS!Infer, StoreTypes, StoreOpKnows, StorePurgeKnows, KS!TextSurvives, StoreDumped, StorePartIsKnown
<1>3. CASE KS!DumpFirst
  BY <1>3 DEF KS!DumpFirst, StoreTypes, StoreOpKnows, StorePurgeKnows, KS!TextSurvives, StoreDumped, StorePartIsKnown
<1>4. CASE KS!DumpRest
  BY <1>4 DEF KS!DumpRest, StoreTypes, StoreOpKnows, StorePurgeKnows, KS!TextSurvives, StoreDumped, StorePartIsKnown
<1>5. CASE KS!MarkReady
  <2>1. /\ ks_op.kid \in ks_Kid /\ ks_row[ks_op.kid] # "none" /\ ks_op' = KS!Idle
        /\ ks_row' = [ks_row EXCEPT ![ks_op.kid] = "ready"] /\ ks_dump[ks_op.kid] \in {"part", "whole"}
    BY <1>5 DEF KS!MarkReady, StoreOpKnows
  <2>2. StoreTypes' /\ StoreOpKnows' /\ StorePurgeKnows'
    BY <1>5, <2>1 DEF KS!MarkReady, StoreTypes, StoreOpKnows, StorePurgeKnows
  <2>3. KS!TextSurvives'
    BY <1>5, <2>1 DEF KS!MarkReady, StoreTypes, KS!TextSurvives
  <2>4. StoreDumped' /\ StorePartIsKnown'
    BY <1>5, <2>1 DEF KS!MarkReady, StoreTypes, StoreDumped, StorePartIsKnown
  <2> QED
    BY <2>2, <2>3, <2>4
<1>6. CASE KS!BuildFails
  BY <1>6 DEF KS!BuildFails, KS!Spoilt, StoreTypes, StoreOpKnows, StorePurgeKnows, KS!TextSurvives, StoreDumped, StorePartIsKnown
<1> QED
  BY <1>1, <1>2, <1>3, <1>4, <1>5, <1>6

(* Evictions, injections, and a crash.                                     *)
LEMMA StoreOtherSteps ==
  ASSUME KS!ConstantsAssumption, StoreIInv,
         (\E x \in ks_Kid : KS!EvictKeys(x) \/ KS!BeginInject(x) \/ KS!Inject(x)) \/ KS!Crash \/ UNCHANGED KS!vars
  PROVE  StoreIInv'
<1> USE DEF StoreIInv, KS!At, KS!Idle, StoreStep, KS!Building, StoreBuildOf
<1>1. ASSUME NEW x \in ks_Kid, KS!EvictKeys(x) PROVE StoreIInv'
  BY <1>1 DEF KS!EvictKeys, StoreTypes, StoreOpKnows, StorePurgeKnows, KS!TextSurvives, StoreDumped, StorePartIsKnown
<1>2. ASSUME NEW x \in ks_Kid, KS!BeginInject(x) PROVE StoreIInv'
  BY <1>2 DEF KS!BeginInject, StoreTypes, StoreOpKnows, StorePurgeKnows, KS!TextSurvives, StoreDumped, StorePartIsKnown
<1>3. ASSUME NEW x \in ks_Kid, KS!Inject(x) PROVE StoreIInv'
  BY <1>3 DEF KS!Inject, StoreTypes, StoreOpKnows, StorePurgeKnows, KS!TextSurvives, StoreDumped, StorePartIsKnown
<1>4. CASE KS!Crash
  BY <1>4 DEF KS!ConstantsAssumption, KS!Crash, KS!Fault, KS!Spoilt, StoreTypes, StoreOpKnows, StorePurgeKnows, KS!TextSurvives, StoreDumped,
              StorePartIsKnown
<1>5. CASE UNCHANGED KS!vars
  BY <1>5 DEF KS!vars, StoreTypes, StoreOpKnows, StorePurgeKnows, KS!TextSurvives, StoreDumped, StorePartIsKnown
<1> QED
  BY <1>1, <1>2, <1>3, <1>4, <1>5

(* Every step of the KDN keeps the invariant.                              *)
LEMMA StoreNextIInv == ASSUME KS!ConstantsAssumption, StoreIInv, [KS!Next]_KS!vars PROVE StoreIInv'
BY StoreTextSteps, StorePurgeSteps, StoreBuildSteps, StoreOtherSteps DEF KS!Next

(* What the index says of its files, from the invariant.                   *)
LEMMA StoreIInvFiles == ASSUME StoreIInv PROVE KS!TextSurvives /\ KS!ReadyHasDump
BY DEF StoreIInv, StoreDumped, StoreBuildOf, KS!ReadyHasDump

(* What an injection reports, from the invariant.                          *)
LEMMA StoreIInvWhole == ASSUME StoreIInv, [KS!Next]_KS!vars, NEW x \in ks_Kid PROVE KS!InjectsWhole(x)
BY DEF StoreIInv, KS!InjectsWhole, KS!Inject, StorePartIsKnown, StoreBuildOf, KS!Building, KS!Idle, KS!At

-----------------------------------------------------------------------------
(* The gateway of the cache service (CacheGateway).                        *)

(* What was started is written in the task: a task is started once, only a *)
(* pending one can still be, and one that runs or has ended but by a       *)
(* cancellation was.  Of a generation that is still to come, and of a key  *)
(* that has no task under the one there is, nothing was started or told.   *)
(* No task was changed later than the clock has shown.                     *)
GatewayStarted ==
  /\ \A k \in cg_Key, g \in 1 .. cg_MaxGen :
       g > cg_gen \/ (g = cg_gen /\ cg_task[k] = cg_None) =>
         cg_ran[k][g] = 0 /\ cg_told[k][g] = cg_None
  /\ \A k \in cg_Key : cg_task[k] # cg_None =>
       /\ cg_ran[k][cg_gen] = cg_task[k].attempt /\ cg_task[k].attempt <= 1
       /\ cg_task[k].state = "pending" => cg_task[k].attempt = 0
       /\ cg_task[k].state \in {"running", "succeeded", "failed"} => cg_task[k].attempt = 1
       /\ cg_task[k].state # "retry_wait" /\ cg_task[k].updated <= cg_latest

(* The inductive invariant of the gateway.                                 *)
GatewayIInv == CG!TypeOK /\ GatewayStarted /\ CG!AnswersHold

(* The invariant holds at first.                                           *)
LEMMA GatewayInitIInv == ASSUME CG!ConstantsAssumption, CG!Init PROVE GatewayIInv
<1>1. cg_gen \in 0 .. cg_MaxGen /\ (cg_gen = 0) = (cg_profile = "legacy")
  BY DEF CG!ConstantsAssumption, CG!Init
<1>2. CG!TypeOK
  BY <1>1 DEF CG!ConstantsAssumption, CG!Init, CG!TypeOK, CG!NoTasks, CG!Time
<1>3. GatewayStarted /\ CG!AnswersHold
  BY DEF CG!ConstantsAssumption, CG!Transitions, CG!Init, CG!NoTasks, GatewayStarted, CG!AnswersHold,
         CG!AlwaysAnswers, CG!AboutWhatWasAsked, CG!DoneOnce
<1> QED
  BY <1>2, <1>3 DEF GatewayIInv

(* The observation of a record that was possible stays possible.           *)
LEMMA GatewayRecordsGrow ==
  ASSUME NEW p, NEW g, NEW t \in Int, NEW u \in Int, t <= u
  PROVE  CG!Records(p, g, t) \subseteq CG!Records(p, g, u)
<1>1. 0 .. t \subseteq 0 .. u
  OBVIOUS
<1>2. /\ CG!ObservedWindows(t) \subseteq CG!ObservedWindows(u)
      /\ CG!ProjectedWindows(t) \subseteq CG!ProjectedWindows(u)
  BY <1>1 DEF CG!ObservedWindows, CG!ProjectedWindows
<1> QED
  BY <1>2 DEF CG!Records

(* A call that leaves the tasks alone, and whose answer is within the      *)
(* contract, about what was asked and of no operation, keeps the           *)
(* invariant, also when the clock is set back meanwhile.                   *)
LEMMA GatewayAnswerIInv ==
  ASSUME CG!ConstantsAssumption, GatewayIInv, cg_now' \in 0 .. cg_now,
         UNCHANGED <<cg_profile, cg_supported, cg_gen, cg_latest, cg_record, cg_task, cg_told, cg_ran>>,
         cg_answer' = cg_None \/ cg_answer'.operation = cg_None,
         CG!AlwaysAnswers', CG!AboutWhatWasAsked'
  PROVE  GatewayIInv'
<1>1. CG!TypeOK'
  BY DEF GatewayIInv, CG!TypeOK, CG!Time, CG!ConstantsAssumption
<1>2. GatewayStarted'
  BY DEF GatewayIInv, GatewayStarted
<1>3. CG!DoneOnce'
  BY DEF GatewayIInv, CG!AnswersHold, CG!DoneOnce
<1> QED
  BY <1>1, <1>2, <1>3 DEF GatewayIInv, CG!AnswersHold

(* The same when nothing of the gateway changes.                           *)
LEMMA GatewayKeptIInv ==
  ASSUME CG!ConstantsAssumption, GatewayIInv, UNCHANGED <<CG!kept, cg_task, cg_told, cg_ran>>,
         cg_answer' = cg_None \/ cg_answer'.operation = cg_None,
         CG!AlwaysAnswers', CG!AboutWhatWasAsked'
  PROVE  GatewayIInv'
<1>1. cg_now' \in 0 .. cg_now
  BY DEF GatewayIInv, CG!TypeOK, CG!Time, CG!ConstantsAssumption, CG!kept
<1> QED
  BY <1>1, GatewayAnswerIInv DEF CG!kept

(* A response that carries nothing breaks no contract.                     *)
LEMMA GatewayDeclineIInv ==
  ASSUME CG!ConstantsAssumption, GatewayIInv, UNCHANGED <<CG!kept, cg_task, cg_told, cg_ran>>,
         NEW r, NEW outcome, CG!Decline(r, outcome),
         outcome \in {"incompatible", "stale", "unsupported", "text_fallback", "idempotency_conflict"}
  PROVE  GatewayIInv'
<1>1. cg_answer'.operation = cg_None /\ CG!AlwaysAnswers' /\ CG!AboutWhatWasAsked'
  BY DEF CG!Decline, CG!Respond, CG!Consistent, CG!AlwaysAnswers, CG!AboutWhatWasAsked
<1> QED
  BY <1>1, GatewayKeptIInv

(* What the gate refuses is declined.                                      *)
LEMMA GatewayRefuseIInv ==
  ASSUME CG!ConstantsAssumption, GatewayIInv, UNCHANGED <<CG!kept, cg_task, cg_told, cg_ran>>,
         NEW r, CG!Refuse(r)
  PROVE  GatewayIInv'
<1>1. CG!Refusal(r) \in {"incompatible", "stale", "unsupported"}
  BY DEF CG!Refusal
<1> QED
  BY <1>1, GatewayDeclineIInv DEF CG!Refuse

(* The lookups: what is found is of the artifact that was asked for.       *)
LEMMA GatewayLookupArtifactIInv ==
  ASSUME CG!ConstantsAssumption, GatewayIInv, NEW r \in CG!Target, NEW a \in cg_Artifact,
         CG!LookupArtifact(r, a)
  PROVE  GatewayIInv'
<1>1. UNCHANGED <<CG!kept, cg_task, cg_told, cg_ran>>
  BY DEF CG!LookupArtifact
<1>2. CASE CG!Refuse(r) \/ CG!Decline(r, "stale") \/ CG!Decline(r, "incompatible")
  BY <1>1, <1>2, GatewayRefuseIInv, GatewayDeclineIInv
<1>3. CASE /\ CG!Holds(a) /\ cg_record.home = r.home
           /\ CG!Respond("artifact", a, cg_None, r, "success", cg_record, cg_None, cg_now)
  <2>1. cg_answer'.operation = cg_None /\ CG!AlwaysAnswers'
    BY <1>3 DEF CG!Respond, CG!Consistent, CG!SuccessFits, CG!Holds, CG!AlwaysAnswers,
                CG!ConstantsAssumption, CG!OperationCapability
  <2>2. CG!AboutWhatWasAsked'
    BY <1>3 DEF CG!Respond, CG!Holds, CG!AboutWhatWasAsked, CG!ConstantsAssumption, CG!OperationCapability
  <2> QED
    BY <1>1, <2>1, <2>2, GatewayKeptIInv
<1> QED
  BY <1>2, <1>3 DEF CG!LookupArtifact

(* A lookup by tokens keeps the invariant: refused, or answered with what  *)
(* the records hold.                                                       *)
LEMMA GatewayLookupTokensIInv ==
  ASSUME CG!ConstantsAssumption, GatewayIInv, NEW r \in CG!Target, NEW a \in cg_Artifact,
         CG!LookupTokens(r, a)
  PROVE  GatewayIInv'
<1>1. UNCHANGED <<CG!kept, cg_task, cg_told, cg_ran>>
  BY DEF CG!LookupTokens
<1>2. CASE CG!Refuse(r) \/ CG!Decline(r, "text_fallback")
  BY <1>1, <1>2, GatewayRefuseIInv, GatewayDeclineIInv
<1>3. CASE CG!Holds(a) /\ CG!Respond("tokens", a, cg_None, r, "success", cg_record, cg_None, cg_now)
  <2>1. cg_answer'.operation = cg_None /\ CG!AlwaysAnswers'
    BY <1>3 DEF CG!Respond, CG!Consistent, CG!SuccessFits, CG!Holds, CG!AlwaysAnswers,
                CG!ConstantsAssumption, CG!OperationCapability
  <2>2. CG!AboutWhatWasAsked'
    BY <1>3 DEF CG!Respond, CG!Holds, CG!AboutWhatWasAsked, CG!ConstantsAssumption, CG!OperationCapability
  <2> QED
    BY <1>1, <2>1, <2>2, GatewayKeptIInv
<1> QED
  BY <1>2, <1>3 DEF CG!LookupTokens

(* A summary that is handed on is of the target that was asked for.        *)
LEMMA GatewaySummaryIInv ==
  ASSUME CG!ConstantsAssumption, GatewayIInv, NEW r \in CG!Target, NEW c, CG!Summary(r, c)
  PROVE  GatewayIInv'
<1>1. UNCHANGED <<CG!kept, cg_task, cg_told, cg_ran>>
  BY DEF CG!Summary
<1>2. CASE CG!Refuse(r) \/ CG!Decline(r, "stale") \/ CG!Decline(r, "incompatible")
  BY <1>1, <1>2, GatewayRefuseIInv, GatewayDeclineIInv
<1>3. CASE /\ cg_record # cg_None /\ CG!SameTarget(cg_record, r)
           /\ CG!Respond("summary", cg_None, cg_None, r, "success", cg_record, cg_None, cg_now)
  <2>1. cg_answer'.operation = cg_None /\ CG!AlwaysAnswers'
    BY <1>3 DEF CG!Respond, CG!Consistent, CG!SuccessFits, CG!AlwaysAnswers,
                CG!ConstantsAssumption, CG!OperationCapability
  <2>2. CG!AboutWhatWasAsked'
    BY <1>3 DEF CG!Respond, CG!AboutWhatWasAsked, CG!ConstantsAssumption, CG!OperationCapability
  <2> QED
    BY <1>1, <2>1, <2>2, GatewayKeptIInv
<1> QED
  BY <1>2, <1>3 DEF CG!Summary

(* An observation that passes the gate has no answer yet. *)
LEMMA GatewayAskIInv ==
  ASSUME CG!ConstantsAssumption, GatewayIInv, NEW r \in CG!Target, NEW a \in cg_Artifact,
         CG!AskObservation(r, a)
  PROVE  GatewayIInv'
<1>1. UNCHANGED <<CG!kept, cg_task, cg_told, cg_ran>>
  BY DEF CG!AskObservation
<1>2. CASE CG!Refuse(r)
  BY <1>1, <1>2, GatewayRefuseIInv
<1>3. CASE UNCHANGED cg_answer
  <2>1. cg_answer' = cg_None
    BY <1>3 DEF CG!AskObservation, CG!Idle
  <2>2. CG!AlwaysAnswers' /\ CG!AboutWhatWasAsked'
    BY <2>1 DEF CG!AlwaysAnswers, CG!AboutWhatWasAsked
  <2> QED
    BY <1>1, <2>1, <2>2, GatewayKeptIInv
<1> QED
  BY <1>2, <1>3 DEF CG!AskObservation

(* The observation is judged at the time its answer bears, however late    *)
(* the answer is: it is fresh then, or the answer says that it is not.     *)
LEMMA GatewayObservationIInv ==
  ASSUME CG!ConstantsAssumption, GatewayIInv, CG!AnswerObservation
  PROVE  GatewayIInv'
<1> DEFINE r == [home |-> "mine", gen |-> cg_gen]
           a == cg_asked.artifact
           at == cg_asked.at
<1>1. UNCHANGED <<CG!kept, cg_task, cg_told, cg_ran>>
  BY DEF CG!AnswerObservation
<1>2. CASE CG!Decline(r, "stale") \/ CG!Decline(r, "incompatible")
  BY <1>1, <1>2, GatewayDeclineIInv
<1>3. CASE /\ CG!Holds(a) /\ CG!SameTarget(cg_record, r) /\ CG!Fresh(cg_record, at)
           /\ CG!Respond("observation", a, cg_None, r, "success", cg_record, cg_None, at)
  <2>1. cg_answer'.operation = cg_None /\ CG!AlwaysAnswers'
    BY <1>3 DEF CG!Respond, CG!Consistent, CG!SuccessFits, CG!Holds, CG!AlwaysAnswers,
                CG!ConstantsAssumption, CG!OperationCapability
  <2>2. CG!AboutWhatWasAsked'
    BY <1>1, <1>3 DEF CG!Respond, CG!Holds, CG!SameTarget, CG!kept, CG!AboutWhatWasAsked,
                      CG!ConstantsAssumption, CG!OperationCapability
  <2> QED
    BY <1>1, <2>1, <2>2, GatewayKeptIInv
<1>4. CASE /\ CG!Holds(a) /\ CG!SameTarget(cg_record, r) /\ ~CG!Fresh(cg_record, at)
           /\ CG!Respond("observation", a, cg_None, r, "stale", cg_record, cg_None, at)
  <2>1. cg_answer'.operation = cg_None /\ CG!AlwaysAnswers' /\ CG!AboutWhatWasAsked'
    BY <1>4 DEF CG!Respond, CG!Consistent, CG!Holds, CG!AlwaysAnswers, CG!AboutWhatWasAsked
  <2> QED
    BY <1>1, <2>1, GatewayKeptIInv
<1> QED
  BY <1>2, <1>3, <1>4 DEF CG!AnswerObservation

(* A client that is told of the task that its key has, as it is: an end    *)
(* that it is told of is the one the task has, and was told or is now.     *)
LEMMA GatewayToldIInv ==
  ASSUME CG!ConstantsAssumption, GatewayIInv, NEW k \in cg_Key, cg_task[k] # cg_None,
         UNCHANGED <<CG!kept, cg_task, cg_ran>>, CG!Tell(k, cg_task[k]),
         cg_answer'.key = k, cg_answer'.operation = cg_task[k],
         CG!AlwaysAnswers', CG!AboutWhatWasAsked'
  PROVE  GatewayIInv'
<1> USE DEF GatewayIInv, CG!AnswersHold
<1> DEFINE t == cg_task[k]
<1>1. t \in CG!Task /\ t.gen = cg_gen /\ cg_gen \in 1 .. cg_MaxGen
  BY DEF CG!TypeOK, CG!Task
<1>2. CASE UNCHANGED cg_told /\ ~(CG!Terminal(t) /\ cg_told[k][cg_gen] = cg_None)
  <2>1. CG!TypeOK' /\ GatewayStarted'
    BY <1>2 DEF CG!TypeOK, GatewayStarted, CG!kept
  <2>2. CG!DoneOnce'
    BY <1>1, <1>2 DEF CG!DoneOnce, CG!kept
  <2> QED
    BY <2>1, <2>2
<1>3. CASE CG!Terminal(t) /\ cg_told[k][cg_gen] = cg_None
  <2>1. cg_told' = [cg_told EXCEPT ![k][cg_gen] = t.state]
    BY <1>1, <1>3 DEF CG!Tell
  <2>2. t.state \in {"succeeded", "failed", "cancelled", cg_None}
    BY <1>3 DEF CG!Terminal
  <2>3. /\ cg_told' \in [cg_Key -> [1 .. cg_MaxGen -> {"succeeded", "failed", "cancelled", cg_None}]]
        /\ cg_told'[k][cg_gen] = t.state
        /\ \A j \in cg_Key, i \in 1 .. cg_MaxGen :
             j # k \/ i # cg_gen => cg_told'[j][i] = cg_told[j][i]
    <3>1. cg_told \in [cg_Key -> [1 .. cg_MaxGen -> {"succeeded", "failed", "cancelled", cg_None}]]
      BY DEF CG!TypeOK
    <3> HIDE DEF t
    <3> QED
      BY <1>1, <2>1, <2>2, <3>1
  <2>4. CG!TypeOK'
    BY <2>3 DEF CG!TypeOK, CG!kept
  <2>5. GatewayStarted'
    BY <2>3 DEF GatewayStarted, CG!kept
  <2>6. t.state \in {"succeeded", "failed"} => cg_ran[k][cg_gen] = 1
    BY DEF GatewayStarted
  <2>7. \A j \in cg_Key : cg_task[j] # cg_None => cg_task[j].gen = cg_gen
    BY DEF CG!TypeOK
  <2>8. CG!DoneOnce'
    BY <1>1, <2>3, <2>6, <2>7 DEF CG!DoneOnce, CG!kept
  <2> QED
    BY <2>4, <2>5, <2>8
<1> QED
  BY <1>1, <1>2, <1>3 DEF CG!Tell

(* The tasks.  A key that is free takes a task that nobody has started;    *)
(* one that is taken gives the task it has, if it is the one asked for.    *)
LEMMA GatewaySubmitIInv ==
  ASSUME CG!ConstantsAssumption, GatewayIInv, NEW r \in CG!Target, NEW k \in cg_Key,
         NEW op \in cg_Intent, NEW a \in cg_Artifact, CG!Submit(r, k, op, a)
  PROVE  GatewayIInv'
<1> USE DEF GatewayIInv, CG!AnswersHold
<1>1. UNCHANGED <<CG!kept, cg_ran>>
  BY DEF CG!Submit
<1>2. CASE /\ CG!Refuse(r) \/ CG!Decline(r, "idempotency_conflict")
           /\ UNCHANGED <<cg_task, cg_told>>
  BY <1>1, <1>2, GatewayRefuseIInv, GatewayDeclineIInv
<1>3. CASE /\ CG!Passes(r, CG!OperationCapability[op]) /\ ~CG!Taken(k)
           /\ cg_task' = [cg_task EXCEPT ![k] = CG!NewTask(op, a, r)]
           /\ CG!Respond(op, a, k, r, "success", cg_None, cg_task'[k], cg_now)
           /\ UNCHANGED cg_told
  <2>1. /\ cg_task'[k] = CG!NewTask(op, a, r) /\ cg_task[k] = cg_None
        /\ CG!Respond(op, a, k, r, "success", cg_None, CG!NewTask(op, a, r), cg_now)
    BY <1>3 DEF CG!TypeOK, CG!Taken
  <2>2. r.home = "mine" /\ r.gen = cg_gen /\ cg_gen \in 1 .. cg_MaxGen
    <3>1. CG!OperationCapability[op] \notin {"artifact_lookup", "cache_observation"}
      BY DEF CG!ConstantsAssumption, CG!OperationCapability
    <3>2. cg_profile # "legacy"
      BY <1>3, <3>1 DEF CG!Passes, CG!Supports
    <3> QED
      BY <1>3, <3>2 DEF CG!Passes, CG!Negotiated, CG!TypeOK, CG!ConstantsAssumption
  <2>3. CG!NewTask(op, a, r) \in CG!Task /\ CG!NewTask(op, a, r) # cg_None
    <3>1. "pending" \in DOMAIN CG!Transitions
      BY DEF CG!Transitions
    <3>2. CG!NewTask(op, a, r) \in CG!Task
      BY <2>2, <3>1 DEF CG!NewTask, CG!Task, CG!Home, CG!TypeOK
    <3> QED
      BY <3>2 DEF CG!ConstantsAssumption
  <2>4. CG!TypeOK'
    BY <1>1, <1>3, <2>2, <2>3 DEF CG!TypeOK, CG!kept, CG!NewTask
  <2>5. cg_ran[k][cg_gen] = 0 /\ cg_told[k][cg_gen] = cg_None
    BY <2>1, <2>2 DEF GatewayStarted
  <2>6. GatewayStarted'
    <3>1. /\ cg_ran' = cg_ran /\ cg_told' = cg_told
          /\ cg_gen' = cg_gen /\ cg_latest' = cg_latest
      BY <1>1, <1>3 DEF CG!kept
    <3>2. \A j \in cg_Key \ {k} : cg_task'[j] = cg_task[j]
      BY <1>3 DEF CG!TypeOK
    <3>3. /\ cg_task'[k].state = "pending" /\ cg_task'[k].attempt = 0
          /\ cg_task'[k].updated = cg_now /\ cg_now <= cg_latest
      BY <2>1 DEF CG!NewTask, CG!TypeOK
    <3>4. ASSUME NEW j \in cg_Key, NEW g \in 1 .. cg_MaxGen,
                 g > cg_gen \/ (g = cg_gen /\ cg_task'[j] = cg_None)
          PROVE  cg_ran[j][g] = 0 /\ cg_told[j][g] = cg_None
      <4>1. g > cg_gen \/ (g = cg_gen /\ cg_task[j] = cg_None)
        BY <2>1, <2>3, <3>2, <3>4
      <4> QED
        BY <4>1 DEF GatewayStarted
    <3>5. ASSUME NEW j \in cg_Key, cg_task'[j] # cg_None
          PROVE  /\ cg_ran[j][cg_gen] = cg_task'[j].attempt /\ cg_task'[j].attempt <= 1
                 /\ cg_task'[j].state = "pending" => cg_task'[j].attempt = 0
                 /\ cg_task'[j].state \in {"running", "succeeded", "failed"}
                      => cg_task'[j].attempt = 1
                 /\ cg_task'[j].state # "retry_wait" /\ cg_task'[j].updated <= cg_latest
      <4>1. CASE j = k
        BY <2>5, <3>3, <4>1
      <4>2. CASE j # k
        BY <3>2, <3>5, <4>2 DEF GatewayStarted
      <4> QED
        BY <4>1, <4>2
    <3> QED
      BY <3>1, <3>4, <3>5 DEF GatewayStarted
  <2>7. CG!AlwaysAnswers'
    BY <2>1, <2>2, <2>3 DEF CG!Respond, CG!Consistent, CG!SuccessFits, CG!SameTarget, CG!NewTask,
                            CG!AlwaysAnswers, CG!ConstantsAssumption, CG!OperationCapability
  <2>8. CG!AboutWhatWasAsked'
    BY <1>1, <2>1, <2>2 DEF CG!Respond, CG!NewTask, CG!AboutWhatWasAsked, CG!kept,
                            CG!ConstantsAssumption, CG!OperationCapability
  <2>9. /\ cg_answer'.key = k /\ cg_answer'.operation.gen = cg_gen
        /\ CG!NewTask(op, a, r).gen = cg_gen
    BY <2>1, <2>2 DEF CG!Respond, CG!NewTask
  <2>10. CG!DoneOnce'
    BY <1>1, <1>3, <2>1, <2>5, <2>9 DEF CG!DoneOnce, CG!TypeOK
  <2> QED
    BY <2>4, <2>6, <2>7, <2>8, <2>10
<1>4. CASE /\ CG!Passes(r, CG!OperationCapability[op]) /\ CG!Taken(k)
           /\ CG!Logical(cg_task[k]) = CG!Logical(CG!NewTask(op, a, r))
           /\ CG!Respond(op, a, k, r, "success", cg_None, cg_task[k], cg_now)
           /\ CG!Tell(k, cg_task[k]) /\ UNCHANGED cg_task
  <2>1. /\ cg_task[k] # cg_None
        /\ cg_task[k].operation = op /\ cg_task[k].artifact = a /\ cg_task[k].home = r.home
        /\ cg_task[k].gen = r.gen /\ r.gen = cg_gen
    BY <1>4 DEF CG!Taken, CG!Logical, CG!NewTask, CG!Passes, CG!Negotiated
  <2>2. CG!AlwaysAnswers' /\ cg_answer'.key = k /\ cg_answer'.operation = cg_task[k]
    BY <1>4, <2>1 DEF CG!Respond, CG!Consistent, CG!SuccessFits, CG!SameTarget, CG!AlwaysAnswers,
                      CG!ConstantsAssumption, CG!OperationCapability
  <2>3. CG!AboutWhatWasAsked'
    BY <1>1, <1>4, <2>1 DEF CG!Respond, CG!AboutWhatWasAsked, CG!kept, CG!ConstantsAssumption,
                            CG!OperationCapability
  <2> QED
    BY <1>1, <1>4, <2>1, <2>2, <2>3, GatewayToldIInv
<1> QED
  BY <1>2, <1>3, <1>4 DEF CG!Submit

(* A key of blanks, and a clock that is set back, are the exceptions.      *)
LEMMA GatewaySubmitRaisesIInv ==
  ASSUME CG!ConstantsAssumption, GatewayIInv, NEW r \in CG!Target, NEW k \in cg_Key,
         NEW op \in cg_Intent, NEW a \in cg_Artifact, CG!SubmitRaises(r, k, op, a)
  PROVE  GatewayIInv'
<1>1. /\ cg_answer'.call = op /\ cg_answer'.key = k /\ cg_answer'.outcome = "raised"
      /\ cg_answer'.operation = cg_None /\ (k \in cg_Blank \/ cg_answer'.behind)
  BY DEF CG!SubmitRaises, CG!Raise
<1>2. CG!AlwaysAnswers' /\ CG!AboutWhatWasAsked'
  BY <1>1 DEF CG!AlwaysAnswers, CG!AboutWhatWasAsked
<1>3. cg_now' \in 0 .. cg_now
  <2>1. cg_now \in Nat
    BY DEF GatewayIInv, CG!TypeOK, CG!Time, CG!ConstantsAssumption
  <2>2. cg_now' = cg_now \/ (cg_now > 0 /\ cg_now' = cg_now - 1)
    BY DEF CG!SubmitRaises
  <2> QED
    BY <2>1, <2>2
<1> QED
  BY <1>1, <1>2, <1>3, GatewayAnswerIInv DEF CG!SubmitRaises

(* A task that moves on by the table of its transitions is still a task.   *)
LEMMA GatewayTransitionType ==
  ASSUME NEW t \in CG!Task, NEW s \in DOMAIN CG!Transitions, cg_now \in CG!Time
  PROVE  /\ CG!Transition(t, s) \in CG!Task
         /\ CG!Transition(t, s).state = s
         /\ CG!Transition(t, s).home = t.home /\ CG!Transition(t, s).gen = t.gen
         /\ CG!Transition(t, s).operation = t.operation
         /\ CG!Transition(t, s).artifact = t.artifact
         /\ CG!Transition(t, s).attempt =
              t.attempt + (IF s = "running" /\ s # t.state THEN 1 ELSE 0)
         /\ CG!Transition(t, s).updated \in {t.updated, cg_now}
<1>1. CASE s = t.state
  BY <1>1 DEF CG!Transition, CG!Task
<1>2. CASE s # t.state
  <2> DEFINE n == t.attempt + (IF s = "running" THEN 1 ELSE 0)
  <2>1. n \in Nat
    BY DEF CG!Task
  <2>2. CG!Transition(t, s) = [t EXCEPT !.state = s, !.attempt = n, !.updated = cg_now]
    BY <1>2 DEF CG!Transition
  <2>3. n = t.attempt + (IF s = "running" /\ s # t.state THEN 1 ELSE 0)
    BY <1>2
  <2> HIDE DEF n
  <2>4. /\ [t EXCEPT !.state = s, !.attempt = n, !.updated = cg_now] \in CG!Task
        /\ [t EXCEPT !.state = s, !.attempt = n, !.updated = cg_now].attempt = n
    BY <2>1 DEF CG!Task
  <2>5. \A u : u = [t EXCEPT !.state = s, !.attempt = n, !.updated = cg_now] =>
          /\ u.state = s /\ u.home = t.home /\ u.gen = t.gen
          /\ u.operation = t.operation /\ u.artifact = t.artifact /\ u.updated = cg_now
    BY DEF CG!Task
  <2> QED
    BY <2>2, <2>3, <2>4, <2>5
<1> QED
  BY <1>1, <1>2

(* A worker that moves the task of k on, to an end or to its first start,  *)
(* keeps the invariant: what a client was told of is not moved.            *)
LEMMA GatewayWorkIInv ==
  ASSUME CG!ConstantsAssumption, GatewayIInv, NEW k \in cg_Key, NEW t \in CG!Task,
         cg_task[k] # cg_None, t.home = cg_task[k].home, t.gen = cg_task[k].gen,
         t.state \in {"running", "succeeded", "failed"} => t.attempt = 1,
         t.state = "cancelled" => t.attempt = cg_task[k].attempt,
         t.state \notin {"pending", "retry_wait"}, t.updated <= cg_latest,
         CG!Terminal(cg_task[k]) => t.state = cg_task[k].state,
         cg_answer = cg_None, cg_task' = [cg_task EXCEPT ![k] = t],
         cg_ran' = [cg_ran EXCEPT ![k][cg_task[k].gen] = @ + (t.attempt - cg_task[k].attempt)],
         UNCHANGED <<CG!kept, cg_answer, cg_told>>
  PROVE  GatewayIInv'
<1> USE DEF GatewayIInv, CG!AnswersHold
<1>1. /\ t.attempt \in Nat /\ t # cg_None /\ cg_task[k] \in CG!Task /\ cg_task'[k] = t
      /\ cg_task[k].gen = cg_gen /\ cg_gen \in 1 .. cg_MaxGen
  BY DEF CG!Task, CG!TypeOK, CG!ConstantsAssumption
<1>2. /\ cg_task[k].attempt \in Nat /\ cg_ran[k][cg_gen] = cg_task[k].attempt
      /\ cg_task[k].attempt <= 1
  BY <1>1 DEF GatewayStarted, CG!Task
<1>3. t.state \in DOMAIN CG!Transitions /\ t.attempt <= 1
  BY <1>2 DEF CG!Task, CG!Transitions
<1>4. /\ cg_ran' \in [cg_Key -> [1 .. cg_MaxGen -> Nat]]
      /\ cg_ran'[k][cg_gen] = t.attempt
      /\ \A j \in cg_Key, i \in 1 .. cg_MaxGen :
           j # k \/ i # cg_gen => cg_ran'[j][i] = cg_ran[j][i]
  <2>1. cg_ran' = [cg_ran EXCEPT ![k][cg_gen] = t.attempt]
    <3>1. cg_ran[k][cg_gen] + (t.attempt - cg_task[k].attempt) = t.attempt
      BY <1>1, <1>2
    <3> QED
      BY <1>1, <3>1
  <2>2. cg_ran \in [cg_Key -> [1 .. cg_MaxGen -> Nat]]
    BY DEF CG!TypeOK
  <2>3. k \in cg_Key /\ cg_gen \in 1 .. cg_MaxGen /\ t.attempt \in Nat
    BY <1>1
  <2>4. cg_ran'[k] = [cg_ran[k] EXCEPT ![cg_gen] = t.attempt]
    BY ONLY <2>1, <2>2, <2>3
  <2>5. cg_ran' = [cg_ran EXCEPT ![k] = cg_ran'[k]]
    BY ONLY <2>1, <2>2, <2>3
  <2>6. cg_ran'[k] \in [1 .. cg_MaxGen -> Nat]
    BY ONLY <2>2, <2>3, <2>4
  <2> QED
    BY ONLY <2>2, <2>3, <2>4, <2>5, <2>6
<1>5. CG!TypeOK'
  BY <1>1, <1>4 DEF CG!TypeOK, CG!kept
<1>6. GatewayStarted'
  BY <1>1, <1>3, <1>4 DEF GatewayStarted, CG!TypeOK, CG!kept
<1>7. CG!AlwaysAnswers' /\ CG!AboutWhatWasAsked'
  BY DEF CG!AlwaysAnswers, CG!AboutWhatWasAsked
<1>8. cg_told[k][cg_gen] \in {cg_None, t.state}
  <2>1. cg_told[k][cg_gen] \in {cg_None, cg_task[k].state}
    BY <1>1 DEF CG!DoneOnce
  <2>2. cg_told[k][cg_gen] \in {"succeeded", "failed", "cancelled", cg_None}
    BY <1>1 DEF CG!TypeOK
  <2> QED
    BY <2>1, <2>2 DEF CG!Terminal
<1>9. \A j \in cg_Key : cg_task[j] # cg_None => cg_task[j].gen = cg_gen
  BY DEF CG!TypeOK
<1>10. cg_told[k][cg_gen] \in {"succeeded", "failed"} => t.attempt = 1
  <2> SUFFICES ASSUME cg_told[k][cg_gen] \in {"succeeded", "failed"}
               PROVE  t.attempt = 1
    OBVIOUS
  <2>1. cg_ran[k][cg_gen] = 1 /\ cg_told[k][cg_gen] \in {cg_None, cg_task[k].state}
    BY <1>1 DEF CG!DoneOnce
  <2> QED
    BY <2>1, <1>1 DEF CG!ConstantsAssumption, CG!Transitions, GatewayStarted, CG!Terminal
<1>11. CG!DoneOnce'
  <2>1. ASSUME NEW j \in cg_Key, NEW i \in 1 .. cg_MaxGen
        PROVE  /\ cg_ran'[j][i] <= 1
               /\ cg_told'[j][i] \in {"succeeded", "failed"} => cg_ran'[j][i] = 1
    BY <1>3, <1>4, <1>10 DEF CG!DoneOnce
  <2>2. ASSUME NEW j \in cg_Key, cg_task'[j] # cg_None
        PROVE  cg_told'[j][cg_task'[j].gen] \in {cg_None, cg_task'[j].state}
    BY <1>1, <1>8, <2>2 DEF CG!DoneOnce, CG!TypeOK
  <2> QED
    BY <2>1, <2>2 DEF CG!DoneOnce
<1> QED
  BY <1>5, <1>6, <1>7, <1>11

(* A worker starts a task: one that is pending, so that its work runs for  *)
(* the first time.                                                         *)
LEMMA GatewayStartIInv ==
  ASSUME CG!ConstantsAssumption, GatewayIInv, NEW k \in cg_Key, CG!Start(k)
  PROVE  GatewayIInv'
<1> DEFINE t == CG!Transition(cg_task[k], "running")
<1>1. /\ cg_task[k] # cg_None /\ cg_task[k] \in CG!Task /\ cg_task[k].state # "retry_wait"
      /\ cg_now \in CG!Time /\ cg_task[k].updated <= cg_latest /\ cg_now <= cg_latest
  BY DEF CG!Start, GatewayIInv, CG!TypeOK, GatewayStarted
<1>2. cg_task[k].state \in {"pending", "running"}
  BY <1>1 DEF CG!Start, CG!Allowed, CG!Transitions, CG!Task
<1>3. "running" \in DOMAIN CG!Transitions
  BY DEF CG!Transitions
<1>4. /\ t \in CG!Task /\ t.home = cg_task[k].home /\ t.gen = cg_task[k].gen
      /\ t.state = "running"
      /\ t.attempt = cg_task[k].attempt + (IF cg_task[k].state = "pending" THEN 1 ELSE 0)
      /\ t.updated <= cg_latest
  BY <1>1, <1>2, <1>3, GatewayTransitionType
<1>5. /\ cg_task[k].state = "pending" => cg_task[k].attempt = 0
      /\ cg_task[k].state = "running" => cg_task[k].attempt = 1
  BY <1>1 DEF GatewayIInv, GatewayStarted
<1>6. t.attempt = 1
  BY <1>2, <1>4, <1>5
<1>7. /\ cg_task' = [cg_task EXCEPT ![k] = t] /\ cg_task'[k] = t
      /\ cg_ran' = [cg_ran EXCEPT ![k][cg_task[k].gen] = @ + (t.attempt - cg_task[k].attempt)]
      /\ cg_answer = cg_None /\ UNCHANGED <<CG!kept, cg_answer, cg_told>>
  BY DEF CG!Start, CG!Started, CG!Idle, GatewayIInv, CG!TypeOK
<1>8. ~CG!Terminal(cg_task[k])
  BY <1>2 DEF CG!Terminal
<1> HIDE DEF t
<1> QED
  BY <1>1, <1>4, <1>6, <1>7, <1>8, GatewayWorkIInv

(* A completion of a task that has not been started starts it first. *)
LEMMA GatewayCompleteIInv ==
  ASSUME CG!ConstantsAssumption, GatewayIInv, NEW k \in cg_Key, NEW failed \in BOOLEAN,
         CG!Complete(k, failed)
  PROVE  GatewayIInv'
<1> DEFINE running == IF cg_task[k].state = "pending"
                      THEN CG!Transition(cg_task[k], "running") ELSE cg_task[k]
           end == IF failed THEN "failed" ELSE "succeeded"
           t == CG!Transition(running, end)
<1>1. /\ cg_task[k] # cg_None /\ cg_task[k] \in CG!Task /\ cg_task[k].state # "retry_wait"
      /\ cg_now \in CG!Time /\ cg_task[k].updated <= cg_latest /\ cg_now <= cg_latest
  BY DEF CG!Complete, GatewayIInv, CG!TypeOK, GatewayStarted
<1>2. "running" \in DOMAIN CG!Transitions /\ end \in DOMAIN CG!Transitions
  BY DEF CG!Transitions
<1>3. /\ cg_task[k].attempt \in Nat
      /\ cg_task[k].state = "pending" => cg_task[k].attempt = 0
      /\ cg_task[k].state \in {"running", "succeeded", "failed"} => cg_task[k].attempt = 1
  BY <1>1 DEF GatewayIInv, GatewayStarted, CG!Task
<1>4. /\ running \in CG!Task /\ running.home = cg_task[k].home /\ running.gen = cg_task[k].gen
      /\ running.state = IF cg_task[k].state = "pending" THEN "running" ELSE cg_task[k].state
      /\ running.attempt = IF cg_task[k].state = "pending" THEN 1 ELSE cg_task[k].attempt
      /\ running.updated <= cg_latest
  <2>1. CASE cg_task[k].state = "pending"
    <3> DEFINE u == CG!Transition(cg_task[k], "running")
    <3>1. /\ u \in CG!Task /\ u.home = cg_task[k].home /\ u.gen = cg_task[k].gen
          /\ u.state = "running" /\ u.updated \in {cg_task[k].updated, cg_now}
          /\ u.attempt = cg_task[k].attempt + 1
      BY <1>1, <1>2, <2>1, GatewayTransitionType
    <3>2. running = u
      BY <2>1
    <3> HIDE DEF u, running
    <3> QED
      BY <1>1, <1>3, <2>1, <3>1, <3>2
  <2>2. CASE cg_task[k].state # "pending"
    BY <1>1, <2>2
  <2> QED
    BY <2>1, <2>2
<1>5. end \in {"failed", "succeeded"}
  OBVIOUS
<1>6. CG!Allowed(running, end)
  BY DEF CG!Complete
<1>7. /\ cg_task' = [cg_task EXCEPT ![k] = t] /\ cg_task'[k] = t
      /\ cg_ran' = [cg_ran EXCEPT ![k][cg_task[k].gen] = @ + (t.attempt - cg_task[k].attempt)]
      /\ cg_answer = cg_None /\ UNCHANGED <<CG!kept, cg_answer, cg_told>>
  BY DEF CG!Complete, CG!Started, CG!Idle, GatewayIInv, CG!TypeOK
<1> HIDE DEF end, running
<1>8. /\ t \in CG!Task /\ t.home = cg_task[k].home /\ t.gen = cg_task[k].gen
      /\ t.state = end /\ t.attempt = running.attempt /\ t.updated <= cg_latest
  <2>1. end # "running" /\ running.attempt \in Nat
    BY <1>4, <1>5 DEF CG!Task
  <2> QED
    BY <1>1, <1>2, <1>4, <2>1, GatewayTransitionType
<1>9. running.state \in {"running", end}
  BY <1>1, <1>4, <1>5, <1>6 DEF CG!Allowed, CG!Transitions, CG!Task
<1>10. running.attempt = 1 /\ (CG!Terminal(cg_task[k]) => end = cg_task[k].state)
  BY <1>1, <1>3, <1>4, <1>5, <1>9 DEF CG!Terminal
<1> HIDE DEF t
<1> QED
  BY <1>1, <1>5, <1>7, <1>8, <1>10, GatewayWorkIInv

(* The client that asks is told of the task as it is. *)
LEMMA GatewayStatusIInv ==
  ASSUME CG!ConstantsAssumption, GatewayIInv, NEW r \in CG!Target, NEW k \in cg_Key,
         NEW g \in 1 .. cg_MaxGen, CG!Status(r, k, g)
  PROVE  GatewayIInv'
<1>1. UNCHANGED <<CG!kept, cg_task, cg_ran>>
  BY DEF CG!Status
<1>2. CASE (CG!Refuse(r) \/ CG!Decline(r, "stale")) /\ UNCHANGED cg_told
  BY <1>1, <1>2, GatewayRefuseIInv, GatewayDeclineIInv
<1>3. CASE /\ CG!Passes(r, "operation_status") /\ CG!Found(k, g)
           /\ CG!Respond("status", cg_None, k, r, "success", cg_None, cg_task[k], cg_now)
           /\ CG!Tell(k, cg_task[k])
  <2>1. cg_task[k] # cg_None /\ cg_task[k].home = r.home /\ cg_task[k].gen = r.gen
    BY <1>3 DEF CG!Found, CG!Passes, CG!Negotiated, GatewayIInv, CG!TypeOK
  <2>2. CG!AlwaysAnswers' /\ cg_answer'.key = k /\ cg_answer'.operation = cg_task[k]
    BY <1>3, <2>1 DEF CG!Respond, CG!Consistent, CG!SuccessFits, CG!SameTarget, CG!AlwaysAnswers,
                      CG!ConstantsAssumption, CG!OperationCapability
  <2>3. CG!AboutWhatWasAsked'
    BY <1>3 DEF CG!Respond, CG!AboutWhatWasAsked, CG!ConstantsAssumption, CG!OperationCapability
  <2> QED
    BY <1>1, <1>3, <2>1, <2>2, <2>3, GatewayToldIInv
<1> QED
  BY <1>2, <1>3 DEF CG!Status

(* A task that has ended is not cancelled: its client gets its end. *)
LEMMA GatewayCancelIInv ==
  ASSUME CG!ConstantsAssumption, GatewayIInv, NEW r \in CG!Target, NEW k \in cg_Key,
         NEW g \in 1 .. cg_MaxGen, CG!Cancel(r, k, g)
  PROVE  GatewayIInv'
<1> USE DEF GatewayIInv, CG!AnswersHold
<1>1. UNCHANGED <<CG!kept, cg_ran>>
  BY DEF CG!Cancel
<1>2. CASE (CG!Refuse(r) \/ CG!Decline(r, "stale")) /\ UNCHANGED <<cg_task, cg_told>>
  BY <1>1, <1>2, GatewayRefuseIInv, GatewayDeclineIInv
<1>3. CASE /\ CG!Passes(r, "cancellation") /\ CG!Found(k, g) /\ CG!Terminal(cg_task[k])
           /\ CG!Respond("cancel", cg_None, k, r, "success", cg_None, cg_task[k], cg_now)
           /\ CG!Tell(k, cg_task[k]) /\ UNCHANGED cg_task
  <2>1. cg_task[k] # cg_None /\ cg_task[k].home = r.home /\ cg_task[k].gen = r.gen
    BY <1>3 DEF CG!Found, CG!Passes, CG!Negotiated, CG!TypeOK
  <2>2. CG!AlwaysAnswers' /\ cg_answer'.key = k /\ cg_answer'.operation = cg_task[k]
    BY <1>3, <2>1 DEF CG!Respond, CG!Consistent, CG!SuccessFits, CG!SameTarget, CG!AlwaysAnswers,
                      CG!ConstantsAssumption, CG!OperationCapability
  <2>3. CG!AboutWhatWasAsked'
    BY <1>3 DEF CG!Respond, CG!AboutWhatWasAsked, CG!ConstantsAssumption, CG!OperationCapability
  <2> QED
    BY <1>1, <1>3, <2>1, <2>2, <2>3, GatewayToldIInv
<1>4. CASE /\ CG!Raise("cancel", cg_None, k, cg_now < cg_latest)
           /\ ~CG!Allowed(cg_task[k], "cancelled") /\ CG!Found(k, g) /\ ~CG!Terminal(cg_task[k])
           /\ UNCHANGED <<cg_task, cg_told>>
  <2>1. /\ cg_task[k] \in CG!Task /\ cg_task[k].updated \in CG!Time
        /\ cg_task[k].state \in {"pending", "running"}
    BY <1>4 DEF CG!Found, CG!TypeOK, CG!Task, CG!Terminal, CG!Transitions, GatewayStarted
  <2>2. cg_now < cg_task[k].updated
    BY <1>4, <2>1 DEF CG!Allowed, CG!Transitions, CG!TypeOK, CG!Time, CG!ConstantsAssumption
  <2>3. cg_now < cg_latest
    BY <1>4, <2>1, <2>2 DEF CG!Found, GatewayStarted, CG!TypeOK, CG!Time, CG!ConstantsAssumption
  <2>4. CG!AlwaysAnswers' /\ CG!AboutWhatWasAsked' /\ cg_answer'.operation = cg_None
    BY <1>4, <2>3 DEF CG!Raise, CG!AlwaysAnswers, CG!AboutWhatWasAsked
  <2> QED
    BY <1>1, <1>4, <2>4, GatewayKeptIInv
<1>5. CASE /\ CG!Passes(r, "cancellation") /\ CG!Found(k, g) /\ ~CG!Terminal(cg_task[k])
           /\ cg_task' = [cg_task EXCEPT ![k] = CG!Transition(@, "cancelled")]
           /\ CG!Respond("cancel", cg_None, k, r, "cancelled", cg_None, cg_task'[k], cg_now)
           /\ CG!Tell(k, cg_task'[k])
  <2> DEFINE t == CG!Transition(cg_task[k], "cancelled")
  <2>1. /\ cg_task[k] # cg_None /\ cg_task[k] \in CG!Task /\ cg_now \in CG!Time
        /\ cg_now <= cg_latest /\ cg_task[k].updated <= cg_latest
    BY <1>5 DEF CG!Found, CG!TypeOK, GatewayStarted
  <2>2. /\ cg_task[k].attempt \in Nat /\ cg_task[k].home = "mine" /\ cg_task[k].gen = cg_gen
        /\ cg_gen \in 1 .. cg_MaxGen
    BY <2>1 DEF CG!Task, CG!TypeOK
  <2>3. "cancelled" \in DOMAIN CG!Transitions
    BY DEF CG!Transitions
  <2>4. /\ t \in CG!Task /\ t # cg_None /\ t.state = "cancelled" /\ t.updated <= cg_latest
        /\ t.home = "mine" /\ t.gen = cg_gen /\ t.attempt = cg_task[k].attempt
    BY <2>1, <2>2, <2>3, GatewayTransitionType DEF CG!ConstantsAssumption
  <2>5. /\ cg_task' = [cg_task EXCEPT ![k] = t] /\ cg_task'[k] = t
        /\ CG!Respond("cancel", cg_None, k, r, "cancelled", cg_None, t, cg_now)
        /\ CG!Tell(k, t)
    BY <1>5 DEF CG!TypeOK
  <2>6. cg_told[k][cg_gen] = cg_None
    <3>1. cg_told[k][cg_gen] \in {cg_None, cg_task[k].state}
      BY <2>1, <2>2 DEF CG!DoneOnce
    <3>2. cg_told[k][cg_gen] \in {"succeeded", "failed", "cancelled", cg_None}
      BY <2>2 DEF CG!TypeOK
    <3> QED
      BY <1>5, <3>1, <3>2 DEF CG!Terminal
  <2> HIDE DEF t
  <2>7. cg_told' = [cg_told EXCEPT ![k][cg_gen] = "cancelled"]
    BY <2>4, <2>5, <2>6 DEF CG!Tell, CG!Terminal
  <2>8. /\ cg_told' \in [cg_Key -> [1 .. cg_MaxGen -> {"succeeded", "failed", "cancelled", cg_None}]]
        /\ cg_told'[k][cg_gen] = "cancelled"
        /\ \A j \in cg_Key, i \in 1 .. cg_MaxGen :
             j # k \/ i # cg_gen => cg_told'[j][i] = cg_told[j][i]
    <3>1. cg_told \in [cg_Key -> [1 .. cg_MaxGen -> {"succeeded", "failed", "cancelled", cg_None}]]
      BY DEF CG!TypeOK
    <3>2. k \in cg_Key /\ cg_gen \in 1 .. cg_MaxGen
      BY <2>2
    <3>3. cg_told'[k] = [cg_told[k] EXCEPT ![cg_gen] = "cancelled"]
      BY ONLY <2>7, <3>1, <3>2
    <3>4. cg_told' = [cg_told EXCEPT ![k] = cg_told'[k]]
      BY ONLY <2>7, <3>1, <3>2
    <3>5. cg_told'[k] \in [1 .. cg_MaxGen -> {"succeeded", "failed", "cancelled", cg_None}]
      BY ONLY <3>1, <3>2, <3>3
    <3>6. cg_told' \in [cg_Key -> [1 .. cg_MaxGen -> {"succeeded", "failed", "cancelled", cg_None}]]
      BY ONLY <3>1, <3>2, <3>4, <3>5
    <3>7. cg_told'[k][cg_gen] = "cancelled"
      BY ONLY <3>1, <3>2, <3>3
    <3>8. ASSUME NEW j \in cg_Key, NEW i \in 1 .. cg_MaxGen, j # k \/ i # cg_gen
          PROVE  cg_told'[j][i] = cg_told[j][i]
      <4>1. CASE j # k
        BY <3>1, <3>4, <4>1
      <4>2. CASE j = k /\ i # cg_gen
        BY <3>1, <3>3, <4>2
      <4> QED
        BY <3>8, <4>1, <4>2
    <3> QED
      BY <3>6, <3>7, <3>8
  <2>9. CG!TypeOK'
    BY <1>1, <2>4, <2>5, <2>8 DEF CG!TypeOK, CG!kept
  <2>10. GatewayStarted'
    BY <1>1, <2>1, <2>4, <2>5, <2>8 DEF GatewayStarted, CG!TypeOK, CG!kept
  <2>11. CG!AlwaysAnswers' /\ cg_answer'.key = k /\ cg_answer'.operation = t
    BY <1>5, <2>4, <2>5 DEF CG!Respond, CG!Consistent, CG!SameTarget, CG!Passes, CG!Negotiated,
                            CG!AlwaysAnswers
  <2>12. CG!AboutWhatWasAsked'
    BY <2>5 DEF CG!Respond, CG!AboutWhatWasAsked
  <2>13. CG!DoneOnce'
    <3>1. \A j \in cg_Key : cg_task[j] # cg_None => cg_task[j].gen = cg_gen
      BY DEF CG!TypeOK
    <3>2. ASSUME NEW j \in cg_Key, cg_task'[j] # cg_None
          PROVE  cg_told'[j][cg_task'[j].gen] \in {cg_None, cg_task'[j].state}
      BY <2>2, <2>4, <2>5, <2>8, <3>1, <3>2 DEF CG!DoneOnce, CG!TypeOK
    <3>3. ASSUME NEW j \in cg_Key, NEW i \in 1 .. cg_MaxGen
          PROVE  /\ cg_ran'[j][i] <= 1
                 /\ cg_told'[j][i] \in {"succeeded", "failed"} => cg_ran'[j][i] = 1
      BY <1>1, <2>8 DEF CG!DoneOnce
    <3> QED
      BY <2>4, <2>8, <2>11, <3>2, <3>3 DEF CG!DoneOnce
  <2> QED
    BY <2>9, <2>10, <2>11, <2>12, <2>13
<1> QED
  BY <1>2, <1>3, <1>4, <1>5 DEF CG!Cancel

(* The clock moves no window: a record stays one that a gateway may have.  *)
LEMMA GatewayTickIInv ==
  ASSUME CG!ConstantsAssumption, GatewayIInv, CG!Tick
  PROVE  GatewayIInv'
<1>1. cg_now' \in CG!Time /\ cg_latest' \in CG!Time /\ cg_now' <= cg_latest' /\ cg_latest <= cg_latest'
  BY DEF GatewayIInv, CG!TypeOK, CG!Time, CG!Tick, CG!ConstantsAssumption
<1>2. cg_record' \in CG!Records(cg_profile', cg_gen', cg_latest')
  <2>1. cg_latest \in Int /\ cg_latest' \in Int
    BY <1>1 DEF GatewayIInv, CG!TypeOK, CG!Time
  <2> QED
    BY <1>1, <2>1, GatewayRecordsGrow DEF CG!Tick, GatewayIInv, CG!TypeOK
<1>3. CG!TypeOK'
  BY <1>1, <1>2 DEF CG!Tick, GatewayIInv, CG!TypeOK
<1>4. GatewayStarted'
  <2>1. \A k \in cg_Key : cg_task[k] # cg_None => cg_task[k].updated \in Int
    BY DEF GatewayIInv, CG!TypeOK, CG!Task, CG!Time
  <2>2. cg_latest \in Int /\ cg_latest' \in Int
    BY <1>1 DEF GatewayIInv, CG!TypeOK, CG!Time
  <2> QED
    BY <1>1, <2>1, <2>2 DEF CG!Tick, GatewayIInv, GatewayStarted
<1>5. CG!AnswersHold'
  BY DEF CG!Tick, GatewayIInv, CG!AnswersHold, CG!AlwaysAnswers, CG!AboutWhatWasAsked, CG!DoneOnce
<1> QED
  BY <1>3, <1>4, <1>5 DEF GatewayIInv

(* Nor does a clock that is set back. *)
LEMMA GatewayStepBackIInv ==
  ASSUME CG!ConstantsAssumption, GatewayIInv, CG!StepBack
  PROVE  GatewayIInv'
<1>1. CG!TypeOK'
  BY DEF CG!StepBack, GatewayIInv, CG!TypeOK, CG!Time, CG!ConstantsAssumption
<1>2. GatewayStarted' /\ CG!AnswersHold'
  BY DEF CG!StepBack, GatewayIInv, GatewayStarted, CG!AnswersHold, CG!AlwaysAnswers, CG!AboutWhatWasAsked,
         CG!DoneOnce
<1> QED
  BY <1>1, <1>2 DEF GatewayIInv

(* The tasks end with the process that has them; what was started and told *)
(* under its generation stays as it is, and under the next nothing was.    *)
LEMMA GatewayRestartIInv ==
  ASSUME CG!ConstantsAssumption, GatewayIInv, CG!Restart
  PROVE  GatewayIInv'
<1>1. cg_gen' \in 0 .. cg_MaxGen /\ (cg_gen' = 0) = (cg_profile' = "legacy")
  BY DEF CG!Restart, GatewayIInv, CG!TypeOK, CG!ConstantsAssumption
<1>2. cg_record' \in CG!Records(cg_profile', cg_gen', cg_latest')
  <2>1. cg_now \in Int /\ cg_latest \in Int /\ cg_now <= cg_latest
    BY DEF GatewayIInv, CG!TypeOK, CG!Time
  <2> QED
    BY <2>1, GatewayRecordsGrow DEF CG!Restart
<1>3. CG!TypeOK'
  BY <1>1, <1>2 DEF CG!Restart, GatewayIInv, CG!TypeOK, CG!NoTasks
<1>4. GatewayStarted'
  <2>1. cg_gen \in Int /\ cg_gen' = cg_gen + 1 /\ \A k \in cg_Key : cg_task'[k] = cg_None
    BY DEF CG!Restart, CG!NoTasks, GatewayIInv, CG!TypeOK
  <2> QED
    BY <2>1 DEF CG!Restart, GatewayIInv, GatewayStarted
<1>5. CG!AnswersHold'
  BY DEF CG!Restart, CG!NoTasks, GatewayIInv, CG!AnswersHold, CG!AlwaysAnswers, CG!AboutWhatWasAsked,
         CG!DoneOnce
<1> QED
  BY <1>3, <1>4, <1>5 DEF GatewayIInv

(* Every step of the gateway keeps the invariant.                          *)
LEMMA GatewayNextIInv ==
  ASSUME CG!ConstantsAssumption, GatewayIInv, [CG!Next]_CG!vars
  PROVE  GatewayIInv'
<1>1. CASE CG!Return
  <2>1. cg_answer' = cg_None /\ UNCHANGED <<CG!kept, cg_task, cg_told, cg_ran>>
    BY <1>1 DEF CG!Return
  <2>2. CG!AlwaysAnswers' /\ CG!AboutWhatWasAsked'
    BY <2>1 DEF CG!AlwaysAnswers, CG!AboutWhatWasAsked
  <2> QED
    BY <2>1, <2>2, GatewayKeptIInv
<1>2. CASE UNCHANGED CG!vars
  BY <1>2 DEF CG!vars, GatewayIInv, CG!TypeOK, GatewayStarted, CG!AnswersHold, CG!AlwaysAnswers,
              CG!AboutWhatWasAsked, CG!DoneOnce
<1>3. CASE \E r \in CG!Target, a \in cg_Artifact :
             \/ CG!LookupArtifact(r, a) \/ CG!AskObservation(r, a) \/ CG!LookupTokens(r, a)
             \/ \E k \in cg_Key, op \in cg_Intent :
                  CG!Submit(r, k, op, a) \/ CG!SubmitRaises(r, k, op, a)
  BY <1>3, GatewayLookupArtifactIInv, GatewayAskIInv, GatewayLookupTokensIInv, GatewaySubmitIInv,
     GatewaySubmitRaisesIInv
<1>4. CASE \E r \in CG!Target, k \in cg_Key, g \in 1 .. cg_MaxGen : CG!Status(r, k, g) \/ CG!Cancel(r, k, g)
  BY <1>4, GatewayStatusIInv, GatewayCancelIInv
<1>5. CASE \E r \in CG!Target, c \in {"tier_capacity_usage", "maintenance_eviction"} :
             CG!Summary(r, c)
  BY <1>5, GatewaySummaryIInv
<1>6. CASE \E k \in cg_Key : CG!Start(k) \/ \E failed \in BOOLEAN : CG!Complete(k, failed)
  BY <1>6, GatewayStartIInv, GatewayCompleteIInv
<1> QED
  BY <1>1, <1>2, <1>3, <1>4, <1>5, <1>6, GatewayObservationIInv, GatewayTickIInv, GatewayStepBackIInv,
     GatewayRestartIInv DEF CG!Next


-----------------------------------------------------------------------------
(* The batch registration (KdnTools).                                      *)

(* The entry that is being worked on is a file that was read.              *)
ToolsFileIsThere == ko_manifest # <<>> /\ ko_step # "read" => KO!File \in ko_Kid

(* The inductive invariant of the batch registration.                      *)
ToolsIInv == KO!TypeOK /\ ToolsFileIsThere /\ KO!VerdictsAreTrue

(* The batch registration's invariant holds at first.                      *)
LEMMA ToolsInitIInv == ASSUME KO!ConstantsAssumption, KO!Init PROVE ToolsIInv
<1>1. ko_manifest \in Seq(ko_Kid \cup {ko_Absent})
  <2>1. PICK n \in 1 .. ko_MaxFiles : ko_manifest \in [1 .. n -> ko_Kid \cup {ko_Absent}]
    BY DEF KO!Init
  <2> QED
    BY <2>1 DEF KO!ConstantsAssumption
<1> QED
  BY <1>1 DEF KO!Init, ToolsIInv, KO!TypeOK, ToolsFileIsThere, KO!VerdictsAreTrue

(* The calls of the batch.                                                 *)
LEMMA ToolsBatchSteps ==
  ASSUME KO!ConstantsAssumption, ToolsIInv, KO!Read \/ KO!Register \/ KO!Delete \/ KO!Reregister \/ KO!BuildKv
  PROVE  ToolsIInv'
<1> USE DEF ToolsIInv
<1>0. ko_manifest # <<>> => /\ KO!File \in ko_Kid \cup {ko_Absent} /\ Tail(ko_manifest) \in Seq(ko_Kid \cup {ko_Absent})
  BY DEF KO!TypeOK, KO!File
<1>1. CASE KO!Read
  BY <1>0, <1>1 DEF KO!Read, KO!At, KO!TypeOK, ToolsFileIsThere, KO!File, KO!VerdictsAreTrue, KO!Replacing
<1>2. CASE KO!Register
  <2>1. KO!File \in ko_Kid /\ ko_manifest # <<>> /\ ko_step = "register"
    BY <1>2 DEF KO!Register, KO!At, ToolsFileIsThere
  <2>2. PICK a \in KO!Registered(KO!File) \cup {KO!NoAnswer} :
          /\ ko_row' = a.row
          /\ \/ a.said = "created" /\ KO!GoesOn("build")
             \/ a.said = "exists" /\ KO!GoesOn("delete")
             \/ a.said = "error" /\ KO!Fails(KO!File)
    BY <1>2 DEF KO!Register
  <2>3. ko_row' = ko_row \/ ko_row' = [ko_row EXCEPT ![KO!File] = IF @ = "none" THEN "text" ELSE @]
    BY <2>2 DEF KO!Registered, KO!NoAnswer
  <2>4. KO!TypeOK'
    BY <1>0, <1>2, <2>1, <2>2, <2>3 DEF KO!Register, KO!GoesOn, KO!Fails, KO!Result, KO!Kept, KO!TypeOK, KO!File
  <2>5. ToolsFileIsThere'
    BY <1>0, <1>2, <2>1, <2>2, <2>3 DEF KO!Register, KO!GoesOn, KO!Fails, KO!Result, KO!Kept, KO!TypeOK, KO!File, ToolsFileIsThere
  <2>6. KO!VerdictsAreTrue'
    <3>0. PICK f \in ko_Kid : f = KO!File
      BY <2>1
    <3>1. ASSUME NEW x \in ko_Kid, x # f
          PROVE  /\ ko_row'[x] = ko_row[x] /\ ko_verdict'[x] = ko_verdict[x]
                 /\ (x \in ko_undone' <=> x \in ko_undone)
                 /\ (x \in ko_kept' <=> x \in ko_kept) /\ ~KO!Replacing(x)
      BY <1>0, <1>2, <2>1, <2>2, <2>3, <3>0, <3>1
      DEF KO!Register, KO!GoesOn, KO!Fails, KO!Result, KO!Kept, KO!TypeOK, KO!Replacing
    <3>2. ASSUME ~KO!Replacing(f)'
          PROVE  /\ ko_verdict'[f] = "ok" => ko_row'[f] = "ready"
                 /\ ko_row'[f] = "none" => ko_verdict'[f] = "failed"
      BY <1>0, <1>2, <2>1, <2>2, <2>3, <3>0, <3>2
      DEF KO!Register, KO!GoesOn, KO!Fails, KO!Result, KO!Kept, KO!TypeOK, KO!Replacing, KO!File
    <3> QED
      BY <3>0, <3>1, <3>2 DEF KO!VerdictsAreTrue
  <2> QED
    BY <2>4, <2>5, <2>6
<1>3. CASE KO!Delete
  <2>1. KO!File \in ko_Kid /\ ko_manifest # <<>> /\ ko_step = "delete"
    BY <1>3 DEF KO!Delete, KO!At, ToolsFileIsThere
  <2>2. PICK a \in KO!Deleted(KO!File) :
          /\ ko_row' = a.row
          /\ \/ a.said = "done" /\ KO!GoesOn("reregister")
             \/ a.said = "error" /\ KO!Fails(KO!File)
    BY <1>3 DEF KO!Delete
  <2>3. ko_row' = ko_row \/ ko_row' = [ko_row EXCEPT ![KO!File] = "none"]
    BY <2>2 DEF KO!Deleted
  <2>4. KO!TypeOK'
    BY <1>0, <1>3, <2>1, <2>2, <2>3 DEF KO!Delete, KO!GoesOn, KO!Fails, KO!Result, KO!TypeOK, KO!File
  <2>5. ToolsFileIsThere'
    BY <1>0, <1>3, <2>1, <2>2, <2>3 DEF KO!Delete, KO!GoesOn, KO!Fails, KO!Result, KO!TypeOK, KO!File, ToolsFileIsThere
  <2>6. KO!VerdictsAreTrue'
    <3>0. PICK f \in ko_Kid : f = KO!File
      BY <2>1
    <3>1. ASSUME NEW x \in ko_Kid, x # f
          PROVE  /\ ko_row'[x] = ko_row[x] /\ ko_verdict'[x] = ko_verdict[x]
                 /\ (x \in ko_undone' <=> x \in ko_undone)
                 /\ (x \in ko_kept' <=> x \in ko_kept) /\ ~KO!Replacing(x)
      BY <1>0, <1>3, <2>1, <2>2, <2>3, <3>0, <3>1
      DEF KO!Delete, KO!GoesOn, KO!Fails, KO!Result, KO!TypeOK, KO!Replacing
    <3>2. ASSUME ~KO!Replacing(f)'
          PROVE  /\ ko_verdict'[f] = "ok" => ko_row'[f] = "ready"
                 /\ ko_row'[f] = "none" => ko_verdict'[f] = "failed"
      BY <1>0, <1>3, <2>1, <2>2, <2>3, <3>0, <3>2
      DEF KO!Delete, KO!GoesOn, KO!Fails, KO!Result, KO!TypeOK, KO!Replacing, KO!File
    <3> QED
      BY <3>0, <3>1, <3>2 DEF KO!VerdictsAreTrue
  <2> QED
    BY <2>4, <2>5, <2>6
<1>4. CASE KO!Reregister
  <2>1. KO!File \in ko_Kid /\ ko_manifest # <<>> /\ ko_step = "reregister"
    BY <1>4 DEF KO!Reregister, KO!At, ToolsFileIsThere
  <2>2. PICK a \in KO!Registered(KO!File) \cup {KO!NoAnswer} :
          ko_row' = a.row /\ IF a.said = "created" THEN KO!GoesOn("build") ELSE KO!Fails(KO!File)
    BY <1>4 DEF KO!Reregister
  <2>3. ko_row' = ko_row \/ ko_row' = [ko_row EXCEPT ![KO!File] = IF @ = "none" THEN "text" ELSE @]
    BY <2>2 DEF KO!Registered, KO!NoAnswer
  <2>4. KO!TypeOK'
    BY <1>0, <1>4, <2>1, <2>2, <2>3 DEF KO!Reregister, KO!GoesOn, KO!Fails, KO!Result, KO!Kept, KO!TypeOK, KO!File
  <2>5. ToolsFileIsThere'
    BY <1>0, <1>4, <2>1, <2>2, <2>3 DEF KO!Reregister, KO!GoesOn, KO!Fails, KO!Result, KO!Kept, KO!TypeOK, KO!File, ToolsFileIsThere
  <2>6. KO!VerdictsAreTrue'
    <3>0. PICK f \in ko_Kid : f = KO!File
      BY <2>1
    <3>1. ASSUME NEW x \in ko_Kid, x # f
          PROVE  /\ ko_row'[x] = ko_row[x] /\ ko_verdict'[x] = ko_verdict[x]
                 /\ (x \in ko_undone' <=> x \in ko_undone)
                 /\ (x \in ko_kept' <=> x \in ko_kept) /\ ~KO!Replacing(x)
      BY <1>0, <1>4, <2>1, <2>2, <2>3, <3>0, <3>1
      DEF KO!Reregister, KO!GoesOn, KO!Fails, KO!Result, KO!Kept, KO!TypeOK, KO!Replacing
    <3>2. ASSUME ~KO!Replacing(f)'
          PROVE  /\ ko_verdict'[f] = "ok" => ko_row'[f] = "ready"
                 /\ ko_row'[f] = "none" => ko_verdict'[f] = "failed"
      BY <1>0, <1>4, <2>1, <2>2, <2>3, <3>0, <3>2
      DEF KO!Reregister, KO!GoesOn, KO!Fails, KO!Result, KO!Kept, KO!TypeOK, KO!Replacing, KO!File
    <3> QED
      BY <3>0, <3>1, <3>2 DEF KO!VerdictsAreTrue
  <2> QED
    BY <2>4, <2>5, <2>6
<1>5. CASE KO!BuildKv
  <2>1. KO!File \in ko_Kid /\ ko_manifest # <<>> /\ ko_step = "build"
    BY <1>5 DEF KO!BuildKv, KO!At, ToolsFileIsThere
  <2>2. PICK a \in KO!Build(KO!File) \cup {KO!NoAnswer} :
          /\ ko_row' = a.row
          /\ \/ a.said = "done" /\ KO!Result(KO!File, "ok") /\ ko_undone' = ko_undone \ {KO!File}
             \/ a.said = "error" /\ KO!Fails(KO!File) /\ ko_undone' = ko_undone
    BY <1>5 DEF KO!BuildKv
  <2>3. /\ ko_row' = ko_row \/ ko_row' = KO!Ready(KO!File)
        /\ a.said = "done" => ko_row' = KO!Ready(KO!File) /\ ko_row[KO!File] # "none"
    BY <2>2 DEF KO!Build, KO!NoAnswer
  <2>4. KO!TypeOK'
    BY <1>0, <1>5, <2>1, <2>2, <2>3 DEF KO!BuildKv, KO!Ready, KO!Fails, KO!Result, KO!TypeOK, KO!File
  <2>5. ToolsFileIsThere'
    BY <1>0, <1>5, <2>1, <2>2, <2>3 DEF KO!BuildKv, KO!Ready, KO!Fails, KO!Result, KO!TypeOK, KO!File, ToolsFileIsThere
  <2>6. KO!VerdictsAreTrue'
    <3>0. PICK f \in ko_Kid : f = KO!File
      BY <2>1
    <3>1. ASSUME NEW x \in ko_Kid, x # f
          PROVE  /\ ko_row'[x] = ko_row[x] /\ ko_verdict'[x] = ko_verdict[x]
                 /\ (x \in ko_undone' <=> x \in ko_undone)
                 /\ (x \in ko_kept' <=> x \in ko_kept) /\ ~KO!Replacing(x)
      BY <1>0, <1>5, <2>1, <2>2, <2>3, <3>0, <3>1
      DEF KO!BuildKv, KO!Ready, KO!Fails, KO!Result, KO!TypeOK, KO!Replacing
    <3>2. ASSUME ~KO!Replacing(f)'
          PROVE  /\ ko_verdict'[f] = "ok" => ko_row'[f] = "ready"
                 /\ ko_row'[f] = "none" => ko_verdict'[f] = "failed"
      BY <1>0, <1>5, <2>1, <2>2, <2>3, <3>0, <3>2
      DEF KO!BuildKv, KO!Ready, KO!Fails, KO!Result, KO!TypeOK, KO!Replacing, KO!File
    <3> QED
      BY <3>0, <3>1, <3>2 DEF KO!VerdictsAreTrue
  <2> QED
    BY <2>4, <2>5, <2>6
<1> QED
  BY <1>1, <1>2, <1>3, <1>4, <1>5

(* The operator's commands.                                                *)
LEMMA ToolsOperatorSteps ==
  ASSUME KO!ConstantsAssumption, ToolsIInv,
         \/ \E x \in ko_Kid : \/ \E build \in BOOLEAN : KO!RegisterText(x, build)
                           \/ KO!BuildCommand(x) \/ KO!DeleteCommand(x)
         \/ KO!BuildAbandoned \/ KO!PurgeCommand \/ UNCHANGED KO!vars
  PROVE  ToolsIInv'
<1> USE DEF ToolsIInv, KO!batchVars, KO!vars
<1>1. ASSUME NEW x \in ko_Kid, NEW build \in BOOLEAN, KO!RegisterText(x, build) PROVE ToolsIInv'
  <2>1. ko_row' = ko_row \/ ko_row' = [ko_row EXCEPT ![x] = IF @ = "none" THEN "text" ELSE @]
    BY <1>1 DEF KO!RegisterText, KO!Registered, KO!NoAnswer
  <2>2. ko_command' \in ko_Kid \cup {ko_Absent}
    BY <1>1 DEF KO!RegisterText
  <2> QED
    BY <1>1, <2>1, <2>2 DEF KO!RegisterText, KO!Kept, KO!TypeOK, ToolsFileIsThere, KO!File, KO!VerdictsAreTrue, KO!Replacing
<1>2. ASSUME NEW x \in ko_Kid, KO!BuildCommand(x) PROVE ToolsIInv'
  BY <1>2 DEF KO!BuildCommand, KO!Ready, KO!TypeOK, ToolsFileIsThere, KO!File, KO!VerdictsAreTrue, KO!Replacing
<1>3. ASSUME NEW x \in ko_Kid, KO!DeleteCommand(x) PROVE ToolsIInv'
  BY <1>3 DEF KO!DeleteCommand, KO!Removed, KO!TypeOK, ToolsFileIsThere, KO!File, KO!VerdictsAreTrue, KO!Replacing
<1>4. CASE KO!PurgeCommand
  BY <1>4 DEF KO!PurgeCommand, KO!Removed, KO!TypeOK, ToolsFileIsThere, KO!File, KO!VerdictsAreTrue, KO!Replacing
<1>5. CASE KO!BuildAbandoned \/ UNCHANGED KO!vars
  BY <1>5 DEF KO!BuildAbandoned, KO!TypeOK, ToolsFileIsThere, KO!File, KO!VerdictsAreTrue, KO!Replacing
<1> QED
  BY <1>1, <1>2, <1>3, <1>4, <1>5

(* Every call of the tool, and every command of an operator, keeps it.     *)
LEMMA ToolsNextIInv == ASSUME KO!ConstantsAssumption, ToolsIInv, [KO!Next]_KO!vars PROVE ToolsIInv'
BY ToolsBatchSteps, ToolsOperatorSteps DEF KO!Next

-----------------------------------------------------------------------------
(* The knowledge table (KnowledgeTable).                                   *)

(* A set has the same size in KnowledgeTable as here.                      *)
LEMMA TableSize ==
  /\ \A S : KT!Cardinality(S) = Cardinality(S)
  /\ \A S : KT!IsFiniteSet(S) <=> IsFiniteSet(S)
BY DEF KT!Cardinality, Cardinality, KT!IsFiniteSet, IsFiniteSet

(* A table whose blocks have numbers that lead back to them.               *)
TableNumbered(t) ==
  /\ DOMAIN t = {"unit", "toInt", "toKid", "index"}
  /\ \A k \in DOMAIN t.toInt : t.toInt[k] \in Nat
  /\ DOMAIN t.toKid \subseteq Nat /\ \A i \in DOMAIN t.toKid : t.toKid[i] \in kt_Kid
  /\ KT!Paired(t)

TableSound(t) ==
  /\ TableNumbered(t) /\ DOMAIN t.toInt = DOMAIN t.unit
  /\ DOMAIN t.unit \subseteq kt_Kid /\ \A k \in DOMAIN t.unit : t.unit[k] \in kt_Scores

(* An index, if there is one, is of the table it is in.                    *)
TableIInv ==
  /\ kt_origin \in {"kdn", "yaml"} /\ kt_faiss \in BOOLEAN /\ kt_changed \in BOOLEAN
  /\ kt_serving # kt_None =>
       TableSound(kt_serving) /\ kt_serving.index \in {kt_None, KT!Rows(kt_serving)}
  /\ kt_work # kt_None => TableSound(kt_work) /\ kt_work.index = kt_None
  /\ DOMAIN kt_local \subseteq 0 .. kt_MaxId /\ kt_nextId \in 0 .. kt_MaxId + 1
  /\ \A i \in DOMAIN kt_local : /\ kt_local[i] \in [llm : SUBSET kt_Server, kdn : SUBSET kt_Server]
                                /\ i < kt_nextId
  /\ kt_loading \in BOOLEAN

(* A number that a block is given is no other block's.                     *)
LEMMA TableNumberFree ==
  ASSUME KT!ConstantsAssumption, NEW t, NEW k \in kt_Kid, KT!NumberFor(t, k) # kt_None
  PROVE  KT!NumberFor(t, k) \in Nat /\ ~KT!Taken(t, KT!NumberFor(t, k), k)
BY DEF KT!NumberFor, KT!ConstantsAssumption

(* Registering a block keeps the numbers of the others.                    *)
LEMMA TableRegister ==
  ASSUME KT!ConstantsAssumption, NEW t, TableNumbered(t), NEW k \in kt_Kid,
         KT!NumberFor(t, k) # kt_None
  PROVE  /\ TableNumbered(KT!Register(t, k))
         /\ KT!Register(t, k).unit = t.unit /\ KT!Register(t, k).index = t.index
         /\ DOMAIN KT!Register(t, k).toInt = DOMAIN t.toInt \cup {k}
<1> DEFINE i == KT!NumberFor(t, k)
           u == KT!Register(t, k)
<1>1. i \in Nat /\ ~KT!Taken(t, i, k)
  BY TableNumberFree
<1>2. u = [t EXCEPT !.toInt = KT!With(t.toInt, k, i), !.toKid = KT!With(t.toKid, i, k)]
  BY DEF KT!Register
<1> HIDE DEF i, u
<1>3. /\ DOMAIN u = DOMAIN t /\ u.toInt = KT!With(t.toInt, k, i) /\ u.toKid = KT!With(t.toKid, i, k)
      /\ u.unit = t.unit /\ u.index = t.index
  BY <1>2 DEF TableNumbered
<1>4. /\ DOMAIN u.toInt = DOMAIN t.toInt \cup {k} /\ DOMAIN u.toKid = DOMAIN t.toKid \cup {i}
      /\ \A y \in DOMAIN u.toInt : u.toInt[y] = IF y = k THEN i ELSE t.toInt[y]
      /\ \A y \in DOMAIN u.toKid : u.toKid[y] = IF y = i THEN k ELSE t.toKid[y]
  BY <1>3 DEF KT!With
<1>5. \A y \in DOMAIN t.toInt : y # k => t.toInt[y] # i
  BY <1>1 DEF TableNumbered, KT!Paired, KT!Taken
<1>6. TableNumbered(u)
  <2>1. KT!Paired(u)
    BY <1>4, <1>5 DEF TableNumbered, KT!Paired
  <2> QED
    BY <1>1, <1>3, <1>4, <2>1 DEF TableNumbered
<1> QED
  BY <1>3, <1>4, <1>6 DEF u

(* So does forgetting one.                                                 *)
LEMMA TableUnregister ==
  ASSUME NEW t, TableNumbered(t), NEW k \in DOMAIN t.toInt
  PROVE  /\ TableNumbered(KT!Unregister(t, k))
         /\ KT!Unregister(t, k).unit = t.unit /\ KT!Unregister(t, k).index = t.index
         /\ DOMAIN KT!Unregister(t, k).toInt = DOMAIN t.toInt \ {k}
<1> DEFINE u == KT!Unregister(t, k)
<1>2. u = [t EXCEPT !.toInt = KT!Without(t.toInt, k), !.toKid = KT!Without(t.toKid, t.toInt[k])]
  BY DEF KT!Unregister
<1> HIDE DEF u
<1>3. /\ DOMAIN u = DOMAIN t /\ u.toInt = KT!Without(t.toInt, k)
      /\ u.toKid = KT!Without(t.toKid, t.toInt[k]) /\ u.unit = t.unit /\ u.index = t.index
  BY <1>2 DEF TableNumbered
<1>4. /\ DOMAIN u.toInt = DOMAIN t.toInt \ {k} /\ DOMAIN u.toKid = DOMAIN t.toKid \ {t.toInt[k]}
      /\ \A y \in DOMAIN u.toInt : u.toInt[y] = t.toInt[y]
      /\ \A y \in DOMAIN u.toKid : u.toKid[y] = t.toKid[y]
  BY <1>3 DEF KT!Without
<1>5. \A y \in DOMAIN t.toInt : y # k => t.toInt[y] # t.toInt[k]
  BY DEF TableNumbered, KT!Paired
<1>6. TableNumbered(u)
  <2>1. KT!Paired(u)
    BY <1>4, <1>5 DEF TableNumbered, KT!Paired
  <2> QED
    BY <1>3, <1>4, <2>1 DEF TableNumbered
<1> QED
  BY <1>3, <1>4, <1>6 DEF u

(* A field that is not the numbers changes nothing of them.                *)
LEMMA TableWithUnits ==
  ASSUME NEW t, TableNumbered(t), NEW v
  PROVE  LET u == [t EXCEPT !.unit = v]
         IN  /\ TableNumbered(u) /\ u.unit = v /\ u.index = t.index /\ u.toInt = t.toInt
<1> DEFINE u == [t EXCEPT !.unit = v]
<1>1. DOMAIN u = DOMAIN t /\ u.unit = v /\ u.index = t.index /\ u.toInt = t.toInt /\ u.toKid = t.toKid
  BY DEF TableNumbered
<1> HIDE DEF u
<1>2. TableNumbered(u)
  BY <1>1 DEF TableNumbered, KT!Paired
<1> QED
  BY <1>1, <1>2 DEF u

(* Nor does the index.                                                     *)
LEMMA TableWithIndex ==
  ASSUME NEW t, TableNumbered(t), NEW v
  PROVE  LET u == [t EXCEPT !.index = v]
         IN  /\ TableNumbered(u) /\ u.index = v /\ u.unit = t.unit /\ u.toInt = t.toInt
             /\ KT!Rows(u) = KT!Rows(t)
<1> DEFINE u == [t EXCEPT !.index = v]
<1>1. DOMAIN u = DOMAIN t /\ u.index = v /\ u.unit = t.unit /\ u.toInt = t.toInt /\ u.toKid = t.toKid
  BY DEF TableNumbered
<1> HIDE DEF u
<1>2. TableNumbered(u)
  BY <1>1 DEF TableNumbered, KT!Paired
<1>3. KT!Rows(u) = KT!Rows(t)
  BY <1>1 DEF KT!Rows
<1> QED
  BY <1>1, <1>2, <1>3 DEF u

(* The knowledge table's invariant holds at first.                         *)
LEMMA TableInitIInv == ASSUME KT!ConstantsAssumption, KT!Init PROVE TableIInv
<1>1. DOMAIN kt_local = {} /\ kt_nextId = 0 /\ kt_MaxId \in Nat
  BY DEF KT!ConstantsAssumption, KT!Init
<1>2. kt_nextId \in 0 .. kt_MaxId + 1
  BY <1>1
<1> QED
  BY <1>1, <1>2 DEF KT!Init, TableIInv

(* Building the index of a table.                                          *)
LEMMA TableBuilt ==
  ASSUME KT!ConstantsAssumption, NEW t, TableSound(t), kt_faiss => ~KT!BuildRaises(t)
  PROVE  TableSound(KT!Built(t)) /\ KT!Built(t).index \in {kt_None, KT!Rows(KT!Built(t))}
<1> DEFINE again == KT!Renumbered(t)
           k == CHOOSE k \in again : TRUE
           u == IF again = {} THEN t ELSE KT!Register(t, k)
<1>1. CASE kt_faiss /\ DOMAIN t.unit # {}
  <2>1. KT!Built(t) = [u EXCEPT !.index = KT!Rows(u)]
    BY <1>1 DEF KT!Built
  <2>2. TableSound(u)
    <3>1. CASE again = {}
      BY <3>1
    <3>2. CASE again # {}
      <4>1. k \in again
        BY <3>2
      <4>2. k \in DOMAIN t.unit /\ k \in kt_Kid /\ KT!NumberFor(t, k) # kt_None
        BY <1>1, <4>1 DEF KT!BuildRaises, KT!Renumbered, TableSound
      <4> HIDE DEF k, again
      <4>3. /\ TableNumbered(KT!Register(t, k)) /\ KT!Register(t, k).unit = t.unit
            /\ DOMAIN KT!Register(t, k).toInt = DOMAIN t.toInt \cup {k}
        BY <4>2, TableRegister DEF TableSound
      <4> QED
        BY <3>2, <4>2, <4>3 DEF TableSound
    <3> QED
      BY <3>1, <3>2
  <2> HIDE DEF u
  <2>3. TableNumbered(u)
    BY <2>2 DEF TableSound
  <2> QED
    BY <2>1, <2>2, <2>3, TableWithIndex DEF TableSound
<1>2. CASE ~(kt_faiss /\ DOMAIN t.unit # {})
  <2>1. KT!Built(t) = [t EXCEPT !.index = kt_None]
    BY <1>2 DEF KT!Built
  <2>2. TableNumbered(t)
    BY DEF TableSound
  <2> QED
    BY <2>1, <2>2, TableWithIndex DEF TableSound
<1> QED
  BY <1>1, <1>2

(* The steps of a refresh keep the invariant.                              *)
LEMMA TableRefreshOK ==
  ASSUME KT!ConstantsAssumption, TableIInv,
         \/ KT!Begin \/ KT!Swap \/ KT!RefreshRaises
         \/ \E k \in kt_Kid : KT!UpsertKid(k) \/ KT!DeleteKid(k)
  PROVE  TableIInv'
<1> USE DEF TableIInv
<1>1. UNCHANGED <<kt_origin, kt_faiss, kt_local, kt_nextId, kt_loading>>
  BY DEF KT!Begin, KT!Swap, KT!RefreshRaises, KT!UpsertKid, KT!DeleteKid, KT!yamlVars
<1>2. CASE KT!Begin
  <2>1. TableSound(KT!Empty) /\ KT!Empty.index = kt_None
    BY DEF KT!Empty, TableSound, TableNumbered, KT!Paired
  <2>2. CASE kt_serving = kt_None
    BY <1>1, <1>2, <2>1, <2>2 DEF KT!Begin
  <2>3. CASE kt_serving # kt_None
    <3>1. TableNumbered(kt_serving) /\ TableSound(kt_serving)
      BY <2>3 DEF TableSound
    <3>2. kt_work' = [kt_serving EXCEPT !.index = kt_None] /\ kt_changed' = FALSE /\ kt_serving' = kt_serving
      BY <1>2, <2>3 DEF KT!Begin
    <3>3. TableSound(kt_work') /\ kt_work'.index = kt_None
      BY <3>1, <3>2, TableWithIndex DEF TableSound
    <3> QED
      BY <1>1, <3>2, <3>3
  <2> QED
    BY <2>2, <2>3
<1>3. CASE KT!Swap
  <2>1. /\ kt_work # kt_None /\ kt_work' = kt_None /\ kt_changed' = kt_changed
        /\ kt_serving' = IF kt_changed THEN KT!Built(kt_work) ELSE kt_work
        /\ kt_changed => (kt_faiss => ~KT!BuildRaises(kt_work))
    BY <1>3 DEF KT!Swap
  <2>2. TableSound(kt_serving') /\ kt_serving'.index \in {kt_None, KT!Rows(kt_serving')}
    BY <2>1, TableBuilt
  <2>3. KT!Rows(kt_serving)' = KT!Rows(kt_serving')
    BY DEF KT!Rows
  <2> QED
    BY <1>1, <2>1, <2>2, <2>3
<1>4. CASE KT!RefreshRaises
  BY <1>1, <1>4 DEF KT!RefreshRaises
<1>5. ASSUME NEW k \in kt_Kid, KT!UpsertKid(k) PROVE TableIInv'
  <2>1. PICK e \in kt_Scores : kt_work' = [KT!Register(kt_work, k) EXCEPT !.unit = KT!With(@, k, e)]
    BY <1>5 DEF KT!UpsertKid
  <2>2. /\ kt_work # kt_None /\ KT!NumberFor(kt_work, k) # kt_None /\ kt_changed' = TRUE
        /\ kt_serving' = kt_serving /\ TableSound(kt_work) /\ TableNumbered(kt_work)
    BY <1>5 DEF KT!UpsertKid, TableSound
  <2> DEFINE u == KT!Register(kt_work, k)
             v == KT!With(u.unit, k, e)
  <2>3. /\ TableNumbered(u) /\ u.unit = kt_work.unit /\ u.index = kt_work.index
        /\ DOMAIN u.toInt = DOMAIN kt_work.toInt \cup {k}
    BY <2>2, TableRegister
  <2>4. kt_work' = [u EXCEPT !.unit = v]
    BY <2>1
  <2>5. DOMAIN v = DOMAIN u.unit \cup {k} /\ \A y \in DOMAIN v : v[y] = IF y = k THEN e ELSE u.unit[y]
    BY DEF KT!With
  <2> HIDE DEF u, v
  <2>6. TableNumbered(kt_work') /\ kt_work'.unit = v /\ kt_work'.index = u.index /\ kt_work'.toInt = u.toInt
    BY <2>3, <2>4, TableWithUnits
  <2>7. TableSound(kt_work') /\ kt_work'.index = kt_None
    BY <2>2, <2>3, <2>5, <2>6 DEF TableSound
  <2> QED
    BY <1>1, <2>2, <2>7
<1>6. ASSUME NEW k \in kt_Kid, KT!DeleteKid(k) PROVE TableIInv'
  <2>2. /\ kt_work # kt_None /\ kt_changed' = TRUE /\ k \in DOMAIN kt_work.unit
        /\ kt_serving' = kt_serving /\ TableSound(kt_work) /\ TableNumbered(kt_work)
        /\ k \in DOMAIN kt_work.toInt
    BY <1>6 DEF KT!DeleteKid, TableSound
  <2> DEFINE u == KT!Unregister(kt_work, k)
             v == KT!Without(u.unit, k)
  <2>3. /\ TableNumbered(u) /\ u.unit = kt_work.unit /\ u.index = kt_work.index
        /\ DOMAIN u.toInt = DOMAIN kt_work.toInt \ {k}
    BY <2>2, TableUnregister
  <2>4. kt_work' = [u EXCEPT !.unit = v]
    BY <1>6 DEF KT!DeleteKid
  <2>5. DOMAIN v = DOMAIN u.unit \ {k} /\ \A y \in DOMAIN v : v[y] = u.unit[y]
    BY DEF KT!Without
  <2> HIDE DEF u, v
  <2>6. TableNumbered(kt_work') /\ kt_work'.unit = v /\ kt_work'.index = u.index /\ kt_work'.toInt = u.toInt
    BY <2>3, <2>4, TableWithUnits
  <2>7. TableSound(kt_work') /\ kt_work'.index = kt_None
    BY <2>2, <2>3, <2>5, <2>6 DEF TableSound
  <2> QED
    BY <1>1, <2>2, <2>7
<1> QED
  BY <1>2, <1>3, <1>4, <1>5, <1>6

(* So do the changes of a local table.                                     *)
LEMMA TableLocalOK ==
  ASSUME KT!ConstantsAssumption, TableIInv, KT!LoadItem \/ KT!LoadEnds \/ KT!ApplyUpdate
  PROVE  TableIInv'
<1> USE DEF TableIInv
<1>0. kt_MaxId \in Nat /\ kt_nextId \in Nat
  BY DEF KT!ConstantsAssumption
<1>1. UNCHANGED <<kt_origin, kt_faiss, kt_serving, kt_work, kt_changed>> /\ kt_loading' \in BOOLEAN
  BY DEF KT!LoadItem, KT!LoadEnds, KT!ApplyUpdate, KT!kdnVars
<1>2. ASSUME NEW i \in 0 .. kt_MaxId, KT!UpsertKnowledge(i) PROVE TableIInv'
  <2>1. /\ kt_local' = KT!With(kt_local, i, KT!NoServers)
        /\ kt_nextId' = IF i >= kt_nextId THEN i + 1 ELSE kt_nextId
    BY <1>2 DEF KT!UpsertKnowledge
  <2>2. /\ DOMAIN kt_local' = DOMAIN kt_local \cup {i}
        /\ \A y \in DOMAIN kt_local' : kt_local'[y] = IF y = i THEN KT!NoServers ELSE kt_local[y]
    BY <2>1 DEF KT!With
  <2>3. KT!NoServers \in [llm : SUBSET kt_Server, kdn : SUBSET kt_Server]
    BY DEF KT!NoServers
  <2>4. kt_nextId' \in 0 .. kt_MaxId + 1 /\ kt_nextId' >= kt_nextId /\ i < kt_nextId'
    BY <1>0, <2>1
  <2>5. \A y \in DOMAIN kt_local' : kt_local'[y] \in [llm : SUBSET kt_Server, kdn : SUBSET kt_Server] /\ y < kt_nextId'
    BY <1>0, <2>2, <2>3, <2>4
  <2> QED
    BY <1>1, <2>2, <2>4, <2>5
<1>3. CASE KT!UpsertItem
  BY <1>2, <1>3 DEF KT!UpsertItem
<1>4. CASE KT!AssignItem
  BY <1>0, <1>2, <1>4 DEF KT!AssignItem
<1>5. CASE KT!UpdateRaises
  BY <1>0, <1>1, <1>5 DEF KT!UpdateRaises
<1>6. ASSUME NEW i \in 0 .. kt_MaxId, KT!ChangeServers(i) PROVE TableIInv'
  <2>1. /\ DOMAIN kt_local' = DOMAIN kt_local /\ kt_nextId' = kt_nextId /\ i \in DOMAIN kt_local
        /\ \A y \in DOMAIN kt_local : y # i => kt_local'[y] = kt_local[y]
    BY <1>6 DEF KT!ChangeServers
  <2>2. PICK s \in kt_Server, side \in {"llm", "kdn"} :
          \/ kt_local' = [kt_local EXCEPT ![i][side] = @ \cup {s}]
          \/ kt_local' = [kt_local EXCEPT ![i][side] = @ \ {s}]
    BY <1>6 DEF KT!ChangeServers
  <2>3. kt_local'[i] \in [llm : SUBSET kt_Server, kdn : SUBSET kt_Server]
    BY <2>1, <2>2
  <2> QED
    BY <1>1, <2>1, <2>3
<1>7. CASE KT!LoadEnds
  BY <1>1, <1>7 DEF KT!LoadEnds
<1> QED
  BY <1>3, <1>4, <1>5, <1>6, <1>7 DEF KT!LoadItem, KT!ApplyUpdate

(* Every step keeps the invariant.                                         *)
LEMMA TableNextIInv == ASSUME KT!ConstantsAssumption, TableIInv, [KT!Next]_KT!vars PROVE TableIInv'
<1>1. CASE UNCHANGED KT!vars
  BY <1>1 DEF KT!vars, TableIInv, KT!Rows
<1>2. CASE KT!Next
  BY <1>2, TableRefreshOK, TableLocalOK DEF KT!Next
<1> QED
  BY <1>1, <1>2

(* The hits of some blocks; their kids and their scores.                   *)
TableHits(S, F) == {[kid |-> k, score |-> S[k]] : k \in F}
(* The kids and the scores of hits.                                        *)
TableKids(H) == {h.kid : h \in H}
TableScores(H) == {g.score : g \in H}

(* The kids and the scores of the hits are those of the blocks.            *)
LEMMA TableFields ==
  ASSUME NEW S, NEW F
  PROVE  TableKids(TableHits(S, F)) = F /\ TableScores(TableHits(S, F)) = {S[k] : k \in F}
<1> DEFINE H == TableHits(S, F)
<1>1. ASSUME NEW k \in F PROVE \E h \in H : h.kid = k /\ h.score = S[k]
  <2>1. [kid |-> k, score |-> S[k]] \in H
    BY DEF TableHits
  <2> QED
    BY <2>1
<1>2. ASSUME NEW h \in H PROVE \E k \in F : h.kid = k /\ h.score = S[k]
  BY DEF TableHits
<1> HIDE DEF H
<1>3. TableKids(H) = F
  BY <1>1, <1>2 DEF TableKids
<1>4. TableScores(H) = {S[k] : k \in F}
  BY <1>1, <1>2 DEF TableScores
<1> QED
  BY <1>3, <1>4 DEF H

(* The rows of a table name their blocks.                                  *)
LEMMA TableRowsName ==
  ASSUME NEW t, TableSound(t), NEW s \in SUBSET KT!Rows(t)
  PROVE  KT!Named(t, s) = KT!Scanned(s)
<1>1. \A r \in s : /\ r.of \in DOMAIN t.unit /\ r.id \in DOMAIN t.toKid /\ t.toKid[r.id] = r.of
  BY DEF KT!Rows, TableSound, TableNumbered, KT!Paired
<1>2. {r \in s : r.id \in DOMAIN t.toKid /\ t.toKid[r.id] \in DOMAIN t.unit} = s
  BY <1>1
<1>3. {[kid |-> t.toKid[r.id], score |-> r.score] : r \in s} = {[kid |-> r.of, score |-> r.score] : r \in s}
  BY <1>1
<1> QED
  BY <1>2, <1>3 DEF KT!Named, KT!Scanned

(* The rows that are taken are those of as many of the best blocks.        *)
LEMMA TableBestBlocks ==
  ASSUME KT!ConstantsAssumption, NEW t, TableSound(t), NEW s \in KT!BestRows(KT!Rows(t))
  PROVE  \E B \in SUBSET DOMAIN t.unit :
           /\ KT!Scanned(s) = {[kid |-> k, score |-> t.unit[k]] : k \in B}
           /\ Cardinality(B) = IF Cardinality(DOMAIN t.unit) < kt_TopK
                               THEN Cardinality(DOMAIN t.unit) ELSE kt_TopK
           /\ \A k \in B, q \in DOMAIN t.unit \ B : t.unit[k] >= t.unit[q]
<1> DEFINE N == DOMAIN t.unit
           row(k) == [of |-> k, id |-> t.toInt[k], score |-> t.unit[k]]
           R == KT!Rows(t)
           B == {k \in N : row(k) \in s}
<1>1. R = {row(k) : k \in N} /\ IsFiniteSet(N)
  BY FS_Subset, TableSize DEF KT!Rows, TableSound, KT!ConstantsAssumption
<1>2. /\ s \in SUBSET R
      /\ Cardinality(s) = IF Cardinality(R) < kt_TopK THEN Cardinality(R) ELSE kt_TopK
      /\ \A r \in s, q \in R \ s : r.score >= q.score
  BY TableSize DEF KT!BestRows
<1>3. Cardinality(R) = Cardinality(N)
  <2> DEFINE f == [k \in N |-> row(k)]
  <2>1. f \in Bijection(N, R)
    BY <1>1 DEF Bijection, Injection, Surjection, IsInjective
  <2> HIDE DEF f, N, R
  <2> QED
    BY <1>1, <2>1, FS_Bijection DEF ExistsBijection
<1>4. Cardinality(s) = Cardinality(B)
  <2> DEFINE f == [k \in B |-> row(k)]
  <2>1. f \in Bijection(B, s)
    BY <1>1, <1>2 DEF Bijection, Injection, Surjection, IsInjective
  <2>2. IsFiniteSet(B)
    BY <1>1, FS_Subset
  <2> HIDE DEF f, B
  <2> QED
    BY <2>1, <2>2, FS_Bijection DEF ExistsBijection
<1>5. KT!Scanned(s) = {[kid |-> k, score |-> t.unit[k]] : k \in B}
  <2> DEFINE hit(r) == [kid |-> r.of, score |-> r.score]
             found(k) == [kid |-> k, score |-> t.unit[k]]
  <2>1. ASSUME NEW r \in s PROVE \E k \in B : hit(r) = found(k)
    <3>1. PICK k \in N : r = row(k)
      BY <1>1, <1>2
    <3>2. k \in B
      BY <3>1
    <3>3. hit(r) = found(k)
      BY <3>1
    <3> QED
      BY <3>2, <3>3
  <2>2. ASSUME NEW k \in B PROVE \E r \in s : hit(r) = found(k)
    <3>1. row(k) \in s /\ hit(row(k)) = found(k)
      OBVIOUS
    <3> QED
      BY <3>1
  <2>3. KT!Scanned(s) = {hit(r) : r \in s}
    BY DEF KT!Scanned
  <2> HIDE DEF hit, found, B
  <2>4. {hit(r) : r \in s} = {found(k) : k \in B}
    BY <2>1, <2>2
  <2> QED
    BY <2>3, <2>4 DEF found
<1>6. \A k \in B, q \in N \ B : t.unit[k] >= t.unit[q]
  BY <1>1, <1>2
<1> QED
  BY <1>2, <1>3, <1>4, <1>5, <1>6

(* What the thresholds leave of the best blocks are the best of those they *)
(* allow.                                                                  *)
LEMMA TableKept ==
  ASSUME KT!ConstantsAssumption, NEW t, TableSound(t), NEW B \in SUBSET DOMAIN t.unit,
         Cardinality(B) = IF Cardinality(DOMAIN t.unit) < kt_TopK
                          THEN Cardinality(DOMAIN t.unit) ELSE kt_TopK,
         \A k \in B, q \in DOMAIN t.unit \ B : t.unit[k] >= t.unit[q]
  PROVE  KT!Promised(t, KT!Kept({[kid |-> k, score |-> t.unit[k]] : k \in B}))
<1> DEFINE N == DOMAIN t.unit
           S == t.unit
           hits == {[kid |-> k, score |-> S[k]] : k \in B}
           good == {k \in N : S[k] >= kt_MinScore /\ \A b \in N : S[b] > 0 => S[k] * kt_Den >= S[b] * kt_Num}
           F == B \cap good
<1>0. /\ kt_TopK \in Nat \ {0} /\ kt_MinScore \in Int /\ kt_Den \in Nat /\ kt_Num \in Nat
      /\ IsFiniteSet(N) /\ \A k \in N : S[k] \in Int
  BY FS_Subset, TableSize DEF TableSound, KT!ConstantsAssumption
<1>1. /\ IsFiniteSet(B) /\ IsFiniteSet(good) /\ IsFiniteSet(F)
      /\ Cardinality(B) \in Nat /\ Cardinality(good) \in Nat /\ Cardinality(N) \in Nat
  BY <1>0, FS_Subset, FS_CardinalityType
<1>2. ASSUME NEW k \in good, NEW b \in N, S[b] >= S[k] PROVE b \in good
  <2>1. S[b] >= kt_MinScore
    BY <1>0, <1>2
  <2>2. ASSUME NEW c \in N, S[c] > 0 PROVE S[b] * kt_Den >= S[c] * kt_Num
    <3>1. S[k] * kt_Den >= S[c] * kt_Num
      BY <2>2
    <3>2. S[b] * kt_Den >= S[k] * kt_Den
      BY <1>0, <1>2, TimesKeeps
    <3> DEFINE x == S[b] * kt_Den
               y == S[k] * kt_Den
               z == S[c] * kt_Num
    <3>3. x \in Int /\ y \in Int /\ z \in Int
      BY <1>0
    <3> HIDE DEF x, y, z
    <3>4. x >= z
      BY <3>1, <3>2, <3>3 DEF x, y, z
    <3> QED
      BY <3>4 DEF x, z
  <2> QED
    BY <2>1, <2>2
<1>3. KT!Kept(hits) = {[kid |-> k, score |-> S[k]] : k \in F}
  <2>1. CASE B = {}
    BY <2>1 DEF KT!Kept
  <2>2. CASE B # {}
    <3>1. PICK m \in B : \A k \in B : S[k] <= S[m]
      <4>1. \A k \in B : S[k] \in Int
        BY <1>0
      <4> HIDE DEF S
      <4> QED
        BY <1>1, <2>2, <4>1, GreatestExists
    <3>2. KT!Max({g.score : g \in hits}) = S[m]
      <4>1. {g.score : g \in hits} = {S[k] : k \in B}
        <5>1. hits = TableHits(S, B) /\ TableScores(hits) = {g.score : g \in hits}
          BY DEF TableHits, TableScores
        <5> HIDE DEF hits, S
        <5> QED
          BY <5>1, TableFields
      <4>2. ASSUME NEW x \in {S[k] : k \in B}, \A y \in {S[k] : k \in B} : x >= y PROVE x = S[m]
        BY <1>0, <3>1, <4>2
      <4>3. S[m] \in {S[k] : k \in B} /\ \A y \in {S[k] : k \in B} : S[m] >= y
        BY <1>0, <3>1
      <4> DEFINE X == {S[k] : k \in B}
      <4> HIDE DEF X
      <4>4. KT!Max(X) = S[m]
        BY <4>2, <4>3 DEF KT!Max, X
      <4> QED
        BY <4>1, <4>4 DEF X
    <3>3. \A b \in N : S[b] <= S[m]
      BY <1>0, <3>1
    <3>4. ASSUME NEW k \in B
          PROVE  (S[m] > 0 => S[k] * kt_Den >= S[m] * kt_Num)
                   <=> \A b \in N : S[b] > 0 => S[k] * kt_Den >= S[b] * kt_Num
      <4>1. ASSUME S[m] > 0 => S[k] * kt_Den >= S[m] * kt_Num, NEW b \in N, S[b] > 0
            PROVE  S[k] * kt_Den >= S[b] * kt_Num
        <5>1. S[m] > 0 /\ S[m] * kt_Num >= S[b] * kt_Num
          BY <1>0, <3>3, <4>1, TimesKeeps
        <5>2. S[k] * kt_Den >= S[m] * kt_Num
          BY <4>1, <5>1
        <5> DEFINE x == S[k] * kt_Den
                   y == S[m] * kt_Num
                   z == S[b] * kt_Num
        <5>3. x \in Int /\ y \in Int /\ z \in Int
          BY <1>0
        <5> HIDE DEF x, y, z
        <5>4. x >= z
          BY <5>1, <5>2, <5>3 DEF x, y, z
        <5> QED
          BY <5>4 DEF x, z
      <4> QED
        BY <4>1
    <3>5. \A h \in hits : h \in KT!Kept(hits) <=>
            h.score >= kt_MinScore /\ (S[m] > 0 => h.score * kt_Den >= S[m] * kt_Num)
      BY <3>2 DEF KT!Kept
    <3>6. KT!Kept(hits) \subseteq hits
      BY DEF KT!Kept
    <3>7. \A k \in B : [kid |-> k, score |-> S[k]] \in KT!Kept(hits) <=> k \in good
      BY <3>4, <3>5
    <3> QED
      BY <3>6, <3>7
  <2> QED
    BY <2>1, <2>2
<1>4. Cardinality(F) = IF Cardinality(good) < kt_TopK THEN Cardinality(good) ELSE kt_TopK
  <2>1. CASE good \subseteq B
    <3>1. F = good
      BY <2>1
    <3>2. Cardinality(good) <= Cardinality(B)
      BY <1>1, <2>1, FS_Subset
    <3> HIDE DEF F, good
    <3> QED
      BY <1>0, <1>1, <3>1, <3>2
  <2>2. CASE ~(good \subseteq B)
    <3>1. F = B
      BY <1>2, <2>2
    <3>2. B # N /\ B \subseteq good
      BY <2>2, <3>1
    <3>3. Cardinality(B) < Cardinality(N) /\ Cardinality(B) <= Cardinality(good)
      BY <1>0, <1>1, <3>2, FS_Subset
    <3> HIDE DEF F, good
    <3> QED
      BY <1>0, <1>1, <3>1, <3>3
  <2> QED
    BY <2>1, <2>2
<1>5. {h.kid : h \in KT!Kept(hits)} = F
  <2>1. KT!Kept(hits) = TableHits(S, F) /\ TableKids(KT!Kept(hits)) = {h.kid : h \in KT!Kept(hits)}
    BY <1>3 DEF TableHits, TableKids
  <2> HIDE DEF hits, S, F
  <2> QED
    BY <2>1, TableFields
<1>6. F \subseteq good /\ \A k \in F, b \in good \ F : S[k] >= S[b]
  OBVIOUS
<1> HIDE DEF F, good, hits
<1>7. KT!Kept(hits) = {[kid |-> k, score |-> S[k]] : k \in {h.kid : h \in KT!Kept(hits)}}
  BY <1>3, <1>5
<1> QED
  BY <1>4, <1>5, <1>6, <1>7, TableSize DEF KT!Promised, good, hits

(* The invariant implies the types and what a search promises.             *)
LEMMA TablePromises ==
  ASSUME KT!ConstantsAssumption, TableIInv PROVE KT!TypeOK /\ KT!BlocksKeepTheirNames
<1>1. KT!TypeOK
  BY DEF TableIInv, KT!TypeOK, KT!TableOK, TableSound, TableNumbered
<1>2. ASSUME kt_serving # kt_None, NEW a \in KT!Search(kt_serving) PROVE KT!Promised(kt_serving, a)
  <2>1. TableSound(kt_serving) /\ kt_serving.index \in {kt_None, KT!Rows(kt_serving)}
    BY <1>2 DEF TableIInv
  <2>2. PICK s \in KT!BestRows(KT!Rows(kt_serving)) : a = KT!Kept(KT!Scanned(s))
    <3>1. \A s \in KT!BestRows(KT!Rows(kt_serving)) : KT!Named(kt_serving, s) = KT!Scanned(s)
      BY <2>1, TableRowsName DEF KT!BestRows
    <3> QED
      BY <1>2, <2>1, <3>1 DEF KT!Search
  <2>3. PICK B \in SUBSET DOMAIN kt_serving.unit :
          /\ KT!Scanned(s) = {[kid |-> k, score |-> kt_serving.unit[k]] : k \in B}
          /\ Cardinality(B) = IF Cardinality(DOMAIN kt_serving.unit) < kt_TopK
                              THEN Cardinality(DOMAIN kt_serving.unit) ELSE kt_TopK
          /\ \A k \in B, q \in DOMAIN kt_serving.unit \ B : kt_serving.unit[k] >= kt_serving.unit[q]
    BY <2>1, <2>2, TableBestBlocks
  <2>4. KT!Promised(kt_serving, KT!Kept({[kid |-> k, score |-> kt_serving.unit[k]] : k \in B}))
    BY <2>1, <2>3, TableKept
  <2> QED
    BY <2>2, <2>3, <2>4
<1> QED
  BY <1>1, <1>2 DEF KT!BlocksKeepTheirNames, KT!SearchFindsTheBest, KT!NextIdIsFree, TableIInv

-----------------------------------------------------------------------------
(* The load generators (PerfClient).                                       *)

(* A set has the same size in PerfClient as here, and its greatest of two  *)
(* numbers is one of them.                                                 *)
LEMMA ClientSize ==
  /\ \A S : PC!Cardinality(S) = Cardinality(S)
  /\ \A S : PC!IsFiniteSet(S) <=> IsFiniteSet(S)
  /\ \A a, b \in Int : PC!Max({a, b}) = IF a >= b THEN a ELSE b
<1>1. ASSUME NEW a \in Int, NEW b \in Int PROVE PC!Max({a, b}) = IF a >= b THEN a ELSE b
  BY DEF PC!Max
<1> QED
  BY <1>1 DEF PC!Cardinality, Cardinality, PC!IsFiniteSet, IsFiniteSet

(* The types of the load generators.                                       *)
ClientTypes ==
  /\ pc_mode \in {"concurrent", "rps", "timing"} /\ pc_n \in 0 .. pc_MaxRequests
  /\ pc_phase \in {"new", "refused", "running", "gathered", "summarised", "raised"}
  /\ pc_due \in 0 .. pc_n /\ pc_created \in 0 .. pc_n
  /\ pc_state \in [PC!Index -> {"none", "task", "open", "peek", "answered", "failed", "cancelled"}]
  /\ pc_peak \in 0 .. pc_MaxRequests
  /\ pc_known \subseteq pc_Block /\ pc_monitor \in {"off", "on"} /\ pc_failures \in 0 .. pc_MaxFailures
  /\ pc_source \in [PC!Index -> {"none", "scheduler_peek", "fallback_total_length"}]

(* The counts are those of the requests that are open.                     *)
ClientCounted ==
  /\ pc_inflight = Cardinality(PC!Open) /\ pc_peak = pc_most
  /\ pc_mode = "concurrent" => Cardinality(PC!Open) <= pc_Concurrency

(* Nothing is sent before its time, and nothing happens to a request that  *)
(* was not sent.                                                           *)
ClientSent ==
  /\ pc_mode # "concurrent" => pc_created <= pc_due
  /\ \A i \in PC!Index : pc_state[i] # "none" => i < pc_created
  /\ pc_phase = "new" => pc_created = 0 /\ pc_due = 0

(* Results are there when all have answered.                               *)
ClientGathered ==
  /\ pc_phase \notin {"gathered", "summarised"} => pc_results = <<>>
  /\ pc_phase \in {"gathered", "summarised"} =>
       /\ pc_created = pc_n /\ \A i \in 0 .. pc_n - 1 : pc_state[i] = "answered"
       /\ pc_results = [j \in 1 .. pc_n |-> [index |-> j - 1, kind |-> PC!KindOf(j - 1)]]

(* The inductive invariant of the load generators.                         *)
ClientIInv == ClientTypes /\ ClientCounted /\ ClientSent /\ ClientGathered

(* The open requests are finitely many, and one of them more or less.      *)
LEMMA ClientOpenOK ==
  ASSUME PC!ConstantsAssumption, ClientIInv
  PROVE  /\ PC!Open \subseteq PC!Index /\ IsFiniteSet(PC!Open) /\ IsFiniteSet(PC!Index)
         /\ Cardinality(PC!Open) \in 0 .. pc_MaxRequests
         /\ \A i \in PC!Index \ PC!Open : /\ Cardinality(PC!Open \cup {i}) = Cardinality(PC!Open) + 1
                                          /\ Cardinality(PC!Open \cup {i}) <= pc_MaxRequests
         /\ \A i \in PC!Open : Cardinality(PC!Open \ {i}) = Cardinality(PC!Open) - 1
<1>1. IsFiniteSet(PC!Index) /\ Cardinality(PC!Index) = pc_MaxRequests
  BY FS_Interval DEF PC!Index, PC!ConstantsAssumption
<1>2. PC!Open \subseteq PC!Index
  BY DEF PC!Open
<1>3. IsFiniteSet(PC!Open) /\ Cardinality(PC!Open) \in Nat
  BY <1>1, <1>2, FS_Subset, FS_CardinalityType
<1>4. ASSUME NEW S \in SUBSET PC!Index PROVE Cardinality(S) <= pc_MaxRequests
  BY <1>1, FS_Subset
<1>5. pc_MaxRequests \in Nat
  BY DEF PC!ConstantsAssumption
<1>6. Cardinality(PC!Open) \in 0 .. pc_MaxRequests
  BY <1>2, <1>3, <1>4, <1>5
<1>7. ASSUME NEW i \in PC!Index \ PC!Open
      PROVE  Cardinality(PC!Open \cup {i}) = Cardinality(PC!Open) + 1 /\ Cardinality(PC!Open \cup {i}) <= pc_MaxRequests
  <2>1. PC!Open \cup {i} \in SUBSET PC!Index
    BY <1>2
  <2> QED
    BY <1>3, <1>4, <2>1, FS_AddElement
<1>8. ASSUME NEW i \in PC!Open PROVE Cardinality(PC!Open \ {i}) = Cardinality(PC!Open) - 1
  BY <1>3, FS_RemoveElement
<1> QED
  BY <1>1, <1>2, <1>3, <1>6, <1>7, <1>8

(* The load generator's invariant holds at first.                          *)
LEMMA ClientInitIInv == ASSUME PC!ConstantsAssumption, PC!Init PROVE ClientIInv
<1>1. PC!Open = {} /\ Cardinality({}) = 0
  BY FS_EmptySet DEF PC!Init, PC!Open
<1> QED
  BY <1>1 DEF PC!ConstantsAssumption, PC!Init, ClientIInv, ClientTypes, ClientCounted, ClientSent, ClientGathered

(* The arguments are accepted or refused; the tasks may be created.        *)
LEMMA ClientBeginOK ==
  ASSUME PC!ConstantsAssumption, ClientIInv, NEW m \in {"concurrent", "rps", "timing"},
         NEW k \in 1 .. pc_MaxRequests, PC!Begin(m, k)
  PROVE  ClientIInv'
<1> USE DEF ClientIInv
<1>1. /\ pc_phase = "new" /\ pc_mode' = m /\ pc_n' = k /\ pc_phase' \in {"running", "refused"}
      /\ pc_monitor' \in {"off", "on"} /\ pc_created' \in 0 .. k /\ (m # "concurrent" => pc_created' = 0)
      /\ pc_state' = [i \in PC!Index |-> IF i < pc_created' THEN "task" ELSE "none"]
      /\ pc_known' \subseteq pc_Block
      /\ UNCHANGED <<pc_due, pc_inflight, pc_peak, pc_results, pc_source, pc_most, pc_failures>>
  BY DEF PC!Begin
<1>2. pc_due = 0 /\ pc_created = 0 /\ pc_MaxRequests \in Nat
  BY <1>1 DEF ClientSent, PC!ConstantsAssumption
<1>3. PC!Open = {} /\ PC!Open' = {}
  <2>1. \A i \in PC!Index : pc_state[i] = "none"
    BY <1>2 DEF ClientSent, PC!Index
  <2> QED
    BY <1>1, <2>1 DEF PC!Open
<1>4. ClientTypes'
  BY <1>1, <1>2 DEF ClientTypes
<1>5. ClientCounted'
  BY <1>1, <1>3, FS_EmptySet DEF ClientCounted, PC!ConstantsAssumption
<1> QED
  BY <1>1, <1>2, <1>4, <1>5 DEF ClientSent, ClientGathered

(* A request is sent and becomes open.                                     *)
LEMMA ClientStartOK ==
  ASSUME PC!ConstantsAssumption, ClientIInv, NEW i \in PC!Index, PC!Start(i)
  PROVE  ClientIInv'
<1> USE DEF ClientIInv
<1>1. /\ pc_phase = "running" /\ pc_state[i] = "task" /\ pc_state' = [pc_state EXCEPT ![i] = "open"]
      /\ pc_inflight' = pc_inflight + 1 /\ pc_peak' = PC!Max({pc_peak, pc_inflight + 1})
      /\ pc_most' = PC!Max({pc_most, PC!Cardinality(PC!Open) + 1})
      /\ UNCHANGED <<pc_mode, pc_phase, pc_n, pc_due, pc_created, pc_results, pc_known, pc_source,
                     pc_monitor, pc_failures>>
  BY DEF PC!Start
<1>2. i \notin PC!Open /\ PC!Open' = PC!Open \cup {i}
  BY <1>1 DEF PC!Open, ClientTypes
<1>3. /\ Cardinality(PC!Open') = Cardinality(PC!Open) + 1 /\ Cardinality(PC!Open') <= pc_MaxRequests
      /\ Cardinality(PC!Open) \in Nat
  BY <1>2, ClientOpenOK
<1>4. /\ pc_peak' = pc_most' /\ pc_peak' \in 0 .. pc_MaxRequests
  <2>1. pc_inflight = Cardinality(PC!Open) /\ pc_most = pc_peak /\ pc_peak \in 0 .. pc_MaxRequests /\ pc_MaxRequests \in Nat
    BY DEF ClientCounted, ClientTypes, PC!ConstantsAssumption
  <2>2. PC!Max({pc_peak, pc_inflight + 1}) \in 0 .. pc_MaxRequests
    BY <1>3, <2>1, ClientSize
  <2> QED
    BY <1>1, <2>1, <2>2, ClientSize
<1>5. pc_mode = "concurrent" => Cardinality(PC!Open) + 1 <= pc_Concurrency
  <2>1. pc_mode = "concurrent" => Cardinality(PC!Open) < pc_Concurrency
    BY ClientSize DEF PC!Start, PC!Permitted
  <2> QED
    BY <1>3, <2>1 DEF PC!ConstantsAssumption
<1>6. ClientTypes'
  BY <1>1, <1>4 DEF ClientTypes
<1>7. ClientCounted'
  BY <1>1, <1>3, <1>4, <1>5 DEF ClientCounted
<1>8. ClientSent' /\ ClientGathered'
  BY <1>1 DEF ClientSent, ClientGathered, ClientTypes
<1> QED
  BY <1>6, <1>7, <1>8

(* An open request is over, or goes on to ask for the lengths.             *)
LEMMA ClientMovesOK ==
  ASSUME PC!ConstantsAssumption, ClientIInv, NEW i \in PC!Index, pc_state[i] \in {"open", "peek"},
         NEW s \in {"peek", "answered", "failed"}, pc_state' = [pc_state EXCEPT ![i] = s],
         pc_inflight' = IF s = "peek" THEN pc_inflight ELSE pc_inflight - 1,
         UNCHANGED <<pc_mode, pc_phase, pc_n, pc_due, pc_created, pc_peak, pc_results, pc_monitor, pc_most>>,
         pc_known' \subseteq pc_Block, pc_failures' \in 0 .. pc_MaxFailures,
         pc_source' \in [PC!Index -> {"none", "scheduler_peek", "fallback_total_length"}]
  PROVE  ClientIInv'
<1> USE DEF ClientIInv
<1>1. i \in PC!Open /\ PC!Open' = IF s = "peek" THEN PC!Open ELSE PC!Open \ {i}
  BY DEF PC!Open, ClientTypes
<1>2. /\ Cardinality(PC!Open') = IF s = "peek" THEN Cardinality(PC!Open) ELSE Cardinality(PC!Open) - 1
      /\ Cardinality(PC!Open) \in Nat
  BY <1>1, ClientOpenOK
<1>3. ClientTypes'
  BY DEF ClientTypes
<1>4. ClientCounted'
  BY <1>2 DEF ClientCounted, PC!ConstantsAssumption
<1>5. ClientSent'
  BY DEF ClientSent, ClientTypes
<1>6. pc_phase \notin {"gathered", "summarised"}
  <2>1. i < pc_created
    BY DEF ClientSent
  <2> QED
    BY <2>1 DEF ClientGathered, PC!Index, ClientTypes
<1> QED
  BY <1>3, <1>4, <1>5, <1>6 DEF ClientGathered

(* Every step of a run keeps the invariant.                                *)
LEMMA ClientNextIInv == ASSUME PC!ConstantsAssumption, ClientIInv, [PC!Next]_PC!vars PROVE ClientIInv'
<1> USE DEF ClientIInv
<1>0. /\ pc_MaxRequests \in Nat \ {0} /\ pc_MaxFailures \in Nat
      /\ pc_known \subseteq pc_Block /\ pc_failures \in 0 .. pc_MaxFailures
      /\ pc_source \in [PC!Index -> {"none", "scheduler_peek", "fallback_total_length"}]
  BY DEF PC!ConstantsAssumption, ClientTypes
<1>1. ASSUME NEW m \in {"concurrent", "rps", "timing"}, NEW k \in 1 .. pc_MaxRequests, PC!Begin(m, k)
      PROVE  ClientIInv'
  BY <1>1, ClientBeginOK
<1>2. CASE PC!Tick \/ PC!MonitorEnds \/ PC!Summarize \/ UNCHANGED PC!vars
  <2>1. UNCHANGED <<pc_state, pc_mode, pc_inflight, pc_peak, pc_most, pc_created, pc_n, pc_results>>
    BY <1>2 DEF PC!Tick, PC!MonitorEnds, PC!Summarize, PC!vars
  <2>2. PC!Open' = PC!Open
    BY <2>1 DEF PC!Open
  <2>3. ClientCounted'
    BY <2>1, <2>2 DEF ClientCounted
  <2>4. CASE PC!Tick
    BY <2>3, <2>4 DEF PC!Tick, ClientTypes, ClientSent, ClientGathered
  <2>5. CASE PC!MonitorEnds \/ PC!Summarize \/ UNCHANGED PC!vars
    BY <2>3, <2>5 DEF PC!MonitorEnds, PC!Summarize, PC!vars, ClientTypes, ClientSent, ClientGathered
  <2> QED
    BY <1>2, <2>3, <2>4, <2>5
<1>3. CASE PC!Send
  <2>1. /\ pc_phase = "running" /\ pc_mode # "concurrent" /\ pc_created < pc_due /\ pc_created' = pc_created + 1
        /\ pc_state' = [pc_state EXCEPT ![pc_created] = "task"]
        /\ UNCHANGED <<pc_mode, pc_phase, pc_n, pc_due, pc_inflight, pc_peak, pc_results, pc_known, pc_source,
                       pc_monitor, pc_most, pc_failures>>
    BY <1>3 DEF PC!Send
  <2>2. pc_created \in PC!Index /\ pc_state[pc_created] = "none"
    BY <1>0, <2>1 DEF PC!Index, ClientTypes, ClientSent
  <2>3. PC!Open' = PC!Open
    BY <2>1, <2>2 DEF PC!Open, ClientTypes
  <2>4. ClientTypes'
    <3>1. pc_created' \in 0 .. pc_n'
      BY <2>1 DEF ClientTypes
    <3>2. pc_state' \in [PC!Index -> {"none", "task", "open", "peek", "answered", "failed", "cancelled"}]
      BY <2>1, <2>2 DEF ClientTypes
    <3> QED
      BY <2>1, <3>1, <3>2 DEF ClientTypes
  <2>5. ClientCounted'
    BY <2>1, <2>3 DEF ClientCounted
  <2>6. ClientSent'
    BY <2>1, <2>2 DEF ClientSent, ClientTypes, PC!Index
  <2> QED
    BY <2>1, <2>4, <2>5, <2>6 DEF ClientGathered
<1>4. CASE PC!Gather
  <2>1. /\ pc_phase' = "gathered" /\ pc_created = pc_n /\ \A i \in 0 .. pc_n - 1 : pc_state[i] = "answered"
        /\ pc_results' = [j \in 1 .. pc_n |-> [index |-> j - 1, kind |-> PC!KindOf(j - 1)]]
        /\ UNCHANGED <<pc_mode, pc_n, pc_due, pc_created, pc_state, pc_inflight, pc_peak, pc_known, pc_source,
                       pc_monitor, pc_most, pc_failures>>
    BY <1>4 DEF PC!Gather
  <2>2. PC!Open' = PC!Open
    BY <2>1 DEF PC!Open
  <2>3. ClientGathered'
    BY <2>1 DEF ClientGathered, PC!KindOf
  <2> QED
    BY <2>1, <2>2, <2>3 DEF ClientTypes, ClientCounted, ClientSent
<1>5. CASE PC!GatherRaises
  <2>1. /\ pc_phase' = "raised" /\ pc_monitor' = "off" /\ pc_inflight' = 0 /\ pc_phase = "running"
        /\ pc_state' = [i \in PC!Index |-> IF pc_state[i] \in {"task", "open", "peek"} THEN "cancelled" ELSE pc_state[i]]
        /\ UNCHANGED <<pc_mode, pc_n, pc_due, pc_created, pc_peak, pc_results, pc_known, pc_source, pc_most, pc_failures>>
    BY <1>5 DEF PC!GatherRaises
  <2>2. PC!Open' = {}
    BY <2>1 DEF PC!Open
  <2>3. ClientTypes'
    BY <2>1 DEF ClientTypes
  <2>4. ClientCounted'
    BY <2>1, <2>2, FS_EmptySet DEF ClientCounted, PC!ConstantsAssumption
  <2> QED
    BY <2>1, <2>3, <2>4 DEF ClientSent, ClientGathered, ClientTypes
<1>6. ASSUME NEW i \in PC!Index, PC!Start(i) PROVE ClientIInv'
  BY <1>6, ClientStartOK
<1>7. ASSUME NEW i \in PC!Index, PC!Answer(i) \/ PC!AnswerThenPeek(i) \/ PC!Raise(i) PROVE ClientIInv'
  <2>1. CASE PC!Answer(i)
    BY <1>0, <2>1, ClientMovesOK DEF PC!Answer
  <2>2. CASE PC!AnswerThenPeek(i)
    BY <1>0, <2>2, ClientMovesOK DEF PC!AnswerThenPeek
  <2>3. CASE PC!Raise(i)
    <3>1. pc_failures' \in 0 .. pc_MaxFailures
      BY <1>0, <2>3 DEF PC!Raise
    <3> QED
      BY <1>0, <2>3, <3>1, ClientMovesOK DEF PC!Raise
  <2> QED
    BY <1>7, <2>1, <2>2, <2>3
<1>8. ASSUME NEW i \in PC!Index, NEW wanted \in SUBSET pc_Block, PC!Record(i, wanted) PROVE ClientIInv'
  <2>1. pc_known' \subseteq pc_Block
    BY <1>0, <1>8 DEF PC!Record
  <2>2. pc_source' \in [PC!Index -> {"none", "scheduler_peek", "fallback_total_length"}]
    BY <1>0, <1>8 DEF PC!Record
  <2> QED
    BY <1>0, <1>8, <2>1, <2>2, ClientMovesOK DEF PC!Record
<1> QED
  BY <1>1, <1>2, <1>3, <1>4, <1>5, <1>6, <1>7, <1>8 DEF PC!Next

(* An element of a sequence is one of the set it is over.                  *)
LEMMA ClientElement == ASSUME NEW S, NEW s \in Seq(S) PROVE \A j \in DOMAIN s : s[j] \in S
OBVIOUS

(* Of any P numbers in a row a have a remainder below a.                   *)
LEMMA ClientMix ==
  ASSUME NEW a \in Nat, NEW b \in Nat, a + b # 0, NEW j \in Nat
  PROVE  Cardinality({k \in j .. j + (a + b) - 1 : k % (a + b) < a}) = a
<1> DEFINE p == a + b
           W == j .. j + p - 1
           K == {k \in W : k % p < a}
           L == {k \in W : ~(k % p < a)}
<1>0. p \in Nat \ {0}
  OBVIOUS
<1> HIDE DEF p
<1>1. ASSUME NEW k \in Nat PROVE \E q \in Nat, r \in 0 .. p - 1 : k = q * p + r /\ q = k \div p /\ r = k % p
  BY <1>0, Division
<1>2. ASSUME NEW k \in W, NEW l \in W, k % p = l % p PROVE k = l
  <2>a. k \in Nat /\ l \in Nat
    BY <1>0
  <2>b. PICK u \in Nat, r \in 0 .. p - 1 : k = u * p + r /\ u = k \div p /\ r = k % p
    BY <1>1, <2>a
  <2>c. PICK v \in Nat, t \in 0 .. p - 1 : l = v * p + t /\ v = l \div p /\ t = l % p
    BY <1>1, <2>a
  <2>d. r = t
    BY <1>2, <2>b, <2>c, Zenon
  <2>e. k - l < p /\ l - k < p
    BY <1>0
  <2>1. k - l = u * p - v * p /\ k - l < p /\ l - k < p /\ k \in Nat /\ l \in Nat
    <3> DEFINE U == u * p
               V == v * p
    <3>1. U \in Int /\ V \in Int /\ r \in Int
      BY <1>0, <2>b
    <3>2. k = U + r /\ l = V + r
      BY <2>b, <2>c, <2>d, Zenon
    <3> HIDE DEF U, V
    <3>3. k - l = U - V
      BY <3>1, <3>2
    <3> QED
      BY <2>a, <2>e, <3>3 DEF U, V
  <2>2. u * p - v * p = (u - v) * p
    BY <1>0, <2>1
  <2>3. CASE u - v >= 1
    <3>1. (u - v) * p >= p
      BY <1>0, <2>1, <2>3
    <3> QED
      BY <1>0, <2>1, <2>2, <3>1
  <2>4. CASE v - u >= 1
    <3>1. (v - u) * p >= p /\ (v - u) * p = v * p - u * p
      BY <1>0, <2>1, <2>4
    <3> QED
      BY <1>0, <2>1, <3>1
  <2>5. CASE u = v
    BY <1>0, <2>1, <2>5
  <2> QED
    BY <2>1, <2>3, <2>4, <2>5
<1>3. IsFiniteSet(W) /\ Cardinality(W) = p
  BY <1>0, FS_Interval
<1>4. Cardinality(K) <= a
  <2> DEFINE f == [k \in K |-> k % p]
  <2>1. f \in Injection(K, 0 .. a - 1)
    BY <1>1, <1>2 DEF Injection, IsInjective
  <2>2. IsFiniteSet(0 .. a - 1) /\ Cardinality(0 .. a - 1) = a
    BY FS_Interval
  <2> HIDE DEF f, K
  <2> QED
    BY <2>1, <2>2, FS_Injection
<1>5. Cardinality(L) <= b
  <2> DEFINE f == [k \in L |-> k % p]
  <2>1. f \in Injection(L, a .. p - 1)
    BY <1>1, <1>2 DEF Injection, IsInjective
  <2>2. IsFiniteSet(a .. p - 1) /\ Cardinality(a .. p - 1) = b
    BY FS_Interval DEF p
  <2> HIDE DEF f, L
  <2> QED
    BY <2>1, <2>2, FS_Injection
<1>6. Cardinality(K) + Cardinality(L) = p
  <2>1. L = W \ K /\ K = W \cap K
    OBVIOUS
  <2>2. Cardinality(W \ K) = Cardinality(W) - Cardinality(W \cap K) /\ IsFiniteSet(K)
    <3> HIDE DEF K, W, L
    <3>1. Cardinality(W \ K) = Cardinality(W) - Cardinality(W \cap K)
      BY <1>3, FS_Difference
    <3>2. IsFiniteSet(W \cap K)
      BY <1>3, FS_Intersection
    <3> QED
      BY <2>1, <3>1, <3>2
  <2>3. Cardinality(K) \in Nat
    BY <2>2, FS_CardinalityType
  <2> HIDE DEF K, W, L
  <2> QED
    BY <1>0, <1>3, <2>1, <2>2, <2>3
<1>7. Cardinality(K) \in Nat /\ Cardinality(L) \in Nat
  BY <1>3, FS_Subset, FS_CardinalityType
<1> HIDE DEF K, L
<1>8. Cardinality(K) = a
  BY <1>4, <1>5, <1>6, <1>7 DEF p
<1> QED
  BY <1>8 DEF K, W, p

(* It implies the types and what a summary promises.                       *)
LEMMA ClientPromises ==
  ASSUME PC!ConstantsAssumption, ClientIInv PROVE PC!TypeOK /\ PC!SummaryIsOfTheRun
<1> USE DEF ClientIInv
<1>0. pc_n \in Nat /\ pc_n <= pc_MaxRequests /\ pc_KvPart \in Nat \ {0} /\ pc_TextPart \in Nat \ {0}
  BY DEF ClientTypes, PC!ConstantsAssumption
<1>1. ASSUME pc_phase \in {"gathered", "summarised"}
      PROVE  /\ pc_results \in Seq([index : PC!Index, kind : {"kvcache", "text"}]) /\ Len(pc_results) = pc_n
             /\ \A j \in 1 .. pc_n : /\ pc_results[j].index = j - 1 /\ pc_state[j - 1] = "answered"
                                     /\ pc_results[j].kind = PC!KindOf(j - 1)
  <2>1. pc_results = [j \in 1 .. pc_n |-> [index |-> j - 1, kind |-> PC!KindOf(j - 1)]]
    BY <1>1 DEF ClientGathered
  <2>2. \A j \in 1 .. pc_n : [index |-> j - 1, kind |-> PC!KindOf(j - 1)] \in [index : PC!Index, kind : {"kvcache", "text"}]
    BY <1>0 DEF PC!KindOf, PC!Index, PC!ConstantsAssumption
  <2>3. \A j \in 1 .. pc_n : pc_state[j - 1] = "answered"
    BY <1>0, <1>1 DEF ClientGathered
  <2> QED
    BY <1>0, <2>1, <2>2, <2>3
<1>2. PC!TypeOK
  <2>1. pc_inflight = PC!Cardinality(PC!Open)
    BY ClientSize DEF ClientCounted
  <2>2. \A j \in DOMAIN pc_results : pc_results[j] \in [index : PC!Index, kind : {"kvcache", "text"}]
    <3>1. CASE pc_phase \in {"gathered", "summarised"}
      <4>1. pc_results \in Seq([index : PC!Index, kind : {"kvcache", "text"}])
        BY <1>1, <3>1
      <4> QED
        BY <4>1, ClientElement
    <3>2. CASE pc_phase \notin {"gathered", "summarised"}
      BY <3>2 DEF ClientGathered
    <3> QED
      BY <3>1, <3>2
  <2> QED
    BY <2>1, <2>2 DEF PC!TypeOK, ClientTypes
<1>3. pc_mode # "concurrent" => PC!Cardinality({i \in PC!Index : pc_state[i] \notin {"none", "task"}}) <= pc_due
  <2> DEFINE S == {i \in PC!Index : pc_state[i] \notin {"none", "task"}}
  <2>1. S \subseteq 0 .. pc_created - 1
    BY <1>0 DEF ClientSent, PC!Index, ClientTypes
  <2>2. IsFiniteSet(0 .. pc_created - 1) /\ Cardinality(0 .. pc_created - 1) = pc_created /\ pc_created \in Nat /\ pc_due \in Nat
    BY <1>0, FS_Interval DEF ClientTypes
  <2>3. Cardinality(S) <= pc_created /\ Cardinality(S) \in Nat
    <3> HIDE DEF S
    <3> QED
      BY <2>1, <2>2, FS_Subset, FS_CardinalityType
  <2> HIDE DEF S
  <2>4. pc_mode # "concurrent" => Cardinality(S) <= pc_due
    BY <2>2, <2>3 DEF ClientSent
  <2> QED
    BY <2>4, ClientSize DEF S
<1>4. ASSUME pc_phase = "summarised", NEW j \in 1 .. pc_n - (pc_KvPart + pc_TextPart) + 1
      PROVE  PC!Cardinality({k \in j .. j + pc_KvPart + pc_TextPart - 1 : pc_results[k].kind = "kvcache"}) = pc_KvPart
  <2> DEFINE p == pc_KvPart + pc_TextPart
             i == j - 1
             K == {k \in j .. j + pc_KvPart + pc_TextPart - 1 : pc_results[k].kind = "kvcache"}
             R == {k \in i .. i + p - 1 : k % p < pc_KvPart}
  <2>1. i \in Nat /\ p \in Nat /\ p # 0 /\ \A k \in j .. j + pc_KvPart + pc_TextPart - 1 : k \in 1 .. pc_n
    BY <1>0
  <2>2. \A k \in j .. j + pc_KvPart + pc_TextPart - 1 : pc_results[k].kind = "kvcache" <=> (k - 1) % p < pc_KvPart
    BY <1>1, <1>4, <2>1 DEF PC!KindOf
  <2>3. Cardinality(R) = pc_KvPart
    BY <1>0, <2>1, ClientMix
  <2> DEFINE f == [k \in R |-> k + 1]
  <2>4. f \in Bijection(R, K)
    <3>1. \A k \in R : k + 1 \in K
      BY <1>0, <2>1, <2>2
    <3>2. \A k \in K : k - 1 \in R /\ f[k - 1] = k
      BY <1>0, <2>1, <2>2
    <3>3. \A k, l \in R : f[k] = f[l] => k = l
      BY <2>1
    <3> QED
      BY <3>1, <3>2, <3>3 DEF Bijection, Injection, Surjection, IsInjective
  <2>5. IsFiniteSet(R)
    <3>1. IsFiniteSet(i .. i + p - 1)
      BY <2>1, FS_Interval
    <3> QED
      BY <3>1, FS_Subset
  <2> HIDE DEF R, K, f
  <2>6. Cardinality(K) = pc_KvPart
    BY <2>3, <2>4, <2>5, FS_Bijection DEF ExistsBijection
  <2> QED
    BY <2>6, ClientSize DEF K
<1>5. PC!SummaryIsOfTheRun
  BY <1>1, <1>3, <1>4, ClientSize DEF PC!SummaryIsOfTheRun, ClientCounted
<1> QED
  BY <1>2, <1>5

-----------------------------------------------------------------------------
(* Every module keeps its invariant in the behaviours that are its own.    *)
StorageInv ==
  /\ part = "store" => StoreIInv
  /\ part = "gateway" => GatewayIInv
  /\ part = "tools" => ToolsIInv
  /\ part = "ttft" => TtftIInv
  /\ part = "pages" => PagesInv
  /\ part = "coefficients" => CoeffIInv /\ CF!TypeOK
  /\ part = "buffer" => BufferInv
  /\ part = "table" => TableIInv
  /\ part = "tokens" => KeysIInv
  /\ part = "client" => ClientIInv
  /\ part = "tpot" => BenchIInv

(* The modules' initial states.                                            *)
LEMMA StorageInit == Init => StorageInv
<1> SUFFICES ASSUME Init PROVE StorageInv
  OBVIOUS
<1>1. CASE part = "store"
  BY <1>1, StoreInitIInv, StorageAssumption DEF Init, StorageInv, StorageAssumption
<1>2. CASE part = "gateway"
  BY <1>2, GatewayInitIInv, StorageAssumption DEF Init, StorageInv, StorageAssumption
<1>3. CASE part = "tools"
  BY <1>3, ToolsInitIInv, StorageAssumption DEF Init, StorageInv, StorageAssumption
<1>4. CASE part = "ttft"
  BY <1>4, TtftInitIInv, StorageAssumption DEF Init, StorageInv, StorageAssumption
<1>5. CASE part = "pages"
  BY <1>5, PagesInitInv, StorageAssumption DEF Init, StorageInv, StorageAssumption
<1>6. CASE part = "coefficients"
  BY <1>6, CoeffInitIInv, CoeffInitTyped, StorageAssumption DEF Init, StorageInv, StorageAssumption
<1>7. CASE part = "buffer"
  BY <1>7, BufferInitInv, StorageAssumption DEF Init, StorageInv, StorageAssumption
<1>8. CASE part = "table"
  BY <1>8, TableInitIInv, StorageAssumption DEF Init, StorageInv, StorageAssumption
<1>9. CASE part = "tokens"
  BY <1>9, KeysInitIInv, StorageAssumption DEF Init, StorageInv, StorageAssumption
<1>10. CASE part = "client"
  BY <1>10, ClientInitIInv, StorageAssumption DEF Init, StorageInv, StorageAssumption
<1>11. CASE part = "tpot"
  BY <1>11, BenchInitIInv, StorageAssumption DEF Init, StorageInv, StorageAssumption
<1> QED
  BY <1>1, <1>2, <1>3, <1>4, <1>5, <1>6, <1>7, <1>8, <1>9, <1>10, <1>11 DEF StorageInv

(* A step of the composition is one of the module that is checked.         *)
LEMMA StoreIsChecked == ASSUME part = "store", [Next]_vars PROVE [KS!Next]_KS!vars
BY DEF Next, vars, ks_vars, KS!vars

(* Every step of the part that is chosen keeps the composite's invariant.  *)
LEMMA StorageNext == StorageInv /\ [Next]_vars => StorageInv'
<1> SUFFICES ASSUME StorageInv, [Next]_vars PROVE StorageInv'
  OBVIOUS
<1>1. part' = part
  BY DEF Next, vars
<1>2. ASSUME part = "store" PROVE StoreIInv'
  BY <1>2, StoreIsChecked, StoreNextIInv, StorageAssumption DEF StorageInv, StorageAssumption
<1>3. ASSUME part = "gateway" PROVE GatewayIInv'
  <2>1. [CG!Next]_CG!vars
    BY <1>3 DEF Next, vars, cg_vars, CG!vars
  <2> QED
    BY <1>3, <2>1, GatewayNextIInv, StorageAssumption DEF StorageInv, StorageAssumption
<1>4. ASSUME part = "tools" PROVE ToolsIInv'
  <2>1. [KO!Next]_KO!vars
    BY <1>4 DEF Next, vars, ko_vars, KO!vars
  <2> QED
    BY <1>4, <2>1, ToolsNextIInv, StorageAssumption DEF StorageInv, StorageAssumption
<1>5. ASSUME part = "ttft" PROVE TtftIInv'
  <2>1. [TP!Next]_TP!vars
    BY <1>5 DEF Next, vars, tp_vars, TP!vars
  <2> QED
    BY <1>5, <2>1, TtftNextIInv, StorageAssumption DEF StorageInv, StorageAssumption
<1>6. ASSUME part = "pages" PROVE PagesInv'
  <2>1. [PA!Next]_PA!vars
    BY <1>6 DEF Next, vars, pa_vars, PA!vars
  <2> QED
    BY <1>6, <2>1, PagesNextInv, StorageAssumption DEF StorageInv, StorageAssumption
<1>7. ASSUME part = "coefficients" PROVE CoeffIInv' /\ CF!TypeOK'
  <2>1. [CF!Next]_CF!vars
    BY <1>7 DEF Next, vars, cf_vars, CF!vars
  <2> QED
    BY <1>7, <2>1, CoeffNextIInv, CoeffNextTyped, StorageAssumption DEF StorageInv, StorageAssumption
<1>8. ASSUME part = "buffer" PROVE BufferInv'
  <2>1. [MA!Next]_MA!vars
    BY <1>8 DEF Next, vars, ma_vars, MA!vars
  <2> QED
    BY <1>8, <2>1, BufferNextInv, StorageAssumption DEF StorageInv, StorageAssumption
<1>9. ASSUME part = "table" PROVE TableIInv'
  <2>1. [KT!Next]_KT!vars
    BY <1>9 DEF Next, vars, kt_vars, KT!vars
  <2> QED
    BY <1>9, <2>1, TableNextIInv, StorageAssumption DEF StorageInv, StorageAssumption
<1>10. ASSUME part = "tokens" PROVE KeysIInv'
  <2>1. [TD!Next]_TD!vars
    BY <1>10 DEF Next, vars, td_vars, TD!vars
  <2> QED
    BY <1>10, <2>1, KeysNextIInv, StorageAssumption DEF StorageInv, StorageAssumption
<1>11. ASSUME part = "client" PROVE ClientIInv'
  <2>1. [PC!Next]_PC!vars
    BY <1>11 DEF Next, vars, pc_vars, PC!vars
  <2> QED
    BY <1>11, <2>1, ClientNextIInv, StorageAssumption DEF StorageInv, StorageAssumption
<1>12. ASSUME part = "tpot" PROVE BenchIInv'
  <2>1. [TB!Next]_TB!vars
    BY <1>12 DEF Next, vars, tb_vars, TB!vars
  <2> QED
    BY <1>12, <2>1, BenchNextIInv, StorageAssumption DEF StorageInv, StorageAssumption
<1> QED
  BY <1>1, <1>2, <1>3, <1>4, <1>5, <1>6, <1>7, <1>8, <1>9, <1>10, <1>11, <1>12 DEF StorageInv

(* It always holds.                                                        *)
LEMMA StorageInvariant == Spec => []StorageInv
BY StorageInit, StorageNext, PTL DEF Spec

(* Whatever crashes between two steps of the KDN, a row of its index has   *)
(* its text, and a row that says kv_ready a whole dump - but for a purge   *)
(* whose index part failed, a later build of the block that failed, and    *)
(* keys that were evicted while they were dumped (text_db.register_text,   *)
(* delete_one, kv_builder.build_from_text).                                *)
THEOREM IndexHasItsFilesHolds == Spec => []IndexHasItsFiles
<1>1. StorageInv => IndexHasItsFiles
  BY StoreIInvFiles DEF StorageInv, IndexHasItsFiles
<1> QED
  BY <1>1, StorageInvariant, PTL

(* An injection that found a block ready, waited, and meanwhile saw it     *)
(* deleted, registered and built again, does not report a half dump as     *)
(* injected - unless keys were evicted while the dump was made, or a crash *)
(* cut the rebuild of a ready block short: those two the code reports as   *)
(* whole (kdn_api.inject_ready_kv).                                        *)
THEOREM NoHalfInjectionHolds == Spec => NoHalfInjection
<1>1. StorageInv /\ [Next]_vars =>
        [part = "store" => \A x \in ks_Kid : KS!InjectsWhole(x)]_ks_vars
  BY StoreIsChecked, StoreIInvWhole DEF StorageInv
<1> QED
  BY <1>1, StorageInvariant, PTL DEF Spec, NoHalfInjection

(* A gateway answers every request, with what was asked for or with the    *)
(* reason why not - but an intent whose key is blank, and an intent or a   *)
(* cancellation made while the clock is behind what it showed before, may  *)
(* end with an exception.  An intent that is submitted again is done once  *)
(* under its generation, and the end of it that a client was told of       *)
(* stays, for any number of restarts (MockGateway, LegacyCacheAdapter,     *)
(* CacheServiceResponse, CacheOperationTask).                              *)
THEOREM AnswersHoldHolds == Spec => []AnswersHold
<1>1. StorageInv => AnswersHold
  BY DEF StorageInv, AnswersHold, GatewayIInv
<1> QED
  BY <1>1, StorageInvariant, PTL

(* What the batch registration says of a text is true at its end: "ok"     *)
(* only if its cache is ready, and "failed" if the text it found is gone,  *)
(* but for what an operator removed, for any manifest and any operator's   *)
(* commands in between (batch_register_kdn.main).                          *)
THEOREM VerdictsAreTrueHolds == Spec => []VerdictsAreTrue
<1>1. StorageInv => VerdictsAreTrue
  BY DEF StorageInv, VerdictsAreTrue, ToolsIInv
<1> QED
  BY <1>1, StorageInvariant, PTL

(* Until somebody gives up a reference or a pin that is not his, a page is *)
(* in the deque once, or one thread has it, or a pin keeps it, for any     *)
(* number of threads that allocate at once; always a page in the deque has *)
(* its whole buffer again, and an object that is in use is referred to or  *)
(* pinned (PagedTensorMemoryAllocator.batched_allocate, free,              *)
(* TensorMemoryObj.ref_count_down, unpin).                                 *)
THEOREM PagesHaveOneOwner ==
  Spec => [](/\ part = "pages" => PA!OneOwner /\ PA!FreePagesAreWhole
             /\ part = "buffer" => MA!NothingLeaks)
<1>1. StorageInv => /\ part = "pages" => PA!OneOwner /\ PA!FreePagesAreWhole
                    /\ part = "buffer" => MA!NothingLeaks
  BY PagesOwnersOK, BufferPromises, StorageAssumption DEF StorageInv, StorageAssumption
<1> QED
  BY <1>1, StorageInvariant, PTL

(* Giving up a reference or a pin frees an object only when no reference   *)
(* and no pin is left, for any number of either                            *)
(* (TensorMemoryObj.ref_count_down, unpin).                                *)
THEOREM KeptWhileHeldHolds == Spec => KeptWhileHeld
<1>1. StorageInv /\ [Next]_vars =>
        [part = "buffer" => \A o \in ma_Obj : MA!FreedWhenUnused(o)]_ma_vars
  <2> SUFFICES ASSUME StorageInv, [Next]_vars, part = "buffer"
               PROVE  \A o \in ma_Obj : MA!FreedWhenUnused(o)
    OBVIOUS
  <2>1. [MA!Next]_MA!vars
    BY DEF Next, vars, ma_vars, MA!vars
  <2> QED
    BY <2>1, BufferNextCounted, StorageAssumption DEF StorageInv, StorageAssumption, BufferInv
<1> QED
  BY <1>1, StorageInvariant, PTL DEF Spec, KeptWhileHeld

(* The coefficients of the TTFT model are of the seed alone, or of none of *)
(* it; a measurement is stored under the configuration it was made with,   *)
(* and a report is mistaken for one of its own round only, for any number  *)
(* of configurations, repetitions and reports; the scaler is of the same   *)
(* samples, unless the fit raised after it (perform_detailed_warmup,       *)
(* PrefillTimeRegressor.fit).                                              *)
THEOREM ModelIsOfOneCampaignHolds == Spec => []ModelIsOfOneCampaign
<1>1. StorageInv => ModelIsOfOneCampaign
  BY TtftIInvCampaign DEF StorageInv, ModelIsOfOneCampaign
<1> QED
  BY <1>1, StorageInvariant, PTL

(* A prediction comes from one fit, whatever failed before it was saved    *)
(* and whatever is saved while it is made, and the breakdown of a request  *)
(* accounts for every token, for any token counts and any alignment (fit,  *)
(* save_coefficients_json, predict_prefill_and_redis_breakdown).           *)
THEOREM PredictionsAreOfOneFitHolds == Spec => []PredictionsAreOfOneFit
<1>1. StorageInv => PredictionsAreOfOneFit
  BY DEF StorageInv, PredictionsAreOfOneFit, CoeffIInv
<1> QED
  BY <1>1, StorageInvariant, PTL

(* The buffer has one owner for every unit and never two free blocks that  *)
(* touch, until a batch that begins with an object that is not valid any   *)
(* more strays; always the totals are those of the objects in use, and no  *)
(* object is in use that nobody refers to or pins, after any allocations   *)
(* and frees, single or batched.  The pages have one owner as in           *)
(* PagesHaveOneOwner (TensorMemoryAllocator, PagedTensorMemoryAllocator).  *)
THEOREM OneOwnerHolds == Spec => []OneOwner
<1>1. StorageInv => OneOwner
  BY PagesOwnersOK, BufferPromises, StorageAssumption DEF StorageInv, StorageAssumption, OneOwner
<1> QED
  BY <1>1, StorageInvariant, PTL

(* A search of the knowledge table answers with the best blocks, each      *)
(* under its own kid and with its own score, with an index or without one, *)
(* after any registrations and deletions (KnowledgeTable._register_kid,    *)
(* search_by_embedding).                                                   *)
THEOREM BlocksKeepTheirNamesHolds == Spec => []BlocksKeepTheirNames
<1>1. StorageInv => BlocksKeepTheirNames
  BY TablePromises, StorageAssumption DEF StorageInv, StorageAssumption, BlocksKeepTheirNames
<1> QED
  BY <1>1, StorageInvariant, PTL

(* A key of a chunk stands for all tokens up to its end, masked or not,    *)
(* and a key of a segment for the tokens between its start and its end,    *)
(* for prompts of any length, any chunk size and any separator that does   *)
(* not overlap with itself (process_tokens).                               *)
THEOREM KeysNameTheirTokensHolds == Spec => []KeysNameTheirTokens
<1>1. StorageInv => KeysNameTheirTokens
  BY KeysPromises DEF StorageInv, KeysNameTheirTokens
<1> QED
  BY <1>1, StorageInvariant, PTL

(* A summary of the load generator is of the load that was asked for: the  *)
(* peak, every answer at its place and the mix of kinds, for any number of *)
(* requests and any order of their ends (run_concurrent_mode,              *)
(* run_rps_mode, summarize).                                               *)
THEOREM SummaryIsOfTheRunHolds == Spec => []SummaryIsOfTheRun
<1>1. StorageInv => SummaryIsOfTheRun
  BY ClientPromises, StorageAssumption DEF StorageInv, StorageAssumption, SummaryIsOfTheRun
<1> QED
  BY <1>1, StorageInvariant, PTL

(* A TPOT curve is of its scenario and as dense as planned: no baseline    *)
(* request beside a prefill, no gap between windows, no model value where  *)
(* something was measured, for any lengths, overlaps and faults            *)
(* (collect_tpot_range, collect_continuous_tpot_curve).                    *)
THEOREM CurveIsAsPlannedHolds == Spec => []CurveIsAsPlanned
<1>1. StorageInv => CurveIsAsPlanned
  BY BenchPromises, StorageAssumption DEF StorageInv, StorageAssumption, CurveIsAsPlanned
<1> QED
  BY <1>1, StorageInvariant, PTL

(* The eleven modules keep their types: those of the KDN, the knowledge    *)
(* table, LMCache, the load generator, the predictors and the gateway.     *)
THEOREM TypedHolds == Spec => []Typed
<1>1. ASSUME StorageInv PROVE Typed
  <2>1. part = "store" => KS!TypeOK
    BY <1>1 DEF StorageInv, StoreIInv, StoreTypes, KS!TypeOK
  <2>2. part = "tools" => KO!TypeOK
    BY <1>1 DEF StorageInv, ToolsIInv
  <2>3. part = "table" => KT!TypeOK
    BY <1>1, TablePromises, StorageAssumption DEF StorageInv, StorageAssumption
  <2>4. part = "buffer" => MA!TypeOK
    BY <1>1, BufferPromises, StorageAssumption DEF StorageInv, StorageAssumption
  <2>5. part = "pages" => PA!TypeOK
    BY <1>1 DEF StorageInv, PagesInv, PagesTypes, PA!TypeOK
  <2>6. part = "tokens" => TD!TypeOK
    BY <1>1, KeysPromises DEF StorageInv
  <2>7. part = "client" => PC!TypeOK
    BY <1>1, ClientPromises, StorageAssumption DEF StorageInv, StorageAssumption
  <2>8. part = "ttft" => TP!TypeOK
    <3> SUFFICES ASSUME part = "ttft" PROVE TP!TypeOK
      OBVIOUS
    <3>1. TtftTypes
      BY <1>1 DEF StorageInv, TtftIInv
    <3>2. \A s \in TP!ToSet(tp_data) : s \in TtftSamples
      BY <3>1 DEF TtftTypes, TP!ToSet
    <3>3. \A s \in TP!ToSet(tp_model) : s \in TtftSamples
      BY <3>1 DEF TtftTypes, TP!ToSet
    <3>4. \A s \in TP!ToSet(tp_scaler) : s \in TtftSamples
      BY <3>1 DEF TtftTypes, TP!ToSet
    <3>5. \A s \in TP!ToSet(tp_data) \cup TP!ToSet(tp_scaler) \cup TP!ToSet(tp_model) : s \in TtftSamples
      BY <3>2, <3>3, <3>4
    <3> QED
      BY <3>1, <3>5 DEF TtftTypes, TtftSamples, TP!TypeOK
  <2>9. part = "tpot" => TB!TypeOK
    BY <1>1, BenchPromises, StorageAssumption DEF StorageInv, StorageAssumption
  <2>10. part = "coefficients" => CF!TypeOK
    BY <1>1 DEF StorageInv
  <2>11. part = "gateway" => CG!TypeOK
    BY <1>1 DEF StorageInv, GatewayIInv
  <2> QED
    BY <2>1, <2>2, <2>3, <2>4, <2>5, <2>6, <2>7, <2>8, <2>9, <2>10, <2>11 DEF Typed
<1> QED
  BY <1>1, StorageInvariant, PTL
=============================================================================
