------------------------------ MODULE KdnStore ------------------------------
(***************************************************************************)
(* What a KDN server keeps on disk: the index rows and the text files of   *)
(* text_database (kdn_server/text_db.py) and the KV dumps of KV_database   *)
(* (kv_builder.py, kv_injector.py), and the handlers that change them      *)
(* (kdn_api.py).  A handler runs in the server's only event loop and does  *)
(* not give it up while it works on the disk, so only a crash comes        *)
(* between its steps.  An injection of several blocks has read the index   *)
(* before it waits for the simulated transfer of an earlier one.  The      *)
(* Redis the dumps are captured from is external: the keys of a block      *)
(* appear when its text is inferred and may be evicted at any time.        *)
(***************************************************************************)
EXTENDS Integers, FiniteSets

CONSTANTS
  Kid,         \* the blocks (a kid is the hash of its text)
  None,
  MaxFaults    \* bound: the crashes and the purges whose index part fails

ConstantsAssumption == IsFiniteSet(Kid) /\ None \notin Kid /\ MaxFaults \in Nat

VARIABLES
  row,       \* knowledge_blocks: "none", "text", or "ready" (kv_ready = 1)
  file,      \* the blocks whose text file is there
  dump,      \* KV_database/<kid>: "none", "empty" (no manifest), "part", "whole"
  cached,    \* the blocks whose keys are in Redis
  op,        \* what the event loop is at
  injecting, \* the blocks found ready by an injection that waits
  lost,      \* auxiliary: the rows whose text a purge removed without them
  spoilt,    \* auxiliary: the blocks with a row that is ready whose dump lost keys
             \* to an eviction while it was made, or fell to a rebuild that ended early
  faults

vars == <<row, file, dump, cached, op, injecting, lost, spoilt, faults>>

At(step, x) == [at |-> step, kid |-> x]
Idle == At("idle", None)

Init ==
  /\ row = [x \in Kid |-> "none"] /\ file = {} /\ dump = [x \in Kid |-> "none"]
  /\ cached = {} /\ op = Idle /\ injecting = {}
  /\ lost = {} /\ spoilt = {} /\ faults = 0

Fault == faults < MaxFaults /\ faults' = faults + 1

-----------------------------------------------------------------------------
(* register_text: the file first, then the row; a row that is there is     *)
(* left alone ("exists").                                                  *)

WriteText(x) ==
  /\ op = Idle /\ row[x] = "none"
  /\ file' = file \cup {x} /\ op' = At("insert", x)
  /\ UNCHANGED <<row, dump, cached, injecting, lost, spoilt, faults>>

InsertRow ==
  /\ op.at = "insert"
  /\ row' = [row EXCEPT ![op.kid] = "text"] /\ op' = Idle
  /\ UNCHANGED <<file, dump, cached, injecting, lost, spoilt, faults>>

(* The file before the row. *)
DeleteFileFirst(x) ==
  /\ op = Idle /\ row[x] # "none"
  /\ file' = file \ {x} /\ op' = At("unrow", x)
  /\ UNCHANGED <<row, dump, cached, injecting, lost, spoilt, faults>>

(* delete_one: the row first, then the file, which may fail to go; then,   *)
(* if the request says so, the dump.                                       *)
DeleteRow(x) ==
  /\ op = Idle /\ row[x] # "none"
  /\ row' = [row EXCEPT ![x] = "none"] /\ op' = At("unlink", x)
  /\ lost' = lost \ {x}
  /\ UNCHANGED <<file, dump, cached, injecting, spoilt, faults>>

UnlinkText ==
  /\ op.at = "unlink"
  /\ file' \in {file, file \ {op.kid}}
  /\ op' \in {Idle, At("undump", op.kid)}
  /\ UNCHANGED <<row, dump, cached, injecting, lost, spoilt, faults>>

RemoveDump ==
  /\ op.at = "undump"
  /\ dump' = [dump EXCEPT ![op.kid] = "none"] /\ op' = Idle
  /\ spoilt' = spoilt \ {op.kid}
  /\ UNCHANGED <<row, file, cached, injecting, lost, faults>>

-----------------------------------------------------------------------------
(* purge_all: the files, the index, the dumps if the request says so.  A   *)
(* part that fails is noted and the next is done.                          *)

PurgeTexts ==
  /\ op = Idle
  /\ file' = {} /\ lost' = {x \in Kid : row[x] # "none"}
  /\ op' = At("purgeIndex", None)
  /\ UNCHANGED <<row, dump, cached, injecting, spoilt, faults>>

PurgeIndex ==
  /\ op.at = "purgeIndex"
  /\ \/ row' = [x \in Kid |-> "none"] /\ lost' = {} /\ UNCHANGED faults
     \/ Fault /\ UNCHANGED <<row, lost>>
  /\ op' \in {Idle, At("purgeDumps", None)}
  /\ UNCHANGED <<file, dump, cached, injecting, spoilt>>

PurgeDumps ==
  /\ op.at = "purgeDumps"
  /\ dump' = [x \in Kid |-> "none"] /\ op' = Idle /\ spoilt' = {}
  /\ UNCHANGED <<row, file, cached, injecting, lost, faults>>

-----------------------------------------------------------------------------
(* build_kv.  The old dump is removed before anything else; a build that   *)
(* fails removes what it wrote; only a build that succeeds touches the row.*)

Spoilt(x) == IF row[x] = "ready" THEN spoilt \cup {x} ELSE spoilt

(* Keys that were in Redis before are not new: unless the request flushes  *)
(* the database, the wait for new ones then times out.                     *)
BeginBuild(x) ==
  /\ op = Idle /\ row[x] # "none" /\ x \in file
  /\ dump' = [dump EXCEPT ![x] = "empty"]
  /\ \/ cached' = {} /\ op' = At("infer", x)
     \/ cached' = cached /\ op' = At(IF x \in cached THEN "fail" ELSE "infer", x)
  /\ UNCHANGED <<row, file, injecting, lost, spoilt, faults>>

Infer ==
  /\ op.at = "infer"
  /\ cached' = cached \cup {op.kid} /\ op' = At("dump", op.kid)
  /\ UNCHANGED <<row, file, dump, injecting, lost, spoilt, faults>>

(* Without the test that anything was dumped. *)
DumpFirstUnchecked ==
  /\ op.at = "dump"
  /\ IF op.kid \in cached
       THEN dump' = [dump EXCEPT ![op.kid] = "part"] /\ op' = At("dumpRest", op.kid)
       ELSE dump' = [dump EXCEPT ![op.kid] = "empty"] /\ op' = At("mark", op.kid)
  /\ UNCHANGED <<row, file, cached, injecting, lost, spoilt, faults>>

(* _dump_keys leaves out the keys that are gone; a dump of none fails. *)
DumpFirst ==
  /\ op.at = "dump"
  /\ IF op.kid \in cached
       THEN dump' = [dump EXCEPT ![op.kid] = "part"] /\ op' = At("dumpRest", op.kid)
       ELSE dump' = dump /\ op' = At("fail", op.kid)
  /\ UNCHANGED <<row, file, cached, injecting, lost, spoilt, faults>>

DumpRest ==
  /\ op.at = "dumpRest"
  /\ dump' = [dump EXCEPT ![op.kid] = IF op.kid \in cached THEN "whole" ELSE "part"]
  /\ op' = At("mark", op.kid)
  /\ UNCHANGED <<row, file, cached, injecting, lost, spoilt, faults>>

MarkReady ==
  /\ op.at = "mark"
  /\ row' = [row EXCEPT ![op.kid] = "ready"] /\ op' = Idle
  /\ spoilt' = IF dump[op.kid] = "part" THEN spoilt \cup {op.kid} ELSE spoilt \ {op.kid}
  /\ UNCHANGED <<file, dump, cached, injecting, lost, faults>>

Building == op.at \in {"infer", "dump", "dumpRest", "mark", "fail"}

(* The directory of a build that failed stays. *)
BuildFailsKeepsDump ==
  /\ Building
  /\ op' = Idle /\ spoilt' = Spoilt(op.kid)
  /\ UNCHANGED <<row, file, dump, cached, injecting, lost, faults>>

(* Any step of the build raises; the server answers 500. *)
BuildFails ==
  /\ Building
  /\ dump' = [dump EXCEPT ![op.kid] = "none"] /\ op' = Idle
  /\ spoilt' = Spoilt(op.kid)
  /\ UNCHANGED <<row, file, cached, injecting, lost, faults>>

EvictKeys(x) ==
  /\ x \in cached /\ cached' = cached \ {x}
  /\ UNCHANGED <<row, file, dump, op, injecting, lost, spoilt, faults>>

-----------------------------------------------------------------------------
(* inject_ready_kv.  A block that is not there or not ready is answered at *)
(* once; one that is ready has its turn after the blocks before it.        *)

BeginInject(x) ==
  /\ op = Idle /\ row[x] = "ready" /\ x \in file
  /\ injecting' = injecting \cup {x}
  /\ UNCHANGED <<row, file, dump, cached, op, lost, spoilt, faults>>

(* Without a manifest inject_kv_dir raises and the block is text only;     *)
(* else what the manifest lists is sent and the block reported injected.   *)
Inject(x) ==
  /\ op = Idle /\ x \in injecting
  /\ injecting' = injecting \ {x}
  /\ UNCHANGED <<row, file, dump, cached, op, lost, spoilt, faults>>

(* The process is killed, and started again on the same directories. *)
Crash ==
  /\ Fault
  /\ op' = Idle /\ injecting' = {}
  /\ spoilt' = IF Building THEN Spoilt(op.kid) ELSE spoilt
  /\ UNCHANGED <<row, file, dump, cached, lost>>

Next ==
  \/ \E x \in Kid :
       WriteText(x) \/ DeleteRow(x) \/ BeginBuild(x) \/ EvictKeys(x) \/ BeginInject(x) \/ Inject(x)
  \/ InsertRow \/ UnlinkText \/ RemoveDump
  \/ PurgeTexts \/ PurgeIndex \/ PurgeDumps
  \/ Infer \/ DumpFirst \/ DumpRest \/ MarkReady \/ BuildFails \/ Crash

Spec == Init /\ [][Next]_vars

-----------------------------------------------------------------------------
TypeOK ==
  /\ row \in [Kid -> {"none", "text", "ready"}]
  /\ dump \in [Kid -> {"none", "empty", "part", "whole"}]
  /\ {file, cached, injecting, lost, spoilt} \subseteq SUBSET Kid
  /\ op.kid \in Kid \cup {None} /\ faults \in 0 .. MaxFaults

(* Whatever crashes between the steps of a registration or a deletion, a   *)
(* row of the index has its text, so that a block the Scheduler was told   *)
(* of can be fetched; the one exception is a purge that removed the texts  *)
(* and failed on the index (text_db.register_text and delete_one).         *)
TextSurvives == \A x \in Kid : row[x] # "none" => x \in file \cup lost

(* A block marked kv_ready has a whole dump, unless a later build of the   *)
(* same block failed or was cut short, keys were evicted while they were   *)
(* dumped, or a purge failed on the index (kv_builder.build_from_text).    *)
ReadyHasDump ==
  \A x \in Kid : row[x] = "ready" /\ op.kid # x =>
                   dump[x] = "whole" \/ x \in spoilt \cup lost

(* An injection that found a block ready, waited, and meanwhile saw it     *)
(* deleted, registered and built again, does not report a half dump as     *)
(* injected (kdn_api.inject_ready_kv) - with two exceptions, the blocks of *)
(* `spoilt'.  A build whose keys were in part evicted while they were      *)
(* dumped marks what remained ready (kv_builder.build_from_text), and a    *)
(* crash in the middle of a rebuild leaves a half dump under a row that is *)
(* ready: both are injected as whole.                                      *)
InjectsWhole(x) == Inject(x) => dump[x] # "part" \/ x \in spoilt
NoHalfInjection == [][\A x \in Kid : InjectsWhole(x)]_vars
=============================================================================
