------------------------------ MODULE KdnTools ------------------------------
(***************************************************************************)
(* The two tools that fill a KDN: batch_register_kdn.py works through a    *)
(* manifest of text files (register; if the text was there, delete it and  *)
(* register it anew; build its KV cache), and an operator gives commands   *)
(* with kdn_register_cli.py at the same time.  Every step of either is one *)
(* HTTP call, and a call may fail, or time out although the server did     *)
(* what it was asked (then before the next call is handled).  The handlers *)
(* run one after another in the server's event loop (KdnStore has what     *)
(* they do to the disk); here a block has no row, a row, or a row that     *)
(* says its KV cache is ready.                                             *)
(***************************************************************************)
EXTENDS Integers, Sequences, FiniteSets

CONSTANTS
  Kid,
  Absent,     \* an entry of the manifest whose file is not there
  MaxFiles    \* bound: the entries of a manifest

ConstantsAssumption == IsFiniteSet(Kid) /\ Absent \notin Kid /\ MaxFiles \in Nat

VARIABLES
  row,       \* the index of the KDN
  manifest,  \* what is left of the manifest
  step,      \* the next call for the first entry
  verdict,   \* the last result noted for a text: "none", "ok", "failed"
  command,   \* the text of a :buildkv_file whose build comes next, or Absent
  kept,      \* auxiliary: the texts registered and not removed by the operator
  undone     \* auxiliary: the texts the operator removed after they were "ok"

vars == <<row, manifest, step, verdict, command, kept, undone>>
batchVars == <<manifest, step, verdict>>

Init ==
  /\ row \in [Kid -> {"none", "text", "ready"}]
  /\ manifest \in UNION {[1 .. n -> Kid \cup {Absent}] : n \in 1 .. MaxFiles}
  /\ step = "read" /\ verdict = [x \in Kid |-> "none"] /\ command = Absent
  /\ kept = {x \in Kid : row[x] # "none"} /\ undone = {}

-----------------------------------------------------------------------------
(* The calls: what becomes of the index, and what a client is told.  A     *)
(* client that is told "error" knows nothing of what the server did.       *)

Registered(x) ==
  {[row |-> [row EXCEPT ![x] = IF @ = "none" THEN "text" ELSE @],
    said |-> said] : said \in {IF row[x] = "none" THEN "created" ELSE "exists", "error"}}

(* An entry that cannot be deleted is reported in an answer that is good.  *)
Deleted(x) ==
  {[row |-> r, said |-> said] :
     r \in {row, [row EXCEPT ![x] = "none"]}, said \in {"done", "error"}}

Ready(x) == IF row[x] = "none" THEN row ELSE [row EXCEPT ![x] = "ready"]

Build(x) ==
  {[row |-> Ready(x), said |-> IF row[x] = "none" THEN "error" ELSE "done"],
   [row |-> Ready(x), said |-> "error"]}

NoAnswer == [row |-> row, said |-> "error"]

-----------------------------------------------------------------------------
(* batch_register_kdn.py.                                                  *)

File == Head(manifest)

At(s) == manifest # <<>> /\ step = s

Result(x, v) ==
  /\ verdict' = [verdict EXCEPT ![x] = v]
  /\ manifest' = Tail(manifest) /\ step' = "read"

(* A file that is not there is a failure of its entry only.                *)
Read ==
  /\ At("read")
  /\ IF File = Absent THEN manifest' = Tail(manifest) /\ step' = "read"
     ELSE manifest' = manifest /\ step' = "register"
  /\ UNCHANGED <<row, verdict, command, kept, undone>>

(* Mutated form of Fails: the entry is passed over.                        *)
FailsSilently(x) == manifest' = Tail(manifest) /\ step' = "read" /\ verdict' = verdict

(* Whatever raises for an entry is noted, and the next one is taken.       *)
Fails(x) == Result(x, "failed")

GoesOn(s) == step' = s /\ UNCHANGED <<manifest, verdict>>

Kept == kept' = kept \cup {x \in Kid : row[x] = "none" /\ row'[x] # "none"}

Register ==
  /\ At("register")
  /\ \E a \in Registered(File) \cup {NoAnswer} :
       /\ row' = a.row
       /\ \/ a.said = "created" /\ GoesOn("build")
          \/ a.said = "exists" /\ GoesOn("delete")
          \/ a.said = "error" /\ Fails(File)
  /\ Kept /\ UNCHANGED <<command, undone>>

Delete ==
  /\ At("delete")
  /\ \E a \in Deleted(File) :
       /\ row' = a.row
       /\ \/ a.said = "done" /\ GoesOn("reregister")
          \/ a.said = "error" /\ Fails(File)
  /\ UNCHANGED <<command, kept, undone>>

(* Somebody may have registered the text in between.                       *)
Reregister ==
  /\ At("reregister")
  /\ \E a \in Registered(File) \cup {NoAnswer} :
       /\ row' = a.row
       /\ IF a.said = "created" THEN GoesOn("build") ELSE Fails(File)
  /\ Kept /\ UNCHANGED <<command, undone>>

(* Mutated form of BuildKv: the entry is good once its text is there.      *)
BuildKvOrNot ==
  /\ At("build")
  /\ \E a \in Build(File) \cup {NoAnswer} :
       /\ row' = a.row
       /\ Result(File, "ok") /\ undone' = undone \ {File}
  /\ UNCHANGED <<command, kept>>

BuildKv ==
  /\ At("build")
  /\ \E a \in Build(File) \cup {NoAnswer} :
       /\ row' = a.row
       /\ \/ a.said = "done" /\ Result(File, "ok") /\ undone' = undone \ {File}
          \/ a.said = "error" /\ Fails(File) /\ undone' = undone
  /\ UNCHANGED <<command, kept>>

-----------------------------------------------------------------------------
(* kdn_register_cli.py: one command at a time, on the command line or at   *)
(* the prompt.  An error is printed; what is asked for status or the pool  *)
(* changes nothing.                                                        *)

(* A line, :file and --file; with a build to follow, :buildkv_file.        *)
RegisterText(x, build) ==
  /\ command = Absent
  /\ \E a \in Registered(x) \cup {NoAnswer} :
       /\ row' = a.row
       /\ command' = IF build /\ a.said # "error" THEN x ELSE Absent
  /\ Kept /\ UNCHANGED <<batchVars, undone>>

(* :buildkv of a kid, and the second half of :buildkv_file.                *)
BuildCommand(x) ==
  /\ command \in {Absent, x}
  /\ row' = Ready(x) /\ command' = Absent
  /\ UNCHANGED <<batchVars, kept, undone>>

BuildAbandoned ==
  /\ command # Absent /\ command' = Absent
  /\ UNCHANGED <<row, batchVars, kept, undone>>

Removed(gone) ==
  /\ row' = [x \in Kid |-> IF x \in gone THEN "none" ELSE row[x]]
  /\ kept' = kept \ gone
  /\ undone' = undone \cup {x \in gone : verdict[x] = "ok"}

(* :delete and :purge.                                                     *)
DeleteCommand(x) ==
  /\ command = Absent /\ row[x] # "none"
  /\ Removed({x}) /\ UNCHANGED <<batchVars, command>>

PurgeCommand ==
  /\ command = Absent
  /\ Removed(Kid) /\ UNCHANGED <<batchVars, command>>

Next ==
  \/ Read \/ Register \/ Delete \/ Reregister \/ BuildKv
  \/ \E x \in Kid :
       \/ \E build \in BOOLEAN : RegisterText(x, build)
       \/ BuildCommand(x) \/ DeleteCommand(x)
  \/ BuildAbandoned \/ PurgeCommand

Spec == Init /\ [][Next]_vars

-----------------------------------------------------------------------------
(* The types of the variables.                                             *)
TypeOK ==
  /\ row \in [Kid -> {"none", "text", "ready"}]
  /\ manifest \in Seq(Kid \cup {Absent})
  /\ step \in {"read", "register", "delete", "reregister", "build"}
  /\ verdict \in [Kid -> {"none", "ok", "failed"}]
  /\ command \in Kid \cup {Absent} /\ kept \subseteq Kid /\ undone \subseteq Kid

(* The batch may be in the middle of putting a text back.                  *)
Replacing(x) == manifest # <<>> /\ File = x /\ step \in {"delete", "reregister", "build"}

(* What the batch says of a text is true at the end of it, although every  *)
(* text that was there is deleted on the way and a manifest may name one   *)
(* twice: a text whose last result is "ok" is ready, and one that is not   *)
(* there any more, which only the operator or the batch can have removed,  *)
(* is reported as failed - unless the operator removed it.                 *)
VerdictsAreTrue ==
  \A x \in Kid : ~Replacing(x) =>
    /\ verdict[x] = "ok" /\ x \notin undone => row[x] = "ready"
    /\ x \in kept /\ row[x] = "none" => verdict[x] = "failed"
=============================================================================
