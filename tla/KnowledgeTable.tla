--------------------------- MODULE KnowledgeTable ---------------------------
(***************************************************************************)
(* The Scheduler's knowledge table (store/knowledge_base.py).  A block is  *)
(* known by its kid, a hash; FAISS knows it by a 63-bit number, the first  *)
(* 16 digits of the kid or, when another block has that number, the last   *)
(* 16.  A refresh (kdn_sync.py) clones the table without its index,        *)
(* changes the clone, builds an index if anything changed, and puts the    *)
(* clone in the table's place; without an index a search scans the blocks. *)
(*                                                                         *)
(* A table of the other origin, loaded from a YAML file, has whole numbers *)
(* for its kids, gives the next free one to an item without a number, and  *)
(* is updated in place.  `origin' says which of the two this table is.     *)
(*                                                                         *)
(* An embedding is modelled by its score against the one query that is     *)
(* asked, and FAISS (external) by the best TopK of the rows it was given.  *)
(***************************************************************************)
EXTENDS Integers, FiniteSets, FiniteSetsExt

CONSTANTS
  Kid,
  First, Last,   \* the number the first, and the last, 16 digits of a kid give
  Scores,        \* the scores of embeddings
  TopK, MinScore,
  Num, Den,      \* min_ratio, as a fraction
  Server,
  MaxId,         \* bound: the numbers of a local table
  None

ConstantsAssumption ==
  /\ IsFiniteSet(Kid) /\ None \notin Kid /\ None \notin Int
  /\ First \in [Kid -> Nat] /\ Last \in [Kid -> Nat]
  /\ Scores \subseteq Int /\ MinScore \in Int /\ TopK \in Nat \ {0}
  /\ Num \in Nat /\ Den \in Nat \ {0} /\ MaxId \in Nat

VARIABLES
  origin,   \* "kdn" or "yaml"
  faiss,    \* whether FAISS is installed
  serving,  \* app.state.knowledge_table, or None
  work,     \* the new_table of a refresh, or None
  changed,
  local,    \* _units of a local table: its llm and kdn servers by number
  nextId,
  loading   \* whether the YAML file is still being read

vars == <<origin, faiss, serving, work, changed, local, nextId, loading>>
kdnVars == <<serving, work, changed>>
yamlVars == <<local, nextId, loading>>

Empty == [unit |-> <<>>, toInt |-> <<>>, toKid |-> <<>>, index |-> None]

With(f, x, v) == [y \in DOMAIN f \cup {x} |-> IF y = x THEN v ELSE f[y]]
Without(f, x) == [y \in DOMAIN f \ {x} |-> f[y]]

Init ==
  /\ origin \in {"kdn", "yaml"} /\ faiss \in BOOLEAN
  /\ serving = None /\ work = None /\ changed = FALSE
  /\ local = <<>> /\ nextId = 0 /\ loading = TRUE

-----------------------------------------------------------------------------
(* The numbers of the blocks.                                              *)

Taken(t, i, k) == i \in DOMAIN t.toKid /\ t.toKid[i] # k

(* Mutated form of NumberFor: the second number is not looked up.          *)
NumberForUnchecked(t, k) == IF ~Taken(t, First[k], k) THEN First[k] ELSE Last[k]

(* None: both numbers are another block's, which raises.                   *)
NumberFor(t, k) ==
  IF ~Taken(t, First[k], k) THEN First[k]
  ELSE IF ~Taken(t, Last[k], k) THEN Last[k] ELSE None

Register(t, k) ==
  LET i == NumberFor(t, k)
  IN [t EXCEPT !.toInt = With(@, k, i), !.toKid = With(@, i, k)]

Unregister(t, k) ==
  IF k \in DOMAIN t.toInt
  THEN [t EXCEPT !.toInt = Without(@, k), !.toKid = Without(@, t.toInt[k])]
  ELSE t

(* 0 is no number to `or': the block that has it is registered again.      *)
Renumbered(t) == {k \in DOMAIN t.unit : t.toInt[k] = 0}

BuildRaises(t) == \E k \in Renumbered(t) : NumberFor(t, k) = None

Rows(t) ==
  {[of |-> k, id |-> t.toInt[k], score |-> t.unit[k]] : k \in DOMAIN t.unit}

(* build_faiss_index: no index without FAISS or without blocks.            *)
Built(t) ==
  LET again == Renumbered(t)
      u == IF again = {} THEN t ELSE Register(t, CHOOSE k \in again : TRUE)
  IN IF faiss /\ DOMAIN t.unit # {} THEN [u EXCEPT !.index = Rows(u)]
     ELSE [t EXCEPT !.index = None]

-----------------------------------------------------------------------------
(* A refresh.  What raises in one (two numbers taken, an embedding of      *)
(* another dimension, a KDN that fails) drops the clone.                   *)

Begin ==
  /\ origin = "kdn" /\ work = None
  /\ work' = IF serving = None THEN Empty ELSE [serving EXCEPT !.index = None]
  /\ changed' = (serving = None)
  /\ UNCHANGED <<origin, faiss, serving>> /\ UNCHANGED yamlVars

UpsertKid(k) ==
  /\ work # None /\ NumberFor(work, k) # None
  /\ \E e \in Scores :
       work' = [Register(work, k) EXCEPT !.unit = With(@, k, e)]
  /\ changed' = TRUE
  /\ UNCHANGED <<origin, faiss, serving>> /\ UNCHANGED yamlVars

DeleteKid(k) ==
  /\ work # None /\ k \in DOMAIN work.unit
  /\ work' = [Unregister(work, k) EXCEPT !.unit = Without(@, k)]
  /\ changed' = TRUE
  /\ UNCHANGED <<origin, faiss, serving>> /\ UNCHANGED yamlVars

(* Mutated form of Swap: the index is built for the first table only.      *)
SwapKeepsIndex ==
  /\ work # None
  /\ serving' = IF serving = None THEN Built(work)
                ELSE [work EXCEPT !.index = serving.index]
  /\ work' = None
  /\ UNCHANGED <<origin, faiss, changed>> /\ UNCHANGED yamlVars

(* A table that did not change is swapped in without an index.             *)
Swap ==
  /\ work # None /\ ~(changed /\ faiss /\ BuildRaises(work))
  /\ serving' = IF changed THEN Built(work) ELSE work
  /\ work' = None
  /\ UNCHANGED <<origin, faiss, changed>> /\ UNCHANGED yamlVars

RefreshRaises ==
  /\ work # None
  /\ work' = None
  /\ UNCHANGED <<origin, faiss, serving, changed>> /\ UNCHANGED yamlVars

-----------------------------------------------------------------------------
(* A local table.                                                          *)

NoServers == [llm |-> {}, kdn |-> {}]

(* Mutated form of UpsertKnowledge: the counter just goes on.              *)
UpsertKnowledgeCounts(i) ==
  /\ local' = With(local, i, NoServers)
  /\ nextId' = IF i \in DOMAIN local THEN nextId ELSE nextId + 1

UpsertKnowledge(i) ==
  /\ local' = With(local, i, NoServers)
  /\ nextId' = IF i >= nextId THEN i + 1 ELSE nextId

(* An item with a number, and one without, which gets the next.            *)
UpsertItem == \E i \in 0 .. MaxId : UpsertKnowledge(i)

AssignItem == nextId <= MaxId /\ UpsertKnowledge(nextId)

(* Loading a file.  An item without an embedding ends the start.           *)
LoadItem ==
  /\ origin = "yaml" /\ loading
  /\ UpsertItem \/ AssignItem
  /\ UNCHANGED <<origin, faiss, loading>> /\ UNCHANGED kdnVars

(* _register_kid takes a number for a string and raises: with FAISS only   *)
(* an empty file can be loaded.                                            *)
LoadEnds ==
  /\ origin = "yaml" /\ loading
  /\ faiss => DOMAIN local = {}
  /\ loading' = FALSE
  /\ UNCHANGED <<origin, faiss, local, nextId>> /\ UNCHANGED kdnVars

(* add and remove of one server of a block that is there.                  *)
ChangeServers(i) ==
  /\ i \in DOMAIN local
  /\ \E s \in Server, side \in {"llm", "kdn"} :
       \/ local' = [local EXCEPT ![i][side] = @ \cup {s}]
       \/ local' = [local EXCEPT ![i][side] = @ \ {s}]
  /\ nextId' = nextId

(* An update without an embedding has taken its number when it raises.     *)
UpdateRaises ==
  /\ nextId <= MaxId /\ nextId' = nextId + 1 /\ local' = local

ApplyUpdate ==
  /\ origin = "yaml" /\ ~loading
  /\ \/ UpsertItem
     \/ AssignItem
     \/ UpdateRaises
     \/ \E i \in 0 .. MaxId : ChangeServers(i)
  /\ UNCHANGED <<origin, faiss, loading>> /\ UNCHANGED kdnVars

Next ==
  \/ Begin \/ Swap \/ RefreshRaises
  \/ \E k \in Kid : UpsertKid(k) \/ DeleteKid(k)
  \/ LoadItem \/ LoadEnds \/ ApplyUpdate

Spec == Init /\ [][Next]_vars

-----------------------------------------------------------------------------
(* search_by_embedding: the possible answers.  FAISS gives rows, the scan  *)
(* blocks; a row whose number or block is not there is passed over.        *)

BestRows(rows) ==
  {s \in SUBSET rows :
     /\ Cardinality(s) = IF Cardinality(rows) < TopK THEN Cardinality(rows) ELSE TopK
     /\ \A r \in s, q \in rows \ s : r.score >= q.score}

Named(t, s) ==
  {[kid |-> t.toKid[r.id], score |-> r.score] : r \in
     {r \in s : r.id \in DOMAIN t.toKid /\ t.toKid[r.id] \in DOMAIN t.unit}}

Scanned(s) == {[kid |-> r.of, score |-> r.score] : r \in s}

Kept(hits) ==
  {h \in hits : /\ h.score >= MinScore
                /\ LET best == Max({g.score : g \in hits})
                   IN best > 0 => h.score * Den >= best * Num}

Search(t) ==
  IF t.index # None THEN {Kept(Named(t, s)) : s \in BestRows(t.index)}
  ELSE {Kept(Scanned(s)) : s \in BestRows(Rows(t))}

-----------------------------------------------------------------------------
(* The types of the variables.                                             *)
TableOK(t) ==
  /\ DOMAIN t.unit \subseteq Kid /\ \A k \in DOMAIN t.unit : t.unit[k] \in Scores
  /\ DOMAIN t.toInt = DOMAIN t.unit /\ \A k \in DOMAIN t.toInt : t.toInt[k] \in Nat
  /\ DOMAIN t.toKid \subseteq Nat /\ \A i \in DOMAIN t.toKid : t.toKid[i] \in Kid

TypeOK ==
  /\ origin \in {"kdn", "yaml"} /\ faiss \in BOOLEAN /\ changed \in BOOLEAN
  /\ serving # None => TableOK(serving)
  /\ work # None => TableOK(work)
  /\ DOMAIN local \subseteq 0 .. MaxId /\ nextId \in 0 .. MaxId + 1
  /\ \A i \in DOMAIN local : local[i] \in [llm : SUBSET Server, kdn : SUBSET Server]
  /\ loading \in BOOLEAN

(* Whatever was registered, deleted and registered again before, and       *)
(* whether the table has an index or not, a search of the table that       *)
(* serves answers with blocks under their own kids and with their own      *)
(* scores, with none that the thresholds exclude, and with as many of the  *)
(* best as it was asked for.                                               *)
Promised(t, answer) ==
  LET score(k) == t.unit[k]
      good == {k \in DOMAIN t.unit :
                 /\ score(k) >= MinScore
                 /\ \A b \in DOMAIN t.unit :
                      score(b) > 0 => score(k) * Den >= score(b) * Num}
      found == {h.kid : h \in answer}
  IN /\ answer = {[kid |-> k, score |-> score(k)] : k \in found}
     /\ found \subseteq good
     /\ Cardinality(found) = IF Cardinality(good) < TopK THEN Cardinality(good) ELSE TopK
     /\ \A k \in found, b \in good \ found : score(k) >= score(b)

SearchFindsTheBest ==
  serving # None => \A answer \in Search(serving) : Promised(serving, answer)

(* The number an item without one would get is no other item's, so that    *)
(* only an item that names a block overwrites it.                          *)
NextIdIsFree == \A i \in DOMAIN local : i < nextId

(* Both tables tell their blocks apart.                                    *)
BlocksKeepTheirNames == SearchFindsTheBest /\ NextIdIsFree

(* Two blocks never have the same number, and a number leads back to its   *)
(* block: the invariant of the proof.                                      *)
Paired(t) == \A k \in DOMAIN t.toInt :
  t.toInt[k] \in DOMAIN t.toKid /\ t.toKid[t.toInt[k]] = k

NumbersArePaired ==
  /\ serving # None => Paired(serving)
  /\ work # None => Paired(work)
=============================================================================
