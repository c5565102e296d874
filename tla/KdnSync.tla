------------------------------- MODULE KdnSync -------------------------------
(***************************************************************************)
(* How the Scheduler keeps its knowledge table in step with the KDN        *)
(* servers (scheduler/knowledge/kdn_sync.py, scheduler/resource/           *)
(* kdn_pool.py).  A refresh                                                *)
(*   - asks every alive KDN for its index, one after the other,            *)
(*   - picks one alive KDN, round robin, and asks it for a meta snapshot,  *)
(*   - compares the snapshot with the signatures it remembers, and         *)
(*     remembers the new ones,                                             *)
(*   - asks for the items that are new or changed, and puts a new table    *)
(*     in place of the old one.                                            *)
(* Refreshes run one at a time (_kdn_refresh_lock); the KDNs' contents and *)
(* the pool change between any two of the requests, and every request may  *)
(* fail.  A request is one action: what the KDN answers and what the       *)
(* Scheduler does with the answer.  (A change at the KDN while the answer  *)
(* travels is the same as one just after it arrived: neither side looks at *)
(* the other's state in between.)                                          *)
(***************************************************************************)
EXTENDS Integers, Sequences, FiniteSets, Functions

CONSTANTS
  Kdn,          \* the KDN servers
  NoKdn,        \* "no KDN"
  Kid,          \* the knowledge blocks (a kid is the hash of its text)
  Deletable,    \* the blocks that may be deleted at a KDN
  MaxVersion,   \* bound: the signatures of a block
  MaxFailures,  \* bound: the requests that fail
  RRPeriod      \* the round robin counter is kept modulo this

ASSUME KdnSyncAssumption ==
  /\ IsFiniteSet(Kdn) /\ NoKdn \notin Kdn /\ Deletable \subseteq Kid
  /\ MaxVersion \in Nat \ {0} /\ MaxFailures \in Nat /\ RRPeriod \in Nat \ {0}
  /\ \A n \in 1 .. Cardinality(Kdn) : RRPeriod % n = 0

VARIABLES
  store,      \* the blocks of every KDN: 0 not there, else the block's signature
  pool,       \* KDNPool._data: the registered KDNs, in the order of the dict
  alive,      \* those whose last heartbeat is not older than the TTL
  index,      \* app.state.kdn_knowledge_index
  metaCache,  \* _kdn_meta_cache
  table,      \* app.state.knowledge_table: 0 no unit, else the version it holds
  avail,      \* avail_kdn_servers of the units
  rrIdx,      \* app.state._kdn_rr_idx
  pc,         \* where the running refresh is
  toVisit,    \* the KDNs whose index is still to be fetched
  newIndex,   \* the index fetched so far
  chosen,     \* kdn_base_url
  servers,    \* alive_addrs
  need,       \* added + updated
  removed,    \* removed
  failures    \* the requests that failed so far

worldVars   == <<store, pool, alive>>
localVars   == <<toVisit, newIndex, chosen, servers, need, removed>>
vars == <<worldVars, index, metaCache, table, avail, rrIdx, pc, localVars, failures>>

Nothing == [x \in Kid |-> 0]
NoIndex == [k \in {} |-> Nothing]

Init ==
  /\ store = [k \in Kdn |-> Nothing]
  /\ pool = <<>> /\ alive = {}
  /\ index = NoIndex
  /\ metaCache = Nothing /\ table = Nothing /\ avail = [x \in Kid |-> {}]
  /\ rrIdx = 0
  /\ pc = "idle" /\ toVisit = {} /\ newIndex = NoIndex
  /\ chosen = NoKdn /\ servers = {} /\ need = {} /\ removed = {}
  /\ failures = 0

-----------------------------------------------------------------------------
(* The KDN servers.  A block that is registered has the signature 1, the   *)
(* same at every KDN; each KV build gives it a later one.                  *)

SetBlock(k, x, v) ==
  /\ store' = [store EXCEPT ![k][x] = v]
  /\ UNCHANGED <<pool, alive, index, metaCache, table, avail, rrIdx, pc, localVars, failures>>

RegisterText(k, x) == store[k][x] = 0 /\ SetBlock(k, x, 1)

BuildKv(k, x) ==
  /\ store[k][x] # 0
  /\ \E v \in store[k][x] + 1 .. MaxVersion : SetBlock(k, x, v)

Delete(k, x) == x \in Deletable /\ store[k][x] # 0 /\ SetBlock(k, x, 0)

(* The pool.  An entry keeps its place in the dict when it is registered   *)
(* again.                                                                  *)
Register(k) ==
  /\ pool' = IF k \in Range(pool) THEN pool ELSE Append(pool, k)
  /\ alive' = alive \cup {k}
  /\ UNCHANGED <<store, index, metaCache, table, avail, rrIdx, pc, localVars, failures>>

Heartbeat(k) ==
  /\ k \in Range(pool) \ alive
  /\ alive' = alive \cup {k}
  /\ UNCHANGED <<store, pool, index, metaCache, table, avail, rrIdx, pc, localVars, failures>>

Expire(k) ==
  /\ k \in alive
  /\ alive' = alive \ {k}
  /\ UNCHANGED <<store, pool, index, metaCache, table, avail, rrIdx, pc, localVars, failures>>

Unregister(k) ==
  /\ \E i \in DOMAIN pool : pool[i] = k /\ pool' = SubSeq(pool, 1, i - 1) \o SubSeq(pool, i + 1, Len(pool))
  /\ alive' = alive \ {k}
  /\ UNCHANGED <<store, index, metaCache, table, avail, rrIdx, pc, localVars, failures>>

-----------------------------------------------------------------------------
(* refresh_kdn_knowledge_index, and select_kdn_base_url after its last     *)
(* request; both list the alive KDNs of the pool.  The refresh is started  *)
(* by the loop, by a registration or by the admin endpoint.                *)

(* The index kept when no KDN is left. *)
RefreshNothingKeepsIndex ==
  /\ pc = "idle" /\ alive = {}
  /\ UNCHANGED vars

RefreshNothing ==
  /\ pc = "idle" /\ alive = {}
  /\ index' = NoIndex
  /\ UNCHANGED <<worldVars, metaCache, table, avail, rrIdx, pc, localVars, failures>>

BeginRefresh ==
  /\ pc = "idle" /\ alive # {}
  /\ toVisit' = alive
  /\ newIndex' = NoIndex
  /\ pc' = "index"
  /\ UNCHANGED <<worldVars, index, metaCache, table, avail, rrIdx, chosen, servers, need, removed, failures>>

(* The KV's version taken for the flag. *)
LevelIsVersion(v) == v

(* What the index says of a block: absent, its text only, or its KV too.   *)
Level(v) == IF v > 2 THEN 2 ELSE v

Visited(k) == [j \in DOMAIN newIndex \cup {k} |->
                 IF j = k THEN [x \in Kid |-> Level(store[k][x])] ELSE newIndex[j]]

(* The end of a refresh: its locals are gone.                              *)
End ==
  /\ pc' = "idle"
  /\ toVisit' = {} /\ newIndex' = NoIndex
  /\ chosen' = NoKdn /\ servers' = {} /\ need' = {} /\ removed' = {}

Select ==
  /\ \E i \in DOMAIN pool :
       /\ pool[i] \in alive
       /\ Cardinality({j \in 1 .. i - 1 : pool[j] \in alive}) = rrIdx % Cardinality(alive)
       /\ chosen' = pool[i]
  /\ rrIdx' = (rrIdx + 1) % RRPeriod
  /\ servers' = alive
  /\ pc' = "meta"
  /\ toVisit' = {} /\ newIndex' = NoIndex
  /\ UNCHANGED <<need, removed>>

(* The answers come one after the other; the order of the KDNs is left open. *)
VisitKdn(k) ==
  /\ pc = "index" /\ k \in toVisit /\ toVisit # {k}
  /\ toVisit' = toVisit \ {k}
  /\ newIndex' = Visited(k)
  /\ UNCHANGED <<worldVars, index, metaCache, table, avail, rrIdx, pc, chosen, servers, need, removed, failures>>

VisitLastKdn(k) ==
  /\ pc = "index" /\ toVisit = {k}
  /\ index' = Visited(k)
  /\ IF alive = {} THEN End /\ UNCHANGED rrIdx ELSE Select
  /\ UNCHANGED <<worldVars, metaCache, table, avail, failures>>

-----------------------------------------------------------------------------
(* diff_kdn_meta: the blocks added or updated, and the removed ones.       *)

(* The signatures not compared. *)
ChangedIfNew == {x \in Kid : store[chosen][x] # 0 /\ metaCache[x] = 0}

(* The added blocks not fetched. *)
ChangedIfKnown == {x \in Kid : metaCache[x] # 0 /\ metaCache[x] # store[chosen][x]}

Changed == {x \in Kid : store[chosen][x] # 0 /\ metaCache[x] # store[chosen][x]}
Gone    == {x \in Kid : store[chosen][x] = 0 /\ metaCache[x] # 0}

(* The new table, once the fetched blocks are upserted and the removed ones *)
(* deleted.                                                                *)
Swap(got, lost) ==
  /\ table' = [x \in Kid |-> IF x \in lost THEN 0 ELSE IF x \in got THEN store[chosen][x] ELSE table[x]]
  /\ avail' = [x \in Kid |-> IF x \in lost THEN {} ELSE IF x \in got THEN servers ELSE avail[x]]

FetchMeta ==
  /\ pc = "meta"
  /\ metaCache' = store[chosen]
  /\ IF Changed = {}
     THEN Swap({}, Gone) /\ End
     ELSE /\ need' = Changed /\ removed' = Gone
          /\ pc' = "items"
          /\ UNCHANGED <<table, avail, toVisit, newIndex, chosen, servers>>
  /\ UNCHANGED <<worldVars, index, rrIdx, failures>>

(* A block that was deleted meanwhile is just not in the answer.           *)
FetchItems ==
  /\ pc = "items"
  /\ Swap({x \in need : store[chosen][x] # 0}, removed)
  /\ End
  /\ UNCHANGED <<worldVars, index, metaCache, rrIdx, failures>>

(* A request fails, or the answer cannot be used: the exception leaves     *)
(* kdn_refresh_once.                                                       *)
RefreshFails ==
  /\ pc # "idle" /\ failures < MaxFailures
  /\ failures' = failures + 1
  /\ End
  /\ UNCHANGED <<worldVars, index, metaCache, table, avail, rrIdx>>

-----------------------------------------------------------------------------
KdnNext == \E k \in Kdn :
  \/ \E x \in Kid : RegisterText(k, x) \/ BuildKv(k, x) \/ Delete(k, x)
  \/ Register(k) \/ Heartbeat(k) \/ Expire(k) \/ Unregister(k)

RefreshNext ==
  \/ RefreshNothing \/ BeginRefresh \/ FetchMeta \/ FetchItems
  \/ \E k \in Kdn : VisitKdn(k) \/ VisitLastKdn(k)

Next == KdnNext \/ RefreshNext \/ RefreshFails

Spec == Init /\ [][Next]_vars

(* The loop refreshes every 30 s, and every request has a timeout.         *)
FairSpec == Spec /\ WF_vars(RefreshNext)
-----------------------------------------------------------------------------
(* Every variable stays in its type. *)
Version == 0 .. MaxVersion
TypeOK ==
  /\ store \in [Kdn -> [Kid -> Version]]
  /\ pool \in Seq(Kdn) /\ alive \subseteq Range(pool)
  /\ \A i, j \in DOMAIN pool : pool[i] = pool[j] => i = j
  /\ DOMAIN index \subseteq Kdn /\ \A k \in DOMAIN index : index[k] \in [Kid -> 0 .. 2]
  /\ metaCache \in [Kid -> Version] /\ table \in [Kid -> Version]
  /\ avail \in [Kid -> SUBSET Kdn]
  /\ rrIdx \in 0 .. RRPeriod - 1
  /\ pc \in {"idle", "index", "meta", "items"}
  /\ toVisit \subseteq Kdn /\ (pc = "index" <=> toVisit # {})
  /\ DOMAIN newIndex \subseteq Kdn /\ \A k \in DOMAIN newIndex : newIndex[k] \in [Kid -> 0 .. 2]
  /\ chosen \in Kdn \cup {NoKdn} /\ servers \subseteq Kdn
  /\ need \subseteq Kid /\ removed \subseteq Kid
  /\ failures \in 0 .. MaxFailures

(* A refresh that succeeds leaves in the table exactly the blocks of the   *)
(* snapshot it worked from.                                                *)
Known(units) == {x \in Kid : units[x] # 0}
Succeeds == pc \in {"meta", "items"} /\ pc' = "idle" /\ failures' = failures
RefreshMirrors == [][Succeeds => Known(table') = Known(metaCache')]_vars

(* The hypothesis of the convergence properties: from some time on no KDN  *)
(* changes its blocks and the pool stays as it is.                         *)
Settles == <>[][FALSE]_worldVars

(* The per-KDN index, on which the choice of a KDN rests, comes to say     *)
(* what the alive KDNs hold, and nothing of the others.                    *)
IndexNow == [k \in alive |-> [x \in Kid |-> Level(store[k][x])]]
IndexConverges == Settles => <>[](index = IndexNow)

(* The table comes to hold what the alive KDN holds.  (One KDN only: with   *)
(* several, an item can be newer than the snapshot before it, and when its  *)
(* KDN leaves, the others' older block has the remembered signature.)      *)
TableConverges == Settles => <>[](\A k \in alive : table = store[k])

(* A block that an alive KDN holds comes into the table, and stays: "allow *)
(* up to 30 seconds for the new item to appear" (README).                  *)
NewItemsAppear ==
  Settles => <>[](\A k \in alive : Known(store[k]) \subseteq Known(table))
=============================================================================
