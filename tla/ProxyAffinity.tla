---------------------------- MODULE ProxyAffinity ----------------------------
(***************************************************************************)
(* The second half of the cacheroute strategy: the Proxy of a request      *)
(* (scheduler/strategy/cacheroute.py, _select_proxy).  It keeps the Proxies*)
(* with a link to the chosen KDN (all, if none has one), of these those    *)
(* whose load is within a window above the least, of these those with the  *)
(* most history of the wanted blocks, of these those with the best link    *)
(* and the least load, and turns over what is left.  The history decays    *)
(* with every selection and grows for the one selected.                    *)
(* The capacities are equal, so the load ratio is the inflight count over  *)
(* Capacity; no Proxy of this repository reports a qps or a GPU            *)
(* utilisation, so both are 0 throughout.                                  *)
(***************************************************************************)
EXTENDS Integers, Sequences, FiniteSets, FiniteSetsExt

CONSTANTS
  Proxy, Kid,
  Rank,          \* the order of the proxy_ids
  MaxLink,       \* link qualities 0 (no link) .. MaxLink
  Window,        \* the safety window, in requests: load_ratio_delta * Capacity
  Unit,          \* what a selection adds to a score (1.0 in the code)
  Num, Den,      \* the decay Num / Den (0.9 in the code)
  TopK,          \* the entries kept of a Proxy's history (256 in the code)
  CursorPeriod,  \* the cursor is kept modulo this
  MaxInflight    \* bound: requests at one Proxy

ConstantsAssumption ==
  /\ IsFiniteSet(Proxy) /\ IsFiniteSet(Kid)
  /\ Rank \in [Proxy -> Nat] /\ \A p, q \in Proxy : Rank[p] = Rank[q] => p = q
  /\ MaxLink \in Nat /\ Window \in Nat /\ Unit \in Nat \ {0} /\ TopK \in Nat \ {0}
  /\ Num \in Nat /\ Den \in Nat \ {0} /\ Num < Den
  /\ CursorPeriod \in Nat \ {0} /\ \A n \in 1 .. Cardinality(Proxy) : CursorPeriod % n = 0
  /\ MaxInflight \in Nat

VARIABLES
  listed,    \* the live Proxies
  link,      \* the quality of every Proxy's link to the chosen KDN
  inflight,  \* their counts
  score,     \* _proxy_kid_affinity (0: no entry)
  cursor,    \* _proxy_cursor
  stayed     \* auxiliary: the Proxies that were listed at every selection

vars == <<listed, link, inflight, score, cursor, stayed>>

Init ==
  /\ listed = Proxy /\ link \in [Proxy -> 0 .. MaxLink]
  /\ inflight = [p \in Proxy |-> 0]
  /\ score = [p \in Proxy |-> [x \in Kid |-> 0]]
  /\ cursor = 0 /\ stayed = Proxy

-----------------------------------------------------------------------------
(* _select_proxy for a request that wants the blocks K.                    *)

Connectable == IF \E p \in listed : link[p] > 0 THEN {p \in listed : link[p] > 0} ELSE listed

Least(S, f) == Min({f[p] : p \in S})

(* Every connected Proxy is safe. *)
SafeAll == Connectable

Safe == {p \in Connectable : inflight[p] <= Least(Connectable, inflight) + Window}

(* _affinity_score, with blocks of one length. *)
Affinity(p, K) == MapThenSumSet(LAMBDA x : score[p][x], K)

Favoured(K) ==
  LET safe == Safe
      affinity == [p \in safe |-> Affinity(p, K)]
  IN  {p \in safe : \A q \in safe : affinity[q] <= affinity[p]}

NoWorse(p, q) == link[p] > link[q] \/ (link[p] = link[q] /\ inflight[p] <= inflight[q])

Tied(K) == LET best == Favoured(K) IN {p \in best : \A q \in best : NoWorse(p, q)}

InOrder(S) == CHOOSE s \in [1 .. Cardinality(S) -> S] :
                \A i, j \in DOMAIN s : i < j => Rank[s[i]] < Rank[s[j]]

(* Only the history of the one that was selected decays. *)
DecayedSelected(p, q) == [x \in Kid |-> IF p = q THEN (score[q][x] * Num) \div Den ELSE score[q][x]]

(* Below 1e-6 an entry is dropped; here the scores are whole numbers. *)
Decayed(p, q) == [x \in Kid |-> IF q \in listed THEN (score[q][x] * Num) \div Den ELSE score[q][x]]

Raised(h, K) == [x \in Kid |-> IF x \in K THEN h[x] + Unit ELSE h[x]]

(* The TopK entries of the highest scores (any of those that are equal).   *)
Kept(h) ==
  LET held == {x \in Kid : h[x] > 0} IN
  IF Cardinality(held) <= TopK THEN {h}
  ELSE {[x \in Kid |-> IF x \in T THEN h[x] ELSE 0] :
          T \in {T \in kSubset(TopK, held) : \A x \in T, y \in held \ T : h[x] >= h[y]}}

Select(K) ==
  /\ listed # {}
  /\ LET tied == Tied(K)
         p == InOrder(tied)[(cursor % Cardinality(tied)) + 1]
     IN  /\ inflight[p] < MaxInflight
         /\ inflight' = [inflight EXCEPT ![p] = @ + 1]       \* counted by the handler
         /\ \E h \in Kept(Raised(Decayed(p, p), K)) :
              score' = [q \in Proxy |-> IF q = p THEN h ELSE Decayed(p, q)]
         /\ cursor' = IF Cardinality(tied) > 1 THEN (cursor + 1) % CursorPeriod ELSE cursor
  /\ stayed' = stayed \cap listed
  /\ UNCHANGED <<listed, link>>

(* A request ends. *)
Finish(p) ==
  /\ inflight[p] > 0 /\ inflight' = [inflight EXCEPT ![p] = @ - 1]
  /\ UNCHANGED <<listed, link, score, cursor, stayed>>

(* A Proxy's heartbeats stop, or are heard again.  Its history stays.      *)
ListChanges(p) ==
  /\ listed' = IF p \in listed THEN listed \ {p} ELSE listed \cup {p}
  /\ UNCHANGED <<link, inflight, score, cursor, stayed>>

Next ==
  \/ \E K \in SUBSET Kid : Select(K)
  \/ \E p \in Proxy : Finish(p) \/ ListChanges(p)

Spec == Init /\ [][Next]_vars

-----------------------------------------------------------------------------
(* Properties.                                                             *)

(* However long the Scheduler runs, the history of a block, over all the   *)
(* Proxies that never left the list, weighs no more than an endless run of *)
(* requests for it would give one of them: Unit / (1 - Num/Den).  What is  *)
(* won at one Proxy is lost at the others (_select_proxy, affinity update).*)
(* A Proxy that leaves the list keeps its scores undecayed.                *)
HistoryIsShared ==
  \A x \in Kid :
    MapThenSumSet(LAMBDA p : score[p][x], stayed) * (Den - Num) <= Unit * Den

(* No history makes the strategy choose a Proxy without a link to the KDN  *)
(* while another has one, nor one whose load exceeds that of another with  *)
(* a link by more than the window (the docstring's order, cacheroute.py:27)*)
ChoosesByLoad(p) ==
  inflight'[p] > inflight[p] =>
    \A q \in listed :
      /\ link[q] > 0 => link[p] > 0
      /\ (link[p] = 0 \/ link[q] > 0) => inflight[p] <= inflight[q] + Window
LoadBeforeHistory == [][\A p \in Proxy : ChoosesByLoad(p)]_vars
=============================================================================
