----------------------------- MODULE KdnChoice -----------------------------
(***************************************************************************)
(* The first half of the cacheroute strategy: the KDN of a request         *)
(* (scheduler/strategy/cacheroute.py, _select_kdn).  It looks at what the  *)
(* index of the last refresh says every live KDN holds of the blocks the   *)
(* request needs, and at the KDNs' load.  The load of a KDN is one number  *)
(* here (the code compares qps, then items).                               *)
(***************************************************************************)
EXTENDS Integers, Sequences, FiniteSets, FiniteSetsExt

CONSTANTS
  Kdn, Kid,
  Rank,        \* the order of the kdn_ids
  LengthOf,    \* the length of every block
  MaxLoad,     \* the loads are 0 .. MaxLoad
  LoadTh       \* the overload threshold (0: none, the default)

ConstantsAssumption ==
  /\ IsFiniteSet(Kdn) /\ Kdn # {} /\ IsFiniteSet(Kid)
  /\ Rank \in [Kdn -> Nat] /\ \A k, l \in Kdn : Rank[k] = Rank[l] => k = l
  /\ LengthOf \in [Kid -> Nat] /\ MaxLoad \in Nat /\ LoadTh \in Nat

VARIABLES
  view,    \* what is known of every live KDN
  wanted,  \* knowledge_list of the request
  chosen   \* the KDNs chosen: none yet, or one

vars == <<view, wanted, chosen>>

View == [overloaded : BOOLEAN, load : 0 .. MaxLoad, holds : [Kid -> {"nothing", "text", "kv"}]]

Init == view \in [Kdn -> View] /\ wanted \in SUBSET Kid /\ chosen = {}

-----------------------------------------------------------------------------
(* meta.overloaded, or a threshold that is set and reached. *)
Overloaded(k) == view[k].overloaded \/ (LoadTh > 0 /\ view[k].load >= LoadTh)

Missing(k) == {x \in wanted : view[k].holds[x] = "nothing"}
TextFull(k) == Missing(k) = {}

KvCover(k) == 
  MapThenSumSet(LAMBDA x : LengthOf[x], {x \in wanted : view[k].holds[x] = "kv"})

Flag(b) == IF b THEN 1 ELSE 0

(* The keys the candidates are sorted by, of increasing detail. *)
LightKey(k)  == <<Flag(Overloaded(k)), view[k].load, Rank[k]>>
UsableKey(k) == <<-KvCover(k), view[k].load, Rank[k]>>

(* The coverage looked at before the overload. *)
CoverFirstKey(k) ==
  <<Flag(~ TextFull(k)), -KvCover(k), Flag(Overloaded(k)), Cardinality(Missing(k)),
    view[k].load, Rank[k]>>

RankedKey(k) ==
  <<Flag(~ TextFull(k)), Flag(Overloaded(k)), -KvCover(k), Cardinality(Missing(k)),
    view[k].load, Rank[k]>>

Precedes(s, t) == \E i \in DOMAIN s : s[i] < t[i] /\ \A j \in 1 .. i - 1 : s[j] = t[j]

First(S, Key(_)) == CHOOSE k \in S : \A l \in S \ {k} : Precedes(Key(k), Key(l))

(* Every KDN with the whole text is usable. *)
UsableIfFull == {k \in Kdn : TextFull(k)}

Usable == {k \in Kdn : TextFull(k) /\ ~ Overloaded(k)}

SelectKdn ==
  /\ chosen = {}
  /\ chosen' = {IF wanted = {} THEN First(Kdn, LightKey)
                ELSE IF Usable # {} THEN First(Usable, UsableKey)
                ELSE First(Kdn, RankedKey)}
  /\ UNCHANGED <<view, wanted>>

(* The next request, with what the KDNs report by then. *)
NextRequest == chosen # {} /\ chosen' = {} /\ UNCHANGED <<view, wanted>>

Next == SelectKdn \/ NextRequest

Spec == Init /\ [][Next]_vars

-----------------------------------------------------------------------------
(* The choice keeps the order of preference the strategy's docstring       *)
(* promises (cacheroute.py:22): another KDN has the whole text only if the *)
(* chosen one has it, is not overloaded besides only if the chosen one is  *)
(* not, and covers more with its caches only if it is worse in one of the  *)
(* two.  Choosing from the usable KDNs first, in two different orders,     *)
(* does not change that.                                                   *)
PrefersAsPromised ==
  wanted # {} =>
    \A c \in chosen : \A k \in Kdn :
      /\ TextFull(k) => TextFull(c)
      /\ TextFull(k) /\ ~ Overloaded(k) => ~ Overloaded(c)
      /\ KvCover(k) > KvCover(c) =>
           (TextFull(c) /\ ~ TextFull(k)) \/ (~ Overloaded(c) /\ Overloaded(k))
=============================================================================
