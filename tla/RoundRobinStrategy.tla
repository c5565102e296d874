------------------------- MODULE RoundRobinStrategy -------------------------
(***************************************************************************)
(* The Scheduler's default strategy (scheduler/strategy/round_robin.py).   *)
(* It turns over the lists of live KDNs and live Proxies with a cursor for *)
(* each.  The lists are the pools', ordered by the latest heartbeat, so    *)
(* they change under the cursors.                                          *)
(***************************************************************************)
EXTENDS Integers, Sequences, FiniteSets, SequencesExt

CONSTANTS
  Kdn, Proxy,
  CursorPeriod  \* the cursors are kept modulo this, a multiple of every list's length

ConstantsAssumption ==
  /\ IsFiniteSet(Kdn) /\ IsFiniteSet(Proxy) /\ CursorPeriod \in Nat \ {0}
  /\ \A s \in {Kdn, Proxy} : \A n \in 1 .. Cardinality(s) : CursorPeriod % n = 0

VARIABLES
  kdns, proxies,            \* the lists of this moment
  kdnCursor, proxyCursor,   \* _kdn_cursor, _proxy_cursor
  kdnTurns, proxyTurns      \* auxiliary: the choices since the list last changed,
                            \* above those of the one chosen least

vars == <<kdns, proxies, kdnCursor, proxyCursor, kdnTurns, proxyTurns>>

(* Every order of some of the entries. *)
Lists(S) == UNION {SetToSeqs(T) : T \in SUBSET S}

NoTurns(list) == [x \in ToSet(list) |-> 0]

Init ==
  /\ kdns = <<>> /\ proxies = <<>>
  /\ kdnCursor = 0 /\ proxyCursor = 0
  /\ kdnTurns = NoTurns(<<>>) /\ proxyTurns = NoTurns(<<>>)

KdnListChanges ==
  /\ kdns' \in Lists(Kdn) \ {kdns} /\ kdnTurns' = NoTurns(kdns')
  /\ UNCHANGED <<proxies, kdnCursor, proxyCursor, proxyTurns>>

ProxyListChanges ==
  /\ proxies' \in Lists(Proxy) \ {proxies} /\ proxyTurns' = NoTurns(proxies')
  /\ UNCHANGED <<kdns, kdnCursor, proxyCursor, kdnTurns>>

At(list, cursor) == list[(cursor % Len(list)) + 1]

(* The cursor advanced by the lists' common length. *)
AdvanceByList(list, cursor) == (cursor + Len(list)) % CursorPeriod

(* A list without entries leaves its cursor where it is. *)
Advance(list, cursor) == IF list = <<>> THEN cursor ELSE (cursor + 1) % CursorPeriod

Counted(list, cursor, turns) ==
  IF list = <<>> THEN turns
  ELSE LET t == [turns EXCEPT ![At(list, cursor)] = @ + 1]
       IN  IF \A x \in DOMAIN t : t[x] > 0 THEN [x \in DOMAIN t |-> t[x] - 1] ELSE t

(* One cursor for both lists. *)
SelectSharingCursor ==
  LET next == Advance(kdns, kdnCursor) IN
  /\ kdnTurns' = Counted(kdns, kdnCursor, kdnTurns)
  /\ proxyTurns' = Counted(proxies, next, proxyTurns)
  /\ kdnCursor' = Advance(proxies, next)
  /\ UNCHANGED <<kdns, proxies, proxyCursor>>

(* select, under its lock: whatever becomes of the request afterwards, the *)
(* cursors have moved.                                                     *)
Select ==
  /\ kdnCursor' = Advance(kdns, kdnCursor) /\ proxyCursor' = Advance(proxies, proxyCursor)
  /\ kdnTurns' = Counted(kdns, kdnCursor, kdnTurns)
  /\ proxyTurns' = Counted(proxies, proxyCursor, proxyTurns)
  /\ UNCHANGED <<kdns, proxies>>

Next == KdnListChanges \/ ProxyListChanges \/ Select

Spec == Init /\ [][Next]_vars

-----------------------------------------------------------------------------
(* As long as a list keeps its order, its entries are chosen in turn: no   *)
(* one gets ahead of another by more than one request, wherever the cursor *)
(* stood when the order came about (RoundRobinStrategy.select: "perform    *)
(* modulo rotation over the current live proxy list").                     *)
RotatesWhileStable ==
  /\ \A k \in DOMAIN kdnTurns : kdnTurns[k] <= 1
  /\ \A p \in DOMAIN proxyTurns : proxyTurns[p] <= 1
=============================================================================
