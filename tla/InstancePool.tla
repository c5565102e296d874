---------------------------- MODULE InstancePool ----------------------------
(***************************************************************************)
(* The pool of Instances a Proxy keeps (proxy/resource/instance_pool.py,   *)
(* behind proxy/resource/p_control_plane.py), the life of an Instance that *)
(* registers there and sends heartbeats (instance/instance_api.py), and    *)
(* the requests the Proxy counts against an entry (proxy/proxy.py).        *)
(*                                                                         *)
(* A call to the control plane is one action when its answer comes back.   *)
(* A call that fails for its caller (a timeout, a lost answer, a caller    *)
(* that crashed) was never received or is still on its way: then it is in  *)
(* `late', and the Proxy handles it at any later time.                     *)
(***************************************************************************)
EXTENDS Integers, FiniteSets, BagsExt, Bags

CONSTANTS
  Instance,         \* the ids of the Instances
  NoInstance,       \* "no Instance"
  Request,          \* the requests the Proxy is given
  Capability,       \* the capability objects; a fingerprint is the hash of one
  NoCapability,     \* "no capabilities"
  MaxStarts,        \* bound: the starts of Instance processes
  MaxStops,         \* bound: the graceful stops among their ends
  MaxFailures,      \* bound: the calls that fail for their caller
  MaxProxyRestarts  \* bound: the restarts of the Proxy

ASSUME InstancePoolAssumption ==
  /\ NoInstance \notin Instance /\ NoCapability \notin Capability
  /\ IsFiniteSet(Request)
  /\ {MaxStarts, MaxStops, MaxFailures, MaxProxyRestarts} \subseteq Nat

VARIABLES
  member,         \* the ids in InstancePool._items
  alive,          \* those whose last_seen_at is not older than the TTL
  cap,            \* capabilities (and so capability_fingerprint) of an entry
  inflight,       \* load.inflight of an entry, 0 without one
  pc,             \* where the Instance process is
  local,          \* its capabilities
  registered,     \* its registration was answered: its resource reporter runs
  late,           \* the bag of the calls on their way whose caller has given up
  rpc,            \* where the Proxy's handler of a request is
  target,         \* the Instance chosen for it
  starts, stops, failures, proxyRestarts

poolVars     == <<member, alive, cap, inflight>>
instanceVars == <<pc, local, registered, starts, stops>>
netVars      == <<late, failures>>
requestVars  == <<rpc, target>>
vars == <<poolVars, instanceVars, netVars, requestVars, proxyRestarts>>

Call == [kind : {"register", "heartbeat", "full", "snapshot", "unregister"},
         id : Instance, cap : Capability]

Init ==
  /\ member = {} /\ alive = {}
  /\ cap = [i \in Instance |-> NoCapability] /\ inflight = [i \in Instance |-> 0]
  /\ pc = [i \in Instance |-> "down"] /\ local = [i \in Instance |-> NoCapability]
  /\ registered = [i \in Instance |-> FALSE]
  /\ late = EmptyBag
  /\ rpc = [r \in Request |-> "new"] /\ target = [r \in Request |-> NoInstance]
  /\ starts = 0 /\ stops = 0 /\ failures = 0 /\ proxyRestarts = 0

-----------------------------------------------------------------------------
(* What the Proxy does with a call.                                        *)

(* The entry of a new process made as if there were none. *)
UpsertAnew(i, c) ==
  /\ member' = member \cup {i} /\ alive' = alive \cup {i}
  /\ cap' = [cap EXCEPT ![i] = c]
  /\ inflight' = [inflight EXCEPT ![i] = 0]

(* An entry that is there keeps its count. *)
Upsert(i, c) ==
  /\ member' = member \cup {i} /\ alive' = alive \cup {i}
  /\ cap' = [cap EXCEPT ![i] = c]
  /\ UNCHANGED inflight

Mismatch(i, c) == i \in member /\ cap[i] # c

(* A heartbeat with a fingerprint refreshes an entry that has it. *)
Beat(i, c) ==
  /\ alive' = IF i \in member /\ cap[i] = c THEN alive \cup {i} ELSE alive
  /\ UNCHANGED <<member, cap, inflight>>

(* The full heartbeat that only refreshes. *)
BeatFullKeepsCapability(i, c) ==
  /\ alive' = IF i \in member THEN alive \cup {i} ELSE alive
  /\ UNCHANGED <<member, cap, inflight>>

(* A heartbeat with the whole object. *)
BeatFull(i, c) ==
  /\ alive' = IF i \in member THEN alive \cup {i} ELSE alive
  /\ cap' = IF i \in member THEN [cap EXCEPT ![i] = c] ELSE cap
  /\ UNCHANGED <<member, inflight>>

(* A resource snapshot refreshes whatever entry has the id. *)
Snapshot(i) ==
  /\ alive' = IF i \in member THEN alive \cup {i} ELSE alive
  /\ UNCHANGED <<member, cap, inflight>>

Remove(i) ==
  /\ member' = member \ {i} /\ alive' = alive \ {i}
  /\ cap' = [cap EXCEPT ![i] = NoCapability]
  /\ inflight' = [inflight EXCEPT ![i] = 0]

Handle(m) ==
  \/ m.kind = "register" /\ Upsert(m.id, m.cap)
  \/ m.kind = "heartbeat" /\ Beat(m.id, m.cap)
  \/ m.kind = "full" /\ BeatFull(m.id, m.cap)
  \/ m.kind = "snapshot" /\ Snapshot(m.id)
  \/ m.kind = "unregister" /\ Remove(m.id)

(* A call fails for its caller. *)
Fails(kind, i) ==
  /\ failures < MaxFailures
  /\ failures' = failures + 1
  /\ \/ UNCHANGED late
     \/ late' = BagAdd(late, [kind |-> kind, id |-> i, cap |-> local[i]])

-----------------------------------------------------------------------------
(* The Instance process (lifespan).                                        *)

Start(i) ==
  /\ pc[i] = "down" /\ starts < MaxStarts
  /\ pc' = [pc EXCEPT ![i] = "registering"]
  /\ \E c \in Capability : local' = [local EXCEPT ![i] = c]
  /\ registered' = [registered EXCEPT ![i] = FALSE]
  /\ starts' = starts + 1
  /\ UNCHANGED <<poolVars, stops, netVars, requestVars, proxyRestarts>>

RegisterOk(i) ==
  /\ pc[i] = "registering"
  /\ Upsert(i, local[i])
  /\ pc' = [pc EXCEPT ![i] = "idle"]
  /\ registered' = [registered EXCEPT ![i] = TRUE]
  /\ UNCHANGED <<local, starts, stops, netVars, requestVars, proxyRestarts>>

(* The Instance runs on without: it only sends heartbeats.                 *)
RegisterFails(i) ==
  /\ pc[i] = "registering"
  /\ Fails("register", i)
  /\ pc' = [pc EXCEPT ![i] = "idle"]
  /\ UNCHANGED <<poolVars, local, registered, starts, stops, requestVars, proxyRestarts>>

(* The answer of the heartbeat not looked at. *)
HeartbeatNeverFull(i) ==
  /\ pc[i] = "idle"
  /\ Beat(i, local[i])
  /\ UNCHANGED <<instanceVars, netVars, requestVars, proxyRestarts>>

(* The heartbeat loop: an answer that asks for the capabilities is         *)
(* followed by a heartbeat with all of them; one that the id is unknown is *)
(* not.                                                                    *)
HeartbeatOk(i) ==
  /\ pc[i] = "idle"
  /\ Beat(i, local[i])
  /\ pc' = IF Mismatch(i, local[i]) THEN [pc EXCEPT ![i] = "full"] ELSE pc
  /\ UNCHANGED <<local, registered, starts, stops, netVars, requestVars, proxyRestarts>>

HeartbeatFails(i) ==
  /\ pc[i] = "idle"
  /\ Fails("heartbeat", i)
  /\ UNCHANGED <<poolVars, instanceVars, requestVars, proxyRestarts>>

FullHeartbeatOk(i) ==
  /\ pc[i] = "full"
  /\ BeatFull(i, local[i])
  /\ pc' = [pc EXCEPT ![i] = "idle"]
  /\ UNCHANGED <<local, registered, starts, stops, netVars, requestVars, proxyRestarts>>

FullHeartbeatFails(i) ==
  /\ pc[i] = "full"
  /\ Fails("full", i)
  /\ pc' = [pc EXCEPT ![i] = "idle"]
  /\ UNCHANGED <<poolVars, local, registered, starts, stops, requestVars, proxyRestarts>>

Running(i) == pc[i] \in {"idle", "full"}

(* A reporter that does not end with its Instance. *)
ReportOkAlways(i) ==
  /\ registered[i]
  /\ Snapshot(i)
  /\ UNCHANGED <<instanceVars, netVars, requestVars, proxyRestarts>>

(* The resource reporter, a task beside the heartbeat loop.                *)
ReportOk(i) ==
  /\ Running(i) /\ registered[i]
  /\ Snapshot(i)
  /\ UNCHANGED <<instanceVars, netVars, requestVars, proxyRestarts>>

ReportFails(i) ==
  /\ Running(i) /\ registered[i]
  /\ Fails("snapshot", i)
  /\ UNCHANGED <<poolVars, instanceVars, requestVars, proxyRestarts>>

(* A graceful stop: the loops are cancelled, the Instance unregisters.     *)
Stop(i) ==
  /\ Running(i) /\ stops < MaxStops
  /\ \/ Remove(i) /\ UNCHANGED netVars
     \/ Fails("unregister", i) /\ UNCHANGED poolVars
  /\ pc' = [pc EXCEPT ![i] = "down"]
  /\ stops' = stops + 1
  /\ UNCHANGED <<local, registered, starts, requestVars, proxyRestarts>>

Crash(i) ==
  /\ pc[i] # "down"
  /\ pc' = [pc EXCEPT ![i] = "down"]
  /\ UNCHANGED <<poolVars, local, registered, starts, stops, netVars, requestVars, proxyRestarts>>

-----------------------------------------------------------------------------
(* The Proxy.                                                              *)

Deliver(m) ==
  /\ BagIn(m, late)
  /\ late' = BagRemove(late, m)
  /\ Handle(m)
  /\ UNCHANGED <<instanceVars, failures, requestVars, proxyRestarts>>

(* The TTL of an entry runs out. *)
Expire(i) ==
  /\ i \in alive
  /\ alive' = alive \ {i}
  /\ UNCHANGED <<member, cap, inflight, instanceVars, netVars, requestVars, proxyRestarts>>

(* A new Proxy process: an empty pool, and no handler.                     *)
ProxyRestart ==
  /\ proxyRestarts < MaxProxyRestarts
  /\ proxyRestarts' = proxyRestarts + 1
  /\ member' = {} /\ alive' = {}
  /\ cap' = [i \in Instance |-> NoCapability] /\ inflight' = [i \in Instance |-> 0]
  /\ rpc' = [r \in Request |-> IF rpc[r] = "new" THEN "new" ELSE "done"]
  /\ UNCHANGED <<target, instanceVars, netVars>>

(* select_instance, whichever of the alive ones the strategy takes.        *)
Select(r) ==
  /\ rpc[r] = "new"
  /\ \/ alive = {} /\ rpc' = [rpc EXCEPT ![r] = "done"] /\ UNCHANGED target
     \/ /\ \E i \in alive : target' = [target EXCEPT ![r] = i]
        /\ rpc' = [rpc EXCEPT ![r] = "selected"]
  /\ UNCHANGED <<poolVars, instanceVars, netVars, proxyRestarts>>

(* begin_request, after the cost estimate of the iws injection strategy.   *)
Begin(r) ==
  /\ rpc[r] = "selected"
  /\ IF target[r] \in member
     THEN /\ inflight' = [inflight EXCEPT ![target[r]] = @ + 1]
          /\ rpc' = [rpc EXCEPT ![r] = "open"]
     ELSE rpc' = [rpc EXCEPT ![r] = "done"] /\ UNCHANGED inflight
  /\ UNCHANGED <<member, alive, cap, target, instanceVars, netVars, proxyRestarts>>

(* The count not kept from going below 0. *)
DecrementedBelow(n) == n - 1

(* A count that another's end has already brought to 0 stays there. *)
Decremented(n) == IF n > 0 THEN n - 1 ELSE 0

(* The entry looked up among the alive ones only. *)
EndIfAlive(r) ==
  /\ rpc[r] = "open"
  /\ inflight' = IF target[r] \in alive
                 THEN [inflight EXCEPT ![target[r]] = Decremented(@)]
                 ELSE inflight
  /\ rpc' = [rpc EXCEPT ![r] = "done"]
  /\ UNCHANGED <<member, alive, cap, target, instanceVars, netVars, proxyRestarts>>

(* end_request, in the finally of both handlers: however a request ends,   *)
(* also when its client leaves.                                            *)
End(r) ==
  /\ rpc[r] = "open"
  /\ inflight' = IF target[r] \in member
                 THEN [inflight EXCEPT ![target[r]] = Decremented(@)]
                 ELSE inflight
  /\ rpc' = [rpc EXCEPT ![r] = "done"]
  /\ UNCHANGED <<member, alive, cap, target, instanceVars, netVars, proxyRestarts>>

-----------------------------------------------------------------------------
InstanceNext == \E i \in Instance :
  \/ Start(i) \/ RegisterOk(i) \/ RegisterFails(i)
  \/ HeartbeatOk(i) \/ HeartbeatFails(i) \/ FullHeartbeatOk(i) \/ FullHeartbeatFails(i)
  \/ ReportOk(i) \/ ReportFails(i) \/ Stop(i) \/ Crash(i)

ProxyNext ==
  \/ ProxyRestart
  \/ \E i \in Instance : Expire(i)
  \/ \E m \in BagToSet(late) : Deliver(m)
  \/ \E r \in Request : Select(r) \/ Begin(r) \/ End(r)

Next == InstanceNext \/ ProxyNext

Spec == Init /\ [][Next]_vars

(* The heartbeat loop goes on for as long as the process runs, and a TTL   *)
(* runs out unless it is refreshed.                                        *)
FairSpec ==
  /\ Spec
  /\ \A i \in Instance : WF_vars(HeartbeatOk(i)) /\ WF_vars(FullHeartbeatOk(i)) /\ WF_vars(Expire(i))
-----------------------------------------------------------------------------
(* Every variable stays in its type, and what is not in the pool has no    *)
(* TTL, no capabilities and no count.                                      *)
TypeOK ==
  /\ member \subseteq Instance /\ alive \subseteq member
  /\ cap \in [Instance -> Capability \cup {NoCapability}]
  /\ inflight \in [Instance -> Nat]
  /\ \A i \in Instance : IF i \in member THEN cap[i] # NoCapability
                         ELSE cap[i] = NoCapability /\ inflight[i] = 0
  /\ pc \in [Instance -> {"down", "registering", "idle", "full"}]
  /\ local \in [Instance -> Capability \cup {NoCapability}]
  /\ \A i \in Instance : pc[i] # "down" => local[i] \in Capability
  /\ registered \in [Instance -> BOOLEAN]
  /\ BagToSet(late) \subseteq Call
  /\ rpc \in [Request -> {"new", "selected", "open", "done"}]
  /\ target \in [Request -> Instance \cup {NoInstance}]
  /\ \A r \in Request : rpc[r] \in {"selected", "open"} => target[r] \in Instance
  /\ starts \in Nat /\ stops \in Nat /\ failures \in Nat /\ proxyRestarts \in Nat

(* The requests that were counted on an Instance and have not called       *)
(* end_request.                                                            *)
Held(i) == {r \in Request : rpc[r] = "open" /\ target[r] = i}

(* The count of an Instance is never more than the requests it has: an     *)
(* idle Instance never looks loaded to least_load, even when the ends of   *)
(* requests of an earlier entry are counted on a later one.                *)
NotOverstated == \A i \in Instance : inflight[i] <= Cardinality(Held(i))

(* As long as nobody unregisters it is exactly that number: a crash, a new *)
(* registration under the same id, late calls and Proxy restarts do not    *)
(* make it drift.                                                          *)
ExactCount == stops = 0 => \A i \in Instance : inflight[i] = Cardinality(Held(i))

(* The capabilities of an entry become those of the process that runs,     *)
(* although calls of an earlier one may come late.                         *)
CapabilityConverges ==
  \A i \in Instance : <>[](Running(i) /\ i \in member) => <>[](cap[i] = local[i])

(* An Instance that runs and stays in the pool is never left out for good: *)
(* an entry with other capabilities refuses its heartbeat, and the loop    *)
(* then sends them all.                                                    *)
MemberIsAlive ==
  \A i \in Instance : <>[](Running(i) /\ i \in member) => []<>(i \in alive)

(* An Instance that is gone is given no more requests from some time on.   *)
DeadIsForgotten == \A i \in Instance : <>[](pc[i] = "down") => <>[](i \notin alive)

(* An Instance that registered and runs is seen by the Proxy again and     *)
(* again: "Resolve a restarted Proxy or changed local capability contract" *)
(* (instance/instance_api.py, in the heartbeat loop).                      *)
RegisteredIsAlive ==
  \A i \in Instance : <>[](Running(i) /\ registered[i]) => []<>(i \in alive)

(* Both of the load count: never more than there is, and exact while       *)
(* nobody unregisters (InstancePool.begin_request, end_request).           *)
CountsAreTrue == NotOverstated /\ ExactCount

(* Who runs is seen and who is gone is not (InstancePool.list, heartbeat). *)
PoolFollowsInstances == MemberIsAlive /\ DeadIsForgotten
=============================================================================
