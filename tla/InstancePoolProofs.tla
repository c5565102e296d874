------------------------- MODULE InstancePoolProofs -------------------------
(***************************************************************************)
(* Proofs about InstancePool, for any Instances, requests, capabilities    *)
(* and bounds: the types, and that the load counts the Proxy keeps are     *)
(* right.                                                                  *)
(***************************************************************************)
EXTENDS InstancePool, FiniteSetTheorems, TLAPS

(* The parts of TypeOK: the pool, the Instance processes, the requests.    *)
PoolTyped ==
  /\ member \subseteq Instance /\ alive \subseteq member
  /\ cap \in [Instance -> Capability \cup {NoCapability}]
  /\ inflight \in [Instance -> Nat]
  /\ \A i \in Instance : IF i \in member THEN cap[i] # NoCapability
                         ELSE cap[i] = NoCapability /\ inflight[i] = 0

ProcessTyped ==
  /\ pc \in [Instance -> {"down", "registering", "idle", "full"}]
  /\ local \in [Instance -> Capability \cup {NoCapability}]
  /\ \A i \in Instance : pc[i] # "down" => local[i] \in Capability
  /\ registered \in [Instance -> BOOLEAN]
  /\ starts \in Nat /\ stops \in Nat

NetTyped == BagToSet(late) \subseteq Call /\ failures \in Nat

RequestTyped ==
  /\ rpc \in [Request -> {"new", "selected", "open", "done"}]
  /\ target \in [Request -> Instance \cup {NoInstance}]
  /\ \A r \in Request : rpc[r] \in {"selected", "open"} => target[r] \in Instance
  /\ proxyRestarts \in Nat

(* They are TypeOK.                                                        *)
LEMMA TypeOKParts == TypeOK <=> PoolTyped /\ ProcessTyped /\ NetTyped /\ RequestTyped
BY DEF TypeOK, PoolTyped, ProcessTyped, NetTyped, RequestTyped

(* What the assumption on the constants says.                              *)
LEMMA NoCapabilityIsNone == NoCapability \notin Capability
BY InstancePoolAssumption DEF InstancePoolAssumption

-----------------------------------------------------------------------------
(* The calls on their way.                                                 *)

(* A call added to the bag is in it, beside those that were.               *)
LEMMA BagAddElements ==
  ASSUME NEW B, NEW x
  PROVE  BagToSet(BagAdd(B, x)) = BagToSet(B) \cup {x}
BY DEF BagToSet, BagAdd

(* Nothing comes into the bag when a call is taken out.                    *)
LEMMA BagRemoveElements ==
  ASSUME NEW B, NEW x
  PROVE  BagToSet(BagRemove(B, x)) \subseteq BagToSet(B)
BY DEF BagToSet, BagRemove

(* A call that fails adds at most itself to those on their way.            *)
LEMMA FailsAdds ==
  ASSUME NEW kind, NEW i, Fails(kind, i)
  PROVE  BagToSet(late') \subseteq BagToSet(late) \cup {[kind |-> kind, id |-> i, cap |-> local[i]]}
BY BagAddElements DEF Fails

(* A call of a known kind by a process that runs keeps the bag typed.      *)
LEMMA FailsTyped ==
  ASSUME NetTyped, ProcessTyped, NEW i \in Instance, pc[i] # "down",
         NEW kind \in {"register", "heartbeat", "full", "snapshot", "unregister"},
         Fails(kind, i)
  PROVE  NetTyped'
<1>1. [kind |-> kind, id |-> i, cap |-> local[i]] \in Call
  BY DEF Call, ProcessTyped
<1>2. failures' \in Nat
  BY DEF Fails, NetTyped
<1> QED
  BY <1>1, <1>2, FailsAdds DEF NetTyped

-----------------------------------------------------------------------------
(* The calls as the Proxy handles them.                                    *)

(* They keep the pool typed.                                               *)
LEMMA CallTyped ==
  ASSUME PoolTyped, NEW i \in Instance, NEW c \in Capability,
         Upsert(i, c) \/ Beat(i, c) \/ BeatFull(i, c) \/ Snapshot(i) \/ Remove(i)
  PROVE  PoolTyped'
<1>1. CASE Upsert(i, c)
  BY <1>1, NoCapabilityIsNone DEF Upsert, PoolTyped
<1>2. CASE Beat(i, c)
  BY <1>2 DEF Beat, PoolTyped
<1>3. CASE BeatFull(i, c)
  BY <1>3, NoCapabilityIsNone DEF BeatFull, PoolTyped
<1>4. CASE Snapshot(i)
  BY <1>4 DEF Snapshot, PoolTyped
<1>5. CASE Remove(i)
  BY <1>5 DEF Remove, PoolTyped
<1> QED
  BY <1>1, <1>2, <1>3, <1>4, <1>5

(* Every call that is delivered is one of them, for the Instance and with  *)
(* the capabilities it names.                                              *)
LEMMA DeliverIsCall ==
  ASSUME NetTyped, NEW m \in BagToSet(late), Deliver(m)
  PROVE  /\ m.id \in Instance /\ m.cap \in Capability
         /\ \/ Upsert(m.id, m.cap) \/ Beat(m.id, m.cap) \/ BeatFull(m.id, m.cap) \/ Snapshot(m.id)
            \/ m.kind = "unregister" /\ Remove(m.id)
<1>1. m \in Call
  BY DEF NetTyped
<1> QED
  BY <1>1 DEF Call, Deliver, Handle

-----------------------------------------------------------------------------
(* Type correctness.                                                       *)

(* The initial state has the types.                                        *)
LEMMA TypeOKInit == Init => TypeOK
<1> SUFFICES ASSUME Init PROVE TypeOK
  OBVIOUS
<1>1. PoolTyped
  BY DEF Init, PoolTyped
<1>2. ProcessTyped
  BY DEF Init, ProcessTyped
<1>3. NetTyped
  BY DEF Init, NetTyped, EmptyBag, BagToSet, SetToBag
<1>4. RequestTyped
  BY DEF Init, RequestTyped
<1> QED
  BY <1>1, <1>2, <1>3, <1>4, TypeOKParts

(* A step keeps the types of the pool.                                     *)
LEMMA PoolTypedNext ==
  ASSUME TypeOK, [Next]_vars
  PROVE  PoolTyped'
<1> USE TypeOKParts
<1>1. ASSUME NEW i \in Instance,
             RegisterOk(i) \/ HeartbeatOk(i) \/ FullHeartbeatOk(i) \/ ReportOk(i)
      PROVE  PoolTyped'
  <2>1. pc[i] # "down"
    BY <1>1 DEF RegisterOk, HeartbeatOk, FullHeartbeatOk, ReportOk, Running
  <2>2. local[i] \in Capability
    BY <2>1 DEF ProcessTyped
  <2>3. Upsert(i, local[i]) \/ Beat(i, local[i]) \/ BeatFull(i, local[i]) \/ Snapshot(i)
    BY <1>1 DEF RegisterOk, HeartbeatOk, FullHeartbeatOk, ReportOk
  <2> QED
    BY <2>2, <2>3, CallTyped
<1>2. ASSUME NEW m \in BagToSet(late), Deliver(m)
      PROVE  PoolTyped'
  BY <1>2, DeliverIsCall, CallTyped
<1>3. ASSUME NEW i \in Instance, Expire(i)
      PROVE  PoolTyped'
  BY <1>3 DEF Expire, PoolTyped
<1>4. CASE ProxyRestart
  BY <1>4 DEF ProxyRestart, PoolTyped
<1>5. ASSUME NEW r \in Request, Begin(r) \/ End(r)
      PROVE  PoolTyped'
  <2>1. target[r] \in Instance
    BY <1>5 DEF Begin, End, RequestTyped
  <2>2. UNCHANGED <<member, alive, cap>> /\ inflight' \in [Instance -> Nat]
    BY <1>5 DEF Begin, End, Decremented, PoolTyped
  <2>3. \A i \in Instance : i \notin member => inflight'[i] = inflight[i]
    BY <1>5, <2>1 DEF Begin, End, PoolTyped
  <2> QED
    BY <2>2, <2>3 DEF PoolTyped
<1>6. ASSUME UNCHANGED poolVars
      PROVE  PoolTyped'
  BY <1>6 DEF poolVars, PoolTyped
<1>7. ASSUME NEW i \in Instance,
             \/ Start(i) \/ RegisterFails(i) \/ HeartbeatFails(i) \/ FullHeartbeatFails(i)
             \/ ReportFails(i) \/ Crash(i)
      PROVE  PoolTyped'
  BY <1>6, <1>7 DEF Start, RegisterFails, HeartbeatFails, FullHeartbeatFails, ReportFails, Crash
<1>8. ASSUME NEW r \in Request, Select(r)
      PROVE  PoolTyped'
  BY <1>6, <1>8 DEF Select
<1>9. CASE UNCHANGED vars
  BY <1>6, <1>9 DEF vars
<1>10. ASSUME NEW i \in Instance, Stop(i)
       PROVE  PoolTyped'
  <2>1. Remove(i) \/ UNCHANGED poolVars
    BY <1>10 DEF Stop
  <2>2. local[i] \in Capability
    BY <1>10 DEF Stop, Running, ProcessTyped
  <2> QED
    BY <1>6, <2>1, <2>2, CallTyped
<1>11. CASE InstanceNext
  <2>1. PICK i \in Instance :
           \/ Start(i) \/ RegisterOk(i) \/ RegisterFails(i)
           \/ HeartbeatOk(i) \/ HeartbeatFails(i) \/ FullHeartbeatOk(i) \/ FullHeartbeatFails(i)
           \/ ReportOk(i) \/ ReportFails(i) \/ Stop(i) \/ Crash(i)
    BY <1>11 DEF InstanceNext
  <2> QED
    BY <2>1, <1>1, <1>7, <1>10
<1>12. CASE ProxyNext
  BY <1>2, <1>3, <1>4, <1>5, <1>8, <1>12 DEF ProxyNext
<1> QED
  BY <1>9, <1>11, <1>12 DEF Next

(* A step keeps the types of the processes: the Proxy's steps leave them.  *)
LEMMA ProcessTypedNext ==
  ASSUME TypeOK, [Next]_vars
  PROVE  ProcessTyped'
<1> USE TypeOKParts
<1>1. ASSUME UNCHANGED instanceVars
      PROVE  ProcessTyped'
  BY <1>1 DEF instanceVars, ProcessTyped
<1>2. ASSUME NEW i \in Instance, Start(i)
      PROVE  ProcessTyped'
  BY <1>2 DEF Start, ProcessTyped
<1>3. ASSUME NEW i \in Instance, RegisterOk(i) \/ RegisterFails(i)
      PROVE  ProcessTyped'
  BY <1>3 DEF RegisterOk, RegisterFails, ProcessTyped
<1>4. ASSUME NEW i \in Instance, HeartbeatOk(i) \/ FullHeartbeatOk(i) \/ FullHeartbeatFails(i)
      PROVE  ProcessTyped'
  BY <1>4 DEF HeartbeatOk, FullHeartbeatOk, FullHeartbeatFails, ProcessTyped
<1>5. ASSUME NEW i \in Instance, Stop(i) \/ Crash(i)
      PROVE  ProcessTyped'
  BY <1>5 DEF Stop, Crash, ProcessTyped
<1>6. ASSUME NEW i \in Instance, HeartbeatFails(i) \/ ReportOk(i) \/ ReportFails(i)
      PROVE  ProcessTyped'
  BY <1>1, <1>6 DEF HeartbeatFails, ReportOk, ReportFails
<1>7. ProxyNext \/ UNCHANGED vars => UNCHANGED instanceVars
  BY DEF ProxyNext, ProxyRestart, Expire, Deliver, Select, Begin, End, vars
<1>8. CASE InstanceNext
  <2>1. PICK i \in Instance :
           \/ Start(i) \/ RegisterOk(i) \/ RegisterFails(i)
           \/ HeartbeatOk(i) \/ HeartbeatFails(i) \/ FullHeartbeatOk(i) \/ FullHeartbeatFails(i)
           \/ ReportOk(i) \/ ReportFails(i) \/ Stop(i) \/ Crash(i)
    BY <1>8 DEF InstanceNext
  <2> QED
    BY <2>1, <1>2, <1>3, <1>4, <1>5, <1>6
<1> QED
  BY <1>1, <1>7, <1>8 DEF Next

(* Which steps touch the calls on their way, and how.                      *)
LEMMA NetSteps ==
  ASSUME [Next]_vars
  PROVE  \/ UNCHANGED netVars
         \/ \E m \in BagToSet(late) : Deliver(m)
         \/ \E i \in Instance : pc[i] # "down" /\
              \/ \E kind \in {"register", "heartbeat", "full", "snapshot"} : Fails(kind, i)
              \/ Stop(i) /\ Fails("unregister", i)
<1>1. ASSUME NEW i \in Instance, RegisterFails(i) \/ HeartbeatFails(i) \/ FullHeartbeatFails(i) \/ ReportFails(i)
      PROVE  pc[i] # "down" /\ \E kind \in {"register", "heartbeat", "full", "snapshot"} : Fails(kind, i)
  BY <1>1 DEF RegisterFails, HeartbeatFails, FullHeartbeatFails, ReportFails, Running
<1>2. ASSUME NEW i \in Instance, Stop(i)
      PROVE  UNCHANGED netVars \/ (pc[i] # "down" /\ Stop(i) /\ Fails("unregister", i))
  BY <1>2 DEF Stop, Running
<1>3. ASSUME NEW i \in Instance,
             Start(i) \/ RegisterOk(i) \/ HeartbeatOk(i) \/ FullHeartbeatOk(i) \/ ReportOk(i) \/ Crash(i)
      PROVE  UNCHANGED netVars
  BY <1>3 DEF Start, RegisterOk, HeartbeatOk, FullHeartbeatOk, ReportOk, Crash
<1>4. CASE InstanceNext
  <2>1. PICK i \in Instance :
           \/ Start(i) \/ RegisterOk(i) \/ RegisterFails(i)
           \/ HeartbeatOk(i) \/ HeartbeatFails(i) \/ FullHeartbeatOk(i) \/ FullHeartbeatFails(i)
           \/ ReportOk(i) \/ ReportFails(i) \/ Stop(i) \/ Crash(i)
    BY <1>4 DEF InstanceNext
  <2> QED
    BY <2>1, <1>1, <1>2, <1>3
<1>5. CASE ProxyNext
  BY <1>5 DEF ProxyNext, ProxyRestart, Expire, Select, Begin, End
<1> QED
  BY <1>4, <1>5 DEF Next, vars

(* A step keeps the calls on their way typed.                              *)
LEMMA NetTypedNext ==
  ASSUME TypeOK, [Next]_vars
  PROVE  NetTyped'
<1> USE TypeOKParts
<1>1. CASE UNCHANGED netVars
  BY <1>1 DEF netVars, NetTyped
<1>2. ASSUME NEW m \in BagToSet(late), Deliver(m)
      PROVE  NetTyped'
  BY <1>2, BagRemoveElements DEF Deliver, NetTyped
<1>3. ASSUME NEW i \in Instance, pc[i] # "down",
             NEW kind \in {"register", "heartbeat", "full", "snapshot", "unregister"}, Fails(kind, i)
      PROVE  NetTyped'
  BY <1>3, FailsTyped
<1> QED
  BY <1>1, <1>2, <1>3, NetSteps

(* A step keeps the types of the requests: only the Proxy touches them.    *)
LEMMA RequestTypedNext ==
  ASSUME TypeOK, [Next]_vars
  PROVE  RequestTyped'
<1> USE TypeOKParts
<1>1. ASSUME NEW r \in Request, Select(r)
      PROVE  RequestTyped'
  <2>1. alive \subseteq Instance
    BY DEF PoolTyped
  <2> QED
    BY <1>1, <2>1 DEF Select, RequestTyped
<1>2. ASSUME NEW r \in Request, Begin(r) \/ End(r)
      PROVE  RequestTyped'
  BY <1>2 DEF Begin, End, RequestTyped
<1>3. CASE ProxyRestart
  BY <1>3 DEF ProxyRestart, RequestTyped
<1>4. ASSUME UNCHANGED <<requestVars, proxyRestarts>>
      PROVE  RequestTyped'
  BY <1>4 DEF requestVars, RequestTyped
<1>5. InstanceNext \/ UNCHANGED vars => UNCHANGED <<requestVars, proxyRestarts>>
  BY DEF InstanceNext, Start, RegisterOk, RegisterFails, HeartbeatOk, HeartbeatFails, FullHeartbeatOk,
         FullHeartbeatFails, ReportOk, ReportFails, Stop, Crash, vars
<1>6. ASSUME NEW i \in Instance, Expire(i)
      PROVE  UNCHANGED <<requestVars, proxyRestarts>>
  BY <1>6 DEF Expire
<1>7. ASSUME NEW m \in BagToSet(late), Deliver(m)
      PROVE  UNCHANGED <<requestVars, proxyRestarts>>
  BY <1>7 DEF Deliver
<1>8. CASE ProxyNext
  BY <1>1, <1>2, <1>3, <1>4, <1>6, <1>7, <1>8 DEF ProxyNext
<1> QED
  BY <1>4, <1>5, <1>8 DEF Next

(* The types are inductive.                                                *)
LEMMA TypeOKNext ==
  ASSUME TypeOK, [Next]_vars
  PROVE  TypeOK'
BY PoolTypedNext, ProcessTypedNext, NetTypedNext, RequestTypedNext, TypeOKParts
   DEF TypeOK, PoolTyped, ProcessTyped, NetTyped, RequestTyped

-----------------------------------------------------------------------------
(* The counts.                                                             *)

(* As long as no Instance has stopped, no call on its way unregisters one: *)
(* what a count is worth depends on the calls that can still arrive.       *)
NoLateUnregister == stops = 0 => \A m \in BagToSet(late) : m.kind # "unregister"

IInv == TypeOK /\ NoLateUnregister /\ NotOverstated /\ ExactCount

(* The requests held are finitely many.                                    *)
LEMMA HeldFinite ==
  ASSUME NEW i
  PROVE  /\ IsFiniteSet(Held(i)) /\ Cardinality(Held(i)) \in Nat
         /\ Cardinality(Held(i)) = 0 <=> Held(i) = {}
<1>1. Held(i) \in SUBSET Request
  BY DEF Held
<1>2. IsFiniteSet(Held(i))
  BY <1>1, FS_Subset, InstancePoolAssumption DEF InstancePoolAssumption
<1> QED
  BY <1>2, FS_CardinalityType, FS_EmptySet

(* A step that leaves the counts and the requests alone: a call but an     *)
(* unregistration, the end of a TTL.                                       *)
Quiet == UNCHANGED <<inflight, rpc, target>>

(* Such a step keeps the counts right.                                     *)
LEMMA QuietKeepsCounts ==
  ASSUME IInv, Quiet, stops' = 0 => stops = 0
  PROVE  NotOverstated' /\ ExactCount'
BY DEF IInv, Quiet, NotOverstated, ExactCount, Held

(* No step undoes a stop.                                                  *)
LEMMA StopsGrow ==
  ASSUME TypeOK, [Next]_vars
  PROVE  stops' = 0 => stops = 0 /\ ~ \E i \in Instance : Stop(i)
<1>1. ASSUME NEW i \in Instance, Stop(i)
      PROVE  stops' # 0
  BY <1>1 DEF Stop, TypeOK
<1>2. (\E i \in Instance : Stop(i)) \/ UNCHANGED stops
  BY DEF Next, InstanceNext, Start, RegisterOk, RegisterFails, HeartbeatOk, HeartbeatFails, FullHeartbeatOk,
         FullHeartbeatFails, ReportOk, ReportFails, Crash, ProxyNext, ProxyRestart, Expire, Deliver,
         Select, Begin, End, vars, instanceVars
<1> QED
  BY <1>1, <1>2

(* Only a stop sends an unregistration on its way.                         *)
LEMMA NoLateUnregisterNext ==
  ASSUME TypeOK, NoLateUnregister, [Next]_vars
  PROVE  NoLateUnregister'
<1> SUFFICES ASSUME stops' = 0 PROVE \A m \in BagToSet(late') : m.kind # "unregister"
  BY DEF NoLateUnregister, BagToSet
<1>1. \A m \in BagToSet(late) : m.kind # "unregister"
  BY StopsGrow DEF NoLateUnregister
<1>2. CASE UNCHANGED netVars
  BY <1>1, <1>2 DEF netVars
<1>3. ASSUME NEW m \in BagToSet(late), Deliver(m)
      PROVE  \A n \in BagToSet(late') : n.kind # "unregister"
  BY <1>1, <1>3, BagRemoveElements DEF Deliver
<1>4. ASSUME NEW i \in Instance, NEW kind \in {"register", "heartbeat", "full", "snapshot"}, Fails(kind, i)
      PROVE  \A n \in BagToSet(late') : n.kind # "unregister"
  BY <1>1, <1>4, FailsAdds
<1> QED
  BY <1>2, <1>3, <1>4, NetSteps, StopsGrow

(* An entry that is removed takes its count along.  It may leave requests  *)
(* behind, so the count of the next entry can only be too small.           *)
LEMMA RemovalKeepsCounts ==
  ASSUME IInv, NEW i \in Instance, Remove(i), UNCHANGED requestVars, stops' # 0
  PROVE  NotOverstated' /\ ExactCount'
<1>1. \A j \in Instance : inflight'[j] <= inflight[j]
  BY DEF Remove, IInv, TypeOK
<1>2. \A j \in Instance : Held(j)' = Held(j)
  BY DEF requestVars, Held
<1>3. \A j \in Instance : inflight'[j] \in Nat /\ inflight[j] \in Nat
  BY DEF Remove, IInv, TypeOK
<1> QED
  BY <1>1, <1>2, <1>3, HeldFinite DEF IInv, NotOverstated, ExactCount

(* A new Proxy counts nothing, and holds nothing.                          *)
LEMMA RestartKeepsCounts ==
  ASSUME TypeOK, ProxyRestart
  PROVE  NotOverstated' /\ ExactCount'
<1>1. \A i \in Instance : Held(i)' = {}
  BY DEF ProxyRestart, Held
<1>2. \A i \in Instance : inflight'[i] = 0
  BY DEF ProxyRestart
<1> QED
  BY <1>1, <1>2, FS_EmptySet DEF NotOverstated, ExactCount

(* A request that begins is counted once, unless its entry is gone.        *)
LEMMA BeginKeepsCounts ==
  ASSUME IInv, NEW r \in Request, Begin(r)
  PROVE  NotOverstated' /\ ExactCount'
<1> DEFINE i == target[r]
<1>1. i \in Instance /\ r \notin Held(i) /\ UNCHANGED <<target, stops>>
  BY DEF Begin, IInv, TypeOK, Held, instanceVars
<1>2. CASE i \notin member
  <2>1. inflight' = inflight /\ \A j \in Instance : Held(j)' = Held(j)
    BY <1>1, <1>2 DEF Begin, Held, IInv, TypeOK
  <2> QED
    BY <1>1, <2>1 DEF IInv, NotOverstated, ExactCount
<1>3. CASE i \in member
  <2>1. inflight'[i] = inflight[i] + 1 /\ inflight[i] \in Nat
    BY <1>1, <1>3 DEF Begin, IInv, TypeOK
  <2>2. Held(i)' = Held(i) \cup {r}
    BY <1>1, <1>3 DEF Begin, Held, IInv, TypeOK
  <2>3. Cardinality(Held(i)') = Cardinality(Held(i)) + 1
    BY <1>1, <2>2, HeldFinite, FS_AddElement
  <2>4. \A j \in Instance \ {i} : inflight'[j] = inflight[j] /\ Held(j)' = Held(j)
    BY <1>1, <1>3 DEF Begin, Held, IInv, TypeOK
  <2> QED
    BY <1>1, <2>1, <2>3, <2>4, HeldFinite DEF IInv, NotOverstated, ExactCount
<1> QED
  BY <1>2, <1>3

(* A request that ends is counted off: it was held, so where the count is  *)
(* exact it is not 0, and where it is too small it stays at 0.             *)
LEMMA EndKeepsCounts ==
  ASSUME IInv, NEW r \in Request, End(r)
  PROVE  NotOverstated' /\ ExactCount'
<1> DEFINE i == target[r]
<1>1. i \in Instance /\ r \in Held(i) /\ UNCHANGED <<target, stops>>
  BY DEF End, IInv, TypeOK, Held, instanceVars
<1>2. Held(i)' = Held(i) \ {r}
  BY <1>1 DEF End, Held, IInv, TypeOK
<1>3. Cardinality(Held(i)') = Cardinality(Held(i)) - 1 /\ Cardinality(Held(i)) \in Nat \ {0}
  BY <1>1, <1>2, HeldFinite, FS_RemoveElement
<1>4. \A j \in Instance \ {i} : inflight'[j] = inflight[j] /\ Held(j)' = Held(j)
  BY <1>1 DEF End, Held, IInv, TypeOK
<1>5. inflight[i] \in Nat /\ inflight'[i] = IF inflight[i] > 0 THEN inflight[i] - 1 ELSE 0
  BY <1>1 DEF End, Decremented, IInv, TypeOK
<1> QED
  BY <1>1, <1>3, <1>4, <1>5, HeldFinite DEF IInv, NotOverstated, ExactCount

(* A step keeps the counts right.                                          *)
LEMMA CountsNext ==
  ASSUME IInv, [Next]_vars
  PROVE  NotOverstated' /\ ExactCount'
<1>1. TypeOK /\ (stops' = 0 => stops = 0 /\ ~ \E i \in Instance : Stop(i))
  BY StopsGrow DEF IInv
<1>2. CASE Quiet
  BY <1>1, <1>2, QuietKeepsCounts
<1>3. ASSUME NEW i \in Instance, Stop(i)
      PROVE  NotOverstated' /\ ExactCount'
  <2>1. UNCHANGED requestVars /\ (Remove(i) \/ UNCHANGED poolVars)
    BY <1>3 DEF Stop
  <2>2. UNCHANGED poolVars => Quiet
    BY <2>1 DEF poolVars, requestVars, Quiet
  <2> QED
    BY <1>1, <1>2, <1>3, <2>1, <2>2, RemovalKeepsCounts
<1>4. ASSUME NEW m \in BagToSet(late), Deliver(m)
      PROVE  NotOverstated' /\ ExactCount'
  <2>1. UNCHANGED <<requestVars, stops>>
    BY <1>4 DEF Deliver, instanceVars
  <2>2. CASE m.kind = "unregister" /\ Remove(m.id)
    <3>1. stops' # 0
      BY <2>1, <2>2 DEF IInv, NoLateUnregister
    <3>2. m.id \in Instance
      BY <1>1, <1>4, TypeOKParts, DeliverIsCall
    <3> QED
      BY <2>1, <2>2, <3>1, <3>2, RemovalKeepsCounts
  <2>3. CASE Upsert(m.id, m.cap) \/ Beat(m.id, m.cap) \/ BeatFull(m.id, m.cap) \/ Snapshot(m.id)
    BY <1>2, <2>1, <2>3 DEF Upsert, Beat, BeatFull, Snapshot, requestVars, Quiet
  <2> QED
    BY <1>1, <1>4, <2>2, <2>3, TypeOKParts, DeliverIsCall
<1>5. ASSUME InstanceNext, ~ \E j \in Instance : Stop(j)
      PROVE  NotOverstated' /\ ExactCount'
  BY <1>2, <1>5 DEF InstanceNext, Start, RegisterOk, RegisterFails, HeartbeatOk, HeartbeatFails, FullHeartbeatOk,
     FullHeartbeatFails, ReportOk, ReportFails, Crash, Upsert, Beat, BeatFull, Snapshot, poolVars, requestVars, Quiet
<1>6. ASSUME NEW i \in Instance, Expire(i)
      PROVE  NotOverstated' /\ ExactCount'
  BY <1>2, <1>6 DEF Expire, requestVars, Quiet
<1>7. ASSUME NEW r \in Request, Select(r)
      PROVE  NotOverstated' /\ ExactCount'
  <2>1. \A j \in Instance : Held(j)' = Held(j)
    BY <1>7 DEF Select, Held, IInv, TypeOK
  <2>2. UNCHANGED <<inflight, stops>>
    BY <1>7 DEF Select, poolVars, instanceVars
  <2> QED
    BY <2>1, <2>2 DEF IInv, NotOverstated, ExactCount
<1>8. CASE InstanceNext
  BY <1>3, <1>5, <1>8 DEF InstanceNext
<1>9. CASE ProxyNext
  BY <1>1, <1>4, <1>6, <1>7, <1>9, RestartKeepsCounts, BeginKeepsCounts, EndKeepsCounts DEF ProxyNext
<1>10. CASE UNCHANGED vars
  BY <1>2, <1>10 DEF vars, poolVars, requestVars, Quiet
<1> QED
  BY <1>8, <1>9, <1>10 DEF Next

-----------------------------------------------------------------------------
(* The inductive invariant holds in the initial state.                     *)
LEMMA IInvInit == Init => IInv
<1> SUFFICES ASSUME Init PROVE IInv
  OBVIOUS
<1>1. NoLateUnregister
  BY DEF Init, NoLateUnregister, EmptyBag, BagToSet, SetToBag
<1>2. \A i \in Instance : Held(i) = {} /\ inflight[i] = 0
  BY DEF Init, Held
<1>3. NotOverstated /\ ExactCount
  BY <1>2, FS_EmptySet DEF NotOverstated, ExactCount
<1> QED
  BY <1>1, <1>3, TypeOKInit DEF IInv

(* The inductive invariant: the types, which calls can be late, and the    *)
(* counts.                                                                 *)
THEOREM IInvInvariant == Spec => []IInv
<1>1. IInv /\ [Next]_vars => IInv'
  BY TypeOKNext, NoLateUnregisterNext, CountsNext DEF IInv
<1> QED
  BY IInvInit, <1>1, PTL DEF Spec

(* The pool, the processes, the calls and the requests keep their types    *)
(* (InstancePool, lifespan and the handlers), for any number of them.      *)
THEOREM TypeCorrect == Spec => []TypeOK
<1>1. IInv => TypeOK
  BY DEF IInv
<1> QED
  BY IInvInvariant, <1>1, PTL

(* begin_request and end_request never count more on an Instance than the  *)
(* requests it has, however processes crash, stop and come back under an   *)
(* id, whichever calls come late, and whenever the Proxy restarts.         *)
THEOREM NotOverstatedHolds == Spec => []NotOverstated
<1>1. IInv => NotOverstated
  BY DEF IInv
<1> QED
  BY IInvInvariant, <1>1, PTL

(* Where no Instance unregisters they count exactly that number.           *)
THEOREM ExactCountHolds == Spec => []ExactCount
<1>1. IInv => ExactCount
  BY DEF IInv
<1> QED
  BY IInvInvariant, <1>1, PTL

(* Both together, as the runs check them.                                  *)
THEOREM CountsAreTrueHolds == Spec => []CountsAreTrue
<1>1. IInv => CountsAreTrue
  BY DEF IInv, CountsAreTrue
<1> QED
  BY IInvInvariant, <1>1, PTL
=============================================================================
