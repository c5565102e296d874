--------------------------- MODULE RoutingProofs ----------------------------
(***************************************************************************)
(* Proofs about the properties of the run of Routing, for all values of    *)
(* the constants: first the invariant of every module it composes, then    *)
(* what they say together.                                                 *)
(***************************************************************************)
EXTENDS Routing, Sequences, FiniteSetsExt, FiniteSetTheorems, SequenceTheorems,
        WellFoundedInduction, FiniteLemmas, TLAPS

-----------------------------------------------------------------------------
(* The service of the Scheduler (SchedulerService).                        *)

(* The open requests.                                                      *)
ServiceOpen(c) == ss_request[c] # SS!Idle

(* The id of a request and the ids handed out since add up to the current  *)
(* one, or to that of a round before.                                      *)
ServiceNumbered ==
  \A c \in ss_Client : ServiceOpen(c) /\ ss_age[c] < ss_MaxId =>
    ss_request[c].id + ss_age[c] \in {ss_current, ss_current + ss_MaxId}

(* No two open requests are of the same age, unless both are a round old.  *)
ServiceSpread ==
  \A c, d \in ss_Client : c # d /\ ServiceOpen(c) /\ ServiceOpen(d) /\ ss_age[c] = ss_age[d] => ss_age[c] = ss_MaxId

(* A count nobody will undo is that of a response that was never started.  *)
ServiceLostIsLeaked == \A p \in ss_Proxy : ss_lost[p] <= ss_leaks

(* The inductive invariant of the Scheduler's service.                     *)
ServiceIInv == SS!TypeOK /\ ServiceLostIsLeaked /\ ServiceNumbered /\ ServiceSpread /\ SS!NotOverstated /\ SS!ExactCount

(* The invariant holds at first.                                           *)
LEMMA ServiceInitIInv == ASSUME SS!ConstantsAssumption, SS!Init PROVE ServiceIInv
<1>1. SS!TypeOK
  BY DEF SS!ConstantsAssumption, SS!Init, SS!TypeOK, SS!Idle
<1>2. ServiceLostIsLeaked /\ ServiceNumbered /\ ServiceSpread /\ SS!NotOverstated /\ SS!ExactCount
  BY DEF SS!Init, ServiceLostIsLeaked, ServiceNumbered, ServiceSpread, ServiceOpen, SS!NotOverstated, SS!ExactCount
<1> QED
  BY <1>1, <1>2 DEF ServiceIInv

(* An id that is handed out is one of 1 .. MaxId.                          *)
LEMMA ServiceNextIdOK == ASSUME SS!ConstantsAssumption, SS!TypeOK PROVE SS!NextId \in 1 .. ss_MaxId
BY DEF SS!ConstantsAssumption, SS!TypeOK, SS!NextId

(* What Reset, Upsert and Remove do to a pool that is typed.               *)
LEMMA ServicePoolTyped ==
  ASSUME SS!ConstantsAssumption, SS!TypeOK, NEW p \in ss_Proxy, SS!Upsert(p) \/ SS!Remove(p)
  PROVE  /\ ss_pool' \subseteq ss_Proxy /\ ss_alive' \subseteq ss_pool' /\ ss_inflight' \in [ss_Proxy -> Nat]
         /\ ss_lost' \in [ss_Proxy -> 0 .. ss_MaxLeaks] /\ ss_renewed' \subseteq ss_Proxy
BY DEF SS!ConstantsAssumption, SS!TypeOK, SS!Upsert, SS!Remove, SS!Reset

(* The ages stay bounded when an id is taken.                              *)
LEMMA ServiceTakeIdOK ==
  ASSUME SS!ConstantsAssumption, SS!TypeOK, NEW c \in ss_Client, SS!TakeId(c)
  PROVE  ss_current' \in 0 .. ss_MaxId /\ ss_age' \in [ss_Client -> 0 .. ss_MaxId]
BY ServiceNextIdOK DEF SS!ConstantsAssumption, SS!TypeOK, SS!TakeId

(* A client with a request has a Proxy it was routed to.                   *)
LEMMA ServiceOpenTyped ==
  ASSUME SS!TypeOK, NEW c \in ss_Client, ss_request[c].at \in {"counted", "streaming", "dropped"}
  PROVE  /\ ss_request[c] \in [at : {"counted", "streaming", "dropped"}, proxy : ss_Proxy, id : 1 .. ss_MaxId]
         /\ ServiceOpen(c)
BY DEF SS!TypeOK, SS!Idle, ServiceOpen

(* Every step keeps the types and the bound on what is lost.               *)
LEMMA ServiceTypeStep ==
  ASSUME SS!ConstantsAssumption, SS!TypeOK, ServiceLostIsLeaked, [SS!Next]_SS!vars
  PROVE  SS!TypeOK' /\ ServiceLostIsLeaked'
<1> USE DEF SS!ConstantsAssumption
<1>1. ASSUME NEW p \in ss_Proxy, SS!Start(p)
      PROVE  SS!TypeOK' /\ ServiceLostIsLeaked'
  <2>1. CASE SS!Upsert(p)
    BY <1>1, <2>1, ServicePoolTyped DEF SS!Start, SS!TypeOK, ServiceLostIsLeaked, SS!requestVars, SS!Upsert, SS!Reset
  <2>2. CASE UNCHANGED SS!poolVars
    BY <1>1, <2>2 DEF SS!Start, SS!TypeOK, ServiceLostIsLeaked, SS!requestVars, SS!poolVars
  <2> QED
    BY <1>1, <2>1, <2>2 DEF SS!Start
<1>2. ASSUME NEW p \in ss_Proxy, SS!Heartbeat(p) \/ SS!Expire(p)
      PROVE  SS!TypeOK' /\ ServiceLostIsLeaked'
  BY <1>2 DEF SS!Heartbeat, SS!Beat, SS!Expire, SS!TypeOK, ServiceLostIsLeaked, SS!requestVars
<1>3. ASSUME NEW p \in ss_Proxy, SS!Stop(p)
      PROVE  SS!TypeOK' /\ ServiceLostIsLeaked'
  <2>1. CASE SS!Remove(p)
    BY <1>3, <2>1, ServicePoolTyped DEF SS!Stop, SS!TypeOK, ServiceLostIsLeaked, SS!requestVars, SS!Remove, SS!Reset
  <2>2. CASE UNCHANGED SS!poolVars
    BY <1>3, <2>2 DEF SS!Stop, SS!TypeOK, ServiceLostIsLeaked, SS!requestVars, SS!poolVars
  <2> QED
    BY <1>3, <2>1, <2>2 DEF SS!Stop
<1>4. ASSUME SS!SchedulerRestart
      PROVE  SS!TypeOK' /\ ServiceLostIsLeaked'
  BY <1>4 DEF SS!SchedulerRestart, SS!TypeOK, ServiceLostIsLeaked
<1>5. ASSUME NEW c \in ss_Client, SS!Refuse(c)
      PROVE  SS!TypeOK' /\ ServiceLostIsLeaked'
  BY <1>5, ServiceTakeIdOK DEF SS!Refuse, SS!TypeOK, ServiceLostIsLeaked, SS!poolVars
<1>6. ASSUME NEW c \in ss_Client, SS!Route(c)
      PROVE  SS!TypeOK' /\ ServiceLostIsLeaked'
  BY <1>6, ServiceTakeIdOK, ServiceNextIdOK DEF SS!Route, SS!TypeOK, ServiceLostIsLeaked
<1>7. ASSUME NEW c \in ss_Client, SS!StartStream(c) \/ SS!Disconnect(c)
      PROVE  SS!TypeOK' /\ ServiceLostIsLeaked'
  BY <1>7, ServiceOpenTyped DEF SS!StartStream, SS!Disconnect, SS!TypeOK, ServiceLostIsLeaked, SS!poolVars
<1>8. ASSUME NEW c \in ss_Client, SS!NeverStarted(c)
      PROVE  SS!TypeOK' /\ ServiceLostIsLeaked'
  <2>1. ss_request[c].proxy \in ss_Proxy
    BY <1>8, ServiceOpenTyped DEF SS!NeverStarted
  <2>2. \A p \in ss_Proxy : ss_lost'[p] \in Nat /\ ss_lost'[p] <= ss_lost[p] + 1
    BY <1>8, <2>1 DEF SS!NeverStarted, SS!TypeOK
  <2>3. ss_lost' \in [ss_Proxy -> 0 .. ss_MaxLeaks] /\ ss_leaks' = ss_leaks + 1 /\ ss_leaks < ss_MaxLeaks
    BY <1>8, <2>1, <2>2 DEF SS!NeverStarted, SS!TypeOK, ServiceLostIsLeaked
  <2> QED
    BY <1>8, <2>2, <2>3 DEF SS!NeverStarted, SS!TypeOK, ServiceLostIsLeaked
<1>9. ASSUME NEW c \in ss_Client, SS!End(c)
      PROVE  SS!TypeOK' /\ ServiceLostIsLeaked'
  <2>1. SS!Undone(ss_request[c].proxy) \in [ss_Proxy -> Nat]
    BY DEF SS!Undone, SS!TypeOK
  <2> QED
    BY <1>9, <2>1 DEF SS!End, SS!TypeOK, ServiceLostIsLeaked
<1>10. ASSUME UNCHANGED SS!vars
       PROVE  SS!TypeOK' /\ ServiceLostIsLeaked'
  BY <1>10 DEF SS!vars, SS!poolVars, SS!requestVars, SS!TypeOK, ServiceLostIsLeaked
<1> QED
  BY <1>1, <1>2, <1>3, <1>4, <1>5, <1>6, <1>7, <1>8, <1>9, <1>10 DEF SS!Next

(* A client that takes an id moves the others one id further.              *)
LEMMA ServiceTakeIdNumbers ==
  ASSUME SS!ConstantsAssumption, SS!TypeOK, ServiceNumbered, NEW c \in ss_Client, SS!TakeId(c),
         NEW d \in ss_Client, d # c, ServiceOpen(d), ss_age'[d] < ss_MaxId
  PROVE  ss_request[d].id + ss_age'[d] \in {ss_current', ss_current' + ss_MaxId}
<1>1. ss_age'[d] = ss_age[d] + 1 /\ ss_age[d] < ss_MaxId
  BY DEF SS!ConstantsAssumption, SS!TakeId, ServiceOpen, SS!TypeOK
<1>2. ss_request[d].id \in 1 .. ss_MaxId /\ ss_age[d] \in 0 .. ss_MaxId /\ ss_current \in 0 .. ss_MaxId
  BY DEF SS!TypeOK, ServiceOpen, SS!Idle
<1>3. ss_request[d].id + ss_age[d] \in {ss_current, ss_current + ss_MaxId}
  BY <1>1 DEF ServiceNumbered
<1>4. ss_MaxId \in Nat \ {0} /\ ss_current' = IF ss_current + 1 > ss_MaxId THEN 1 ELSE ss_current + 1
  BY DEF SS!ConstantsAssumption, SS!TakeId, SS!NextId
<1> QED
  BY <1>1, <1>2, <1>3, <1>4

(* A client that takes an id is the youngest; the others age by one, and   *)
(* stay apart but for those a round old.                                   *)
LEMMA ServiceTakeIdSpreads ==
  ASSUME SS!ConstantsAssumption, SS!TypeOK, ServiceSpread, NEW c \in ss_Client, SS!TakeId(c)
  PROVE  /\ ss_age'[c] = 0
         /\ \A d \in ss_Client \ {c} : ServiceOpen(d) => ss_age'[d] > 0
         /\ \A d, e \in ss_Client \ {c} :
              d # e /\ ServiceOpen(d) /\ ServiceOpen(e) /\ ss_age'[d] = ss_age'[e] => ss_age'[d] = ss_MaxId
<1>1. \A d \in ss_Client : ss_age[d] \in 0 .. ss_MaxId
  BY DEF SS!TypeOK
<1>2. ss_age'[c] = 0
  BY DEF SS!TakeId
<1>3. ASSUME NEW d \in ss_Client \ {c}, ServiceOpen(d)
      PROVE  ss_age'[d] = IF ss_age[d] = ss_MaxId THEN ss_MaxId ELSE ss_age[d] + 1
  BY <1>3 DEF SS!TakeId, ServiceOpen
<1>4. ss_MaxId \in Nat \ {0}
  BY DEF SS!ConstantsAssumption
<1>5. ASSUME NEW d \in ss_Client \ {c}, ServiceOpen(d)
      PROVE  ss_age'[d] > 0
  BY <1>1, <1>3, <1>4, <1>5
<1>6. ASSUME NEW d \in ss_Client \ {c}, NEW e \in ss_Client \ {c},
             d # e, ServiceOpen(d), ServiceOpen(e), ss_age'[d] = ss_age'[e]
      PROVE  ss_age'[d] = ss_MaxId
  BY <1>1, <1>3, <1>4, <1>6 DEF ServiceSpread
<1> QED
  BY <1>2, <1>5, <1>6

(* The other steps change no id and no age of a request that stays open.   *)
LEMMA ServiceIdsKept ==
  ASSUME ServiceNumbered, ServiceSpread, UNCHANGED <<ss_current, ss_age>>,
         \A c \in ss_Client : ServiceOpen(c)' => ServiceOpen(c) /\ ss_request'[c].id = ss_request[c].id
  PROVE  ServiceNumbered' /\ ServiceSpread'
BY DEF ServiceNumbered, ServiceSpread

(* Every step keeps the ids where they are in the round, and apart.        *)
LEMMA ServiceIdStep ==
  ASSUME SS!ConstantsAssumption, ServiceIInv, [SS!Next]_SS!vars
  PROVE  ServiceNumbered' /\ ServiceSpread'
<1> USE DEF ServiceIInv
<1>1. ASSUME NEW c \in ss_Client, SS!Refuse(c)
      PROVE  ServiceNumbered' /\ ServiceSpread'
  <2>1. SS!TakeId(c) /\ ss_request' = ss_request /\ ~ ServiceOpen(c)
    BY <1>1 DEF SS!Refuse, ServiceOpen
  <2>2. ServiceNumbered'
    BY <2>1, ServiceTakeIdNumbers DEF ServiceNumbered, ServiceOpen
  <2>3. ServiceSpread'
    BY <2>1, ServiceTakeIdSpreads DEF ServiceSpread, ServiceOpen
  <2> QED
    BY <2>2, <2>3
<1>2. ASSUME NEW c \in ss_Client, SS!Route(c)
      PROVE  ServiceNumbered' /\ ServiceSpread'
  <2>1. /\ SS!TakeId(c) /\ ss_current' = SS!NextId
        /\ \A d \in ss_Client \ {c} : ss_request'[d] = ss_request[d]
        /\ ss_request'[c].id = SS!NextId
    BY <1>2 DEF SS!Route, SS!TypeOK, SS!TakeId
  <2>2. ss_age'[c] = 0 /\ SS!NextId \in 1 .. ss_MaxId
    BY <2>1, ServiceTakeIdSpreads, ServiceNextIdOK
  <2>3. ServiceNumbered'
    BY <2>1, <2>2, ServiceTakeIdNumbers DEF ServiceNumbered, ServiceOpen
  <2>4. ASSUME NEW d \in ss_Client, NEW e \in ss_Client, d # e, ServiceOpen(d)', ServiceOpen(e)', ss_age'[d] = ss_age'[e]
        PROVE  ss_age'[d] = ss_MaxId
    BY <2>1, <2>2, <2>4, ServiceTakeIdSpreads DEF ServiceOpen
  <2>5. ServiceSpread'
    BY <2>4 DEF ServiceSpread
  <2> QED
    BY <2>3, <2>5
<1>3. ASSUME NEW c \in ss_Client, SS!StartStream(c) \/ SS!Disconnect(c)
      PROVE  ServiceNumbered' /\ ServiceSpread'
  <2>1. UNCHANGED <<ss_current, ss_age>>
    BY <1>3 DEF SS!StartStream, SS!Disconnect
  <2>2. \A d \in ss_Client : ServiceOpen(d)' => ServiceOpen(d) /\ ss_request'[d].id = ss_request[d].id
    BY <1>3, ServiceOpenTyped DEF SS!StartStream, SS!Disconnect, SS!TypeOK, ServiceOpen
  <2> QED
    BY <2>1, <2>2, ServiceIdsKept
<1>4. ASSUME NEW c \in ss_Client, SS!NeverStarted(c) \/ SS!End(c)
      PROVE  ServiceNumbered' /\ ServiceSpread'
  <2>1. UNCHANGED <<ss_current, ss_age>>
    BY <1>4 DEF SS!NeverStarted, SS!End
  <2>2. \A d \in ss_Client : ServiceOpen(d)' => ServiceOpen(d) /\ ss_request'[d].id = ss_request[d].id
    BY <1>4 DEF SS!NeverStarted, SS!End, SS!TypeOK, ServiceOpen
  <2> QED
    BY <2>1, <2>2, ServiceIdsKept
<1>5. ASSUME SS!SchedulerRestart
      PROVE  ServiceNumbered' /\ ServiceSpread'
  BY <1>5 DEF SS!SchedulerRestart, ServiceNumbered, ServiceSpread, ServiceOpen
<1>6. ASSUME UNCHANGED SS!requestVars
      PROVE  ServiceNumbered' /\ ServiceSpread'
  BY <1>6, ServiceIdsKept DEF SS!requestVars, ServiceOpen
<1>7. ASSUME NEW p \in ss_Proxy, SS!Start(p) \/ SS!Heartbeat(p) \/ SS!Stop(p) \/ SS!Expire(p)
      PROVE  UNCHANGED SS!requestVars
  BY <1>7 DEF SS!Start, SS!Heartbeat, SS!Stop, SS!Expire, SS!requestVars
<1> QED
  BY <1>1, <1>2, <1>3, <1>4, <1>5, <1>6, <1>7 DEF SS!Next, SS!vars

(* Sets are finite in SchedulerService if they are here, and as large.     *)
LEMMA ServiceSize ==
  /\ \A S : SS!Cardinality(S) = Cardinality(S)
  /\ \A S : SS!IsFiniteSet(S) <=> IsFiniteSet(S)
BY DEF SS!Cardinality, Cardinality, SS!IsFiniteSet, IsFiniteSet

(* NotOverstated and ExactCount of one Proxy.                              *)
ServiceRight(p) ==
  /\ ss_inflight[p] <= Cardinality(SS!OpenOf(p)) + ss_lost[p]
  /\ p \notin ss_renewed => ss_inflight[p] = Cardinality(SS!OpenOf(p)) + ss_lost[p]

(* A right count of every Proxy is what both statements say together.      *)
LEMMA ServiceRightIsBoth == (\A p \in ss_pool : ServiceRight(p)) <=> SS!NotOverstated /\ SS!ExactCount
BY ServiceSize DEF ServiceRight, SS!NotOverstated, SS!ExactCount

(* The open requests of a Proxy are finitely many.                         *)
LEMMA ServiceOpenOfFinite ==
  ASSUME SS!ConstantsAssumption, NEW p
  PROVE  /\ IsFiniteSet(SS!OpenOf(p)) /\ Cardinality(SS!OpenOf(p)) \in Nat
         /\ SS!OpenOf(p) = {} => Cardinality(SS!OpenOf(p)) = 0
<1>1. SS!OpenOf(p) \subseteq ss_Client /\ IsFiniteSet(ss_Client)
  BY ServiceSize DEF SS!OpenOf, SS!ConstantsAssumption
<1>2. IsFiniteSet(SS!OpenOf(p))
  BY <1>1, FS_Subset
<1> QED
  BY <1>2, FS_CardinalityType, FS_EmptySet

(* A new entry, and what is left of a removed one, is right.               *)
LEMMA ServiceResetRight ==
  ASSUME SS!ConstantsAssumption, SS!TypeOK, NEW p \in ss_Proxy, SS!Reset(p), UNCHANGED ss_request,
         NEW q \in ss_Proxy, q = p \/ ServiceRight(q)
  PROVE  ServiceRight(q)'
<1>1. SS!OpenOf(q)' = SS!OpenOf(q) /\ Cardinality(SS!OpenOf(q)) \in Nat
      /\ (SS!OpenOf(q) = {} => Cardinality(SS!OpenOf(q)) = 0)
  BY ServiceOpenOfFinite DEF SS!OpenOf
<1>2. CASE q = p
  <2>1. ss_inflight'[q] = 0 /\ ss_lost'[q] = 0 /\ (q \notin ss_renewed' => SS!OpenOf(q) = {})
    BY <1>2 DEF SS!Reset, SS!TypeOK
  <2> QED
    BY <1>1, <2>1 DEF ServiceRight
<1>3. CASE q # p
  <2>1. ss_inflight'[q] = ss_inflight[q] /\ ss_lost'[q] = ss_lost[q] /\ (q \in ss_renewed' <=> q \in ss_renewed)
    BY <1>3 DEF SS!Reset, SS!TypeOK
  <2> QED
    BY <1>1, <1>3, <2>1 DEF ServiceRight
<1> QED
  BY <1>2, <1>3

(* A request that comes adds one to its Proxy's, one that goes takes one.  *)
LEMMA ServiceOpenOfGrows ==
  ASSUME SS!ConstantsAssumption, SS!TypeOK, NEW c \in ss_Client, ss_request[c] = SS!Idle,
         NEW p \in ss_Proxy, NEW r, r.proxy = p, ss_request' = [ss_request EXCEPT ![c] = r],
         NEW q \in ss_Proxy
  PROVE  Cardinality(SS!OpenOf(q)') = Cardinality(SS!OpenOf(q)) + (IF q = p THEN 1 ELSE 0)
<1>1. c \notin SS!OpenOf(q) /\ IsFiniteSet(SS!OpenOf(q)) /\ Cardinality(SS!OpenOf(q)) \in Nat
  BY SMTT(30), ServiceOpenOfFinite DEF SS!OpenOf, SS!Idle, SS!ConstantsAssumption
<1>2. SS!OpenOf(q)' = IF q = p THEN SS!OpenOf(q) \cup {c} ELSE SS!OpenOf(q)
  BY <1>1 DEF SS!OpenOf, SS!TypeOK
<1>3. Cardinality(SS!OpenOf(q) \cup {c}) = Cardinality(SS!OpenOf(q)) + 1
  BY <1>1, FS_AddElement
<1> QED
  BY <1>1, <1>2, <1>3

(* An end of a request takes it from the open ones of its Proxy, and of no *)
(* other.                                                                  *)
LEMMA ServiceOpenOfShrinks ==
  ASSUME SS!ConstantsAssumption, SS!TypeOK, NEW c \in ss_Client,
         ss_request[c].at \in {"counted", "streaming", "dropped"},
         ss_request' = [ss_request EXCEPT ![c] = SS!Idle], NEW q \in ss_Proxy
  PROVE  IF q = ss_request[c].proxy
           THEN /\ Cardinality(SS!OpenOf(q)') = Cardinality(SS!OpenOf(q)) - 1
                /\ Cardinality(SS!OpenOf(q)) \in Nat \ {0}
           ELSE SS!OpenOf(q)' = SS!OpenOf(q)
<1>1. IsFiniteSet(SS!OpenOf(q)) /\ Cardinality(SS!OpenOf(q)) \in Nat
  BY ServiceOpenOfFinite
<1>2. SS!OpenOf(q)' = SS!OpenOf(q) \ {c}
  BY DEF SS!OpenOf, SS!TypeOK, SS!Idle, SS!ConstantsAssumption
<1>3. CASE q = ss_request[c].proxy
  <2>1. c \in SS!OpenOf(q)
    BY <1>3 DEF SS!OpenOf
  <2>2. Cardinality(SS!OpenOf(q) \ {c}) = Cardinality(SS!OpenOf(q)) - 1
    BY <1>1, <2>1, FS_RemoveElement
  <2>3. Cardinality(SS!OpenOf(q)) # 0
    BY <1>1, <2>1, FS_EmptySet
  <2> QED
    BY <1>1, <1>2, <1>3, <2>2, <2>3
<1>4. CASE q # ss_request[c].proxy
  BY <1>2, <1>4 DEF SS!OpenOf
<1> QED
  BY <1>3, <1>4

(* Where a Proxy's requests and its entry stay as they are, it stays right.*)
LEMMA ServiceRightKept ==
  ASSUME NEW p \in ss_Proxy, ServiceRight(p), SS!OpenOf(p)' = SS!OpenOf(p), UNCHANGED <<ss_inflight, ss_lost, ss_renewed>>
  PROVE  ServiceRight(p)'
BY DEF ServiceRight

(* Every step keeps the count of a Proxy right.                            *)
LEMMA ServiceCountStep ==
  ASSUME SS!ConstantsAssumption, ServiceIInv, [SS!Next]_SS!vars, NEW q \in ss_pool'
  PROVE  ServiceRight(q)'
<1> USE DEF ServiceIInv
<1>1. q \in ss_Proxy
  BY ServiceTypeStep DEF SS!TypeOK
<1>2. \A p \in ss_pool : ServiceRight(p)
  BY ServiceRightIsBoth
<1>3. ASSUME NEW p \in ss_Proxy, SS!Upsert(p) \/ SS!Remove(p), UNCHANGED ss_request
      PROVE  ServiceRight(q)'
  <2>1. SS!Reset(p) /\ (q = p \/ q \in ss_pool)
    BY <1>3 DEF SS!Upsert, SS!Remove
  <2> QED
    BY <1>1, <1>2, <1>3, <2>1, ServiceResetRight
<1>4. ASSUME ss_pool' = ss_pool, UNCHANGED <<ss_request, ss_inflight, ss_lost, ss_renewed>>
      PROVE  ServiceRight(q)'
  BY <1>1, <1>2, <1>4, ServiceRightKept DEF SS!OpenOf
<1>5. ASSUME NEW p \in ss_Proxy, SS!Start(p) \/ SS!Stop(p)
      PROVE  ServiceRight(q)'
  BY <1>3, <1>4, <1>5 DEF SS!Start, SS!Stop, SS!requestVars, SS!poolVars
<1>6. ASSUME NEW p \in ss_Proxy, SS!Heartbeat(p) \/ SS!Expire(p)
      PROVE  ServiceRight(q)'
  BY <1>4, <1>6 DEF SS!Heartbeat, SS!Beat, SS!Expire, SS!requestVars
<1>7. ASSUME SS!SchedulerRestart
      PROVE  ServiceRight(q)'
  BY <1>7 DEF SS!SchedulerRestart
<1>8. ASSUME NEW c \in ss_Client, SS!Refuse(c)
      PROVE  ServiceRight(q)'
  BY <1>4, <1>8 DEF SS!Refuse, SS!poolVars
<1>9. ASSUME NEW c \in ss_Client, SS!Route(c)
      PROVE  ServiceRight(q)'
  <2>1. PICK p \in ss_alive :
          /\ ss_request' = [ss_request EXCEPT ![c] = [at |-> "counted", proxy |-> p, id |-> SS!NextId]]
          /\ ss_inflight' = [ss_inflight EXCEPT ![p] = @ + 1]
    BY <1>9 DEF SS!Route
  <2>2. /\ p \in ss_Proxy /\ ss_request[c] = SS!Idle /\ q \in ss_pool
        /\ UNCHANGED <<ss_lost, ss_renewed>>
    BY <1>9 DEF SS!Route, SS!TypeOK
  <2>3. Cardinality(SS!OpenOf(q)') = Cardinality(SS!OpenOf(q)) + (IF q = p THEN 1 ELSE 0)
    BY <1>1, <2>1, <2>2, ServiceOpenOfGrows
  <2>4. ss_inflight'[q] = ss_inflight[q] + (IF q = p THEN 1 ELSE 0)
    BY <1>1, <2>1, <2>2 DEF SS!TypeOK
  <2>5. ss_inflight[q] \in Nat /\ ss_lost[q] \in Nat /\ Cardinality(SS!OpenOf(q)) \in Nat
    BY <1>1, ServiceOpenOfFinite DEF SS!TypeOK
  <2> QED
    BY <1>2, <2>2, <2>3, <2>4, <2>5 DEF ServiceRight
<1>10. ASSUME NEW c \in ss_Client, SS!StartStream(c) \/ SS!Disconnect(c)
       PROVE  ServiceRight(q)'
  <2>1. SS!OpenOf(q)' = SS!OpenOf(q)
    BY <1>10, ServiceOpenTyped DEF SS!StartStream, SS!Disconnect, SS!OpenOf, SS!TypeOK
  <2> QED
    BY <1>1, <1>2, <1>10, <2>1, ServiceRightKept DEF SS!StartStream, SS!Disconnect, SS!poolVars
<1>11. ASSUME NEW c \in ss_Client, SS!NeverStarted(c)
       PROVE  ServiceRight(q)'
  <2>1. ss_request[c].at = "counted" /\ ss_request' = [ss_request EXCEPT ![c] = SS!Idle] /\ q \in ss_pool
        /\ UNCHANGED <<ss_inflight, ss_renewed>>
    BY <1>11 DEF SS!NeverStarted
  <2>2. CASE q = ss_request[c].proxy
    <3>1. /\ Cardinality(SS!OpenOf(q)') = Cardinality(SS!OpenOf(q)) - 1
          /\ Cardinality(SS!OpenOf(q)) \in Nat \ {0}
      BY <1>1, <2>1, <2>2, ServiceOpenOfShrinks
    <3>2. ss_lost'[q] = ss_lost[q] + 1 /\ ss_lost[q] \in Nat /\ ss_inflight[q] \in Nat
      BY <1>1, <1>11, <2>1, <2>2 DEF SS!NeverStarted, SS!TypeOK
    <3> QED
      BY <1>2, <2>1, <3>1, <3>2 DEF ServiceRight
  <2>3. CASE q # ss_request[c].proxy
    <3>1. SS!OpenOf(q)' = SS!OpenOf(q)
      BY <1>1, <2>1, <2>3, ServiceOpenOfShrinks
    <3>2. ss_lost'[q] = ss_lost[q]
      BY <1>1, <1>11, <2>3 DEF SS!NeverStarted, SS!TypeOK
    <3> QED
      BY <1>2, <2>1, <3>1, <3>2 DEF ServiceRight
  <2> QED
    BY <2>2, <2>3
<1>12. ASSUME NEW c \in ss_Client, SS!End(c)
       PROVE  ServiceRight(q)'
  <2>1. /\ ss_request[c].at \in {"counted", "streaming", "dropped"} /\ q \in ss_pool
        /\ ss_request' = [ss_request EXCEPT ![c] = SS!Idle]
        /\ ss_inflight' = SS!Undone(ss_request[c].proxy) /\ UNCHANGED <<ss_lost, ss_renewed>>
    BY <1>12 DEF SS!End
  <2>2. ss_inflight[q] \in Nat /\ ss_lost[q] \in Nat /\ ServiceRight(q)
    BY <1>1, <1>2, <2>1 DEF SS!TypeOK
  <2>3. CASE q = ss_request[c].proxy
    <3>1. /\ Cardinality(SS!OpenOf(q)') = Cardinality(SS!OpenOf(q)) - 1
          /\ Cardinality(SS!OpenOf(q)) \in Nat \ {0}
      BY <1>1, <2>1, <2>3, ServiceOpenOfShrinks
    <3>2. ss_inflight'[q] = IF ss_inflight[q] > 0 THEN ss_inflight[q] - 1 ELSE ss_inflight[q]
      BY <1>1, <2>1, <2>3 DEF SS!Undone, SS!TypeOK
    <3> QED
      BY <2>1, <2>2, <3>1, <3>2 DEF ServiceRight
  <2>4. CASE q # ss_request[c].proxy
    <3>1. SS!OpenOf(q)' = SS!OpenOf(q)
      BY <1>1, <2>1, <2>4, ServiceOpenOfShrinks
    <3>2. ss_inflight'[q] = ss_inflight[q]
      BY <1>1, <2>1, <2>4 DEF SS!Undone, SS!TypeOK
    <3> QED
      BY <2>1, <2>2, <3>1, <3>2 DEF ServiceRight
  <2> QED
    BY <2>3, <2>4
<1>13. ASSUME UNCHANGED SS!vars
       PROVE  ServiceRight(q)'
  BY <1>4, <1>13 DEF SS!vars, SS!poolVars, SS!requestVars
<1> QED
  BY <1>5, <1>6, <1>7, <1>8, <1>9, <1>10, <1>11, <1>12, <1>13 DEF SS!Next

(* Every step keeps the invariant.                                         *)
LEMMA ServiceIInvStep == ASSUME SS!ConstantsAssumption, ServiceIInv, [SS!Next]_SS!vars PROVE ServiceIInv'
<1>1. SS!TypeOK' /\ ServiceLostIsLeaked'
  BY ServiceTypeStep DEF ServiceIInv
<1>2. ServiceNumbered' /\ ServiceSpread'
  BY ServiceIdStep
<1>3. SS!NotOverstated' /\ SS!ExactCount'
  <2>1. SS!TypeOK /\ ServiceLostIsLeaked /\ SS!NotOverstated /\ SS!ExactCount
    BY DEF ServiceIInv
  <2>2. \A p \in ss_pool : ServiceRight(p)
    BY <2>1, ServiceRightIsBoth
  <2>3. (\A p \in ss_pool : ServiceRight(p))'
    BY <2>1, <2>2, ServiceCountStep
  <2> QED
    BY <2>3, ServiceSize DEF ServiceRight, SS!NotOverstated, SS!ExactCount
<1> QED
  BY <1>1, <1>2, <1>3 DEF ServiceIInv

(* Ids that are equal are a whole round apart, unless the ages are.       *)
LEMMA ServiceIInvFresh == ASSUME SS!ConstantsAssumption, ServiceIInv PROVE SS!FreshIds
<1>1. SUFFICES ASSUME NEW c \in ss_Client, NEW d \in ss_Client, c # d, ServiceOpen(c), ServiceOpen(d),
                      ss_request[c].id = ss_request[d].id, ss_age[c] # ss_MaxId, ss_age[d] # ss_MaxId
               PROVE  FALSE
  BY DEF SS!FreshIds, ServiceOpen
<1>2. /\ ss_age[c] \in 0 .. ss_MaxId /\ ss_age[d] \in 0 .. ss_MaxId /\ ss_current \in 0 .. ss_MaxId
      /\ ss_request[c].id \in 1 .. ss_MaxId /\ ss_MaxId \in Nat \ {0}
  BY <1>1 DEF ServiceIInv, SS!TypeOK, SS!ConstantsAssumption, ServiceOpen
<1>3. /\ ss_request[c].id + ss_age[c] \in {ss_current, ss_current + ss_MaxId}
      /\ ss_request[c].id + ss_age[d] \in {ss_current, ss_current + ss_MaxId}
  BY <1>1, <1>2 DEF ServiceIInv, ServiceNumbered
<1>4. ss_age[c] # ss_age[d]
  BY <1>1 DEF ServiceIInv, ServiceSpread
<1> QED
  BY <1>1, <1>2, <1>3, <1>4

-----------------------------------------------------------------------------
(* The rotation (RoundRobinStrategy).                                      *)

(* Sets are finite in RoundRobinStrategy if they are here, and as large.   *)
LEMMA TurnSize ==
  /\ \A S : RR!Cardinality(S) = Cardinality(S)
  /\ \A S : RR!IsFiniteSet(S) <=> IsFiniteSet(S)
BY DEF RR!Cardinality, Cardinality, RR!IsFiniteSet, IsFiniteSet

(* The remainder of a division is the one there is.                        *)
LEMMA TurnRemainder ==
  ASSUME NEW t \in Nat, NEW q \in Nat, NEW r \in Nat, NEW a \in Nat \ {0}, r < a, t = q * a + r
  PROVE  t % a = r
OBVIOUS

(* A cursor that is kept modulo a multiple of n goes round n.              *)
LEMMA TurnCursorTurns ==
  ASSUME NEW n \in Nat \ {0}, NEW m \in Nat \ {0}, m % n = 0, NEW c \in Nat
  PROVE  /\ (c + 1) % m \in Nat
         /\ ((c + 1) % m) % n = IF (c % n) + 1 = n THEN 0 ELSE (c % n) + 1
<1> DEFINE q == m \div n
           a == (c + 1) \div m
           r == (c + 1) % m
           d == r \div n
           s == r % n
           b == c \div n
           t == c % n
<1>1. m = q * n /\ q \in Nat
  BY Zenon, SMT
<1>2. c + 1 = a * m + r /\ a \in Nat /\ r \in Nat
  OBVIOUS
<1>3. r = d * n + s /\ d \in Nat /\ s \in 0 .. n - 1
  <2>1. r \in Nat
    BY <1>2
  <2> HIDE DEF r
  <2> QED
    BY <2>1
<1>4. c = b * n + t /\ b \in Nat /\ t \in 0 .. n - 1
  OBVIOUS
<1> HIDE DEF q, a, r, d, s, b, t
<1>5. c + 1 = (a * q + d) * n + s
  <2>1. a * m = (a * q) * n
    BY <1>1, <1>2
  <2>2. (a * q + d) * n = (a * q) * n + d * n
    BY <1>1, <1>2, <1>3
  <2>3. (a * q) * n \in Int /\ d * n \in Int /\ (a * q + d) * n \in Int
    BY <1>1, <1>2, <1>3
  <2> QED
    BY <1>2, <1>3, <2>1, <2>2, <2>3
<1>6. (c + 1) % n = s
  <2>1. a * q + d \in Nat
    BY <1>1, <1>2, <1>3
  <2> DEFINE e == a * q + d
  <2>2. e \in Nat /\ c + 1 = e * n + s
    BY <1>5, <2>1
  <2> HIDE DEF e
  <2>3. s \in Nat /\ s < n /\ c + 1 \in Nat
    BY <1>3
  <2> QED
    <3>1. PICK x \in Nat : x = c + 1
      BY <2>3
    <3>2. x = e * n + s
      BY <2>2, <3>1
    <3>3. x % n = s
      BY <2>2, <2>3, <3>2, TurnRemainder
    <3> QED
      BY <3>1, <3>3
<1>7. CASE t + 1 = n
  <2>1. c + 1 = (b + 1) * n + 0
    BY <1>4, <1>7
  <2>2. (c + 1) % n = 0
    BY <1>4, <2>1
  <2> QED
    BY <1>2, <1>6, <1>7, <2>2 DEF r, s, t
<1>8. CASE t + 1 # n
  <2>1. c + 1 = b * n + (t + 1) /\ t + 1 \in 0 .. n - 1
    BY <1>4, <1>8
  <2>2. (c + 1) % n = t + 1
    BY <1>4, <2>1
  <2> QED
    BY <1>2, <1>6, <1>8, <2>2 DEF r, s, t
<1> QED
  BY <1>7, <1>8

(* The same of the operators it is used for.                               *)
TurnPlace(c, n) == c % n
TurnMoved(c, m) == (c + 1) % m

(* A cursor modulo a multiple of n moves on by one place modulo n, and     *)
(* wraps.                                                                  *)
LEMMA TurnPlaceMoves ==
  ASSUME NEW n \in Nat \ {0}, NEW m \in Nat \ {0}, TurnPlace(m, n) = 0, NEW c \in Nat
  PROVE  /\ TurnMoved(c, m) \in Nat
         /\ TurnPlace(TurnMoved(c, m), n) = IF TurnPlace(c, n) + 1 = n THEN 0 ELSE TurnPlace(c, n) + 1
<1>1. m % n = 0
  BY DEF TurnPlace
<1> QED
  BY <1>1, TurnCursorTurns DEF TurnPlace, TurnMoved

(* A list is an order of some entries.                                     *)
LEMMA TurnListOK ==
  ASSUME NEW S, IsFiniteSet(S), NEW list \in RR!Lists(S)
  PROVE  /\ list \in Seq(S) /\ Len(list) <= Cardinality(S)
         /\ \A i, j \in 1 .. Len(list) : i # j => list[i] # list[j]
         /\ RR!ToSet(list) = {list[i] : i \in 1 .. Len(list)}
<1>1. PICK T \in SUBSET S : list \in RR!SetToSeqs(T)
  BY DEF RR!Lists
<1>2. IsFiniteSet(T) /\ Cardinality(T) \in Nat /\ Cardinality(T) <= Cardinality(S)
  BY FS_Subset, FS_CardinalityType
<1>3. /\ list \in [1 .. Cardinality(T) -> T]
      /\ \A i, j \in 1 .. Cardinality(T) : i # j => list[i] # list[j]
  BY <1>1, TurnSize DEF RR!SetToSeqs
<1>4. list \in Seq(S) /\ Len(list) = Cardinality(T)
  BY <1>2, <1>3
<1> QED
  BY <1>2, <1>3, <1>4 DEF RR!ToSet

(* The k entries before the cursor are those that had their turn.          *)
TurnRecent(n, c, k, j) == (c - k <= j /\ j < c) \/ j >= c - k + n

TurnRotates(S, list, cursor, turns) ==
  /\ list \in RR!Lists(S) /\ cursor \in Nat
  /\ turns = [x \in RR!ToSet(list) |-> turns[x]]
  /\ list # <<>> => \E k \in 0 .. Len(list) - 1 : \A j \in 0 .. Len(list) - 1 :
       turns[list[j + 1]] = IF TurnRecent(Len(list), cursor % Len(list), k, j) THEN 1 ELSE 0

(* In a rotation nobody has had two turns while the list stayed.           *)
LEMMA TurnRotatesBound ==
  ASSUME NEW S, IsFiniteSet(S), NEW list, NEW cursor, NEW turns, TurnRotates(S, list, cursor, turns),
         NEW x \in DOMAIN turns
  PROVE  turns[x] <= 1
<1>1. x \in RR!ToSet(list)
  BY DEF TurnRotates
<1>2. PICK i \in 1 .. Len(list) : x = list[i]
  BY <1>1, TurnListOK DEF TurnRotates
<1>3. list # <<>> /\ Len(list) \in Nat
  BY <1>2, TurnListOK DEF TurnRotates
<1>4. i - 1 \in 0 .. Len(list) - 1 /\ (i - 1) + 1 = i
  BY <1>3
<1>5. turns[x] = 0 \/ turns[x] = 1
  BY <1>2, <1>3, <1>4 DEF TurnRotates
<1> QED
  BY <1>5

(* A list that is new has had no turns.                                    *)
LEMMA TurnNewRotates ==
  ASSUME NEW S, IsFiniteSet(S), NEW list \in RR!Lists(S), NEW cursor \in Nat
  PROVE  TurnRotates(S, list, cursor, RR!NoTurns(list))
<1>1. /\ Len(list) \in Nat /\ RR!ToSet(list) = {list[i] : i \in 1 .. Len(list)}
      /\ list # <<>> => Len(list) # 0
  BY TurnListOK
<1>2. ASSUME list # <<>>
      PROVE  \A j \in 0 .. Len(list) - 1 :
               RR!NoTurns(list)[list[j + 1]] = IF TurnRecent(Len(list), cursor % Len(list), 0, j) THEN 1 ELSE 0
  <2>1. cursor % Len(list) \in 0 .. Len(list) - 1
    BY <1>1, <1>2
  <2> SUFFICES ASSUME NEW j \in 0 .. Len(list) - 1
               PROVE  RR!NoTurns(list)[list[j + 1]] = 0 /\ ~TurnRecent(Len(list), cursor % Len(list), 0, j)
    OBVIOUS
  <2>2. list[j + 1] \in RR!ToSet(list)
    BY <1>1
  <2> QED
    BY <1>1, <2>1, <2>2 DEF RR!NoTurns, TurnRecent
<1>3. 0 \in 0 .. Len(list) - 1 \/ list = <<>>
  BY <1>1
<1> QED
  BY <1>2, <1>3 DEF TurnRotates, RR!NoTurns

(* A choice: the entry at the cursor has its turn.                         *)
LEMMA TurnAdvanceRotates ==
  ASSUME NEW S, IsFiniteSet(S), rr_CursorPeriod \in Nat \ {0},
         \A n \in 1 .. Cardinality(S) : rr_CursorPeriod % n = 0,
         NEW list, NEW cursor, NEW turns, TurnRotates(S, list, cursor, turns)
  PROVE  TurnRotates(S, list, RR!Advance(list, cursor), RR!Counted(list, cursor, turns))
<1>1. CASE list = <<>>
  BY <1>1 DEF TurnRotates, RR!Advance, RR!Counted
<1>2. CASE list # <<>>
  <2> DEFINE n == Len(list)
             c == cursor % n
             d == RR!Advance(list, cursor)
             t == [turns EXCEPT ![RR!At(list, cursor)] = @ + 1]
             after == RR!Counted(list, cursor, turns)
  <2>1. /\ n \in Nat \ {0} /\ n <= Cardinality(S) /\ cursor \in Nat
        /\ \A i, j \in 1 .. n : i # j => list[i] # list[j]
        /\ RR!ToSet(list) = {list[i] : i \in 1 .. n}
    BY <1>2, TurnListOK DEF TurnRotates
  <2>2. Cardinality(S) \in Nat /\ rr_CursorPeriod % n = 0
    BY <2>1, FS_CardinalityType
  <2>3. c \in 0 .. n - 1
    BY <2>1
  <2>4. d \in Nat /\ d % n = IF c + 1 = n THEN 0 ELSE c + 1
    <3>1. d = TurnMoved(cursor, rr_CursorPeriod) /\ TurnPlace(rr_CursorPeriod, n) = 0 /\ TurnPlace(cursor, n) = c
      BY <1>2, <2>2 DEF RR!Advance, TurnMoved, TurnPlace
    <3>2. TurnPlace(d, n) = d % n
      BY DEF TurnPlace
    <3> HIDE DEF d, n, c, t, after
    <3> QED
      BY <2>1, <3>1, <3>2, TurnPlaceMoves
  <2>5. PICK k \in 0 .. n - 1 : \A j \in 0 .. n - 1 :
          turns[list[j + 1]] = IF TurnRecent(n, c, k, j) THEN 1 ELSE 0
    BY <1>2 DEF TurnRotates
  <2>6. RR!At(list, cursor) = list[c + 1] /\ list[c + 1] \in RR!ToSet(list)
    BY <2>1, <2>3 DEF RR!At
  <2>7. t = [x \in RR!ToSet(list) |-> IF x = list[c + 1] THEN turns[x] + 1 ELSE turns[x]]
    BY <2>6 DEF TurnRotates
  <2>8. after = IF \A x \in RR!ToSet(list) : t[x] > 0 THEN [x \in RR!ToSet(list) |-> t[x] - 1] ELSE t
    BY <1>2, <2>7 DEF RR!Counted
  <2> HIDE DEF t, after, d, c, n
  <2>9. \A j \in 0 .. n - 1 : t[list[j + 1]] = IF TurnRecent(n, c, k, j) \/ j = c THEN 1 ELSE 0
    <3> SUFFICES ASSUME NEW j \in 0 .. n - 1
                 PROVE  t[list[j + 1]] = IF TurnRecent(n, c, k, j) \/ j = c THEN 1 ELSE 0
      OBVIOUS
    <3>1. list[j + 1] \in RR!ToSet(list) /\ (list[j + 1] = list[c + 1] <=> j = c)
      BY <2>1, <2>3
    <3>2. ~TurnRecent(n, c, k, c)
      BY <2>1, <2>3 DEF TurnRecent
    <3> QED
      BY <2>5, <2>7, <3>1, <3>2
  <2>10. CASE k = n - 1
    <3>1. \A j \in 0 .. n - 1 : TurnRecent(n, c, k, j) \/ j = c
      BY <2>1, <2>3, <2>10 DEF TurnRecent
    <3>2. \A x \in RR!ToSet(list) : t[x] = 1
      <4> SUFFICES ASSUME NEW i \in 1 .. n PROVE t[list[i]] = 1
        BY <2>1
      <4>1. i - 1 \in 0 .. n - 1 /\ (i - 1) + 1 = i
        BY <2>1
      <4> QED
        BY <2>9, <3>1, <4>1
    <3>3. after = [x \in RR!ToSet(list) |-> 0]
      <4>1. (\A x \in RR!ToSet(list) : t[x] > 0) /\ \A x \in RR!ToSet(list) : t[x] - 1 = 0
        BY <3>2
      <4> QED
        BY <2>8, <4>1
    <3>4. after = RR!NoTurns(list)
      BY <3>3 DEF RR!NoTurns
    <3> QED
      <4>1. list \in RR!Lists(S)
        BY DEF TurnRotates
      <4> QED
        BY <2>4, <3>4, <4>1, TurnNewRotates DEF after, d
  <2>11. CASE k # n - 1
    <3>1. k + 1 \in 0 .. n - 1
      BY <2>1, <2>11
    <3>2. PICK j \in 0 .. n - 1 : ~(TurnRecent(n, c, k, j) \/ j = c)
      <4> DEFINE b == IF c - k - 1 >= 0 THEN c - k - 1 ELSE c - k - 1 + n
      <4>1. b \in 0 .. n - 1 /\ ~(TurnRecent(n, c, k, b) \/ b = c)
        BY <2>1, <2>3, <2>11 DEF TurnRecent
      <4> QED
        BY <4>1
    <3>3. after = t
      <4>1. t[list[j + 1]] = 0 /\ list[j + 1] \in RR!ToSet(list)
        BY <2>1, <2>9, <3>2
      <4> QED
        BY <2>8, <4>1
    <3>4. \A i \in 0 .. n - 1 : TurnRecent(n, d % n, k + 1, i) <=> TurnRecent(n, c, k, i) \/ i = c
      BY <2>1, <2>3, <2>4, <2>11 DEF TurnRecent
    <3>5. \A i \in 0 .. n - 1 : after[list[i + 1]] = IF TurnRecent(n, d % n, k + 1, i) THEN 1 ELSE 0
      BY <2>9, <3>3, <3>4
    <3>6. after = [x \in RR!ToSet(list) |-> after[x]]
      BY <2>7, <3>3
    <3> QED
      BY <2>4, <3>1, <3>5, <3>6 DEF TurnRotates, after, d, n
  <2> QED
    BY <2>10, <2>11
<1> QED
  BY <1>1, <1>2

(* The inductive invariant of the rotation.                                *)
TurnIInv ==
  /\ TurnRotates(rr_Kdn, rr_kdns, rr_kdnCursor, rr_kdnTurns)
  /\ TurnRotates(rr_Proxy, rr_proxies, rr_proxyCursor, rr_proxyTurns)

(* The rotation's invariant holds at first.                                *)
LEMMA TurnInitIInv == ASSUME RR!ConstantsAssumption, RR!Init PROVE TurnIInv
<1>1. ASSUME NEW S PROVE <<>> \in RR!Lists(S)
  <2>1. Cardinality({}) = 0
    BY FS_EmptySet
  <2>2. <<>> \in RR!SetToSeqs({})
    BY <2>1, TurnSize DEF RR!SetToSeqs
  <2> QED
    BY <2>2 DEF RR!Lists
<1> QED
  BY <1>1, TurnNewRotates, TurnSize DEF RR!Init, TurnIInv, RR!ConstantsAssumption

(* Every step of the strategy keeps it.                                    *)
LEMMA TurnNextIInv == ASSUME RR!ConstantsAssumption, TurnIInv, [RR!Next]_RR!vars PROVE TurnIInv'
<1> USE DEF TurnIInv
<1>1. CASE RR!KdnListChanges
  BY <1>1, TurnNewRotates, TurnSize DEF RR!KdnListChanges, TurnRotates, RR!ConstantsAssumption
<1>2. CASE RR!ProxyListChanges
  BY <1>2, TurnNewRotates, TurnSize DEF RR!ProxyListChanges, TurnRotates, RR!ConstantsAssumption
<1>3. CASE RR!Select
  <2>1. TurnRotates(rr_Kdn, rr_kdns, RR!Advance(rr_kdns, rr_kdnCursor), RR!Counted(rr_kdns, rr_kdnCursor, rr_kdnTurns))
    BY TurnAdvanceRotates, TurnSize DEF RR!ConstantsAssumption
  <2>2. TurnRotates(rr_Proxy, rr_proxies, RR!Advance(rr_proxies, rr_proxyCursor), RR!Counted(rr_proxies, rr_proxyCursor, rr_proxyTurns))
    BY TurnAdvanceRotates, TurnSize DEF RR!ConstantsAssumption
  <2> QED
    BY <1>3, <2>1, <2>2 DEF RR!Select
<1>4. CASE UNCHANGED RR!vars
  BY <1>4 DEF RR!vars
<1> QED
  BY <1>1, <1>2, <1>3, <1>4 DEF RR!Next

(* It implies the rotation that the run checks.                            *)
LEMMA TurnIInvRotates == ASSUME RR!ConstantsAssumption, TurnIInv PROVE RR!RotatesWhileStable
BY TurnRotatesBound, TurnSize DEF TurnIInv, RR!RotatesWhileStable, RR!ConstantsAssumption

-----------------------------------------------------------------------------
(* The choice of a KDN (KdnChoice).                                        *)

(* Sets are finite in KdnChoice if they are here, and as large.            *)
LEMMA ChoiceSize ==
  /\ \A S : KC!Cardinality(S) = Cardinality(S)
  /\ \A S : KC!IsFiniteSet(S) <=> IsFiniteSet(S)
BY DEF KC!Cardinality, Cardinality, KC!IsFiniteSet, IsFiniteSet

(* Of two keys of the same length that differ, one precedes the other.     *)
LEMMA ChoicePrecedesTotal ==
  ASSUME NEW n \in Nat, NEW s, NEW t, DOMAIN s = 1 .. n, DOMAIN t = 1 .. n,
         \A i \in 1 .. n : s[i] \in Int /\ t[i] \in Int,
         \E i \in 1 .. n : s[i] # t[i]
  PROVE  KC!Precedes(s, t) \/ KC!Precedes(t, s)
<1> DEFINE D == {i \in 1 .. n : s[i] # t[i]}
<1>1. D \in SUBSET Nat /\ D # {}
  <2>1. PICK i \in 1 .. n : s[i] # t[i]
    OBVIOUS
  <2>2. D # {}
    BY <2>1
  <2>3. D \in SUBSET Nat
    OBVIOUS
  <2> QED
    BY <2>2, <2>3
<1>2. PICK i \in D : \A j \in D : i <= j
  <2> HIDE DEF D
  <2> QED
    BY <1>1, NatMinimum
<1>3. i \in 1 .. n /\ s[i] # t[i] /\ \A j \in 1 .. i - 1 : s[j] = t[j]
  BY <1>2
<1>4. s[i] < t[i] \/ t[i] < s[i]
  BY <1>3
<1> QED
  BY <1>3, <1>4 DEF KC!Precedes

(* A key that precedes one that precedes a third precedes the third.       *)
LEMMA ChoicePrecedesTransitive ==
  ASSUME NEW n \in Nat, NEW s, NEW t, NEW u,
         DOMAIN s = 1 .. n, DOMAIN t = 1 .. n, DOMAIN u = 1 .. n,
         \A i \in 1 .. n : s[i] \in Int /\ t[i] \in Int /\ u[i] \in Int,
         KC!Precedes(s, t), KC!Precedes(t, u)
  PROVE  KC!Precedes(s, u)
<1>1. PICK i \in 1 .. n : s[i] < t[i] /\ \A h \in 1 .. i - 1 : s[h] = t[h]
  BY DEF KC!Precedes
<1>2. PICK j \in 1 .. n : t[j] < u[j] /\ \A h \in 1 .. j - 1 : t[h] = u[h]
  BY DEF KC!Precedes
<1>3. CASE i <= j
  <2>1. s[i] < u[i]
    BY SMTT(30), <1>1, <1>2, <1>3
  <2>2. \A h \in 1 .. i - 1 : s[h] = u[h]
    BY <1>1, <1>2, <1>3
  <2> QED
    BY <2>1, <2>2 DEF KC!Precedes
<1>4. CASE j < i
  <2>1. s[j] < u[j]
    BY <1>1, <1>2, <1>4
  <2>2. \A h \in 1 .. j - 1 : s[h] = u[h]
    BY <1>1, <1>2, <1>4
  <2> QED
    BY <2>1, <2>2 DEF KC!Precedes
<1> QED
  BY <1>3, <1>4

(* A finite set has a first element by keys that all differ.               *)
LEMMA ChoiceFirstExists ==
  ASSUME NEW S, IsFiniteSet(S), S # {}, NEW n \in Nat, NEW key,
         \A x \in S : DOMAIN key[x] = 1 .. n /\ \A i \in 1 .. n : key[x][i] \in Int,
         \A x, y \in S : x # y => \E i \in 1 .. n : key[x][i] # key[y][i]
  PROVE  \E x \in S : \A y \in S \ {x} : KC!Precedes(key[x], key[y])
<1> DEFINE T == {s \in SUBSET S : s # {} => \E x \in s : \A y \in s \ {x} : KC!Precedes(key[x], key[y])}
<1>1. {} \in T
  OBVIOUS
<1>2. ASSUME NEW s \in SUBSET S, s # {}, \A x \in s : s \ {x} \in T PROVE s \in T
  <2>1. PICK x \in s : TRUE
    BY <1>2
  <2>2. CASE s = {x}
    BY <2>2
  <2>3. CASE s # {x}
    <3>1. s \ {x} # {}
      BY <2>1, <2>3
    <3>2. PICK z \in s \ {x} : \A y \in (s \ {x}) \ {z} : KC!Precedes(key[z], key[y])
      BY <1>2, <2>1, <3>1
    <3>3. KC!Precedes(key[x], key[z]) \/ KC!Precedes(key[z], key[x])
      <4>1. x \in S /\ z \in S /\ x # z
        BY <3>2
      <4> QED
        <5>1. /\ DOMAIN key[x] = 1 .. n /\ DOMAIN key[z] = 1 .. n
              /\ \A i \in 1 .. n : key[x][i] \in Int /\ key[z][i] \in Int
              /\ \E i \in 1 .. n : key[x][i] # key[z][i]
          BY <4>1
        <5>2. n \in Nat
          OBVIOUS
        <5> QED
          BY ONLY <5>1, <5>2, ChoicePrecedesTotal
    <3>4. CASE KC!Precedes(key[z], key[x])
      BY <3>2, <3>4
    <3>5. CASE KC!Precedes(key[x], key[z])
      <4>1. ASSUME NEW y \in s \ {x} PROVE KC!Precedes(key[x], key[y])
        <5>1. CASE y = z
          BY <3>5, <5>1
        <5>2. CASE y # z
          <6>1. KC!Precedes(key[z], key[y])
            BY <3>2, <4>1, <5>2
          <6> QED
            BY <3>5, <6>1, ChoicePrecedesTransitive
        <5> QED
          BY <5>1, <5>2
      <4> QED
        BY <4>1
    <3> QED
      BY <3>3, <3>4, <3>5
  <2> QED
    BY <2>2, <2>3
<1> HIDE DEF T
<1>3. S \in T
  BY <1>1, <1>2, BySize
<1> QED
  BY <1>3 DEF T

(* The first components of keys in order.                                  *)
LEMMA ChoicePrecedesLeads ==
  ASSUME NEW s, NEW t, 1 \in DOMAIN s, 2 \in DOMAIN s, 3 \in DOMAIN s, DOMAIN s \subseteq Nat \ {0},
         \A i \in DOMAIN s : s[i] \in Int /\ t[i] \in Int, KC!Precedes(s, t)
  PROVE  /\ s[1] <= t[1]
         /\ s[1] = t[1] => s[2] <= t[2]
         /\ s[1] = t[1] /\ s[2] = t[2] => s[3] <= t[3]
<1>1. PICK i \in DOMAIN s : s[i] < t[i] /\ \A j \in 1 .. i - 1 : s[j] = t[j]
  BY DEF KC!Precedes
<1>2. i = 1 \/ i = 2 \/ i = 3 \/ i > 3
  OBVIOUS
<1> QED
  BY <1>1, <1>2

(* The types of the choice of a KDN.                                       *)
ChoiceTypes == kc_view \in [kc_Kdn -> KC!View] /\ kc_wanted \subseteq kc_Kid

(* The coverage is the length of the blocks that are held.                 *)
ChoiceHeld(k) == {x \in kc_wanted : kc_view[k].holds[x] = "kv"}

(* What a KDN holds of a request is the sum of the lengths of its blocks.  *)
LEMMA ChoiceCoverIs == \A k : KC!KvCover(k) = Total(kc_LengthOf, ChoiceHeld(k))
BY DEF KC!KvCover, Total, ChoiceHeld,
       KC!MapThenSumSet, KC!MapThenFoldSet, MapThenSumSet, MapThenFoldSet

(* What the keys are made of.                                              *)
LEMMA ChoiceKeyParts ==
  ASSUME KC!ConstantsAssumption, ChoiceTypes, NEW k \in kc_Kdn
  PROVE  /\ KC!KvCover(k) \in Nat /\ Cardinality(KC!Missing(k)) \in Nat
         /\ kc_view[k].load \in Nat /\ kc_Rank[k] \in Nat
<1>1. kc_view[k] \in KC!View
  BY DEF ChoiceTypes
<1>2. IsFiniteSet(kc_wanted)
  BY FS_Subset, ChoiceSize DEF KC!ConstantsAssumption, ChoiceTypes
<1>3. IsFiniteSet(KC!Missing(k))
  BY <1>2, FS_Subset DEF KC!Missing
<1> DEFINE S == {x \in kc_wanted : kc_view[k].holds[x] = "kv"}
<1>4. IsFiniteSet(S) /\ \A x \in S : kc_LengthOf[x] \in Nat
  BY <1>2, FS_Subset, ChoiceSize DEF KC!ConstantsAssumption, ChoiceTypes
<1>5. KC!KvCover(k) = Total(kc_LengthOf, S)
  BY ChoiceCoverIs DEF ChoiceHeld
<1>6. KC!KvCover(k) \in Nat
  <2> HIDE DEF S
  <2> QED
    BY <1>4, <1>5, TotalType
<1> QED
  BY <1>1, <1>3, <1>6, FS_CardinalityType, ChoiceSize DEF KC!View, KC!ConstantsAssumption

(* The first of the usable KDNs.                                           *)
LEMMA ChoiceFirstUsable ==
  ASSUME KC!ConstantsAssumption, ChoiceTypes, NEW S, S \subseteq kc_Kdn, S # {}, NEW c, c = KC!First(S, KC!UsableKey)
  PROVE  c \in S /\ \A k \in S : KC!KvCover(k) <= KC!KvCover(c)
<1> DEFINE key == [k \in S |-> KC!UsableKey(k)]
<1>1. IsFiniteSet(S)
  BY FS_Subset, ChoiceSize DEF KC!ConstantsAssumption
<1>2. ASSUME NEW k \in S
      PROVE  /\ key[k] = <<-KC!KvCover(k), kc_view[k].load, kc_Rank[k]>>
             /\ DOMAIN key[k] = 1 .. 3 /\ \A i \in 1 .. 3 : key[k][i] \in Int
             /\ key[k][1] = -KC!KvCover(k) /\ key[k][3] = kc_Rank[k] /\ KC!KvCover(k) \in Nat
  <2>1. key[k] = <<-KC!KvCover(k), kc_view[k].load, kc_Rank[k]>>
    BY DEF KC!UsableKey
  <2>2. KC!KvCover(k) \in Nat /\ kc_view[k].load \in Nat /\ kc_Rank[k] \in Nat
    BY <1>1, ChoiceKeyParts
  <2> HIDE DEF key
  <2> QED
    BY <2>1, <2>2
<1>3. \A k, l \in S : k # l => \E i \in 1 .. 3 : key[k][i] # key[l][i]
  <2>1. \A k, l \in S : k # l => key[k][3] # key[l][3]
    BY <1>1, <1>2, ChoiceSize DEF KC!ConstantsAssumption
  <2> QED
    BY <2>1
<1> HIDE DEF key
<1>4. \E k \in S : \A l \in S \ {k} : KC!Precedes(key[k], key[l])
  <2>1. \A k \in S : DOMAIN key[k] = 1 .. 3 /\ \A i \in 1 .. 3 : key[k][i] \in Int
    BY <1>2
  <2>2. 3 \in Nat
    OBVIOUS
  <2> QED
    BY ONLY ZenonT(30), S # {}, <1>1, <1>3, <2>1, <2>2, ChoiceFirstExists
<1>5. c = CHOOSE k \in S : \A l \in S \ {k} : KC!Precedes(key[k], key[l])
  BY DEF KC!First, key
<1>6. c \in S /\ \A l \in S \ {c} : KC!Precedes(key[c], key[l])
  BY <1>4, <1>5
<1>7. ASSUME NEW k \in S PROVE KC!KvCover(k) <= KC!KvCover(c)
  <2>1. CASE k = c
    BY <1>2, <1>6, <2>1
  <2>2. CASE k # c
    <3>1. KC!Precedes(key[c], key[k]) 
      BY <1>6, <2>2
    <3>2. key[c][1] <= key[k][1]
      BY <1>2, <1>6, <3>1, ChoicePrecedesLeads
    <3> QED
      BY <1>2, <1>6, <3>2
  <2> QED
    BY <2>1, <2>2
<1> QED
  BY <1>6, <1>7

(* The first of all KDNs.                                                  *)
LEMMA ChoiceFirstRanked ==
  ASSUME KC!ConstantsAssumption, ChoiceTypes, NEW c, c = KC!First(kc_Kdn, KC!RankedKey)
  PROVE  /\ c \in kc_Kdn
         /\ \A k \in kc_Kdn :
              /\ KC!TextFull(k) => KC!TextFull(c)
              /\ (KC!TextFull(k) <=> KC!TextFull(c)) /\ ~KC!Overloaded(k) => ~KC!Overloaded(c)
              /\ (KC!TextFull(k) <=> KC!TextFull(c)) /\ (KC!Overloaded(k) <=> KC!Overloaded(c)) =>
                   KC!KvCover(k) <= KC!KvCover(c)
<1> DEFINE key == [k \in kc_Kdn |-> KC!RankedKey(k)]
<1>1. ASSUME NEW k \in kc_Kdn
      PROVE  /\ DOMAIN key[k] = 1 .. 6 /\ \A i \in 1 .. 6 : key[k][i] \in Int
             /\ key[k][1] = KC!Flag(~KC!TextFull(k)) /\ key[k][2] = KC!Flag(KC!Overloaded(k))
             /\ key[k][3] = -KC!KvCover(k) /\ key[k][6] = kc_Rank[k] /\ KC!KvCover(k) \in Nat
  <2>1. key[k] = <<KC!Flag(~KC!TextFull(k)), KC!Flag(KC!Overloaded(k)), -KC!KvCover(k), KC!Cardinality(KC!Missing(k)),
                   kc_view[k].load, kc_Rank[k]>>
    BY DEF KC!RankedKey
  <2>2. /\ KC!KvCover(k) \in Nat /\ kc_view[k].load \in Nat /\ kc_Rank[k] \in Nat
        /\ KC!Cardinality(KC!Missing(k)) \in Nat
    BY ChoiceKeyParts, ChoiceSize
  <2>3. KC!Flag(~KC!TextFull(k)) \in Int /\ KC!Flag(KC!Overloaded(k)) \in Int
    BY DEF KC!Flag
  <2> HIDE DEF key
  <2> QED
    BY <2>1, <2>2, <2>3
<1>2. \A k, l \in kc_Kdn : k # l => \E i \in 1 .. 6 : key[k][i] # key[l][i]
  <2>1. \A k, l \in kc_Kdn : k # l => key[k][6] # key[l][6]
    BY <1>1, ChoiceSize DEF KC!ConstantsAssumption
  <2> QED
    BY <2>1
<1> HIDE DEF key
<1>3. \E k \in kc_Kdn : \A l \in kc_Kdn \ {k} : KC!Precedes(key[k], key[l])
  <2>1. \A k \in kc_Kdn : DOMAIN key[k] = 1 .. 6 /\ \A i \in 1 .. 6 : key[k][i] \in Int
    BY <1>1
  <2>2. 6 \in Nat /\ IsFiniteSet(kc_Kdn) /\ kc_Kdn # {}
    BY ChoiceSize DEF KC!ConstantsAssumption
  <2> QED
    BY ONLY ZenonT(30), <1>2, <2>1, <2>2, ChoiceFirstExists
<1>4. c = CHOOSE k \in kc_Kdn : \A l \in kc_Kdn \ {k} : KC!Precedes(key[k], key[l])
  BY DEF KC!First, key
<1>5. c \in kc_Kdn /\ \A l \in kc_Kdn \ {c} : KC!Precedes(key[c], key[l])
  BY <1>3, <1>4
<1>6. ASSUME NEW k \in kc_Kdn
      PROVE  /\ KC!TextFull(k) => KC!TextFull(c)
             /\ (KC!TextFull(k) <=> KC!TextFull(c)) /\ ~KC!Overloaded(k) => ~KC!Overloaded(c)
             /\ (KC!TextFull(k) <=> KC!TextFull(c)) /\ (KC!Overloaded(k) <=> KC!Overloaded(c)) =>
                  KC!KvCover(k) <= KC!KvCover(c)
  <2>1. CASE k = c
    BY <1>1, <1>5, <2>1
  <2>2. CASE k # c
    <3>1. KC!Precedes(key[c], key[k]) 
      BY <1>5, <2>2
    <3>2. /\ key[c][1] <= key[k][1]
          /\ key[c][1] = key[k][1] => key[c][2] <= key[k][2]
          /\ key[c][1] = key[k][1] /\ key[c][2] = key[k][2] => key[c][3] <= key[k][3]
      BY <1>1, <1>5, <3>1, ChoicePrecedesLeads
    <3>3. /\ KC!Flag(~KC!TextFull(c)) <= KC!Flag(~KC!TextFull(k))
          /\ KC!Flag(~KC!TextFull(c)) = KC!Flag(~KC!TextFull(k)) => KC!Flag(KC!Overloaded(c)) <= KC!Flag(KC!Overloaded(k))
          /\ KC!Flag(~KC!TextFull(c)) = KC!Flag(~KC!TextFull(k)) /\ KC!Flag(KC!Overloaded(c)) = KC!Flag(KC!Overloaded(k)) =>
               -KC!KvCover(c) <= -KC!KvCover(k)
      BY <1>1, <1>5, <3>2
    <3>4. KC!KvCover(c) \in Nat /\ KC!KvCover(k) \in Nat
      BY <1>1, <1>5
    <3> QED
      BY <3>3, <3>4 DEF KC!Flag
  <2> QED
    BY <2>1, <2>2
<1> QED
  BY <1>5, <1>6

(* What is said of a KDN depends on the view of it and on the request.     *)
LEMMA ChoiceSameView ==
  ASSUME UNCHANGED <<kc_view, kc_wanted>>
  PROVE  \A k : /\ KC!TextFull(k)' <=> KC!TextFull(k)
                /\ KC!Overloaded(k)' <=> KC!Overloaded(k)
                /\ KC!KvCover(k)' = KC!KvCover(k)
<1>1. \A k : (KC!TextFull(k)' <=> KC!TextFull(k)) /\ (KC!Overloaded(k)' <=> KC!Overloaded(k))
  BY DEF KC!TextFull, KC!Missing, KC!Overloaded
<1>2. \A k : ChoiceHeld(k)' = ChoiceHeld(k)
  BY DEF ChoiceHeld
<1>3. (\A k : KC!KvCover(k) = Total(kc_LengthOf, ChoiceHeld(k)))'
  BY ChoiceCoverIs, PTL
<1> QED
  BY <1>1, <1>2, <1>3, ChoiceCoverIs

(* The inductive invariant of the choice of a KDN.                         *)
ChoiceIInv == ChoiceTypes /\ KC!PrefersAsPromised

(* Nothing is chosen at first.                                             *)
LEMMA ChoiceInitIInv == KC!Init => ChoiceIInv
BY DEF KC!Init, ChoiceIInv, ChoiceTypes, KC!PrefersAsPromised

(* Every choice is the greatest of the lexicographic order.                *)
LEMMA ChoiceNextIInv == ASSUME KC!ConstantsAssumption, ChoiceIInv, [KC!Next]_KC!vars PROVE ChoiceIInv'
<1> USE DEF ChoiceIInv
<1>1. CASE KC!SelectKdn
  <2>1. kc_view' = kc_view /\ kc_wanted' = kc_wanted /\ ChoiceTypes'
    BY <1>1 DEF KC!SelectKdn, ChoiceTypes
  <2>0. \A k : (KC!TextFull(k)' <=> KC!TextFull(k)) /\ (KC!Overloaded(k)' <=> KC!Overloaded(k)) /\ KC!KvCover(k)' = KC!KvCover(k)
    BY <2>1, ChoiceSameView
  <2> SUFFICES ASSUME kc_wanted # {}, NEW c \in kc_chosen', NEW k \in kc_Kdn
               PROVE  /\ KC!TextFull(k) => KC!TextFull(c)
                      /\ KC!TextFull(k) /\ ~ KC!Overloaded(k) => ~ KC!Overloaded(c)
                      /\ KC!KvCover(k) > KC!KvCover(c) =>
                           (KC!TextFull(c) /\ ~ KC!TextFull(k)) \/ (~ KC!Overloaded(c) /\ KC!Overloaded(k))
    BY <2>0, <2>1 DEF KC!PrefersAsPromised
  <2>2. KC!KvCover(k) \in Nat
    BY ChoiceKeyParts
  <2>3. CASE KC!Usable # {}
    <3>1. c = KC!First(KC!Usable, KC!UsableKey)
      BY <1>1, <2>3 DEF KC!SelectKdn
    <3>2. c \in KC!Usable /\ \A l \in KC!Usable : KC!KvCover(l) <= KC!KvCover(c)
      <4>1. KC!Usable \subseteq kc_Kdn
        BY DEF KC!Usable
      <4> QED
        BY <2>3, <3>1, <4>1, ChoiceFirstUsable
    <3>3. KC!TextFull(c) /\ ~KC!Overloaded(c) /\ KC!KvCover(c) \in Nat
      BY <3>2, ChoiceKeyParts DEF KC!Usable
    <3>4. KC!TextFull(k) /\ ~KC!Overloaded(k) => KC!KvCover(k) <= KC!KvCover(c)
      BY <3>2 DEF KC!Usable
    <3> QED
      BY <2>2, <3>3, <3>4
  <2>4. CASE KC!Usable = {}
    <3>1. c = KC!First(kc_Kdn, KC!RankedKey)
      BY <1>1, <2>4 DEF KC!SelectKdn
    <3>2. ~(KC!TextFull(k) /\ ~KC!Overloaded(k))
      BY <2>4 DEF KC!Usable
    <3>3. /\ c \in kc_Kdn /\ (KC!TextFull(k) => KC!TextFull(c))
          /\ (KC!TextFull(k) <=> KC!TextFull(c)) /\ ~KC!Overloaded(k) => ~KC!Overloaded(c)
          /\ (KC!TextFull(k) <=> KC!TextFull(c)) /\ (KC!Overloaded(k) <=> KC!Overloaded(c)) =>
               KC!KvCover(k) <= KC!KvCover(c)
      BY <3>1, ChoiceFirstRanked
    <3>4. KC!KvCover(c) \in Nat
      BY <3>3, ChoiceKeyParts
    <3> QED
      BY <2>2, <3>2, <3>3, <3>4
  <2> QED
    BY <2>3, <2>4
<1>2. CASE KC!NextRequest
  BY <1>2 DEF KC!NextRequest, ChoiceTypes, KC!PrefersAsPromised
<1>3. CASE UNCHANGED KC!vars
  <2>0. \A k : (KC!TextFull(k)' <=> KC!TextFull(k)) /\ (KC!Overloaded(k)' <=> KC!Overloaded(k)) /\ KC!KvCover(k)' = KC!KvCover(k)
    BY <1>3, ChoiceSameView DEF KC!vars
  <2> QED
    BY <1>3, <2>0 DEF KC!vars, ChoiceTypes, KC!PrefersAsPromised
<1> QED
  BY <1>1, <1>2, <1>3 DEF KC!Next

-----------------------------------------------------------------------------
(* The choice of a Proxy (ProxyAffinity).                                  *)

(* Sets are finite in ProxyAffinity if they are here, and as large.        *)
LEMMA HistorySize ==
  /\ \A S : PA!Cardinality(S) = Cardinality(S)
  /\ \A S : PA!IsFiniteSet(S) <=> IsFiniteSet(S)
BY DEF PA!Cardinality, Cardinality, PA!IsFiniteSet, IsFiniteSet

(* A finite set of Proxies can be listed by their ranks.                   *)
LEMMA HistoryOrderExists ==
  ASSUME PA!ConstantsAssumption, NEW S \in SUBSET pa_Proxy
  PROVE  /\ IsFiniteSet(S) /\ Cardinality(S) \in Nat
         /\ PA!InOrder(S) \in [1 .. Cardinality(S) -> S]
<1>0. IsFiniteSet(S)
  BY FS_Subset, HistorySize DEF PA!ConstantsAssumption
<1> DEFINE Sorts(s, q) == /\ q \in [1 .. Cardinality(s) -> s]
                          /\ \A i, j \in DOMAIN q : i < j => pa_Rank[q[i]] < pa_Rank[q[j]]
           T == {s \in SUBSET S : \E q : Sorts(s, q)}
<1>1. {} \in T
  <2> DEFINE q == [i \in 1 .. 0 |-> 0]
  <2>1. Cardinality({}) = 0
    BY FS_EmptySet
  <2>2. Sorts({}, q)
    BY <2>1
  <2> QED
    BY <2>2
<1>2. ASSUME NEW s \in SUBSET S, s # {}, \A x \in s : s \ {x} \in T PROVE s \in T
  <2>1. IsFiniteSet(s) /\ \A x \in s : pa_Rank[x] \in Nat
    BY <1>0, FS_Subset, HistorySize DEF PA!ConstantsAssumption
  <2>2. PICK x \in s : \A y \in s : pa_Rank[y] <= pa_Rank[x]
    BY <1>2, <2>1, GreatestExists
  <2>3. PICK q : Sorts(s \ {x}, q)
    BY <1>2
  <2> DEFINE n == Cardinality(s)
             r == [i \in 1 .. n |-> IF i = n THEN x ELSE q[i]]
  <2>4. n \in Nat \ {0} /\ Cardinality(s \ {x}) = n - 1
    BY <2>1, FS_RemoveElement, FS_CardinalityType, FS_EmptySet
  <2> HIDE DEF n
  <2>5. /\ q \in [1 .. n - 1 -> s \ {x}]
        /\ \A i, j \in 1 .. n - 1 : i < j => pa_Rank[q[i]] < pa_Rank[q[j]]
    BY <2>3, <2>4
  <2>6. r \in [1 .. n -> s]
    BY <2>4, <2>5
  <2>7. ASSUME NEW i \in 1 .. n, NEW j \in 1 .. n, i < j PROVE pa_Rank[r[i]] < pa_Rank[r[j]]
    <3>1. i \in 1 .. n - 1 /\ r[i] = q[i] /\ q[i] \in s /\ q[i] # x
      BY <2>4, <2>5, <2>7
    <3>2. CASE j = n
      <4>1. r[j] = x /\ pa_Rank[q[i]] <= pa_Rank[x] /\ pa_Rank[q[i]] # pa_Rank[x]
        BY <2>2, <2>4, <3>1, <3>2, HistorySize DEF PA!ConstantsAssumption
      <4> HIDE DEF r
      <4> QED
        BY <2>1, <3>1, <4>1
    <3>3. CASE j # n
      BY <2>4, <2>5, <2>7, <3>1, <3>3
    <3> QED
      BY <3>2, <3>3
  <2> HIDE DEF r
  <2>8. Sorts(s, r)
    BY <2>6, <2>7 DEF n
  <2> QED
    BY <2>8
<1>3. S \in T
  <2> HIDE DEF T
  <2> QED
    BY <1>0, <1>1, <1>2, BySize
<1>4. PICK q : Sorts(S, q)
  BY <1>3
<1>5. PA!InOrder(S) \in [1 .. Cardinality(S) -> S]
  BY <1>4, HistorySize DEF PA!InOrder
<1> QED
  BY <1>0, <1>5, FS_CardinalityType

(* The types of the choice of a Proxy.                                     *)
HistoryTypes ==
  /\ pa_listed \subseteq pa_Proxy /\ pa_stayed \subseteq pa_Proxy
  /\ pa_link \in [pa_Proxy -> Nat] /\ pa_inflight \in [pa_Proxy -> Nat]
  /\ pa_score \in [pa_Proxy -> [pa_Kid -> Nat]] /\ pa_cursor \in Nat

(* Somebody is always left to turn over, and is safe.                      *)
LEMMA HistoryTiedOK ==
  ASSUME PA!ConstantsAssumption, HistoryTypes, pa_listed # {}, NEW K \in SUBSET pa_Kid
  PROVE  PA!Tied(K) # {} /\ PA!Tied(K) \subseteq PA!Safe
<1>1. PA!Connectable # {} /\ PA!Connectable \subseteq pa_listed
  BY DEF PA!Connectable
<1>2. \A p \in PA!Connectable : pa_inflight[p] \in Nat /\ pa_link[p] \in Nat
  BY <1>1 DEF HistoryTypes
<1>3. PICK p \in PA!Connectable : \A q \in PA!Connectable : pa_inflight[p] <= pa_inflight[q]
  BY <1>1, <1>2, LeastExists
<1>4. PA!Least(PA!Connectable, pa_inflight) \in Nat /\ pa_inflight[p] <= PA!Least(PA!Connectable, pa_inflight)
  <2> DEFINE M == {pa_inflight[q] : q \in PA!Connectable}
  <2>1. pa_inflight[p] \in M /\ (\A m \in M : pa_inflight[p] <= m) /\ M \subseteq Nat
    BY <1>2, <1>3
  <2>2. PA!Least(PA!Connectable, pa_inflight) = PA!Min(M)
    BY DEF PA!Least
  <2> HIDE DEF M
  <2>3. PA!Min(M) \in M
    BY <2>1 DEF PA!Min
  <2> QED
    BY <2>1, <2>2, <2>3
<1>5. PA!Safe # {} /\ PA!Safe \subseteq PA!Connectable
  BY <1>2, <1>4, HistorySize DEF PA!Safe, PA!ConstantsAssumption
<1> DEFINE safe == PA!Safe
           affinity == [p1 \in safe |-> PA!Affinity(p1, K)]
<1>6. \A q \in safe : affinity[q] \in Nat
  <2> SUFFICES ASSUME NEW q \in safe PROVE PA!Affinity(q, K) \in Nat
    OBVIOUS
  <2>1. q \in pa_Proxy
    BY <1>1, <1>5 DEF HistoryTypes
  <2>2. IsFiniteSet(K) /\ \A x \in K : pa_score[q][x] \in Nat
    BY <2>1, FS_Subset, HistorySize DEF HistoryTypes, PA!ConstantsAssumption
  <2>3. Total(pa_score[q], K) \in Nat
    BY <2>2, TotalType
  <2> QED
    BY <2>3 DEF PA!Affinity, Total,
           PA!MapThenSumSet, PA!MapThenFoldSet, MapThenSumSet, MapThenFoldSet
<1>7. IsFiniteSet(safe)
  BY <1>1, <1>5, FS_Subset, HistorySize DEF PA!ConstantsAssumption, HistoryTypes
<1>8. PA!Favoured(K) # {} /\ PA!Favoured(K) \subseteq PA!Safe
  <2>1. PICK b \in safe : \A q \in safe : affinity[q] <= affinity[b]
    <3> HIDE DEF safe, affinity
    <3>1. safe # {}
      BY <1>5 DEF safe
    <3> QED
      BY <1>6, <1>7, <3>1, GreatestExists
  <2> QED
    BY <2>1 DEF PA!Favoured
<1> DEFINE best == PA!Favoured(K)
<1>9. IsFiniteSet(best) /\ best # {} /\ \A q \in best : pa_link[q] \in Nat /\ pa_inflight[q] \in Nat
  BY <1>1, <1>2, <1>5, <1>7, <1>8, FS_Subset
<1>10. PA!Tied(K) = {b \in best : \A q \in best : PA!NoWorse(b, q)}
  BY DEF PA!Tied
<1> HIDE DEF safe, affinity, best
<1>11. PICK l \in best : \A q \in best : pa_link[q] <= pa_link[l]
  BY <1>9, GreatestExists
<1> DEFINE linked == {q \in best : pa_link[q] = pa_link[l]}
<1>12. linked # {} /\ \A q \in linked : pa_inflight[q] \in Nat
  BY <1>9, <1>11
<1>13. PICK b \in linked : \A q \in linked : pa_inflight[b] <= pa_inflight[q]
  <2> HIDE DEF linked
  <2> QED
    BY <1>12, LeastExists
<1>14. b \in best /\ \A q \in best : PA!NoWorse(b, q)
  BY <1>9, <1>11, <1>13 DEF PA!NoWorse
<1> QED
  BY <1>8, <1>10, <1>14 DEF best

(* The one that is chosen.                                                 *)
LEMMA HistoryChosenOK ==
  ASSUME PA!ConstantsAssumption, HistoryTypes, pa_listed # {}, NEW K \in SUBSET pa_Kid,
         NEW p, p = PA!InOrder(PA!Tied(K))[(pa_cursor % PA!Cardinality(PA!Tied(K))) + 1]
  PROVE  p \in PA!Safe /\ p \in pa_Proxy /\ p \in pa_listed
<1> DEFINE tied == PA!Tied(K)
           n == Cardinality(tied)
<1>1. tied # {} /\ tied \subseteq PA!Safe
  BY HistoryTiedOK
<1>2. PA!Safe \subseteq pa_listed /\ pa_listed \subseteq pa_Proxy
  BY DEF PA!Safe, PA!Connectable, HistoryTypes
<1>3. IsFiniteSet(tied) /\ n \in Nat /\ PA!InOrder(tied) \in [1 .. n -> tied]
  BY <1>1, <1>2, HistoryOrderExists
<1>4. n \in Nat \ {0}
  BY <1>1, <1>3, FS_EmptySet
<1> HIDE DEF tied, n
<1>5. (pa_cursor % n) + 1 \in 1 .. n
  BY <1>4 DEF HistoryTypes
<1>6. p = PA!InOrder(tied)[(pa_cursor % n) + 1]
  BY HistorySize DEF tied, n
<1>7. p \in tied
  BY <1>3, <1>5, <1>6
<1> QED
  BY <1>1, <1>2, <1>7

(* The types of the history hold at first.                                 *)
LEMMA HistoryInitTypes == ASSUME PA!ConstantsAssumption, PA!Init PROVE HistoryTypes
BY HistorySize DEF PA!Init, HistoryTypes, PA!ConstantsAssumption

(* What is kept of a history is what was there, or nothing.                *)
LEMMA HistoryKeptOK ==
  ASSUME NEW h \in [pa_Kid -> Nat], NEW k \in PA!Kept(h)
  PROVE  k \in [pa_Kid -> Nat] /\ \A x \in pa_Kid : k[x] <= h[x]
<1>1. k = h \/ \E T : k = [x \in pa_Kid |-> IF x \in T THEN h[x] ELSE 0]
  BY DEF PA!Kept
<1> QED
  BY <1>1

(* A history decays to natural numbers, Den times which is at most Num     *)
(* times what they were.                                                   *)
LEMMA HistoryDecayedOK ==
  ASSUME PA!ConstantsAssumption, HistoryTypes, NEW q \in pa_Proxy, NEW p
  PROVE  /\ PA!Decayed(p, q) \in [pa_Kid -> Nat]
         /\ q \in pa_listed => \A x \in pa_Kid : pa_Den * PA!Decayed(p, q)[x] <= pa_Num * pa_score[q][x]
<1>1. ASSUME NEW x \in pa_Kid
      PROVE  /\ (pa_score[q][x] * pa_Num) \div pa_Den \in Nat
             /\ pa_Den * ((pa_score[q][x] * pa_Num) \div pa_Den) <= pa_Num * pa_score[q][x]
  <2> DEFINE t == pa_score[q][x] * pa_Num
  <2>1. t \in Nat /\ t = pa_Num * pa_score[q][x] /\ pa_Den \in Nat \ {0}
    BY HistorySize DEF HistoryTypes, PA!ConstantsAssumption
  <2> HIDE DEF t
  <2>2. t \div pa_Den \in Nat /\ pa_Den * (t \div pa_Den) <= t
    BY <2>1
  <2> QED
    BY <2>1, <2>2 DEF t
<1> QED
  BY <1>1 DEF PA!Decayed, HistoryTypes

(* What a selection does to the scores.                                    *)
LEMMA HistorySelectOK ==
  ASSUME PA!ConstantsAssumption, HistoryTypes, NEW K \in SUBSET pa_Kid, PA!Select(K)
  PROVE  /\ HistoryTypes'
         /\ \A p \in pa_Proxy : PA!ChoosesByLoad(p)
         /\ \E p \in pa_listed :
              /\ \A q \in pa_listed \ {p} : \A x \in pa_Kid : pa_Den * pa_score'[q][x] <= pa_Num * pa_score[q][x]
              /\ \A x \in pa_Kid : pa_Den * pa_score'[p][x] <= pa_Num * pa_score[p][x] + pa_Unit * pa_Den
<1> DEFINE tied == PA!Tied(K)
           p == PA!InOrder(tied)[(pa_cursor % PA!Cardinality(tied)) + 1]
<1>1. pa_listed # {}
  BY DEF PA!Select
<1>2. p \in PA!Safe /\ p \in pa_Proxy /\ p \in pa_listed
  BY <1>1, HistoryChosenOK
<1>3. PICK h \in PA!Kept(PA!Raised(PA!Decayed(p, p), K)) :
        pa_score' = [q \in pa_Proxy |-> IF q = p THEN h ELSE PA!Decayed(p, q)]
  BY DEF PA!Select
<1>4. pa_inflight' = [pa_inflight EXCEPT ![p] = @ + 1]
  BY DEF PA!Select
<1>5. pa_cursor' \in Nat /\ pa_listed' = pa_listed /\ pa_link' = pa_link /\ pa_stayed' = pa_stayed \cap pa_listed
  <2>1. pa_cursor' = pa_cursor \/ pa_cursor' = (pa_cursor + 1) % pa_CursorPeriod
    BY DEF PA!Select
  <2> QED
    BY <2>1, HistorySize DEF PA!Select, HistoryTypes, PA!ConstantsAssumption
<1> HIDE DEF tied, p
<1>6. \A q \in pa_Proxy : PA!Decayed(p, q) \in [pa_Kid -> Nat]
  BY HistoryDecayedOK
<1>7. PA!Raised(PA!Decayed(p, p), K) \in [pa_Kid -> Nat] /\
      \A x \in pa_Kid : PA!Raised(PA!Decayed(p, p), K)[x] <= PA!Decayed(p, p)[x] + pa_Unit
  BY <1>2, <1>6, HistorySize DEF PA!Raised, PA!ConstantsAssumption
<1>8. h \in [pa_Kid -> Nat] /\ \A x \in pa_Kid : h[x] <= PA!Raised(PA!Decayed(p, p), K)[x]
  BY <1>7, HistoryKeptOK
<1>9. pa_score' \in [pa_Proxy -> [pa_Kid -> Nat]]
  BY <1>3, <1>6, <1>8
<1>10. pa_inflight' \in [pa_Proxy -> Nat]
  BY <1>2, <1>4 DEF HistoryTypes
<1>11. HistoryTypes'
  BY <1>5, <1>9, <1>10 DEF HistoryTypes
<1>12. ASSUME NEW q \in pa_Proxy PROVE PA!ChoosesByLoad(q)
  <2>1. CASE q # p
    BY <1>4, <1>2, <2>1 DEF PA!ChoosesByLoad, HistoryTypes
  <2>2. CASE q = p
    <3>1. p \in PA!Connectable /\ pa_inflight[p] <= PA!Least(PA!Connectable, pa_inflight) + pa_Window
      BY <1>2 DEF PA!Safe
    <3>2. ASSUME NEW r \in PA!Connectable PROVE pa_inflight[p] <= pa_inflight[r] + pa_Window
      <4> DEFINE M == {pa_inflight[s] : s \in PA!Connectable}
      <4>1. M \in SUBSET Nat /\ pa_inflight[r] \in M
        BY DEF HistoryTypes, PA!Connectable
      <4>2. PA!Least(PA!Connectable, pa_inflight) = PA!Min(M)
        BY DEF PA!Least
      <4> HIDE DEF M
      <4>3. PICK m \in M : \A n \in M : m <= n
        BY <4>1, NatMinimum
      <4>4. PA!Min(M) <= pa_inflight[r] /\ PA!Min(M) \in Nat
        BY <4>1, <4>3 DEF PA!Min
      <4>5. pa_inflight[p] \in Nat /\ pa_inflight[r] \in Nat /\ pa_Window \in Nat
        BY <1>2, <4>1, HistorySize DEF HistoryTypes, PA!ConstantsAssumption
      <4> QED
        BY <3>1, <4>2, <4>4, <4>5
    <3>3. \A r \in pa_listed : pa_link[r] > 0 => pa_link[p] > 0 /\ r \in PA!Connectable
      BY <3>1 DEF PA!Connectable
    <3>4. pa_link[p] = 0 => PA!Connectable = pa_listed
      BY <1>2, <3>1 DEF PA!Connectable, HistoryTypes
    <3> QED
      BY <2>2, <3>2, <3>3, <3>4 DEF PA!ChoosesByLoad
  <2> QED
    BY <2>1, <2>2
<1>13. ASSUME NEW q \in pa_listed \ {p}, NEW x \in pa_Kid PROVE pa_Den * pa_score'[q][x] <= pa_Num * pa_score[q][x]
  BY <1>3, HistoryDecayedOK DEF HistoryTypes
<1>14. ASSUME NEW x \in pa_Kid PROVE pa_Den * pa_score'[p][x] <= pa_Num * pa_score[p][x] + pa_Unit * pa_Den
  <2>1. pa_score'[p] = h
    BY <1>2, <1>3
  <2>2. pa_Den * PA!Decayed(p, p)[x] <= pa_Num * pa_score[p][x]
    BY <1>2, HistoryDecayedOK
  <2> DEFINE d == PA!Decayed(p, p)[x]
             s == pa_score[p][x]
  <2>3. d \in Nat /\ h[x] \in Nat /\ s \in Nat /\ pa_Den \in Nat /\ pa_Num \in Nat /\ pa_Unit \in Nat
    BY <1>2, <1>6, <1>8, HistorySize DEF HistoryTypes, PA!ConstantsAssumption
  <2>4. h[x] <= d + pa_Unit
    BY <1>2, <1>7, <1>8, <2>3
  <2>5. pa_Den * d <= pa_Num * s
    BY <2>2
  <2> HIDE DEF d, s
  <2>6. pa_Den * h[x] <= pa_Den * (d + pa_Unit)
    BY <2>3, <2>4
  <2>7. pa_Den * (d + pa_Unit) = pa_Den * d + pa_Unit * pa_Den
    BY <2>3
  <2>8. pa_Den * h[x] <= pa_Num * s + pa_Unit * pa_Den
    <3>1. pa_Den * h[x] \in Int /\ pa_Den * d \in Int /\ pa_Unit * pa_Den \in Int /\ pa_Num * s \in Int
      BY <2>3
    <3> QED
      BY <2>5, <2>6, <2>7, <3>1
  <2> QED
    BY <2>1, <2>8 DEF s
<1> QED
  BY <1>2, <1>11, <1>12, <1>13, <1>14

(* The history of a block, over the Proxies that stayed.                   *)
HistoryWeights(x) == [p \in pa_Proxy |-> pa_score[p][x]]
HistoryWeight(x) == Total(HistoryWeights(x), pa_stayed)

(* The sum that the property speaks of is the sum of these weights.        *)
LEMMA HistoryWeightIs ==
  ASSUME PA!ConstantsAssumption, HistoryTypes, NEW x \in pa_Kid
  PROVE  PA!MapThenSumSet(LAMBDA p : pa_score[p][x], pa_stayed) = HistoryWeight(x)
<1> DEFINE F(g) == [s \in SUBSET pa_stayed |-> IF s = {} THEN 0
                      ELSE LET p == CHOOSE p \in s : TRUE IN pa_score[p][x] + g[s \ {p}]]
           G(g) == [s \in SUBSET pa_stayed |-> IF s = {} THEN 0
                      ELSE LET p == CHOOSE p \in s : TRUE IN HistoryWeights(x)[p] + g[s \ {p}]]
           iter == CHOOSE g : g = F(g)
<1>1. PA!MapThenSumSet(LAMBDA p : pa_score[p][x], pa_stayed) = iter[pa_stayed]
  BY DEF PA!MapThenSumSet, PA!MapThenFoldSet
<1>2. ASSUME NEW g PROVE F(g) = G(g)
  <2>1. ASSUME NEW s \in SUBSET pa_stayed PROVE F(g)[s] = G(g)[s]
    <3>1. CASE s # {}
      <4> DEFINE p == CHOOSE p \in s : TRUE
      <4>1. p \in pa_Proxy
        BY <3>1 DEF HistoryTypes
      <4> HIDE DEF p
      <4>2. HistoryWeights(x)[p] = pa_score[p][x]
        BY <4>1 DEF HistoryWeights
      <4> QED
        BY <3>1, <4>2 DEF p
    <3> QED
      BY <3>1
  <2> QED
    BY <2>1
<1>3. IsFiniteSet(pa_stayed)
  BY FS_Subset, HistorySize DEF HistoryTypes, PA!ConstantsAssumption
<1>4. PICK g : Sums(HistoryWeights(x), pa_stayed, g)
  BY <1>3, SumsExist
<1>5. g = F(g)
  BY <1>2, <1>4 DEF Sums
<1>6. iter = F(iter)
  <2> HIDE DEF F
  <2> QED
    BY <1>5
<1>7. Sums(HistoryWeights(x), pa_stayed, iter)
  <2> HIDE DEF iter
  <2> QED
    BY SMTT(30), <1>2, <1>6 DEF Sums
<1> QED
  BY <1>1, <1>3, <1>7, TotalIs DEF HistoryWeight

(* A geometric bound: what is kept of w and n more.                        *)
LEMMA HistoryGeometric ==
  ASSUME NEW w \in Nat, NEW v \in Nat, NEW n \in Nat, NEW num \in Nat, NEW den \in Nat \ {0},
         num < den, w * (den - num) <= n * den, den * v <= num * w + n * den
  PROVE  v * (den - num) <= n * den
<1> DEFINE k == den - num
<1>1. k \in Nat \ {0}
  OBVIOUS
<1>2. w * k <= n * den
  OBVIOUS
<1>3. den = num + k
  OBVIOUS
<1> HIDE DEF k
<1>4. (den * v) * k <= (num * w + n * den) * k
  BY <1>1
<1>5. (num * w + n * den) * k = num * (w * k) + (n * den) * k
  BY <1>1
<1>6. num * (w * k) <= num * (n * den)
  BY <1>1, <1>2
<1>7. num * (n * den) + (n * den) * k = (n * den) * den
  <2>1. num * (n * den) + (n * den) * k = (n * den) * (num + k)
    BY <1>1
  <2> QED
    BY <1>3, <2>1
<1>8. (den * v) * k <= (n * den) * den
  <2>1. /\ (den * v) * k \in Int /\ num * (w * k) \in Int /\ (n * den) * k \in Int
        /\ num * (n * den) \in Int /\ (n * den) * den \in Int
    BY <1>1
  <2> QED
    BY <1>4, <1>5, <1>6, <1>7, <2>1
<1>9. (v * k) * den <= (n * den) * den
  BY <1>1, <1>8
<1>10. v * k \in Int /\ n * den \in Int
  BY <1>1
<1>11. v * k <= n * den
  <2> DEFINE a == v * k
             b == n * den
  <2>1. a \in Int /\ b \in Int /\ a * den <= b * den
    BY <1>9, <1>10
  <2> HIDE DEF a, b
  <2>2. a <= b
    BY <2>1
  <2> QED
    BY <2>2 DEF a, b
<1> QED
  BY <1>11 DEF k

HistoryShared == \A x \in pa_Kid : HistoryWeight(x) * (pa_Den - pa_Num) <= pa_Unit * pa_Den

(* The inductive invariant of the choice of a Proxy.                       *)
HistoryIInv == HistoryTypes /\ HistoryShared

(* The invariant implies the property that the run checks.                 *)
LEMMA HistoryIInvShared == ASSUME PA!ConstantsAssumption, HistoryIInv PROVE PA!HistoryIsShared
BY HistoryWeightIs DEF HistoryIInv, HistoryShared, PA!HistoryIsShared

(* The history is empty at first, and its sums are 0.                      *)
LEMMA HistoryInitIInv == ASSUME PA!ConstantsAssumption, PA!Init PROVE HistoryIInv
<1>1. HistoryTypes
  BY HistoryInitTypes
<1>2. ASSUME NEW x \in pa_Kid PROVE HistoryWeight(x) = 0
  <2> DEFINE f == HistoryWeights(x)
             z == [p \in pa_Proxy |-> 0]
  <2>1. f = z
    BY DEF PA!Init, HistoryWeights
  <2>2. IsFiniteSet(pa_stayed) /\ \A p \in pa_stayed : f[p] \in Nat
    BY <1>1, FS_Subset, <2>1, HistorySize DEF HistoryTypes, PA!ConstantsAssumption
  <2>3. \A p \in pa_stayed : 1 * f[p] <= 0 * f[p]
    BY <1>1, <2>1 DEF HistoryTypes
  <2> HIDE DEF f
  <2>4. 1 * Total(f, pa_stayed) <= 0 * Total(f, pa_stayed)
    BY <2>2, <2>3, TotalScaled
  <2>5. Total(f, pa_stayed) \in Nat
    BY <2>2, TotalType
  <2>6. Total(f, pa_stayed) = 0
    BY <2>4, <2>5
  <2> QED
    BY <2>6 DEF HistoryWeight, f
<1>3. HistoryShared
  BY <1>2, HistorySize DEF HistoryShared, PA!ConstantsAssumption
<1> QED
  BY <1>1, <1>3 DEF HistoryIInv

(* Every step of the strategy keeps the invariant: decay and one unit keep *)
(* a sum below the bound.                                                  *)
LEMMA HistoryNextIInv ==
  ASSUME PA!ConstantsAssumption, HistoryIInv, [PA!Next]_PA!vars
  PROVE  HistoryIInv' /\ \A p \in pa_Proxy : PA!ChoosesByLoad(p)
<1> USE DEF HistoryIInv
<1>1. ASSUME NEW K \in SUBSET pa_Kid, PA!Select(K) PROVE HistoryIInv' /\ \A p \in pa_Proxy : PA!ChoosesByLoad(p)
  <2>1. PICK p \in pa_listed :
          /\ \A q \in pa_listed \ {p} : \A x \in pa_Kid : pa_Den * pa_score'[q][x] <= pa_Num * pa_score[q][x]
          /\ \A x \in pa_Kid : pa_Den * pa_score'[p][x] <= pa_Num * pa_score[p][x] + pa_Unit * pa_Den
    BY <1>1, HistorySelectOK
  <2>2. HistoryTypes' /\ \A q \in pa_Proxy : PA!ChoosesByLoad(q)
    BY <1>1, HistorySelectOK
  <2>3. pa_stayed' = pa_stayed \cap pa_listed /\ IsFiniteSet(pa_stayed)
    BY <1>1, FS_Subset, HistorySize DEF PA!Select, HistoryTypes, PA!ConstantsAssumption
  <2>4. ASSUME NEW x \in pa_Kid PROVE (HistoryWeight(x) * (pa_Den - pa_Num) <= pa_Unit * pa_Den)'
    <3> DEFINE f == HistoryWeights(x)
               g == HistoryWeights(x)'
               S == pa_stayed'
    <3>1. f \in [pa_Proxy -> Nat] /\ g \in [pa_Proxy -> Nat] /\ S \subseteq pa_stayed /\ S \subseteq pa_listed /\ S \subseteq pa_Proxy
      BY <2>2, <2>3 DEF HistoryTypes, HistoryWeights
    <3>2. \A q \in pa_Proxy : f[q] = pa_score[q][x] /\ g[q] = pa_score'[q][x]
      BY DEF HistoryWeights
    <3>3. \A q \in S \ {p} : pa_Den * g[q] <= pa_Num * f[q]
      BY <2>1, <3>1, <3>2
    <3>4. p \in S => pa_Den * g[p] <= pa_Num * f[p] + pa_Unit * pa_Den
      BY <2>1, <3>1, <3>2
    <3>5. IsFiniteSet(S) /\ \A q \in S : f[q] \in Nat /\ g[q] \in Nat
      BY <2>3, <3>1, FS_Subset
    <3>6. \A q \in pa_stayed : f[q] \in Nat
      BY <3>1 DEF HistoryTypes
    <3>7. HistoryWeight(x) = Total(f, pa_stayed) /\ HistoryWeight(x)' = Total(g, S)
      BY DEF HistoryWeight
    <3> HIDE DEF f, g, S
    <3>8. pa_Num \in Nat /\ pa_Den \in Nat \ {0} /\ pa_Num < pa_Den /\ pa_Unit \in Nat /\ pa_Unit * pa_Den \in Nat
      BY HistorySize DEF PA!ConstantsAssumption
    <3>9. pa_Den * Total(g, S) <= pa_Num * Total(f, S) + pa_Unit * pa_Den
      BY <3>3, <3>4, <3>5, <3>8, TotalScaledButOne
    <3>10. Total(f, S) <= Total(f, pa_stayed)
      BY <2>3, <3>1, <3>6, TotalOfPart
    <3>11. Total(f, S) \in Nat /\ Total(g, S) \in Nat /\ Total(f, pa_stayed) \in Nat
      BY <2>3, <3>5, <3>6, TotalType
    <3>12. Total(f, pa_stayed) * (pa_Den - pa_Num) <= pa_Unit * pa_Den
      BY <3>7 DEF HistoryShared
    <3> DEFINE a == Total(f, S)
               b == Total(g, S)
               c == Total(f, pa_stayed)
    <3>13. a \in Nat /\ b \in Nat /\ c \in Nat /\ a <= c /\ pa_Den * b <= pa_Num * a + pa_Unit * pa_Den /\ c * (pa_Den - pa_Num) <= pa_Unit * pa_Den
      BY <3>9, <3>10, <3>11, <3>12
    <3> HIDE DEF a, b, c
    <3>14. pa_Num * a <= pa_Num * c /\ pa_Num * a \in Int /\ pa_Num * c \in Int
      BY <3>8, <3>13
    <3>15. pa_Den * b <= pa_Num * c + pa_Unit * pa_Den
      <4>1. pa_Den * b \in Int
        BY <3>8, <3>13
      <4> QED
        BY <3>8, <3>13, <3>14, <4>1
    <3>16. b * (pa_Den - pa_Num) <= pa_Unit * pa_Den
      BY <3>8, <3>13, <3>15, HistoryGeometric
    <3> QED
      BY <3>7, <3>16 DEF b
  <2> QED
    BY <2>2, <2>4 DEF HistoryShared
<1>2. ASSUME HistoryTypes', pa_inflight' # pa_inflight => \E p \in pa_Proxy : pa_inflight' = [pa_inflight EXCEPT ![p] = @ - 1],
             pa_score' = pa_score, pa_stayed' = pa_stayed
      PROVE  HistoryIInv' /\ \A p \in pa_Proxy : PA!ChoosesByLoad(p)
  <2>1. HistoryShared'
    BY <1>2 DEF HistoryShared, HistoryWeight, HistoryWeights
  <2>2. \A p \in pa_Proxy : pa_inflight'[p] <= pa_inflight[p]
    BY <1>2 DEF HistoryTypes
  <2> QED
    BY <1>2, <2>1, <2>2 DEF PA!ChoosesByLoad, HistoryTypes
<1>3. ASSUME NEW p \in pa_Proxy, PA!Finish(p) \/ PA!ListChanges(p)
      PROVE  HistoryIInv' /\ \A q \in pa_Proxy : PA!ChoosesByLoad(q)
  <2>1. CASE PA!Finish(p)
    <3>1. HistoryTypes'
      BY <2>1 DEF PA!Finish, HistoryTypes
    <3> QED
      BY <1>2, <2>1, <3>1 DEF PA!Finish
  <2>2. CASE PA!ListChanges(p)
    <3>1. HistoryTypes'
      BY <2>2 DEF PA!ListChanges, HistoryTypes
    <3> QED
      BY <1>2, <2>2, <3>1 DEF PA!ListChanges
  <2> QED
    BY <1>3, <2>1, <2>2
<1>4. CASE UNCHANGED PA!vars
  <2>1. HistoryTypes'
    BY <1>4 DEF PA!vars, HistoryTypes
  <2> QED
    BY <1>2, <1>4, <2>1 DEF PA!vars
<1> QED
  BY <1>1, <1>3, <1>4 DEF PA!Next

-----------------------------------------------------------------------------
(* The KDN's link (KdnLink).                                               *)

(* A set is finite in KdnLink if it is here, and has the same size.        *)
LEMMA LinkFinite == KL!ConstantsAssumption => IsFiniteSet(kl_Handler)
BY DEF KL!ConstantsAssumption, KL!IsFiniteSet, IsFiniteSet

(* The instance of the library in KdnLink counts as this module's does.    *)
LEMMA LinkSize == \A S : KL!Cardinality(S) = Cardinality(S)
BY DEF KL!Cardinality, Cardinality

(* The types of the link.                                                  *)
LinkTypes ==
  /\ kl_pending \in Seq(kl_Handler) /\ kl_active \subseteq kl_Handler /\ kl_waiting \subseteq kl_Handler
  /\ kl_worker \in {"get", "serve"} /\ kl_stopped \in BOOLEAN

(* A heartbeat reports no more than all injections.                        *)
LinkReported == kl_reported \in 0 .. Cardinality(kl_Handler)

(* The worker that sleeps has one transfer, the worker that takes none.    *)
LinkOneTransfer ==
  \/ kl_worker = "get" /\ kl_active = {}
  \/ kl_worker = "serve" /\ \E h \in kl_Handler : kl_active = {h}

(* Who is in the queue or on the link waits, and is there once.            *)
LinkQueued ==
  /\ kl_active \subseteq kl_waiting
  /\ \A i \in 1 .. Len(kl_pending) : kl_pending[i] \in kl_waiting \ kl_active
  /\ \A i, j \in 1 .. Len(kl_pending) : i # j => kl_pending[i] # kl_pending[j]

(* The load counts every handler that waits.                               *)
LinkCounted == Len(kl_pending) + Cardinality(kl_active) = Cardinality(kl_waiting)

(* The inductive invariant of the link.                                    *)
LinkIInv == LinkTypes /\ LinkReported /\ LinkOneTransfer /\ LinkQueued /\ LinkCounted

(* The link's invariant holds at first.                                    *)
LEMMA LinkInitIInv == ASSUME KL!ConstantsAssumption, KL!Init PROVE LinkIInv
<1>1. Cardinality({}) = 0 /\ IsFiniteSet({}) /\ Cardinality(kl_Handler) \in Nat
  BY FS_EmptySet, FS_CardinalityType, LinkFinite
<1>2. LinkReported
  BY <1>1 DEF KL!Init, LinkReported
<1>3. LinkTypes
  <2>1. kl_stopped \in BOOLEAN
    BY Zenon DEF KL!Init
  <2>2. kl_pending = <<>> /\ kl_active = {} /\ kl_waiting = {} /\ kl_worker = "get"
    BY DEF KL!Init
  <2> QED
    BY <2>1, <2>2 DEF LinkTypes
<1>4. LinkOneTransfer /\ LinkQueued /\ LinkCounted
  BY <1>1 DEF KL!Init, LinkOneTransfer, LinkQueued, LinkCounted
<1> QED
  BY <1>2, <1>3, <1>4 DEF LinkIInv

(* A transfer more in the queue, and an injection more that waits.         *)
LEMMA LinkSubmitIInv ==
  ASSUME KL!ConstantsAssumption, LinkIInv, NEW h \in kl_Handler, KL!Submit(h)
  PROVE  LinkIInv'
<1> USE DEF LinkIInv
<1>1. Len(kl_pending') = Len(kl_pending) + 1 /\ kl_pending' \in Seq(kl_Handler)
  BY DEF KL!Submit, LinkTypes
<1>2. \A i \in 1 .. Len(kl_pending') : kl_pending'[i] = IF i <= Len(kl_pending) THEN kl_pending[i] ELSE h
  BY <1>1 DEF KL!Submit, LinkTypes
<1>3. LinkTypes' /\ LinkReported' /\ LinkOneTransfer'
  BY <1>1 DEF KL!Submit, LinkTypes, LinkReported, LinkOneTransfer
<1>4. LinkQueued'
  BY <1>1, <1>2 DEF KL!Submit, LinkTypes, LinkQueued
<1>5. IsFiniteSet(kl_waiting) /\ IsFiniteSet(kl_active)
  BY FS_Subset, LinkFinite DEF LinkTypes
<1>6. /\ Cardinality(kl_waiting \cup {h}) = Cardinality(kl_waiting) + 1
      /\ Cardinality(kl_waiting) \in Nat /\ Cardinality(kl_active) \in Nat
  BY <1>5, FS_AddElement, FS_CardinalityType DEF KL!Submit
<1>7. LinkCounted'
  BY <1>1, <1>6 DEF KL!Submit, LinkTypes, LinkCounted
<1> QED
  BY <1>3, <1>4, <1>7

(* The first of the queue goes on the link.                                *)
LEMMA LinkStartIInv ==
  ASSUME KL!ConstantsAssumption, LinkIInv, KL!Start
  PROVE  LinkIInv'
<1> USE DEF LinkIInv
<1> DEFINE h == Head(kl_pending)
<1>1. /\ kl_pending # <<>> /\ kl_active = {} /\ kl_active' = {h} /\ kl_waiting' = kl_waiting
      /\ kl_worker' = "serve" /\ kl_pending' = Tail(kl_pending) /\ UNCHANGED <<kl_stopped, kl_reported>>
  BY DEF KL!Start, LinkOneTransfer
<1>2. /\ Len(kl_pending) \in Nat \ {0} /\ h = kl_pending[1] /\ h \in kl_Handler
      /\ Len(kl_pending') = Len(kl_pending) - 1 /\ kl_pending' \in Seq(kl_Handler)
  BY <1>1 DEF LinkTypes
<1>3. \A i \in 1 .. Len(kl_pending') : kl_pending'[i] = kl_pending[i + 1]
  BY <1>1, <1>2 DEF LinkTypes
<1>4. LinkTypes' /\ LinkReported' /\ LinkOneTransfer'
  BY <1>1, <1>2 DEF LinkTypes, LinkReported, LinkOneTransfer
<1>5. LinkQueued'
  BY <1>1, <1>2, <1>3 DEF LinkTypes, LinkQueued
<1>6. Cardinality({h}) = 1 /\ Cardinality({}) = 0
  BY FS_Singleton, FS_EmptySet
<1>7. LinkCounted'
  BY <1>1, <1>2, <1>6 DEF LinkCounted
<1> QED
  BY <1>4, <1>5, <1>7

(* The one on the link leaves, and with it an injection that waited.       *)
LEMMA LinkFinishIInv ==
  ASSUME KL!ConstantsAssumption, LinkIInv, NEW h \in kl_Handler, KL!Finish(h)
  PROVE  LinkIInv'
<1> USE DEF LinkIInv
<1>1. /\ kl_active = {h} /\ kl_active' = {} /\ kl_worker' = "get" /\ kl_pending' = kl_pending
      /\ kl_waiting' = kl_waiting \ {h} /\ h \in kl_waiting /\ UNCHANGED <<kl_stopped, kl_reported>>
  BY DEF KL!Finish, LinkOneTransfer, LinkQueued
<1>2. LinkTypes' /\ LinkReported' /\ LinkOneTransfer' /\ LinkQueued'
  BY <1>1 DEF LinkTypes, LinkReported, LinkOneTransfer, LinkQueued
<1>3. IsFiniteSet(kl_waiting)
  BY FS_Subset, LinkFinite DEF LinkTypes
<1>4. /\ Cardinality(kl_waiting \ {h}) = Cardinality(kl_waiting) - 1
      /\ Cardinality({h}) = 1 /\ Cardinality({}) = 0 /\ Cardinality(kl_waiting) \in Nat
  BY <1>1, <1>3, FS_RemoveElement, FS_Singleton, FS_EmptySet, FS_CardinalityType
<1>5. LinkCounted'
  BY <1>1, <1>4 DEF LinkCounted, LinkTypes
<1> QED
  BY <1>2, <1>5

(* Every step of the link keeps it.                                        *)
LEMMA LinkNextIInv == ASSUME KL!ConstantsAssumption, LinkIInv, [KL!Next]_KL!vars PROVE LinkIInv'
<1>1. CASE \E h \in kl_Handler : KL!Submit(h)
  BY <1>1, LinkSubmitIInv
<1>2. CASE \E h \in kl_Handler : KL!Finish(h)
  BY <1>2, LinkFinishIInv
<1>3. CASE KL!Start
  BY <1>3, LinkStartIInv
<1>4. CASE KL!Beat
  <2>1. KL!Load \in 0 .. Cardinality(kl_Handler)
    <3>1. kl_waiting \subseteq kl_Handler
      BY DEF LinkIInv, LinkTypes
    <3>2. Cardinality(kl_waiting) <= Cardinality(kl_Handler) /\ Cardinality(kl_waiting) \in Nat
      <4>1. IsFiniteSet(kl_Handler) /\ IsFiniteSet(kl_waiting)
        BY <3>1, FS_Subset, LinkFinite
      <4> QED
        BY <3>1, <4>1, FS_Subset, FS_CardinalityType
    <3>3. KL!Load = Cardinality(kl_waiting) /\ Cardinality(kl_Handler) \in Nat
      BY LinkSize, LinkFinite, FS_CardinalityType DEF KL!Load, LinkIInv, LinkCounted
    <3> QED
      BY <3>2, <3>3
  <2>2. LinkReported'
    BY <1>4, <2>1 DEF KL!Beat, LinkReported
  <2> QED
    BY <1>4, <2>2 DEF KL!Beat, LinkIInv, LinkTypes, LinkOneTransfer, LinkQueued, LinkCounted
<1>5. CASE KL!Stop \/ UNCHANGED KL!vars
  BY <1>5 DEF KL!Stop, KL!vars, LinkIInv, LinkTypes, LinkReported, LinkOneTransfer, LinkQueued, LinkCounted
<1> QED
  BY <1>1, <1>2, <1>3, <1>4, <1>5 DEF KL!Next

(* It implies the statement on the link that the run checks.               *)
LEMMA LinkSerial == ASSUME LinkIInv PROVE KL!SerialLink
<1>1. Cardinality({}) = 0 /\ \A h \in kl_Handler : Cardinality({h}) = 1
  BY FS_EmptySet, FS_Singleton
<1>2. Cardinality(kl_active) <= 1
  BY <1>1 DEF LinkIInv, LinkOneTransfer
<1>3. Len(kl_pending) + Cardinality(kl_active) = Cardinality(kl_waiting)
  BY DEF LinkIInv, LinkCounted
<1> QED
  BY <1>2, <1>3, LinkSize DEF KL!SerialLink, KL!Load

-----------------------------------------------------------------------------
(* The forecast of the Proxy's queues (QueueForecast).                     *)

(* The later of two times.                                                 *)
LEMMA ForecastLaterOK ==
  ASSUME NEW a \in Int, NEW b \in Int
  PROVE  QF!Later(a, b) \in {a, b} /\ a <= QF!Later(a, b) /\ b <= QF!Later(a, b)
BY DEF QF!Later, QF!Max

(* There is a slot that is free first.                                     *)
LEMMA ForecastFirstFreeOK ==
  ASSUME QF!ConstantsAssumption, NEW slots \in [1 .. qf_Slots -> Nat]
  PROVE  QF!FirstFree(slots) \in 1 .. qf_Slots
<1> DEFINE T == {slots[s] : s \in 1 .. qf_Slots}
<1>1. T \in SUBSET Nat /\ slots[1] \in T /\ 1 .. qf_Slots \subseteq Nat
  BY DEF QF!ConstantsAssumption
<1>2. PICK m \in T : \A n \in T : m <= n
  <2> HIDE DEF T
  <2> QED
    BY <1>1, NatMinimum
<1> DEFINE U == {s \in 1 .. qf_Slots : slots[s] = m}
<1>3. PICK s \in U : \A r \in U : s <= r
  <2>1. U \in SUBSET Nat /\ U # {}
    BY <1>2
  <2> HIDE DEF U
  <2> QED
    BY <2>1, NatMinimum
<1>4. s \in 1 .. qf_Slots /\ \A r \in 1 .. qf_Slots : slots[s] < slots[r] \/ (slots[s] = slots[r] /\ s <= r)
  <2>1. s \in 1 .. qf_Slots /\ slots[s] = m
    BY <1>3
  <2>2. ASSUME NEW r \in 1 .. qf_Slots PROVE slots[s] < slots[r] \/ (slots[s] = slots[r] /\ s <= r)
    <3>1. m <= slots[r] /\ slots[r] \in Nat /\ m \in Nat
      BY <1>1, <1>2
    <3>2. slots[r] = m => s <= r
      BY <1>3
    <3> QED
      BY <2>1, <3>1, <3>2
  <2> QED
    BY <2>1, <2>2
<1> QED
  BY <1>4 DEF QF!FirstFree

(* The chain of reservations.                                              *)

(* A window, and what a chain of reservations carries along.               *)
ForecastWindow == [from : Nat, to : Nat]
ForecastChain == [slots : [1 .. qf_Slots -> Nat], cursor : Nat, prefill : [qf_Task -> ForecastWindow]]

(* A reservation is behind the chain, and the chain then ends with it.     *)
LEMMA ForecastChainedOK ==
  ASSUME QF!ConstantsAssumption, qf_now \in Nat, NEW c \in ForecastChain, NEW t \in qf_Task
  PROVE  /\ QF!Chained(c, t) \in ForecastChain /\ c.cursor <= QF!Chained(c, t).cursor
         /\ c.cursor <= QF!Chained(c, t).prefill[t].from
         /\ QF!Chained(c, t).prefill[t].to = QF!Chained(c, t).cursor
         /\ \A u \in qf_Task : u # t => QF!Chained(c, t).prefill[u] = c.prefill[u]
<1> DEFINE s     == QF!FirstFree(c.slots)
           start == QF!Later(QF!Later(qf_now, c.slots[s]), c.cursor)
           first == start + qf_Service[t]
<1>1. s \in 1 .. qf_Slots /\ c.slots[s] \in Nat /\ c.cursor \in Nat /\ qf_Service[t] \in Nat
  BY ForecastFirstFreeOK DEF ForecastChain, QF!ConstantsAssumption
<1>2. start \in Nat /\ c.cursor <= start
  <2>1. QF!Later(qf_now, c.slots[s]) \in Nat
    BY <1>1, ForecastLaterOK
  <2> QED
    BY <1>1, <2>1, ForecastLaterOK
<1>3. first \in Nat /\ start <= first
  BY <1>1, <1>2
<1> HIDE DEF start, first, s
<1>4. QF!Chained(c, t) = [slots |-> [c.slots EXCEPT ![s] = first], cursor |-> first,
                       prefill |-> [c.prefill EXCEPT ![t] = [from |-> start, to |-> first]]]
  BY DEF QF!Chained, start, first, s
<1>5. [c.slots EXCEPT ![s] = first] \in [1 .. qf_Slots -> Nat]
  BY <1>1, <1>3 DEF ForecastChain
<1>6. /\ [c.prefill EXCEPT ![t] = [from |-> start, to |-> first]] \in [qf_Task -> ForecastWindow]
      /\ [c.prefill EXCEPT ![t] = [from |-> start, to |-> first]][t] = [from |-> start, to |-> first]
      /\ \A u \in qf_Task : u # t => [c.prefill EXCEPT ![t] = [from |-> start, to |-> first]][u] = c.prefill[u]
  BY <1>2, <1>3 DEF ForecastChain, ForecastWindow
<1> QED
  BY <1>1, <1>2, <1>3, <1>4, <1>5, <1>6 DEF ForecastChain

(* The first n entries of q follow each other, and end at the cursor.      *)
ForecastInChain(q, n, c) ==
  /\ \A i \in 1 .. n - 1 : c.prefill[q[i]].to <= c.prefill[q[i + 1]].from
  /\ \A i \in 1 .. n : c.prefill[q[i]].to <= c.cursor

(* One more entry.                                                         *)
LEMMA ForecastInChainStep ==
  ASSUME QF!ConstantsAssumption, qf_now \in Nat, NEW q \in Seq(qf_Task), QF!IsInjective(q), NEW n \in Nat, n + 1 <= Len(q),
         NEW c \in ForecastChain, ForecastInChain(q, n, c)
  PROVE  ForecastInChain(q, n + 1, QF!Chained(c, q[n + 1]))
<1> DEFINE t == q[n + 1]
           d == QF!Chained(c, t)
<1>1. t \in qf_Task /\ n + 1 \in DOMAIN q /\ DOMAIN q = 1 .. Len(q)
  OBVIOUS
<1>2. /\ d \in ForecastChain /\ c.cursor <= d.cursor /\ c.cursor <= d.prefill[t].from /\ d.prefill[t].to = d.cursor
      /\ \A u \in qf_Task : u # t => d.prefill[u] = c.prefill[u]
  BY <1>1, ForecastChainedOK
<1> HIDE DEF d
<1>3. \A i \in 1 .. n : q[i] \in qf_Task /\ q[i] # t
  BY <1>1 DEF QF!IsInjective
<1>4. \A i \in 1 .. n : d.prefill[q[i]] = c.prefill[q[i]]
  BY <1>2, <1>3
<1>5. \A i \in 1 .. n : c.prefill[q[i]].to <= c.cursor /\ c.prefill[q[i]].to \in Nat
  BY <1>3 DEF ForecastInChain, ForecastChain, ForecastWindow
<1>6. c.cursor \in Nat /\ d.cursor \in Nat /\ d.prefill[t].from \in Nat
  BY <1>1, <1>2 DEF ForecastChain, ForecastWindow
<1>7. ASSUME NEW i \in 1 .. n PROVE d.prefill[q[i]].to <= d.prefill[q[i + 1]].from
  <2>1. CASE i = n
    BY <1>2, <1>4, <1>5, <1>6, <2>1
  <2>2. CASE i \in 1 .. n - 1
    <3>1. i \in 1 .. n /\ i + 1 \in 1 .. n
      BY <2>2
    <3>2. d.prefill[q[i]] = c.prefill[q[i]] /\ d.prefill[q[i + 1]] = c.prefill[q[i + 1]]
      BY <1>4, <3>1
    <3>3. c.prefill[q[i]].to <= c.prefill[q[i + 1]].from
      BY <2>2 DEF ForecastInChain
    <3> QED
      BY <3>2, <3>3
  <2> QED
    BY <2>1, <2>2
<1>8. ASSUME NEW i \in 1 .. n + 1 PROVE d.prefill[q[i]].to <= d.cursor
  <2>1. CASE i = n + 1
    BY <1>2, <1>6, <2>1
  <2>2. CASE i \in 1 .. n
    <3>1. d.prefill[q[i]].to = c.prefill[q[i]].to
      BY <1>4, <2>2
    <3>2. c.prefill[q[i]].to <= c.cursor /\ c.prefill[q[i]].to \in Nat
      BY <1>5, <2>2
    <3> QED
      BY <1>2, <1>6, <3>1, <3>2
  <2> QED
    BY <2>1, <2>2
<1> QED
  BY <1>7, <1>8 DEF ForecastInChain, d

(* The function that FoldLeft folds with.                                  *)
ForecastFolding(base, q, g) ==
  g = [s \in SUBSET DOMAIN q |-> IF s = {} THEN base
                                 ELSE LET x == QF!Max(s) IN QF!Chained(g[s \ {x}], q[x])]

(* A fold over a sequence is the value of the chosen such function.        *)
LEMMA ForecastFoldDef ==
  ASSUME NEW base, NEW q PROVE QF!FoldLeft(QF!Chained, base, q) = (CHOOSE g : ForecastFolding(base, q, g))[DOMAIN q]
BY DEF QF!FoldLeft, QF!MapThenFoldSet, ForecastFolding

(* A finite nonempty set of naturals has a greatest element, and Max is it.*)
LEMMA ForecastMaxOK ==
  ASSUME NEW S, IsFiniteSet(S), S # {}, S \subseteq Nat
  PROVE  QF!Max(S) \in S /\ \A y \in S : y <= QF!Max(S)
<1> DEFINE T == {s \in SUBSET S : s # {} => \E x \in s : \A y \in s : y <= x}
<1>1. {} \in T
  OBVIOUS
<1>2. ASSUME NEW s \in SUBSET S, s # {}, \A x \in s : s \ {x} \in T PROVE s \in T
  <2>1. PICK x \in s : TRUE
    BY <1>2
  <2>2. CASE s = {x}
    BY <2>2
  <2>3. CASE s # {x}
    <3>1. s \ {x} # {} /\ s \ {x} \in T
      BY <1>2, <2>3
    <3>2. PICK z \in s \ {x} : \A y \in s \ {x} : y <= z
      BY <3>1
    <3>3. CASE x <= z
      BY <3>2, <3>3
    <3>4. CASE z <= x
      BY <3>2, <3>4
    <3> QED
      BY <3>3, <3>4
  <2> QED
    BY <2>2, <2>3
<1> HIDE DEF T
<1>3. S \in T
  BY <1>1, <1>2, BySize
<1>4. PICK x \in S : \A y \in S : y <= x
  BY <1>3 DEF T
<1>5. x \in S /\ \A y \in S : x >= y
  BY <1>4
<1> QED
  BY <1>5 DEF QF!Max

(* The entries of a sequence are finitely many.                            *)
LEMMA ForecastEntriesOK ==
  ASSUME NEW q \in Seq(qf_Task)
  PROVE  /\ DOMAIN q = 1 .. Len(q) /\ Len(q) \in Nat
         /\ IsFiniteSet(DOMAIN q) /\ Cardinality(DOMAIN q) = Len(q)
         /\ \A s \in SUBSET DOMAIN q :
              /\ IsFiniteSet(s) /\ Cardinality(s) \in 0 .. Len(q)
              /\ s # {} => /\ QF!Max(s) \in s /\ \A y \in s : y <= QF!Max(s)
                           /\ Cardinality(s \ {QF!Max(s)}) = Cardinality(s) - 1 /\ Cardinality(s) # 0
<1>1. DOMAIN q = 1 .. Len(q) /\ Len(q) \in Nat
  OBVIOUS
<1>2. IsFiniteSet(DOMAIN q) /\ Cardinality(DOMAIN q) = Len(q)
  <2>1. IsFiniteSet(1 .. Len(q)) /\ Cardinality(1 .. Len(q)) = IF 1 > Len(q) THEN 0 ELSE Len(q) - 1 + 1
    BY <1>1, FS_Interval
  <2> QED
    BY <1>1, <2>1
<1>3. ASSUME NEW s \in SUBSET DOMAIN q
      PROVE  IsFiniteSet(s) /\ Cardinality(s) \in 0 .. Len(q)
  BY <1>1, <1>2, FS_Subset, FS_CardinalityType
<1>4. ASSUME NEW s \in SUBSET DOMAIN q, s # {}
      PROVE  /\ QF!Max(s) \in s /\ \A y \in s : y <= QF!Max(s)
             /\ Cardinality(s \ {QF!Max(s)}) = Cardinality(s) - 1 /\ Cardinality(s) # 0
  <2>1. s \subseteq Nat /\ IsFiniteSet(s)
    BY <1>1, <1>3, <1>4
  <2>2. QF!Max(s) \in s /\ \A y \in s : y <= QF!Max(s)
    BY <1>4, <2>1, ForecastMaxOK
  <2>3. Cardinality(s \ {QF!Max(s)}) = Cardinality(s) - 1
    BY <2>1, <2>2, FS_RemoveElement
  <2>4. Cardinality(s) # 0
    BY <1>4, <2>1, FS_EmptySet
  <2> QED
    BY <2>2, <2>3, <2>4
<1> QED
  BY <1>1, <1>2, <1>3, <1>4

(* There is such a function.                                               *)
LEMMA ForecastFoldExists ==
  ASSUME NEW q \in Seq(qf_Task), NEW base PROVE \E g : ForecastFolding(base, q, g)
<1> DEFINE D == DOMAIN q
           Once(g) == [s \in SUBSET D |-> IF s = {} THEN base
                          ELSE LET x == QF!Max(s) IN QF!Chained(g[s \ {x}], q[x])]
           OK(n, g) == g = [s \in SUBSET D |-> g[s]] /\
                       \A s \in SUBSET D : Cardinality(s) <= n => g[s] = Once(g)[s]
           Bad == {n \in Nat : ~ \E g : OK(n, g)}
<1>0. \A s \in SUBSET D : Cardinality(s) \in 0 .. Len(q) /\ Cardinality(D) = Len(q) /\ Len(q) \in Nat
  BY ForecastEntriesOK
<1>5. \A s \in SUBSET D : s # {} =>
        QF!Max(s) \in s /\ Cardinality(s \ {QF!Max(s)}) = Cardinality(s) - 1 /\ Cardinality(s) # 0
  BY ForecastEntriesOK
<1> HIDE DEF D
<1>1. ASSUME Bad # {} PROVE FALSE
  <2>1. PICK n \in Bad : \A m \in Bad : n <= m
    <3>1. Bad \in SUBSET Nat
      OBVIOUS
    <3> HIDE DEF Bad
    <3> QED
      BY <1>1, <3>1, NatMinimum
  <2>2. n # 0
    <3> DEFINE g == [s \in SUBSET D |-> base]
    <3>1. ASSUME NEW s \in SUBSET D, Cardinality(s) <= 0 PROVE g[s] = Once(g)[s]
      <4>1. s = {}
        <5>1. Cardinality(s) \in 0 .. Len(q) /\ Len(q) \in Nat
          BY <1>0
        <5>2. Cardinality(s) = 0
          BY <3>1, <5>1
        <5> QED
          BY <1>5, <5>2
      <4> QED
        BY <4>1
    <3>2. g = [s \in SUBSET D |-> g[s]]
      OBVIOUS
    <3>3. OK(0, g)
      <4> HIDE DEF g
      <4> QED
        BY <3>1, <3>2
    <3> HIDE DEF OK, g
    <3> QED
      BY <2>1, <3>3
  <2>3. n - 1 \in Nat /\ n - 1 \notin Bad
    <3>1. n \in Nat /\ \A m \in Bad : n <= m
      BY <2>1
    <3> HIDE DEF Bad
    <3> QED
      BY <2>2, <3>1
  <2>4. PICK g : OK(n - 1, g)
    BY <2>3
  <2> DEFINE h == Once(g)
  <2>5. OK(n, h)
    <3> SUFFICES ASSUME NEW s \in SUBSET D, Cardinality(s) <= n PROVE h[s] = Once(h)[s]
      <4>1. h = [s \in SUBSET D |-> h[s]]
        OBVIOUS
      <4> HIDE DEF h
      <4> QED
        BY <4>1
    <3>1. CASE s = {}
      BY <3>1
    <3>2. CASE s # {}
      <4> DEFINE x == QF!Max(s)
      <4>1. x \in s
        BY <1>5, <3>2
      <4>2. s \ {x} \in SUBSET D /\ Cardinality(s \ {x}) <= n - 1
        BY <1>0, <1>5, <3>2
      <4> HIDE DEF x
      <4>3. g[s \ {x}] = h[s \ {x}]
        BY <2>4, <4>2
      <4> HIDE DEF h
      <4>4. h[s] = QF!Chained(g[s \ {x}], q[x])
        BY <3>2 DEF h, x
      <4> QED
        BY <3>2, <4>3, <4>4 DEF x
    <3> QED
      BY <3>1, <3>2
  <2> HIDE DEF OK
  <2> QED
    BY <2>1, <2>5
<1>2. PICK g : OK(Len(q), g)
  BY <1>0, <1>1
<1>4. g = Once(g)
  <2>1. \A s \in SUBSET D : Cardinality(s) <= Len(q)
    BY <1>0
  <2>2. g = [s \in SUBSET D |-> g[s]] /\ \A s \in SUBSET D : g[s] = Once(g)[s]
    BY <1>2, <2>1
  <2> QED
    BY <2>2
<1> QED
  BY <1>4 DEF ForecastFolding, D

(* A fold over the tasks is a chain that they follow each other in.        *)
LEMMA ForecastFoldOK ==
  ASSUME QF!ConstantsAssumption, qf_now \in Nat, NEW q \in Seq(qf_Task), QF!IsInjective(q), NEW base \in ForecastChain
  PROVE  QF!FoldLeft(QF!Chained, base, q) \in ForecastChain /\ ForecastInChain(q, Len(q), QF!FoldLeft(QF!Chained, base, q))
<1>1. PICK g : ForecastFolding(base, q, g) /\ QF!FoldLeft(QF!Chained, base, q) = g[DOMAIN q]
  BY ForecastFoldExists, ForecastFoldDef
<1>2. DOMAIN q = 1 .. Len(q) /\ Len(q) \in Nat
  BY ForecastEntriesOK
<1> DEFINE Bad == {n \in Nat : n <= Len(q) /\ ~ (g[1 .. n] \in ForecastChain /\ ForecastInChain(q, n, g[1 .. n]))}
<1>3. ASSUME Bad # {} PROVE FALSE
  <2>1. PICK n \in Bad : \A m \in Bad : n <= m
    <3>1. Bad \in SUBSET Nat
      OBVIOUS
    <3> HIDE DEF Bad
    <3> QED
      BY <1>3, <3>1, NatMinimum
  <2>2. n # 0
    <3>1. 1 .. 0 = {} /\ 1 .. 0 - 1 = {}
      OBVIOUS
    <3>2. g[1 .. 0] = base
      BY <1>1, <3>1 DEF ForecastFolding
    <3>3. ForecastInChain(q, 0, base)
      BY <3>1 DEF ForecastInChain
    <3> QED
      BY <2>1, <3>2, <3>3
  <2> DEFINE m == n - 1
  <2>3. m \in Nat /\ m \notin Bad /\ n = m + 1 /\ m + 1 <= Len(q)
    <3>1. n \in Nat /\ n <= Len(q) /\ \A k \in Bad : n <= k
      BY <2>1
    <3> HIDE DEF Bad
    <3> QED
      BY <2>2, <3>1
  <2>4. g[1 .. m] \in ForecastChain /\ ForecastInChain(q, m, g[1 .. m])
    BY <1>2, <2>3
  <2> HIDE DEF m
  <2>5. 1 .. m + 1 \in SUBSET DOMAIN q /\ 1 .. m + 1 # {} /\ m + 1 \in 1 .. m + 1
    <3>1. \A i \in 1 .. m + 1 : i \in 1 .. Len(q)
      BY <1>2, <2>3
    <3>2. m + 1 \in 1 .. m + 1
      BY <2>3
    <3> QED
      BY <1>2, <3>1, <3>2
  <2>6. QF!Max(1 .. m + 1) = m + 1
    <3>1. QF!Max(1 .. m + 1) \in 1 .. m + 1 /\ m + 1 <= QF!Max(1 .. m + 1)
      BY <2>5, ForecastEntriesOK
    <3> QED
      BY <2>3, <3>1
  <2>7. (1 .. m + 1) \ {m + 1} = 1 .. m
    BY <2>3
  <2>8. g[1 .. m + 1] = QF!Chained(g[1 .. m], q[m + 1])
    BY <1>1, <2>5, <2>6, <2>7 DEF ForecastFolding
  <2>9. q[m + 1] \in qf_Task
    BY <2>5
  <2>10. g[1 .. m + 1] \in ForecastChain
    BY <2>4, <2>8, <2>9, ForecastChainedOK
  <2>11. ForecastInChain(q, m + 1, g[1 .. m + 1])
    BY <2>3, <2>4, <2>8, ForecastInChainStep
  <2> QED
    BY <2>1, <2>3, <2>10, <2>11
<1> QED
  BY <1>1, <1>2, <1>3

(* The invariant.                                                          *)

(* The types of the forecast.                                              *)
ForecastTypes ==
  /\ qf_now \in 0 .. qf_MaxTime
  /\ qf_stage \in [qf_Task -> {"new", "waiting", "injecting", "prepared", "ready", "streaming", "gone"}]
  /\ qf_linkFree \in Nat /\ qf_activeUntil = qf_linkFree /\ qf_window \in [qf_Task -> ForecastWindow]
  /\ qf_slotFree \in [1 .. qf_Slots -> Nat] /\ qf_prefillFree \in Nat /\ qf_prefill \in [qf_Task -> ForecastWindow]
  /\ qf_pending \in Seq(qf_Task) /\ QF!IsInjective(qf_pending)
  /\ QF!ToSet(qf_pending) = {t \in qf_Task : qf_stage[t] = "ready"}

ForecastLinkPromises ==
  /\ \A t \in qf_Task : qf_window[t].to <= qf_linkFree
  /\ \A t, u \in qf_Task : t # u => QF!Disjoint(qf_window[t], qf_window[u])

ForecastPrefillPromises ==
  ForecastInChain(qf_pending, Len(qf_pending), [slots |-> qf_slotFree, cursor |-> qf_prefillFree, prefill |-> qf_prefill])

(* The inductive invariant of the forecast.                                *)
ForecastIInv == ForecastTypes /\ ForecastLinkPromises /\ ForecastPrefillPromises

(* The forecast's invariant holds at first.                                *)
LEMMA ForecastInitIInv == ASSUME QF!ConstantsAssumption, QF!Init PROVE ForecastIInv
<1>1. ForecastTypes
  BY DEF QF!Init, QF!ConstantsAssumption, ForecastTypes, ForecastWindow, QF!NoWindow, QF!IsInjective, QF!ToSet
<1>2. ForecastLinkPromises
  BY DEF QF!Init, ForecastLinkPromises, QF!NoWindow, QF!Disjoint
<1>3. ForecastPrefillPromises
  BY DEF QF!Init, ForecastPrefillPromises, ForecastInChain
<1> QED
  BY <1>1, <1>2, <1>3 DEF ForecastIInv

(* The index of an entry behind the removed one.                           *)
LEMMA ForecastShiftedIndex ==
  ASSUME NEW i \in Nat, NEW j \in Nat, NEW l \in Nat, i <= j, j <= l - 1
  PROVE  /\ ~(j <= i - 1) /\ j - (i - 1) \in 1 .. l - i
         /\ i + (j - (i - 1)) = j + 1
OBVIOUS

(* A sequence without its i-th entry: the entries before it keep their     *)
(* place, those after it move up by one.                                   *)
LEMMA ForecastRemovalKeeps ==
  ASSUME NEW q \in Seq(qf_Task), NEW i \in DOMAIN q, QF!IsInjective(q),
         NEW r, r = SubSeq(q, 1, i - 1) \o SubSeq(q, i + 1, Len(q))
  PROVE  r \in Seq(qf_Task) /\ QF!IsInjective(r) /\ QF!ToSet(r) = QF!ToSet(q) \ {q[i]}
<1>0. PICK l \in Nat : l = Len(q)
  BY LenProperties
<1> DEFINE a == SubSeq(q, 1, i - 1)
           b == SubSeq(q, i + 1, l)
<1>1. i \in Nat /\ 1 <= i /\ i <= l /\ DOMAIN q = 1 .. l
  BY <1>0, LenProperties
<1>2. \A j \in 1 .. l : q[j] \in qf_Task
  BY <1>0, <1>1, ElementOfSeq
<1>3. a \in Seq(qf_Task) /\ Len(a) = i - 1 /\ \A j \in 1 .. i - 1 : a[j] = q[j]
  BY <1>1, <1>2, SubSeqProperties
<1>4. b \in Seq(qf_Task) /\ Len(b) = l - i /\ \A j \in 1 .. l - i : b[j] = q[i + j]
  <2>1. \A j \in i + 1 .. l : q[j] \in qf_Task
    BY <1>1, <1>2
  <2>2. i + 1 \in Int /\ l \in Int
    BY <1>1
  <2>3. \A m, n \in Int : (\A j \in m .. n : q[j] \in qf_Task) =>
           /\ SubSeq(q, m, n) \in Seq(qf_Task)
           /\ Len(SubSeq(q, m, n)) = IF m <= n THEN n - m + 1 ELSE 0
           /\ \A j \in 1 .. n - m + 1 : SubSeq(q, m, n)[j] = q[m + j - 1]
    BY SubSeqProperties
  <2>4. /\ b \in Seq(qf_Task)
        /\ Len(b) = IF i + 1 <= l THEN l - (i + 1) + 1 ELSE 0
        /\ \A j \in 1 .. l - (i + 1) + 1 : b[j] = q[(i + 1) + j - 1]
    BY <2>1, <2>2, <2>3
  <2> HIDE DEF b
  <2>5. l - (i + 1) + 1 = l - i /\ \A j \in 1 .. l - i : (i + 1) + j - 1 = i + j
    BY SMTT(30), <1>1
  <2>6. Len(b) = l - i
    BY <1>1, <2>4
  <2> QED
    BY <2>4, <2>5, <2>6
<1>5. r = a \o b
  BY <1>0
<1> HIDE DEF a, b
<1>6. /\ r \in Seq(qf_Task) /\ Len(r) = (i - 1) + (l - i)
      /\ \A j \in 1 .. (i - 1) + (l - i) : r[j] = IF j <= i - 1 THEN a[j] ELSE b[j - (i - 1)]
  <2>1. /\ a \o b \in Seq(qf_Task)
        /\ Len(a \o b) = Len(a) + Len(b)
        /\ \A j \in 1 .. Len(a) + Len(b) : (a \o b)[j] = IF j <= Len(a) THEN a[j] ELSE b[j - Len(a)]
    <3>1. a \in Seq(qf_Task) /\ b \in Seq(qf_Task)
      BY <1>3, <1>4
    <3> HIDE <1>3, <1>4
    <3> QED
      BY <3>1, ConcatProperties
  <2> QED
    BY <1>3, <1>4, <1>5, <2>1
<1>7. (i - 1) + (l - i) = l - 1
  BY <1>1
<1>8. DOMAIN r = 1 .. l - 1
  BY <1>6, <1>7, LenProperties
<1>9. ASSUME NEW j \in 1 .. l - 1 PROVE r[j] = IF j < i THEN q[j] ELSE q[j + 1]
  <2>1. CASE j < i
    <3>1. j <= i - 1 /\ j \in 1 .. i - 1
      BY <1>1, <2>1
    <3> QED
      BY <1>3, <1>6, <1>7, <2>1, <3>1
  <2>2. CASE ~(j < i)
    <3>1. j \in Nat /\ i \in Nat /\ l \in Nat /\ i <= j /\ j <= l - 1
      BY <1>1, <2>2
    <3>2. /\ ~(j <= i - 1) /\ j - (i - 1) \in 1 .. l - i
          /\ i + (j - (i - 1)) = j + 1
      BY <3>1, ForecastShiftedIndex
    <3> QED
      BY <1>4, <1>6, <1>7, <2>2, <3>2
  <2> QED
    BY <2>1, <2>2
<1>10. ASSUME NEW m \in 1 .. l - 1, NEW n \in 1 .. l - 1, r[m] = r[n] PROVE m = n
  <2>1. m \in DOMAIN q /\ m + 1 \in DOMAIN q /\ n \in DOMAIN q /\ n + 1 \in DOMAIN q
    BY <1>1
  <2>2. (IF m < i THEN m ELSE m + 1) = (IF n < i THEN n ELSE n + 1)
    BY <1>9, <1>10, <2>1 DEF QF!IsInjective
  <2> QED
    BY <1>1, <2>2
<1>11. ASSUME NEW j \in DOMAIN q, j # i PROVE q[j] \in QF!ToSet(r)
  <2>1. CASE j < i
    <3>1. j \in 1 .. l - 1 /\ r[j] = q[j]
      BY <1>1, <1>9, <2>1
    <3> QED
      BY <1>8, <3>1 DEF QF!ToSet
  <2>2. CASE ~(j < i)
    <3>1. j - 1 \in 1 .. l - 1 /\ ~(j - 1 < i) /\ (j - 1) + 1 = j
      BY <1>1, <1>11, <2>2
    <3>2. r[j - 1] = q[j]
      BY <1>9, <3>1
    <3> QED
      BY <1>8, <3>1, <3>2 DEF QF!ToSet
  <2> QED
    BY <2>1, <2>2
<1>12. ASSUME NEW j \in 1 .. l - 1 PROVE r[j] \in QF!ToSet(q) \ {q[i]}
  <2>1. j \in DOMAIN q /\ j + 1 \in DOMAIN q /\ (j < i => j # i) /\ (~(j < i) => j + 1 # i)
    BY <1>1
  <2>2. r[j] = IF j < i THEN q[j] ELSE q[j + 1]
    BY <1>9
  <2> QED
    BY <2>1, <2>2 DEF QF!IsInjective, QF!ToSet
<1>13. QF!ToSet(r) = QF!ToSet(q) \ {q[i]}
  <2>1. \A x \in QF!ToSet(r) : x \in QF!ToSet(q) \ {q[i]}
    BY <1>8, <1>12 DEF QF!ToSet
  <2>2. \A x \in QF!ToSet(q) \ {q[i]} : x \in QF!ToSet(r)
    BY <1>11 DEF QF!ToSet
  <2> QED
    BY <2>1, <2>2
<1>14. QF!IsInjective(r)
  BY <1>8, <1>10 DEF QF!IsInjective
<1> QED
  BY <1>6, <1>13, <1>14

(* A task is taken out, the others stay in their order.                   *)
LEMMA ForecastWithoutOK ==
  ASSUME NEW q \in Seq(qf_Task), QF!IsInjective(q), NEW t \in QF!ToSet(q)
  PROVE  /\ QF!Without(q, t) \in Seq(qf_Task) /\ QF!IsInjective(QF!Without(q, t))
         /\ QF!ToSet(QF!Without(q, t)) = QF!ToSet(q) \ {t}
<1>1. PICK k \in DOMAIN q : q[k] = t
  BY DEF QF!ToSet
<1>2. DOMAIN q = 1 .. Len(q) /\ Len(q) \in Nat /\ k \in 1 .. Len(q)
  BY <1>1, ForecastEntriesOK
<1>3. QF!SelectInSeq(q, LAMBDA v : v = t) = k
  <2>1. {i \in 1 .. Len(q) : q[i] = t} = {k}
    BY <1>1, <1>2 DEF QF!IsInjective
  <2>2. QF!Min({k}) = k
    BY <1>2 DEF QF!Min
  <2> QED
    BY <2>1, <2>2 DEF QF!SelectInSeq
<1>4. QF!Without(q, t) = SubSeq(q, 1, k - 1) \o SubSeq(q, k + 1, Len(q))
  BY <1>1, <1>2, <1>3 DEF QF!Without, QF!RemoveFirst, QF!RemoveAt
<1> QED
  BY <1>1, <1>4, ForecastRemovalKeeps

(* A rebuilt chain of the tasks that are left.                             *)
LEMMA ForecastRebuildOK ==
  ASSUME QF!ConstantsAssumption, ForecastIInv, NEW t \in qf_Task, qf_stage[t] = "ready", NEW next \in {"streaming", "gone"},
         qf_stage' = [qf_stage EXCEPT ![t] = next], QF!Rebuild(QF!Without(qf_pending, t)), UNCHANGED <<qf_now, QF!linkVars>>
  PROVE  ForecastIInv'
<1> DEFINE rest == QF!Without(qf_pending, t)
           base == [slots |-> [s \in 1 .. qf_Slots |-> qf_now], cursor |-> qf_now, prefill |-> qf_prefill]
           chain == QF!FoldLeft(QF!Chained, base, rest)
<1>1. qf_now \in Nat /\ base \in ForecastChain
  BY DEF ForecastIInv, ForecastTypes, QF!ConstantsAssumption, ForecastChain
<1>2. rest \in Seq(qf_Task) /\ QF!IsInjective(rest) /\ QF!ToSet(rest) = QF!ToSet(qf_pending) \ {t}
  BY ForecastWithoutOK DEF ForecastIInv, ForecastTypes
<1> HIDE DEF rest, base
<1>3. chain \in ForecastChain /\ ForecastInChain(rest, Len(rest), chain)
  BY <1>1, <1>2, ForecastFoldOK
<1>4. qf_pending' = rest /\ qf_slotFree' = chain.slots /\ qf_prefillFree' = chain.cursor /\ qf_prefill' = chain.prefill
  BY DEF QF!Rebuild, QF!Becomes, rest, base
<1> HIDE DEF chain
<1>5. ForecastTypes'
  BY <1>2, <1>3, <1>4 DEF ForecastIInv, ForecastTypes, ForecastChain, QF!linkVars
<1>6. ForecastLinkPromises'
  BY DEF ForecastIInv, ForecastLinkPromises, QF!linkVars, QF!Disjoint
<1>7. ForecastPrefillPromises'
  BY <1>3, <1>4 DEF ForecastPrefillPromises, ForecastInChain
<1> QED
  BY <1>5, <1>6, <1>7 DEF ForecastIInv

(* The steps of the link.                                                  *)
LEMMA ForecastLinkOK ==
  ASSUME QF!ConstantsAssumption, ForecastIInv, NEW t \in qf_Task,
         QF!Prepare(t) \/ QF!ReserveLink(t) \/ QF!Inject(t) \/ QF!Injected(t) \/ QF!InjectFails(t)
  PROVE  ForecastIInv'
<1> USE DEF ForecastIInv
<1>1. /\ qf_stage[t] # "ready" /\ UNCHANGED <<qf_now, QF!prefillVars>>
      /\ \E next \in {"prepared", "gone", "waiting", "injecting"} : qf_stage' = [qf_stage EXCEPT ![t] = next]
  BY DEF QF!Prepare, QF!ReserveLink, QF!Inject, QF!Injected, QF!InjectFails
<1>2. ForecastPrefillPromises'
  BY <1>1 DEF ForecastPrefillPromises, ForecastInChain, QF!prefillVars
<1>3. {u \in qf_Task : qf_stage'[u] = "ready"} = {u \in qf_Task : qf_stage[u] = "ready"}
  BY <1>1 DEF ForecastTypes
<1>4. /\ qf_now' \in 0 .. qf_MaxTime
      /\ qf_stage' \in [qf_Task -> {"new", "waiting", "injecting", "prepared", "ready", "streaming", "gone"}]
      /\ qf_slotFree' \in [1 .. qf_Slots -> Nat] /\ qf_prefillFree' \in Nat /\ qf_prefill' \in [qf_Task -> ForecastWindow]
      /\ qf_pending' \in Seq(qf_Task) /\ QF!IsInjective(qf_pending')
      /\ QF!ToSet(qf_pending') = {u \in qf_Task : qf_stage'[u] = "ready"}
  BY <1>1, <1>3 DEF ForecastTypes, QF!prefillVars
<1>5. CASE UNCHANGED QF!linkVars
  BY <1>2, <1>4, <1>5 DEF ForecastTypes, ForecastLinkPromises, QF!linkVars, QF!Disjoint
<1>6. CASE QF!ReserveLink(t)
  <2> DEFINE start == QF!Later(qf_now, qf_linkFree)
             free  == start + qf_Transfer[t]
  <2>1. /\ qf_linkFree' = free /\ qf_activeUntil' = free
        /\ qf_window' = [qf_window EXCEPT ![t] = [from |-> start, to |-> free]]
    BY <1>6 DEF QF!ReserveLink
  <2>2. start \in Nat /\ free \in Nat /\ qf_linkFree \in Nat /\ qf_linkFree <= start /\ start <= free
    <3>1. qf_now \in Nat /\ qf_linkFree \in Nat /\ qf_Transfer[t] \in Nat
      BY DEF ForecastTypes, QF!ConstantsAssumption
    <3>2. start \in Nat /\ qf_linkFree <= start
      BY <3>1, ForecastLaterOK
    <3> HIDE DEF start
    <3> QED
      BY <3>1, <3>2
  <2> HIDE DEF start, free
  <2>3. qf_window' \in [qf_Task -> ForecastWindow] /\ qf_window'[t] = [from |-> start, to |-> free]
        /\ \A u \in qf_Task : u # t => qf_window'[u] = qf_window[u]
    BY <2>1, <2>2 DEF ForecastTypes, ForecastWindow
  <2>4. ForecastTypes'
    BY <1>4, <2>1, <2>2, <2>3 DEF ForecastTypes
  <2>5. \A u \in qf_Task : qf_window[u].to \in Nat /\ qf_window[u].to <= qf_linkFree
    BY DEF ForecastTypes, ForecastLinkPromises, ForecastWindow
  <2>6. \A u \in qf_Task : qf_window'[u].to <= qf_linkFree'
    BY <2>1, <2>2, <2>3, <2>5
  <2>7. ASSUME NEW u \in qf_Task, u # t PROVE qf_window[u].to <= start
    BY <2>2, <2>5
  <2>8. \A u, v \in qf_Task : u # v => QF!Disjoint(qf_window'[u], qf_window'[v])
    BY <2>3, <2>7 DEF ForecastLinkPromises, QF!Disjoint
  <2> QED
    BY <1>2, <2>4, <2>6, <2>8 DEF ForecastLinkPromises, QF!Disjoint
<1>7. CASE QF!Injected(t)
  <2>1. qf_now \in Nat /\ qf_linkFree \in Nat /\ qf_activeUntil = qf_linkFree /\ qf_window' = qf_window
        /\ qf_linkFree' = QF!Later(qf_linkFree, qf_now) /\ qf_activeUntil' = IF qf_now >= qf_activeUntil THEN qf_now ELSE qf_activeUntil
    BY <1>7 DEF QF!Injected, ForecastTypes
  <2>2. qf_linkFree' \in Nat /\ qf_linkFree <= qf_linkFree' /\ qf_activeUntil' = qf_linkFree'
    <3>1. qf_linkFree' \in {qf_linkFree, qf_now} /\ qf_linkFree <= qf_linkFree' /\ qf_now <= qf_linkFree'
      BY <2>1, ForecastLaterOK
    <3> QED
      BY <2>1, <3>1
  <2>3. ForecastTypes'
    BY <1>4, <2>1, <2>2 DEF ForecastTypes
  <2>4. \A u \in qf_Task : qf_window[u].to \in Nat /\ qf_window[u].to <= qf_linkFree
    BY DEF ForecastTypes, ForecastLinkPromises, ForecastWindow
  <2>5. ForecastLinkPromises'
    BY <2>1, <2>2, <2>4 DEF ForecastLinkPromises, QF!Disjoint
  <2> QED
    BY <1>2, <2>3, <2>5
<1> QED
  BY <1>5, <1>6, <1>7 DEF QF!Prepare, QF!Inject, QF!InjectFails

(* A task is reserved behind those that are ready.                         *)
LEMMA ForecastReserveReadyOK ==
  ASSUME QF!ConstantsAssumption, ForecastIInv, NEW t \in qf_Task, QF!ReserveReady(t)
  PROVE  ForecastIInv'
<1> USE DEF ForecastIInv
<1> DEFINE c == [slots |-> qf_slotFree, cursor |-> qf_prefillFree, prefill |-> qf_prefill]
           d == QF!Chained(c, t)
           n == Len(qf_pending)
<1>1. qf_now \in Nat /\ c \in ForecastChain /\ n \in Nat /\ qf_pending \in Seq(qf_Task) /\ QF!IsInjective(qf_pending)
  BY DEF ForecastTypes, QF!ConstantsAssumption, ForecastChain
<1>2. t \notin QF!ToSet(qf_pending) /\ qf_pending' = Append(qf_pending, t) /\ qf_stage' = [qf_stage EXCEPT ![t] = "ready"]
      /\ UNCHANGED <<qf_now, QF!linkVars>>
  BY DEF QF!ReserveReady, ForecastTypes
<1>3. qf_slotFree' = d.slots /\ qf_prefillFree' = d.cursor /\ qf_prefill' = d.prefill
  BY DEF QF!ReserveReady, QF!Becomes
<1>4. /\ qf_pending' \in Seq(qf_Task) /\ Len(qf_pending') = n + 1 /\ qf_pending'[n + 1] = t
      /\ \A i \in 1 .. n : qf_pending'[i] = qf_pending[i]
  BY <1>1, <1>2
<1>5. DOMAIN qf_pending = 1 .. n /\ DOMAIN qf_pending' = 1 .. n + 1
  BY <1>1, <1>4
<1>6. QF!IsInjective(qf_pending') /\ QF!ToSet(qf_pending') = QF!ToSet(qf_pending) \cup {t}
  <2>1. \A i \in 1 .. n : qf_pending[i] \in QF!ToSet(qf_pending)
    BY <1>5 DEF QF!ToSet
  <2>2. \A i \in 1 .. n + 1 : i \in 1 .. n \/ i = n + 1
    BY <1>1
  <2>3. \A i \in 1 .. n : i \in 1 .. n + 1
    BY <1>1
  <2>4. n + 1 \in 1 .. n + 1
    BY <1>1
  <2>5. QF!IsInjective(qf_pending')
    BY <1>1, <1>2, <1>4, <1>5, <2>1, <2>2 DEF QF!IsInjective
  <2>6. QF!ToSet(qf_pending') = QF!ToSet(qf_pending) \cup {t}
    BY <1>4, <1>5, <2>2, <2>3, <2>4 DEF QF!ToSet
  <2> QED
    BY <2>5, <2>6
<1>7. ForecastInChain(qf_pending', n, c)
  <2>1. \A i \in 1 .. n - 1 : i \in 1 .. n /\ i + 1 \in 1 .. n
    BY <1>1
  <2> QED
    BY <1>4, <2>1 DEF ForecastPrefillPromises, ForecastInChain
<1> HIDE DEF n, c
<1>8. d \in ForecastChain /\ ForecastInChain(qf_pending', n + 1, d)
  <2>1. d \in ForecastChain
    BY <1>1, ForecastChainedOK
  <2>2. n + 1 <= Len(qf_pending') /\ QF!IsInjective(qf_pending') /\ qf_pending' \in Seq(qf_Task)
    BY <1>1, <1>4, <1>6
  <2>3. \A q \in Seq(qf_Task) : QF!IsInjective(q) /\ n + 1 <= Len(q) /\ ForecastInChain(q, n, c)
           => ForecastInChain(q, n + 1, QF!Chained(c, q[n + 1]))
    BY <1>1, ForecastInChainStep
  <2> QED
    BY <1>4, <1>7, <2>1, <2>2, <2>3
<1> HIDE DEF d
<1>9. ForecastTypes'
  BY <1>2, <1>3, <1>4, <1>6, <1>8 DEF ForecastTypes, ForecastChain, QF!linkVars
<1>10. ForecastLinkPromises'
  BY <1>2 DEF ForecastLinkPromises, QF!linkVars, QF!Disjoint
<1>11. ForecastPrefillPromises'
  BY <1>3, <1>4, <1>8 DEF ForecastPrefillPromises, ForecastInChain
<1> QED
  BY <1>9, <1>10, <1>11

(* Every step of the queues keeps it.                                      *)
LEMMA ForecastNextIInv == ASSUME QF!ConstantsAssumption, ForecastIInv, [QF!Next]_QF!vars PROVE ForecastIInv'
<1>1. CASE QF!Tick
  <2>1. qf_now' \in 0 .. qf_MaxTime /\ UNCHANGED <<qf_stage, QF!linkVars, QF!prefillVars>>
    BY <1>1 DEF QF!Tick, ForecastIInv, ForecastTypes, QF!ConstantsAssumption
  <2> QED
    BY <2>1 DEF ForecastIInv, ForecastTypes, ForecastLinkPromises, ForecastPrefillPromises, ForecastInChain, QF!Disjoint, QF!linkVars, QF!prefillVars
<1>2. ASSUME NEW t \in qf_Task, QF!FirstToken(t) PROVE ForecastIInv'
  BY <1>2, ForecastRebuildOK DEF QF!FirstToken
<1>3. ASSUME NEW t \in qf_Task, QF!EndForward(t) PROVE ForecastIInv'
  <2>1. CASE qf_stage[t] = "ready"
    BY <1>3, <2>1, ForecastRebuildOK DEF QF!EndForward
  <2>2. CASE qf_stage[t] # "ready"
    <3>1. qf_stage' = [qf_stage EXCEPT ![t] = "gone"] /\ UNCHANGED <<qf_now, QF!linkVars, QF!prefillVars>>
      BY <1>3, <2>2 DEF QF!EndForward
    <3>2. {u \in qf_Task : qf_stage'[u] = "ready"} = {u \in qf_Task : qf_stage[u] = "ready"}
      BY <2>2, <3>1 DEF ForecastIInv, ForecastTypes
    <3> QED
      BY <3>1, <3>2 DEF ForecastIInv, ForecastTypes, ForecastLinkPromises, ForecastPrefillPromises, ForecastInChain, QF!Disjoint, QF!linkVars, QF!prefillVars
  <2> QED
    BY <2>1, <2>2
<1>4. CASE UNCHANGED QF!vars
  BY <1>4 DEF ForecastIInv, ForecastTypes, ForecastLinkPromises, ForecastPrefillPromises, ForecastInChain, QF!Disjoint, QF!linkVars, QF!prefillVars, QF!vars
<1> QED
  BY <1>1, <1>2, <1>3, <1>4, ForecastLinkOK, ForecastReserveReadyOK DEF QF!Next

(* What the strategies are told is behind everything that is promised.     *)
LEMMA ForecastPromises == ASSUME QF!ConstantsAssumption, ForecastIInv PROVE QF!TypeOK /\ QF!NoWindowIsPromisedTwice
<1> USE DEF ForecastIInv
<1>1. QF!TypeOK
  BY DEF ForecastTypes, QF!TypeOK, ForecastWindow
<1>2. qf_now \in Nat /\ qf_linkFree \in Nat /\ qf_activeUntil = qf_linkFree /\ qf_prefillFree \in Nat /\ qf_slotFree \in [1 .. qf_Slots -> Nat]
  BY DEF ForecastTypes, QF!ConstantsAssumption
<1>3. QF!TextWait = QF!KvWait /\ qf_linkFree <= qf_now + QF!KvWait
  <2>1. QF!Later(0, qf_linkFree - qf_now) \in Int /\ qf_linkFree - qf_now <= QF!Later(0, qf_linkFree - qf_now)
    BY <1>2, ForecastLaterOK
  <2> QED
    BY <1>2, <2>1 DEF QF!TextWait, QF!KvWait
<1>4. qf_prefillFree <= qf_now + QF!ReadyWait
  <2> DEFINE s == qf_slotFree[QF!FirstFree(qf_slotFree)]
  <2>1. s \in Nat
    BY <1>2, ForecastFirstFreeOK
  <2> HIDE DEF s
  <2>2. QF!Later(qf_now, s) \in Nat
    BY <1>2, <2>1, ForecastLaterOK
  <2>3. QF!Later(QF!Later(qf_now, s), qf_prefillFree) \in Int /\ qf_prefillFree <= QF!Later(QF!Later(qf_now, s), qf_prefillFree)
    BY <1>2, <2>2, ForecastLaterOK
  <2> QED
    BY <1>2, <2>3 DEF QF!ReadyWait, s
<1>5. \A t \in qf_Task : qf_now + QF!KvWait >= qf_window[t].to
  <2>1. \A t \in qf_Task : qf_window[t].to \in Nat /\ qf_window[t].to <= qf_linkFree
    BY DEF ForecastTypes, ForecastLinkPromises, ForecastWindow
  <2>2. QF!KvWait \in Int
    BY <1>2, ForecastLaterOK DEF QF!KvWait
  <2> QED
    BY <1>2, <1>3, <2>1, <2>2
<1>6. \A i \in 1 .. Len(qf_pending) : qf_now + QF!ReadyWait >= qf_prefill[qf_pending[i]].to
  <2>1. \A i \in 1 .. Len(qf_pending) : qf_prefill[qf_pending[i]].to <= qf_prefillFree /\ qf_prefill[qf_pending[i]].to \in Nat
    BY DEF ForecastTypes, ForecastPrefillPromises, ForecastInChain, ForecastWindow
  <2>2. qf_now + QF!ReadyWait \in Int
    BY <1>2, ForecastFirstFreeOK, ForecastLaterOK DEF QF!ReadyWait
  <2> QED
    BY <1>2, <1>4, <2>1, <2>2
<1> QED
  BY <1>1, <1>3, <1>5, <1>6 DEF QF!NoWindowIsPromisedTwice, ForecastLinkPromises, ForecastPrefillPromises, ForecastInChain

-----------------------------------------------------------------------------
(* The traces of a request (RequestTraces).                                *)

(* What a collector may be.                                                *)
TraceCollectors == [on : BOOLEAN, open : SUBSET RT!Stages, closed : SUBSET RT!Stages, n : Nat,
               handle : [RT!Names -> Nat \cup {rt_None}], trace : RT!Traces \cup {rt_None}]

(* A collector's stages have numbers of their own, their parents are       *)
(* there, those that run can be finished by their handles, and the others  *)
(* are valid; one that is off has none.                                    *)
TraceSound(c) ==
  /\ c \in TraceCollectors
  /\ \A g \in c.open \cup c.closed : g.id < c.n
  /\ \A g, h \in c.open \cup c.closed : g.id = h.id => g = h
  /\ \A g \in c.open \cup c.closed : g.parent # rt_None => g.parent # g.id /\ g.parent \in RT!Ids(c)
  /\ \A g \in c.open : g.state = "running" /\ g.outcome = rt_None /\ c.handle[g.name] = g.id
  /\ \A g \in c.closed : g.state # "running" /\ RT!ValidStage(g)
  /\ ~c.on => c.open = {}

(* What matters of it: the names of the stages that run, and the outcomes  *)
(* of the closed ones of a name.                                           *)
TraceRunning(c) == {g.name : g \in c.open}
TraceOutcomesOf(stages, m) == {g.outcome : g \in {g \in stages : g.name = m}}

(* A stage that is recorded is one, and is numbered after its parent.      *)
LEMMA TraceStageOK ==
  ASSUME NEW c, TraceSound(c), NEW m \in RT!Names, NEW p \in RT!Ids(c) \cup {rt_None},
         NEW state \in {"running", "completed", "skipped"}
  PROVE  RT!Stage(c, m, p, state) \in RT!Stages /\ p \in Nat \cup {rt_None} /\ (p # rt_None => p < c.n)
<1>1. \A x \in RT!Ids(c) : x \in Nat /\ x < c.n
  BY DEF RT!Ids, TraceSound, TraceCollectors, RT!Stages
<1>2. c.n \in Nat
  BY DEF TraceSound, TraceCollectors
<1> QED
  BY <1>1, <1>2 DEF RT!Stage, RT!Stages

(* What the three operations do, in these terms.                           *)
TraceStarted(c, m, d) ==
  /\ TraceSound(d) /\ d.on = c.on /\ d.closed = c.closed /\ d.trace = c.trace
  /\ TraceRunning(d) = TraceRunning(c) \cup {m}
  /\ RT!Ids(c) \subseteq RT!Ids(d) /\ d.handle[m] \in RT!Ids(d)
  /\ \A k \in RT!Names : k # m => d.handle[k] = c.handle[k]

TraceSkipped(c, m, d) ==
  /\ TraceSound(d) /\ d.on = c.on /\ d.trace = c.trace /\ d.handle = c.handle
  /\ TraceRunning(d) = TraceRunning(c) /\ RT!Ids(c) \subseteq RT!Ids(d)
  /\ TraceOutcomesOf(d.closed, m) = TraceOutcomesOf(c.closed, m) \cup {rt_None}
  /\ \A k \in RT!Names : k # m => TraceOutcomesOf(d.closed, k) = TraceOutcomesOf(c.closed, k)

TraceFinished(c, names, outcome, d) ==
  /\ TraceSound(d) /\ d.on = c.on /\ d.trace = c.trace /\ d.handle = c.handle
  /\ TraceRunning(d) = TraceRunning(c) \ names /\ RT!Ids(d) = RT!Ids(c)
  /\ \A m : TraceOutcomesOf(d.closed, m) = TraceOutcomesOf(c.closed, m) \cup
             (IF m \in TraceRunning(c) \cap names THEN {outcome} ELSE {})

(* A stage that is started runs, and can be finished by its handle.        *)
LEMMA TraceStartOK ==
  ASSUME RT!ConstantsAssumption, NEW c, TraceSound(c), c.on, NEW m \in RT!Names, m \notin TraceRunning(c),
         NEW p \in RT!Ids(c) \cup {rt_None}
  PROVE  TraceStarted(c, m, RT!Start(c, m, p))
<1> DEFINE g == RT!Stage(c, m, p, "running")
           d == RT!Start(c, m, p)
<1>1. d = [c EXCEPT !.open = @ \cup {g}, !.n = @ + 1, !.handle[m] = c.n]
  BY DEF RT!Start
<1>2. c \in TraceCollectors /\ g \in RT!Stages /\ (p # rt_None => p < c.n) /\ c.n \in Nat
  BY TraceStageOK DEF TraceSound, TraceCollectors
<1>3. /\ d \in TraceCollectors /\ d.on = c.on /\ d.open = c.open \cup {g} /\ d.closed = c.closed /\ d.n = c.n + 1
      /\ d.handle = [c.handle EXCEPT ![m] = c.n] /\ d.trace = c.trace
  <2>1. c = [on |-> c.on, open |-> c.open, closed |-> c.closed, n |-> c.n, handle |-> c.handle, trace |-> c.trace]
    BY <1>2 DEF TraceCollectors
  <2> HIDE DEF g
  <2>2. d = [on |-> c.on, open |-> c.open \cup {g}, closed |-> c.closed, n |-> c.n + 1,
             handle |-> [c.handle EXCEPT ![m] = c.n], trace |-> c.trace]
    BY <1>1, <2>1
  <2> HIDE DEF d
  <2>3. [c.handle EXCEPT ![m] = c.n] \in [RT!Names -> Nat \cup {rt_None}] /\ c.open \cup {g} \in SUBSET RT!Stages
    BY <1>2 DEF TraceCollectors
  <2>4. c.on \in BOOLEAN /\ c.closed \in SUBSET RT!Stages /\ c.n + 1 \in Nat /\ c.trace \in RT!Traces \cup {rt_None}
    BY <1>2 DEF TraceCollectors
  <2> QED
    BY <2>2, <2>3, <2>4 DEF TraceCollectors
<1>4. g.id = c.n /\ g.name = m /\ g.parent = p /\ g.state = "running" /\ g.outcome = rt_None
  BY DEF RT!Stage
<1> HIDE DEF d, g
<1>5. d.handle[m] = c.n /\ \A k \in RT!Names : k # m => d.handle[k] = c.handle[k]
  BY <1>2, <1>3 DEF TraceCollectors
<1>6. RT!Ids(d) = RT!Ids(c) \cup {c.n}
  BY <1>3, <1>4 DEF RT!Ids
<1>7. TraceRunning(d) = TraceRunning(c) \cup {m}
  BY <1>3, <1>4 DEF TraceRunning
<1>8. \A h \in c.open \cup c.closed : h.id \in Nat /\ h.id < c.n /\ h \in RT!Stages
  BY <1>2 DEF TraceSound, TraceCollectors, RT!Stages
<1>9. \A h \in d.open \cup d.closed : h.id < d.n
  BY <1>2, <1>3, <1>4, <1>8
<1>10. \A h, k \in d.open \cup d.closed : h.id = k.id => h = k
  BY <1>2, <1>3, <1>4, <1>8 DEF TraceSound
<1>11. \A h \in d.open \cup d.closed : h.parent # rt_None => h.parent # h.id /\ h.parent \in RT!Ids(d)
  <2>1. ASSUME NEW h \in c.open \cup c.closed, h.parent # rt_None PROVE h.parent # h.id /\ h.parent \in RT!Ids(d)
    BY <1>6, <2>1 DEF TraceSound
  <2>2. p # rt_None => p # c.n /\ p \in RT!Ids(d)
    BY <1>2, <1>6, <1>8 DEF RT!Ids
  <2> QED
    BY <1>3, <1>4, <2>1, <2>2
<1>12. \A h \in d.open : h.state = "running" /\ h.outcome = rt_None /\ d.handle[h.name] = h.id
  <2>1. ASSUME NEW h \in c.open PROVE h.state = "running" /\ h.outcome = rt_None /\ d.handle[h.name] = h.id
    <3>1. h.name \in RT!Names /\ h.name # m
      BY <1>8 DEF TraceRunning, RT!Stages
    <3> QED
      BY <1>5, <3>1 DEF TraceSound
  <2> QED
    BY <1>3, <1>4, <1>5, <2>1
<1>13. TraceSound(d)
  BY <1>3, <1>9, <1>10, <1>11, <1>12 DEF TraceSound
<1> QED
  BY <1>3, <1>5, <1>6, <1>7, <1>13 DEF d, TraceStarted

(* A stage that is skipped is closed, without an outcome.                  *)
LEMMA TraceSkipOK ==
  ASSUME RT!ConstantsAssumption, NEW c, TraceSound(c), c.on, NEW m \in RT!Names, NEW p \in RT!Ids(c) \cup {rt_None}
  PROVE  TraceSkipped(c, m, RT!Skip(c, m, p))
<1> DEFINE g == RT!Stage(c, m, p, "skipped")
           d == RT!Skip(c, m, p)
<1>1. d = [c EXCEPT !.closed = @ \cup {g}, !.n = @ + 1]
  BY DEF RT!Skip
<1>2. c \in TraceCollectors /\ g \in RT!Stages /\ (p # rt_None => p < c.n) /\ c.n \in Nat
  BY TraceStageOK DEF TraceSound, TraceCollectors
<1>3. /\ d \in TraceCollectors /\ d.on = c.on /\ d.open = c.open /\ d.closed = c.closed \cup {g} /\ d.n = c.n + 1
      /\ d.handle = c.handle /\ d.trace = c.trace
  <2>1. c = [on |-> c.on, open |-> c.open, closed |-> c.closed, n |-> c.n, handle |-> c.handle, trace |-> c.trace]
    BY <1>2 DEF TraceCollectors
  <2> HIDE DEF g
  <2>2. d = [on |-> c.on, open |-> c.open, closed |-> c.closed \cup {g}, n |-> c.n + 1,
             handle |-> c.handle, trace |-> c.trace]
    BY <1>1, <2>1
  <2> HIDE DEF d
  <2>3. c.closed \cup {g} \in SUBSET RT!Stages /\ c.open \in SUBSET RT!Stages
    BY <1>2 DEF TraceCollectors
  <2>4. c.on \in BOOLEAN /\ c.handle \in [RT!Names -> Nat \cup {rt_None}] /\ c.n + 1 \in Nat /\ c.trace \in RT!Traces \cup {rt_None}
    BY <1>2 DEF TraceCollectors
  <2> QED
    BY <2>2, <2>3, <2>4 DEF TraceCollectors
<1>4. g.id = c.n /\ g.name = m /\ g.parent = p /\ g.state = "skipped" /\ g.outcome = rt_None
  BY DEF RT!Stage
<1> HIDE DEF d, g
<1>6. RT!Ids(d) = RT!Ids(c) \cup {c.n}
  BY <1>3, <1>4 DEF RT!Ids
<1>7. TraceRunning(d) = TraceRunning(c)
  BY <1>3 DEF TraceRunning
<1>8. \A h \in c.open \cup c.closed : h.id \in Nat /\ h.id < c.n /\ h \in RT!Stages
  BY <1>2 DEF TraceSound, TraceCollectors, RT!Stages
<1>9. \A h \in d.open \cup d.closed : h.id < d.n
  BY <1>2, <1>3, <1>4, <1>8
<1>10. \A h, k \in d.open \cup d.closed : h.id = k.id => h = k
  BY <1>2, <1>3, <1>4, <1>8 DEF TraceSound
<1>11. \A h \in d.open \cup d.closed : h.parent # rt_None => h.parent # h.id /\ h.parent \in RT!Ids(d)
  <2>1. ASSUME NEW h \in c.open \cup c.closed, h.parent # rt_None PROVE h.parent # h.id /\ h.parent \in RT!Ids(d)
    BY <1>6, <2>1 DEF TraceSound
  <2>2. p # rt_None => p # c.n /\ p \in RT!Ids(d)
    BY <1>2, <1>6, <1>8 DEF RT!Ids
  <2> QED
    BY <1>3, <1>4, <2>1, <2>2
<1>12. \A h \in d.open : h.state = "running" /\ h.outcome = rt_None /\ d.handle[h.name] = h.id
  BY <1>3 DEF TraceSound
<1>13. \A h \in d.closed : h.state # "running" /\ RT!ValidStage(h)
  BY <1>3, <1>4 DEF TraceSound, RT!ValidStage
<1>14. TraceSound(d)
  BY <1>3, <1>9, <1>10, <1>11, <1>12, <1>13 DEF TraceSound
<1>15. /\ TraceOutcomesOf(d.closed, m) = TraceOutcomesOf(c.closed, m) \cup {rt_None}
       /\ \A k \in RT!Names : k # m => TraceOutcomesOf(d.closed, k) = TraceOutcomesOf(c.closed, k)
  BY <1>3, <1>4 DEF TraceOutcomesOf
<1> QED
  BY <1>3, <1>6, <1>7, <1>14, <1>15 DEF d, TraceSkipped

(* The stages that are finished are closed, with the outcome.              *)
LEMMA TraceFinishOK ==
  ASSUME RT!ConstantsAssumption, NEW c, TraceSound(c), NEW names, NEW outcome \in RT!Outcomes
  PROVE  TraceFinished(c, names, outcome, RT!Finish(c, names, outcome))
<1> DEFINE d == RT!Finish(c, names, outcome)
           done == {g \in c.open : g.name \in names}
           Done(g) == [g EXCEPT !.state = "completed", !.outcome = outcome]
           closed == {Done(g) : g \in done}
<1>1. c = [on |-> c.on, open |-> c.open, closed |-> c.closed, n |-> c.n, handle |-> c.handle, trace |-> c.trace]
      /\ c.open \in SUBSET RT!Stages /\ c.closed \in SUBSET RT!Stages /\ c.n \in Nat
  BY DEF TraceSound, TraceCollectors
<1>2. done = {g \in c.open : g.name \in names /\ c.handle[g.name] = g.id}
  BY DEF TraceSound
<1>3. d = [c EXCEPT !.open = @ \ done, !.closed = @ \cup closed]
  <2> HIDE DEF done
  <2> QED
    BY <1>2 DEF RT!Finish
<1>4. ASSUME NEW g \in done
      PROVE  /\ Done(g) \in RT!Stages /\ Done(g).id = g.id /\ Done(g).name = g.name /\ Done(g).parent = g.parent
             /\ Done(g).state = "completed" /\ Done(g).outcome = outcome
  BY <1>1 DEF RT!Stages
<1> HIDE DEF Done
<1>5. d = [on |-> c.on, open |-> c.open \ done, closed |-> c.closed \cup closed, n |-> c.n,
           handle |-> c.handle, trace |-> c.trace]
  <2> HIDE DEF done, closed, d
  <2> QED
    BY <1>1, <1>3
<1> HIDE DEF d
<1>6. closed \in SUBSET RT!Stages
  BY <1>4
<1> HIDE DEF closed
<1>7. d \in TraceCollectors
  <2>1. c.on \in BOOLEAN /\ c.handle \in [RT!Names -> Nat \cup {rt_None}] /\ c.trace \in RT!Traces \cup {rt_None}
    BY DEF TraceSound, TraceCollectors
  <2>2. c.open \ done \in SUBSET RT!Stages /\ c.closed \cup closed \in SUBSET RT!Stages
    BY <1>1, <1>6
  <2> HIDE DEF done
  <2> QED
    BY <1>1, <1>5, <2>1, <2>2 DEF TraceCollectors
<1>8. d.open = c.open \ done /\ d.closed = c.closed \cup closed /\ d.n = c.n /\ d.handle = c.handle
      /\ d.on = c.on /\ d.trace = c.trace
  BY <1>5
<1>9. /\ \A h \in closed : \E g \in done : h = Done(g)
      /\ \A g \in done : Done(g) \in closed
  BY DEF closed
<1>10. RT!Ids(d) = RT!Ids(c)
  <2>1. \A x \in RT!Ids(d) : x \in RT!Ids(c)
    BY <1>4, <1>8, <1>9 DEF RT!Ids
  <2>2. \A x \in RT!Ids(c) : x \in RT!Ids(d)
    BY <1>4, <1>8, <1>9 DEF RT!Ids
  <2> QED
    BY <2>1, <2>2
<1>11. TraceRunning(d) = TraceRunning(c) \ names
  BY <1>8 DEF TraceRunning
<1>12. \A h \in d.open \cup d.closed : \E g \in c.open \cup c.closed :
         /\ h.id = g.id /\ h.parent = g.parent
         /\ h = IF g \in done THEN Done(g) ELSE g
  <2>1. \A h \in closed : \E g \in c.open : g \in done /\ h = Done(g) /\ h.id = g.id /\ h.parent = g.parent
    BY <1>4, <1>9
  <2>2. \A h \in c.closed : h \notin done
    BY DEF TraceSound
  <2> HIDE DEF done
  <2> QED
    BY <1>8, <2>1, <2>2
<1>13. \A h \in d.open \cup d.closed : h.id < d.n
  BY <1>8, <1>12 DEF TraceSound
<1>14. ASSUME NEW h \in d.open \cup d.closed, NEW k \in d.open \cup d.closed, h.id = k.id PROVE h = k
  <2>1. PICK g \in c.open \cup c.closed : h.id = g.id /\ h = IF g \in done THEN Done(g) ELSE g
    BY <1>12
  <2>2. PICK f \in c.open \cup c.closed : k.id = f.id /\ k = IF f \in done THEN Done(f) ELSE f
    BY <1>12
  <2>3. \A x, y \in c.open \cup c.closed : x.id = y.id => x = y
    BY DEF TraceSound
  <2>4. g = f
    BY ONLY <1>14, <2>1, <2>2, <2>3
  <2> HIDE DEF done
  <2> QED
    BY <2>1, <2>2, <2>4
<1>15. ASSUME NEW h \in d.open \cup d.closed, h.parent # rt_None PROVE h.parent # h.id /\ h.parent \in RT!Ids(d)
  BY <1>10, <1>12, <1>15 DEF TraceSound
<1>16. \A h \in d.open : h.state = "running" /\ h.outcome = rt_None /\ d.handle[h.name] = h.id
  BY <1>8 DEF TraceSound
<1>17. \A h \in d.closed : h.state # "running" /\ RT!ValidStage(h)
  <2>1. outcome # rt_None
    BY DEF RT!ConstantsAssumption
  <2>2. \A h \in closed : h.state = "completed" /\ h.outcome = outcome
    BY <1>4, <1>9
  <2> QED
    BY <1>8, <2>1, <2>2 DEF TraceSound, RT!ValidStage
<1>18. TraceSound(d)
  BY <1>7, <1>8, <1>13, <1>14, <1>15, <1>16, <1>17 DEF TraceSound
<1>19. ASSUME NEW m
       PROVE  TraceOutcomesOf(d.closed, m) = TraceOutcomesOf(c.closed, m) \cup
                (IF m \in TraceRunning(c) \cap names THEN {outcome} ELSE {})
  <2>1. TraceOutcomesOf(d.closed, m) = TraceOutcomesOf(c.closed, m) \cup TraceOutcomesOf(closed, m)
    BY <1>8 DEF TraceOutcomesOf
  <2>2. \A x \in TraceOutcomesOf(closed, m) : x = outcome /\ m \in TraceRunning(c) \cap names
    BY <1>4, <1>9 DEF TraceOutcomesOf, TraceRunning
  <2>3. m \in TraceRunning(c) \cap names => outcome \in TraceOutcomesOf(closed, m)
    BY <1>4, <1>9 DEF TraceOutcomesOf, TraceRunning
  <2> QED
    BY <2>1, <2>2, <2>3
<1> QED
  BY <1>8, <1>10, <1>11, <1>18, <1>19 DEF d, TraceFinished

(* When no stage runs, the trace is valid and comes out with all stages.   *)
LEMMA TraceExportOK ==
  ASSUME RT!ConstantsAssumption, NEW c, TraceSound(c), TraceRunning(c) = {}, c.trace = rt_None, NEW outcome \in RT!Outcomes
  PROVE  LET d == RT!Export(c, outcome)
         IN  /\ TraceSound(d) /\ d.on = c.on /\ d.trace = [stages |-> c.closed, outcome |-> outcome]
             /\ d.trace # rt_None
<1> DEFINE t == [stages |-> c.closed, outcome |-> outcome]
           d == RT!Export(c, outcome)
<1>1. c.open = {}
  BY DEF TraceRunning
<1>2. RT!Ordered(c.closed) /\ \A g \in c.closed : RT!ValidStage(g)
  BY <1>1 DEF RT!Ordered, TraceSound, RT!Ids
<1>3. d = [c EXCEPT !.trace = t]
  BY <1>1, <1>2 DEF RT!Export
<1>4. t \in RT!Traces /\ t # rt_None /\ c \in TraceCollectors
  BY DEF TraceSound, TraceCollectors, RT!Traces, RT!ConstantsAssumption
<1> HIDE DEF d, t
<1>5. /\ d \in TraceCollectors /\ d.on = c.on /\ d.open = c.open /\ d.closed = c.closed /\ d.n = c.n
      /\ d.handle = c.handle /\ d.trace = t
  BY <1>3, <1>4 DEF TraceCollectors
<1>6. TraceSound(d)
  BY <1>5 DEF TraceSound, RT!Ids
<1> QED
  BY <1>4, <1>5, <1>6 DEF d, t

(* Where a collector that is on is.                                        *)

(* The request is not forwarded yet, and these stages run.                 *)
TraceWaiting(c, running) ==
  /\ TraceRunning(c) = running
  /\ \A m \in {"ready", "completion", "first", "decode"} : TraceOutcomesOf(c.closed, m) = {}

(* The request is forwarded and nothing has come.                          *)
TraceOpening(c, streamed) ==
  /\ c.handle["completion"] \in RT!Ids(c)
  /\ TraceRunning(c) = IF streamed THEN {"completion", "first"} ELSE {"completion"}
  /\ TraceOutcomesOf(c.closed, "completion") = {}
  /\ TraceOutcomesOf(c.closed, "first") = IF streamed THEN {} ELSE {rt_None}
  /\ TraceOutcomesOf(c.closed, "decode") = IF streamed THEN {} ELSE {rt_None}

(* Something has come.                                                     *)
TraceDecoding(c) ==
  /\ c.handle["completion"] \in RT!Ids(c)
  /\ TraceRunning(c) = {"completion", "decode"}
  /\ TraceOutcomesOf(c.closed, "completion") = {} /\ TraceOutcomesOf(c.closed, "decode") = {}
  /\ TraceOutcomesOf(c.closed, "first") = {"SUCCESS"}

(* The trace is out, and whole.                                            *)
TraceWhole(c) ==
  /\ c.trace # rt_None
  /\ LET o == c.trace.outcome
         Of(m) == TraceOutcomesOf(c.trace.stages, m)
     IN IF Of("completion") = {} THEN Of("ready") = {o} /\ o # "SUCCESS"
        ELSE /\ Of("completion") = {o} /\ Of("decode") \subseteq {o, rt_None}
             /\ (Of("decode") \cap RT!Outcomes # {}) = ("SUCCESS" \in Of("first"))

(* The names and outcomes that the steps use.                              *)
LEMMA TraceLiterals ==
  /\ "completion" \in RT!Names /\ "first" \in RT!Names /\ "decode" \in RT!Names /\ "ready" \in RT!Names /\ "prepare" \in RT!Names
  /\ "SUCCESS" \in RT!Outcomes /\ "FAILED" \in RT!Outcomes /\ "CANCELLED" \in RT!Outcomes
BY DEF RT!Names, RT!Outcomes

(* The completion is opened, by either side.                               *)
LEMMA TraceOpeningOK ==
  ASSUME RT!ConstantsAssumption, NEW c, TraceSound(c), c.on, TraceRunning(c) = {},
         \A m \in {"completion", "first", "decode"} : TraceOutcomesOf(c.closed, m) = {},
         NEW streamed \in BOOLEAN, NEW e,
         LET d == RT!Start(c, "completion", rt_None)
             p == d.handle["completion"]
         IN  e = IF streamed THEN RT!Start(d, "first", p) ELSE RT!Skip(RT!Skip(d, "first", p), "decode", p)
  PROVE  TraceSound(e) /\ e.on /\ e.trace = c.trace /\ TraceOpening(e, streamed)
<1> DEFINE d == RT!Start(c, "completion", rt_None)
           p == d.handle["completion"]
<1>0. TraceStarted(c, "completion", d)
  BY TraceLiterals, TraceStartOK
<1> HIDE DEF d
<1>1. /\ TraceSound(d) /\ d.on /\ d.closed = c.closed /\ d.trace = c.trace
      /\ TraceRunning(d) = {"completion"} /\ p \in RT!Ids(d)
  BY <1>0 DEF TraceStarted
<1> HIDE DEF p
<1>2. CASE streamed
  <2>1. e = RT!Start(d, "first", p)
    BY <1>2 DEF d, p
  <2>2. "first" \notin TraceRunning(d) /\ p \in RT!Ids(d) \cup {rt_None}
    BY <1>1
  <2>3. TraceStarted(d, "first", e)
    BY <1>1, <2>1, <2>2, TraceLiterals, TraceStartOK
  <2>4. /\ TraceSound(e) /\ e.on /\ e.closed = d.closed /\ e.trace = d.trace
        /\ TraceRunning(e) = TraceRunning(d) \cup {"first"} /\ RT!Ids(d) \subseteq RT!Ids(e)
        /\ e.handle["completion"] = d.handle["completion"]
    BY <1>1, <2>3, TraceLiterals DEF TraceStarted
  <2>5. e.handle["completion"] \in RT!Ids(e)
    BY <1>1, <2>4 DEF p
  <2> QED
    BY <1>1, <1>2, <2>4, <2>5 DEF TraceOpening
<1>3. CASE ~streamed
  <2> DEFINE f == RT!Skip(d, "first", p)
  <2>1. e = RT!Skip(f, "decode", p)
    BY <1>3 DEF d, p
  <2>2. TraceSkipped(d, "first", f)
    BY <1>1, TraceLiterals, TraceSkipOK
  <2> HIDE DEF f
  <2>3. p \in RT!Ids(f) /\ TraceSound(f) /\ f.on
    BY <1>1, <2>2 DEF TraceSkipped
  <2>4. TraceSkipped(f, "decode", e)
    BY <2>1, <2>3, TraceLiterals, TraceSkipOK
  <2>5. e.handle["completion"] \in RT!Ids(e)
    BY <1>1, <2>2, <2>4 DEF p, TraceSkipped
  <2>6. /\ TraceOutcomesOf(e.closed, "completion") = {} /\ TraceOutcomesOf(e.closed, "first") = {rt_None}
        /\ TraceOutcomesOf(e.closed, "decode") = {rt_None}
    BY <1>1, <2>2, <2>4, TraceLiterals DEF TraceSkipped
  <2> QED
    BY <1>1, <1>3, <2>2, <2>4, <2>5, <2>6 DEF TraceOpening, TraceSkipped
<1> QED
  BY <1>2, <1>3

(* With the first chunk the wait for it ends and the decoding runs.        *)
LEMMA TraceFirstChunkOK ==
  ASSUME RT!ConstantsAssumption, NEW c, TraceSound(c), c.on, TraceOpening(c, TRUE)
  PROVE  LET d == RT!FirstChunkOf(c) IN TraceSound(d) /\ d.on /\ d.trace = c.trace /\ TraceDecoding(d)
<1> DEFINE f == RT!Finish(c, {"first"}, "SUCCESS")
           p == c.handle["completion"]
           d == RT!FirstChunkOf(c)
<1>1. TraceFinished(c, {"first"}, "SUCCESS", f)
  BY TraceLiterals, TraceFinishOK
<1>2. d = RT!Start(f, "decode", p)
  BY DEF RT!FirstChunkOf
<1> HIDE DEF f, d
<1>3. TraceRunning(f) = {"completion"} /\ p \in RT!Ids(f) /\ TraceSound(f) /\ f.on
  BY <1>1 DEF TraceOpening, TraceFinished
<1>4. TraceStarted(f, "decode", d)
  <2>1. "decode" \notin TraceRunning(f) /\ p \in RT!Ids(f) \cup {rt_None}
    BY <1>3
  <2> QED
    BY <1>2, <1>3, <2>1, TraceLiterals, TraceStartOK
<1>5. d.handle["completion"] \in RT!Ids(d)
  BY <1>1, <1>3, <1>4, TraceLiterals DEF TraceStarted, TraceFinished
<1>6. /\ TraceOutcomesOf(d.closed, "completion") = {} /\ TraceOutcomesOf(d.closed, "decode") = {}
      /\ TraceOutcomesOf(d.closed, "first") = {"SUCCESS"}
  <2>1. d.closed = f.closed /\ "first" \in TraceRunning(c) /\ TraceOutcomesOf(c.closed, "completion") = {}
        /\ TraceOutcomesOf(c.closed, "decode") = {} /\ TraceOutcomesOf(c.closed, "first") = {}
    BY <1>4 DEF TraceStarted, TraceOpening
  <2> QED
    BY <1>1, <2>1 DEF TraceFinished
<1>7. TraceSound(d) /\ d.on /\ d.trace = c.trace /\ TraceRunning(d) = {"completion", "decode"}
  BY <1>1, <1>3, <1>4 DEF TraceStarted, TraceFinished
<1> QED
  BY <1>5, <1>6, <1>7 DEF TraceDecoding, d

(* A completion that ends well, or without a chunk.                        *)
LEMMA TraceClosedOK ==
  ASSUME RT!ConstantsAssumption, NEW c, TraceSound(c), c.trace = rt_None, NEW seen \in BOOLEAN,
         c.on => \/ \E streamed \in BOOLEAN : TraceOpening(c, streamed) /\ seen = ~streamed
                 \/ TraceOpening(c, FALSE)
                 \/ TraceDecoding(c) /\ seen,
         ~c.on => TraceRunning(c) = {}
  PROVE  LET d == RT!Closed(c, seen)
         IN  /\ TraceSound(d) /\ d.on = c.on /\ d.trace # rt_None
             /\ d.trace.outcome = IF seen THEN "SUCCESS" ELSE "FAILED"
             /\ d.on => TraceWhole(d)
<1> DEFINE d == RT!Closed(c, seen)
<1>1. CASE seen
  <2> DEFINE f == RT!Finish(c, {"decode", "completion"}, "SUCCESS")
  <2>1. /\ TraceSound(f) /\ f.on = c.on /\ f.trace = c.trace
        /\ TraceRunning(f) = TraceRunning(c) \ {"decode", "completion"}
        /\ \A m : TraceOutcomesOf(f.closed, m) = TraceOutcomesOf(c.closed, m) \cup
                   (IF m \in TraceRunning(c) \cap {"decode", "completion"} THEN {"SUCCESS"} ELSE {})
    <3>1. TraceFinished(c, {"decode", "completion"}, "SUCCESS", f)
      BY TraceLiterals, TraceFinishOK
    <3> HIDE DEF f
    <3> QED
      BY <3>1 DEF TraceFinished
  <2>2. d = RT!Export(f, "SUCCESS")
    BY <1>1 DEF RT!Closed
  <2> HIDE DEF f, d
  <2>3. TraceRunning(f) = {}
    BY <1>1, <2>1 DEF TraceOpening, TraceDecoding
  <2>4. /\ TraceSound(d) /\ d.on = f.on /\ d.trace = [stages |-> f.closed, outcome |-> "SUCCESS"] /\ d.trace # rt_None
    BY <2>1, <2>2, <2>3, TraceLiterals, TraceExportOK
  <2>5. ASSUME c.on PROVE TraceWhole(d)
    <3>1. TraceOutcomesOf(f.closed, "completion") = {"SUCCESS"}
      BY <1>1, <2>1, <2>5 DEF TraceOpening, TraceDecoding
    <3>2. \/ TraceOutcomesOf(f.closed, "decode") = {"SUCCESS"} /\ TraceOutcomesOf(f.closed, "first") = {"SUCCESS"}
          \/ TraceOutcomesOf(f.closed, "decode") = {rt_None} /\ TraceOutcomesOf(f.closed, "first") = {rt_None}
      <4>1. CASE TraceDecoding(c)
        <5>1. /\ TraceOutcomesOf(c.closed, "decode") = {} /\ TraceOutcomesOf(c.closed, "first") = {"SUCCESS"}
              /\ "decode" \in TraceRunning(c) /\ "first" \notin TraceRunning(c)
          BY <4>1 DEF TraceDecoding
        <5> QED
          BY <2>1, <5>1
      <4>2. CASE TraceOpening(c, FALSE)
        <5>1. /\ TraceOutcomesOf(c.closed, "decode") = {rt_None} /\ TraceOutcomesOf(c.closed, "first") = {rt_None}
              /\ "decode" \notin TraceRunning(c) /\ "first" \notin TraceRunning(c)
          BY <4>2 DEF TraceOpening
        <5> QED
          BY <2>1, <5>1
      <4> QED
        BY <1>1, <2>5, <4>1, <4>2
    <3>3. rt_None \notin RT!Outcomes
      BY DEF RT!ConstantsAssumption
    <3> QED
      BY <2>4, <3>1, <3>2, <3>3 DEF TraceWhole, RT!Outcomes
  <2> QED
    <3>1. d.trace.outcome = "SUCCESS" /\ d.on = c.on
      BY <2>1, <2>4
    <3> QED
      BY <1>1, <2>4, <2>5, <3>1 DEF d
<1>2. CASE ~seen
  <2> DEFINE f == RT!Finish(c, {"first"}, "FAILED")
             g == RT!Skip(f, "decode", c.handle["completion"])
             h == RT!Finish(g, {"completion"}, "FAILED")
  <2>1. /\ TraceSound(f) /\ f.on = c.on /\ f.trace = c.trace /\ f.handle = c.handle
        /\ TraceRunning(f) = TraceRunning(c) \ {"first"} /\ RT!Ids(f) = RT!Ids(c)
        /\ \A m : TraceOutcomesOf(f.closed, m) = TraceOutcomesOf(c.closed, m) \cup
                   (IF m \in TraceRunning(c) \cap {"first"} THEN {"FAILED"} ELSE {})
    <3>1. TraceFinished(c, {"first"}, "FAILED", f)
      BY TraceLiterals, TraceFinishOK
    <3> HIDE DEF f
    <3> QED
      BY <3>1 DEF TraceFinished
  <2>2. d = RT!Export(h, "FAILED")
    BY <1>2 DEF RT!Closed
  <2>3. c.on => /\ TraceRunning(f) = {"completion"} /\ c.handle["completion"] \in RT!Ids(f)
                /\ TraceOutcomesOf(f.closed, "completion") = {}
                /\ TraceOutcomesOf(f.closed, "decode") \subseteq {rt_None}
                /\ TraceOutcomesOf(f.closed, "first") \in {{"FAILED"}, {rt_None}}
    <3> HIDE DEF f, g, h, d
    <3> QED
      BY <1>2, <2>1 DEF TraceOpening, TraceDecoding
  <2> HIDE DEF f
  <2>4. /\ TraceSound(g) /\ g.on = f.on /\ g.trace = f.trace /\ TraceRunning(g) = TraceRunning(f)
        /\ c.on => /\ TraceOutcomesOf(g.closed, "decode") = TraceOutcomesOf(f.closed, "decode") \cup {rt_None}
                   /\ \A k \in RT!Names : k # "decode" => TraceOutcomesOf(g.closed, k) = TraceOutcomesOf(f.closed, k)
    <3>1. CASE c.on
      <4>1. f.on /\ TraceSound(f) /\ "decode" \in RT!Names /\ c.handle["completion"] \in RT!Ids(f) \cup {rt_None}
        BY <2>1, <2>3, <3>1, TraceLiterals
      <4>2. TraceSkipped(f, "decode", g)
        BY <4>1, TraceSkipOK
      <4> HIDE DEF g
      <4> QED
        BY <4>2 DEF TraceSkipped
    <3>2. CASE ~c.on
      BY <2>1, <3>2 DEF RT!Skip
    <3> QED
      BY <3>1, <3>2
  <2> HIDE DEF g
  <2>5. /\ TraceSound(h) /\ h.on = g.on /\ h.trace = g.trace
        /\ TraceRunning(h) = TraceRunning(g) \ {"completion"}
        /\ \A m : TraceOutcomesOf(h.closed, m) = TraceOutcomesOf(g.closed, m) \cup
                   (IF m \in TraceRunning(g) \cap {"completion"} THEN {"FAILED"} ELSE {})
    <3>1. TraceFinished(g, {"completion"}, "FAILED", h)
      BY <2>4, TraceLiterals, TraceFinishOK
    <3> HIDE DEF h
    <3> QED
      BY <3>1 DEF TraceFinished
  <2> HIDE DEF h, d
  <2>6. TraceRunning(h) = {}
    BY <2>1, <2>3, <2>4, <2>5
  <2>7. /\ TraceSound(d) /\ d.on = h.on /\ d.trace = [stages |-> h.closed, outcome |-> "FAILED"] /\ d.trace # rt_None
    BY <2>1, <2>2, <2>4, <2>5, <2>6, TraceLiterals, TraceExportOK
  <2>8. ASSUME c.on PROVE TraceWhole(d)
    <3>1. TraceOutcomesOf(h.closed, "completion") = {"FAILED"}
      BY <2>3, <2>4, <2>5, <2>8 DEF RT!Names
    <3>2. TraceOutcomesOf(h.closed, "decode") = {rt_None} /\ TraceOutcomesOf(h.closed, "first") \in {{"FAILED"}, {rt_None}}
      BY <2>3, <2>4, <2>5, <2>8 DEF RT!Names
    <3>3. rt_None \notin RT!Outcomes
      BY DEF RT!ConstantsAssumption
    <3> QED
      BY <2>7, <3>1, <3>2, <3>3 DEF TraceWhole, RT!Outcomes
  <2> QED
    BY <1>2, <2>1, <2>4, <2>5, <2>7, <2>8 DEF d
<1> QED
  BY <1>1, <1>2

(* A completion, or the wait for one, that is broken off.                  *)
LEMMA TraceBrokenOK ==
  ASSUME RT!ConstantsAssumption, NEW c, TraceSound(c), c.trace = rt_None, NEW outcome \in {"FAILED", "CANCELLED"},
         c.on => \/ \E streamed \in BOOLEAN : TraceOpening(c, streamed)
                 \/ TraceDecoding(c)
                 \/ TraceWaiting(c, {"ready"}),
         ~c.on => TraceRunning(c) = {}
  PROVE  LET d == RT!Broken(c, outcome)
         IN  TraceSound(d) /\ d.on = c.on /\ d.trace # rt_None /\ d.trace.outcome = outcome /\ (d.on => TraceWhole(d))
<1> DEFINE d == RT!Broken(c, outcome)
           names == {"first", "decode", "completion", "ready"}
           f == RT!Finish(c, names, outcome)
<1>1. /\ TraceSound(f) /\ f.on = c.on /\ f.trace = c.trace /\ TraceRunning(f) = TraceRunning(c) \ names
      /\ \A m : TraceOutcomesOf(f.closed, m) = TraceOutcomesOf(c.closed, m) \cup
                 (IF m \in TraceRunning(c) \cap names THEN {outcome} ELSE {})
  <2>1. outcome \in RT!Outcomes
    BY TraceLiterals
  <2> HIDE DEF names
  <2>2. TraceFinished(c, names, outcome, f)
    BY <2>1, TraceFinishOK
  <2> HIDE DEF f
  <2> QED
    BY <2>2 DEF TraceFinished
<1>2. d = RT!Export(f, outcome)
  BY DEF RT!Broken
<1> HIDE DEF f, d
<1>3. TraceRunning(f) = {}
  BY <1>1 DEF TraceOpening, TraceDecoding, TraceWaiting
<1>4. /\ TraceSound(d) /\ d.on = f.on /\ d.trace = [stages |-> f.closed, outcome |-> outcome] /\ d.trace # rt_None
  BY <1>1, <1>2, <1>3, TraceLiterals, TraceExportOK
<1>5. ASSUME c.on PROVE TraceWhole(d)
  <2>1. rt_None \notin RT!Outcomes
    BY DEF RT!ConstantsAssumption
  <2>2. CASE TraceWaiting(c, {"ready"})
    <3>1. TraceOutcomesOf(f.closed, "completion") = {} /\ TraceOutcomesOf(f.closed, "ready") = {outcome}
      BY <1>1, <2>2 DEF TraceWaiting
    <3> QED
      BY <1>4, <3>1 DEF TraceWhole
  <2>3. CASE TraceDecoding(c)
    <3>1. /\ TraceOutcomesOf(f.closed, "completion") = {outcome} /\ TraceOutcomesOf(f.closed, "decode") = {outcome}
          /\ TraceOutcomesOf(f.closed, "first") = {"SUCCESS"}
      BY <1>1, <2>3 DEF TraceDecoding
    <3> QED
      BY <1>4, <3>1 DEF TraceWhole, RT!Outcomes
  <2>4. ASSUME NEW streamed \in BOOLEAN, TraceOpening(c, streamed) PROVE TraceWhole(d)
    <3>1. /\ TraceOutcomesOf(f.closed, "completion") = {outcome} /\ TraceOutcomesOf(f.closed, "decode") \subseteq {rt_None}
          /\ TraceOutcomesOf(f.closed, "first") \in {{outcome}, {rt_None}}
      BY <1>1, <2>4 DEF TraceOpening
    <3> QED
      BY <1>4, <2>1, <3>1 DEF TraceWhole, RT!Outcomes
  <2> QED
    BY <1>5, <2>2, <2>3, <2>4
<1> QED
  BY <1>1, <1>4, <1>5 DEF d

(* The invariant.                                                          *)

TraceProxyStage(place, c) ==
  /\ TraceSound(c)
  /\ c.trace # rt_None => place = "done"
  /\ place = "idle" => c = RT!Off
  /\ c.on =>
       /\ place \in {"made", "preparing", "lost"} => TraceWaiting(c, {})
       /\ place = "queued" => TraceWaiting(c, {"prepare"})
       /\ place = "ready" => TraceWaiting(c, {"ready"})
       /\ place = "forward" => TraceOpening(c, rt_chat)
       /\ place = "chunks" => IF rt_chat THEN TraceDecoding(c) ELSE TraceOpening(c, FALSE)
       /\ place = "done" => TraceWhole(c)

TraceInstanceStage(place, c) ==
  /\ TraceSound(c)
  /\ c.trace # rt_None => place \in {"ended", "empty", "failed", "broken"}
  /\ place = "idle" => c = RT!Off
  /\ place = "ended" /\ c.trace # rt_None => c.trace.outcome = "SUCCESS"
  /\ c.on =>
       /\ place = "answering" => TraceOpening(c, rt_stream)
       /\ place = "decoding" => TraceDecoding(c)
       /\ place \in {"ended", "empty", "failed", "broken"} => TraceWhole(c)

TracePlaces ==
  /\ rt_chat \in BOOLEAN /\ rt_stream \in BOOLEAN
  /\ rt_header \in RT!Contexts \cup {rt_None} /\ rt_context \in [RT!Sides -> RT!Contexts \cup {rt_None}]
  /\ rt_at["proxy"] \in {"idle", "made", "queued", "preparing", "ready", "lost", "forward", "chunks", "done"}
  /\ rt_at["instance"] \in {"idle", "answering", "decoding", "ended", "empty", "failed", "broken"}
  /\ rt_at = [s \in RT!Sides |-> rt_at[s]] /\ rt_col = [s \in RT!Sides |-> rt_col[s]]

TraceTold ==
  /\ rt_col["proxy"].trace # rt_None /\ rt_col["proxy"].trace.outcome = "SUCCESS" => rt_at["instance"] = "ended"
  /\ rt_at["proxy"] = "idle" => rt_context["instance"] = rt_None
  /\ rt_at["proxy"] # "idle" /\ rt_header # rt_None => rt_header = rt_context["proxy"]
  /\ rt_context["instance"] # rt_None /\ rt_context["instance"].by # "instance" => rt_context["instance"] = rt_context["proxy"]

(* The inductive invariant of the traces.                                  *)
TraceIInv ==
  /\ TracePlaces /\ TraceTold
  /\ TraceProxyStage(rt_at["proxy"], rt_col["proxy"]) /\ TraceInstanceStage(rt_at["instance"], rt_col["instance"])

(* A collector that is made.                                               *)
LEMMA TraceOffOK ==
  ASSUME RT!ConstantsAssumption, NEW b \in BOOLEAN, NEW c,
         c = [on |-> b, open |-> {}, closed |-> {}, n |-> 0, handle |-> [m \in RT!Names |-> rt_None], trace |-> rt_None]
  PROVE  TraceSound(c) /\ c.on = b /\ c.trace = rt_None /\ TraceRunning(c) = {} /\ TraceWaiting(c, {})
<1>1. c.on = b /\ c.open = {} /\ c.closed = {} /\ c.n = 0 /\ c.trace = rt_None
  OBVIOUS
<1>2. c \in TraceCollectors
  <2> DEFINE h == [m \in RT!Names |-> rt_None]
  <2>1. h \in [RT!Names -> Nat \cup {rt_None}]
    OBVIOUS
  <2> HIDE DEF h
  <2>2. \A x \in [RT!Names -> Nat \cup {rt_None}] :
          [on |-> b, open |-> {}, closed |-> {}, n |-> 0, handle |-> x, trace |-> rt_None] \in TraceCollectors
    BY DEF TraceCollectors
  <2> QED
    BY <2>1, <2>2 DEF h
<1>3. TraceRunning(c) = {} /\ \A m : TraceOutcomesOf(c.closed, m) = {}
  BY <1>1 DEF TraceRunning, TraceOutcomesOf
<1>4. TraceSound(c)
  BY <1>1, <1>2 DEF TraceSound
<1> QED
  BY <1>1, <1>3, <1>4 DEF TraceWaiting

(* The traces' invariant holds at first.                                   *)
LEMMA TraceInitIInv == ASSUME RT!ConstantsAssumption, RT!Init PROVE TraceIInv
<1>1. \A s \in RT!Sides : rt_at[s] = "idle" /\ rt_col[s] = RT!Off /\ rt_context[s] = rt_None
  BY DEF RT!Init
<1>3. TraceSound(RT!Off) /\ RT!Off.on = FALSE /\ RT!Off.trace = rt_None /\ TraceRunning(RT!Off) = {}
  BY TraceOffOK DEF RT!Off
<1>4. TracePlaces
  BY <1>1 DEF RT!Init, TracePlaces, RT!Sides
<1>5. TraceTold
  BY <1>1, <1>3 DEF TraceTold, RT!Init, RT!Sides
<1>6. TraceProxyStage(rt_at["proxy"], rt_col["proxy"]) /\ TraceInstanceStage(rt_at["instance"], rt_col["instance"])
  BY <1>1, <1>3 DEF TraceProxyStage, TraceInstanceStage, RT!Sides
<1> QED
  BY <1>4, <1>5, <1>6 DEF TraceIInv

(* The Proxy moves on.                                                     *)
LEMMA TraceProxyMoves ==
  ASSUME TraceIInv, NEW from \in {"made", "queued", "preparing", "ready", "forward", "chunks"},
         NEW to \in {"queued", "preparing", "ready", "lost", "forward", "chunks", "done"}, NEW c,
         RT!Move("proxy", from, to, c), rt_header' \in {rt_header, rt_context["proxy"]},
         TraceProxyStage(to, c), c.trace # rt_None /\ c.trace.outcome = "SUCCESS" => rt_at["instance"] = "ended"
  PROVE  TraceIInv'
<1>1. /\ rt_at'["proxy"] = to /\ rt_at'["instance"] = rt_at["instance"] /\ rt_at["proxy"] = from
      /\ rt_col'["proxy"] = c /\ rt_col'["instance"] = rt_col["instance"]
      /\ rt_at' = [s \in RT!Sides |-> rt_at'[s]] /\ rt_col' = [s \in RT!Sides |-> rt_col'[s]]
      /\ UNCHANGED <<rt_chat, rt_stream, rt_context>>
  BY DEF RT!Move, TraceIInv, TracePlaces, RT!Sides
<1>2. rt_context["proxy"] \in RT!Contexts \cup {rt_None}
  BY DEF TraceIInv, TracePlaces, RT!Sides
<1>3. TracePlaces'
  BY <1>1, <1>2 DEF TraceIInv, TracePlaces
<1>4. TraceTold'
  BY <1>1 DEF TraceIInv, TraceTold
<1>5. TraceProxyStage(rt_at["proxy"], rt_col["proxy"])'
  BY <1>1 DEF TraceProxyStage
<1>6. TraceInstanceStage(rt_at["instance"], rt_col["instance"])'
  BY <1>1 DEF TraceInstanceStage, TraceIInv
<1> QED
  BY <1>3, <1>4, <1>5, <1>6 DEF TraceIInv

(* The Instance moves on.                                                  *)
LEMMA TraceInstanceMoves ==
  ASSUME TraceIInv, NEW from \in {"answering", "decoding"},
         NEW to \in {"decoding", "ended", "empty", "failed", "broken"}, NEW c,
         RT!Move("instance", from, to, c), rt_header' = rt_header, TraceInstanceStage(to, c)
  PROVE  TraceIInv'
<1>1. /\ rt_at'["instance"] = to /\ rt_at'["proxy"] = rt_at["proxy"] /\ rt_at["instance"] = from
      /\ rt_col'["instance"] = c /\ rt_col'["proxy"] = rt_col["proxy"]
      /\ rt_at' = [s \in RT!Sides |-> rt_at'[s]] /\ rt_col' = [s \in RT!Sides |-> rt_col'[s]]
      /\ UNCHANGED <<rt_chat, rt_stream, rt_context>>
  BY DEF RT!Move, TraceIInv, TracePlaces, RT!Sides
<1>2. TracePlaces'
  BY <1>1 DEF TraceIInv, TracePlaces
<1>3. TraceTold'
  BY <1>1 DEF TraceIInv, TraceTold
<1>4. TraceProxyStage(rt_at["proxy"], rt_col["proxy"])'
  BY <1>1 DEF TraceProxyStage, TraceIInv
<1>5. TraceInstanceStage(rt_at["instance"], rt_col["instance"])'
  BY <1>1 DEF TraceInstanceStage
<1> QED
  BY <1>2, <1>3, <1>4, <1>5 DEF TraceIInv

(* The Proxy's steps.                                                      *)
LEMMA TraceProxyOK ==
  ASSUME RT!ConstantsAssumption, TraceIInv,
         RT!Enqueue \/ RT!DispatchPrepare \/ RT!Release \/ RT!Lose \/ RT!Forward \/ RT!FirstChunk \/ RT!ForwardEnds \/ RT!ForwardBreaks
  PROVE  TraceIInv'
<1> DEFINE c == rt_col["proxy"]
<1>0. /\ TraceProxyStage(rt_at["proxy"], c) /\ rt_chat \in BOOLEAN /\ c.on \in BOOLEAN
      /\ TraceSound(c) /\ (~c.on => TraceRunning(c) = {}) /\ (c.trace # rt_None => rt_at["proxy"] = "done")
  BY DEF TraceIInv, TracePlaces, TraceProxyStage, TraceSound, TraceCollectors, TraceRunning
<1> HIDE DEF c
<1>1. CASE RT!Enqueue
  <2> DEFINE d == RT!Start(c, "prepare", rt_None)
  <2>1. rt_at["proxy"] = "made" /\ RT!Move("proxy", "made", "queued", d) /\ rt_header' = rt_header
    BY <1>1 DEF RT!Enqueue, RT!Move, c
  <2>2. TraceProxyStage("queued", d) /\ d.trace = rt_None
    <3>1. CASE c.on
      <4>1. TraceWaiting(c, {})
        BY <1>0, <2>1, <3>1 DEF TraceProxyStage
      <4>2. "prepare" \notin TraceRunning(c)
        BY <4>1 DEF TraceWaiting
      <4>3. TraceStarted(c, "prepare", d)
        BY <1>0, <3>1, <4>2, TraceLiterals, TraceStartOK
      <4> HIDE DEF d
      <4> QED
        BY <1>0, <2>1, <3>1, <4>1, <4>3 DEF TraceStarted, TraceWaiting, TraceProxyStage
    <3>2. CASE ~c.on
      <4>1. d = c
        BY <3>2 DEF RT!Start
      <4> QED
        BY <1>0, <2>1, <3>2, <4>1 DEF TraceProxyStage
    <3> QED
      BY <3>1, <3>2
  <2> HIDE DEF d
  <2> QED
    BY <2>1, <2>2, TraceProxyMoves
<1>2. CASE RT!DispatchPrepare
  <2> DEFINE d == RT!Finish(c, {"prepare"}, "SUCCESS")
  <2>1. rt_at["proxy"] = "queued" /\ RT!Move("proxy", "queued", "preparing", d) /\ rt_header' = rt_header
    BY <1>2 DEF RT!DispatchPrepare, RT!Move, c
  <2>2. TraceFinished(c, {"prepare"}, "SUCCESS", d)
    BY <1>0, TraceLiterals, TraceFinishOK
  <2> HIDE DEF d
  <2>3. TraceProxyStage("preparing", d) /\ d.trace = rt_None
    <3>1. CASE c.on
      <4>1. TraceWaiting(c, {"prepare"})
        BY <1>0, <2>1, <3>1 DEF TraceProxyStage
      <4> QED
        BY <1>0, <2>1, <2>2, <3>1, <4>1 DEF TraceFinished, TraceWaiting, TraceProxyStage
    <3>2. CASE ~c.on
      BY <1>0, <2>1, <2>2, <3>2 DEF TraceFinished, TraceProxyStage
    <3> QED
      BY <3>1, <3>2
  <2> QED
    BY <2>1, <2>3, TraceProxyMoves
<1>3. CASE RT!Release
  <2> DEFINE d == RT!Start(c, "ready", rt_None)
  <2>1. rt_at["proxy"] = "preparing" /\ RT!Move("proxy", "preparing", "ready", d) /\ rt_header' = rt_header
    BY <1>3 DEF RT!Release, RT!Move, c
  <2>2. TraceProxyStage("ready", d) /\ d.trace = rt_None
    <3>1. CASE c.on
      <4>1. TraceWaiting(c, {})
        BY <1>0, <2>1, <3>1 DEF TraceProxyStage
      <4>2. "ready" \notin TraceRunning(c)
        BY <4>1 DEF TraceWaiting
      <4>3. TraceStarted(c, "ready", d)
        BY <1>0, <3>1, <4>2, TraceLiterals, TraceStartOK
      <4> HIDE DEF d
      <4> QED
        BY <1>0, <2>1, <3>1, <4>1, <4>3 DEF TraceStarted, TraceWaiting, TraceProxyStage
    <3>2. CASE ~c.on
      <4>1. d = c
        BY <3>2 DEF RT!Start
      <4> QED
        BY <1>0, <2>1, <3>2, <4>1 DEF TraceProxyStage
    <3> QED
      BY <3>1, <3>2
  <2> HIDE DEF d
  <2> QED
    BY <2>1, <2>2, TraceProxyMoves
<1>4. CASE RT!Lose
  <2>1. rt_at["proxy"] = "preparing" /\ RT!Move("proxy", "preparing", "lost", c) /\ rt_header' = rt_header
    BY <1>4 DEF RT!Lose, RT!Move, c
  <2>2. TraceProxyStage("lost", c) /\ c.trace = rt_None
    BY <1>0, <2>1 DEF TraceProxyStage
  <2> QED
    BY <2>1, <2>2, TraceProxyMoves
<1>5. CASE RT!Forward
  <2> DEFINE f == RT!Finish(c, {"ready"}, "SUCCESS")
             d == RT!Forwarded(c)
  <2>1. rt_at["proxy"] = "ready" /\ RT!Move("proxy", "ready", "forward", d) /\ rt_header' = rt_context["proxy"]
    BY <1>5 DEF RT!Forward, RT!Move, c
  <2>2. TraceFinished(c, {"ready"}, "SUCCESS", f)
    BY <1>0, TraceLiterals, TraceFinishOK
  <2>3. LET e == RT!Start(f, "completion", rt_None)
            p == e.handle["completion"]
        IN  d = IF rt_chat THEN RT!Start(e, "first", p) ELSE RT!Skip(RT!Skip(e, "first", p), "decode", p)
    BY DEF RT!Forwarded
  <2> HIDE DEF f, d
  <2>4. TraceProxyStage("forward", d) /\ d.trace = rt_None
    <3>1. CASE c.on
      <4>1. TraceWaiting(c, {"ready"})
        BY <1>0, <2>1, <3>1 DEF TraceProxyStage
      <4>2. TraceSound(f) /\ f.on /\ TraceRunning(f) = {} /\ f.trace = c.trace
            /\ \A m \in {"completion", "first", "decode"} : TraceOutcomesOf(f.closed, m) = {}
        BY <2>2, <3>1, <4>1 DEF TraceFinished, TraceWaiting
      <4>3. TraceSound(d) /\ d.on /\ d.trace = f.trace /\ TraceOpening(d, rt_chat)
        BY <1>0, <2>3, <4>2, TraceOpeningOK
      <4> QED
        BY <1>0, <2>1, <4>2, <4>3 DEF TraceProxyStage
    <3>2. CASE ~c.on
      <4>1. ~f.on /\ TraceSound(f) /\ TraceRunning(f) = {} /\ f.trace = c.trace
        BY <1>0, <2>2, <3>2 DEF TraceFinished
      <4>2. d = f
        BY <2>3, <4>1 DEF RT!Start, RT!Skip
      <4> QED
        BY <1>0, <2>1, <4>1, <4>2 DEF TraceProxyStage
    <3> QED
      BY <3>1, <3>2
  <2> QED
    BY <2>1, <2>4, TraceProxyMoves
<1>6. CASE RT!FirstChunk
  <2> DEFINE d == IF rt_chat THEN RT!FirstChunkOf(c) ELSE c
  <2>1. rt_at["proxy"] = "forward" /\ RT!Move("proxy", "forward", "chunks", d) /\ rt_header' = rt_header
    BY <1>6 DEF RT!FirstChunk, RT!Move, c
  <2>2. TraceProxyStage("chunks", d) /\ d.trace = rt_None
    <3>1. CASE c.on /\ rt_chat
      <4>1. TraceOpening(c, TRUE)
        BY <1>0, <2>1, <3>1 DEF TraceProxyStage
      <4>2. TraceSound(d) /\ d.on /\ d.trace = c.trace /\ TraceDecoding(d)
        BY <1>0, <3>1, <4>1, TraceFirstChunkOK
      <4> HIDE DEF d
      <4> QED
        BY <1>0, <2>1, <3>1, <4>2 DEF TraceProxyStage
    <3>2. CASE ~c.on /\ rt_chat
      <4> DEFINE f == RT!Finish(c, {"first"}, "SUCCESS")
      <4>1. TraceFinished(c, {"first"}, "SUCCESS", f)
        BY <1>0, TraceLiterals, TraceFinishOK
      <4>2. d = RT!Start(f, "decode", c.handle["completion"])
        BY <3>2 DEF RT!FirstChunkOf
      <4> HIDE DEF f, d
      <4>3. ~f.on /\ TraceSound(f) /\ TraceRunning(f) = {} /\ f.trace = c.trace
        BY <1>0, <3>2, <4>1 DEF TraceFinished
      <4>4. d = f
        BY <4>2, <4>3 DEF RT!Start
      <4> QED
        BY <1>0, <2>1, <4>3, <4>4 DEF TraceProxyStage
    <3>3. CASE ~rt_chat
      BY <1>0, <2>1, <3>3 DEF TraceProxyStage
    <3> QED
      BY <1>0, <3>1, <3>2, <3>3
  <2> HIDE DEF d
  <2> QED
    BY <2>1, <2>2, TraceProxyMoves
<1>7. CASE RT!ForwardEnds
  <2>1. CASE rt_at["instance"] = "ended" /\ RT!Move("proxy", "chunks", "done", RT!Closed(c, TRUE)) /\ rt_header' = rt_header
    <3> DEFINE d == RT!Closed(c, TRUE)
    <3>1. rt_at["proxy"] = "chunks" /\ c.trace = rt_None
      BY <1>0, <2>1 DEF RT!Move
    <3>2. c.on => TraceOpening(c, FALSE) \/ TraceDecoding(c)
      BY <1>0, <3>1 DEF TraceProxyStage
    <3>3. TraceSound(d) /\ d.on = c.on /\ d.trace # rt_None /\ (d.on => TraceWhole(d))
      BY <1>0, <3>1, <3>2, TraceClosedOK
    <3> HIDE DEF d
    <3>4. TraceProxyStage("done", d)
      BY <3>3 DEF TraceProxyStage
    <3> QED
      BY <2>1, <3>4, TraceProxyMoves DEF d
  <2>2. CASE rt_at["instance"] = "empty" /\ RT!Move("proxy", "forward", "done", RT!Closed(c, FALSE)) /\ rt_header' = rt_header
    <3> DEFINE d == RT!Closed(c, FALSE)
    <3>1. rt_at["proxy"] = "forward" /\ c.trace = rt_None
      BY <1>0, <2>2 DEF RT!Move
    <3>2. c.on => TraceOpening(c, rt_chat)
      BY <1>0, <3>1 DEF TraceProxyStage
    <3>3. TraceSound(d) /\ d.on = c.on /\ d.trace # rt_None /\ d.trace.outcome = "FAILED" /\ (d.on => TraceWhole(d))
      BY <1>0, <3>1, <3>2, TraceClosedOK
    <3> HIDE DEF d
    <3>4. TraceProxyStage("done", d)
      BY <3>3 DEF TraceProxyStage
    <3> QED
      BY <2>2, <3>3, <3>4, TraceProxyMoves DEF d
  <2> QED
    BY <1>7, <2>1, <2>2 DEF RT!ForwardEnds, c
<1>8. CASE RT!ForwardBreaks
  <2>1. PICK from \in {"ready", "forward", "chunks"}, outcome \in {"FAILED", "CANCELLED"} :
          RT!Move("proxy", from, "done", RT!Broken(c, outcome))
    BY <1>8 DEF RT!ForwardBreaks, c
  <2> DEFINE d == RT!Broken(c, outcome)
  <2>2. rt_header' = rt_header /\ rt_at["proxy"] = from /\ c.trace = rt_None
    BY <1>0, <1>8, <2>1 DEF RT!ForwardBreaks, RT!Move
  <2>3. c.on => \/ \E streamed \in BOOLEAN : TraceOpening(c, streamed)
                \/ TraceDecoding(c)
                \/ TraceWaiting(c, {"ready"})
    BY <1>0, <2>2 DEF TraceProxyStage
  <2>4. TraceSound(d) /\ d.on = c.on /\ d.trace # rt_None /\ d.trace.outcome = outcome /\ (d.on => TraceWhole(d))
    BY <1>0, <2>2, <2>3, TraceBrokenOK
  <2> HIDE DEF d
  <2>5. TraceProxyStage("done", d)
    BY <2>4 DEF TraceProxyStage
  <2> QED
    BY <2>1, <2>2, <2>4, <2>5, TraceProxyMoves DEF d
<1> QED
  BY <1>1, <1>2, <1>3, <1>4, <1>5, <1>6, <1>7, <1>8

(* The Instance's steps on a collector that stands.                        *)
LEMMA TraceInstanceOK ==
  ASSUME RT!ConstantsAssumption, TraceIInv, RT!InstanceFirstChunk \/ RT!InstanceEnds \/ RT!InstanceBreaks
  PROVE  TraceIInv'
<1> DEFINE c == rt_col["instance"]
<1>0. /\ TraceInstanceStage(rt_at["instance"], c) /\ rt_stream \in BOOLEAN /\ c.on \in BOOLEAN
      /\ TraceSound(c) /\ (~c.on => TraceRunning(c) = {})
      /\ (c.trace # rt_None => rt_at["instance"] \in {"ended", "empty", "failed", "broken"})
  BY DEF TraceIInv, TracePlaces, TraceInstanceStage, TraceSound, TraceCollectors, TraceRunning
<1> HIDE DEF c
<1>1. CASE RT!InstanceFirstChunk
  <2> DEFINE d == RT!FirstChunkOf(c)
  <2>1. rt_stream /\ rt_at["instance"] = "answering" /\ RT!Move("instance", "answering", "decoding", d) /\ rt_header' = rt_header
    BY <1>1 DEF RT!InstanceFirstChunk, RT!Move, c
  <2>2. TraceInstanceStage("decoding", d)
    <3>1. CASE c.on
      <4>1. TraceOpening(c, TRUE)
        BY <1>0, <2>1, <3>1 DEF TraceInstanceStage
      <4>2. TraceSound(d) /\ d.on /\ d.trace = c.trace /\ TraceDecoding(d)
        BY <1>0, <3>1, <4>1, TraceFirstChunkOK
      <4> HIDE DEF d
      <4> QED
        BY <1>0, <2>1, <3>1, <4>2 DEF TraceInstanceStage
    <3>2. CASE ~c.on
      <4> DEFINE f == RT!Finish(c, {"first"}, "SUCCESS")
      <4>1. TraceFinished(c, {"first"}, "SUCCESS", f)
        BY <1>0, TraceLiterals, TraceFinishOK
      <4>2. d = RT!Start(f, "decode", c.handle["completion"])
        BY DEF RT!FirstChunkOf
      <4> HIDE DEF f, d
      <4>3. ~f.on /\ TraceSound(f) /\ f.trace = c.trace
        BY <1>0, <3>2, <4>1 DEF TraceFinished
      <4>4. d = f
        BY <4>2, <4>3 DEF RT!Start
      <4> QED
        BY <1>0, <2>1, <4>3, <4>4 DEF TraceInstanceStage
    <3> QED
      BY <3>1, <3>2
  <2> HIDE DEF d
  <2> QED
    BY <2>1, <2>2, TraceInstanceMoves
<1>2. ASSUME RT!InstanceEnds PROVE TraceIInv'
  <2> DEFINE good == RT!Closed(c, TRUE)
             d == RT!Finalized(c, good)
             bad == RT!Closed(c, FALSE)
             e == RT!Finalized(c, bad)
  <2>1. /\ rt_header' = rt_header /\ rt_at["instance"] \in {"answering", "decoding"} /\ c.trace = rt_None
        /\ \/ RT!Move("instance", "decoding", "ended", d)
           \/ rt_stream /\ RT!Move("instance", "answering", "empty", e)
           \/ ~rt_stream /\ RT!Move("instance", "answering", "ended", d)
    BY <1>0, <1>2 DEF RT!InstanceEnds, RT!Move, c
  <2>2. ASSUME rt_at["instance"] = "decoding" \/ ~rt_stream PROVE TraceInstanceStage("ended", d)
    <3>1. c.on => TraceOpening(c, FALSE) \/ TraceDecoding(c)
      BY <1>0, <2>1, <2>2 DEF TraceInstanceStage
    <3>2. TraceSound(good) /\ good.on = c.on /\ good.trace.outcome = "SUCCESS" /\ (good.on => TraceWhole(good))
      BY <1>0, <2>1, <3>1, TraceClosedOK
    <3>3. d = IF c.on THEN good ELSE c
      BY DEF RT!Finalized
    <3> HIDE DEF good, d
    <3> QED
      BY <1>0, <2>1, <3>2, <3>3 DEF TraceInstanceStage
  <2>3. ASSUME rt_at["instance"] = "answering", rt_stream PROVE TraceInstanceStage("empty", e)
    <3>1. c.on => TraceOpening(c, TRUE)
      BY <1>0, <2>3 DEF TraceInstanceStage
    <3>2. TraceSound(bad) /\ bad.on = c.on /\ (bad.on => TraceWhole(bad))
      BY <1>0, <2>1, <3>1, TraceClosedOK
    <3>3. e = IF c.on THEN bad ELSE c
      BY DEF RT!Finalized
    <3> HIDE DEF bad, e
    <3> QED
      BY <1>0, <2>1, <3>2, <3>3 DEF TraceInstanceStage
  <2> HIDE DEF d, e
  <2>4. CASE RT!Move("instance", "decoding", "ended", d)
    <3>1. TraceInstanceStage("ended", d)
      BY <2>2, <2>4 DEF RT!Move
    <3> QED
      BY <2>1, <2>4, <3>1, TraceInstanceMoves
  <2>5. CASE rt_stream /\ RT!Move("instance", "answering", "empty", e)
    <3>1. TraceInstanceStage("empty", e)
      BY <2>3, <2>5 DEF RT!Move
    <3> QED
      BY <2>1, <2>5, <3>1, TraceInstanceMoves
  <2>6. CASE ~rt_stream /\ RT!Move("instance", "answering", "ended", d)
    <3>1. TraceInstanceStage("ended", d)
      BY <2>2, <2>6
    <3> QED
      BY <2>1, <2>6, <3>1, TraceInstanceMoves
  <2> QED
    BY <2>1, <2>4, <2>5, <2>6
<1>3. CASE RT!InstanceBreaks
  <2>1. PICK outcome \in {"FAILED", "CANCELLED"} :
          \/ RT!Move("instance", "answering", "failed", RT!Finalized(c, RT!Broken(c, outcome)))
          \/ RT!Move("instance", "decoding", "broken", RT!Finalized(c, RT!Broken(c, outcome)))
    BY <1>3 DEF RT!InstanceBreaks, c
  <2> DEFINE b == RT!Broken(c, outcome)
             d == RT!Finalized(c, b)
  <2>2. rt_header' = rt_header /\ rt_at["instance"] \in {"answering", "decoding"} /\ c.trace = rt_None
    BY <1>0, <1>3, <2>1 DEF RT!InstanceBreaks, RT!Move
  <2>3. c.on => \/ \E streamed \in BOOLEAN : TraceOpening(c, streamed)
                \/ TraceDecoding(c)
                \/ TraceWaiting(c, {"ready"})
    BY <1>0, <2>2 DEF TraceInstanceStage
  <2>4. TraceSound(b) /\ b.on = c.on /\ (b.on => TraceWhole(b))
    BY <1>0, <2>2, <2>3, TraceBrokenOK
  <2>5. d = IF c.on THEN b ELSE c
    BY DEF RT!Finalized
  <2>6. \/ RT!Move("instance", "answering", "failed", d)
        \/ RT!Move("instance", "decoding", "broken", d)
    BY <2>1
  <2> HIDE DEF b, d
  <2>7. TraceInstanceStage("failed", d) /\ TraceInstanceStage("broken", d)
    BY <1>0, <2>2, <2>4, <2>5 DEF TraceInstanceStage
  <2> QED
    BY <2>2, <2>6, <2>7, TraceInstanceMoves
<1> QED
  BY <1>1, <1>2, <1>3

(* The headers arrive.                                                     *)
LEMMA TraceArrivalOK ==
  ASSUME RT!ConstantsAssumption, TraceIInv, RT!SchedulerSends \/ RT!ProxyReceives \/ RT!InstanceReceives
  PROVE  TraceIInv'
<1>0. TracePlaces /\ TraceTold /\ TraceProxyStage(rt_at["proxy"], rt_col["proxy"]) /\ TraceInstanceStage(rt_at["instance"], rt_col["instance"])
  BY DEF TraceIInv
<1>1. \A by \in {"scheduler", "proxy", "instance"}, rid \in {"request", "local"} :
        \A x \in RT!Created(by, rid) : x \in RT!Contexts /\ x.by = by
  BY DEF RT!Created, RT!Contexts
<1>2. CASE RT!SchedulerSends
  <2>1. rt_header' \in RT!Contexts /\ rt_at["proxy"] = "idle" /\ UNCHANGED <<rt_chat, rt_stream, rt_at, rt_context, rt_col>>
    BY <1>1, <1>2 DEF RT!SchedulerSends
  <2> QED
    BY <1>0, <2>1 DEF TraceIInv, TracePlaces, TraceTold, TraceProxyStage, TraceInstanceStage
<1>3. CASE RT!ProxyReceives
  <2>1. PICK ctx \in RT!Contexts :
          /\ rt_at["proxy"] = "idle" /\ rt_header' = rt_None /\ rt_at' = [rt_at EXCEPT !["proxy"] = "made"]
          /\ rt_context' = [rt_context EXCEPT !["proxy"] = ctx]
          /\ rt_col' = [rt_col EXCEPT !["proxy"].on = ctx.sampled]
          /\ UNCHANGED <<rt_chat, rt_stream>>
    <3>1. PICK verdict \in RT!Verdict, x \in RT!Created("proxy", "request") :
            LET ctx == IF verdict = "good" THEN rt_header ELSE x
            IN /\ rt_context' = [rt_context EXCEPT !["proxy"] = ctx]
               /\ rt_col' = [rt_col EXCEPT !["proxy"].on = ctx.sampled]
      BY <1>3 DEF RT!ProxyReceives
    <3>2. (IF verdict = "good" THEN rt_header ELSE x) \in RT!Contexts
      BY <1>0, <1>1, <1>3 DEF RT!ProxyReceives, TracePlaces
    <3> QED
      BY <1>3, <3>1, <3>2 DEF RT!ProxyReceives
  <2> DEFINE c == [RT!Off EXCEPT !.on = ctx.sampled]
  <2>2. rt_col["proxy"] = RT!Off /\ rt_context["instance"] = rt_None
    BY <1>0, <2>1 DEF TraceProxyStage, TraceTold
  <2>3. /\ rt_at'["proxy"] = "made" /\ rt_at'["instance"] = rt_at["instance"]
        /\ rt_col'["proxy"] = c /\ rt_col'["instance"] = rt_col["instance"]
        /\ rt_context'["instance"] = rt_None /\ rt_context' \in [RT!Sides -> RT!Contexts \cup {rt_None}]
        /\ rt_at' = [s \in RT!Sides |-> rt_at'[s]] /\ rt_col' = [s \in RT!Sides |-> rt_col'[s]]
    BY <1>0, <2>1, <2>2 DEF TracePlaces, RT!Sides
  <2>4. TraceSound(c) /\ c.trace = rt_None /\ TraceWaiting(c, {})
    <3>1. c = [on |-> ctx.sampled, open |-> {}, closed |-> {}, n |-> 0, handle |-> [m \in RT!Names |-> rt_None], trace |-> rt_None]
      BY DEF RT!Off
    <3>2. ctx.sampled \in BOOLEAN
      BY DEF RT!Contexts
    <3> HIDE DEF c
    <3> QED
      BY <3>1, <3>2, TraceOffOK
  <2> HIDE DEF c
  <2>5. TracePlaces'
    BY <1>0, <2>1, <2>3 DEF TracePlaces
  <2>6. TraceTold'
    BY <2>1, <2>3, <2>4 DEF TraceTold
  <2>7. TraceProxyStage(rt_at["proxy"], rt_col["proxy"])'
    BY <2>3, <2>4 DEF TraceProxyStage
  <2>8. TraceInstanceStage(rt_at["instance"], rt_col["instance"])'
    BY <1>0, <2>1, <2>3 DEF TraceInstanceStage
  <2> QED
    BY <2>5, <2>6, <2>7, <2>8 DEF TraceIInv
<1>4. CASE RT!InstanceReceives
  <2>0. PICK verdict \in RT!Verdict : \E ctx \in RT!Resolved(verdict) :
          /\ rt_context' = [rt_context EXCEPT !["instance"] = ctx]
          /\ rt_col' = [rt_col EXCEPT !["instance"] = RT!Opened(RT!Session(ctx))]
    BY <1>4 DEF RT!InstanceReceives
  <2>1. PICK ctx \in RT!Resolved(verdict) :
          /\ rt_context' = [rt_context EXCEPT !["instance"] = ctx]
          /\ rt_col' = [rt_col EXCEPT !["instance"] = RT!Opened(RT!Session(ctx))]
    BY <2>0
  <2>2. /\ rt_at["instance"] = "idle" /\ rt_at["proxy"] \in {"forward", "done"} /\ rt_header # rt_None
        /\ rt_header' = rt_None /\ rt_at' = [rt_at EXCEPT !["instance"] = "answering"] /\ UNCHANGED <<rt_chat, rt_stream>>
    BY <1>4 DEF RT!InstanceReceives
  <2>3. ctx \in RT!Contexts /\ (ctx.by # "instance" => ctx = rt_context["proxy"])
    <3>1. rt_header \in RT!Contexts /\ rt_header = rt_context["proxy"]
      BY <1>0, <2>2 DEF TracePlaces, TraceTold
    <3>2. rt_header.rid \in {"request", "local"}
      BY <3>1 DEF RT!Contexts
    <3> QED
      BY <1>1, <3>1, <3>2 DEF RT!Resolved
  <2> DEFINE c == RT!Session(ctx)
             d == RT!Opened(c)
  <2>4. TraceSound(c) /\ c.on = ctx.sampled /\ c.trace = rt_None /\ TraceRunning(c) = {} /\ TraceWaiting(c, {})
    <3>1. c = [on |-> ctx.sampled, open |-> {}, closed |-> {}, n |-> 0, handle |-> [m \in RT!Names |-> rt_None], trace |-> rt_None]
      BY DEF RT!Session, RT!Off
    <3>2. ctx.sampled \in BOOLEAN
      BY <2>3 DEF RT!Contexts
    <3> HIDE DEF c
    <3> QED
      BY <3>1, <3>2, TraceOffOK
  <2>5. LET e == RT!Start(c, "completion", rt_None)
            p == e.handle["completion"]
        IN  d = IF rt_stream THEN RT!Start(e, "first", p) ELSE RT!Skip(RT!Skip(e, "first", p), "decode", p)
    BY DEF RT!Opened
  <2>6. /\ rt_at'["instance"] = "answering" /\ rt_at'["proxy"] = rt_at["proxy"]
        /\ rt_col'["instance"] = d /\ rt_col'["proxy"] = rt_col["proxy"]
        /\ rt_context'["instance"] = ctx /\ rt_context'["proxy"] = rt_context["proxy"]
        /\ rt_context' \in [RT!Sides -> RT!Contexts \cup {rt_None}]
        /\ rt_at' = [s \in RT!Sides |-> rt_at'[s]] /\ rt_col' = [s \in RT!Sides |-> rt_col'[s]]
    <3> HIDE DEF d
    <3> QED
      BY <1>0, <2>1, <2>2, <2>3 DEF TracePlaces, RT!Sides, d
  <2> HIDE DEF c, d
  <2>7. TraceInstanceStage("answering", d)
    <3>1. CASE c.on
      <4>1. \A m \in {"completion", "first", "decode"} : TraceOutcomesOf(c.closed, m) = {}
        BY <2>4 DEF TraceWaiting
      <4>2. rt_stream \in BOOLEAN
        BY <1>0 DEF TracePlaces
      <4>3. TraceSound(d) /\ d.on /\ d.trace = c.trace /\ TraceOpening(d, rt_stream)
        BY <2>4, <2>5, <3>1, <4>1, <4>2, TraceOpeningOK
      <4> QED
        BY <2>4, <4>3 DEF TraceInstanceStage
    <3>2. CASE ~c.on
      <4>1. d = c
        BY <2>5, <3>2 DEF RT!Start, RT!Skip
      <4> QED
        BY <2>4, <3>2, <4>1 DEF TraceInstanceStage
    <3> QED
      BY <3>1, <3>2
  <2>8. TracePlaces'
    BY <1>0, <2>2, <2>6 DEF TracePlaces
  <2>9. TraceTold'
    BY <1>0, <2>2, <2>3, <2>6 DEF TraceTold
  <2>10. TraceProxyStage(rt_at["proxy"], rt_col["proxy"])'
    BY <1>0, <2>2, <2>6 DEF TraceProxyStage
  <2>11. TraceInstanceStage(rt_at["instance"], rt_col["instance"])'
    BY <2>2, <2>6, <2>7 DEF TraceInstanceStage
  <2> QED
    BY <2>8, <2>9, <2>10, <2>11 DEF TraceIInv
<1> QED
  BY <1>2, <1>3, <1>4

(* Every step of the request keeps it.                                     *)
LEMMA TraceNextIInv == ASSUME RT!ConstantsAssumption, TraceIInv, [RT!Next]_RT!vars PROVE TraceIInv'
<1>1. CASE UNCHANGED RT!vars
  <2>1. UNCHANGED <<rt_chat, rt_stream, rt_header, rt_at, rt_context, rt_col>>
    BY <1>1 DEF RT!vars
  <2>2. TracePlaces' /\ TraceTold'
    BY <2>1 DEF TraceIInv, TracePlaces, TraceTold
  <2>3. TraceProxyStage(rt_at["proxy"], rt_col["proxy"])'
    BY <2>1 DEF TraceIInv, TraceProxyStage
  <2>4. TraceInstanceStage(rt_at["instance"], rt_col["instance"])'
    BY <2>1 DEF TraceIInv, TraceInstanceStage
  <2> QED
    BY <2>2, <2>3, <2>4 DEF TraceIInv
<1>2. CASE RT!Next
  BY <1>2, TraceProxyOK, TraceInstanceOK, TraceArrivalOK DEF RT!Next
<1> QED
  BY <1>1, <1>2

(* It implies the types and the story that the run checks.                 *)
LEMMA TracePromises == ASSUME RT!ConstantsAssumption, TraceIInv PROVE RT!TypeOK /\ RT!OneStory
<1>1. rt_col \in [RT!Sides -> TraceCollectors]
  BY DEF TraceIInv, TracePlaces, TraceProxyStage, TraceInstanceStage, TraceSound, RT!Sides
<1>2. RT!TypeOK
  BY <1>1 DEF TraceIInv, TracePlaces, RT!TypeOK, TraceCollectors
<1>3. ASSUME NEW s \in RT!Sides, RT!Over(s), rt_col[s].on PROVE TraceWhole(rt_col[s])
  BY <1>3 DEF TraceIInv, TracePlaces, TraceProxyStage, TraceInstanceStage, RT!Over, RT!Sides
<1>4. RT!TracesAreWhole
  BY <1>3 DEF RT!TracesAreWhole, TraceWhole, RT!Outcome, TraceOutcomesOf
<1>5. RT!TracesAgree
  BY DEF RT!TracesAgree, TraceIInv, TraceTold, TraceInstanceStage
<1> QED
  BY <1>2, <1>4, <1>5 DEF RT!OneStory

-----------------------------------------------------------------------------
(* Every module keeps its invariant in the behaviours that are its own.    *)
RoutingInv ==
  /\ part = "service" => ServiceIInv
  /\ part = "link" => LinkIInv
  /\ part = "rotation" => TurnIInv
  /\ part = "choice" => ChoiceIInv
  /\ part = "affinity" => HistoryIInv
  /\ part = "forecast" => ForecastIInv
  /\ part = "traces" => TraceIInv

(* The composite's invariant holds at first, whichever part is chosen.     *)
LEMMA RoutingInit == Init => RoutingInv
<1> SUFFICES ASSUME Init PROVE RoutingInv
  OBVIOUS
<1>1. CASE part = "service"
  BY <1>1, ServiceInitIInv, RoutingAssumption DEF Init, RoutingInv, RoutingAssumption
<1>2. CASE part = "link"
  BY <1>2, LinkInitIInv, RoutingAssumption DEF Init, RoutingInv, RoutingAssumption
<1>3. CASE part = "rotation"
  BY <1>3, TurnInitIInv, RoutingAssumption DEF Init, RoutingInv, RoutingAssumption
<1>4. CASE part = "choice"
  BY <1>4, ChoiceInitIInv, RoutingAssumption DEF Init, RoutingInv, RoutingAssumption
<1>5. CASE part = "affinity"
  BY <1>5, HistoryInitIInv, RoutingAssumption DEF Init, RoutingInv, RoutingAssumption
<1>6. CASE part = "forecast"
  BY <1>6, ForecastInitIInv, RoutingAssumption DEF Init, RoutingInv, RoutingAssumption
<1>7. CASE part = "traces"
  BY <1>7, TraceInitIInv, RoutingAssumption DEF Init, RoutingInv, RoutingAssumption
<1> QED
  BY <1>1, <1>2, <1>3, <1>4, <1>5, <1>6, <1>7 DEF RoutingInv

(* Every step of the part that is chosen keeps it.                         *)
LEMMA RoutingNext == RoutingInv /\ [Next]_vars => RoutingInv'
<1> SUFFICES ASSUME RoutingInv, [Next]_vars PROVE RoutingInv'
  OBVIOUS
<1>1. part' = part
  BY DEF Next, vars
<1>2. ASSUME part = "service" PROVE ServiceIInv'
  <2>1. [SS!Next]_SS!vars
    BY <1>2 DEF Next, vars, ss_vars, SS!vars, SS!poolVars, SS!requestVars
  <2> QED
    BY <1>2, <2>1, ServiceIInvStep, RoutingAssumption DEF RoutingInv, RoutingAssumption
<1>3. ASSUME part = "link" PROVE LinkIInv'
  <2>1. [KL!Next]_KL!vars
    BY <1>3 DEF Next, vars, kl_vars, KL!vars
  <2> QED
    BY <1>3, <2>1, LinkNextIInv, RoutingAssumption DEF RoutingInv, RoutingAssumption
<1>4. ASSUME part = "rotation" PROVE TurnIInv'
  <2>1. [RR!Next]_RR!vars
    BY <1>4 DEF Next, vars, rr_vars, RR!vars
  <2> QED
    BY <1>4, <2>1, TurnNextIInv, RoutingAssumption DEF RoutingInv, RoutingAssumption
<1>5. ASSUME part = "choice" PROVE ChoiceIInv'
  <2>1. [KC!Next]_KC!vars
    BY <1>5 DEF Next, vars, kc_vars, KC!vars
  <2> QED
    BY <1>5, <2>1, ChoiceNextIInv, RoutingAssumption DEF RoutingInv, RoutingAssumption
<1>6. ASSUME part = "affinity" PROVE HistoryIInv'
  <2>1. [PA!Next]_PA!vars
    BY <1>6 DEF Next, vars, pa_vars, PA!vars
  <2> QED
    BY <1>6, <2>1, HistoryNextIInv, RoutingAssumption DEF RoutingInv, RoutingAssumption
<1>7. ASSUME part = "forecast" PROVE ForecastIInv'
  <2>1. [QF!Next]_QF!vars
    BY <1>7 DEF Next, vars, qf_vars, QF!vars, QF!linkVars, QF!prefillVars
  <2> QED
    BY <1>7, <2>1, ForecastNextIInv, RoutingAssumption DEF RoutingInv, RoutingAssumption
<1>8. ASSUME part = "traces" PROVE TraceIInv'
  <2>1. [RT!Next]_RT!vars
    BY <1>8 DEF Next, vars, rt_vars, RT!vars
  <2> QED
    BY <1>8, <2>1, TraceNextIInv, RoutingAssumption DEF RoutingInv, RoutingAssumption
<1> QED
  BY <1>1, <1>2, <1>3, <1>4, <1>5, <1>6, <1>7, <1>8 DEF RoutingInv

(* It always holds.                                                        *)
LEMMA RoutingInvariant == Spec => []RoutingInv
BY RoutingInit, RoutingNext, PTL DEF Spec

(* The types of the variables hold in every module that states them, for   *)
(* any numbers of Proxies, clients, tasks, slots and injections: among     *)
(* them that the list of a forecast is the ready tasks once each.          *)
THEOREM TypedHolds == Spec => []Typed
<1>1. RoutingInv => Typed
  <2>1. part = "service" /\ ServiceIInv => SS!TypeOK
    BY DEF ServiceIInv
  <2>2. part = "link" /\ LinkIInv => KL!TypeOK
    BY LinkSize DEF LinkIInv, LinkTypes, LinkReported, KL!TypeOK
  <2> QED
    BY <2>1, <2>2, ForecastPromises, TracePromises, RoutingAssumption
    DEF RoutingInv, Typed, RoutingAssumption
<1> QED
  BY <1>1, RoutingInvariant, PTL

(* Two requests in flight have the same id only if MaxId ids were handed   *)
(* out during one of them, for any MaxId (RequestIdAllocator.next_id).     *)
THEOREM FreshIdsHolds == Spec => []FreshIds
<1>1. RoutingInv => FreshIds
  BY ServiceIInvFresh, RoutingAssumption DEF RoutingInv, FreshIds, RoutingAssumption
<1> QED
  BY <1>1, RoutingInvariant, PTL

(* The inflight count of a Proxy never exceeds its open requests and the   *)
(* responses that were never started, and is exact while no registration   *)
(* or removal falls into a request; the link of a KDN carries one transfer *)
(* at a time, and the load it reports counts every injection that waits    *)
(* once (ProxyPool.upsert, inflight_delta, NetworkSimulator).              *)
THEOREM CountsAreTrueHolds == Spec => []CountsAreTrue
<1>1. RoutingInv => CountsAreTrue
  BY LinkSerial DEF RoutingInv, CountsAreTrue, ServiceIInv
<1> QED
  BY <1>1, RoutingInvariant, PTL

(* A list that keeps its order is taken in turn, however the lists of KDNs *)
(* and Proxies change before, for any number of either; and another KDN is *)
(* better in a criterion of the cacheroute strategy only if it is worse in *)
(* an earlier one, for any KDNs, blocks, lengths and loads                 *)
(* (RoundRobinStrategy.select, CacheRouteStrategy._select_kdn).            *)
THEOREM ChoosesAsPromisedHolds == Spec => []ChoosesAsPromised
<1>1. RoutingInv => ChoosesAsPromised
  BY TurnIInvRotates, RoutingAssumption DEF RoutingInv, ChoosesAsPromised, ChoiceIInv, RoutingAssumption
<1> QED
  BY <1>1, RoutingInvariant, PTL

(* The history of a block over the Proxies that never left the list weighs *)
(* no more than an endless run of requests for it gives one of them, after *)
(* any number of requests and for any decay (the update of                 *)
(* CacheRouteStrategy._proxy_kid_affinity).                                *)
THEOREM HistoryIsSharedHolds == Spec => []HistoryIsShared
<1>1. RoutingInv => HistoryIsShared
  BY HistoryIInvShared, RoutingAssumption DEF RoutingInv, HistoryIsShared, RoutingAssumption
<1> QED
  BY <1>1, RoutingInvariant, PTL

(* No history makes the strategy choose a Proxy without a link while       *)
(* another has one, nor one whose load exceeds that of another with a link *)
(* by more than the window, for any scores and any window                  *)
(* (CacheRouteStrategy._select_proxy).                                     *)
THEOREM LoadBeforeHistoryHolds == Spec => LoadBeforeHistory
<1>1. RoutingInv /\ [Next]_vars =>
        [part = "affinity" => \A p \in pa_Proxy : PA!ChoosesByLoad(p)]_pa_vars
  <2> SUFFICES ASSUME RoutingInv, [Next]_vars, part = "affinity"
               PROVE  \A p \in pa_Proxy : PA!ChoosesByLoad(p)
    OBVIOUS
  <2>1. [PA!Next]_PA!vars
    BY DEF Next, vars, pa_vars, PA!vars
  <2> QED
    BY <2>1, HistoryNextIInv, RoutingAssumption DEF RoutingInv, RoutingAssumption
<1> QED
  BY <1>1, RoutingInvariant, PTL DEF Spec, LoadBeforeHistory

(* No two reserved transfers of the KDN's link overlap, the prefills of    *)
(* the ready tasks follow each other, and what the next request is told is *)
(* behind all of them, for any tasks, transfer and service times, ready    *)
(* workers and clock (_reserve_ready_task, _recompute_pending_from_now,    *)
(* estimate_iws_costs).                                                    *)
THEOREM NoWindowIsPromisedTwiceHolds == Spec => []NoWindowIsPromisedTwice
<1>1. RoutingInv => NoWindowIsPromisedTwice
  BY ForecastPromises, RoutingAssumption DEF RoutingInv, NoWindowIsPromisedTwice, RoutingAssumption
<1> QED
  BY <1>1, RoutingInvariant, PTL

(* However a request ends, a sampled trace comes out of either side, with  *)
(* its stages closed and the outcome of its completion, and the two do not *)
(* contradict each other, for every run of the Scheduler's headers, the    *)
(* Proxy and the Instance (TraceCollector, decode_trace_headers,           *)
(* collect_streaming, _ready_worker_loop).                                 *)
THEOREM OneStoryHolds == Spec => []OneStory
<1>1. RoutingInv => OneStory
  BY TracePromises, RoutingAssumption DEF RoutingInv, OneStory, RoutingAssumption
<1> QED
  BY <1>1, RoutingInvariant, PTL
=============================================================================
