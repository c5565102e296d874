-------------------------- MODULE SchedulerService --------------------------
(***************************************************************************)
(* The Scheduler's data plane (scheduler/scheduler.py), its pool of        *)
(* Proxies (scheduler/resource/proxy_pool.py, control_plane.py), and the   *)
(* part of a Proxy's lifespan that keeps it in the pool (proxy/proxy.py).  *)
(* A handler lists the pool, builds the request, selects a Proxy and       *)
(* counts the request without leaving the event loop (none of its awaits   *)
(* suspends: the locks are free whenever it runs), so that is one step.    *)
(* The count is undone by the finally clause of the response's generator.  *)
(* Which of the live Proxies is selected is up to the strategy             *)
(* (RoundRobinStrategy, ProxyAffinity); here it is any of them.            *)
(***************************************************************************)
EXTENDS Integers, FiniteSets

CONSTANTS
  Proxy,        \* the Proxy ids
  Client,       \* the client connections: one request at a time on each
  None,
  MaxId,        \* 65535 in the code: request ids are 1 .. MaxId
  MaxLeaks,     \* bound: the generators that are never started
  MaxStarts     \* bound: the Proxy processes and Scheduler restarts

ConstantsAssumption ==
  /\ IsFiniteSet(Proxy) /\ IsFiniteSet(Client) /\ None \notin Proxy
  /\ MaxId \in Nat \ {0} /\ MaxLeaks \in Nat /\ MaxStarts \in Nat

VARIABLES
  up,        \* the Proxies whose process runs
  pool,      \* the keys of ProxyPool._data
  alive,     \* those whose last_seen_at is not older than the TTL
  inflight,  \* load.inflight of every entry (0 where there is none)
  current,   \* RequestIdAllocator._current
  request,   \* what every client's request is at
  age,       \* auxiliary: the ids handed out since the client's, up to MaxId
  lost,      \* auxiliary: the increments of an entry nobody will undo
  renewed,   \* auxiliary: the entries renewed or removed while requests were open
  leaks, starts

poolVars    == <<pool, alive, inflight, renewed, lost>>
requestVars == <<request, current, age>>
vars == <<up, poolVars, requestVars, leaks, starts>>

Idle == [at |-> "idle", proxy |-> None, id |-> 0]

Init ==
  /\ up = {} /\ pool = {} /\ alive = {} /\ inflight = [p \in Proxy |-> 0]
  /\ current = 0 /\ request = [c \in Client |-> Idle] /\ age = [c \in Client |-> 0]
  /\ lost = [p \in Proxy |-> 0] /\ renewed = {}
  /\ leaks = 0 /\ starts = 0

OpenOf(p) == {c \in Client : request[c].proxy = p}

-----------------------------------------------------------------------------
(* The pool.                                                               *)

(* An entry starts with, or leaves behind, an empty load. *)
Reset(p) ==
  /\ inflight' = [inflight EXCEPT ![p] = 0]
  /\ lost' = [lost EXCEPT ![p] = 0]
  /\ renewed' = IF OpenOf(p) = {} THEN renewed \ {p} ELSE renewed \cup {p}

(* A registration replaces the entry, load included. *)
Upsert(p) == pool' = pool \cup {p} /\ alive' = alive \cup {p} /\ Reset(p)

(* A heartbeat that does not touch the entry. *)
BeatSilently(p) == p \in pool /\ UNCHANGED poolVars

(* A heartbeat that carries a load with one field only. *)
BeatWithLoad(p) ==
  /\ p \in pool
  /\ alive' = alive \cup {p} /\ inflight' = [inflight EXCEPT ![p] = 0]
  /\ UNCHANGED <<pool, renewed, lost>>

(* A heartbeat of an unknown Proxy is answered 404 and changes nothing. *)
Beat(p) ==
  /\ p \in pool /\ alive' = alive \cup {p}
  /\ UNCHANGED <<pool, inflight, renewed, lost>>

Remove(p) == pool' = pool \ {p} /\ alive' = alive \ {p} /\ Reset(p)

(* inflight_delta(-1): of an entry that is not there it returns False. *)
Undone(p) ==
  IF p \in pool /\ inflight[p] > 0 THEN [inflight EXCEPT ![p] = @ - 1] ELSE inflight

-----------------------------------------------------------------------------
(* The Proxy process.  It registers once, whatever comes of it, and sends  *)
(* heartbeats (without a load) from then on.                               *)

Start(p) ==
  /\ p \notin up /\ starts < MaxStarts
  /\ up' = up \cup {p} /\ starts' = starts + 1
  /\ \/ Upsert(p)                       \* the answer may still be lost
     \/ UNCHANGED poolVars              \* register failed (non-fatal)
  /\ UNCHANGED <<requestVars, leaks>>

Heartbeat(p) ==
  /\ p \in up /\ Beat(p)
  /\ UNCHANGED <<up, requestVars, leaks, starts>>

(* The shutdown unregisters; a process that is killed does not. *)
Stop(p) ==
  /\ p \in up /\ up' = up \ {p}
  /\ \/ Remove(p)
     \/ UNCHANGED poolVars
  /\ UNCHANGED <<requestVars, leaks, starts>>

(* The TTL passes without a heartbeat: the Proxy is gone, or its calls are *)
(* lost for that long.                                                     *)
Expire(p) ==
  /\ p \in alive /\ alive' = alive \ {p}
  /\ UNCHANGED <<up, pool, inflight, renewed, lost, requestVars, leaks, starts>>

(* The Scheduler process starts anew: its requests end with it.            *)
SchedulerRestart ==
  /\ starts < MaxStarts /\ starts' = starts + 1
  /\ pool' = {} /\ alive' = {} /\ inflight' = [p \in Proxy |-> 0]
  /\ current' = 0 /\ request' = [c \in Client |-> Idle] /\ age' = [c \in Client |-> 0]
  /\ lost' = [p \in Proxy |-> 0] /\ renewed' = {}
  /\ UNCHANGED <<up, leaks>>

-----------------------------------------------------------------------------
(* A request.                                                              *)

(* The ids that stop at the last one. *)
NextIdKeepsLast == IF current + 1 > MaxId THEN current ELSE current + 1

(* The ids that start with 0 again. *)
NextIdModulo == (current + 1) % (MaxId + 1)

NextId == IF current + 1 > MaxId THEN 1 ELSE current + 1

TakeId(c) ==
  /\ current' = NextId
  /\ age' = [d \in Client |-> IF d = c \/ request[d] = Idle THEN 0
                              ELSE IF age[d] = MaxId THEN MaxId ELSE age[d] + 1]

(* No model or no prompt in the payload, no live Proxy, or no live KDN:    *)
(* _handle_client has taken an id by then.                                 *)
Refuse(c) ==
  /\ request[c] = Idle /\ TakeId(c)
  /\ UNCHANGED <<up, poolVars, request, leaks, starts>>

(* The request is counted, and its response handed to the server. *)
Route(c) ==
  /\ request[c] = Idle /\ TakeId(c)
  /\ \E p \in alive :
       /\ request' = [request EXCEPT ![c] = [at |-> "counted", proxy |-> p, id |-> NextId]]
       /\ inflight' = [inflight EXCEPT ![p] = @ + 1]
  /\ UNCHANGED <<up, pool, alive, renewed, lost, leaks, starts>>

(* The server iterates the response: iter_upstream calls forward_request. *)
StartStream(c) ==
  /\ request[c].at = "counted"
  /\ request' = [request EXCEPT ![c].at = "streaming"]
  /\ UNCHANGED <<up, poolVars, current, age, leaks, starts>>

(* The server was cancelled while it sent the response's headers: the body *)
(* is dropped before its first step, so its finally clause never runs.     *)
NeverStarted(c) ==
  /\ request[c].at = "counted" /\ leaks < MaxLeaks
  /\ leaks' = leaks + 1
  /\ request' = [request EXCEPT ![c] = Idle]
  /\ lost' = IF request[c].proxy \in pool
               THEN [lost EXCEPT ![request[c].proxy] = @ + 1] ELSE lost
  /\ UNCHANGED <<up, pool, alive, inflight, renewed, current, age, starts>>

(* The client left while a chunk was being sent: the generator is closed   *)
(* when it is collected, some time later.                                  *)
Disconnect(c) ==
  /\ request[c].at = "streaming"
  /\ request' = [request EXCEPT ![c].at = "dropped"]
  /\ UNCHANGED <<up, poolVars, current, age, leaks, starts>>

(* The count undone for the streams that were read to their end only.      *)
EndIfStreaming(c) ==
  /\ request[c].at \in {"streaming", "dropped"}
  /\ inflight' = IF request[c].at = "streaming" THEN Undone(request[c].proxy) ELSE inflight
  /\ request' = [request EXCEPT ![c] = Idle]
  /\ UNCHANGED <<up, pool, alive, renewed, lost, current, age, leaks, starts>>

(* The answer is complete, forward_request raised (a status that is        *)
(* neither 2xx nor 4xx, an error of the connection), or the generator is   *)
(* closed: finally.                                                        *)
End(c) ==
  /\ request[c].at \in {"streaming", "dropped"}
  /\ inflight' = Undone(request[c].proxy)
  /\ request' = [request EXCEPT ![c] = Idle]
  /\ UNCHANGED <<up, pool, alive, renewed, lost, current, age, leaks, starts>>

Next ==
  \/ \E p \in Proxy : Start(p) \/ Heartbeat(p) \/ Stop(p) \/ Expire(p)
  \/ SchedulerRestart
  \/ \E c \in Client :
       Refuse(c) \/ Route(c) \/ StartStream(c) \/ NeverStarted(c) \/ Disconnect(c) \/ End(c)

Spec == Init /\ [][Next]_vars

(* Heartbeats are sent every 5 s, an entry without any is dead after 30 s. *)
Fairness == \A p \in Proxy : WF_vars(Heartbeat(p)) /\ WF_vars(p \notin up /\ Expire(p))

FairSpec == Spec /\ Fairness

-----------------------------------------------------------------------------
(* Properties.                                                             *)

(* The type invariant.  An id is never 0 (RequestIdAllocator). *)
TypeOK ==
  /\ up \subseteq Proxy /\ pool \subseteq Proxy /\ alive \subseteq pool
  /\ inflight \in [Proxy -> Nat] /\ lost \in [Proxy -> 0 .. MaxLeaks] /\ renewed \subseteq Proxy
  /\ current \in 0 .. MaxId /\ age \in [Client -> 0 .. MaxId]
  /\ request \in [Client -> {Idle} \cup
       [at : {"counted", "streaming", "dropped"}, proxy : Proxy, id : 1 .. MaxId]]
  /\ leaks \in 0 .. MaxLeaks /\ starts \in 0 .. MaxStarts

(* The inflight count of a Proxy never exceeds the requests that are open  *)
(* there, but for the responses that were dropped before they started:     *)
(* every other end is counted, whatever the pool went through              *)
(* (scheduler.py iter_upstream's finally, ProxyPool.inflight_delta).       *)
NotOverstated == \A p \in pool : inflight[p] <= Cardinality(OpenOf(p)) + lost[p]

(* It is exact as long as no registration or removal of the Proxy falls    *)
(* between the start and the end of a request; heartbeats, expiry and      *)
(* revival leave it alone (ProxyPool.upsert, heartbeat, inflight_delta).   *)
ExactCount == \A p \in pool \ renewed : inflight[p] = Cardinality(OpenOf(p)) + lost[p]

(* Two requests in flight have the same id only if MaxId ids were handed   *)
(* out while one of them was in flight (RequestIdAllocator.next_id).       *)
FreshIds ==
  \A c, d \in Client :
    c # d /\ request[c] # Idle /\ request[d] # Idle /\ request[c].id = request[d].id
      => age[c] = MaxId \/ age[d] = MaxId

(* A Proxy that stays in the pool and runs is listed again and again, one  *)
(* whose process is gone leaves the list (heartbeat loop of the Proxy,     *)
(* ProxyInfo.is_alive).                                                    *)
Stays(p) == p \in up /\ p \in pool
Gone(p) == p \notin up
Listed(p) == p \in alive

ListFollowsProcesses ==
  \A p \in Proxy :
    /\ <>[]Stays(p) => []<>Listed(p)
    /\ <>[]Gone(p) => <>[]~Listed(p)
=============================================================================
