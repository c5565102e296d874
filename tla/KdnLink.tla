------------------------------ MODULE KdnLink -------------------------------
(***************************************************************************)
(* The simulated link of a KDN server (kdn_server/kdn_api.py,              *)
(* NetworkSimulator): every block an injection sent is also given to a     *)
(* queue that one worker serves one at a time, and the handler waits until *)
(* its transfer has been acknowledged before it goes on to the next block. *)
(* The load the heartbeats report is the length of that queue and whether  *)
(* a transfer is on its way.  The slots of the link that is not simulated  *)
(* (_acquire_real_net_kv_slot and the others) are taken and given back     *)
(* without giving up the event loop, so nobody ever waits for them.        *)
(***************************************************************************)
EXTENDS Integers, Sequences, FiniteSets

CONSTANTS
  Handler    \* the injections that run

ConstantsAssumption == IsFiniteSet(Handler)

VARIABLES
  pending,   \* the queue: handlers, in the order they submitted
  active,    \* the handlers whose transfer is on its way
  worker,    \* "get": takes the next transfer; "serve": sleeps until it is over
  waiting,   \* the handlers whose transfer has not been acknowledged
  stopped,   \* the server shuts down
  reported   \* the load of the last heartbeat

vars == <<pending, active, worker, waiting, stopped, reported>>

Init ==
  /\ pending = <<>> /\ active = {} /\ worker = "get" /\ waiting = {}
  /\ stopped = FALSE /\ reported = 0

(* submit_transfer: an injection waits for one transfer at a time. *)
Submit(h) ==
  /\ h \notin waiting
  /\ pending' = Append(pending, h) /\ waiting' = waiting \cup {h}
  /\ UNCHANGED <<active, worker, stopped, reported>>

(* The next transfer is a task of its own that the worker does not await. *)
StartUnawaited ==
  /\ worker = "get" /\ pending # <<>> /\ ~ stopped
  /\ active' = active \cup {Head(pending)} /\ pending' = Tail(pending)
  /\ UNCHANGED <<worker, waiting, stopped, reported>>

(* The newest transfer first. *)
StartNewest ==
  /\ worker = "get" /\ pending # <<>> /\ ~ stopped
  /\ active' = active \cup {pending[Len(pending)]}
  /\ pending' = SubSeq(pending, 1, Len(pending) - 1)
  /\ worker' = "serve"
  /\ UNCHANGED <<waiting, stopped, reported>>

Start ==
  /\ worker = "get" /\ pending # <<>> /\ ~ stopped
  /\ active' = active \cup {Head(pending)} /\ pending' = Tail(pending)
  /\ worker' = "serve"
  /\ UNCHANGED <<waiting, stopped, reported>>

(* _finish_task and the end of _serve_one: nothing comes between them. *)
Finish(h) ==
  /\ h \in active /\ ~ stopped
  /\ active' = active \ {h} /\ worker' = "get"
  /\ waiting' = waiting \ {h}
  /\ UNCHANGED <<pending, stopped, reported>>

Load == Len(pending) + Cardinality(active)

(* get_runtime_stats: one heartbeat. *)
Beat ==
  /\ ~ stopped /\ reported' = Load
  /\ UNCHANGED <<pending, active, worker, waiting, stopped>>

(* stop, at the shutdown: the worker is cancelled, and whoever waits for   *)
(* a transfer is not told.                                                 *)
Stop ==
  /\ ~ stopped /\ stopped' = TRUE
  /\ UNCHANGED <<pending, active, worker, waiting, reported>>

Next ==
  \/ \E h \in Handler : Submit(h) \/ Finish(h)
  \/ Start \/ Beat \/ Stop

Spec == Init /\ [][Next]_vars
FairSpec == Spec /\ WF_vars(Start) /\ \A h \in Handler : WF_vars(Finish(h))

-----------------------------------------------------------------------------
TypeOK ==
  /\ pending \in Seq(Handler) /\ active \subseteq Handler /\ waiting \subseteq Handler
  /\ worker \in {"get", "serve"} /\ stopped \in BOOLEAN
  /\ reported \in 0 .. Cardinality(Handler)

(* The link is serial: two transfers are never on their way at once, and   *)
(* every handler that waits is in the queue or on the link exactly once,   *)
(* so the load of a heartbeat is the number of injections that wait.       *)
SerialLink == Cardinality(active) <= 1 /\ Load = Cardinality(waiting)

Waits(h) == h \in waiting

(* Unless the server shuts down, an injection is not left waiting, however *)
(* many others keep submitting.                                            *)
EveryTransferEnds == \A h \in Handler : Waits(h) ~> ~Waits(h) \/ stopped
=============================================================================
