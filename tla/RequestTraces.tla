---------------------------- MODULE RequestTraces ----------------------------
(***************************************************************************)
(* The traces of one request: the context the Scheduler makes for it and   *)
(* sends in headers (observability/propagation.py), the stages the Proxy's *)
(* queues record for it (proxy/queue/manager.py), and those the Instance   *)
(* records while it answers (instance/observability.py).  Each side has a  *)
(* TraceCollector of its own (observability/collector.py), which exports a *)
(* trace once and only when no stage is running, and a trace is validated  *)
(* when it is made (observability/v1/models.py).  An export that raises    *)
(* is logged, and the trace of the request is then missing.                *)
(*                                                                         *)
(* The Instance may break off, the Proxy's worker may be cancelled, and    *)
(* the reservation of a released task may raise at any time.  Stage ids    *)
(* are random in the code and the sequence numbers here: both are unique.  *)
(***************************************************************************)
EXTENDS Integers, FiniteSets

CONSTANT None

Sides == {"proxy", "instance"}
Names == {"prepare", "ready", "completion", "first", "decode"}
Outcomes == {"SUCCESS", "FAILED", "CANCELLED"}

(* Stages, traces and contexts.                                            *)
Stages == [id : Nat, name : Names, parent : Nat \cup {None},
           state : {"running", "completed", "skipped"}, outcome : Outcomes \cup {None}]
Traces == [stages : SUBSET Stages, outcome : Outcomes]
Contexts == [by : {"scheduler", "proxy", "instance"}, rid : {"request", "local"},
             sampled : BOOLEAN]

ConstantsAssumption == None \notin Int \cup Outcomes \cup Traces \cup Contexts

VARIABLES
  chat,     \* whether the Proxy reads the answer in chunks
  stream,   \* whether the Instance is asked for a stream
  header,   \* the context in the headers on their way, or None
  at,       \* where each side is
  context,  \* the context of each side
  col       \* each side's collector, the handles of its stages and its trace

vars == <<chat, stream, header, at, context, col>>

Off == [on |-> FALSE, open |-> {}, closed |-> {}, n |-> 0,
        handle |-> [m \in Names |-> None], trace |-> None]

Init ==
  /\ chat \in BOOLEAN /\ stream \in BOOLEAN /\ (stream => chat)
  /\ header = None
  /\ at = [s \in Sides |-> "idle"]
  /\ context = [s \in Sides |-> None] /\ col = [s \in Sides |-> Off]

-----------------------------------------------------------------------------
(* The collector.                                                          *)

Ids(c) == {g.id : g \in c.open \cup c.closed}

Stage(c, name, parent, state) ==
  [id |-> c.n, name |-> name, parent |-> parent, state |-> state, outcome |-> None]

(* start_stage; what raises is logged.                                     *)
Start(c, name, parent) ==
  IF c.on /\ parent \in Ids(c) \cup {None}
  THEN [c EXCEPT !.open = @ \cup {Stage(c, name, parent, "running")},
                 !.n = @ + 1, !.handle[name] = c.n]
  ELSE c

Skip(c, name, parent) ==
  IF c.on /\ parent \in Ids(c) \cup {None}
  THEN [c EXCEPT !.closed = @ \cup {Stage(c, name, parent, "skipped")}, !.n = @ + 1]
  ELSE c

(* finish_stage, of the stages whose handles the names are; one that is    *)
(* not running is left alone.                                              *)
Finish(c, names, outcome) ==
  LET done == {g \in c.open : g.name \in names /\ c.handle[g.name] = g.id}
  IN [c EXCEPT !.open = @ \ done,
               !.closed = @ \cup {[g EXCEPT !.state = "completed", !.outcome = outcome] : g \in done}]

(* TraceStage.lifecycle and _ordered: what a trace may be made of.         *)
ValidStage(g) ==
  /\ g.state = "running" => g.outcome = None
  /\ g.state = "completed" => g.outcome # None
  /\ g.state = "skipped" => g.outcome = None

Ordered(stages) ==
  /\ \A g, h \in stages : g.id = h.id => g = h
  /\ \A g \in stages : g.parent # None =>
       /\ g.parent # g.id
       /\ \E h \in stages : h.id = g.parent

(* _finalize_trace, finalize: a trace once made stays.                     *)
Export(c, outcome) ==
  IF c.trace = None /\ c.open = {} /\ Ordered(c.closed) /\ \A g \in c.closed : ValidStage(g)
  THEN [c EXCEPT !.trace = [stages |-> c.closed, outcome |-> outcome]]
  ELSE c

-----------------------------------------------------------------------------
(* Contexts.                                                               *)

(* Whether a new trace id is sampled depends on its hash and the rate.     *)
Created(by, rid) == {[by |-> by, rid |-> rid, sampled |-> b] : b \in BOOLEAN}

(* What decode_trace_headers says of headers: good, more than five minutes *)
(* old, from a clock more than 30 seconds ahead, of another profile, or    *)
(* not complete.                                                           *)
Verdict == {"good", "old", "future", "mismatch", "incomplete"}

(* build_proxy_headers: the client's own trace headers are not sent on.    *)
SchedulerSends ==
  /\ at["proxy"] = "idle" /\ header = None
  /\ header' \in Created("scheduler", "request")
  /\ UNCHANGED <<chat, stream, at, context, col>>

(* build_proxy_trace: the request id of the body stands.                   *)
ProxyReceives ==
  /\ at["proxy"] = "idle" /\ header # None
  /\ \E verdict \in Verdict, c \in Created("proxy", "request") :
       LET ctx == IF verdict = "good" THEN header ELSE c
       IN /\ context' = [context EXCEPT !["proxy"] = ctx]
          /\ col' = [col EXCEPT !["proxy"].on = ctx.sampled]
  /\ header' = None /\ at' = [at EXCEPT !["proxy"] = "made"]
  /\ UNCHANGED <<chat, stream>>

(* resolve_instance_context: headers that are only too old, or of another  *)
(* profile, still give the request its id.  A session that is not sampled  *)
(* has no collector.                                                       *)
Resolved(verdict) ==
  IF verdict = "good" THEN {header}
  ELSE Created("instance", IF verdict \in {"old", "mismatch"} THEN header.rid ELSE "local")

-----------------------------------------------------------------------------
(* The Proxy.  Move(s, from, to, c): side s goes on with the collector c.  *)

Move(s, from, to, c) ==
  /\ at[s] = from /\ at' = [at EXCEPT ![s] = to]
  /\ col' = [col EXCEPT ![s] = c]
  /\ UNCHANGED <<chat, stream, context>>

Enqueue ==
  /\ Move("proxy", "made", "queued", Start(col["proxy"], "prepare", None))
  /\ UNCHANGED header

DispatchPrepare ==
  /\ Move("proxy", "queued", "preparing", Finish(col["proxy"], {"prepare"}, "SUCCESS"))
  /\ UNCHANGED header

Release ==
  /\ Move("proxy", "preparing", "ready", Start(col["proxy"], "ready", None))
  /\ UNCHANGED header

(* The reservation raises: the task is in no queue any more.               *)
Lose ==
  /\ Move("proxy", "preparing", "lost", col["proxy"])
  /\ UNCHANGED header

(* Up to the call of forward_request.                                      *)
Forwarded(c) ==
  LET d == Start(Finish(c, {"ready"}, "SUCCESS"), "completion", None)
      p == d.handle["completion"]
  IN IF chat THEN Start(d, "first", p) ELSE Skip(Skip(d, "first", p), "decode", p)

Forward ==
  /\ Move("proxy", "ready", "forward", Forwarded(col["proxy"]))
  /\ header' = context["proxy"]

(* The first chunk that is not empty.                                      *)
FirstChunkOf(c) == Start(Finish(c, {"first"}, "SUCCESS"), "decode", c.handle["completion"])

FirstChunk ==
  /\ at["instance"] \in {"decoding", "ended", "broken"}
  /\ Move("proxy", "forward", "chunks",
          IF chat THEN FirstChunkOf(col["proxy"]) ELSE col["proxy"])
  /\ UNCHANGED header

(* Mutated form of Closed: an empty answer is the end of a good one.       *)
ClosedRegardless(c, seen) ==
  Export(Finish(c, {"first", "decode", "completion"}, "SUCCESS"), "SUCCESS")

(* The end of a stream, which fails if nothing came.                       *)
Closed(c, seen) ==
  IF seen
  THEN Export(Finish(c, {"decode", "completion"}, "SUCCESS"), "SUCCESS")
  ELSE LET d == Skip(Finish(c, {"first"}, "FAILED"), "decode", c.handle["completion"])
       IN Export(Finish(d, {"completion"}, "FAILED"), "FAILED")

ForwardEnds ==
  /\ \/ /\ at["instance"] = "ended"
        /\ Move("proxy", "chunks", "done", Closed(col["proxy"], TRUE))
     \/ /\ at["instance"] = "empty"
        /\ Move("proxy", "forward", "done", Closed(col["proxy"], FALSE))
  /\ UNCHANGED header

(* Mutated form of Broken: the decode stage is forgotten.                  *)
BrokenButDecode(c, outcome) ==
  Export(Finish(c, {"first", "completion", "ready"}, outcome), outcome)

(* The paths of an exception and of a cancellation.                        *)
Broken(c, outcome) ==
  Export(Finish(c, {"first", "decode", "completion", "ready"}, outcome), outcome)

ForwardBreaks ==
  /\ \E from \in {"ready", "forward", "chunks"}, outcome \in {"FAILED", "CANCELLED"} :
       Move("proxy", from, "done", Broken(col["proxy"], outcome))
  /\ UNCHANGED header

-----------------------------------------------------------------------------
(* The Instance.                                                           *)

Session(ctx) == [Off EXCEPT !.on = ctx.sampled]

(* start_completion, then start_first_response or skip_non_streaming.      *)
Opened(c) ==
  LET d == Start(c, "completion", None)
      p == d.handle["completion"]
  IN IF stream THEN Start(d, "first", p) ELSE Skip(Skip(d, "first", p), "decode", p)

InstanceReceives ==
  /\ at["instance"] = "idle" /\ at["proxy"] \in {"forward", "done"} /\ header # None
  /\ \E verdict \in Verdict : \E ctx \in Resolved(verdict) :
       /\ context' = [context EXCEPT !["instance"] = ctx]
       /\ col' = [col EXCEPT !["instance"] = Opened(Session(ctx))]
  /\ header' = None /\ at' = [at EXCEPT !["instance"] = "answering"]
  /\ UNCHANGED <<chat, stream>>

InstanceFirstChunk ==
  /\ stream
  /\ Move("instance", "answering", "decoding", FirstChunkOf(col["instance"]))
  /\ UNCHANGED header

(* finalize does nothing without a collector.                              *)
Finalized(c, d) == IF c.on THEN d ELSE c

(* A stream that ends, with or without a chunk, or an answer in one piece. *)
InstanceEnds ==
  /\ LET c == col["instance"]
     IN \/ Move("instance", "decoding", "ended", Finalized(c, Closed(c, TRUE)))
        \/ stream /\ Move("instance", "answering", "empty", Finalized(c, Closed(c, FALSE)))
        \/ ~stream /\ Move("instance", "answering", "ended", Finalized(c, Closed(c, TRUE)))
  /\ UNCHANGED header

(* An exception, a cancellation, or the generator closed at a yield; what  *)
(* was sent before may still be read ("broken").                           *)
InstanceBreaks ==
  /\ \E outcome \in {"FAILED", "CANCELLED"} :
       LET c == Finalized(col["instance"], Broken(col["instance"], outcome))
       IN \/ Move("instance", "answering", "failed", c)
          \/ Move("instance", "decoding", "broken", c)
  /\ UNCHANGED header

Next ==
  \/ SchedulerSends \/ ProxyReceives \/ Enqueue \/ DispatchPrepare
  \/ Release \/ Lose \/ Forward \/ FirstChunk \/ ForwardEnds \/ ForwardBreaks
  \/ InstanceReceives \/ InstanceFirstChunk \/ InstanceEnds \/ InstanceBreaks

Spec == Init /\ [][Next]_vars

-----------------------------------------------------------------------------
(* The types of the variables.                                             *)
TypeOK ==
  /\ chat \in BOOLEAN /\ stream \in BOOLEAN
  /\ col \in [Sides -> [on : BOOLEAN, open : SUBSET Stages, closed : SUBSET Stages, n : Nat,
                         handle : [Names -> Nat \cup {None}], trace : Traces \cup {None}]]
  /\ header \in Contexts \cup {None} /\ context \in [Sides -> Contexts \cup {None}]
  /\ at["proxy"] \in {"idle", "made", "queued", "preparing", "ready", "lost", "forward", "chunks", "done"}
  /\ at["instance"] \in {"idle", "answering", "decoding", "ended", "empty", "failed", "broken"}

(* The side's work on the request is over.                                 *)
Over(s) == at[s] \in {"done", "ended", "empty", "failed", "broken"}

Outcome(s, name) == {g.outcome : g \in {g \in col[s].trace.stages : g.name = name}}

(* However the work on a request ends - answered, without a chunk, failed  *)
(* or cancelled, at any await - a sampled trace of it comes out, with all  *)
(* its stages closed; its outcome is the completion's, or the ready        *)
(* queue's when the request was never forwarded, and the decoding is       *)
(* recorded exactly when a first response was.                             *)
TracesAreWhole ==
  \A s \in Sides : Over(s) /\ col[s].on =>
    /\ col[s].trace # None
    /\ LET o == col[s].trace.outcome
       IN IF Outcome(s, "completion") = {} THEN Outcome(s, "ready") = {o} /\ o # "SUCCESS"
          ELSE /\ Outcome(s, "completion") = {o}
               /\ Outcome(s, "decode") \subseteq {o, None}
               /\ (Outcome(s, "decode") \cap Outcomes # {}) = ("SUCCESS" \in Outcome(s, "first"))

(* The two sides do not contradict each other: the Proxy's trace speaks of *)
(* success only when the Instance's does, and a context the Instance took  *)
(* from the headers gives both traces one id, or neither a trace.          *)
TracesAgree ==
  /\ col["proxy"].trace # None /\ col["instance"].trace # None =>
       (col["proxy"].trace.outcome = "SUCCESS" => col["instance"].trace.outcome = "SUCCESS")
  /\ context["instance"] # None /\ context["instance"].by # "instance" =>
       context["instance"] = context["proxy"]

OneStory == TracesAreWhole /\ TracesAgree
=============================================================================
