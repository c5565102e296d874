----------------------------- MODULE ProxyQueue -----------------------------
(***************************************************************************)
(* The prepare/ready pipeline that a Proxy keeps for ONE instance          *)
(* (proxy/queue/manager.py, class QueueManager).  Every dictionary of the  *)
(* class is keyed by instance_id, so the pipelines of two instances share  *)
(* nothing that this module speaks of.                                     *)
(*                                                                         *)
(* A task passes through: the HTTP handler (prepare_seq, prepare_q), the   *)
(* dispatch loop and the prepare semaphore, the prepared buffer, a flush   *)
(* that releases buffered tasks to ready_q in an order the policy decides  *)
(* and gives each a reservation, the ready workers, the dispatch gate, the *)
(* forward to the instance, and the response queue back to the handler.    *)
(*                                                                         *)
(* asyncio runs one coroutine at a time, so an action here is the code     *)
(* between two awaits that can really suspend.  The reservation lock is    *)
(* only ever held over code without such an await: its critical sections   *)
(* are single actions.  The flush lock is held across ready_q.put, which   *)
(* suspends when the queue is full: `flusher' is its holder.               *)
(***************************************************************************)
EXTENDS Integers, Sequences, FiniteSets, Functions

CONSTANTS
  Task,           \* the requests the instance is given
  NoTask,         \* "no task"
  Worker,         \* the ready workers (READY_CONCURRENCY)
  Text,           \* the tasks with Injection_type "text"; the others are "kvcache"
  Chat,           \* the tasks of /v1/chat/completions; the others are not streamed
  Unpredictable,  \* the tasks whose service-time prediction may raise
  Impatient,      \* the chat tasks whose client may disconnect
  Policy,         \* PROXY_READY_RELEASE_POLICY
  MaxBypass,      \* PROXY_TEXT_BYPASS_MAX_PER_FLUSH
  PrepareConc,    \* PREPARE_CONCURRENCY
  PrepareCap,     \* maxsize of prepare_q
  ReadyCap,       \* maxsize of ready_q
  RespCap,        \* maxsize of a task's response_queue
  MaxChunks       \* bound: the chunks one response has at most

ASSUME ProxyQueueAssumption ==
  /\ IsFiniteSet(Task) /\ NoTask \notin Task
  /\ Text \subseteq Task /\ Chat \subseteq Task
  /\ Unpredictable \subseteq Task /\ Impatient \subseteq Chat
  /\ Policy \in {"ordered", "text_bypass"}
  /\ {MaxBypass, PrepareConc, PrepareCap, ReadyCap, RespCap} \subseteq Nat \ {0}
  /\ MaxChunks \in Nat

VARIABLES
  handler,      \* where the HTTP handler of a task is
  seq,          \* task.prepare_seq, 0 before it has one
  nextSeq,      \* _instance_next_prepare_seq
  prepareQ,     \* prepare_q
  semQ,         \* the prepare tasks waiting for prepare_sem, in its FIFO order
  prep,         \* where the prepare task of a task is
  buffer,       \* _instance_prepared_buffer: the tasks in it (its keys are their seqs)
  released,     \* _instance_released_prepare_seqs
  nextRelease,  \* _instance_next_ready_release_seq
  flusher,      \* the task whose prepare task holds the flush lock, or NoTask
  cursor,       \* local of the flush: next_seq
  bypassed,     \* local of the flush: bypass_count
  inHand,       \* the reserved task the flush is putting into ready_q, or NoTask
  rseq,         \* task.reservation_seq, 0 before it has one
  nextRseq,     \* _instance_next_reservation_seq
  pending,      \* _instance_pending_tasks
  decoding,     \* _instance_decode_tasks
  seen,         \* the tasks with has_seen_first_token
  readyQ,       \* ready_q
  wpc,          \* where a ready worker is
  wtask,        \* the task it holds, or NoTask
  sent,         \* the chunks the instance has sent for a task in this forward
  resp          \* task.response_queue

handlerVars == <<handler, seq, nextSeq>>
prepareVars == <<prepareQ, semQ, prep>>
releaseVars == <<buffer, released, nextRelease, flusher, cursor, bypassed, inHand>>
predictVars == <<rseq, nextRseq, pending, decoding, seen>>
workerVars  == <<wpc, wtask, sent>>
vars == <<handlerVars, prepareVars, releaseVars, predictVars, readyQ, workerVars, resp>>

-----------------------------------------------------------------------------
HandlerState == {"new", "enqueuing", "reading", "done", "gone"}
PrepareState == {"none", "queued", "waiting", "preparing", "flush", "retry", "left"}
WorkerState  == {"idle", "gate", "forward", "put", "end"}

Init ==
  /\ handler = [t \in Task |-> "new"]
  /\ seq = [t \in Task |-> 0] /\ nextSeq = 1
  /\ prepareQ = <<>> /\ semQ = <<>>
  /\ prep = [t \in Task |-> "none"]
  /\ buffer = {} /\ released = {} /\ nextRelease = 1
  /\ flusher = NoTask /\ cursor = 1 /\ bypassed = 0 /\ inHand = NoTask
  /\ rseq = [t \in Task |-> 0] /\ nextRseq = 1
  /\ pending = {} /\ decoding = {} /\ seen = {}
  /\ readyQ = <<>>
  /\ wpc = [w \in Worker |-> "idle"] /\ wtask = [w \in Worker |-> NoTask]
  /\ sent = [t \in Task |-> 0]
  /\ resp = [t \in Task |-> <<>>]

-----------------------------------------------------------------------------
(* The handler.  enqueue_prepare takes the sequence number first, awaits    *)
(* the predictions, and only then puts the task: two handlers can put in    *)
(* the other order.                                                        *)

TakeSeq(t) ==
  /\ handler[t] = "new"
  /\ handler' = [handler EXCEPT ![t] = "enqueuing"]
  /\ seq' = [seq EXCEPT ![t] = nextSeq]
  /\ nextSeq' = nextSeq + 1
  /\ UNCHANGED <<prepareVars, releaseVars, predictVars, readyQ, workerVars, resp>>

PutPrepare(t) ==
  /\ handler[t] = "enqueuing"
  /\ Len(prepareQ) < PrepareCap
  /\ prepareQ' = Append(prepareQ, t)
  /\ prep' = [prep EXCEPT ![t] = "queued"]
  /\ handler' = [handler EXCEPT ![t] = "reading"]
  /\ UNCHANGED <<seq, nextSeq, semQ, releaseVars, predictVars, readyQ, workerVars, resp>>

(* iter_response: chunks are handed on, the None terminator ends the read. *)
Read(t) ==
  /\ handler[t] = "reading"
  /\ resp[t] # <<>>
  /\ resp' = [resp EXCEPT ![t] = Tail(resp[t])]
  /\ handler' = [handler EXCEPT ![t] = IF Head(resp[t]) = "end" THEN "done" ELSE "reading"]
  /\ UNCHANGED <<seq, nextSeq, prepareVars, releaseVars, predictVars, readyQ, workerVars>>

(* The streaming response of a chat client that went away is closed, and   *)
(* nothing tells the queue manager: response_queue just has no reader left. *)
Disconnect(t) ==
  /\ t \in Impatient
  /\ handler[t] = "reading"
  /\ handler' = [handler EXCEPT ![t] = "gone"]
  /\ UNCHANGED <<seq, nextSeq, prepareVars, releaseVars, predictVars, readyQ, workerVars, resp>>

-----------------------------------------------------------------------------
(* The prepare stage.                                                      *)

DispatchPrepare ==
  /\ prepareQ # <<>>
  /\ prepareQ' = Tail(prepareQ)
  /\ semQ' = Append(semQ, Head(prepareQ))
  /\ prep' = [prep EXCEPT ![Head(prepareQ)] = "waiting"]
  /\ UNCHANGED <<handlerVars, releaseVars, predictVars, readyQ, workerVars, resp>>

ActivePrepare == {t \in Task : prep[t] \in {"preparing", "flush", "retry"}}

StartPrepare ==
  /\ semQ # <<>>
  /\ Cardinality(ActivePrepare) < PrepareConc
  /\ semQ' = Tail(semQ)
  /\ prep' = [prep EXCEPT ![Head(semQ)] = "preparing"]
  /\ UNCHANGED <<handlerVars, prepareQ, releaseVars, predictVars, readyQ, workerVars, resp>>

(* Fetch, classify, inject: it succeeds, or an exception leads into the    *)
(* except branch, which flushes the task without its knowledge ("retry").  *)
FinishPrepare(t) ==
  /\ prep[t] = "preparing"
  /\ \E outcome \in {"flush", "retry"} : prep' = [prep EXCEPT ![t] = outcome]
  /\ UNCHANGED <<handlerVars, prepareQ, semQ, releaseVars, predictVars, readyQ, workerVars, resp>>

-----------------------------------------------------------------------------
(* The flush of the prepared buffer.                                       *)

Min(S) == CHOOSE s \in S : \A r \in S : s <= r

(* The loop over the released numbers left out. *)
NextIsCursor == cursor

(* The first sequence number from next_seq on that was not released yet.   *)
NextUnreleased == Min({s \in cursor .. nextSeq : s \notin released})

InOrder == {t \in buffer : seq[t] = NextUnreleased}

TextCandidates == {t \in buffer \cap Text : seq[t] > NextUnreleased}

(* The bypass without a look at the policy and the candidate's mode. *)
ReleasableAnyMode ==
  IF InOrder # {} THEN InOrder
  ELSE IF bypassed < MaxBypass
       THEN {t \in buffer : seq[t] > NextUnreleased /\ \A u \in buffer : seq[u] > NextUnreleased => seq[t] <= seq[u]}
       ELSE {}

(* What the next turn of the flush loop releases, or nothing.              *)
Releasable ==
  IF InOrder # {} THEN InOrder
  ELSE IF Policy = "text_bypass" /\ bypassed < MaxBypass
       THEN {t \in TextCandidates : \A u \in TextCandidates : seq[t] <= seq[u]}
       ELSE {}

(* The bypass count not reset between two flushes. *)
BeginFlushKeepsCount(t) ==
  /\ prep[t] \in {"flush", "retry"}
  /\ flusher = NoTask
  /\ flusher' = t
  /\ buffer' = buffer \cup {t}
  /\ cursor' = nextRelease
  /\ UNCHANGED <<handlerVars, prepareVars, released, nextRelease, bypassed, inHand, predictVars, readyQ, workerVars, resp>>

(* _mark_prepare_done_and_flush, from the lock to the loop of the flush. *)
BeginFlush(t) ==
  /\ prep[t] \in {"flush", "retry"}
  /\ flusher = NoTask
  /\ flusher' = t
  /\ buffer' = buffer \cup {t}
  /\ cursor' = nextRelease
  /\ bypassed' = 0
  /\ UNCHANGED <<handlerVars, prepareVars, released, nextRelease, inHand, predictVars, readyQ, workerVars, resp>>

(* The reservation number not incremented. *)
ReserveSameSeq(t) ==
  /\ rseq' = [rseq EXCEPT ![t] = nextRseq]
  /\ pending' = pending \cup {t}
  /\ UNCHANGED <<nextRseq, decoding, seen>>

(* _reserve_ready_task *)
Reserve(t) ==
  /\ rseq' = [rseq EXCEPT ![t] = nextRseq]
  /\ nextRseq' = nextRseq + 1
  /\ pending' = pending \cup {t}
  /\ UNCHANGED <<decoding, seen>>

(* The task read from the buffer and not popped. *)
ReleaseKeepsBuffer(t) ==
  /\ flusher # NoTask /\ inHand = NoTask
  /\ t \in Releasable
  /\ released' = released \cup {seq[t]}
  /\ Reserve(t)
  /\ inHand' = t
  /\ cursor' = IF t \in InOrder THEN NextUnreleased + 1 ELSE NextUnreleased
  /\ bypassed' = IF t \in InOrder THEN bypassed ELSE bypassed + 1
  /\ UNCHANGED <<handlerVars, prepareVars, buffer, nextRelease, flusher, readyQ, workerVars, resp>>

(* _release_prepared_task_to_ready, up to ready_q.put *)
Release(t) ==
  /\ flusher # NoTask /\ inHand = NoTask
  /\ t \in Releasable
  /\ buffer' = buffer \ {t}
  /\ released' = released \cup {seq[t]}
  /\ Reserve(t)
  /\ inHand' = t
  /\ cursor' = IF t \in InOrder THEN NextUnreleased + 1 ELSE NextUnreleased
  /\ bypassed' = IF t \in InOrder THEN bypassed ELSE bypassed + 1
  /\ UNCHANGED <<handlerVars, prepareVars, nextRelease, flusher, readyQ, workerVars, resp>>

(* The reservation raises: the task has left the buffer and its number     *)
(* counts as released, the exception ends the flush with the next number   *)
(* not saved, and reaches the prepare task that was flushing.  There it is *)
(* caught once, and the except branch flushes again.                       *)
ReleaseRaises(t) ==
  /\ flusher # NoTask /\ inHand = NoTask
  /\ t \in Releasable \cap Unpredictable
  /\ buffer' = buffer \ {t}
  /\ released' = released \cup {seq[t]}
  /\ prep' = [prep EXCEPT ![flusher] = IF prep[flusher] = "flush" THEN "retry" ELSE "left"]
  /\ flusher' = NoTask
  /\ UNCHANGED <<handlerVars, prepareQ, semQ, nextRelease, cursor, bypassed, inHand, predictVars, readyQ, workerVars, resp>>

PutReady ==
  /\ inHand # NoTask
  /\ Len(readyQ) < ReadyCap
  /\ readyQ' = Append(readyQ, inHand)
  /\ inHand' = NoTask
  /\ UNCHANGED <<handlerVars, prepareVars, buffer, released, nextRelease, flusher, cursor, bypassed, predictVars, workerVars, resp>>

(* The last released number saved instead of the next one. *)
EndFlushSavesLast ==
  /\ flusher # NoTask /\ inHand = NoTask
  /\ Releasable = {}
  /\ nextRelease' = NextUnreleased - 1
  /\ prep' = [prep EXCEPT ![flusher] = "left"]
  /\ flusher' = NoTask
  /\ UNCHANGED <<handlerVars, prepareQ, semQ, buffer, released, cursor, bypassed, inHand, predictVars, readyQ, workerVars, resp>>

EndFlush ==
  /\ flusher # NoTask /\ inHand = NoTask
  /\ Releasable = {}
  /\ nextRelease' = NextUnreleased
  /\ prep' = [prep EXCEPT ![flusher] = "left"]
  /\ flusher' = NoTask
  /\ UNCHANGED <<handlerVars, prepareQ, semQ, buffer, released, cursor, bypassed, inHand, predictVars, readyQ, workerVars, resp>>

-----------------------------------------------------------------------------
(* The ready workers.                                                      *)

Unseen == pending \ seen

Fetch(w) ==
  /\ wpc[w] = "idle"
  /\ readyQ # <<>>
  /\ readyQ' = Tail(readyQ)
  /\ wpc' = [wpc EXCEPT ![w] = "gate"]
  /\ wtask' = [wtask EXCEPT ![w] = Head(readyQ)]
  /\ UNCHANGED <<handlerVars, prepareVars, releaseVars, predictVars, sent, resp>>

(* No gate. *)
MayDispatchAtOnce(t) == t \in Task

(* _wait_dispatch_turn: the smallest reservation without a first token.    *)
MayDispatch(t) ==
  \/ Unseen = {}
  \/ t \in Unseen /\ \A u \in Unseen : rseq[t] <= rseq[u]

Dispatch(w) ==
  /\ wpc[w] = "gate"
  /\ MayDispatch(wtask[w])
  /\ wpc' = [wpc EXCEPT ![w] = "forward"]
  /\ sent' = [sent EXCEPT ![wtask[w]] = 0]
  /\ UNCHANGED <<handlerVars, prepareVars, releaseVars, predictVars, readyQ, wtask, resp>>

(* The first chunk of a stream is the end of the prefill: the task moves   *)
(* from the pending to the decoding tasks.                                 *)
MarkFirstToken(t) ==
  IF t \in Chat /\ sent[t] = 0
  THEN /\ seen' = seen \cup {t}
       /\ decoding' = decoding \cup {t}
       /\ pending' = (pending \ {t}) \ seen'
       /\ UNCHANGED <<rseq, nextRseq>>
  ELSE UNCHANGED predictVars

(* A stream has any number of chunks, a plain response one at most.        *)
Chunk(w) ==
  LET t == wtask[w] IN
  /\ wpc[w] = "forward"
  /\ sent[t] < (IF t \in Chat THEN MaxChunks ELSE 1)
  /\ MarkFirstToken(t)
  /\ sent' = [sent EXCEPT ![t] = sent[t] + 1]
  /\ wpc' = [wpc EXCEPT ![w] = "put"]
  /\ UNCHANGED <<handlerVars, prepareVars, releaseVars, readyQ, wtask, resp>>

PutChunk(w) ==
  LET t == wtask[w] IN
  /\ wpc[w] = "put"
  /\ Len(resp[t]) < RespCap
  /\ resp' = [resp EXCEPT ![t] = Append(resp[t], "chunk")]
  /\ wpc' = [wpc EXCEPT ![w] = "forward"]
  /\ UNCHANGED <<handlerVars, prepareVars, releaseVars, predictVars, readyQ, wtask, sent>>

(* The first token is the only thing that ends a pending prefill. *)
EndForwardKeepsPending(w) ==
  /\ wpc[w] = "forward"
  /\ decoding' = decoding \ {wtask[w]}
  /\ wpc' = [wpc EXCEPT ![w] = "end"]
  /\ UNCHANGED <<handlerVars, prepareVars, releaseVars, rseq, nextRseq, pending, seen, readyQ, wtask, sent, resp>>

(* The terminator forgotten. *)
EndForwardSilently(w) ==
  /\ wpc[w] = "forward"
  /\ decoding' = decoding \ {wtask[w]}
  /\ pending' = pending \ {wtask[w]}
  /\ wpc' = [wpc EXCEPT ![w] = "idle"]
  /\ wtask' = [wtask EXCEPT ![w] = NoTask]
  /\ UNCHANGED <<handlerVars, prepareVars, releaseVars, rseq, nextRseq, seen, readyQ, sent, resp>>

(* The response ends or the forward raises, before or after a first chunk: *)
(* either way _mark_task_decode_end forgets the task, and a task that was   *)
(* still pending makes the pending ones be recomputed.                     *)
EndForward(w) ==
  LET t == wtask[w] IN
  /\ wpc[w] = "forward"
  /\ decoding' = decoding \ {t}
  /\ pending' = IF t \in pending THEN (pending \ {t}) \ seen ELSE pending
  /\ wpc' = [wpc EXCEPT ![w] = "end"]
  /\ UNCHANGED <<handlerVars, prepareVars, releaseVars, rseq, nextRseq, seen, readyQ, wtask, sent, resp>>

PutEnd(w) ==
  LET t == wtask[w] IN
  /\ wpc[w] = "end"
  /\ Len(resp[t]) < RespCap
  /\ resp' = [resp EXCEPT ![t] = Append(resp[t], "end")]
  /\ wpc' = [wpc EXCEPT ![w] = "idle"]
  /\ wtask' = [wtask EXCEPT ![w] = NoTask]
  /\ UNCHANGED <<handlerVars, prepareVars, releaseVars, predictVars, readyQ, sent>>

-----------------------------------------------------------------------------
HandlerNext == \E t \in Task : TakeSeq(t) \/ PutPrepare(t) \/ Read(t) \/ Disconnect(t)
PrepareNext == DispatchPrepare \/ StartPrepare \/ \E t \in Task : FinishPrepare(t)
FlushNext   == PutReady \/ EndFlush \/ \E t \in Task : BeginFlush(t) \/ Release(t) \/ ReleaseRaises(t)
WorkerNext  == \E w \in Worker : Fetch(w) \/ Dispatch(w) \/ Chunk(w) \/ PutChunk(w) \/ EndForward(w) \/ PutEnd(w)

Next == HandlerNext \/ PrepareNext \/ FlushNext \/ WorkerNext

Spec == Init /\ [][Next]_vars

(* The event loop runs every coroutine that is not suspended.  A prepare    *)
(* ends (its HTTP calls have timeouts) and so does a forward (aiohttp's     *)
(* total timeout); a client need not send a request, nor disconnect.        *)
Fairness ==
  /\ \A t \in Task : WF_vars(PutPrepare(t)) /\ WF_vars(Read(t)) /\ WF_vars(FinishPrepare(t))
  /\ \A t \in Task : WF_vars(BeginFlush(t)) /\ WF_vars(Release(t)) /\ WF_vars(ReleaseRaises(t))
  /\ WF_vars(DispatchPrepare) /\ WF_vars(StartPrepare)
  /\ WF_vars(PutReady) /\ WF_vars(EndFlush)
  /\ \A w \in Worker : /\ WF_vars(Fetch(w)) /\ WF_vars(Dispatch(w)) /\ WF_vars(PutChunk(w))
                       /\ WF_vars(Chunk(w) \/ EndForward(w)) /\ WF_vars(PutEnd(w))

FairSpec == Spec /\ Fairness
-----------------------------------------------------------------------------
(* Every variable stays in its type. *)
TypeOK ==
  /\ handler \in [Task -> HandlerState]
  /\ seq \in [Task -> Nat] /\ nextSeq \in Nat \ {0}
  /\ prepareQ \in Seq(Task) /\ semQ \in Seq(Task)
  /\ prep \in [Task -> PrepareState]
  /\ buffer \subseteq Task /\ released \subseteq Nat /\ nextRelease \in Nat \ {0}
  /\ flusher \in Task \cup {NoTask} /\ inHand \in Task \cup {NoTask}
  /\ cursor \in Nat \ {0} /\ bypassed \in 0 .. MaxBypass
  /\ rseq \in [Task -> Nat] /\ nextRseq \in Nat \ {0}
  /\ pending \subseteq Task /\ decoding \subseteq Task /\ seen \subseteq Task
  /\ readyQ \in Seq(Task)
  /\ wpc \in [Worker -> WorkerState]
  /\ wtask \in [Worker -> Task \cup {NoTask}]
  /\ sent \in [Task -> 0 .. (MaxChunks + 1)]
  /\ resp \in [Task -> Seq({"chunk", "end"})]

Holders(t) == {w \in Worker : wtask[w] = t}

(* The tasks that were released to the ready stage and have not left it.   *)
InReady == (Range(readyQ) \cup {inHand} \cup Range(wtask)) \ {NoTask}

(* A task is in the ready stage at most once, although the except branch   *)
(* of a prepare task puts a task that was released already back into the   *)
(* buffer.  (With several reservations that raise, "text_bypass" can       *)
(* release it again from there.)                                           *)
ReleasedOnce ==
  /\ \A i, j \in DOMAIN readyQ : readyQ[i] = readyQ[j] => i = j
  /\ \A v, w \in Worker : wtask[v] = wtask[w] /\ wtask[v] # NoTask => v = w
  /\ \A t \in Range(readyQ) : Holders(t) = {} /\ inHand # t
  /\ inHand # NoTask => Holders(inHand) = {}

(* Under "ordered" the released numbers have no gap: nothing overtakes a   *)
(* task that is still being prepared.  Under "text_bypass" only a text     *)
(* task is released while an earlier number is not.                        *)
ReleaseOrder ==
  \A t \in Task : rseq[t] # 0 =>
    \/ \A s \in 1 .. (seq[t] - 1) : s \in released
    \/ Policy = "text_bypass" /\ t \in Text

(* A prepared text task never waits under "text_bypass": whoever flushes,  *)
(* no text task that is still to be released stays behind in the buffer.   *)
(* (So the bypass limit of a flush never stops a release: each text task   *)
(* flushes for itself, and finds at most itself to let through.)  That is  *)
(* while the predictions of one task at most raise: once those of two      *)
(* tasks with a cache have cut two flushes short, the text task whose      *)
(* flush the second one was can be left in the buffer.                     *)
TextNeverWaits ==
  Policy = "text_bypass" /\ flusher = NoTask =>
    \A t \in buffer \cap Text : seq[t] \in released

(* Reservations are dispatched in their order: ready_q is sorted by it, a   *)
(* worker's task comes before everything in ready_q, and the task the      *)
(* flush is putting comes after.                                           *)
ReservationOrder ==
  /\ \A i, j \in DOMAIN readyQ : i < j => rseq[readyQ[i]] < rseq[readyQ[j]]
  /\ \A w \in Worker : wtask[w] # NoTask =>
       \A u \in Range(readyQ) \cup ({inHand} \ {NoTask}) : rseq[wtask[w]] < rseq[u]
  /\ inHand # NoTask => \A u \in Range(readyQ) : rseq[u] < rseq[inHand]

Forwarding(w) == wpc[w] \in {"forward", "put", "end"}

(* The gate lets one task at a time into the instance's prefill.           *)
SinglePrefill ==
  \A v, w \in Worker :
    Forwarding(v) /\ Forwarding(w) /\ wtask[v] \in Unseen /\ wtask[w] \in Unseen => v = w

(* The gate cannot starve: while a worker waits there, the task whose turn *)
(* it is is itself in a worker's hands, never behind the waiting ones.     *)
GateIsLive ==
  (\E w \in Worker : wpc[w] = "gate") =>
     \E w \in Worker : wtask[w] # NoTask /\ MayDispatch(wtask[w])

(* The prediction state never outlives a task: what is pending or decoding *)
(* is in the ready stage, and what waits in the ready stage is pending.    *)
PredictionMatchesReady ==
  /\ pending \cup decoding \subseteq InReady
  /\ pending \cap decoding = {}
  /\ InReady \subseteq pending \cup decoding \cup {wtask[w] : w \in {x \in Worker : wpc[x] = "end"}}

(* The terminator comes once and last: after it nothing is put for the     *)
(* task, no worker holds it and its response queue is empty when read.     *)
TerminatorIsLast ==
  \A t \in Task :
    /\ \A i \in DOMAIN resp[t] : resp[t][i] = "end" => i = Len(resp[t])
    /\ handler[t] = "done" \/ (resp[t] # <<>> /\ resp[t][Len(resp[t])] = "end") =>
         t \notin InReady /\ (handler[t] = "done" => resp[t] = <<>>)

-----------------------------------------------------------------------------
(* A task without a reservation may still get one: its number is not       *)
(* released, or it is released (a reservation raised) but the text task can *)
(* be put into the buffer again and bypass a number that is still missing. *)
Reservable(t) ==
  \/ seq[t] \notin released
  \/ /\ Policy = "text_bypass" /\ t \in Text
     /\ t \in buffer \/ prep[t] \in {"flush", "retry"}
     /\ \E s \in 1 .. (seq[t] - 1) : s \notin released

(* The stage of a task in TicketDispatch. *)
StageOf(t) ==
  IF seq[t] = 0 THEN "none"
  ELSE IF rseq[t] = 0 THEN (IF Reservable(t) THEN "waiting" ELSE "over")
  ELSE IF t \notin pending THEN "over"
  ELSE IF \E w \in Holders(t) : Forwarding(w) THEN "prefill" ELSE "waiting"

TD == INSTANCE TicketDispatch WITH
        Request <- Task, Droppable <- Unpredictable,
        Overtaking <- IF Policy = "text_bypass" THEN Text ELSE {},
        ticket <- seq, nextTicket <- nextSeq,
        stage <- [t \in Task |-> StageOf(t)]

(* From the arrival to the start of the prefill - through concurrent        *)
(* preparation, the flush, the reservations and the workers - the pipeline *)
(* keeps the promise of TicketDispatch: one prefill at a time, in the      *)
(* order of prepare_seq, except that text tasks overtake under             *)
(* "text_bypass" (proxy/README.md, "Ready release policy").  Under         *)
(* "text_bypass" that is so while one prediction at most raises: with two  *)
(* a task that is over can be released again.                              *)
KeepsTicketOrder == TD!TDSpec

-----------------------------------------------------------------------------
(* Every request that was accepted gets its terminator, whatever the other *)
(* requests do.                                                            *)
Answered == \A t \in Task : handler[t] = "reading" ~> handler[t] \in {"done", "gone"}
(* The ready stage holds each released task once, and the prediction state *)
(* speaks of exactly the tasks it holds (_flush_prepared_to_ready,         *)
(* _reserve_ready_task, _mark_task_decode_end).                            *)
ReadyStageExact == ReleasedOnce /\ PredictionMatchesReady

(* Tasks are dispatched in the order they were reserved in, one at a time  *)
(* enters the prefill, and the one whose turn it is is in a worker's hands *)
(* (_wait_dispatch_turn, _ready_worker_loop).                              *)
DispatchInOrder == ReservationOrder /\ SinglePrefill /\ GateIsLive
=============================================================================
