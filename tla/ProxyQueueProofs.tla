-------------------------- MODULE ProxyQueueProofs --------------------------
(***************************************************************************)
(* Proofs about ProxyQueue, for any number of tasks and workers, any       *)
(* capacity of the queues and both release policies.                       *)
(***************************************************************************)
EXTENDS ProxyQueue, FiniteSetTheorems, SequenceTheorems, TLAPS

-----------------------------------------------------------------------------
(* Min: a nonempty set of natural numbers has a least element.  (The sets  *)
(* 0 .. n are finite and well-founded under strict inclusion.)             *)
LEMMA MinIsLeast ==
  ASSUME NEW S \in SUBSET Nat, S # {}
  PROVE  Min(S) \in S /\ \A s \in S : Min(S) <= s
<1> DEFINE T == {0 .. n : n \in S}
<1>1. T \subseteq FiniteSubsetsOf(Nat) /\ T # {}
  <2>1. ASSUME NEW n \in S PROVE 0 .. n \in FiniteSubsetsOf(Nat)
    BY FS_Interval DEF FiniteSubsetsOf
  <2> QED
    BY <2>1
<1>2. PICK x \in T : \A y \in T : ~ (<<y, x>> \in StrictSubsetOrdering(Nat))
  <2>1. IsWellFoundedOn(StrictSubsetOrdering(Nat), FiniteSubsetsOf(Nat))
    BY FS_StrictSubsetOrderingWellFounded
  <2>. HIDE DEF T
  <2> QED
    BY <1>1, <2>1, WFMin
<1>3. PICK m \in S : x = 0 .. m
  OBVIOUS
<1>4. ASSUME NEW k \in S PROVE m <= k
  <2>1. SUFFICES ASSUME k < m PROVE FALSE
    OBVIOUS
  <2>2. 0 .. k \subseteq 0 .. m /\ 0 .. k # 0 .. m /\ 0 .. k \in SUBSET Nat /\ 0 .. m \in SUBSET Nat
    <3>1. m \in 0 .. m /\ m \notin 0 .. k
      BY <2>1
    <3> QED BY <2>1, <3>1
  <2>3. <<0 .. k, 0 .. m>> \in StrictSubsetOrdering(Nat)
    BY <2>2 DEF StrictSubsetOrdering
  <2> QED
    BY <1>2, <1>3, <2>3
<1> QED
  BY <1>4 DEF Min

(* Head and Tail of a nonempty queue, by index. *)
LEMMA HeadIsFirst ==
  ASSUME NEW S, NEW q \in Seq(S), q # <<>>
  PROVE  1 \in 1 .. Len(q) /\ Head(q) = q[1] /\ Head(q) \in S
BY EmptySeq, HeadTailProperties

(* What holds of the elements of a queue and of e holds after an append.   *)
LEMMA AppendElements ==
  ASSUME NEW S, NEW q \in Seq(S), NEW e \in S,
         NEW P, e \in P, \A i \in 1 .. Len(q) : q[i] \in P
  PROVE  \A i \in 1 .. Len(Append(q, e)) : Append(q, e)[i] \in P
BY LenProperties, AppendProperties

(* The tail of a queue is the queue one place on.                          *)
LEMMA TailShifts ==
  ASSUME NEW S, NEW q \in Seq(S), q # <<>>,
         NEW i \in 1 .. Len(Tail(q))
  PROVE  i + 1 \in 1 .. Len(q) /\ Tail(q)[i] = q[i + 1]
BY LenProperties, HeadTailProperties

(* What the assumption on the constants says of the caps. *)
LEMMA NoTaskIsNoTask == NoTask \notin Task
BY ProxyQueueAssumption DEF ProxyQueueAssumption

(* The caps and bounds are positive numbers.                               *)
LEMMA CapsArePositive ==
  /\ MaxBypass \in Nat \ {0} /\ PrepareConc \in Nat \ {0} /\ PrepareCap \in Nat \ {0}
  /\ ReadyCap \in Nat \ {0} /\ RespCap \in Nat \ {0} /\ MaxChunks \in Nat
BY ProxyQueueAssumption DEF ProxyQueueAssumption

-----------------------------------------------------------------------------
(* A worker holds a task except when it is idle.                           *)
Hands == \A w \in Worker : wtask[w] = NoTask <=> wpc[w] = "idle"

(* A task that has arrived has a sequence number, and only such a task is  *)
(* prepared, buffered or reserved.                                         *)
Arrived ==
  \A t \in Task :
    /\ seq[t] < nextSeq
    /\ handler[t] # "new" <=> seq[t] # 0
    /\ prep[t] # "none" => seq[t] # 0
    /\ rseq[t] # 0 => seq[t] # 0
    /\ t \in buffer \/ t = flusher => seq[t] # 0

Queued ==
  /\ \A i \in 1 .. Len(prepareQ) : seq[prepareQ[i]] # 0
  /\ \A i \in 1 .. Len(semQ) : seq[semQ[i]] # 0

(* Only numbers that were given can be released, and the flush's cursors   *)
(* never pass a number that is not released.                               *)
Prefix ==
  /\ released \subseteq 1 .. (nextSeq - 1)
  /\ cursor <= nextSeq /\ nextRelease <= nextSeq
  /\ 1 .. (cursor - 1) \subseteq released
  /\ 1 .. (nextRelease - 1) \subseteq released

Numbers == Arrived /\ Queued /\ Prefix

(* The flush's next number exists: it is not released, everything before   *)
(* it is, and it is at most the next number to be given.                   *)
LEMMA NextUnreleasedOK ==
  ASSUME TypeOK, Prefix
  PROVE  /\ NextUnreleased \in Nat \ {0}
         /\ NextUnreleased <= nextSeq
         /\ NextUnreleased \notin released
         /\ 1 .. (NextUnreleased - 1) \subseteq released
<1> DEFINE S == {s \in cursor .. nextSeq : s \notin released}
<1>1. S \in SUBSET Nat /\ nextSeq \in S
  BY DEF TypeOK, Prefix
<1>2. NextUnreleased \in S /\ \A s \in S : NextUnreleased <= s
  BY <1>1, MinIsLeast DEF NextUnreleased
<1>3. ASSUME NEW s \in 1 .. (NextUnreleased - 1)
      PROVE  s \in released
  <2>1. CASE s < cursor
    BY <2>1, <1>2 DEF TypeOK, Prefix
  <2>2. CASE s >= cursor
    BY <2>2, <1>2 DEF TypeOK
  <2> QED
    BY <2>1, <2>2, <1>2 DEF TypeOK
<1> QED
  BY SMTT(30), <1>1, <1>2, <1>3 DEF TypeOK, Prefix

-----------------------------------------------------------------------------
(* Type correctness. *)

(* The initial state has the types.                                        *)
LEMMA TypeOKInit == Init => TypeOK
<1> SUFFICES ASSUME Init PROVE TypeOK
  OBVIOUS
<1>1. /\ handler \in [Task -> HandlerState]
      /\ seq \in [Task -> Nat] /\ nextSeq \in Nat \ {0}
      /\ prepareQ \in Seq(Task) /\ semQ \in Seq(Task)
      /\ prep \in [Task -> PrepareState]
  BY DEF Init, HandlerState, PrepareState
<1>2. /\ buffer \subseteq Task /\ released \subseteq Nat /\ nextRelease \in Nat \ {0}
      /\ flusher \in Task \cup {NoTask} /\ inHand \in Task \cup {NoTask}
      /\ cursor \in Nat \ {0} /\ bypassed \in 0 .. MaxBypass
  BY CapsArePositive DEF Init
<1>3. /\ rseq \in [Task -> Nat] /\ nextRseq \in Nat \ {0}
      /\ pending \subseteq Task /\ decoding \subseteq Task /\ seen \subseteq Task
      /\ readyQ \in Seq(Task)
  BY DEF Init
<1>4. /\ wpc \in [Worker -> WorkerState]
      /\ wtask \in [Worker -> Task \cup {NoTask}]
      /\ resp \in [Task -> Seq({"chunk", "end"})]
  BY DEF Init, WorkerState
<1>5. sent \in [Task -> 0 .. (MaxChunks + 1)]
  BY CapsArePositive DEF Init
<1> QED
  BY <1>1, <1>2, <1>3, <1>4, <1>5 DEF TypeOK

(* A step keeps them; the flush's numbers need Numbers, the queues Hands.  *)
LEMMA TypeOKNext ==
  ASSUME TypeOK, Hands, Numbers, [Next]_vars
  PROVE  TypeOK'
<1>1. ASSUME NEW t \in Task, TakeSeq(t)
      PROVE  TypeOK'
  <2>1. handler' \in [Task -> HandlerState] /\ seq' \in [Task -> Nat] /\ nextSeq' \in Nat \ {0}
    BY <1>1 DEF TypeOK, TakeSeq, HandlerState
  <2> QED
    BY <1>1, <2>1 DEF TakeSeq, TypeOK, handlerVars, prepareVars, releaseVars, predictVars, workerVars
<1>2. ASSUME NEW t \in Task, PutPrepare(t)
      PROVE  TypeOK'
  <2>1. handler' \in [Task -> HandlerState] /\ prepareQ' \in Seq(Task) /\ prep' \in [Task -> PrepareState]
    BY <1>2, AppendProperties DEF TypeOK, PutPrepare, HandlerState, PrepareState
  <2> QED
    BY <1>2, <2>1 DEF PutPrepare, TypeOK, handlerVars, prepareVars, releaseVars, predictVars, workerVars
<1>3. ASSUME NEW t \in Task, Read(t)
      PROVE  TypeOK'
  <2>1. handler' \in [Task -> HandlerState] /\ resp' \in [Task -> Seq({"chunk", "end"})]
    BY SMTT(30), <1>3 DEF TypeOK, Read, HandlerState
  <2> QED
    BY <1>3, <2>1 DEF Read, TypeOK, handlerVars, prepareVars, releaseVars, predictVars, workerVars
<1>4. ASSUME NEW t \in Task, Disconnect(t)
      PROVE  TypeOK'
  <2>1. handler' \in [Task -> HandlerState]
    BY <1>4 DEF TypeOK, Disconnect, HandlerState
  <2> QED
    BY <1>4, <2>1 DEF Disconnect, TypeOK, handlerVars, prepareVars, releaseVars, predictVars, workerVars
<1>5. ASSUME DispatchPrepare
      PROVE  TypeOK'
  <2>1. prepareQ' \in Seq(Task) /\ semQ' \in Seq(Task) /\ prep' \in [Task -> PrepareState]
    BY SMTT(30), <1>5 DEF TypeOK, DispatchPrepare, PrepareState
  <2> QED
    BY <1>5, <2>1 DEF DispatchPrepare, TypeOK, handlerVars, prepareVars, releaseVars, predictVars, workerVars
<1>6. ASSUME StartPrepare
      PROVE  TypeOK'
  <2>1. semQ' \in Seq(Task) /\ prep' \in [Task -> PrepareState]
    BY <1>6 DEF TypeOK, StartPrepare, PrepareState
  <2> QED
    BY <1>6, <2>1 DEF StartPrepare, TypeOK, handlerVars, prepareVars, releaseVars, predictVars, workerVars
<1>7. ASSUME NEW t \in Task, FinishPrepare(t)
      PROVE  TypeOK'
  <2>1. prep' \in [Task -> PrepareState]
    BY <1>7 DEF TypeOK, FinishPrepare, PrepareState
  <2> QED
    BY <1>7, <2>1 DEF FinishPrepare, TypeOK, handlerVars, prepareVars, releaseVars, predictVars, workerVars
<1>8. ASSUME NEW t \in Task, BeginFlush(t)
      PROVE  TypeOK'
  <2>1. flusher' \in Task \cup {NoTask} /\ buffer' \subseteq Task /\ cursor' \in Nat \ {0} /\ bypassed' \in 0 .. MaxBypass
    BY <1>8, CapsArePositive DEF TypeOK, BeginFlush
  <2> QED
    BY <1>8, <2>1 DEF BeginFlush, TypeOK, handlerVars, prepareVars, releaseVars, predictVars, workerVars
<1>9. ASSUME NEW t \in Task, Release(t)
      PROVE  TypeOK'
  <2>1. t \in InOrder \/ bypassed + 1 \in 0 .. MaxBypass
    BY <1>9, CapsArePositive DEF Release, Releasable, TypeOK
  <2>. NextUnreleased \in Nat \ {0}
    BY NextUnreleasedOK DEF Numbers
  <2>2. cursor' \in Nat \ {0} /\ bypassed' \in 0 .. MaxBypass
    BY <1>9, <2>1 DEF Release, TypeOK
  <2>3. buffer' \subseteq Task /\ released' \subseteq Nat /\ inHand' \in Task \cup {NoTask}
    BY <1>9 DEF Release, TypeOK
  <2>4. rseq' \in [Task -> Nat] /\ nextRseq' \in Nat \ {0} /\ pending' \subseteq Task
    BY <1>9 DEF Release, Reserve, TypeOK
  <2> QED
    BY <1>9, <2>2, <2>3, <2>4 DEF Release, Reserve, TypeOK, handlerVars, prepareVars, workerVars
<1>10. ASSUME NEW t \in Task, ReleaseRaises(t)
       PROVE  TypeOK'
  <2>1. buffer' \subseteq Task /\ released' \subseteq Nat /\ prep' \in [Task -> PrepareState] /\ flusher' \in Task \cup {NoTask}
    BY <1>10 DEF TypeOK, ReleaseRaises, PrepareState
  <2> QED
    BY <1>10, <2>1 DEF ReleaseRaises, TypeOK, handlerVars, prepareVars, releaseVars, predictVars, workerVars
<1>11. ASSUME PutReady
       PROVE  TypeOK'
  <2>1. readyQ' \in Seq(Task) /\ inHand' \in Task \cup {NoTask}
    BY <1>11 DEF TypeOK, PutReady
  <2> QED
    BY <1>11, <2>1 DEF PutReady, TypeOK, handlerVars, prepareVars, releaseVars, predictVars, workerVars
<1>12. ASSUME EndFlush
       PROVE  TypeOK'
  <2>1. nextRelease' \in Nat \ {0} /\ prep' \in [Task -> PrepareState] /\ flusher' \in Task \cup {NoTask}
    BY <1>12, NextUnreleasedOK DEF TypeOK, Numbers, EndFlush, PrepareState
  <2> QED
    BY <1>12, <2>1 DEF EndFlush, TypeOK, handlerVars, prepareVars, releaseVars, predictVars, workerVars
<1>13. ASSUME NEW w \in Worker, Fetch(w)
       PROVE  TypeOK'
  <2>1. readyQ' \in Seq(Task) /\ wpc' \in [Worker -> WorkerState] /\ wtask' \in [Worker -> Task \cup {NoTask}]
    BY <1>13, HeadTailProperties DEF TypeOK, Fetch, WorkerState
  <2> QED
    BY <1>13, <2>1 DEF Fetch, TypeOK, handlerVars, prepareVars, releaseVars, predictVars, workerVars
<1>14. ASSUME NEW w \in Worker, Dispatch(w)
       PROVE  TypeOK'
  <2>. 0 \in 0 .. (MaxChunks + 1)
    BY CapsArePositive
  <2>1. wpc' \in [Worker -> WorkerState] /\ sent' \in [Task -> 0 .. (MaxChunks + 1)]
    BY <1>14 DEF TypeOK, Dispatch, WorkerState
  <2> QED
    BY <1>14, <2>1 DEF Dispatch, TypeOK, handlerVars, prepareVars, releaseVars, predictVars
<1>15. ASSUME NEW w \in Worker, Chunk(w)
       PROVE  TypeOK'
  <2>. wtask[w] \in Task /\ sent[wtask[w]] + 1 \in 0 .. (MaxChunks + 1)
    BY <1>15, CapsArePositive DEF Chunk, TypeOK, Hands
  <2>1. sent' \in [Task -> 0 .. (MaxChunks + 1)] /\ wpc' \in [Worker -> WorkerState]
    BY <1>15 DEF Chunk, TypeOK, WorkerState
  <2>2. pending' \subseteq Task /\ decoding' \subseteq Task /\ seen' \subseteq Task /\ UNCHANGED <<rseq, nextRseq>>
    BY <1>15, ProxyQueueAssumption DEF Chunk, MarkFirstToken, TypeOK, predictVars, ProxyQueueAssumption
  <2> QED
    BY <1>15, <2>1, <2>2 DEF Chunk, TypeOK, handlerVars, prepareVars, releaseVars
<1>16. ASSUME NEW w \in Worker, PutChunk(w)
       PROVE  TypeOK'
  <2>1. resp' \in [Task -> Seq({"chunk", "end"})] /\ wpc' \in [Worker -> WorkerState]
    BY <1>16, AppendProperties DEF TypeOK, PutChunk, WorkerState
  <2> QED
    BY <1>16, <2>1 DEF PutChunk, TypeOK, handlerVars, prepareVars, releaseVars, predictVars, workerVars
<1>17. ASSUME NEW w \in Worker, EndForward(w)
       PROVE  TypeOK'
  <2>1. decoding' \subseteq Task /\ pending' \subseteq Task /\ wpc' \in [Worker -> WorkerState]
    BY <1>17 DEF TypeOK, EndForward, WorkerState
  <2> QED
    BY <1>17, <2>1 DEF EndForward, TypeOK, handlerVars, prepareVars, releaseVars, predictVars, workerVars
<1>18. ASSUME NEW w \in Worker, PutEnd(w)
       PROVE  TypeOK'
  <2>1. resp' \in [Task -> Seq({"chunk", "end"})] /\ wpc' \in [Worker -> WorkerState] /\ wtask' \in [Worker -> Task \cup {NoTask}]
    BY <1>18, AppendProperties DEF TypeOK, PutEnd, WorkerState
  <2> QED
    BY <1>18, <2>1 DEF PutEnd, TypeOK, handlerVars, prepareVars, releaseVars, predictVars, workerVars
<1>19. ASSUME UNCHANGED vars
       PROVE  TypeOK'
  BY <1>19 DEF vars, TypeOK, handlerVars, prepareVars, releaseVars, predictVars, workerVars
<1> QED
  BY <1>1, <1>2, <1>3, <1>4, <1>5, <1>6, <1>7, <1>8, <1>9, <1>10, <1>11, <1>12, <1>13, <1>14, <1>15, <1>16, <1>17, <1>18, <1>19
  DEF Next, HandlerNext, PrepareNext, FlushNext, WorkerNext

(* A worker past "idle" has a task in its hands.                           *)
LEMMA HandsNext ==
  ASSUME TypeOK, Hands, [Next]_vars
  PROVE  Hands'
<1>1. ASSUME NEW w \in Worker, Fetch(w)
      PROVE  Hands'
  <2>1. Head(readyQ) \in Task
    BY <1>1, HeadTailProperties DEF Fetch, TypeOK
  <2> QED
    BY <1>1, <2>1, ProxyQueueAssumption DEF Fetch, Hands, TypeOK, ProxyQueueAssumption
<1>2. ASSUME NEW w \in Worker, Dispatch(w) \/ Chunk(w) \/ PutChunk(w) \/ EndForward(w)
      PROVE  Hands'
  BY <1>2 DEF Dispatch, Chunk, PutChunk, EndForward, Hands, TypeOK
<1>3. ASSUME NEW w \in Worker, PutEnd(w)
      PROVE  Hands'
  BY <1>3 DEF PutEnd, Hands, TypeOK
<1>4. ASSUME UNCHANGED workerVars
      PROVE  Hands'
  BY <1>4 DEF workerVars, Hands
<1>5. HandlerNext \/ PrepareNext \/ FlushNext \/ UNCHANGED vars => UNCHANGED workerVars
  BY DEF HandlerNext, TakeSeq, PutPrepare, Read, Disconnect,
         PrepareNext, DispatchPrepare, StartPrepare, FinishPrepare,
         FlushNext, BeginFlush, Release, ReleaseRaises, PutReady, EndFlush, vars, workerVars
<1> QED
  BY <1>1, <1>2, <1>3, <1>4, <1>5 DEF Next, WorkerNext

(* A task past the handler's first step has a number.                      *)
LEMMA ArrivedNext ==
  ASSUME TypeOK, Numbers, [Next]_vars
  PROVE  Arrived'
<1> USE DEF Numbers, Arrived
<1>1. ASSUME NEW t \in Task, TakeSeq(t)
      PROVE  Arrived'
  <2>1. UNCHANGED <<prepareVars, releaseVars, predictVars>>
    BY <1>1 DEF TakeSeq
  <2>2. handler'[t] # "new" /\ seq'[t] # 0 /\ seq'[t] < nextSeq'
    BY <1>1 DEF TakeSeq, TypeOK
  <2>3. \A u \in Task \ {t} : handler'[u] = handler[u] /\ seq'[u] = seq[u] /\ seq[u] < nextSeq'
    BY <1>1 DEF TakeSeq, TypeOK
  <2> QED
    BY <2>1, <2>2, <2>3 DEF prepareVars, releaseVars, predictVars
<1>2. ASSUME NEW t \in Task, PutPrepare(t)
      PROVE  Arrived'
  BY <1>2 DEF PutPrepare, TypeOK, releaseVars, predictVars
<1>3. ASSUME NEW t \in Task, Read(t) \/ Disconnect(t)
      PROVE  Arrived'
  BY <1>3 DEF Read, Disconnect, TypeOK, prepareVars, releaseVars, predictVars
<1>4. ASSUME DispatchPrepare
      PROVE  Arrived'
  <2>1. Head(prepareQ) \in Task /\ seq[Head(prepareQ)] # 0
    BY <1>4, HeadIsFirst DEF DispatchPrepare, TypeOK, Queued
  <2> QED
    BY <1>4, <2>1 DEF DispatchPrepare, TypeOK, handlerVars, releaseVars, predictVars
<1>5. ASSUME StartPrepare
      PROVE  Arrived'
  <2>1. Head(semQ) \in Task /\ seq[Head(semQ)] # 0
    BY <1>5, HeadIsFirst DEF StartPrepare, TypeOK, Queued
  <2> QED
    BY <1>5, <2>1 DEF StartPrepare, TypeOK, handlerVars, releaseVars, predictVars
<1>6. ASSUME NEW t \in Task, FinishPrepare(t)
      PROVE  Arrived'
  BY <1>6 DEF FinishPrepare, TypeOK, handlerVars, releaseVars, predictVars
<1>7. ASSUME NEW t \in Task, BeginFlush(t)
      PROVE  Arrived'
  BY <1>7 DEF BeginFlush, TypeOK, handlerVars, prepareVars, predictVars
<1>8. ASSUME NEW t \in Task, Release(t)
      PROVE  Arrived'
  <2>1. t \in buffer
    BY <1>8 DEF Release, Releasable, InOrder, TextCandidates
  <2> QED
    BY <1>8, <2>1 DEF Release, Reserve, TypeOK, handlerVars, prepareVars
<1>9. ASSUME EndFlush \/ \E t \in Task : ReleaseRaises(t)
      PROVE  Arrived'
  <2>1. buffer' \subseteq buffer /\ UNCHANGED <<handlerVars, rseq>>
    BY <1>9 DEF ReleaseRaises, EndFlush, predictVars
  <2>2. \A u \in Task : prep'[u] # prep[u] => u = flusher
    BY <1>9 DEF ReleaseRaises, EndFlush, TypeOK
  <2>3. flusher' = NoTask \/ flusher' = flusher
    BY <1>9 DEF ReleaseRaises, EndFlush
  <2> QED
    BY <2>1, <2>2, <2>3, NoTaskIsNoTask DEF handlerVars
<1>10. ASSUME PutReady \/ WorkerNext \/ UNCHANGED vars
       PROVE  Arrived'
  <2>1. UNCHANGED <<handlerVars, prepareVars, buffer, flusher, rseq>>
    BY <1>10 DEF PutReady, WorkerNext, Fetch, Dispatch, Chunk, MarkFirstToken, PutChunk, EndForward, PutEnd,
                 vars, predictVars, releaseVars
  <2> QED
    BY <2>1 DEF handlerVars, prepareVars
<1> QED
  BY <1>1, <1>2, <1>3, <1>4, <1>5, <1>6, <1>7, <1>8, <1>9, <1>10
  DEF Next, HandlerNext, PrepareNext, FlushNext

(* A queued task has a number.                                             *)
LEMMA QueuedNext ==
  ASSUME TypeOK, Numbers, [Next]_vars
  PROVE  Queued'
<1> USE DEF Numbers, Queued
<1>1. ASSUME NEW t \in Task, TakeSeq(t)
      PROVE  Queued'
  <2>1. \A u \in Task : seq[u] # 0 => seq'[u] # 0
    BY <1>1 DEF TakeSeq, TypeOK
  <2>2. UNCHANGED prepareVars
    BY <1>1 DEF TakeSeq
  <2> QED
    BY <2>1, <2>2, ElementOfSeq DEF TypeOK, prepareVars
<1>2. ASSUME NEW t \in Task, PutPrepare(t)
      PROVE  Queued'
  <2>1. seq[t] # 0
    BY <1>2 DEF PutPrepare, Arrived
  <2>2. \A i \in 1 .. Len(prepareQ') : prepareQ'[i] \in {u \in Task : seq[u] # 0}
    BY <1>2, <2>1, AppendElements, ElementOfSeq DEF PutPrepare, TypeOK
  <2> QED
    BY <1>2, <2>2 DEF PutPrepare
<1>3. ASSUME DispatchPrepare
      PROVE  Queued'
  <2>1. Head(prepareQ) \in Task /\ seq[Head(prepareQ)] # 0
    BY <1>3, HeadIsFirst DEF DispatchPrepare, TypeOK
  <2>2. \A i \in 1 .. Len(prepareQ') : i + 1 \in 1 .. Len(prepareQ) /\ prepareQ'[i] = prepareQ[i + 1]
    BY <1>3, TailShifts DEF DispatchPrepare, TypeOK
  <2>3. \A i \in 1 .. Len(semQ') : semQ'[i] \in {u \in Task : seq[u] # 0}
    BY <1>3, <2>1, AppendElements, ElementOfSeq DEF DispatchPrepare, TypeOK
  <2> QED
    BY <1>3, <2>2, <2>3 DEF DispatchPrepare, handlerVars
<1>4. ASSUME StartPrepare
      PROVE  Queued'
  <2>1. \A i \in 1 .. Len(semQ') : i + 1 \in 1 .. Len(semQ) /\ semQ'[i] = semQ[i + 1]
    BY <1>4, TailShifts DEF StartPrepare, TypeOK
  <2> QED
    BY <1>4, <2>1 DEF StartPrepare, handlerVars
<1>5. CASE UNCHANGED <<seq, prepareQ, semQ>>
  BY <1>5
<1> QED
  BY <1>1, <1>2, <1>3, <1>4, <1>5
  DEF Next, HandlerNext, Read, Disconnect, PrepareNext, FinishPrepare,
      FlushNext, BeginFlush, Release, ReleaseRaises, PutReady, EndFlush,
      WorkerNext, Fetch, Dispatch, Chunk, PutChunk, EndForward, PutEnd,
      vars, handlerVars, prepareVars

(* The numbers below the flush's cursor stay released.                     *)
LEMMA PrefixNext ==
  ASSUME TypeOK, Numbers, [Next]_vars
  PROVE  Prefix'
<1> USE DEF Numbers, Prefix
<1>1. ASSUME NEW t \in Task, TakeSeq(t)
      PROVE  Prefix'
  BY SMTT(30), <1>1 DEF TakeSeq, TypeOK, releaseVars
<1>2. ASSUME NEW t \in Task, BeginFlush(t)
      PROVE  Prefix'
  BY <1>2 DEF BeginFlush, TypeOK, handlerVars
<1>3. ASSUME NEW t \in Task, Release(t) \/ ReleaseRaises(t)
      PROVE  Prefix'
  <2>1. t \in buffer /\ seq[t] \in 1 .. (nextSeq - 1)
    <3>1. t \in buffer
      BY <1>3 DEF Release, ReleaseRaises, Releasable, InOrder, TextCandidates
    <3> QED
      BY SMTT(30), <3>1 DEF Arrived, TypeOK
  <2>2. released' = released \cup {seq[t]} /\ UNCHANGED <<nextSeq, nextRelease>>
    BY <1>3 DEF Release, ReleaseRaises, handlerVars
  <2>3. cursor' <= nextSeq /\ 1 .. (cursor' - 1) \subseteq released'
    <3>1. CASE Release(t) /\ t \in InOrder
      <4>1. cursor' = seq[t] + 1 /\ 1 .. (seq[t] - 1) \subseteq released
        BY <3>1, NextUnreleasedOK DEF Release, InOrder
      <4>2. nextSeq \in Nat
        BY DEF TypeOK
      <4>3. ASSUME NEW s \in 1 .. (cursor' - 1)
            PROVE  s \in released \cup {seq[t]}
        BY <4>1, <4>2, <2>1
      <4> QED
        BY <4>1, <4>2, <4>3, <2>1, <2>2
    <3>2. CASE Release(t) /\ t \notin InOrder
      BY <3>2, <2>2, NextUnreleasedOK DEF Release
    <3>3. CASE ReleaseRaises(t)
      BY <3>3, <2>2 DEF ReleaseRaises
    <3> QED
      BY <1>3, <3>1, <3>2, <3>3
  <2> QED
    BY <2>1, <2>2, <2>3
<1>4. ASSUME EndFlush
      PROVE  Prefix'
  BY <1>4, NextUnreleasedOK DEF EndFlush, handlerVars
<1>5. CASE UNCHANGED <<nextSeq, released, cursor, nextRelease>>
  BY <1>5
<1> QED
  BY <1>1, <1>2, <1>3, <1>4, <1>5
  DEF Next, HandlerNext, PutPrepare, Read, Disconnect, PrepareNext, DispatchPrepare, StartPrepare, FinishPrepare,
      FlushNext, PutReady, WorkerNext, Fetch, Dispatch, Chunk, PutChunk, EndForward, PutEnd,
      vars, handlerVars, releaseVars

(* ReleaseOrder is inductive beside them. *)
LEMMA ReleaseOrderNext ==
  ASSUME TypeOK, Numbers, ReleaseOrder, [Next]_vars
  PROVE  ReleaseOrder'
<1>1. ASSUME NEW t \in Task, TakeSeq(t)
      PROVE  ReleaseOrder'
  <2>1. rseq[t] = 0 /\ UNCHANGED <<rseq, released>>
    BY <1>1 DEF TakeSeq, Numbers, Arrived, predictVars, releaseVars
  <2>2. \A u \in Task \ {t} : seq'[u] = seq[u]
    BY <1>1 DEF TakeSeq, TypeOK
  <2> QED
    BY <2>1, <2>2 DEF ReleaseOrder
<1>2. ASSUME NEW t \in Task, Release(t)
      PROVE  ReleaseOrder'
  <2>1. seq' = seq /\ released \subseteq released'
    BY <1>2 DEF Release, handlerVars
  <2>2. \A u \in Task \ {t} : rseq'[u] = rseq[u]
    BY <1>2 DEF Release, Reserve, TypeOK
  <2>3. CASE t \in InOrder
    <3>1. 1 .. (seq[t] - 1) \subseteq released
      BY <2>3, NextUnreleasedOK DEF InOrder, Numbers
    <3> QED
      BY <2>1, <2>2, <3>1 DEF ReleaseOrder
  <2>4. CASE t \notin InOrder
    <3>1. Policy = "text_bypass" /\ t \in Text
      BY <1>2, <2>4 DEF Release, Releasable, TextCandidates
    <3> QED
      BY <2>1, <2>2, <3>1 DEF ReleaseOrder
  <2> QED
    BY <2>3, <2>4
<1>3. ASSUME UNCHANGED <<seq, rseq>>, released \subseteq released'
      PROVE  ReleaseOrder'
  BY <1>3 DEF ReleaseOrder
<1> QED
  BY <1>1, <1>2, <1>3
  DEF Next, HandlerNext, PutPrepare, Read, Disconnect, PrepareNext, DispatchPrepare, StartPrepare, FinishPrepare,
      FlushNext, BeginFlush, ReleaseRaises, PutReady, EndFlush,
      WorkerNext, Fetch, Dispatch, Chunk, MarkFirstToken, PutChunk, EndForward, PutEnd,
      vars, handlerVars, releaseVars, predictVars

-----------------------------------------------------------------------------
IInv == TypeOK /\ Hands /\ Numbers /\ ReleaseOrder

(* The inductive invariant holds in the initial state.                     *)
LEMMA IInvInit == Init => IInv
<1> SUFFICES ASSUME Init PROVE IInv
  OBVIOUS
<1>1. Hands
  BY DEF Init, Hands
<1>2. Arrived /\ Queued
  BY NoTaskIsNoTask DEF Init, Arrived, Queued
<1>3. Prefix
  BY DEF Init, Prefix
<1>4. ReleaseOrder
  BY DEF Init, ReleaseOrder
<1> QED
  BY TypeOKInit, <1>1, <1>2, <1>3, <1>4 DEF IInv, Numbers

(* The inductive invariant: the types, what workers hold, which numbers    *)
(* are given and released, and the release order.                          *)
THEOREM IInvInvariant == Spec => []IInv
<1>1. IInv /\ [Next]_vars => IInv'
  BY TypeOKNext, HandsNext, ArrivedNext, QueuedNext, PrefixNext, ReleaseOrderNext DEF IInv, Numbers
<1> QED
  BY IInvInit, <1>1, PTL DEF Spec

(* Every variable of the pipeline keeps its type, for every instance.      *)
THEOREM TypeCorrect == Spec => []TypeOK
<1>1. IInv => TypeOK
  BY DEF IInv
<1> QED
  BY IInvInvariant, <1>1, PTL

(* Whatever predictions raise and whichever flushes are interrupted, a     *)
(* task is released past a number still missing only if it is a text task  *)
(* under "text_bypass".                                                    *)
THEOREM ReleaseOrderHolds == Spec => []ReleaseOrder
<1>1. IInv => ReleaseOrder
  BY DEF IInv
<1> QED
  BY IInvInvariant, <1>1, PTL

-----------------------------------------------------------------------------
(* A queue with no task in it twice. *)
OnceEach(q) == \A i, j \in 1 .. Len(q) : q[i] = q[j] => i = j

(* Appending a new element and taking the first one off keep that.         *)
LEMMA AppendOnce ==
  ASSUME NEW S, NEW q \in Seq(S), NEW e \in S, OnceEach(q),
         \A i \in 1 .. Len(q) : q[i] # e
  PROVE  OnceEach(Append(q, e))
BY AppendProperties, LenProperties DEF OnceEach

(* Taking the first element off a queue leaves each of the others in it    *)
(* once.                                                                   *)
LEMMA TailOnce ==
  ASSUME NEW S, NEW q \in Seq(S), q # <<>>, OnceEach(q)
  PROVE  /\ OnceEach(Tail(q))
         /\ \A i \in 1 .. Len(Tail(q)) : Tail(q)[i] # Head(q)
<1>1. Len(Tail(q)) \in Nat /\ Len(q) \in Nat
  BY HeadTailProperties, LenProperties
<1>2. \A i \in 1 .. Len(Tail(q)) : i + 1 \in 1 .. Len(q) /\ Tail(q)[i] = q[i + 1]
  BY TailShifts
<1>3. 1 \in 1 .. Len(q) /\ Head(q) = q[1]
  BY HeadIsFirst
<1> QED
  BY <1>1, <1>2, <1>3 DEF OnceEach

(* The elements of a queue, after an append and without its first.         *)
LEMMA AppendRange ==
  ASSUME NEW S, NEW q \in Seq(S), NEW e \in S
  PROVE  Range(Append(q, e)) = Range(q) \cup {e}
<1>1. Len(q) \in Nat /\ DOMAIN q = 1 .. Len(q)
  BY LenProperties
<1>2. DOMAIN Append(q, e) = 1 .. (Len(q) + 1)
  BY AppendProperties, LenProperties
<1>3. Append(q, e)[Len(q) + 1] = e /\ \A i \in 1 .. Len(q) : Append(q, e)[i] = q[i]
  BY AppendProperties
<1> QED
  BY <1>1, <1>2, <1>3 DEF Range

(* A queue has the elements of its tail and its first one. *)
LEMMA TailRange ==
  ASSUME NEW S, NEW q \in Seq(S), q # <<>>
  PROVE  Range(q) = Range(Tail(q)) \cup {Head(q)}
<1>1. Len(q) \in Nat /\ DOMAIN q = 1 .. Len(q) /\ Len(q) # 0
  BY LenProperties, EmptySeq
<1>2. DOMAIN Tail(q) = 1 .. (Len(q) - 1) /\ Head(q) = q[1]
      /\ \A i \in 1 .. (Len(q) - 1) : Tail(q)[i] = q[i + 1]
  BY HeadTailProperties, LenProperties
<1>3. \A i \in 1 .. Len(q) : i = 1 \/ i - 1 \in 1 .. (Len(q) - 1)
  BY <1>1
<1>4. ASSUME NEW i \in 1 .. Len(q) PROVE q[i] \in Range(Tail(q)) \cup {Head(q)}
  <2>1. CASE i = 1
    BY <2>1, <1>2
  <2>2. CASE i # 1
    <3>1. i - 1 \in 1 .. (Len(q) - 1) /\ (i - 1) + 1 = i
      BY <1>1, <2>2
    <3> QED
      BY <3>1, <1>2 DEF Range
  <2> QED
    BY <2>1, <2>2
<1>5. \A i \in 1 .. (Len(q) - 1) : i + 1 \in 1 .. Len(q)
  BY <1>1
<1> QED
  BY <1>1, <1>2, <1>4, <1>5 DEF Range

-----------------------------------------------------------------------------
(* No two tasks have one number, and a task is in one place of the prepare *)
(* stage: a queue that holds it agrees with where its prepare task is.     *)
Ticketed == \A t, u \in Task : seq[t] = seq[u] /\ seq[t] # 0 => t = u

Placed ==
  /\ \A t \in Task : handler[t] \in {"new", "enqueuing"} => prep[t] = "none"
  /\ OnceEach(prepareQ) /\ \A i \in 1 .. Len(prepareQ) : prep[prepareQ[i]] = "queued"
  /\ OnceEach(semQ) /\ \A i \in 1 .. Len(semQ) : prep[semQ[i]] = "waiting"

(* The prepare task of t is at the flush. *)
Flushing(t) == prep[t] \in {"flush", "retry"}

(* A reserved task's number is released; a released number without a       *)
(* reservation is of a task whose reservation raised; and before its flush *)
(* a task is not in the buffer, nor its number released.                   *)
Marked ==
  /\ \A t \in Task : rseq[t] # 0 => seq[t] \in released
  /\ \A t \in Task : seq[t] \in released /\ rseq[t] = 0 => t \in Unpredictable
  /\ \A t \in Task : t \in buffer \/ seq[t] \in released => Flushing(t) \/ prep[t] = "left"
  /\ flusher # NoTask => Flushing(flusher)

(* Where the tasks of the prepare stage are. *)
Places == Ticketed /\ Placed /\ Marked

(* A new number is greater than those given, so the numbers stay apart. *)
LEMMA TicketedNext ==
  ASSUME TypeOK, Numbers, Ticketed, [Next]_vars
  PROVE  Ticketed'
<1>1. ASSUME NEW t \in Task, TakeSeq(t)
      PROVE  Ticketed'
  BY SMTT(30), <1>1 DEF TakeSeq, TypeOK, Numbers, Arrived, Ticketed
<1>2. CASE UNCHANGED seq
  BY <1>2 DEF Ticketed
<1> QED
  BY <1>1, <1>2
  DEF Next, HandlerNext, PutPrepare, Read, Disconnect, PrepareNext, DispatchPrepare, StartPrepare, FinishPrepare,
      FlushNext, BeginFlush, Release, ReleaseRaises, PutReady, EndFlush,
      WorkerNext, Fetch, Dispatch, Chunk, PutChunk, EndForward, PutEnd, vars, handlerVars

(* A step that only moves prepare tasks which are in no queue.             *)
LEMMA PlacedKept ==
  ASSUME TypeOK, Placed, UNCHANGED <<prepareQ, semQ>>,
         \A t \in Task : handler'[t] \in {"new", "enqueuing"} => prep'[t] = "none",
         \A t \in Task : prep[t] \in {"queued", "waiting"} => prep'[t] = prep[t]
  PROVE  Placed'
<1>1. \A i \in 1 .. Len(prepareQ) : prepareQ[i] \in Task
  BY ElementOfSeq DEF TypeOK
<1>2. \A i \in 1 .. Len(semQ) : semQ[i] \in Task
  BY ElementOfSeq DEF TypeOK
<1> QED
  BY <1>1, <1>2 DEF Placed, OnceEach

(* The queues of the prepare stage hand a task on: it is in one of them,   *)
(* as its prepare task says.                                               *)
LEMMA PlacedNext ==
  ASSUME TypeOK, Numbers, Places, [Next]_vars
  PROVE  Placed'
<1> USE DEF Places
<1>1. ASSUME NEW t \in Task, TakeSeq(t) \/ Read(t) \/ Disconnect(t)
      PROVE  Placed'
  <2>1. UNCHANGED prepareVars
    BY <1>1 DEF TakeSeq, Read, Disconnect
  <2>2. \A u \in Task : handler'[u] \in {"new", "enqueuing"} => handler[u] \in {"new", "enqueuing"}
    BY <1>1 DEF TakeSeq, Read, Disconnect, TypeOK
  <2>3. \A u \in Task : handler'[u] \in {"new", "enqueuing"} => prep'[u] = "none"
    BY <2>1, <2>2 DEF Placed, prepareVars
  <2>4. UNCHANGED <<prepareQ, semQ, prep>>
    BY <2>1 DEF prepareVars
  <2> QED
    BY <2>3, <2>4, PlacedKept
<1>2. ASSUME NEW t \in Task, PutPrepare(t)
      PROVE  Placed'
  <2>1. prep[t] = "none" /\ handler'[t] = "reading"
    BY <1>2 DEF PutPrepare, Placed, TypeOK
  <2>2. \A i \in 1 .. Len(prepareQ) : prepareQ[i] \in Task /\ prepareQ[i] # t
    BY <2>1, ElementOfSeq DEF Placed, TypeOK
  <2>3. \A i \in 1 .. Len(semQ) : semQ[i] \in Task /\ semQ[i] # t
    BY <2>1, ElementOfSeq DEF Placed, TypeOK
  <2>4. OnceEach(prepareQ')
    BY <1>2, <2>2, AppendOnce DEF PutPrepare, Placed, TypeOK
  <2>5. prep' = [prep EXCEPT ![t] = "queued"] /\ UNCHANGED semQ
    BY <1>2 DEF PutPrepare
  <2>6. \A i \in 1 .. Len(prepareQ') : prepareQ'[i] \in {u \in Task : prep'[u] = "queued"}
    <3>1. \A i \in 1 .. Len(prepareQ) : prepareQ[i] \in {u \in Task : prep'[u] = "queued"}
      <4>1. \A u \in Task : prep'[u] = IF u = t THEN "queued" ELSE prep[u]
        BY <2>5 DEF TypeOK
      <4> QED
        BY <2>2, <4>1 DEF Placed
    <3>2. t \in {u \in Task : prep'[u] = "queued"} /\ prepareQ \in Seq(Task)
      BY <2>5 DEF TypeOK
    <3> QED
      BY <1>2, <3>1, <3>2, AppendElements DEF PutPrepare
  <2>7. \A u \in Task : handler'[u] \in {"new", "enqueuing"} => prep'[u] = "none"
    BY <1>2, <2>1, <2>5 DEF PutPrepare, Placed, TypeOK
  <2> QED
    BY <2>3, <2>4, <2>5, <2>6, <2>7 DEF Placed, TypeOK
<1>3. ASSUME DispatchPrepare
      PROVE  Placed'
  <2> DEFINE h == Head(prepareQ)
  <2>1. h \in Task /\ prep[h] = "queued"
    BY <1>3, HeadIsFirst DEF DispatchPrepare, TypeOK, Placed
  <2>2. prep' = [prep EXCEPT ![h] = "waiting"] /\ UNCHANGED handler
    BY <1>3 DEF DispatchPrepare, handlerVars
  <2>3. OnceEach(prepareQ') /\ \A i \in 1 .. Len(prepareQ') : prepareQ'[i] # h
    BY <1>3, TailOnce DEF DispatchPrepare, TypeOK, Placed
  <2>4. \A i \in 1 .. Len(prepareQ') : i + 1 \in 1 .. Len(prepareQ) /\ prepareQ'[i] = prepareQ[i + 1]
    BY <1>3, TailShifts DEF DispatchPrepare, TypeOK
  <2>5. \A i \in 1 .. Len(prepareQ) : prepareQ[i] \in Task
    BY ElementOfSeq DEF TypeOK
  <2> HIDE DEF h
  <2>6. ASSUME NEW i \in 1 .. Len(prepareQ') PROVE prep'[prepareQ'[i]] = "queued"
    <3>1. i + 1 \in 1 .. Len(prepareQ) /\ prepareQ'[i] = prepareQ[i + 1] /\ prepareQ'[i] # h
      BY <2>3, <2>4
    <3>2. prepareQ'[i] \in Task /\ prep[prepareQ'[i]] = "queued"
      BY <3>1, <2>5 DEF Placed
    <3> QED
      BY <2>2, <3>1, <3>2 DEF TypeOK
  <2>7. \A i \in 1 .. Len(semQ) : semQ[i] \in Task /\ semQ[i] # h
    BY <2>1, ElementOfSeq DEF Placed, TypeOK
  <2>8. semQ' = Append(semQ, h)
    BY <1>3 DEF DispatchPrepare, h
  <2>9. OnceEach(semQ')
    BY <2>1, <2>7, <2>8, AppendOnce DEF Placed, TypeOK
  <2>10. \A i \in 1 .. Len(semQ') : semQ'[i] \in {u \in Task : prep'[u] = "waiting"}
    <3>1. \A i \in 1 .. Len(semQ) : semQ[i] \in {u \in Task : prep'[u] = "waiting"}
      BY <2>2, <2>7 DEF Placed, TypeOK
    <3>2. h \in {u \in Task : prep'[u] = "waiting"} /\ semQ \in Seq(Task)
      BY <2>1, <2>2 DEF TypeOK
    <3> QED
      BY <2>8, <3>1, <3>2, AppendElements
  <2>11. \A u \in Task : handler'[u] \in {"new", "enqueuing"} => prep'[u] = "none"
    BY <2>1, <2>2 DEF Placed, TypeOK
  <2> QED
    BY <2>3, <2>6, <2>9, <2>10, <2>11 DEF Placed
<1>4. ASSUME StartPrepare
      PROVE  Placed'
  <2> DEFINE h == Head(semQ)
  <2>1. h \in Task /\ prep[h] = "waiting"
    BY <1>4, HeadIsFirst DEF StartPrepare, TypeOK, Placed
  <2>2. prep' = [prep EXCEPT ![h] = "preparing"] /\ UNCHANGED <<handler, prepareQ>>
    BY <1>4 DEF StartPrepare, handlerVars
  <2>3. OnceEach(semQ') /\ \A i \in 1 .. Len(semQ') : semQ'[i] # h
    BY <1>4, TailOnce DEF StartPrepare, TypeOK, Placed
  <2>4. \A i \in 1 .. Len(semQ') : i + 1 \in 1 .. Len(semQ) /\ semQ'[i] = semQ[i + 1]
    BY <1>4, TailShifts DEF StartPrepare, TypeOK
  <2>5. \A i \in 1 .. Len(semQ) : semQ[i] \in Task
    BY ElementOfSeq DEF TypeOK
  <2> HIDE DEF h
  <2>6. ASSUME NEW i \in 1 .. Len(semQ') PROVE prep'[semQ'[i]] = "waiting"
    <3>1. i + 1 \in 1 .. Len(semQ) /\ semQ'[i] = semQ[i + 1] /\ semQ'[i] # h
      BY <2>3, <2>4
    <3>2. semQ'[i] \in Task /\ prep[semQ'[i]] = "waiting"
      BY <3>1, <2>5 DEF Placed
    <3> QED
      BY <2>2, <3>1, <3>2 DEF TypeOK
  <2>7. \A i \in 1 .. Len(prepareQ) : prepareQ[i] \in Task /\ prepareQ[i] # h
    BY <2>1, ElementOfSeq DEF Placed, TypeOK
  <2>8. \A u \in Task : handler'[u] \in {"new", "enqueuing"} => prep'[u] = "none"
    BY <2>1, <2>2 DEF Placed, TypeOK
  <2> QED
    BY <2>2, <2>3, <2>6, <2>7, <2>8 DEF Placed, TypeOK
<1>5. ASSUME NEW t \in Task, FinishPrepare(t)
      PROVE  Placed'
  <2>1. UNCHANGED <<prepareQ, semQ, handler>>
    BY <1>5 DEF FinishPrepare, handlerVars
  <2>2. \A u \in Task : prep[u] # "preparing" => prep'[u] = prep[u]
    BY <1>5 DEF FinishPrepare, TypeOK
  <2> QED
    BY <2>1, <2>2, PlacedKept DEF Placed
<1>6. ASSUME EndFlush \/ \E t \in Task : ReleaseRaises(t)
      PROVE  Placed'
  <2>1. UNCHANGED <<prepareQ, semQ, handler>>
    BY <1>6 DEF EndFlush, ReleaseRaises, handlerVars
  <2>2. \A u \in Task : ~Flushing(u) => prep'[u] = prep[u]
    BY <1>6 DEF EndFlush, ReleaseRaises, TypeOK, Marked
  <2> QED
    BY <2>1, <2>2, PlacedKept DEF Placed, Flushing
<1>7. CASE UNCHANGED <<prepareQ, semQ, handler, prep>>
  BY <1>7 DEF Placed, OnceEach
<1> QED
  BY <1>1, <1>2, <1>3, <1>4, <1>5, <1>6, <1>7
  DEF Next, HandlerNext, PrepareNext, FlushNext, BeginFlush, Release, PutReady,
      WorkerNext, Fetch, Dispatch, Chunk, PutChunk, EndForward, PutEnd, vars, handlerVars, prepareVars

(* The number of a buffered task is no other task's. *)
LEMMA BufferedNumber ==
  ASSUME TypeOK, Numbers, Ticketed, NEW t \in buffer
  PROVE  /\ t \in Task /\ seq[t] \in Nat \ {0}
         /\ \A u \in Task : seq[u] = seq[t] => u = t
BY DEF TypeOK, Numbers, Arrived, Ticketed

(* What is released is in the buffer. *)
LEMMA ReleasableBuffered == Releasable \subseteq buffer
BY DEF Releasable, InOrder, TextCandidates

(* A release marks the number before anything can raise, so reservations   *)
(* and released numbers differ only by the reservations that raised.       *)
LEMMA MarkedNext ==
  ASSUME TypeOK, Numbers, Places, [Next]_vars
  PROVE  Marked'
<1> USE DEF Places, Flushing
<1>1. ASSUME NEW t \in Task, TakeSeq(t)
      PROVE  Marked'
  <2>1. t \notin buffer /\ rseq[t] = 0 /\ nextSeq \notin released
    BY <1>1 DEF TakeSeq, Numbers, Arrived, Prefix, TypeOK
  <2>2. seq' = [seq EXCEPT ![t] = nextSeq] /\ UNCHANGED <<rseq, released, buffer, prep, flusher>>
    BY <1>1 DEF TakeSeq, predictVars, releaseVars, prepareVars
  <2> QED
    BY <2>1, <2>2 DEF Marked, TypeOK
<1>2. ASSUME UNCHANGED <<seq, rseq, released, buffer, flusher>>,
             \A t \in Task : Flushing(t) \/ prep[t] = "left" => prep'[t] = prep[t]
      PROVE  Marked'
  <2>1. \A t \in Task : Flushing(t) => Flushing(t)'
    BY <1>2
  <2> QED
    BY <1>2, <2>1 DEF Marked, TypeOK
<1>3. ASSUME NEW t \in Task, PutPrepare(t) \/ FinishPrepare(t)
      PROVE  Marked'
  <2>1. prep[t] \in {"none", "preparing"} /\ \A u \in Task \ {t} : prep'[u] = prep[u]
    BY <1>3 DEF PutPrepare, FinishPrepare, Placed, TypeOK
  <2>2. UNCHANGED <<seq, rseq, released, buffer, flusher>>
    BY <1>3 DEF PutPrepare, FinishPrepare, handlerVars, releaseVars, predictVars
  <2> QED
    BY <1>2, <2>1, <2>2
<1>4. ASSUME DispatchPrepare \/ StartPrepare
      PROVE  Marked'
  <2>1. \A u \in Task : prep[u] \notin {"queued", "waiting"} => prep'[u] = prep[u]
    <3>1. CASE DispatchPrepare
      <4>1. Head(prepareQ) \in Task /\ prep[Head(prepareQ)] = "queued"
        BY <3>1, HeadIsFirst DEF DispatchPrepare, TypeOK, Placed
      <4> QED
        BY <3>1, <4>1 DEF DispatchPrepare, TypeOK
    <3>2. CASE StartPrepare
      <4>1. Head(semQ) \in Task /\ prep[Head(semQ)] = "waiting"
        BY <3>2, HeadIsFirst DEF StartPrepare, TypeOK, Placed
      <4> QED
        BY <3>2, <4>1 DEF StartPrepare, TypeOK
    <3> QED
      BY <1>4, <3>1, <3>2
  <2>2. UNCHANGED <<seq, rseq, released, buffer, flusher>>
    BY <1>4 DEF DispatchPrepare, StartPrepare, handlerVars, releaseVars, predictVars
  <2> QED
    BY <1>2, <2>1, <2>2
<1>5. ASSUME NEW t \in Task, BeginFlush(t)
      PROVE  Marked'
  BY <1>5 DEF BeginFlush, Marked, handlerVars, prepareVars, predictVars
<1>6. ASSUME NEW t \in Task, Release(t)
      PROVE  Marked'
  <2>1. t \in buffer
    BY <1>6, ReleasableBuffered DEF Release
  <2>2. UNCHANGED <<seq, prep, flusher>> /\ buffer' = buffer \ {t} /\ released' = released \cup {seq[t]}
    BY <1>6 DEF Release, handlerVars, prepareVars
  <2>3. rseq' = [rseq EXCEPT ![t] = nextRseq] /\ nextRseq # 0
    BY <1>6 DEF Release, Reserve, TypeOK
  <2> QED
    BY <2>1, <2>2, <2>3, BufferedNumber DEF Marked, TypeOK
<1>7. ASSUME NEW t \in Task, ReleaseRaises(t)
      PROVE  Marked'
  <2>1. t \in buffer /\ t \in Unpredictable
    BY <1>7, ReleasableBuffered DEF ReleaseRaises
  <2>2. /\ UNCHANGED <<seq, rseq>> /\ buffer' = buffer \ {t} /\ released' = released \cup {seq[t]}
        /\ flusher' = NoTask
    BY <1>7 DEF ReleaseRaises, handlerVars, predictVars
  <2>3. \A u \in Task : Flushing(u) \/ prep[u] = "left" => Flushing(u)' \/ prep'[u] = "left"
    BY <1>7 DEF ReleaseRaises, TypeOK
  <2> QED
    BY <2>1, <2>2, <2>3, BufferedNumber DEF Marked
<1>8. ASSUME EndFlush
      PROVE  Marked'
  <2>1. \A u \in Task : Flushing(u) \/ prep[u] = "left" => Flushing(u)' \/ prep'[u] = "left"
    BY <1>8 DEF EndFlush, TypeOK
  <2>2. UNCHANGED <<seq, rseq, released, buffer>> /\ flusher' = NoTask
    BY <1>8 DEF EndFlush, handlerVars, predictVars
  <2> QED
    BY <2>1, <2>2 DEF Marked
<1>9. ASSUME UNCHANGED <<seq, rseq, released, buffer, prep, flusher>>
      PROVE  Marked'
  BY <1>9 DEF Marked
<1> QED
  BY <1>1, <1>3, <1>4, <1>5, <1>6, <1>7, <1>8, <1>9
  DEF Next, HandlerNext, Read, Disconnect, PrepareNext, FlushNext, PutReady,
      WorkerNext, Fetch, Dispatch, Chunk, MarkFirstToken, PutChunk, EndForward, PutEnd,
      vars, handlerVars, prepareVars, releaseVars, predictVars

(* Nothing has arrived at first. *)
LEMMA PlacesInit == Init => Places
BY NoTaskIsNoTask DEF Init, Places, Ticketed, Placed, OnceEach, Marked

(* Places is inductive beside the types and the numbers. *)
LEMMA PlacesNext ==
  ASSUME TypeOK, Numbers, Places, [Next]_vars
  PROVE  Places'
BY TicketedNext, PlacedNext, MarkedNext DEF Places

-----------------------------------------------------------------------------
(* Where the results of this part hold: in the behaviours under "ordered", *)
(* whatever raises, and in those under "text_bypass" in which of all the   *)
(* predictions that may raise only those of one task o do, however often.  *)
(* (When those of two tasks do, a text task can be released twice.)        *)
RaiseOf(o) == \A t \in Task : ReleaseRaises(t) => Policy = "ordered" \/ t = o
OnlyOneRaises(o) == [][RaiseOf(o)]_vars

(* Only the reservation of o has raised so far.                            *)
OneLost(o) ==
  Policy = "text_bypass" => \A t \in Task : seq[t] \in released /\ rseq[t] = 0 => t = o

(* No number is released at first. *)
LEMMA OneLostInit == ASSUME NEW o, Init PROVE OneLost(o)
BY DEF Init, OneLost

(* A number is released with a reservation, or by a reservation that       *)
(* raises.                                                                 *)
LEMMA OneLostNext ==
  ASSUME NEW o, TypeOK, Numbers, Places, OneLost(o), [Next]_vars, [RaiseOf(o)]_vars
  PROVE  OneLost(o)'
<1> SUFFICES ASSUME Policy = "text_bypass" PROVE OneLost(o)'
  BY DEF OneLost
<1>1. ASSUME NEW t \in Task, TakeSeq(t)
      PROVE  OneLost(o)'
  <2>1. nextSeq \notin released /\ seq' = [seq EXCEPT ![t] = nextSeq] /\ UNCHANGED <<rseq, released>>
    BY <1>1 DEF TakeSeq, Numbers, Arrived, Prefix, TypeOK, predictVars, releaseVars, prepareVars
  <2> QED
    BY <2>1 DEF OneLost, TypeOK
<1>2. ASSUME NEW t \in Task, Release(t)
      PROVE  OneLost(o)'
  <2>1. t \in buffer
    BY <1>2, ReleasableBuffered DEF Release
  <2>2. UNCHANGED seq /\ released' = released \cup {seq[t]}
    BY <1>2 DEF Release, handlerVars
  <2>3. rseq' = [rseq EXCEPT ![t] = nextRseq] /\ nextRseq # 0
    BY <1>2 DEF Release, Reserve, TypeOK
  <2> QED
    BY <2>1, <2>2, <2>3, BufferedNumber DEF OneLost, TypeOK, Places
<1>3. ASSUME NEW t \in Task, ReleaseRaises(t)
      PROVE  OneLost(o)'
  <2>1. t \in buffer /\ flusher # NoTask /\ flusher' = NoTask
    BY <1>3, ReleasableBuffered DEF ReleaseRaises
  <2>2. t = o
    BY <1>3, <2>1 DEF RaiseOf, vars, releaseVars
  <2>3. UNCHANGED <<seq, rseq>> /\ released' = released \cup {seq[t]}
    BY <1>3 DEF ReleaseRaises, handlerVars, predictVars
  <2> QED
    BY <2>1, <2>2, <2>3, BufferedNumber DEF OneLost, Places
<1>4. ASSUME UNCHANGED <<seq, rseq, released>>
      PROVE  OneLost(o)'
  BY <1>4 DEF OneLost
<1> QED
  BY <1>1, <1>2, <1>3, <1>4
  DEF Next, HandlerNext, PutPrepare, Read, Disconnect, PrepareNext, DispatchPrepare, StartPrepare, FinishPrepare,
      FlushNext, BeginFlush, EndFlush, PutReady, WorkerNext, Fetch, Dispatch, Chunk, MarkFirstToken, PutChunk,
      EndForward, PutEnd, vars, handlerVars, prepareVars, releaseVars, predictVars

(* Nothing up to the task's number is missing; it is the task's turn.      *)
Clear(t)  == \A s \in 1 .. seq[t] : s \in released
InTurn(t) == seq[t] \notin released /\ \A s \in 1 .. (seq[t] - 1) : s \in released

(* The prediction that may raise has raised, and its task is passed by.    *)
RaisedInTurn == \E u \in Unpredictable : seq[u] # 0 /\ rseq[u] = 0 /\ Clear(u)

(* Of the text tasks in the buffer only the flushing one is still to be    *)
(* released.                                                               *)
TextClear == \A t \in buffer \cap Text : t = flusher \/ Clear(t)

(* It is a buffered task's turn only while its flush is on the way to it.  *)
TurnIsTaken ==
  \A t \in buffer : InTurn(t) =>
    \/ t = flusher
    \/ flusher # NoTask /\ flusher \notin buffer
    \/ RaisedInTurn

(* A reserved task comes back to the buffer only where it is passed by.    *)
NotAgain ==
  \A t \in Task : rseq[t] # 0 =>
    /\ t \in buffer => Clear(t)
    /\ Flushing(t) => \/ Clear(t)
                      \/ t = flusher /\ t \notin buffer /\ \A x \in buffer : ~InTurn(x)

(* What a flush lets through out of turn is its own task.                  *)
Spent == bypassed # 0 /\ flusher # NoTask => flusher \notin buffer

(* The invariant of "text_bypass"; under "ordered" it says nothing. *)
Bypassing == Policy = "text_bypass" => TextClear /\ TurnIsTaken /\ NotAgain /\ Spent

(* The flush's tests, in these words. *)
LEMMA TurnOfBuffered ==
  ASSUME TypeOK, Numbers, NEW t \in buffer
  PROVE  /\ t \in InOrder <=> InTurn(t)
         /\ seq[t] > NextUnreleased <=> ~Clear(t) /\ ~InTurn(t)
<1> DEFINE n == NextUnreleased
<1>1. /\ n \in Nat \ {0} /\ n \notin released
      /\ 1 .. (n - 1) \subseteq released
  BY NextUnreleasedOK DEF Numbers
<1>2. seq[t] \in Nat \ {0}
  BY DEF TypeOK, Numbers, Arrived
<1>3. t \in InOrder <=> seq[t] = n
  BY DEF InOrder
<1> HIDE DEF n
<1>4. CASE seq[t] = n
  BY <1>1, <1>2, <1>3, <1>4 DEF n, InTurn
<1>5. CASE seq[t] < n
  <2>1. seq[t] \in 1 .. (n - 1) /\ Clear(t)
    BY <1>1, <1>2, <1>5 DEF Clear
  <2> QED
    BY <1>1, <1>2, <1>3, <1>5, <2>1 DEF n, InTurn
<1>6. CASE seq[t] > n
  <2>1. n \in 1 .. (seq[t] - 1) /\ n \in 1 .. seq[t]
    BY <1>1, <1>2, <1>6
  <2> QED
    BY <1>1, <1>2, <1>3, <1>6, <2>1 DEF n, InTurn, Clear
<1> QED
  BY <1>1, <1>2, <1>4, <1>5, <1>6

(* A task that is released is released in its turn, or it is the text task *)
(* that flushes and not passed by; nobody else's turn is passed by.        *)
LEMMA ReleasedHow ==
  ASSUME TypeOK, Numbers, Policy = "text_bypass" => TextClear, NEW t \in Releasable
  PROVE  \/ InTurn(t)
         \/ /\ Policy = "text_bypass" /\ t = flusher /\ t \in Text
            /\ ~Clear(t) /\ ~InTurn(t) /\ seq[t] > NextUnreleased
            /\ InOrder = {} /\ \A x \in buffer : ~InTurn(x)
<1>1. t \in buffer
  BY ReleasableBuffered
<1>2. CASE InOrder # {}
  BY <1>1, <1>2, TurnOfBuffered DEF Releasable
<1>3. CASE InOrder = {}
  <2>1. Policy = "text_bypass" /\ t \in TextCandidates
    BY <1>3 DEF Releasable
  <2>2. t \in Text /\ ~Clear(t) /\ ~InTurn(t) /\ seq[t] > NextUnreleased
    BY <1>1, <2>1, TurnOfBuffered DEF TextCandidates
  <2> QED
    BY <1>1, <1>3, <2>1, <2>2, TurnOfBuffered DEF TextClear
<1> QED
  BY <1>2, <1>3

(* So no task is released that has a reservation. *)
LEMMA ReleasedAnew ==
  ASSUME TypeOK, Numbers, Places, Bypassing, NEW t \in Releasable
  PROVE  t \in Task /\ rseq[t] = 0 /\ ~Clear(t)
<1>1. t \in buffer /\ t \in Task /\ seq[t] \in Nat \ {0}
  BY ReleasableBuffered, BufferedNumber DEF Places
<1>2. ~Clear(t)
  BY <1>1, ReleasedHow DEF Bypassing, InTurn, Clear
<1>3. rseq[t] = 0
  BY <1>1, <1>2, ReleasedHow DEF Bypassing, InTurn, NotAgain, Places, Marked
<1> QED
  BY <1>1, <1>2, <1>3

(* A number released out of turn leaves the missing one missing. *)
LEMMA OutOfTurn ==
  ASSUME TypeOK, Numbers, NEW t \in buffer, seq[t] > NextUnreleased,
         UNCHANGED seq, released' = released \cup {seq[t]},
         NEW x \in buffer, ~InTurn(x)
  PROVE  ~InTurn(x)'
<1> DEFINE n == NextUnreleased
<1>1. /\ n \in Nat \ {0} /\ n \notin released
      /\ 1 .. (n - 1) \subseteq released
  BY NextUnreleasedOK DEF Numbers
<1>2. seq[x] \in Nat \ {0} /\ seq[t] \in Nat /\ seq[t] # n
  BY DEF TypeOK, Numbers, Arrived
<1> HIDE DEF n
<1>3. SUFFICES ASSUME seq[x] \notin released, seq[x] # n
               PROVE  n \in 1 .. (seq[x] - 1)
  BY <1>1, <1>2 DEF InTurn
<1> QED
  BY <1>1, <1>2, <1>3

(* What is clear stays clear: numbers are only added to the released ones. *)
LEMMA ClearStays ==
  ASSUME TypeOK, UNCHANGED seq, released \subseteq released', NEW t \in Task, Clear(t)
  PROVE  Clear(t)'
BY DEF Clear

(* A release keeps Bypassing: the one in turn because its task is then     *)
(* passed by, the one out of turn because nobody else's turn is near.      *)
LEMMA BypassingRelease ==
  ASSUME TypeOK, Numbers, Places, Bypassing, NEW t \in Task, Release(t)
  PROVE  Bypassing'
<1> SUFFICES ASSUME Policy = "text_bypass" PROVE Bypassing'
  BY DEF Bypassing
<1> USE DEF Bypassing
<1>1. /\ t \in buffer /\ t \in Releasable /\ rseq[t] = 0 /\ ~Clear(t)
      /\ flusher # NoTask
  BY ReleasableBuffered, ReleasedAnew DEF Release
<1>2. /\ UNCHANGED <<seq, prep, flusher>> /\ buffer' = buffer \ {t}
      /\ released' = released \cup {seq[t]}
  BY DEF Release, handlerVars, prepareVars
<1>3. \A u \in Task \ {t} : rseq'[u] = rseq[u]
  BY DEF Release, Reserve, TypeOK
<1>4. buffer \subseteq Task
  BY DEF TypeOK
<1>5. \A u \in Task : Clear(u) => Clear(u)'
  BY <1>2, ClearStays
<1>6. TextClear'
  BY <1>2, <1>4, <1>5 DEF TextClear
<1>7. RaisedInTurn => RaisedInTurn'
  <2>1. \A u \in Unpredictable : u \in Task
    BY ProxyQueueAssumption DEF ProxyQueueAssumption
  <2> QED
    BY <1>1, <1>2, <1>3, <1>5, <2>1 DEF RaisedInTurn
<1>8. CASE InTurn(t)
  <2>1. Clear(t)'
    BY <1>1, <1>2, <1>8, BufferedNumber DEF InTurn, Clear, Places
  <2>2. TurnIsTaken'
    <3>1. flusher = t \/ flusher \notin buffer \/ RaisedInTurn
      BY <1>1, <1>8 DEF TurnIsTaken
    <3> QED
      BY <1>1, <1>2, <1>7, <3>1 DEF TurnIsTaken
  <2>3. NotAgain'
    <3>1. \A u \in Task \ {t} : rseq[u] # 0 => (u \in buffer => Clear(u)) /\ (Flushing(u) => Clear(u))
      BY <1>1, <1>8 DEF NotAgain
    <3>2. \A u \in Task : Flushing(u)' => Flushing(u)
      BY <1>2 DEF Flushing
    <3> QED
      BY <1>2, <1>3, <1>5, <2>1, <3>1, <3>2 DEF NotAgain
  <2>4. Spent'
    BY <1>2, <1>8, TurnOfBuffered, <1>1 DEF Release, Spent
  <2> QED
    BY <1>6, <2>2, <2>3, <2>4
<1>9. CASE ~InTurn(t)
  <2>1. /\ t = flusher /\ seq[t] > NextUnreleased
        /\ \A x \in buffer : ~InTurn(x)
    BY <1>1, <1>9, ReleasedHow
  <2>2. \A x \in buffer' : ~InTurn(x)'
    BY <1>1, <1>2, <2>1, OutOfTurn
  <2>3. TurnIsTaken'
    BY <2>2 DEF TurnIsTaken
  <2>4. NotAgain'
    <3>1. \A u \in Task \ {t} : rseq[u] # 0 => (u \in buffer => Clear(u)) /\ (Flushing(u) => Clear(u))
      BY <2>1 DEF NotAgain
    <3>2. \A u \in Task : Flushing(u)' => Flushing(u)
      BY <1>2 DEF Flushing
    <3> QED
      BY <1>2, <1>3, <1>5, <2>1, <2>2, <3>1, <3>2 DEF NotAgain
  <2>5. Spent'
    BY <1>2, <2>1 DEF Spent
  <2> QED
    BY <1>6, <2>3, <2>4, <2>5
<1> QED
  BY <1>8, <1>9

(* A reservation that raises keeps it too, when no other has raised:       *)
(* it ends the flush, and from then on RaisedInTurn stands for the flush   *)
(* that is missing. (With a second one the buffer could be left with a     *)
(* task in its turn behind a reserved text task.)                          *)
LEMMA BypassingRaise ==
  ASSUME ~RaisedInTurn, TypeOK, Numbers, Places, Bypassing, NEW t \in Task, ReleaseRaises(t)
  PROVE  Bypassing'
<1> SUFFICES ASSUME Policy = "text_bypass" PROVE Bypassing'
  BY DEF Bypassing
<1> USE DEF Bypassing
<1>1. /\ t \in buffer /\ t \in Releasable /\ rseq[t] = 0 /\ ~Clear(t)
      /\ flusher # NoTask /\ t \in Unpredictable
  BY ReleasableBuffered, ReleasedAnew DEF ReleaseRaises
<1>2. /\ UNCHANGED <<seq, rseq>> /\ buffer' = buffer \ {t}
      /\ released' = released \cup {seq[t]} /\ flusher' = NoTask
  BY DEF ReleaseRaises, handlerVars, predictVars
<1>3. buffer \subseteq Task
  BY DEF TypeOK
<1>4. \A u \in Task : Clear(u) => Clear(u)'
  BY <1>2, ClearStays
<1>5. ~RaisedInTurn
  OBVIOUS
<1>6. \A u \in Task : Flushing(u)' => Flushing(u)
  BY DEF Flushing, ReleaseRaises, TypeOK
<1>7. Spent'
  BY <1>2 DEF Spent
<1>8. CASE InTurn(t)
  <2>1. Clear(t)' /\ seq[t] # 0
    BY <1>1, <1>2, <1>8, BufferedNumber DEF InTurn, Clear, Places
  <2>2. RaisedInTurn'
    BY <1>1, <1>2, <2>1 DEF RaisedInTurn
  <2>3. flusher = t \/ flusher \notin buffer
    BY <1>1, <1>5, <1>8 DEF TurnIsTaken
  <2>4. TextClear'
    BY <1>2, <1>3, <1>4, <2>3 DEF TextClear
  <2>5. TurnIsTaken'
    BY <2>2 DEF TurnIsTaken
  <2>6. NotAgain'
    <3>1. \A u \in Task : rseq[u] # 0 => (u \in buffer => Clear(u)) /\ (Flushing(u) => Clear(u))
      BY <1>1, <1>8 DEF NotAgain
    <3> QED
      BY <1>2, <1>4, <1>6, <3>1 DEF NotAgain
  <2> QED
    BY <1>7, <2>4, <2>5, <2>6
<1>9. CASE ~InTurn(t)
  <2>1. /\ t = flusher /\ seq[t] > NextUnreleased
        /\ \A x \in buffer : ~InTurn(x)
    BY <1>1, <1>9, ReleasedHow
  <2>2. \A x \in buffer' : ~InTurn(x)'
    BY <1>1, <1>2, <2>1, OutOfTurn
  <2>3. TextClear'
    BY <1>2, <1>3, <1>4, <2>1 DEF TextClear
  <2>4. TurnIsTaken'
    BY <2>2 DEF TurnIsTaken
  <2>5. NotAgain'
    <3>1. \A u \in Task : rseq[u] # 0 => (u \in buffer => Clear(u)) /\ (Flushing(u) => Clear(u))
      BY <1>1, <2>1 DEF NotAgain
    <3> QED
      BY <1>2, <1>4, <1>6, <3>1 DEF NotAgain
  <2> QED
    BY <1>7, <2>3, <2>4, <2>5
<1> QED
  BY <1>8, <1>9

(* A flush that ends leaves no text task behind: its own would be the only *)
(* candidate, and within the limit.                                        *)
LEMMA BypassingEnd ==
  ASSUME TypeOK, Numbers, Places, Bypassing, EndFlush
  PROVE  Bypassing'
<1> SUFFICES ASSUME Policy = "text_bypass" PROVE Bypassing'
  BY DEF Bypassing
<1> USE DEF Bypassing
<1>1. /\ UNCHANGED <<seq, rseq, released, buffer>> /\ flusher' = NoTask
      /\ flusher # NoTask /\ Releasable = {}
  BY DEF EndFlush, handlerVars, predictVars
<1>2. \A u \in Task : /\ Clear(u)' = Clear(u)
                      /\ InTurn(u)' = InTurn(u)
  BY <1>1 DEF Clear, InTurn
<1>3. buffer \subseteq Task
  BY DEF TypeOK
<1>4. \A x \in buffer : ~InTurn(x)
  BY <1>1, TurnOfBuffered DEF Releasable
<1>5. TextClear'
  <2>1. SUFFICES ASSUME flusher \in buffer \cap Text, ~Clear(flusher) PROVE FALSE
    BY <1>1, <1>2, <1>3 DEF TextClear
  <2>2. TextCandidates = {flusher}
    BY <1>4, <2>1, TurnOfBuffered DEF TextClear, TextCandidates
  <2>3. bypassed < MaxBypass /\ InOrder = {}
    BY <1>1, <1>4, <2>1, CapsArePositive, TurnOfBuffered DEF Spent, InOrder
  <2>4. seq[flusher] <= seq[flusher]
    BY <1>3, <2>1 DEF TypeOK
  <2> QED
    BY <1>1, <2>2, <2>3, <2>4 DEF Releasable
<1>6. TurnIsTaken'
  BY <1>1, <1>2, <1>3, <1>4 DEF TurnIsTaken
<1>7. NotAgain'
  <2>1. \A u \in Task : Flushing(u)' => Flushing(u) /\ u # flusher
    BY DEF EndFlush, Flushing, TypeOK
  <2> QED
    BY <1>1, <1>2, <2>1 DEF NotAgain
<1>8. Spent'
  BY <1>1 DEF Spent
<1> QED
  BY <1>5, <1>6, <1>7, <1>8

(* A step that releases nothing and begins or ends no flush.               *)
LEMMA BypassingKept ==
  ASSUME TypeOK, Bypassing, UNCHANGED <<rseq, released, buffer, flusher, bypassed>>,
         \A u \in Task : seq[u] # 0 => seq'[u] = seq[u],
         \A u \in Task : rseq[u] # 0 \/ u \in buffer => seq[u] # 0,
         \A u \in Task : rseq[u] # 0 /\ Flushing(u)' => Flushing(u)
  PROVE  Bypassing'
<1>1. \A u \in Task : seq[u] # 0 => Clear(u)' = Clear(u) /\ InTurn(u)' = InTurn(u)
  BY DEF Clear, InTurn
<1>2. buffer \subseteq Task /\ Unpredictable \subseteq Task
  BY ProxyQueueAssumption DEF TypeOK, ProxyQueueAssumption
<1>3. RaisedInTurn => RaisedInTurn'
  BY <1>1, <1>2 DEF RaisedInTurn
<1>4. TextClear => TextClear'
  BY <1>1, <1>2 DEF TextClear
<1>5. TurnIsTaken => TurnIsTaken'
  BY <1>1, <1>2, <1>3 DEF TurnIsTaken
<1>6. NotAgain => NotAgain'
  BY <1>1, <1>2 DEF NotAgain
<1>7. Spent => Spent'
  BY DEF Spent
<1> QED
  BY <1>4, <1>5, <1>6, <1>7 DEF Bypassing

(* A flush begins with its own task in the buffer, text or not.            *)
LEMMA BypassingBegin ==
  ASSUME TypeOK, Numbers, Places, Bypassing, NEW t \in Task, BeginFlush(t)
  PROVE  Bypassing'
<1> SUFFICES ASSUME Policy = "text_bypass" PROVE Bypassing'
  BY DEF Bypassing
<1> USE DEF Bypassing
<1>1. /\ UNCHANGED <<seq, rseq, released, prep>> /\ buffer' = buffer \cup {t}
      /\ flusher = NoTask /\ flusher' = t /\ t # NoTask /\ bypassed' = 0
      /\ Flushing(t)
  BY NoTaskIsNoTask DEF BeginFlush, Flushing, handlerVars, prepareVars, predictVars
<1>2. \A u \in Task : /\ Clear(u)' = Clear(u)
                      /\ InTurn(u)' = InTurn(u)
                      /\ Flushing(u)' = Flushing(u)
  BY <1>1 DEF Clear, InTurn, Flushing
<1>3. buffer \subseteq Task /\ Unpredictable \subseteq Task /\ \A u \in Task : u # NoTask
  BY ProxyQueueAssumption DEF TypeOK, ProxyQueueAssumption
<1>4. TextClear'
  BY <1>1, <1>2, <1>3 DEF TextClear
<1>5. RaisedInTurn => RaisedInTurn'
  BY <1>1, <1>2, <1>3 DEF RaisedInTurn
<1>6. TurnIsTaken'
  <2>1. \A x \in buffer : InTurn(x) => RaisedInTurn
    BY <1>1, <1>3 DEF TurnIsTaken
  <2>2. \A x \in buffer' : x \in Task /\ (x = flusher' \/ x \in buffer)
    BY <1>1, <1>3
  <2>3. ASSUME NEW x \in buffer', InTurn(x)', x # flusher' PROVE RaisedInTurn'
    <3>1. x \in buffer /\ x \in Task
      BY <2>2, <2>3
    <3>2. InTurn(x)
      BY <1>2, <2>3, <3>1
    <3> QED
      BY <1>5, <2>1, <3>1, <3>2
  <2> QED
    BY <2>3 DEF TurnIsTaken
<1>7. NotAgain'
  BY <1>1, <1>2, <1>3 DEF NotAgain
<1> QED
  BY <1>1, <1>4, <1>6, <1>7 DEF Spent

(* Bypassing is inductive, where each task is released once. *)
LEMMA BypassingNext ==
  ASSUME NEW o, OneLost(o), [RaiseOf(o)]_vars, TypeOK, Numbers, Places, Bypassing, [Next]_vars
  PROVE  Bypassing'
<1> SUFFICES ASSUME Policy = "text_bypass" PROVE Bypassing'
  BY DEF Bypassing
<1> DEFINE Aside == UNCHANGED <<rseq, released, buffer, flusher, bypassed>>
           Same  == \A u \in Task : seq[u] # 0 => seq'[u] = seq[u]
<1>1. \A u \in Task : rseq[u] # 0 \/ u \in buffer => seq[u] # 0
  BY DEF Numbers, Arrived
<1>2. \A u \in Task : rseq[u] # 0 => Flushing(u) \/ prep[u] = "left"
  BY DEF Places, Marked
<1>3. ASSUME Aside, Same, \A u \in Task : Flushing(u) \/ prep[u] = "left" => prep'[u] = prep[u]
      PROVE  Bypassing'
  <2>1. \A u \in Task : rseq[u] # 0 /\ Flushing(u)' => Flushing(u)
    BY <1>2, <1>3 DEF Flushing
  <2> QED
    BY <1>1, <1>3, <2>1, BypassingKept
<1>4. ASSUME NEW t \in Task, TakeSeq(t)
      PROVE  Bypassing'
  <2>1. Aside /\ UNCHANGED prep
    BY <1>4 DEF TakeSeq, prepareVars, releaseVars, predictVars
  <2>2. seq[t] = 0
    BY <1>4 DEF TakeSeq, Numbers, Arrived
  <2>3. Same
    BY <1>4, <2>2 DEF TakeSeq, TypeOK
  <2> QED
    BY <1>3, <2>1, <2>3
<1>5. ASSUME NEW t \in Task, PutPrepare(t) \/ FinishPrepare(t)
      PROVE  Bypassing'
  <2>1. prep[t] \in {"none", "preparing"} /\ \A u \in Task \ {t} : prep'[u] = prep[u]
    BY <1>5 DEF PutPrepare, FinishPrepare, Places, Placed, TypeOK
  <2>2. Aside /\ Same
    BY <1>5 DEF PutPrepare, FinishPrepare, handlerVars, releaseVars, predictVars
  <2> QED
    BY <1>3, <2>1, <2>2 DEF Flushing
<1>6. ASSUME DispatchPrepare \/ StartPrepare
      PROVE  Bypassing'
  <2>1. \A u \in Task : prep[u] \notin {"queued", "waiting"} => prep'[u] = prep[u]
    <3>1. CASE DispatchPrepare
      <4>1. Head(prepareQ) \in Task /\ prep[Head(prepareQ)] = "queued"
        BY <3>1, HeadIsFirst DEF DispatchPrepare, TypeOK, Places, Placed
      <4> QED
        BY <3>1, <4>1 DEF DispatchPrepare, TypeOK
    <3>2. CASE StartPrepare
      <4>1. Head(semQ) \in Task /\ prep[Head(semQ)] = "waiting"
        BY <3>2, HeadIsFirst DEF StartPrepare, TypeOK, Places, Placed
      <4> QED
        BY <3>2, <4>1 DEF StartPrepare, TypeOK
    <3> QED
      BY <1>6, <3>1, <3>2
  <2>2. Aside /\ Same
    BY <1>6 DEF DispatchPrepare, StartPrepare, handlerVars, releaseVars, predictVars
  <2> QED
    BY <1>3, <2>1, <2>2 DEF Flushing
<1>7. ASSUME NEW t \in Task, ReleaseRaises(t)
      PROVE  Bypassing'
  <2>1. flusher # NoTask /\ flusher' = NoTask /\ t \in Releasable
    BY <1>7 DEF ReleaseRaises
  <2>2. t = o /\ ~Clear(t)
    BY <1>7, <2>1, ReleasedAnew DEF RaiseOf, vars, releaseVars
  <2>3. ~RaisedInTurn
    <3>1. ASSUME NEW u \in Unpredictable, seq[u] # 0, rseq[u] = 0, Clear(u) PROVE FALSE
      <4>3. u \in Task
        BY ProxyQueueAssumption DEF ProxyQueueAssumption
      <4>4. seq[u] \in Nat
        BY <4>3 DEF TypeOK
      <4>1. u \in Task /\ seq[u] \in 1 .. seq[u]
        BY <3>1, <4>3, <4>4
      <4>2. u = o
        BY <3>1, <4>1 DEF Clear, OneLost
      <4> QED
        BY <2>2, <3>1, <4>2
    <3> QED
      BY <3>1 DEF RaisedInTurn
  <2> QED
    BY <1>7, <2>3, BypassingRaise
<1>8. ASSUME UNCHANGED <<seq, rseq, released, buffer, flusher, bypassed, prep>>
      PROVE  Bypassing'
  BY <1>3, <1>8
<1>9. ASSUME NEW t \in Task, BeginFlush(t) \/ Release(t)
      PROVE  Bypassing'
  BY <1>9, BypassingBegin, BypassingRelease
<1>10. ASSUME EndFlush
       PROVE  Bypassing'
  BY <1>10, BypassingEnd
<1>11. ASSUME NEW w \in Worker, Chunk(w) \/ EndForward(w)
       PROVE  Bypassing'
  BY <1>8, <1>11 DEF Chunk, MarkFirstToken, EndForward, handlerVars, prepareVars, releaseVars, predictVars
<1>12. ASSUME NEW w \in Worker, Fetch(w) \/ Dispatch(w) \/ PutChunk(w) \/ PutEnd(w)
       PROVE  Bypassing'
  BY <1>8, <1>12 DEF Fetch, Dispatch, PutChunk, PutEnd, handlerVars, prepareVars, releaseVars, predictVars
<1>13. ASSUME PutReady \/ UNCHANGED vars
       PROVE  Bypassing'
  BY <1>8, <1>13 DEF PutReady, vars, handlerVars, prepareVars, releaseVars, predictVars
<1>14. ASSUME NEW t \in Task, Read(t) \/ Disconnect(t)
       PROVE  Bypassing'
  BY <1>8, <1>14 DEF Read, Disconnect, handlerVars, prepareVars, releaseVars, predictVars
<1> QED
  BY <1>4, <1>5, <1>6, <1>7, <1>9, <1>10, <1>11, <1>12, <1>13, <1>14
  DEF Next, HandlerNext, PrepareNext, FlushNext, WorkerNext

(* No flush has begun at first. *)
LEMMA BypassingInit == Init => Bypassing
BY DEF Init, Bypassing, TextClear, TurnIsTaken, NotAgain, Spent

(* The invariant of the release. *)
RInv == IInv /\ Places /\ Bypassing

(* The invariant of the release, where each task is released once. *)
THEOREM ReleaseInvariant ==
  ASSUME NEW o
  PROVE  Spec /\ OnlyOneRaises(o) => [](RInv /\ OneLost(o))
<1>1. Init => RInv /\ OneLost(o)
  BY IInvInit, PlacesInit, BypassingInit, OneLostInit DEF RInv
<1>2. IInv /\ [Next]_vars => IInv'
  BY TypeOKNext, HandsNext, ArrivedNext, QueuedNext, PrefixNext, ReleaseOrderNext DEF IInv, Numbers
<1>3. RInv /\ OneLost(o) /\ [Next]_vars /\ [RaiseOf(o)]_vars => RInv' /\ OneLost(o)'
  BY <1>2, PlacesNext, BypassingNext, OneLostNext DEF RInv, IInv
<1> QED
  BY <1>1, <1>3, PTL DEF Spec, OnlyOneRaises

(* A prepared text task is never left behind under "text_bypass" as long   *)
(* as the predictions of one task at most raise, whichever it is and       *)
(* however often: whatever flushes overlap with prepares and whatever a    *)
(* raise cuts short, a flush ends with every text task of the buffer       *)
(* passed by, and the limit PROXY_TEXT_BYPASS_MAX_PER_FLUSH stops none     *)
(* (_flush_prepared_to_ready).  Nothing in the code limits how many raise: *)
(* once the predictions of two tasks have, a text task can be left behind. *)
THEOREM TextNeverWaitsHolds ==
  ASSUME NEW o
  PROVE  Spec /\ OnlyOneRaises(o) => []TextNeverWaits
<1>1. RInv => TextNeverWaits
  <2>1. ASSUME IInv, Places, Policy = "text_bypass", TextClear, flusher = NoTask, NEW t \in buffer \cap Text
        PROVE  seq[t] \in released
    <3>1. t \in Task /\ seq[t] \in Nat \ {0} /\ t # NoTask
      BY <2>1, BufferedNumber, NoTaskIsNoTask DEF IInv, Places
    <3>2. Clear(t)
      BY <2>1, <3>1 DEF TextClear
    <3> QED
      BY <3>1, <3>2 DEF Clear
  <2> QED
    BY <2>1 DEF RInv, Bypassing, TextNeverWaits
<1> QED
  BY ReleaseInvariant, <1>1, PTL

-----------------------------------------------------------------------------
(* The ready stage.  Reservations are numbered apart, and whatever is or   *)
(* was in the ready stage has one.                                         *)
Reserved ==
  /\ \A t \in Task : rseq[t] < nextRseq
  /\ \A t, u \in Task : rseq[t] = rseq[u] /\ rseq[t] # 0 => t = u
  /\ \A t \in InReady \cup seen : rseq[t] # 0

(* No two workers hold one task. *)
OneEach == \A v, w \in Worker : wtask[v] = wtask[w] /\ wtask[v] # NoTask => v = w

(* The prediction state follows a task through the ready stage: pending up *)
(* to its first token, decoding up to the end of its forward.              *)
Predicted ==
  /\ pending \cup decoding \subseteq InReady
  /\ pending \cap seen = {} /\ decoding \subseteq seen
  /\ Range(readyQ) \subseteq pending
  /\ inHand # NoTask => inHand \in pending
  /\ \A w \in Worker :
       /\ wpc[w] = "gate" => wtask[w] \in pending
       /\ wpc[w] \in {"forward", "put"} => wtask[w] \in pending \cup decoding
       /\ wpc[w] = "end" => wtask[w] \notin pending \cup decoding

(* A task past the gate has the least reservation while it is pending.     *)
Foremost ==
  \A w \in Worker : Forwarding(w) /\ wtask[w] \in pending =>
    \A u \in pending : rseq[wtask[w]] <= rseq[u]

(* The invariant of the ready stage. *)
ReadyInv == Reserved /\ OneEach /\ Predicted /\ Foremost /\ ReservationOrder

(* Where a task of the ready stage can be. *)
LEMMA InReadyIs ==
  ASSUME NEW q \in Seq(Task), NEW h \in Task \cup {NoTask}, NEW f \in [Worker -> Task \cup {NoTask}]
  PROVE  /\ \A t : t \in (Range(q) \cup {h} \cup Range(f)) \ {NoTask} <=>
                t # NoTask /\ (t \in Range(q) \/ t = h \/ \E w \in Worker : f[w] = t)
         /\ Range(q) \subseteq Task /\ (Range(q) \cup {h} \cup Range(f)) \ {NoTask} \subseteq Task
         /\ DOMAIN q = 1 .. Len(q)
<1>1. DOMAIN f = Worker /\ \A w \in Worker : f[w] \in Task \cup {NoTask}
  OBVIOUS
<1>2. DOMAIN q = 1 .. Len(q) /\ \A i \in 1 .. Len(q) : q[i] \in Task
  BY LenProperties, ElementOfSeq
<1>3. Range(q) \subseteq Task
  BY <1>2 DEF Range
<1>4. \A t : t \in Range(f) <=> \E w \in Worker : f[w] = t
  BY <1>1 DEF Range
<1>5. Range(f) \subseteq Task \cup {NoTask}
  BY <1>1, <1>4
<1> QED
  BY <1>2, <1>3, <1>4, <1>5

(* The same of this state and of the next. *)
LEMMA InReadyNow ==
  ASSUME TypeOK
  PROVE  /\ \A u : u \in InReady <=>
               u # NoTask /\ (u \in Range(readyQ) \/ u = inHand \/ \E v \in Worker : wtask[v] = u)
         /\ Range(readyQ) \subseteq Task /\ InReady \subseteq Task
         /\ DOMAIN readyQ = 1 .. Len(readyQ)
<1>1. readyQ \in Seq(Task) /\ inHand \in Task \cup {NoTask} /\ wtask \in [Worker -> Task \cup {NoTask}]
  BY DEF TypeOK
<1> QED
  BY <1>1, InReadyIs DEF InReady

(* And of the next state. *)
LEMMA InReadyThen ==
  ASSUME TypeOK'
  PROVE  /\ \A u : u \in InReady' <=>
               u # NoTask /\ (u \in Range(readyQ') \/ u = inHand' \/ \E v \in Worker : wtask'[v] = u)
         /\ Range(readyQ') \subseteq Task /\ InReady' \subseteq Task
         /\ DOMAIN readyQ' = 1 .. Len(readyQ')
<1>1. readyQ' \in Seq(Task) /\ inHand' \in Task \cup {NoTask} /\ wtask' \in [Worker -> Task \cup {NoTask}]
  BY DEF TypeOK
<1> QED
  BY <1>1, InReadyIs DEF InReady

(* Releasing a task gives it the last reservation and puts it behind the   *)
(* others; it has none before.                                             *)
LEMMA ReadyRelease ==
  ASSUME TypeOK, TypeOK', Numbers, Places, Bypassing, ReadyInv, NEW t \in Task, Release(t)
  PROVE  ReadyInv'
<1> USE DEF ReadyInv
<1>1. rseq[t] = 0 /\ t # NoTask
  BY ReleasedAnew, NoTaskIsNoTask DEF Release
<1>2. /\ inHand = NoTask /\ inHand' = t /\ UNCHANGED <<readyQ, wpc, wtask, seen, decoding>>
      /\ nextRseq \in Nat \ {0} /\ nextRseq' = nextRseq + 1 /\ pending' = pending \cup {t}
      /\ rseq'[t] = nextRseq
      /\ \A u \in Task : u # t => rseq'[u] = rseq[u] /\ rseq[u] \in Nat
  BY DEF Release, Reserve, TypeOK, workerVars
<1>3. /\ \A u : u \in InReady <=>
             u # NoTask /\ (u \in Range(readyQ) \/ \E w \in Worker : wtask[w] = u)
      /\ \A u : u \in InReady' <=> u \in InReady \/ u = t
      /\ Range(readyQ) \subseteq Task /\ InReady \subseteq Task
      /\ DOMAIN readyQ = 1 .. Len(readyQ) /\ seen \subseteq Task
  <2>1. /\ \A u : u \in InReady <=>
               u # NoTask /\ (u \in Range(readyQ) \/ u = inHand \/ \E v \in Worker : wtask[v] = u)
        /\ Range(readyQ) \subseteq Task /\ InReady \subseteq Task
        /\ DOMAIN readyQ = 1 .. Len(readyQ)
    BY InReadyNow
  <2>2. /\ \A u : u \in InReady' <=>
               u # NoTask /\ (u \in Range(readyQ') \/ u = inHand' \/ \E v \in Worker : wtask'[v] = u)
         /\ Range(readyQ') \subseteq Task /\ InReady' \subseteq Task
         /\ DOMAIN readyQ' = 1 .. Len(readyQ')
    BY InReadyThen
  <2> QED
    BY <2>1, <2>2, <1>1, <1>2 DEF TypeOK
<1>4. t \notin InReady \cup seen
  BY <1>1 DEF Reserved
<1>5. Reserved'
  <2>1. \A u \in Task : rseq'[u] < nextRseq'
    BY <1>2 DEF Reserved
  <2>2. \A u, v \in Task : rseq'[u] = rseq'[v] /\ rseq'[u] # 0 => u = v
    BY <1>2 DEF Reserved
  <2>3. \A u \in InReady' \cup seen' : rseq'[u] # 0
    BY <1>2, <1>3 DEF Reserved
  <2> QED
    BY <2>1, <2>2, <2>3 DEF Reserved
<1>6. OneEach'
  BY <1>2 DEF OneEach
<1>7. Predicted'
  <2>1. \A w \in Worker : wpc[w] = "end" => wtask[w] # t
    BY <1>3, <1>4, <1>1
  <2> QED
    BY <1>2, <1>3, <1>4, <2>1 DEF Predicted
<1>8. Foremost'
  <2>1. ASSUME NEW w \in Worker, Forwarding(w), wtask[w] \in pending', NEW u \in pending'
        PROVE  rseq'[wtask[w]] <= rseq'[u]
    <3>1. wtask[w] # t /\ wtask[w] \in pending /\ wtask[w] \in Task
      BY <1>1, <1>2, <1>3, <1>4, <2>1 DEF TypeOK
    <3>2. CASE u = t
      BY <1>2, <3>1, <3>2 DEF Reserved
    <3>3. CASE u # t
      BY <1>2, <2>1, <3>1, <3>3 DEF Foremost, TypeOK
    <3> QED
      BY <3>2, <3>3
  <2> QED
    BY <1>2, <2>1 DEF Foremost, Forwarding
<1>9. ReservationOrder'
  <2>1. \A u \in Range(readyQ) : u # t /\ rseq'[u] = rseq[u] /\ rseq[u] < nextRseq
    BY <1>1, <1>2, <1>3, <1>4, NoTaskIsNoTask DEF Reserved
  <2>2. \A w \in Worker : wtask[w] # NoTask =>
          wtask[w] # t /\ rseq'[wtask[w]] = rseq[wtask[w]] /\ rseq[wtask[w]] < nextRseq
    BY <1>1, <1>2, <1>3, <1>4 DEF Reserved
  <2>3. \A i \in DOMAIN readyQ : readyQ[i] \in Range(readyQ)
    BY DEF Range
  <2>4. \A i, j \in DOMAIN readyQ' : i < j => rseq'[readyQ'[i]] < rseq'[readyQ'[j]]
    BY <1>2, <2>1, <2>3 DEF ReservationOrder
  <2>5. \A w \in Worker : wtask'[w] # NoTask =>
          \A u \in Range(readyQ') \cup ({inHand'} \ {NoTask}) : rseq'[wtask'[w]] < rseq'[u]
    BY <1>2, <2>1, <2>2 DEF ReservationOrder
  <2> QED
    BY <1>2, <2>1, <2>4, <2>5 DEF ReservationOrder
<1> QED
  BY <1>5, <1>6, <1>7, <1>8, <1>9

(* The released task goes to the end of ready_q. *)
LEMMA ReadyPut ==
  ASSUME TypeOK, TypeOK', ReadyInv, PutReady
  PROVE  ReadyInv'
<1> USE DEF ReadyInv
<1>1. /\ inHand # NoTask /\ inHand' = NoTask /\ readyQ' = Append(readyQ, inHand)
      /\ UNCHANGED <<wpc, wtask, predictVars>>
  BY DEF PutReady, workerVars
<1>2. inHand \in Task /\ readyQ \in Seq(Task)
  BY <1>1 DEF TypeOK
<1>3. Range(readyQ') = Range(readyQ) \cup {inHand}
  BY <1>1, <1>2, AppendRange
<1>4. /\ \A u : u \in InReady' <=> u \in InReady
      /\ DOMAIN readyQ = 1 .. Len(readyQ) /\ DOMAIN readyQ' = 1 .. Len(readyQ')
      /\ Range(readyQ) \subseteq Task
  <2>1. /\ \A u : u \in InReady <=>
               u # NoTask /\ (u \in Range(readyQ) \/ u = inHand \/ \E v \in Worker : wtask[v] = u)
        /\ Range(readyQ) \subseteq Task /\ InReady \subseteq Task
        /\ DOMAIN readyQ = 1 .. Len(readyQ)
    BY InReadyNow
  <2>2. /\ \A u : u \in InReady' <=>
               u # NoTask /\ (u \in Range(readyQ') \/ u = inHand' \/ \E v \in Worker : wtask'[v] = u)
         /\ Range(readyQ') \subseteq Task /\ InReady' \subseteq Task
         /\ DOMAIN readyQ' = 1 .. Len(readyQ')
    BY InReadyThen
  <2> QED
    BY <2>1, <2>2, <1>1, <1>3
<1>5. Reserved' /\ OneEach' /\ Foremost'
  BY <1>1, <1>4 DEF Reserved, OneEach, Foremost, Forwarding, predictVars
<1>6. Predicted'
  BY <1>1, <1>3, <1>4 DEF Predicted, predictVars
<1>7. ReservationOrder'
  <2>1. Len(readyQ) \in Nat /\ Len(readyQ') = Len(readyQ) + 1
        /\ readyQ'[Len(readyQ) + 1] = inHand
        /\ \A i \in 1 .. Len(readyQ) : readyQ'[i] = readyQ[i]
    BY <1>1, <1>2, AppendProperties, LenProperties
  <2>2. \A i \in 1 .. Len(readyQ) : readyQ[i] \in Range(readyQ)
    BY <1>4 DEF Range
  <2>3. ASSUME NEW i \in DOMAIN readyQ', NEW j \in DOMAIN readyQ', i < j
        PROVE  rseq[readyQ'[i]] < rseq[readyQ'[j]]
    <3>1. i \in 1 .. Len(readyQ) /\ (j \in 1 .. Len(readyQ) \/ j = Len(readyQ) + 1)
      BY <1>4, <2>1, <2>3
    <3> QED
      BY <1>1, <1>4, <2>1, <2>2, <2>3, <3>1 DEF ReservationOrder
  <2>4. UNCHANGED <<rseq, wtask, inHand>> \/ UNCHANGED <<rseq, wtask>>
    BY <1>1 DEF predictVars
  <2> QED
    BY <1>1, <1>3, <2>3, <2>4 DEF ReservationOrder
<1> QED
  BY <1>5, <1>6, <1>7

(* A worker takes the first of ready_q; what other workers hold was        *)
(* reserved before.                                                        *)
LEMMA ReadyFetch ==
  ASSUME TypeOK, TypeOK', Hands, ReadyInv, NEW w \in Worker, Fetch(w)
  PROVE  ReadyInv'
<1> USE DEF ReadyInv
<1> DEFINE h == Head(readyQ)
<1>1. /\ readyQ # <<>> /\ readyQ' = Tail(readyQ) /\ wtask[w] = NoTask
      /\ UNCHANGED <<inHand, predictVars>>
      /\ wtask'[w] = h /\ \A v \in Worker : v # w => wtask'[v] = wtask[v]
      /\ wpc'[w] = "gate" /\ \A v \in Worker : v # w => wpc'[v] = wpc[v]
  BY DEF Fetch, Hands, TypeOK, releaseVars
<1>2. readyQ \in Seq(Task) /\ h \in Task /\ h # NoTask /\ h = readyQ[1]
  <2>1. readyQ \in Seq(Task) /\ readyQ # <<>>
    BY <1>1 DEF TypeOK
  <2>2. h \in Task /\ h = readyQ[1]
    BY <2>1, HeadIsFirst
  <2> QED
    BY <2>1, <2>2, NoTaskIsNoTask
<1>3. Range(readyQ) = Range(readyQ') \cup {h}
  BY <1>1, <1>2, TailRange
<1>4. /\ \A u : u \in InReady <=>
             u # NoTask /\ (u \in Range(readyQ) \/ u = inHand \/ \E v \in Worker : wtask[v] = u)
      /\ Range(readyQ) \subseteq Task /\ InReady \subseteq Task
      /\ DOMAIN readyQ = 1 .. Len(readyQ)
  BY InReadyNow
<1>4a. /\ \A u : u \in InReady' <=>
             u # NoTask /\ (u \in Range(readyQ') \/ u = inHand' \/ \E v \in Worker : wtask'[v] = u)
       /\ Range(readyQ') \subseteq Task /\ InReady' \subseteq Task
       /\ DOMAIN readyQ' = 1 .. Len(readyQ')
  BY InReadyThen
<1>5. Len(readyQ) \in Nat /\ Len(readyQ') \in Nat /\ 1 \in 1 .. Len(readyQ)
      /\ \A i \in 1 .. Len(readyQ') : i + 1 \in 1 .. Len(readyQ) /\ readyQ'[i] = readyQ[i + 1]
  BY <1>1, <1>2, TailShifts, HeadIsFirst, LenProperties DEF TypeOK
<1> HIDE DEF h
<1>6. \A u : u \in InReady' <=> u \in InReady
  <2>1. ASSUME NEW u, \E v \in Worker : wtask[v] = u, u # NoTask PROVE \E v \in Worker : wtask'[v] = u
    BY <1>1, <2>1
  <2>2. ASSUME NEW u, \E v \in Worker : wtask'[v] = u PROVE u = h \/ \E v \in Worker : wtask[v] = u
    BY <1>1, <2>2
  <2>3. \E v \in Worker : wtask'[v] = h
    BY <1>1
  <2> QED
    BY <1>1, <1>2, <1>3, <1>4, <1>4a, <2>1, <2>2, <2>3
<1>7. Reserved'
  BY <1>1, <1>6 DEF Reserved, predictVars
<1>8. \A v \in Worker : wtask[v] # h
  <2>1. \A v \in Worker : wtask[v] # NoTask => rseq[wtask[v]] < rseq[h]
    BY <1>3 DEF ReservationOrder
  <2>2. rseq[h] \in Nat
    BY <1>2 DEF TypeOK
  <2> QED
    BY <1>2, <2>1, <2>2
<1>9. OneEach'
  BY <1>1, <1>8 DEF OneEach
<1>10. Predicted'
  BY <1>1, <1>3, <1>6 DEF Predicted, predictVars
<1>11. Foremost'
  BY <1>1 DEF Foremost, Forwarding, predictVars
<1>12. ReservationOrder'
  <2>1. \A i, j \in DOMAIN readyQ' : i < j => rseq[readyQ'[i]] < rseq[readyQ'[j]]
    <3>1. ASSUME NEW i \in DOMAIN readyQ', NEW j \in DOMAIN readyQ', i < j
          PROVE  rseq[readyQ'[i]] < rseq[readyQ'[j]]
      <4>1. i + 1 \in DOMAIN readyQ /\ j + 1 \in DOMAIN readyQ /\ i + 1 < j + 1
            /\ readyQ'[i] = readyQ[i + 1] /\ readyQ'[j] = readyQ[j + 1]
        BY <1>4, <1>4a, <1>5, <3>1
      <4> QED
        BY <4>1 DEF ReservationOrder
    <3> QED
      BY <3>1
  <2>2. \A u \in Range(readyQ') : rseq[h] < rseq[u]
    <3>1. ASSUME NEW i \in 1 .. Len(readyQ') PROVE rseq[h] < rseq[readyQ'[i]]
      <4>1. 1 \in DOMAIN readyQ /\ i + 1 \in DOMAIN readyQ /\ 1 < i + 1 /\ readyQ'[i] = readyQ[i + 1]
        BY <1>4, <1>4a, <1>5
      <4> QED
        BY <1>2, <4>1 DEF ReservationOrder
    <3> QED
      BY <1>4a, <3>1 DEF Range
  <2>3. inHand # NoTask => rseq[h] < rseq[inHand] /\ \A u \in Range(readyQ') : rseq[u] < rseq[inHand]
    BY <1>3 DEF ReservationOrder
  <2>4. ASSUME NEW v \in Worker, wtask'[v] # NoTask, NEW u \in Range(readyQ') \cup ({inHand} \ {NoTask})
        PROVE  rseq[wtask'[v]] < rseq[u]
    <3>1. CASE v = w
      BY <1>1, <2>2, <2>3, <2>4, <3>1
    <3>2. CASE v # w
      BY <1>1, <1>3, <2>4, <3>2 DEF ReservationOrder
    <3> QED
      BY <3>1, <3>2
  <2> QED
    BY <1>1, <2>1, <2>3, <2>4 DEF ReservationOrder, predictVars
<1> QED
  BY <1>7, <1>9, <1>10, <1>11, <1>12

(* Past the gate goes the task with the least reservation. *)
LEMMA ReadyDispatch ==
  ASSUME TypeOK, ReadyInv, NEW w \in Worker, Dispatch(w)
  PROVE  ReadyInv'
<1> USE DEF ReadyInv
<1>1. /\ UNCHANGED <<readyQ, inHand, predictVars, wtask>>
      /\ wpc[w] = "gate" /\ wpc'[w] = "forward" /\ \A v \in Worker : v # w => wpc'[v] = wpc[v]
  BY DEF Dispatch, TypeOK, releaseVars
<1>2. InReady' = InReady
  BY <1>1 DEF InReady
<1>3. Reserved' /\ OneEach' /\ ReservationOrder'
  BY <1>1, <1>2 DEF Reserved, OneEach, ReservationOrder, predictVars
<1>4. Predicted'
  BY <1>1, <1>2 DEF Predicted, predictVars
<1>5. Foremost'
  <2>1. Unseen = pending /\ wtask[w] \in pending
    BY <1>1 DEF Predicted, Unseen
  <2>2. \A u \in pending : rseq[wtask[w]] <= rseq[u]
    BY <2>1 DEF Dispatch, MayDispatch
  <2> QED
    BY <1>1, <2>2 DEF Foremost, Forwarding, predictVars
<1> QED
  BY <1>3, <1>4, <1>5

(* The end of the prefill moves the task from pending to decoding, and a   *)
(* later chunk leaves the prediction state as it is.                       *)
LEMMA ReadyChunk ==
  ASSUME TypeOK, Hands, ReadyInv, NEW w \in Worker, Chunk(w)
  PROVE  ReadyInv'
<1> USE DEF ReadyInv
<1> DEFINE t == wtask[w]
<1>1. /\ UNCHANGED <<readyQ, inHand, wtask>>
      /\ wpc[w] = "forward" /\ wpc'[w] = "put" /\ \A v \in Worker : v # w => wpc'[v] = wpc[v]
  BY DEF Chunk, TypeOK, releaseVars
<1>2. t \in Task /\ t # NoTask /\ t \in pending \cup decoding
  BY <1>1, NoTaskIsNoTask DEF Hands, TypeOK, Predicted
<1>3. InReady' = InReady /\ t \in InReady
  BY <1>1, <1>2, InReadyNow DEF InReady
<1>4. \A v \in Worker : Forwarding(v)' <=> Forwarding(v)
  BY <1>1 DEF Forwarding
<1>5. \A v \in Worker : v # w => wtask[v] # t
  BY <1>2 DEF OneEach
<1>6. t \notin Range(readyQ) /\ t # inHand
  <2>1. \A u \in Range(readyQ) \cup ({inHand} \ {NoTask}) : rseq[t] < rseq[u]
    BY <1>2 DEF ReservationOrder
  <2>2. rseq[t] \in Nat
    BY <1>2 DEF TypeOK
  <2> QED
    BY <1>2, <2>1, <2>2
<1>7. CASE UNCHANGED predictVars
  <2>1. Reserved' /\ OneEach' /\ ReservationOrder' /\ Foremost'
    BY <1>1, <1>3, <1>4, <1>7 DEF Reserved, OneEach, ReservationOrder, Foremost, predictVars
  <2>2. Predicted'
    BY <1>1, <1>3, <1>7 DEF Predicted, predictVars
  <2> QED
    BY <2>1, <2>2
<1>8. CASE ~(UNCHANGED predictVars)
  <2> HIDE DEF t
  <2>1. /\ seen' = seen \cup {t} /\ decoding' = decoding \cup {t}
        /\ pending' = (pending \ {t}) \ seen' /\ UNCHANGED <<rseq, nextRseq>>
    BY <1>8 DEF Chunk, MarkFirstToken, t
  <2>2. pending' = pending \ {t}
    BY <2>1 DEF Predicted
  <2>3. rseq[t] # 0
    BY <1>3 DEF Reserved
  <2>4. Reserved' /\ OneEach' /\ ReservationOrder'
    BY <1>1, <1>3, <2>1, <2>3 DEF Reserved, OneEach, ReservationOrder
  <2>5. Foremost'
    BY <1>1, <1>4, <2>1, <2>2 DEF Foremost
  <2>6. Predicted'
    BY <1>1, <1>3, <1>5, <1>6, <2>1, <2>2 DEF Predicted, t
  <2> QED
    BY <2>4, <2>5, <2>6
<1> QED
  BY <1>7, <1>8

(* The end of a forward forgets its task, and no other one.                *)
LEMMA ReadyEndForward ==
  ASSUME TypeOK, Hands, ReadyInv, NEW w \in Worker, EndForward(w)
  PROVE  ReadyInv'
<1> USE DEF ReadyInv
<1> DEFINE t == wtask[w]
<1>1. /\ UNCHANGED <<readyQ, inHand, wtask, rseq, nextRseq, seen>> /\ decoding' = decoding \ {t}
      /\ wpc[w] = "forward" /\ wpc'[w] = "end" /\ \A v \in Worker : v # w => wpc'[v] = wpc[v]
  BY DEF EndForward, TypeOK, releaseVars
<1>2. t \in Task /\ t # NoTask
  BY <1>1, NoTaskIsNoTask DEF Hands, TypeOK
<1>3. InReady' = InReady
  BY <1>1 DEF InReady
<1>4. \A v \in Worker : Forwarding(v)' <=> Forwarding(v)
  BY <1>1 DEF Forwarding
<1>5. \A v \in Worker : v # w => wtask[v] # t
  BY <1>2 DEF OneEach
<1>6. t \notin Range(readyQ) /\ t # inHand
  <2>1. \A u \in Range(readyQ) \cup ({inHand} \ {NoTask}) : rseq[t] < rseq[u]
    BY <1>2 DEF ReservationOrder
  <2>2. rseq[t] \in Nat
    BY <1>2 DEF TypeOK
  <2> QED
    BY <1>2, <2>1, <2>2
<1>7. pending' = pending \ {t}
  BY DEF EndForward, Predicted
<1> HIDE DEF t
<1>8. Reserved' /\ OneEach' /\ ReservationOrder'
  BY <1>1, <1>3 DEF Reserved, OneEach, ReservationOrder
<1>9. Foremost'
  BY <1>1, <1>4, <1>7 DEF Foremost
<1>10. Predicted'
  BY <1>1, <1>3, <1>5, <1>6, <1>7 DEF Predicted, t
<1> QED
  BY <1>8, <1>9, <1>10

(* With its terminator a task leaves the ready stage.                      *)
LEMMA ReadyPutEnd ==
  ASSUME TypeOK, TypeOK', Hands, ReadyInv, NEW w \in Worker, PutEnd(w)
  PROVE  ReadyInv'
<1> USE DEF ReadyInv
<1> DEFINE t == wtask[w]
<1>1. /\ UNCHANGED <<readyQ, inHand, predictVars>> /\ wtask'[w] = NoTask
      /\ \A v \in Worker : v # w => wtask'[v] = wtask[v] /\ wpc'[v] = wpc[v]
      /\ wpc[w] = "end" /\ wpc'[w] = "idle"
  BY DEF PutEnd, TypeOK, releaseVars
<1>2. \A u : u \in InReady' => u \in InReady
  BY <1>1, InReadyNow, InReadyThen
<1>3. \A u : u \in InReady /\ u # t => u \in InReady'
  <2>1. ASSUME NEW u, u # t, \E v \in Worker : wtask[v] = u PROVE \E v \in Worker : wtask'[v] = u
    BY <1>1, <2>1
  <2> QED
    BY <1>1, <2>1, InReadyNow, InReadyThen
<1>4. t \notin pending \cup decoding
  BY <1>1 DEF Predicted
<1> HIDE DEF t
<1>5. Reserved'
  BY <1>1, <1>2 DEF Reserved, predictVars
<1>6. OneEach' /\ Foremost'
  BY <1>1 DEF OneEach, Foremost, Forwarding, predictVars
<1>7. Predicted'
  BY <1>1, <1>3, <1>4 DEF Predicted, predictVars
<1>8. ReservationOrder'
  BY <1>1 DEF ReservationOrder, predictVars
<1> QED
  BY <1>5, <1>6, <1>7, <1>8

(* ReadyInv is inductive: one lemma for each step of the ready stage. *)
LEMMA ReadyNext ==
  ASSUME TypeOK, TypeOK', Hands, Numbers, Places, Bypassing, ReadyInv, [Next]_vars
  PROVE  ReadyInv'
<1>1. ASSUME NEW t \in Task, Release(t) PROVE ReadyInv'
  BY <1>1, ReadyRelease
<1>2. ASSUME PutReady PROVE ReadyInv'
  BY <1>2, ReadyPut
<1>3. ASSUME NEW w \in Worker, Fetch(w) \/ Dispatch(w) \/ Chunk(w) \/ EndForward(w) \/ PutEnd(w) PROVE ReadyInv'
  BY <1>3, ReadyFetch, ReadyDispatch, ReadyChunk, ReadyEndForward, ReadyPutEnd
<1>4. ASSUME NEW w \in Worker, PutChunk(w) PROVE ReadyInv'
  <2>1. /\ UNCHANGED <<readyQ, inHand, predictVars, wtask>>
        /\ wpc[w] = "put" /\ wpc'[w] = "forward" /\ \A v \in Worker : v # w => wpc'[v] = wpc[v]
    BY <1>4 DEF PutChunk, TypeOK, releaseVars
  <2>2. InReady' = InReady
    BY <2>1 DEF InReady
  <2>3. Reserved' /\ OneEach' /\ ReservationOrder' /\ Foremost'
    BY <2>1, <2>2 DEF ReadyInv, Reserved, OneEach, ReservationOrder, Foremost, Forwarding, predictVars
  <2>4. Predicted'
    BY <2>1, <2>2 DEF ReadyInv, Predicted, predictVars
  <2> QED
    BY <2>3, <2>4 DEF ReadyInv
<1>5. ASSUME UNCHANGED <<readyQ, inHand, predictVars, wtask, wpc>> PROVE ReadyInv'
  <2>1. InReady' = InReady
    BY <1>5 DEF InReady
  <2> QED
    BY <1>5, <2>1 DEF ReadyInv, Reserved, OneEach, ReservationOrder, Foremost, Forwarding, Predicted, predictVars
<1>6. ASSUME HandlerNext \/ PrepareNext PROVE ReadyInv'
  BY <1>5, <1>6
  DEF HandlerNext, TakeSeq, PutPrepare, Read, Disconnect,
      PrepareNext, DispatchPrepare, StartPrepare, FinishPrepare, workerVars, releaseVars
<1>7. ASSUME EndFlush \/ UNCHANGED vars \/ \E t \in Task : BeginFlush(t) \/ ReleaseRaises(t) PROVE ReadyInv'
  BY <1>5, <1>7 DEF BeginFlush, ReleaseRaises, EndFlush, vars, workerVars, releaseVars
<1> QED
  BY <1>1, <1>2, <1>3, <1>4, <1>6, <1>7 DEF Next, FlushNext, WorkerNext

(* The ready stage is empty at first. *)
LEMMA ReadyInit == Init => ReadyInv
<1> SUFFICES ASSUME Init PROVE ReadyInv
  OBVIOUS
<1>1. Range(readyQ) = {}
  BY DEF Init, Range
<1>2. Range(wtask) \subseteq {NoTask}
  BY DEF Init, Range
<1>3. InReady = {}
  BY <1>1, <1>2 DEF Init, InReady
<1> QED
  BY <1>1, <1>3 DEF Init, ReadyInv, Reserved, OneEach, Predicted, Foremost, ReservationOrder, Forwarding

(* What the invariant says of the ready stage's content.                   *)
LEMMA ReadyExact == ASSUME TypeOK, Hands, ReadyInv PROVE ReadyStageExact
<1> USE DEF ReadyInv
<1>1. \A t \in InReady : rseq[t] \in Nat
  BY InReadyNow DEF TypeOK
<1>2. \A t \in Range(readyQ) : t \in InReady
  BY InReadyNow, NoTaskIsNoTask
<1>3. \A i \in DOMAIN readyQ : readyQ[i] \in Range(readyQ)
  BY DEF Range
<1>4. DOMAIN readyQ \subseteq Nat
  BY InReadyNow
<1>5. ReleasedOnce
  <2>1. \A i, j \in DOMAIN readyQ : readyQ[i] = readyQ[j] => i = j
    <3>1. \A i, j \in DOMAIN readyQ : i < j => readyQ[i] # readyQ[j]
      BY <1>1, <1>2, <1>3 DEF ReservationOrder
    <3>2. \A i, j \in DOMAIN readyQ : i < j \/ j < i \/ i = j
      BY <1>4
    <3> QED
      BY <3>1, <3>2
  <2>2. \A t \in Range(readyQ) : Holders(t) = {} /\ inHand # t
    <3>1. \A w \in Worker, t \in Range(readyQ) : wtask[w] # NoTask => wtask[w] # t
      BY <1>1, <1>2 DEF ReservationOrder
    <3>2. \A t \in Range(readyQ) : t # NoTask
      BY InReadyNow, NoTaskIsNoTask
    <3>3. \A t \in Range(readyQ) : inHand # t
      BY <1>1, <1>2, <3>2 DEF ReservationOrder
    <3> QED
      BY <3>1, <3>2, <3>3 DEF Holders
  <2>3. inHand # NoTask => Holders(inHand) = {}
    <3>1. inHand # NoTask => rseq[inHand] \in Nat /\ \A w \in Worker : wtask[w] # NoTask => rseq[wtask[w]] < rseq[inHand]
      BY DEF ReservationOrder, TypeOK
    <3> QED
      BY <3>1 DEF Holders
  <2> QED
    BY <2>1, <2>2, <2>3 DEF ReleasedOnce, OneEach
<1>6. PredictionMatchesReady
  <2>1. pending \cap decoding = {}
    BY DEF Predicted
  <2>2. ASSUME NEW t \in InReady PROVE t \in pending \cup decoding \cup {wtask[w] : w \in {x \in Worker : wpc[x] = "end"}}
    <3>1. CASE t \in Range(readyQ) \/ t = inHand
      BY <3>1, <2>2, InReadyNow DEF Predicted
    <3>2. CASE \E w \in Worker : wtask[w] = t
      <4>1. PICK w \in Worker : wtask[w] = t
        BY <3>2
      <4>2. wpc[w] \in {"gate", "forward", "put", "end"}
        BY <2>2, <4>1, InReadyNow DEF Hands, TypeOK, WorkerState
      <4> QED
        BY <4>1, <4>2 DEF Predicted
    <3> QED
      BY <2>2, <3>1, <3>2, InReadyNow
  <2> QED
    BY <2>1, <2>2 DEF PredictionMatchesReady, Predicted
<1> QED
  BY <1>5, <1>6 DEF ReadyStageExact

(* And of the gate: the least pending reservation is in a worker's hands,  *)
(* because ready_q and the flush's hand come after the workers.            *)
LEMMA ReadyOrdered == ASSUME TypeOK, Hands, ReadyInv PROVE DispatchInOrder
<1> USE DEF ReadyInv
<1>1. Unseen = pending
  BY DEF Predicted, Unseen
<1>2. SinglePrefill
  <2>1. ASSUME NEW v \in Worker, NEW w \in Worker, Forwarding(v), Forwarding(w), wtask[v] \in pending, wtask[w] \in pending
        PROVE  v = w
    <3>1. rseq[wtask[v]] <= rseq[wtask[w]] /\ rseq[wtask[w]] <= rseq[wtask[v]]
      BY <2>1 DEF Foremost
    <3>2. wtask[v] \in Task /\ wtask[w] \in Task /\ wtask[v] # NoTask
      BY <2>1, NoTaskIsNoTask DEF TypeOK
    <3>3. rseq[wtask[v]] = rseq[wtask[w]] /\ rseq[wtask[v]] # 0
      BY <2>1, <3>1, <3>2 DEF TypeOK, Reserved, Predicted
    <3> QED
      BY <3>2, <3>3 DEF Reserved, OneEach
  <2> QED
    BY <1>1, <2>1 DEF SinglePrefill
<1>3. GateIsLive
  <2>1. SUFFICES ASSUME NEW v \in Worker, wpc[v] = "gate"
                 PROVE  \E w \in Worker : wtask[w] # NoTask /\ MayDispatch(wtask[w])
    BY DEF GateIsLive
  <2> DEFINE S == {rseq[u] : u \in pending}
  <2>2. wtask[v] \in pending /\ pending \subseteq Task
    BY <2>1 DEF Predicted, TypeOK
  <2>3. S \in SUBSET Nat /\ S # {}
    BY SMTT(30), <2>2 DEF TypeOK
  <2>4. Min(S) \in S /\ \A s \in S : Min(S) <= s
    BY <2>3, MinIsLeast
  <2>5. PICK m \in pending : rseq[m] = Min(S)
    BY <2>4
  <2>6. \A u \in pending : rseq[m] <= rseq[u]
    BY <2>4, <2>5
  <2>7. MayDispatch(m) /\ m # NoTask
    BY <1>1, <2>2, <2>6, NoTaskIsNoTask DEF MayDispatch
  <2>8. \E w \in Worker : wtask[w] = m
    <3>1. wtask[v] # NoTask /\ rseq[m] <= rseq[wtask[v]] /\ rseq[m] \in Nat /\ rseq[wtask[v]] \in Nat
      BY <2>2, <2>6, NoTaskIsNoTask DEF TypeOK
    <3>2. m \notin Range(readyQ) \cup ({inHand} \ {NoTask})
      BY <3>1 DEF ReservationOrder
    <3>3. m \in InReady
      BY DEF Predicted
    <3> QED
      BY <2>7, <3>2, <3>3, InReadyNow
  <2> QED
    BY <2>7, <2>8
<1> QED
  BY <1>2, <1>3 DEF DispatchInOrder

-----------------------------------------------------------------------------
(* Nothing is answered for a task that was not released. *)
Untouched == \A t \in Task : rseq[t] = 0 => resp[t] = <<>> /\ handler[t] # "done"

(* The last answer in the queue is the terminator. *)
Terminated(t) == resp[t] # <<>> /\ resp[t][Len(resp[t])] = "end"

(* The answers of one task: a terminator is the last of them, a task in    *)
(* the ready stage has none yet, and after it was read there are none.     *)
Answering(t) ==
  /\ \A i \in DOMAIN resp[t] : resp[t][i] = "end" => i = Len(resp[t])
  /\ t \in InReady => handler[t] # "done" /\ ~Terminated(t)
  /\ handler[t] = "done" => resp[t] = <<>>

(* The invariant of the response queues. *)
Terminators == Untouched /\ \A t \in Task : Answering(t)

(* A queue that does not end with "end" has none, and takes one more.      *)
LEMMA AppendAnswer ==
  ASSUME NEW q \in Seq({"chunk", "end"}), NEW a \in {"chunk", "end"},
         \A i \in DOMAIN q : q[i] = "end" => i = Len(q),
         ~ (q # <<>> /\ q[Len(q)] = "end")
  PROVE  /\ \A i \in DOMAIN Append(q, a) : Append(q, a)[i] = "end" => i = Len(Append(q, a))
         /\ Append(q, a) # <<>> /\ Append(q, a)[Len(Append(q, a))] = a
<1>1. Len(q) \in Nat /\ DOMAIN q = 1 .. Len(q)
  BY LenProperties
<1>2. /\ DOMAIN Append(q, a) = 1 .. (Len(q) + 1) /\ Len(Append(q, a)) = Len(q) + 1
      /\ Append(q, a)[Len(q) + 1] = a /\ \A i \in 1 .. Len(q) : Append(q, a)[i] = q[i]
      /\ Append(q, a) # <<>>
  BY AppendProperties, LenProperties
<1>3. \A i \in 1 .. Len(q) : q[i] # "end"
  <2>1. ASSUME NEW i \in 1 .. Len(q), q[i] = "end" PROVE FALSE
    <3>1. i \in DOMAIN q /\ q # <<>>
      BY <1>1, <2>1
    <3>2. i = Len(q)
      BY <2>1, <3>1
    <3> QED
      BY <2>1, <3>1, <3>2
  <2> QED
    BY <2>1
<1>4. \A i \in 1 .. (Len(q) + 1) : i \in 1 .. Len(q) \/ i = Len(q) + 1
  BY <1>1
<1> QED
  BY <1>2, <1>3, <1>4

(* Reading the first answer leaves the terminator, if any, at the end; it  *)
(* is the only answer when it is the first.                                *)
LEMMA TailAnswer ==
  ASSUME NEW q \in Seq({"chunk", "end"}), q # <<>>,
         \A i \in DOMAIN q : q[i] = "end" => i = Len(q)
  PROVE  /\ \A i \in DOMAIN Tail(q) : Tail(q)[i] = "end" => i = Len(Tail(q))
         /\ Head(q) = "end" => Tail(q) = <<>> /\ q[Len(q)] = "end"
         /\ Tail(q) # <<>> => Tail(q)[Len(Tail(q))] = q[Len(q)]
<1>1. Len(q) \in Nat \ {0} /\ DOMAIN q = 1 .. Len(q)
  BY LenProperties, EmptySeq
<1>2. /\ Tail(q) \in Seq({"chunk", "end"}) /\ Head(q) = q[1]
      /\ DOMAIN Tail(q) = 1 .. (Len(q) - 1) /\ Len(Tail(q)) = Len(q) - 1
      /\ \A i \in 1 .. (Len(q) - 1) : Tail(q)[i] = q[i + 1]
  BY HeadTailProperties, LenProperties
<1>3. \A i \in 1 .. (Len(q) - 1) : i + 1 \in 1 .. Len(q)
  BY <1>1
<1>4. \A i \in DOMAIN Tail(q) : Tail(q)[i] = "end" => i = Len(Tail(q))
  BY <1>1, <1>2, <1>3
<1>5. Head(q) = "end" => Tail(q) = <<>> /\ q[Len(q)] = "end"
  <2>1. ASSUME q[1] = "end" PROVE Len(q) = 1
    BY <1>1, <2>1
  <2> QED
    BY <1>2, <2>1, EmptySeq
<1>6. Tail(q) # <<>> => Tail(q)[Len(Tail(q))] = q[Len(q)]
  <2>1. Tail(q) # <<>> => Len(q) - 1 \in 1 .. (Len(q) - 1) /\ (Len(q) - 1) + 1 = Len(q)
    BY <1>1, <1>2, EmptySeq
  <2> QED
    BY <1>2, <2>1
<1> QED
  BY <1>4, <1>5, <1>6

(* A worker appends to the answers of its own task, which had no           *)
(* terminator; with the terminator it lets go of the task.                 *)
LEMMA TerminatorsPut ==
  ASSUME TypeOK, TypeOK', Hands, ReadyInv, Terminators, NEW w \in Worker, PutChunk(w) \/ PutEnd(w)
  PROVE  Terminators'
<1>0. PICK t \in Task : t = wtask[w]
  BY DEF PutChunk, PutEnd, Hands, TypeOK
<1>1. t \in Task /\ t # NoTask /\ UNCHANGED <<handler, rseq, readyQ, inHand>>
  BY <1>0, NoTaskIsNoTask DEF PutChunk, PutEnd, Hands, TypeOK, handlerVars, predictVars, releaseVars
<1>2. t \in InReady /\ rseq[t] # 0
  BY <1>0, <1>1, InReadyNow DEF ReadyInv, Reserved
<1>3. /\ \A i \in DOMAIN resp[t] : resp[t][i] = "end" => i = Len(resp[t])
      /\ handler[t] # "done" /\ ~Terminated(t)
  BY <1>1, <1>2 DEF Terminators, Answering
<1>4. /\ \A u \in Task : u # t => resp'[u] = resp[u]
      /\ resp[t] \in Seq({"chunk", "end"})
  BY <1>0, <1>1 DEF PutChunk, PutEnd, TypeOK
<1>5. \A u \in InReady' : u \in InReady
  <2>1. \A v \in Worker : wtask'[v] = wtask[v] \/ wtask'[v] = NoTask
    BY DEF PutChunk, PutEnd, TypeOK
  <2> QED
    BY <1>1, <2>1, InReadyNow, InReadyThen
<1>6. Untouched'
  BY <1>1, <1>2, <1>4 DEF Terminators, Untouched
<1>7. ASSUME NEW u \in Task, u # t PROVE Answering(u)'
  BY <1>1, <1>4, <1>5, <1>7 DEF Terminators, Answering, Terminated
<1>8. CASE PutChunk(w)
  <2>1. resp'[t] = Append(resp[t], "chunk")
    BY <1>0, <1>1, <1>8 DEF PutChunk, TypeOK
  <2>2. /\ \A i \in DOMAIN Append(resp[t], "chunk") : Append(resp[t], "chunk")[i] = "end" => i = Len(Append(resp[t], "chunk"))
        /\ Append(resp[t], "chunk") # <<>> /\ Append(resp[t], "chunk")[Len(Append(resp[t], "chunk"))] = "chunk"
    BY <1>3, <1>4, AppendAnswer DEF Terminated
  <2>3. Answering(t)'
    BY <1>1, <1>3, <2>1, <2>2 DEF Answering, Terminated
  <2> QED
    BY <1>6, <1>7, <2>3 DEF Terminators
<1>9. CASE PutEnd(w)
  <2>1. resp'[t] = Append(resp[t], "end")
    BY <1>0, <1>1, <1>9 DEF PutEnd, TypeOK
  <2>2. t \notin InReady'
    <3>1. \A v \in Worker : wtask'[v] # t
      BY <1>0, <1>1, <1>9 DEF PutEnd, TypeOK, ReadyInv, OneEach
    <3>2. \A u \in Range(readyQ) \cup ({inHand} \ {NoTask}) : rseq[t] < rseq[u]
      BY <1>0, <1>1 DEF ReadyInv, ReservationOrder
    <3>3. rseq[t] \in Nat
      BY <1>1 DEF TypeOK
    <3> QED
      BY <1>1, <3>1, <3>2, <3>3, InReadyThen
  <2>3. /\ \A i \in DOMAIN Append(resp[t], "end") : Append(resp[t], "end")[i] = "end" => i = Len(Append(resp[t], "end"))
        /\ Append(resp[t], "end") # <<>> /\ Append(resp[t], "end")[Len(Append(resp[t], "end"))] = "end"
    BY <1>3, <1>4, AppendAnswer DEF Terminated
  <2>4. Answering(t)'
    BY <1>1, <1>3, <2>1, <2>2, <2>3 DEF Answering, Terminated
  <2> QED
    BY <1>6, <1>7, <2>4 DEF Terminators
<1> QED
  BY <1>8, <1>9

(* A handler that takes the terminator has taken the last answer. *)
LEMMA TerminatorsRead ==
  ASSUME TypeOK, Terminators, NEW t \in Task, Read(t)
  PROVE  Terminators'
<1>1. /\ resp[t] # <<>> /\ resp[t] \in Seq({"chunk", "end"}) /\ resp'[t] = Tail(resp[t])
      /\ handler[t] = "reading" /\ handler'[t] = IF Head(resp[t]) = "end" THEN "done" ELSE "reading"
      /\ \A u \in Task : u # t => resp'[u] = resp[u] /\ handler'[u] = handler[u]
      /\ UNCHANGED rseq
  BY DEF Read, TypeOK, predictVars
<1>2. InReady' = InReady
  BY DEF Read, InReady, releaseVars, workerVars
<1>3. Untouched'
  BY <1>1 DEF Terminators, Untouched
<1>4. ASSUME NEW u \in Task, u # t PROVE Answering(u)'
  BY <1>1, <1>2, <1>4 DEF Terminators, Answering, Terminated
<1>5. /\ \A i \in DOMAIN resp[t] : resp[t][i] = "end" => i = Len(resp[t])
      /\ t \in InReady => resp[t][Len(resp[t])] # "end"
  BY <1>1 DEF Terminators, Answering, Terminated
<1>6. /\ \A i \in DOMAIN resp'[t] : resp'[t][i] = "end" => i = Len(resp'[t])
      /\ Head(resp[t]) = "end" => resp'[t] = <<>> /\ resp[t][Len(resp[t])] = "end"
      /\ resp'[t] # <<>> => resp'[t][Len(resp'[t])] = resp[t][Len(resp[t])]
  BY <1>1, <1>5, TailAnswer
<1>7. Answering(t)'
  BY <1>1, <1>2, <1>5, <1>6 DEF Answering, Terminated
<1> QED
  BY <1>3, <1>4, <1>7 DEF Terminators

(* Terminators is inductive; a task that is released has not been          *)
(* answered.                                                               *)
LEMMA TerminatorsNext ==
  ASSUME TypeOK, TypeOK', Hands, Numbers, Places, Bypassing, ReadyInv, Terminators, [Next]_vars
  PROVE  Terminators'
<1>1. ASSUME NEW t \in Task, Release(t) PROVE Terminators'
  <2>1. rseq[t] = 0
    BY <1>1, ReleasedAnew DEF Release
  <2>2. /\ inHand = NoTask /\ inHand' = t /\ UNCHANGED <<readyQ, wtask, handler, resp>>
        /\ \A u \in Task : u # t => rseq'[u] = rseq[u]
        /\ rseq'[t] # 0
    BY <1>1 DEF Release, Reserve, TypeOK, workerVars, handlerVars
  <2>3. \A u \in InReady' : u \in InReady \/ u = t
    BY <2>2, InReadyNow, InReadyThen
  <2>4. resp[t] = <<>> /\ handler[t] # "done"
    BY <2>1 DEF Terminators, Untouched
  <2>5. Untouched'
    BY <2>2 DEF Terminators, Untouched
  <2> QED
    BY <2>2, <2>3, <2>4, <2>5 DEF Terminators, Answering, Terminated
<1>2. ASSUME UNCHANGED <<rseq, resp>>,
             \A u \in InReady' : u \in InReady,
             \A u \in Task : handler'[u] = "done" => handler[u] = "done"
      PROVE  Terminators'
  BY <1>2 DEF Terminators, Untouched, Answering, Terminated
<1>3. ASSUME UNCHANGED <<rseq, resp, InReady, handler>>
      PROVE  Terminators'
  BY <1>2, <1>3
<1>4. ASSUME NEW t \in Task, TakeSeq(t) \/ PutPrepare(t) \/ Disconnect(t) PROVE Terminators'
  <2>1. UNCHANGED <<rseq, resp, readyQ, inHand, wtask>>
    BY <1>4 DEF TakeSeq, PutPrepare, Disconnect, predictVars, releaseVars, workerVars
  <2>2. \A u \in Task : handler'[u] = "done" => handler[u] = "done"
    BY <1>4 DEF TakeSeq, PutPrepare, Disconnect, TypeOK
  <2>3. InReady' = InReady
    BY <2>1 DEF InReady
  <2> QED
    BY <1>2, <2>1, <2>2, <2>3
<1>5. ASSUME PrepareNext \/ EndFlush \/ UNCHANGED vars \/ \E t \in Task : BeginFlush(t) \/ ReleaseRaises(t)
      PROVE  Terminators'
  <2>1. UNCHANGED <<rseq, resp, readyQ, inHand, wtask, handler>>
    BY <1>5 DEF PrepareNext, DispatchPrepare, StartPrepare, FinishPrepare, EndFlush, BeginFlush, ReleaseRaises,
                vars, predictVars, releaseVars, workerVars, handlerVars
  <2> QED
    BY <1>3, <2>1 DEF InReady
<1>6. ASSUME NEW w \in Worker, Dispatch(w) \/ Chunk(w) \/ EndForward(w)
      PROVE  Terminators'
  <2>1. UNCHANGED <<rseq, resp, readyQ, inHand, wtask, handler>>
    BY <1>6 DEF Dispatch, Chunk, MarkFirstToken, EndForward, predictVars, releaseVars, handlerVars
  <2> QED
    BY <1>3, <2>1 DEF InReady
<1>7. ASSUME PutReady
      PROVE  Terminators'
  <2>1. UNCHANGED <<rseq, resp, wtask, handler>> /\ inHand' = NoTask
        /\ readyQ' = Append(readyQ, inHand) /\ inHand \in Task
    BY <1>7 DEF PutReady, TypeOK, predictVars, workerVars, handlerVars
  <2>2. Range(readyQ') = Range(readyQ) \cup {inHand}
    BY <2>1, AppendRange DEF TypeOK
  <2> QED
    BY <1>2, <2>1, <2>2, InReadyNow, InReadyThen
<1>8. ASSUME NEW w \in Worker, Fetch(w)
      PROVE  Terminators'
  <2>1. /\ UNCHANGED <<rseq, resp, inHand, handler>> /\ readyQ # <<>> /\ readyQ' = Tail(readyQ)
        /\ \A v \in Worker : wtask'[v] = wtask[v] \/ wtask'[v] = Head(readyQ)
    BY <1>8 DEF Fetch, TypeOK, predictVars, releaseVars, handlerVars
  <2>2. Range(readyQ) = Range(readyQ') \cup {Head(readyQ)}
    BY <2>1, TailRange DEF TypeOK
  <2> QED
    BY <1>2, <2>1, <2>2, InReadyNow, InReadyThen
<1> QED
  BY <1>1, <1>4, <1>5, <1>6, <1>7, <1>8, TerminatorsPut, TerminatorsRead
  DEF Next, HandlerNext, FlushNext, WorkerNext

(* There are no answers at first. *)
LEMMA TerminatorsInit == Init => Terminators
<1> SUFFICES ASSUME Init PROVE Terminators
  OBVIOUS
<1>1. Range(readyQ) = {} /\ Range(wtask) \subseteq {NoTask} /\ \A t \in Task : DOMAIN resp[t] = {}
  BY DEF Init, Range
<1>2. InReady = {}
  BY <1>1 DEF Init, InReady
<1> QED
  BY <1>1, <1>2 DEF Init, Terminators, Untouched, Answering

(* Terminators is as strong as TerminatorIsLast. *)
LEMMA TerminatorsLast == Terminators => TerminatorIsLast
BY DEF Terminators, Answering, Terminated, TerminatorIsLast

-----------------------------------------------------------------------------
(* Reservations follow the tickets, but for the text tasks that overtake.  *)
MayOvertake(t) == Policy = "text_bypass" /\ t \in Text

ByTicket ==
  \A t, q \in Task : rseq[t] # 0 /\ rseq[q] # 0 /\ seq[q] < seq[t] /\ ~MayOvertake(t) => rseq[q] < rseq[t]

(* A task released later has the greater number, or its successors with a  *)
(* reservation are text tasks that overtook it.                            *)
LEMMA ByTicketNext ==
  ASSUME TypeOK, TypeOK', Numbers, Places, Bypassing, ReleaseOrder, ReadyInv, ByTicket, [Next]_vars
  PROVE  ByTicket'
<1>1. ASSUME NEW t \in Task, TakeSeq(t) PROVE ByTicket'
  <2>1. rseq[t] = 0 /\ UNCHANGED rseq /\ \A u \in Task : u # t => seq'[u] = seq[u]
    BY <1>1 DEF TakeSeq, TypeOK, Numbers, Arrived, predictVars
  <2> QED
    BY <2>1 DEF ByTicket, MayOvertake
<1>2. ASSUME NEW t \in Task, Release(t) PROVE ByTicket'
  <2>1. rseq[t] = 0 /\ ~Clear(t)
    BY <1>2, ReleasedAnew DEF Release
  <2>2. /\ UNCHANGED seq /\ rseq'[t] = nextRseq
        /\ \A u \in Task : u # t => rseq'[u] = rseq[u]
    BY <1>2 DEF Release, Reserve, TypeOK, handlerVars
  <2>3. \A u \in Task : rseq[u] < nextRseq
    BY DEF ReadyInv, Reserved
  <2>4. ASSUME NEW u \in Task, rseq[u] # 0, seq[t] < seq[u], ~MayOvertake(u) PROVE FALSE
    <3>1. \A s \in 1 .. (seq[u] - 1) : s \in released
      BY <2>4 DEF ReleaseOrder, MayOvertake
    <3>2. seq[t] \in Nat /\ seq[u] \in Nat
      BY DEF TypeOK
    <3> QED
      BY <2>1, <2>4, <3>1, <3>2 DEF Clear
  <2>5. ASSUME NEW u \in Task, NEW q \in Task, rseq'[u] # 0, rseq'[q] # 0, seq[q] < seq[u], ~MayOvertake(u)
        PROVE  rseq'[q] < rseq'[u]
    <3>1. CASE u = t
      <4>0. seq[t] \in Nat /\ seq[q] < seq[t]
        BY <2>5, <3>1 DEF TypeOK
      <4>1. q # t
        BY <4>0
      <4> QED
        BY <2>2, <2>3, <3>1, <4>1
    <3>2. CASE u # t
      <4>1. q # t
        BY <2>2, <2>4, <2>5, <3>2
      <4> QED
        BY <2>2, <2>5, <3>2, <4>1 DEF ByTicket
    <3> QED
      BY <3>1, <3>2
  <2> QED
    BY <2>2, <2>5 DEF ByTicket, MayOvertake
<1>3. ASSUME UNCHANGED <<seq, rseq>>
      PROVE  ByTicket'
  BY <1>3 DEF ByTicket, MayOvertake
<1> QED
  BY <1>1, <1>2, <1>3
  DEF Next, HandlerNext, PutPrepare, Read, Disconnect, PrepareNext, DispatchPrepare, StartPrepare, FinishPrepare,
      FlushNext, BeginFlush, ReleaseRaises, PutReady, EndFlush,
      WorkerNext, Fetch, Dispatch, Chunk, MarkFirstToken, PutChunk, EndForward, PutEnd,
      vars, handlerVars, predictVars

-----------------------------------------------------------------------------
(* The refinement.  A worker is past the gate with the task. *)
Prefilling(t) == \E w \in Holders(t) : Forwarding(w)

(* The stages, one by one. *)
LEMMA Stages ==
  ASSUME NEW t \in Task
  PROVE  /\ seq[t] = 0 <=> StageOf(t) = "none"
         /\ StageOf(t) = "waiting" <=>
              seq[t] # 0 /\ (IF rseq[t] = 0 THEN Reservable(t) ELSE t \in pending /\ ~Prefilling(t))
         /\ StageOf(t) = "prefill" <=> seq[t] # 0 /\ rseq[t] # 0 /\ t \in pending /\ Prefilling(t)
         /\ StageOf(t) = "over" <=>
              seq[t] # 0 /\ (IF rseq[t] = 0 THEN ~Reservable(t) ELSE t \notin pending)
         /\ StageOf(t) \in {"none", "waiting", "prefill", "over"}
BY DEF StageOf, Prefilling

(* A task keeps its stage while what the stage is made of stays. *)
LEMMA SameStage ==
  ASSUME NEW t \in Task, seq'[t] = seq[t], rseq'[t] = rseq[t],
         rseq[t] = 0 => (Reservable(t)' <=> Reservable(t)),
         rseq[t] # 0 => (t \in pending' <=> t \in pending),
         rseq[t] # 0 /\ t \in pending => (Prefilling(t)' <=> Prefilling(t))
  PROVE  StageOf(t)' = StageOf(t)
BY DEF StageOf, Prefilling

(* How a step of the pipeline is, or is not, one of TicketDispatch: no     *)
(* stage changes.                                                          *)
LEMMA MapStutter ==
  ASSUME UNCHANGED <<seq, nextSeq>>, \A u \in Task : StageOf(u)' = StageOf(u)
  PROVE  UNCHANGED TD!tdVars
BY DEF TD!tdVars

(* A task that gets its number arrives. *)
LEMMA MapArrive ==
  ASSUME NEW t \in Task, StageOf(t) = "none", StageOf(t)' = "waiting",
         seq' = [seq EXCEPT ![t] = nextSeq], nextSeq' = nextSeq + 1,
         \A u \in Task : u # t => StageOf(u)' = StageOf(u)
  PROVE  TD!TDNext
BY DEF TD!TDNext, TD!Arrive

(* A task whose earlier tickets are over, or which may overtake, starts. *)
LEMMA MapStart ==
  ASSUME NEW t \in Task, StageOf(t) = "waiting", StageOf(t)' = "prefill",
         UNCHANGED <<seq, nextSeq>>,
         \A u \in Task : u # t => StageOf(u)' = StageOf(u),
         \A u \in Task : StageOf(u) # "prefill",
         MayOvertake(t) \/ \A q \in Task : 0 < seq[q] /\ seq[q] < seq[t] => StageOf(q) = "over"
  PROVE  TD!TDNext
BY DEF TD!TDNext, TD!StartPrefill, MayOvertake

(* A task leaves its prefill. *)
LEMMA MapEnd ==
  ASSUME NEW t \in Task, StageOf(t) = "prefill", StageOf(t)' = "over",
         UNCHANGED <<seq, nextSeq>>,
         \A u \in Task : u # t => StageOf(u)' = StageOf(u)
  PROVE  TD!TDNext
BY DEF TD!TDNext, TD!EndPrefill

(* Tasks that still waited, and whose predictions may raise, give up. *)
LEMMA MapDrop ==
  ASSUME UNCHANGED <<seq, nextSeq>>,
         \A u \in Task : \/ StageOf(u)' = StageOf(u)
                         \/ StageOf(u) = "waiting" /\ StageOf(u)' = "over" /\ u \in Unpredictable
  PROVE  TD!TDNext
<1> DEFINE S == {u \in Task : StageOf(u)' # StageOf(u)}
<1>1. S \in SUBSET Unpredictable /\ \A u \in S : u \in Task /\ StageOf(u) = "waiting"
  OBVIOUS
<1>2. \A u \in Task : StageOf(u)' = IF u \in S THEN "over" ELSE StageOf(u)
  OBVIOUS
<1> HIDE DEF S
<1>3. TD!Drop(S)
  BY <1>1, <1>2 DEF TD!Drop
<1> QED
  BY <1>1, <1>3 DEF TD!TDNext

-----------------------------------------------------------------------------
(* The invariant the refinement needs. *)
TicketInv == RInv /\ ReadyInv /\ ByTicket

(* Taking a number is the arrival. *)
LEMMA TakesTicket ==
  ASSUME TicketInv, NEW t \in Task, TakeSeq(t)
  PROVE  TD!TDNext
<1> USE DEF TicketInv, RInv, IInv, Numbers, Places
<1>1. /\ seq' = [seq EXCEPT ![t] = nextSeq] /\ nextSeq' = nextSeq + 1 /\ nextSeq \in Nat \ {0}
      /\ seq[t] = 0 /\ rseq[t] = 0 /\ nextSeq \notin released
      /\ UNCHANGED <<rseq, released, buffer, prep, pending, wpc, wtask>>
  BY DEF TakeSeq, Arrived, Prefix, TypeOK, prepareVars, releaseVars, predictVars, workerVars
<1>2. seq'[t] = nextSeq /\ \A u \in Task : u # t => seq'[u] = seq[u]
  BY <1>1 DEF TypeOK
<1>3. StageOf(t) = "none" /\ StageOf(t)' = "waiting"
  BY <1>1, <1>2 DEF StageOf, Reservable
<1>4. \A u \in Task : u # t => StageOf(u)' = StageOf(u)
  BY <1>1, <1>2, SameStage DEF Reservable, Prefilling, Holders, Forwarding
<1> QED
  BY <1>1, <1>3, <1>4, MapArrive

(* A step that touches no number, no reservation and no worker's task      *)
(* leaves the stages, when it leaves what can still be reserved.           *)
LEMMA SameStages ==
  ASSUME UNCHANGED <<seq, nextSeq, rseq, pending>>,
         \A u \in Task : Reservable(u)' <=> Reservable(u),
         \A u \in Task : Prefilling(u)' <=> Prefilling(u)
  PROVE  UNCHANGED TD!tdVars
BY SameStage, MapStutter

(* Preparing, reading, leaving and beginning a flush change no stage:      *)
(* before its flush a task's number is not released.                       *)
LEMMA PrepareKeepsStages ==
  ASSUME TicketInv, PrepareNext \/ \E t \in Task : PutPrepare(t) \/ Read(t) \/ Disconnect(t) \/ BeginFlush(t)
  PROVE  UNCHANGED TD!tdVars
<1> USE DEF TicketInv, RInv, IInv, Places
<1>1. UNCHANGED <<seq, nextSeq, rseq, released, pending, wpc, wtask>>
  BY DEF PrepareNext, DispatchPrepare, StartPrepare, FinishPrepare, PutPrepare, Read, Disconnect, BeginFlush,
         handlerVars, releaseVars, predictVars, workerVars
<1>2. \A u \in Task : Prefilling(u)' <=> Prefilling(u)
  BY <1>1 DEF Prefilling, Holders, Forwarding
<1>3. ASSUME UNCHANGED buffer,
             \A u \in Task : seq[u] \in released => (Flushing(u)' <=> Flushing(u))
      PROVE  UNCHANGED TD!tdVars
  <2>1. \A u \in Task : Reservable(u)' <=> Reservable(u)
    BY <1>1, <1>3 DEF Reservable, Flushing
  <2> QED
    BY <1>1, <1>2, <2>1, SameStages
<1>4. ASSUME NEW t \in Task, PutPrepare(t) \/ FinishPrepare(t)
      PROVE  UNCHANGED TD!tdVars
  <2>1. prep[t] \in {"none", "preparing"} /\ \A u \in Task : u # t => prep'[u] = prep[u]
    BY <1>4 DEF PutPrepare, FinishPrepare, Placed, TypeOK
  <2>2. UNCHANGED buffer /\ seq[t] \notin released
    BY <1>4, <2>1 DEF PutPrepare, FinishPrepare, releaseVars, Marked, Flushing
  <2> QED
    BY <1>3, <2>1, <2>2 DEF Flushing
<1>5. ASSUME DispatchPrepare \/ StartPrepare
      PROVE  UNCHANGED TD!tdVars
  <2>1. PICK h \in Task : /\ prep[h] \in {"queued", "waiting"}
                          /\ prep' = [prep EXCEPT ![h] = "waiting"] \/ prep' = [prep EXCEPT ![h] = "preparing"]
    <3>1. CASE DispatchPrepare
      <4>1. Head(prepareQ) \in Task /\ prep[Head(prepareQ)] = "queued"
        BY <3>1, HeadIsFirst DEF DispatchPrepare, TypeOK, Placed
      <4> QED
        BY <3>1, <4>1 DEF DispatchPrepare
    <3>2. CASE StartPrepare
      <4>1. Head(semQ) \in Task /\ prep[Head(semQ)] = "waiting"
        BY <3>2, HeadIsFirst DEF StartPrepare, TypeOK, Placed
      <4> QED
        BY <3>2, <4>1 DEF StartPrepare
    <3> QED
      BY <1>5, <3>1, <3>2
  <2>2. \A u \in Task : Flushing(u)' <=> Flushing(u)
    BY <2>1 DEF Flushing, TypeOK
  <2>3. UNCHANGED buffer
    BY <1>5 DEF DispatchPrepare, StartPrepare, releaseVars
  <2> QED
    BY <1>3, <2>2, <2>3
<1>6. ASSUME NEW t \in Task, Read(t) \/ Disconnect(t)
      PROVE  UNCHANGED TD!tdVars
  <2>1. UNCHANGED <<buffer, prep>>
    BY <1>6 DEF Read, Disconnect, releaseVars, prepareVars
  <2> QED
    BY <1>3, <2>1 DEF Flushing
<1>7. ASSUME NEW t \in Task, BeginFlush(t)
      PROVE  UNCHANGED TD!tdVars
  <2>1. UNCHANGED prep /\ buffer' = buffer \cup {t} /\ Flushing(t)
    BY <1>7 DEF BeginFlush, prepareVars, Flushing
  <2>2. \A u \in Task : Reservable(u)' <=> Reservable(u)
    BY <1>1, <2>1 DEF Reservable, Flushing
  <2> QED
    BY <1>1, <1>2, <2>2, SameStages
<1> QED
  BY <1>4, <1>5, <1>6, <1>7 DEF PrepareNext

(* What the flush releases could still be reserved. *)
LEMMA ReleasableIsReservable ==
  ASSUME TicketInv, NEW t \in Releasable
  PROVE  /\ t \in Task /\ t \in buffer /\ seq[t] \in Nat \ {0} /\ rseq[t] = 0 /\ Reservable(t)
         /\ \A u \in Task : u # t => seq[u] # seq[t]
<1> USE DEF TicketInv, RInv, IInv, Places
<1>1. /\ t \in Task /\ t \in buffer /\ seq[t] \in Nat \ {0} /\ rseq[t] = 0 /\ ~Clear(t)
      /\ \A u \in Task : u # t => seq[u] # seq[t]
  BY ReleasedAnew, ReleasableBuffered, BufferedNumber
<1>2. CASE InTurn(t)
  BY <1>1, <1>2 DEF InTurn, Reservable
<1>3. CASE ~InTurn(t)
  <2>1. Policy = "text_bypass" /\ t \in Text
    BY <1>3, ReleasedHow DEF Bypassing
  <2>2. PICK s \in 1 .. seq[t] : s \notin released
    BY <1>1 DEF Clear
  <2>3. s = seq[t] \/ s \in 1 .. (seq[t] - 1)
    BY <1>1, <2>2
  <2> QED
    BY <1>1, <2>1, <2>2, <2>3 DEF Reservable
<1> QED
  BY <1>1, <1>2, <1>3

(* A step of the flush gives up no more than tasks whose prediction raised. *)
LEMMA FlushDrops ==
  ASSUME TicketInv, FlushNext
  PROVE  TD!TDNext \/ UNCHANGED TD!tdVars
<1> USE DEF TicketInv, RInv, IInv, Places
<1>1. UNCHANGED <<seq, nextSeq, wpc, wtask>> 
  BY DEF FlushNext, PutReady, EndFlush, BeginFlush, Release, ReleaseRaises, handlerVars, workerVars
<1>2. \A u \in Task : Prefilling(u)' <=> Prefilling(u)
  BY <1>1 DEF Prefilling, Holders, Forwarding
<1>5. ASSUME NEW t \in Task, Release(t)
      PROVE  TD!TDNext
  <2>1. t \in buffer /\ seq[t] \in Nat \ {0} /\ rseq[t] = 0 /\ Reservable(t) /\ \A u \in Task : u # t => seq[u] # seq[t]
    BY <1>5, ReleasableIsReservable DEF Release
  <2>2. /\ rseq'[t] # 0 /\ \A u \in Task : u # t => rseq'[u] = rseq[u]
        /\ released' = released \cup {seq[t]} /\ buffer' = buffer \ {t} /\ UNCHANGED prep
        /\ pending' = pending \cup {t}
    BY <1>5 DEF Release, Reserve, TypeOK, prepareVars
  <2>3. ~Prefilling(t)
    <3>1. \A w \in Worker : wtask[w] # NoTask => rseq[wtask[w]] # 0
      BY InReadyNow DEF ReadyInv, Reserved
    <3> QED
      BY <2>1, <3>1, NoTaskIsNoTask DEF Prefilling, Holders
  <2>4. StageOf(t)' = StageOf(t)
    BY <1>1, <1>2, <2>1, <2>2, <2>3 DEF StageOf, Prefilling
  <2>5. ASSUME NEW u \in Task, u # t
        PROVE  \/ StageOf(u)' = StageOf(u)
               \/ StageOf(u) = "waiting" /\ StageOf(u)' = "over" /\ u \in Unpredictable
    <3>1. Reservable(u)' => Reservable(u)
      BY <1>1, <2>2, <2>5 DEF Reservable
    <3>2. rseq[u] = 0 /\ Reservable(u) /\ ~Reservable(u)' => u \in Unpredictable
      <4>1. rseq[u] = 0 /\ Reservable(u) /\ ~Reservable(u)' => seq[u] \in released
        BY <1>1, <2>1, <2>2, <2>5 DEF Reservable
      <4> QED
        BY <4>1 DEF Marked
    <3>3. CASE seq[u] # 0 /\ rseq[u] = 0 /\ Reservable(u) /\ ~Reservable(u)'
      BY <1>1, <2>2, <2>5, <3>2, <3>3 DEF StageOf
    <3>4. CASE ~(seq[u] # 0 /\ rseq[u] = 0 /\ Reservable(u) /\ ~Reservable(u)')
      BY <1>1, <1>2, <2>2, <2>5, <3>1, <3>4 DEF StageOf, Prefilling
    <3> QED
      BY <3>3, <3>4
  <2> QED
    BY <1>1, <2>4, <2>5, MapDrop
<1>6. ASSUME UNCHANGED <<rseq, pending>>, released \subseteq released', buffer' \subseteq buffer,
             \A u \in Task : Flushing(u)' => Flushing(u),
             \A u \in Task : rseq[u] = 0 /\ seq[u] \in released' => u \in Unpredictable
      PROVE  TD!TDNext
  <2>1. \A u \in Task : Reservable(u)' => Reservable(u)
    BY <1>1, <1>6 DEF Reservable, Flushing
  <2>2. ASSUME NEW u \in Task
        PROVE  \/ StageOf(u)' = StageOf(u)
               \/ StageOf(u) = "waiting" /\ StageOf(u)' = "over" /\ u \in Unpredictable
    <3>1. CASE seq[u] # 0 /\ rseq[u] = 0 /\ Reservable(u) /\ ~Reservable(u)'
      <4>1. seq[u] \in released'
        BY <1>1, <3>1 DEF Reservable
      <4> QED
        BY <1>1, <1>6, <3>1, <4>1 DEF StageOf
    <3>2. CASE ~(seq[u] # 0 /\ rseq[u] = 0 /\ Reservable(u) /\ ~Reservable(u)')
      BY <1>1, <1>2, <1>6, <2>1, <3>2 DEF StageOf, Prefilling
    <3> QED
      BY <3>1, <3>2
  <2> QED
    BY <1>1, <2>2, MapDrop
<1>7. ASSUME NEW t \in Task, ReleaseRaises(t)
      PROVE  TD!TDNext
  <2>1. t \in Unpredictable /\ \A u \in Task : u # t => seq[u] # seq[t]
    BY <1>7, ReleasableIsReservable DEF ReleaseRaises
  <2>2. /\ UNCHANGED <<rseq, pending>> /\ released' = released \cup {seq[t]} /\ buffer' \subseteq buffer
    BY <1>7 DEF ReleaseRaises, predictVars
  <2>3. \A u \in Task : Flushing(u)' => Flushing(u)
    BY <1>7 DEF ReleaseRaises, Flushing, TypeOK
  <2>4. \A u \in Task : rseq[u] = 0 /\ seq[u] \in released' => u \in Unpredictable
    BY <2>1, <2>2 DEF Marked
  <2> QED
    BY <1>6, <2>2, <2>3, <2>4
<1>8. ASSUME EndFlush
      PROVE  TD!TDNext
  <2>1. UNCHANGED <<rseq, pending, released, buffer>>
    BY <1>8 DEF EndFlush, predictVars
  <2>2. \A u \in Task : Flushing(u)' => Flushing(u)
    BY <1>8 DEF EndFlush, Flushing, TypeOK
  <2> QED
    BY <1>6, <2>1, <2>2 DEF Marked
<1>9. ASSUME PutReady
      PROVE  UNCHANGED TD!tdVars
  <2>1. UNCHANGED <<rseq, pending, released, buffer, prep>>
    BY <1>9 DEF PutReady, predictVars, prepareVars
  <2>2. \A u \in Task : Reservable(u)' <=> Reservable(u)
    BY <1>1, <2>1 DEF Reservable
  <2> QED
    BY <1>1, <1>2, <2>1, <2>2, SameStages
<1> QED
  BY <1>5, <1>7, <1>8, <1>9, PrepareKeepsStages DEF FlushNext

-----------------------------------------------------------------------------
(* The gate opens for a task whose earlier tickets are over, unless it may *)
(* overtake; no other prefill is running then.                             *)
LEMMA DispatchStarts ==
  ASSUME TicketInv, NEW w \in Worker, Dispatch(w)
  PROVE  TD!TDNext
<1> USE DEF TicketInv, RInv, IInv, ReadyInv
<1>1. /\ UNCHANGED <<seq, nextSeq, rseq, released, buffer, prep, pending, wtask>>
      /\ wpc[w] = "gate" /\ wpc'[w] = "forward" /\ \A v \in Worker : v # w => wpc'[v] = wpc[v]
  BY DEF Dispatch, TypeOK, handlerVars, prepareVars, releaseVars, predictVars
<1>2. PICK t \in Task : t = wtask[w]
  BY <1>1 DEF Hands, TypeOK
<1>3. t # NoTask /\ t \in pending /\ rseq[t] # 0 /\ seq[t] # 0 /\ Unseen = pending
  BY <1>1, <1>2, NoTaskIsNoTask, InReadyNow DEF Predicted, Reserved, Unseen, Numbers, Arrived
<1>4. \A u \in pending : u \in Task /\ rseq[t] <= rseq[u] /\ rseq[u] \in Nat
  BY <1>2, <1>3 DEF Dispatch, MayDispatch, TypeOK
<1>5. \A v \in Worker : v # w => wtask[v] # t
  BY <1>2, <1>3 DEF OneEach
<1>6. StageOf(t) = "waiting"
  BY <1>1, <1>3, <1>5, Stages DEF Prefilling, Holders, Forwarding
<1>7. StageOf(t)' = "prefill"
  <2>1. Prefilling(t)'
    BY <1>1, <1>2 DEF Prefilling, Holders, Forwarding
  <2> QED
    BY <1>1, <1>3, <2>1 DEF StageOf, Prefilling
<1>8. ASSUME NEW u \in Task, u # t PROVE StageOf(u)' = StageOf(u)
  <2>1. Reservable(u)' <=> Reservable(u)
    BY <1>1 DEF Reservable
  <2>2. Prefilling(u)' <=> Prefilling(u)
    BY <1>1, <1>2, <1>8 DEF Prefilling, Holders, Forwarding
  <2> QED
    BY <1>1, <2>1, <2>2, SameStage
<1>9. ASSUME NEW u \in Task, StageOf(u) = "prefill" PROVE FALSE
  <2>1. u \in pending /\ Prefilling(u)
    BY <1>9, Stages
  <2>2. PICK v \in Worker : wtask[v] = u /\ Forwarding(v)
    BY <2>1 DEF Prefilling, Holders
  <2>3. rseq[u] <= rseq[t]
    BY <1>3, <2>1, <2>2 DEF Foremost
  <2>4. u = t
    BY <1>3, <1>4, <2>1, <2>3 DEF Reserved
  <2> QED
    BY <1>1, <1>5, <2>2, <2>4 DEF Forwarding
<1>10. ASSUME ~MayOvertake(t), NEW q \in Task, 0 < seq[q], seq[q] < seq[t] PROVE StageOf(q) = "over"
  <2>0. \A s \in 1 .. (seq[t] - 1) : s \in released
    BY <1>3, <1>10 DEF ReleaseOrder, MayOvertake
  <2>1. CASE rseq[q] = 0
    <3>1. \A s \in 1 .. seq[q] : s \in released
      BY <1>10, <2>0 DEF TypeOK
    <3>2. seq[q] \in Nat /\ seq[q] # 0
      BY <1>10 DEF TypeOK
    <3>3. ~Reservable(q)
      BY <3>1, <3>2 DEF Reservable
    <3> QED
      BY <2>1, <3>2, <3>3, Stages
  <2>2. CASE rseq[q] # 0
    <3>1. rseq[q] < rseq[t]
      BY <1>3, <1>10, <2>2 DEF ByTicket
    <3>2. rseq[q] \in Nat /\ rseq[t] \in Nat
      BY DEF TypeOK
    <3>3. q \notin pending
      BY <1>4, <3>1, <3>2
    <3> QED
      BY <1>10, <2>2, <3>3, Stages
  <2> QED
    BY <2>1, <2>2
<1> QED
  BY <1>1, <1>6, <1>7, <1>8, <1>9, <1>10, MapStart

(* The first token, or the end of the forward, ends the prefill.           *)
LEMMA ForwardEnds ==
  ASSUME TicketInv, NEW w \in Worker, Chunk(w) \/ EndForward(w)
  PROVE  TD!TDNext \/ UNCHANGED TD!tdVars
<1> USE DEF TicketInv, RInv, IInv, ReadyInv
<1>1. /\ UNCHANGED <<seq, nextSeq, rseq, released, buffer, prep, wtask>>
      /\ wpc[w] = "forward" /\ wpc'[w] \in {"put", "end"} /\ \A v \in Worker : v # w => wpc'[v] = wpc[v]
  BY DEF Chunk, MarkFirstToken, EndForward, TypeOK, handlerVars, prepareVars, releaseVars, predictVars
<1>2. PICK t \in Task : t = wtask[w]
  BY <1>1 DEF Hands, TypeOK
<1>3. t # NoTask /\ rseq[t] # 0 /\ seq[t] # 0 /\ Prefilling(t)
  BY <1>1, <1>2, NoTaskIsNoTask, InReadyNow DEF Reserved, Numbers, Arrived, Prefilling, Holders, Forwarding
<1>4. \A u \in Task : u # t => (u \in pending' <=> u \in pending)
  BY <1>2 DEF Chunk, MarkFirstToken, EndForward, Predicted, predictVars
<1>5. t \in pending' => t \in pending
  BY <1>2 DEF Chunk, MarkFirstToken, EndForward, predictVars
<1>6. \A u \in Task : Prefilling(u)' <=> Prefilling(u)
  <2>1. \A v \in Worker : Forwarding(v)' <=> Forwarding(v)
    BY <1>1 DEF Forwarding
  <2> QED
    BY <1>1, <2>1 DEF Prefilling, Holders
<1>7. \A u \in Task : Reservable(u)' <=> Reservable(u)
  BY <1>1 DEF Reservable
<1>8. ASSUME NEW u \in Task, u # t \/ (t \in pending' <=> t \in pending) PROVE StageOf(u)' = StageOf(u)
  BY <1>1, <1>4, <1>6, <1>7, <1>8, SameStage
<1>9. CASE t \in pending' <=> t \in pending
  BY <1>1, <1>8, <1>9, MapStutter
<1>10. CASE ~(t \in pending' <=> t \in pending)
  <2>1. StageOf(t) = "prefill"
    BY <1>3, <1>5, <1>10, Stages
  <2>2. StageOf(t)' = "over"
    BY <1>1, <1>3, <1>5, <1>10 DEF StageOf
  <2> QED
    BY <1>1, <1>8, <2>1, <2>2, MapEnd
<1> QED
  BY <1>9, <1>10

(* The other steps of a worker are no steps of TicketDispatch. *)
LEMMA WorkerKeepsStages ==
  ASSUME TicketInv, NEW w \in Worker, Fetch(w) \/ PutChunk(w) \/ PutEnd(w)
  PROVE  UNCHANGED TD!tdVars
<1> USE DEF TicketInv, RInv, IInv, ReadyInv
<1>1. /\ UNCHANGED <<seq, nextSeq, rseq, released, buffer, prep, pending>>
      /\ \A v \in Worker : v # w => wpc'[v] = wpc[v] /\ wtask'[v] = wtask[v]
  BY DEF Fetch, PutChunk, PutEnd, TypeOK, handlerVars, prepareVars, releaseVars, predictVars
<1>2. \A u \in Task : Reservable(u)' <=> Reservable(u)
  BY <1>1 DEF Reservable
<1>3. ASSUME NEW u \in Task, rseq[u] # 0, u \in pending PROVE Prefilling(u)' <=> Prefilling(u)
  <2>1. \A v \in Worker : v # w => Forwarding(v)' = Forwarding(v)
    BY <1>1 DEF Forwarding
  <2>2. CASE Fetch(w)
    <3>1. ~Forwarding(w) /\ ~Forwarding(w)'
      BY <2>2 DEF Fetch, Forwarding, TypeOK
    <3> QED
      BY <1>1, <2>1, <3>1 DEF Prefilling, Holders
  <2>3. CASE PutChunk(w)
    <3>1. Forwarding(w) /\ Forwarding(w)' /\ UNCHANGED wtask
      BY <2>3 DEF PutChunk, Forwarding, TypeOK
    <3> QED
      BY <1>1, <2>1, <3>1 DEF Prefilling, Holders
  <2>4. CASE PutEnd(w)
    <3>1. wtask[w] # u /\ wtask'[w] # u
      BY <1>3, <2>4, NoTaskIsNoTask DEF PutEnd, Predicted, TypeOK
    <3> QED
      BY <1>1, <2>1, <3>1 DEF Prefilling, Holders
  <2> QED
    BY <2>2, <2>3, <2>4
<1>4. \A u \in Task : StageOf(u)' = StageOf(u)
  BY <1>1, <1>2, <1>3, SameStage
<1> QED
  BY <1>1, <1>4, MapStutter

(* Every step of the pipeline is one of TicketDispatch, or none.           *)
LEMMA StepsMap ==
  ASSUME TicketInv, [Next]_vars
  PROVE  [TD!TDNext]_(TD!tdVars)
<1>1. ASSUME UNCHANGED vars PROVE UNCHANGED TD!tdVars
  <2>1. UNCHANGED <<seq, nextSeq, rseq, pending, released, buffer, prep, wpc, wtask>>
    BY <1>1 DEF vars, handlerVars, prepareVars, releaseVars, predictVars, workerVars
  <2>2. \A u \in Task : (Reservable(u)' <=> Reservable(u)) /\ (Prefilling(u)' <=> Prefilling(u))
    BY <2>1 DEF Reservable, Prefilling, Holders, Forwarding
  <2> QED
    BY <2>1, <2>2, SameStages
<1>2. ASSUME HandlerNext PROVE TD!TDNext \/ UNCHANGED TD!tdVars
  BY <1>2, TakesTicket, PrepareKeepsStages DEF HandlerNext
<1>3. ASSUME WorkerNext PROVE TD!TDNext \/ UNCHANGED TD!tdVars
  BY <1>3, DispatchStarts, ForwardEnds, WorkerKeepsStages DEF WorkerNext
<1> QED
  BY <1>1, <1>2, <1>3, FlushDrops, PrepareKeepsStages DEF Next

(* Before anything arrives every task is at stage "none". *)
LEMMA InitMaps == Init => TD!TDInit
<1> SUFFICES ASSUME Init PROVE TD!TDInit
  OBVIOUS
<1>1. \A t \in Task : StageOf(t) = "none"
  BY DEF Init, StageOf
<1> QED
  BY <1>1 DEF Init, TD!TDInit

-----------------------------------------------------------------------------
(* All of it. *)
QInv == TicketInv /\ Terminators

(* The whole pipeline's inductive invariant: under "ordered" whatever      *)
(* raises, under "text_bypass" while the predictions of one task at most   *)
(* raise.  The theorems below rest on it and have the same condition.      *)
THEOREM QueueInvariant ==
  ASSUME NEW o
  PROVE  Spec /\ OnlyOneRaises(o) => [](QInv /\ OneLost(o))
<1>1. Init => QInv /\ OneLost(o)
  <2>1. Init => ByTicket
    BY DEF Init, ByTicket
  <2> QED
    BY IInvInit, PlacesInit, BypassingInit, OneLostInit, ReadyInit, TerminatorsInit, <2>1 DEF QInv, TicketInv, RInv
<1>2. QInv /\ OneLost(o) /\ [Next]_vars /\ [RaiseOf(o)]_vars => QInv' /\ OneLost(o)'
  <2> SUFFICES ASSUME QInv, OneLost(o), [Next]_vars, [RaiseOf(o)]_vars PROVE QInv' /\ OneLost(o)'
    OBVIOUS
  <2> USE DEF QInv, TicketInv, RInv, IInv
  <2>1. IInv'
    BY TypeOKNext, HandsNext, ArrivedNext, QueuedNext, PrefixNext, ReleaseOrderNext DEF Numbers
  <2>2. Places' /\ Bypassing' /\ OneLost(o)'
    BY PlacesNext, BypassingNext, OneLostNext
  <2>3. ReadyInv'
    BY <2>1, ReadyNext
  <2>4. ByTicket'
    BY <2>1, ByTicketNext
  <2>5. Terminators'
    BY <2>1, TerminatorsNext
  <2> QED
    BY <2>1, <2>2, <2>3, <2>4, <2>5
<1> QED
  BY <1>1, <1>2, PTL DEF Spec, OnlyOneRaises

(* A released task is in the ready stage once, although the except branch  *)
(* of a prepare task puts released tasks back into the buffer, and the     *)
(* prediction lists speak of exactly the tasks in it                       *)
(* (_flush_prepared_to_ready, _reserve_ready_task, _mark_task_decode_end)  *)
(* - under "text_bypass" if the predictions of one task at most raise.     *)
THEOREM ReadyStageExactHolds ==
  ASSUME NEW o
  PROVE  Spec /\ OnlyOneRaises(o) => []ReadyStageExact
<1>1. QInv => ReadyStageExact
  BY ReadyExact DEF QInv, TicketInv, RInv, IInv
<1> QED
  BY QueueInvariant, <1>1, PTL

(* For any number of workers: tasks are dispatched in the order they were  *)
(* reserved in, one at a time is in the prefill, and the one whose turn it *)
(* is is in a worker's hands, so the gate cannot starve                    *)
(* (_wait_dispatch_turn) - under "text_bypass" if the predictions of one   *)
(* task at most raise.                                                     *)
THEOREM DispatchInOrderHolds ==
  ASSUME NEW o
  PROVE  Spec /\ OnlyOneRaises(o) => []DispatchInOrder
<1>1. QInv => DispatchInOrder
  BY ReadyOrdered DEF QInv, TicketInv, RInv, IInv
<1> QED
  BY QueueInvariant, <1>1, PTL

(* The terminator of a task comes once and last, for any lengths of the    *)
(* answers and any capacity of the response queue (_ready_worker_loop,     *)
(* iter_response) - under "text_bypass" if the predictions of one task at  *)
(* most raise.                                                             *)
THEOREM TerminatorIsLastHolds ==
  ASSUME NEW o
  PROVE  Spec /\ OnlyOneRaises(o) => []TerminatorIsLast
<1>1. QInv => TerminatorIsLast
  BY TerminatorsLast DEF QInv
<1> QED
  BY QueueInvariant, <1>1, PTL

(* The pipeline implements TicketDispatch: for any tasks, workers and      *)
(* queue sizes, prefills start one at a time and in the order of the       *)
(* tickets, but for the text tasks that overtake and the tasks whose       *)
(* reservation raised - under "text_bypass" if those of one task at most   *)
(* raise.                                                                  *)
THEOREM TicketOrderKept ==
  ASSUME NEW o
  PROVE  Spec /\ OnlyOneRaises(o) => KeepsTicketOrder
<1>1. QInv /\ [Next]_vars => [TD!TDNext]_(TD!tdVars)
  BY StepsMap DEF QInv
<1> QED
  BY InitMaps, QueueInvariant, <1>1, PTL DEF Spec, KeepsTicketOrder, TD!TDSpec
=============================================================================
