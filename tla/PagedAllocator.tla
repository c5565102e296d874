--------------------------- MODULE PagedAllocator ---------------------------
(***************************************************************************)
(* The paged allocator of env/memory_management.py                         *)
(* (PagedTensorMemoryAllocator): one memory object per page, made once and *)
(* handed out again and again through a deque.  No lock is taken: threads  *)
(* interleave between the pops of a batch.  The statistics, which the code *)
(* itself calls not thread-safe, are left out.                             *)
(***************************************************************************)
EXTENDS Integers, Sequences, FiniteSets, SequencesExt

CONSTANTS
  Thread,
  Page,
  MaxBatch,   \* bound: the pages of a batch
  MaxRef,     \* bound: the references to a page
  MaxPin      \* bound: the pins of a page

ConstantsAssumption == IsFiniteSet(Page) /\ {MaxBatch, MaxRef, MaxPin} \subseteq Nat \ {0}

VARIABLES
  freeBlocks, \* the deque
  ref,        \* ref_count of each page's object
  pin,        \* its pin_count
  cut,        \* the pages whose raw_data is shortened to a chunk that is not full
  wants,      \* of each thread: the pages its batch still lacks
  full,       \* of each thread: whether its chunks are full
  taken,      \* of each thread: the pages its batch has popped
  holds,      \* of each thread: the pages it was given and has not given up
  known,      \* the pages that were handed out once: somebody may still know the object
  overdrawn   \* history: whether somebody gave up what was not his, and a page was lost by it

vars == <<freeBlocks, ref, pin, cut, wants, full, taken, holds, known, overdrawn>>

Init ==
  /\ freeBlocks = SetToSeq(Page)
  /\ ref = [p \in Page |-> 1] /\ pin = [p \in Page |-> 0] /\ cut = {}
  /\ wants = [t \in Thread |-> 0] /\ full = [t \in Thread |-> TRUE]
  /\ taken = [t \in Thread |-> {}] /\ holds = [t \in Thread |-> {}]
  /\ known = {} /\ overdrawn = FALSE

(* allocate is a batch of one. *)
Begin(t) ==
  /\ wants[t] = 0 /\ holds[t] = {}
  /\ \E n \in 1 .. MaxBatch, f \in BOOLEAN :
       wants' = [wants EXCEPT ![t] = n] /\ full' = [full EXCEPT ![t] = f]
  /\ UNCHANGED <<freeBlocks, ref, pin, cut, taken, holds, known, overdrawn>>

(* One popleft, and the fields of the object set for the new chunk. *)
Pop(t) ==
  LET p == Head(freeBlocks)
  IN  /\ wants[t] > 0 /\ freeBlocks # <<>>
      /\ freeBlocks' = Tail(freeBlocks)
      /\ ref' = [ref EXCEPT ![p] = 1]
      /\ cut' = IF full[t] THEN cut ELSE cut \cup {p}
      /\ wants' = [wants EXCEPT ![t] = @ - 1]
      /\ IF wants[t] = 1
           THEN /\ holds' = [holds EXCEPT ![t] = taken[t] \cup {p}]
                /\ taken' = [taken EXCEPT ![t] = {}]
                /\ known' = known \cup taken[t] \cup {p}
           ELSE taken' = [taken EXCEPT ![t] = @ \cup {p}] /\ UNCHANGED <<holds, known>>
      /\ UNCHANGED <<pin, full, overdrawn>>

(* The pages are appended without their whole buffer. *)
GiveBackAsIs(t, pages) ==
  freeBlocks' = freeBlocks \o SetToSeq(pages) /\ UNCHANGED cut

(* batched_free and free: each object gets its whole page back. *)
GiveBack(t, pages) ==
  freeBlocks' = freeBlocks \o SetToSeq(pages) /\ cut' = cut \ pages

(* A batch that fails answers None and keeps what it popped. *)
FailAndKeep(t) ==
  /\ wants[t] > 0 /\ freeBlocks = <<>>
  /\ wants' = [wants EXCEPT ![t] = 0] /\ taken' = [taken EXCEPT ![t] = {}]
  /\ UNCHANGED <<freeBlocks, ref, pin, cut, full, holds, known, overdrawn>>

Fail(t) ==
  /\ wants[t] > 0 /\ freeBlocks = <<>>
  /\ GiveBack(t, taken[t])
  /\ wants' = [wants EXCEPT ![t] = 0] /\ taken' = [taken EXCEPT ![t] = {}]
  /\ UNCHANGED <<ref, pin, full, holds, known, overdrawn>>

(* ref_count_up: whoever else uses a page that is held. *)
RefUp(t, p) ==
  /\ p \in holds[t] /\ ref[p] < MaxRef
  /\ ref' = [ref EXCEPT ![p] = @ + 1]
  /\ UNCHANGED <<freeBlocks, pin, cut, wants, full, taken, holds, known, overdrawn>>

(* ref_count_down, by anyone who knows the object: with the last reference *)
(* the page is free unless it is pinned.  One that is too many takes the   *)
(* page away from its holder, or frees it twice, when the page was popped  *)
(* again meanwhile; while the count is zero it is skipped.                 *)
Release(t, p) ==
  /\ p \in known /\ ref[p] > 0
  /\ ref' = [ref EXCEPT ![p] = @ - 1]
  /\ IF ref[p] = 1 /\ pin[p] = 0 THEN GiveBack(t, {p}) ELSE UNCHANGED <<freeBlocks, cut>>
  /\ IF ref[p] = 1
       THEN holds' = [holds EXCEPT ![t] = @ \ {p}] /\ overdrawn' = (p \notin holds[t])
       ELSE UNCHANGED <<holds, overdrawn>>
  /\ UNCHANGED <<pin, wants, full, taken, known>>

(* A lookup pins a page that somebody holds. *)
Pin(t, p) ==
  /\ p \in holds[t] /\ pin[p] < MaxPin
  /\ pin' = [pin EXCEPT ![p] = @ + 1]
  /\ UNCHANGED <<freeBlocks, ref, cut, wants, full, taken, holds, known, overdrawn>>

(* An unpin that looks only at the pins. *)
UnpinFrees(t, p) ==
  /\ p \in known
  /\ pin' = [pin EXCEPT ![p] = IF @ > 0 THEN @ - 1 ELSE 0]
  /\ IF pin[p] <= 1
       THEN GiveBack(t, {p}) /\ overdrawn' = (pin[p] = 0)
       ELSE UNCHANGED <<freeBlocks, cut, overdrawn>>
  /\ UNCHANGED <<ref, wants, full, taken, holds, known>>

(* unpin, by anyone who knows the object.  A count below zero is put back  *)
(* to zero after the test, so that one unpin too many ("Double unpin       *)
(* occurred somewhere") frees a page that is free already.                 *)
Unpin(t, p) ==
  /\ p \in known
  /\ pin' = [pin EXCEPT ![p] = IF @ > 0 THEN @ - 1 ELSE 0]
  /\ IF pin[p] <= 1 /\ ref[p] <= 0
       THEN GiveBack(t, {p}) /\ overdrawn' = (pin[p] = 0)
       ELSE UNCHANGED <<freeBlocks, cut, overdrawn>>
  /\ UNCHANGED <<ref, wants, full, taken, holds, known>>

(* The model ends where somebody gave up what was not his. *)
Next == ~ overdrawn /\ \E t \in Thread :
  \/ Begin(t) \/ Pop(t) \/ Fail(t)
  \/ \E p \in Page : RefUp(t, p) \/ Release(t, p) \/ Pin(t, p) \/ Unpin(t, p)

Spec == Init /\ [][Next]_vars

-----------------------------------------------------------------------------
TypeOK ==
  /\ freeBlocks \in Seq(Page) /\ ref \in [Page -> 0 .. MaxRef] /\ pin \in [Page -> 0 .. MaxPin]
  /\ cut \subseteq Page /\ known \subseteq Page /\ overdrawn \in BOOLEAN
  /\ wants \in [Thread -> 0 .. MaxBatch]

Owners(p) ==
  Cardinality({i \in DOMAIN freeBlocks : freeBlocks[i] = p})
  + Cardinality({t \in Thread : p \in holds[t]}) + Cardinality({t \in Thread : p \in taken[t]})

(* A page is in the deque once, or one thread has it, or a pin keeps it:   *)
(* two threads never share a page, and a batch that found too few pages    *)
(* loses none - until somebody gives up a reference or a pin that is not   *)
(* his.                                                                    *)
OneOwner == overdrawn \/ \A p \in Page :
  IF pin[p] > 0 /\ ref[p] = 0 THEN Owners(p) = 0 ELSE Owners(p) = 1

(* A page in the deque has its whole buffer again, so that the next owner  *)
(* does not get a shortened one.                                           *)
FreePagesAreWhole == \A p \in ToSet(freeBlocks) : p \notin cut
=============================================================================
