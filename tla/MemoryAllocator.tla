-------------------------- MODULE MemoryAllocator ---------------------------
(***************************************************************************)
(* The explicit-list allocator of the LMCache that CacheRoute patches      *)
(* (env/memory_management.py, TensorMemoryAllocator) and the objects it    *)
(* hands out (TensorMemoryObj), as MixedMemoryAllocator and the others     *)
(* that wrap it use it: one call at a time.  The size is in units of       *)
(* align_bytes / Align, so that a request may be smaller than a block.     *)
(***************************************************************************)
EXTENDS Integers, Sequences, FiniteSets, FiniteSetsExt, SequencesExt

CONSTANTS
  Obj,       \* the memory objects; one whose last holder is gone can come again
  Size,      \* the size of the buffer
  Align,     \* align_bytes
  Raw,       \* the raw sizes that are asked for
  MaxBatch,  \* bound: the objects of one batch
  MaxRef,    \* bound: the references to an object
  MaxPin     \* bound: the pins of an object

ConstantsAssumption ==
  /\ IsFiniteSet(Obj) /\ {Align, Size} \subseteq Nat \ {0} /\ Size % Align = 0
  /\ Raw \subseteq Nat \ {0} /\ {MaxBatch, MaxRef, MaxPin} \subseteq Nat \ {0}

VARIABLES
  free,      \* explicit_list: the free blocks [start, size]
  obj,       \* of each object: start, size, ref, pin, valid
  total,     \* total_allocated_size
  active,    \* num_active_allocations
  stray      \* history: whether a batch was freed as a block that is not its own

vars == <<free, obj, total, active, stray>>

Gone == [start |-> 0, size |-> 0, ref |-> 0, pin |-> 0, valid |-> FALSE]
Block(start, size) == [start |-> start, size |-> size]

Init ==
  /\ free = {Block(0, Size)}
  /\ obj = [o \in Obj |-> Gone]
  /\ total = 0 /\ active = 0 /\ stray = FALSE

(* _Compute_aligned_size, for an alignment that is a power of two. *)
Aligned(n) == ((n + Align - 1) \div Align) * Align

-----------------------------------------------------------------------------
(* The free list.                                                          *)

(* The first block that is large enough, and the list without its head.    *)
Fits(n) == {b \in free : b.size >= n}
First(n) == CHOOSE b \in Fits(n) : \A c \in Fits(n) : b.start <= c.start

TakeFirst(n) ==
  LET b == First(n)
  IN  (free \ {b}) \cup
        (IF b.size > n THEN {Block(b.start + n, b.size - n)} ELSE {})

(* The list is sorted by start: the neighbours of a block that is not in it. *)
Before(list, b) ==
  {p \in list : p.start <= b.start /\ \A q \in list : q.start <= b.start => q.start <= p.start}
After(list, b) ==
  {s \in list : s.start > b.start /\ \A q \in list : q.start > b.start => q.start >= s.start}

(* The list with block b, merged with the neighbours it touches. *)
Coalesce(list, b) ==
  LET prev == {p \in Before(list, b) : p.start + p.size = b.start}
      succ == {s \in After(list, b) : b.start + b.size = s.start}
  IN  (list \ (prev \cup succ)) \cup
        {Block(b.start - SumSet({p.size : p \in prev}),
               b.size + SumSet({p.size : p \in prev}) + SumSet({s.size : s \in succ}))}

-----------------------------------------------------------------------------
(* allocate and batched_allocate: n objects of one size in one block.  A   *)
(* call that finds no block returns None and changes nothing.              *)

Unheld == {o \in Obj : ~ obj[o].valid /\ obj[o].ref = 0 /\ obj[o].pin = 0}

Allocate(count, raw) ==
  LET objs == SubSeq(SetToSeq(Unheld), 1, count)
      unit == Aligned(raw)
  IN  /\ count <= Cardinality(Unheld) /\ Fits(unit * count) # {}
      /\ free' = TakeFirst(unit * count)
      /\ obj' = [o \in Obj |->
           LET i == SelectInSeq(objs, LAMBDA x : x = o)
           IN  IF i = 0 THEN obj[o]
               ELSE [start |-> First(unit * count).start + (i - 1) * unit,
                     size |-> unit, ref |-> 1, pin |-> 0, valid |-> TRUE]]
      /\ total' = total + unit * count /\ active' = active + count

(* Without the test of is_valid. *)
FreeThenAgain(o, fields) ==
  /\ free' = Coalesce(free, Block(fields.start, fields.size))
  /\ obj' = [obj EXCEPT ![o] = [fields EXCEPT !.valid = FALSE]]
  /\ total' = total - fields.size /\ active' = active - 1

(* free: an object that is not valid any more is left alone. *)
FreeThen(o, fields) ==
  IF fields.valid
    THEN /\ free' = Coalesce(free, Block(fields.start, fields.size))
         /\ obj' = [obj EXCEPT ![o] = [fields EXCEPT !.valid = FALSE]]
         /\ total' = total - fields.size /\ active' = active - 1
    ELSE obj' = [obj EXCEPT ![o] = fields] /\ UNCHANGED <<free, total, active>>

Keep(o, fields) == obj' = [obj EXCEPT ![o] = fields] /\ UNCHANGED <<free, total, active>>

RefUp(o) ==
  /\ obj[o].ref \in 1 .. MaxRef - 1
  /\ Keep(o, [obj[o] EXCEPT !.ref = @ + 1])

(* The last reference goes, whether the object is pinned or not. *)
RefDownPinned(o) ==
  IF obj[o].ref <= 0 THEN Keep(o, obj[o])
  ELSE LET fields == [obj[o] EXCEPT !.ref = @ - 1]
       IN  IF fields.ref = 0 THEN FreeThen(o, fields) ELSE Keep(o, fields)

(* ref_count_down: a release that was already done is skipped. *)
RefDown(o) ==
  IF obj[o].ref <= 0 THEN Keep(o, obj[o])
  ELSE LET fields == [obj[o] EXCEPT !.ref = @ - 1]
       IN  IF fields.ref = 0 /\ fields.pin = 0 THEN FreeThen(o, fields) ELSE Keep(o, fields)

Pin(o) ==
  /\ obj[o].ref > 0 /\ obj[o].pin < MaxPin
  /\ Keep(o, [obj[o] EXCEPT !.pin = @ + 1])

(* An unpin that frees nothing. *)
UnpinKeeps(o) ==
  Keep(o, [obj[o] EXCEPT !.pin = IF @ > 0 THEN @ - 1 ELSE 0])

(* unpin: a pin count below zero is put back to zero, after the test. *)
Unpin(o) ==
  LET pin == obj[o].pin - 1
      fields == [obj[o] EXCEPT !.pin = IF pin < 0 THEN 0 ELSE pin]
  IN  IF pin <= 0 /\ obj[o].ref <= 0 THEN FreeThen(o, fields) ELSE Keep(o, fields)

-----------------------------------------------------------------------------
(* batched_free: the objects that follow one another in the list and in    *)
(* the buffer are put back as one block, and those that are not valid any  *)
(* more are skipped.  curr_start begins at the address of the first object *)
(* of the list, valid or not.                                              *)

Gather(acc, o) ==
  LET f == obj[o]
  IN  IF ~ f.valid THEN acc
      ELSE IF acc.blocks = <<>>
        THEN [blocks |-> <<Block(f.start, f.size)>>, curr |-> acc.curr + f.size]
      ELSE IF acc.curr = f.start
        THEN [blocks |-> [acc.blocks EXCEPT ![Len(acc.blocks)].size = @ + f.size],
              curr |-> acc.curr + f.size]
      ELSE [blocks |-> Append(acc.blocks, Block(f.start, f.size)),
            curr |-> f.start + f.size]

(* The list begins with an object that is not valid any more, and the      *)
(* second valid one stands where the first would end if it stood there:    *)
(* the two become one block, from the start of the first, that covers what *)
(* follows it in the buffer and leaves the second out.                     *)
Strays(objs) == \E i, j \in DOMAIN objs :
  /\ i < j /\ obj[objs[i]].valid /\ obj[objs[j]].valid
  /\ \A k \in 1 .. j - 1 : k # i => ~ obj[objs[k]].valid
  /\ obj[objs[1]].start # obj[objs[i]].start
  /\ obj[objs[1]].start + obj[objs[i]].size = obj[objs[j]].start

Gathered(objs) ==
  FoldLeft(Gather, [blocks |-> <<>>, curr |-> obj[objs[1]].start], objs).blocks

BatchedFree(objs) ==
  LET gone == {o \in ToSet(objs) : obj[o].valid}
  IN  /\ stray' = Strays(objs)
      /\ free' = FoldLeft(Coalesce, free, Gathered(objs))
      /\ obj' = [o \in Obj |-> IF o \in gone THEN [obj[o] EXCEPT !.valid = FALSE] ELSE obj[o]]
      /\ total' = total - MapThenSumSet(LAMBDA o : obj[o].size, gone)
      /\ active' = active - Cardinality(gone)

-----------------------------------------------------------------------------
Batches == {objs \in SeqOf(Obj, MaxBatch) : objs # <<>> /\ IsInjective(objs)}

HandedOut(objs) == \A o \in ToSet(objs) : obj[o].size > 0

(* A batch is any list of objects that were handed out once.  The model    *)
(* ends where a batch strayed: the list does not describe the buffer then. *)
Next ==
  /\ ~ stray
  /\ \/ /\ \/ \E count \in 1 .. MaxBatch, raw \in Raw : Allocate(count, raw)
           \/ \E o \in Obj : RefUp(o) \/ RefDown(o) \/ Pin(o) \/ Unpin(o)
        /\ UNCHANGED stray
     \/ \E objs \in Batches : HandedOut(objs) /\ BatchedFree(objs)

Spec == Init /\ [][Next]_vars

-----------------------------------------------------------------------------
TypeOK ==
  /\ stray \in BOOLEAN
  /\ stray \/ \A b \in free : b.start \in 0 .. Size - 1 /\ b.size \in 1 .. Size
  /\ \A o \in Obj : obj[o].ref \in 0 .. MaxRef /\ obj[o].pin \in 0 .. MaxPin
  /\ total \in 0 .. Size /\ active \in 0 .. Cardinality(Obj)

Holds(b, u) == u \in b.start .. b.start + b.size - 1
InUse == {o \in Obj : obj[o].valid}

(* Every unit of the buffer belongs to one free block or to one object,    *)
(* never to two, whatever was allocated, released twice or freed in a      *)
(* batch - until a batch strays.                                           *)
BufferPartitioned == stray \/
  \A u \in 0 .. Size - 1 :
    Cardinality({b \in free : Holds(b, u)}) + Cardinality({o \in InUse : Holds(obj[o], u)}) = 1

(* Free blocks that touch are one block (memcheck), so what is free can be *)
(* given out again in any size - until a batch strays.                     *)
NoFragments == stray \/ \A b, c \in free : b.start + b.size # c.start

(* The totals that memcheck compares are those of the objects in use, and  *)
(* stay so when a batch strays: memcheck, which adds up sizes, does not    *)
(* see that a block is at the wrong place.                                 *)
CountsAreTrue ==
  total = MapThenSumSet(LAMBDA o : obj[o].size, InUse) /\ active = Cardinality(InUse)

(* Memory nobody refers to and nobody has pinned is free again, in         *)
(* whatever order the references and the pins were given up.               *)
NothingLeaks == \A o \in InUse : obj[o].ref > 0 \/ obj[o].pin > 0

(* Giving up a reference or a pin frees an object only when no reference   *)
(* and no pin is left (ref_count_down, unpin).                             *)
FreedWhenUnused(o) ==
  obj[o].valid /\ ~ obj'[o].valid /\ <<obj[o].ref, obj[o].pin>> # <<obj'[o].ref, obj'[o].pin>>
    => obj'[o].ref = 0 /\ obj'[o].pin = 0
KeptWhileHeld == [][\A o \in Obj : FreedWhenUnused(o)]_vars
=============================================================================
