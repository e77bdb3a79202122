------------------------------ MODULE StoreBuffer ------------------------------
(***************************************************************************)
(* The remembered set of an isolate (runtime/vm/store_buffer.h and .cc,    *)
(* thread.cc): old objects that may point to new ones are collected in     *)
(* blocks; a thread fills one block and hands it to the isolate.  A buffer *)
(* is a record                                                             *)
(*   full, partial   the blocks handed over (full_, partial_)              *)
(*   block           the block of each thread (store_buffer_block_)        *)
(*   interrupt       kVMInterrupt is scheduled                             *)
(* and an operation maps a buffer to a buffer.  There is always another    *)
(* empty block (global_empty_ or a new one).                               *)
(***************************************************************************)
EXTENDS Integers, Sequences
LOCAL INSTANCE SequencesExt
LOCAL INSTANCE FiniteSetsExt

CONSTANTS
    BlockSize,      \* kStoreBufferBlockSize
    kMaxNonEmpty

EmptyBlock == << >>
IsFull(block) == Len(block) = BlockSize

NewBuffer(threads) ==
    [full |-> << >>, partial |-> << >>, block |-> [t \in threads |-> EmptyBlock],
     interrupt |-> FALSE]

(* PushBlockImpl: an empty block goes back to the global list.             *)
PushBlock(b, block) ==
    CASE IsFull(block) -> [b EXCEPT !.full = <<block>> \o @]
      [] block = EmptyBlock -> b
      [] OTHER -> [b EXCEPT !.partial = <<block>> \o @]

Overflowed(b) == Len(b.full) + Len(b.partial) > kMaxNonEmpty

(* The rest of StoreBuffer::PushBlock under kCheckThreshold.               *)
CheckThreshold(b) == IF Overflowed(b) THEN [b EXCEPT !.interrupt = TRUE] ELSE b

Release(b, t) == PushBlock([b EXCEPT !.block[t] = EmptyBlock], b.block[t])

(* PopNonFullBlock.                                                        *)
Acquire(b, t) ==
    IF b.partial = << >>
      THEN [b EXCEPT !.block[t] = EmptyBlock]
      ELSE [b EXCEPT !.block[t] = Head(b.partial), !.partial = Tail(@)]

Pushed(b, t, obj) == [b EXCEPT !.block[t] = Append(@, obj)]

AddObject(b, t, obj) ==
    LET p == Pushed(b, t, obj)
    IN  IF IsFull(p.block[t]) THEN Acquire(CheckThreshold(Release(p, t)), t) ELSE p

AddObjectGC(b, t, obj) ==
    LET p == Pushed(b, t, obj)
    IN  IF IsFull(p.block[t]) THEN Acquire(Release(p, t), t) ELSE p

(* Thread::PrepareForGC, by the thread that collects.                      *)
PrepareForGC(b, t) == Release(b, t)

(* Blocks() hands all blocks to the caller, Reset throws them away.        *)
TakeAll(b) == [b EXCEPT !.full = << >>, !.partial = << >>]

(* What the isolate holds: Blocks() moves the partial blocks in front.     *)
Handed(b) == FlattenSeq(b.partial \o b.full)

(* How often an object is in the buffer or in the block of a thread.       *)
Occurrences(b, obj) ==
    LET In(s) == Len(SelectSeq(s, LAMBDA x : x = obj))
    IN  In(Handed(b)) + MapThenSumSet(LAMBDA t : In(b.block[t]), DOMAIN b.block)

===============================================================================
