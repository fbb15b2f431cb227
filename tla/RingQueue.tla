------------------------------- MODULE RingQueue -------------------------------
(***************************************************************************)
(* One ring buffer (src/src/rbuffer.c, RingBuffer) and everything its      *)
(* users may do with it, and why it is a BoundedQueue.                     *)
(***************************************************************************)
EXTENDS Integers, Sequences

CONSTANTS
  Inputs,      \* sequences of elements that are queued
  Sizes,       \* sizes the buffer is given
  Elements     \* what it is made of

ASSUME RingInputs == /\ Inputs \subseteq Seq(Elements) \ {<< >>}
                     /\ Sizes \subseteq Nat

VARIABLES
  ring,        \* the buffer
  taken        \* what was dequeued last

Ring == INSTANCE RingBuffer

RingInit == ring = Ring!NewRing /\ taken = << >>

Enqueue(elements) ==
  /\ ring' = Ring!QueueBytes(ring, elements)
  /\ UNCHANGED taken

(* An empty buffer returns NULL.                                           *)
Dequeue(n) ==
  /\ ring.data_size > 0
  /\ taken' = Ring!Dequeued(ring, n)
  /\ ring' = Ring!DequeueBytes(ring, n)

(* Its users clear a buffer before they give up its memory.                *)
Resize(n) ==
  /\ n = 0 => ring.data_size = 0
  /\ ring' = Ring!Resize(ring, n)
  /\ UNCHANGED taken

Clear == ring' = Ring!Clear(ring) /\ UNCHANGED taken

RingNext ==
  \/ \E elements \in Inputs : Enqueue(elements)
  \/ \E n \in 1 .. ring.size + 1 : Dequeue(n)
  \/ \E n \in Sizes : Resize(n)
  \/ Clear

RingSpec == RingInit /\ [][RingNext]_<<ring, taken>>

-----------------------------------------------------------------------------
(* The positions belong to the buffer, and the writer is as far ahead of   *)
(* the reader as there are elements.                                       *)
RingConsistent ==
  /\ ring.data_size \in 0 .. ring.size
  /\ ring.size > 0 => /\ {ring.read, ring.write} \subseteq 0 .. ring.size - 1
                      /\ ring.write = (ring.read + ring.data_size) % ring.size

Queue == INSTANCE BoundedQueue WITH queue <- Ring!Contents(ring), capacity <- ring.size

(***************************************************************************)
(* Whatever is queued, taken out, resized or cleared, at whatever position *)
(* of the buffer, also across its end and when old elements have to give   *)
(* way: the buffer is a queue, and a reader is given the elements that are *)
(* left in the order in which they were queued.                            *)
(***************************************************************************)
RingIsQueue == Queue!Spec
=============================================================================
