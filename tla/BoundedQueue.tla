----------------------------- MODULE BoundedQueue -----------------------------
(***************************************************************************)
(* What a ring buffer (RingQueue) promises: a queue of at most capacity    *)
(* elements, in which what does not fit replaces the oldest elements.      *)
(***************************************************************************)
EXTENDS Integers, Sequences

CONSTANTS
  Inputs,      \* sequences of elements that are queued, none of them empty
  Sizes        \* capacities the queue is given

VARIABLES
  queue,       \* the elements, the oldest first
  capacity,    \* how many it may hold
  taken        \* what was dequeued last

First(s, n) == IF n < Len(s) THEN SubSeq(s, 1, n) ELSE s
Last(s, n) == IF n < Len(s) THEN SubSeq(s, Len(s) - n + 1, Len(s)) ELSE s

Init == queue = << >> /\ capacity = 0 /\ taken = << >>

Enqueue(elements) ==
  /\ queue' = Last(queue \o First(elements, capacity), capacity)
  /\ UNCHANGED <<capacity, taken>>

Dequeue(n) ==
  /\ queue # << >>
  /\ taken' = First(queue, n)
  /\ queue' = SubSeq(queue, Len(taken') + 1, Len(queue))
  /\ UNCHANGED capacity

Resize(n) ==
  /\ queue' = First(queue, n)
  /\ capacity' = n
  /\ UNCHANGED taken

Clear == queue' = << >> /\ UNCHANGED <<capacity, taken>>

Next ==
  \/ \E elements \in Inputs : Enqueue(elements)
  \/ \E n \in 1 .. Len(queue) : Dequeue(n)
  \/ \E n \in Sizes : Resize(n)
  \/ Clear

Spec == Init /\ [][Next]_<<queue, capacity, taken>>
=============================================================================
