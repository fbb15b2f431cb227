------------------------------ MODULE RingBuffer ------------------------------
(***************************************************************************)
(* A queue of bytes in a buffer of fixed size that is filled in a circle   *)
(* (src/src/rbuffer.c).  New elements that do not fit replace the oldest.  *)
(*                                                                         *)
(* The elements of all buffers of the driver are bytes, so that the size   *)
(* of an element, which the code multiplies with, is 1 here.               *)
(***************************************************************************)
LOCAL INSTANCE Integers
LOCAL INSTANCE Sequences

Smaller(a, b) == IF a < b THEN a ELSE b

NewRing == [data |-> << >>, size |-> 0, data_size |-> 0, read |-> 0, write |-> 0]

(* The first n elements from where reading continues.                      *)
FirstElements(self, n) ==
  [i \in 1 .. n |-> self.data[(self.read + i - 1) % self.size]]

(* What the buffer holds, the oldest element first.                        *)
Contents(self) == IF self.size = 0 THEN << >> ELSE FirstElements(self, self.data_size)

(* The elements that fit move to the new buffer, the rest of which is
   zeroed.  A buffer of size 0 keeps its count of elements.                *)
Resize(self, n) ==
  LET kept == Smaller(self.data_size, n)
      moved == FirstElements(self, kept) IN
  CASE n = self.size -> self
    [] n = 0 /\ n # self.size -> [NewRing EXCEPT !.data_size = self.data_size]
    [] OTHER -> [data |-> [i \in 0 .. n - 1 |-> IF i < kept THEN moved[i + 1] ELSE "NUL"],
                 size |-> n, data_size |-> kept, read |-> 0, write |-> kept % n]

(* (wrong: the oldest elements are overwritten, but still read next) *)
NeverMoves(self, end) == FALSE

(* Do the elements written up to `end` overwrite the next one to read?     *)
MoveRead(self, end) ==
  /\ self.data_size > 0
  /\ IF self.write < end THEN self.write <= self.read /\ self.read < end
                         ELSE self.write <= self.read \/ self.read < end

(* Of more elements than the buffer has room for the first ones are taken. *)
QueueBytes(self, elements) ==
  LET n == Smaller(Len(elements), self.size)
      end == (self.write + n) % self.size
      After(i) == (i - self.write + self.size) % self.size IN
  IF self.size < 1 THEN self
  ELSE [self EXCEPT
         !.data = [i \in DOMAIN @ |-> IF After(i) < n THEN elements[After(i) + 1] ELSE @[i]],
         !.write = end,
         !.data_size = Smaller(@ + n, self.size),
         !.read = IF MoveRead(self, end) THEN end ELSE @]

Dequeued(self, n) == FirstElements(self, Smaller(n, self.data_size))

DequeueBytes(self, n) ==
  IF self.data_size < 1 THEN self
  ELSE [self EXCEPT !.read = (@ + Smaller(n, self.data_size)) % self.size,
                    !.data_size = @ - Smaller(n, self.data_size)]

Clear(self) == [self EXCEPT !.data_size = 0, !.read = 0, !.write = 0]

(* How many elements precede the first one equal to the given, or -1.      *)
Find(self, element) ==
  LET at == {i \in 0 .. self.data_size - 1 :
              self.data[(self.read + i) % self.size] = element} IN
  IF at = {} THEN -1 ELSE CHOOSE i \in at : \A j \in at : i <= j
=============================================================================
