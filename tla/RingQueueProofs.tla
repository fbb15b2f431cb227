---------------------------- MODULE RingQueueProofs ----------------------------
(***************************************************************************)
(* Proofs about the ring buffer (RingQueue; src/src/rbuffer.c): for every  *)
(* size and whatever is queued, its positions stay consistent and it       *)
(* implements the queue of BoundedQueue.                                   *)
(***************************************************************************)
EXTENDS RingQueue, SequenceTheorems, TLAPS

Held == Elements \cup {"NUL"}

(* What holds of every buffer of elements of S that the operations leave   *)
(* behind.                                                                 *)
IsRing(self, S) ==
  /\ self = [data |-> self.data, size |-> self.size, data_size |-> self.data_size,
             read |-> self.read, write |-> self.write]
  /\ self.size \in Nat
  /\ self.data_size \in 0 .. self.size
  /\ self.size > 0 => /\ self.data \in [0 .. self.size - 1 -> S]
                      /\ self.read \in 0 .. self.size - 1
                      /\ self.write \in 0 .. self.size - 1
                      /\ self.write = (self.read + self.data_size) % self.size

(* A position is never more than one turn ahead.                           *)
Turn(a, s) == IF a < s THEN a ELSE a - s

LEMMA Wrap ==
  ASSUME NEW s \in Nat \ {0}, NEW a \in 0 .. 2 * s - 1
  PROVE  a % s = Turn(a, s) /\ a % s \in 0 .. s - 1
<1>1. CASE a < s  BY <1>1 DEF Turn
<1>2. CASE a >= s
  <2>1. a - s \in 0 .. s - 1  BY <1>2
  <2>2. a = 1 * s + (a - s)  OBVIOUS
  <2> QED BY <2>1, <2>2, <1>2 DEF Turn
<1> QED BY <1>1, <1>2

(* The reader is moved exactly if the n elements that are written from w   *)
(* to end do not fit beside the d that are left from r on.                 *)
Moves(d, r, w, end) ==
  d > 0 /\ IF w < end THEN w <= r /\ r < end ELSE w <= r \/ r < end

LEMMA ReaderMoves ==
  ASSUME NEW s \in Nat, NEW d \in Nat, d <= s, NEW r \in Nat, r < s,
         NEW n \in Nat, 1 <= n, n <= s,
         NEW w \in Nat, w = Turn(r + d, s), NEW end \in Nat, end = Turn(w + n, s)
  PROVE  (IF Moves(d, r, w, end) THEN end ELSE r) = IF d + n > s THEN end ELSE r
BY DEF Turn, Moves

LEMMA WriterStaysAhead ==
  ASSUME NEW s \in Nat, NEW d \in Nat, d <= s, NEW r \in Nat, r < s,
         NEW n \in Nat, 1 <= n, n <= s,
         NEW w \in Nat, w = Turn(r + d, s), NEW end \in Nat, end = Turn(w + n, s)
  PROVE  end = Turn((IF d + n > s THEN end ELSE r) + (IF d + n < s THEN d + n ELSE s), s)
BY DEF Turn

(* Element k of the m that are left is element j of the old and the new    *)
(* ones together, and its position p was written exactly if it is new.     *)
ElementStays(s, d, r, n, w, end, m, k, p, j, after, new, data) ==
  /\ d <= s /\ r < s /\ 1 <= n /\ n <= s
  /\ w = Turn(r + d, s) /\ end = Turn(w + n, s)
  /\ m = (IF d + n < s THEN d + n ELSE s) /\ 1 <= k /\ k <= m
  /\ p = Turn((IF d + n > s THEN end ELSE r) + k - 1, s)
  /\ j = d + n - m + k
  /\ after = IF p < w THEN p - w + s ELSE p - w
  => (IF after < n THEN new[after + 1] ELSE data[p])
       = IF j <= d THEN data[Turn(r + j - 1, s)] ELSE new[j - d]

LEMMA ElementsStay ==
  ASSUME NEW s \in Nat, NEW d \in Nat, NEW r \in Nat, NEW n \in Nat,
         NEW w \in Nat, NEW end \in Nat, NEW m \in Nat, NEW k \in Nat,
         NEW p \in Nat, NEW j \in Int, NEW after \in Int,
         NEW new, NEW data
  PROVE  ElementStays(s, d, r, n, w, end, m, k, p, j, after, new, data)
BY DEF Turn, ElementStays

-----------------------------------------------------------------------------
(* Reading goes on from the position `read`, at most one turn.             *)
LEMMA ElementsOfRing ==
  ASSUME NEW S, NEW self, IsRing(self, S), self.size > 0,
         NEW n \in 0 .. self.size
  PROVE  /\ Ring!FirstElements(self, n) \in Seq(S)
         /\ Len(Ring!FirstElements(self, n)) = n
         /\ \A k \in 1 .. n : Turn(self.read + k - 1, self.size) \in 0 .. self.size - 1
         /\ \A k \in 1 .. n : Ring!FirstElements(self, n)[k] =
               self.data[Turn(self.read + k - 1, self.size)]
<1> DEFINE s == self.size
           r == self.read
           F == Ring!FirstElements(self, n)
<1>1. /\ s \in Nat \ {0} /\ r \in 0 .. s - 1 /\ n \in 0 .. s
      /\ self.data \in [0 .. s - 1 -> S]
  BY DEF IsRing
<1>2. F = [k \in 1 .. n |-> self.data[(r + k - 1) % s]]
  BY DEF Ring!FirstElements
<1>3. ASSUME NEW k \in 1 .. n
      PROVE  /\ (r + k - 1) % s = Turn(r + k - 1, s)
             /\ (r + k - 1) % s \in 0 .. s - 1
  <2> DEFINE a == r + k - 1
  <2> HIDE DEF s, r, F
  <2>1. a \in 0 .. 2 * s - 1  BY <1>1
  <2> HIDE DEF a
  <2>2. a % s = Turn(a, s)
    BY <2>1, <1>1, Wrap
  <2>3. a % s \in 0 .. s - 1
    BY <1>1, <2>1, <2>2
  <2> QED BY <1>1, <2>2, <2>3 DEF a
<1> HIDE DEF s, r, F
<1>4. F \in [1 .. n -> S]
  BY <1>1, <1>2, <1>3
<1>5. n \in Nat  BY <1>1
<1>6. F \in Seq(S) /\ Len(F) = n
  BY <1>4, <1>5
<1>7. \A k \in 1 .. n : F[k] = self.data[Turn(r + k - 1, s)]
  BY <1>2, <1>3
<1> QED BY <1>3, <1>6, <1>7 DEF s, r, F

LEMMA ContentsOfRing ==
  ASSUME NEW S, NEW self, IsRing(self, S)
  PROVE  /\ Ring!Contents(self) \in Seq(S)
         /\ Len(Ring!Contents(self)) = self.data_size
<1>1. CASE self.size = 0
  BY <1>1 DEF IsRing, Ring!Contents
<1>2. CASE self.size > 0
  <2>1. self.data_size \in 0 .. self.size  BY DEF IsRing
  <2>2. /\ Ring!FirstElements(self, self.data_size) \in Seq(S)
        /\ Len(Ring!FirstElements(self, self.data_size)) = self.data_size
    BY <1>2, <2>1, ElementsOfRing
  <2>3. self.size # 0  BY <1>2 DEF IsRing
  <2> QED BY <2>2, <2>3 DEF Ring!Contents
<1> QED BY <1>1, <1>2 DEF IsRing

(* Reading on from where c elements were taken out.                        *)
TurnsOn(s, r, c, e) ==
  r < s /\ c + e <= s => Turn(Turn(r + c, s) + e, s) = Turn(r + c + e, s)

LEMMA TurnOn ==
  ASSUME NEW s \in Nat, NEW r \in Nat, NEW c \in Nat, NEW e \in Nat
  PROVE  TurnsOn(s, r, c, e)
BY DEF Turn, TurnsOn

-----------------------------------------------------------------------------
(* What queueing does to each field, for the values the code computes.     *)
LEMMA QueuedFields ==
  ASSUME NEW S, NEW self, IsRing(self, S), self.size > 0,
         NEW elements \in Seq(S) \ {<< >>}
  PROVE  LET s == self.size
             d == self.data_size
             r == self.read
             w == self.write
             n == Ring!Smaller(Len(elements), s)
             end == Turn(w + n, s)
             new == Ring!QueueBytes(self, elements)
         IN
         /\ s \in Nat \ {0} /\ d \in 0 .. s /\ r \in 0 .. s - 1 /\ w \in 0 .. s - 1
         /\ self.data \in [0 .. s - 1 -> S]
         /\ n \in 1 .. s /\ n <= Len(elements) /\ Len(elements) \in Nat
         /\ end \in 0 .. s - 1
         /\ w = Turn(r + d, s)
         /\ new = [data |-> new.data, size |-> s,
                   data_size |-> IF d + n < s THEN d + n ELSE s,
                   read |-> IF d + n > s THEN end ELSE r,
                   write |-> end]
         /\ new.data = [p \in 0 .. s - 1 |->
              IF (IF p < w THEN p - w + s ELSE p - w) < n
                THEN elements[(IF p < w THEN p - w + s ELSE p - w) + 1]
                ELSE self.data[p]]
<1> DEFINE s == self.size
           d == self.data_size
           r == self.read
           w == self.write
           n == Ring!Smaller(Len(elements), s)
           end == Turn(w + n, s)
           new == Ring!QueueBytes(self, elements)
<1>1. /\ s \in Nat \ {0} /\ d \in 0 .. s /\ r \in 0 .. s - 1 /\ w \in 0 .. s - 1
      /\ self.data \in [0 .. s - 1 -> S]
  BY DEF IsRing
<1>2. Len(elements) \in Nat \ {0}
  BY EmptySeq
<1>3. n \in 1 .. s /\ n <= Len(elements)
  BY <1>1, <1>2 DEF Ring!Smaller
<1>4. w = Turn(r + d, s)
  <2>1. r + d \in 0 .. 2 * s - 1  BY <1>1
  <2>2. (r + d) % s = Turn(r + d, s)  BY <2>1, <1>1, Wrap
  <2>3. w = (r + d) % s  BY DEF IsRing
  <2> QED BY <2>2, <2>3
<1>5. (w + n) % s = end /\ end \in 0 .. s - 1
  <2>1. w + n \in 0 .. 2 * s - 1  BY <1>1, <1>3
  <2> QED BY <2>1, <1>1, Wrap
<1>6. ASSUME NEW p \in 0 .. s - 1
      PROVE  (p - w + s) % s = IF p < w THEN p - w + s ELSE p - w
  <2>1. p - w + s \in 0 .. 2 * s - 1  BY <1>1
  <2>2. (p - w + s) % s = Turn(p - w + s, s)  BY <2>1, <1>1, Wrap
  <2> QED BY <1>1, <2>2 DEF Turn
<1>7. (IF Ring!MoveRead(self, end) THEN end ELSE r) = IF d + n > s THEN end ELSE r
  <2>1. Ring!MoveRead(self, end) <=> Moves(d, r, w, end)
    BY DEF Ring!MoveRead, Moves
  <2>2. end = Turn(w + n, s)  OBVIOUS
  <2> HIDE DEF s, d, r, w, n, end, new
  <2>3. /\ s \in Nat /\ d \in Nat /\ d <= s /\ r \in Nat /\ r < s
        /\ n \in Nat /\ 1 <= n /\ n <= s /\ w \in Nat /\ end \in Nat
    BY <1>1, <1>3, <1>5
  <2>4. (IF Moves(d, r, w, end) THEN end ELSE r) = IF d + n > s THEN end ELSE r
    BY <1>4, <2>2, <2>3, ReaderMoves
  <2> QED BY <2>1, <2>4
<1>8. new = [self EXCEPT
              !.data = [p \in DOMAIN self.data |->
                         IF (p - w + s) % s < n THEN elements[((p - w + s) % s) + 1]
                                                ELSE self.data[p]],
              !.write = end,
              !.data_size = Ring!Smaller(d + n, s),
              !.read = IF Ring!MoveRead(self, end) THEN end ELSE r]
  <2>1. ~ (self.size < 1) /\ Ring!Smaller(Len(elements), self.size) = n
    BY <1>1
  <2>2. (self.write + n) % self.size = end  BY <1>5
  <2> QED BY <2>1, <2>2 DEF Ring!QueueBytes
<1>9. new.data = [p \in 0 .. s - 1 |->
              IF (IF p < w THEN p - w + s ELSE p - w) < n
                THEN elements[(IF p < w THEN p - w + s ELSE p - w) + 1]
                ELSE self.data[p]]
  <2>1. DOMAIN self.data = 0 .. s - 1  BY <1>1
  <2>2. new.data = [p \in 0 .. s - 1 |->
                     IF (p - w + s) % s < n THEN elements[((p - w + s) % s) + 1]
                                            ELSE self.data[p]]
    BY <1>8, <2>1 DEF IsRing
  <2> QED BY <1>6, <2>2
<1>10. new = [data |-> new.data, size |-> s,
             data_size |-> IF d + n < s THEN d + n ELSE s,
             read |-> IF d + n > s THEN end ELSE r,
             write |-> end]
  <2> DEFINE size == Ring!Smaller(d + n, s)
             reader == IF Ring!MoveRead(self, end) THEN end ELSE r
  <2>1. self = [data |-> self.data, size |-> s, data_size |-> d, read |-> r, write |-> w]
    BY DEF IsRing
  <2>2. size = IF d + n < s THEN d + n ELSE s  BY DEF Ring!Smaller
  <2>3. reader = IF d + n > s THEN end ELSE r  BY <1>7
  <2>4. new = [data |-> new.data, size |-> s, data_size |-> size,
               read |-> reader, write |-> end]
    BY <1>8, <2>1
  <2> HIDE DEF size, reader
  <2> QED BY <2>2, <2>3, <2>4
<1> QED BY <1>1, <1>2, <1>3, <1>4, <1>5, <1>9, <1>10

LEMMA QueueBytesKeepsSize ==
  ASSUME NEW S, NEW self, IsRing(self, S), NEW elements
  PROVE  Ring!QueueBytes(self, elements).size = self.size
<1>1. self = [data |-> self.data, size |-> self.size, data_size |-> self.data_size,
              read |-> self.read, write |-> self.write]
  BY DEF IsRing
<1>2. CASE self.size < 1  BY <1>2 DEF Ring!QueueBytes
<1>3. CASE ~ (self.size < 1)  BY <1>1, <1>3 DEF Ring!QueueBytes
<1> QED BY <1>2, <1>3

LEMMA QueueBytesKeepsRing ==
  ASSUME NEW S, NEW self, IsRing(self, S),
         NEW elements \in Seq(S) \ {<< >>}
  PROVE  IsRing(Ring!QueueBytes(self, elements), S)
<1> DEFINE new == Ring!QueueBytes(self, elements)
           s == self.size
           d == self.data_size
           r == self.read
           w == self.write
           n == Ring!Smaller(Len(elements), s)
           end == Turn(w + n, s)
<1>1. CASE s < 1  BY <1>1 DEF Ring!QueueBytes
<1>2. CASE s > 0
  <2>1. /\ s \in Nat \ {0} /\ d \in 0 .. s /\ r \in 0 .. s - 1 /\ w \in 0 .. s - 1
        /\ self.data \in [0 .. s - 1 -> S]
        /\ n \in 1 .. s /\ n <= Len(elements) /\ Len(elements) \in Nat
        /\ end \in 0 .. s - 1
        /\ w = Turn(r + d, s)
        /\ new = [data |-> new.data, size |-> s,
                  data_size |-> IF d + n < s THEN d + n ELSE s,
                  read |-> IF d + n > s THEN end ELSE r,
                  write |-> end]
        /\ new.data = [p \in 0 .. s - 1 |->
             IF (IF p < w THEN p - w + s ELSE p - w) < n
               THEN elements[(IF p < w THEN p - w + s ELSE p - w) + 1]
               ELSE self.data[p]]
    BY <1>2, QueuedFields
  <2>2. /\ new.size = s
        /\ new.data_size = IF d + n < s THEN d + n ELSE s
        /\ new.read = IF d + n > s THEN end ELSE r
        /\ new.write = end
    BY <2>1
  <2>3. new.data \in [0 .. s - 1 -> S]
    <3>1. \A i \in 1 .. Len(elements) : elements[i] \in S  OBVIOUS
    <3> HIDE DEF new, s, n, w, d, r, end
    <3>2. ASSUME NEW p \in 0 .. s - 1
          PROVE  (IF (IF p < w THEN p - w + s ELSE p - w) < n
                    THEN elements[(IF p < w THEN p - w + s ELSE p - w) + 1]
                    ELSE self.data[p]) \in S
      <4> DEFINE after == IF p < w THEN p - w + s ELSE p - w
      <4>1. after \in Nat  BY <2>1
      <4> HIDE DEF after
      <4>2. after < n => after + 1 \in 1 .. Len(elements)  BY <2>1, <4>1
      <4>3. (IF after < n THEN elements[after + 1] ELSE self.data[p]) \in S
        BY <2>1, <3>1, <4>2
      <4> QED BY <4>3 DEF after
    <3> QED BY <2>1, <3>2
  <2>4. end = (new.read + new.data_size) % s
    <3>1. end = Turn(w + n, s)  OBVIOUS
    <3> HIDE DEF new, s, n, w, d, r, end
    <3>2. /\ s \in Nat /\ d \in Nat /\ d <= s /\ r \in Nat /\ r < s
          /\ n \in Nat /\ 1 <= n /\ n <= s /\ w \in Nat /\ end \in Nat
      BY <2>1
    <3>3. end = Turn(new.read + new.data_size, s)
      BY <2>1, <2>2, <3>1, <3>2, WriterStaysAhead
    <3>4. new.read + new.data_size \in 0 .. 2 * s - 1
      BY <2>1, <2>2, SMTT(20)
    <3> QED BY <2>1, <3>3, <3>4, Wrap
  <2> HIDE DEF new, s, n, w, d, r, end
  <2>5. /\ new.data_size \in 0 .. s /\ new.read \in 0 .. s - 1 /\ new.write \in 0 .. s - 1
    BY <2>1, <2>2
  <2>6. new = [data |-> new.data, size |-> new.size, data_size |-> new.data_size,
               read |-> new.read, write |-> new.write]
    BY <2>1, <2>2
  <2>7. IsRing(new, S)
    BY <2>1, <2>2, <2>3, <2>4, <2>5, <2>6 DEF IsRing
  <2> QED BY <2>7 DEF new
<1> QED BY <1>1, <1>2, SMTT(20) DEF IsRing

-----------------------------------------------------------------------------
(* The abstract queue's first and last elements of a sequence.             *)
LEMMA FirstOf ==
  ASSUME NEW S, NEW q \in Seq(S), NEW n \in Nat
  PROVE  /\ Queue!First(q, n) \in Seq(S)
         /\ Len(Queue!First(q, n)) = IF n < Len(q) THEN n ELSE Len(q)
         /\ \A i \in 1 .. Len(Queue!First(q, n)) : Queue!First(q, n)[i] = q[i]
<1>1. CASE n < Len(q)
  <2>1. Queue!First(q, n) = SubSeq(q, 1, n)  BY <1>1 DEF Queue!First
  <2>2. 1 \in 1 .. Len(q) + 1 /\ n \in 1 - 1 .. Len(q)  BY <1>1
  <2>3. /\ SubSeq(q, 1, n) \in Seq(S)
        /\ Len(SubSeq(q, 1, n)) = n - 1 + 1
        /\ \A i \in 1 .. n - 1 + 1 : SubSeq(q, 1, n)[i] = q[1 + i - 1]
    BY <2>2, SubSeqProperties
  <2> QED BY <1>1, <2>1, <2>3
<1>2. CASE ~ (n < Len(q))  BY <1>2 DEF Queue!First
<1> QED BY <1>1, <1>2

LEMMA LastOf ==
  ASSUME NEW S, NEW q \in Seq(S), NEW n \in Nat
  PROVE  LET m == IF n < Len(q) THEN n ELSE Len(q) IN
         /\ Queue!Last(q, n) \in Seq(S)
         /\ Len(Queue!Last(q, n)) = m
         /\ \A i \in 1 .. m : Queue!Last(q, n)[i] = q[Len(q) - m + i]
<1>1. CASE n < Len(q)
  <2> DEFINE f == Len(q) - n + 1
  <2>1. Queue!Last(q, n) = SubSeq(q, f, Len(q))  BY <1>1 DEF Queue!Last
  <2>2. f \in 1 .. Len(q) + 1 /\ Len(q) \in f - 1 .. Len(q)  BY <1>1
  <2> HIDE DEF f
  <2>3. /\ SubSeq(q, f, Len(q)) \in Seq(S)
        /\ Len(SubSeq(q, f, Len(q))) = Len(q) - f + 1
        /\ \A i \in 1 .. Len(q) - f + 1 : SubSeq(q, f, Len(q))[i] = q[f + i - 1]
    BY <2>2, SubSeqProperties
  <2> QED BY <1>1, <2>1, <2>3, SMTT(20) DEF f
<1>2. CASE ~ (n < Len(q))  BY <1>2 DEF Queue!Last
<1> QED BY <1>1, <1>2

-----------------------------------------------------------------------------
(* Queueing in the ring is queueing in the abstract queue: of the old      *)
(* elements and those of the new ones that fit into an empty buffer, the   *)
(* last ones remain.                                                       *)
LEMMA QueuedContents ==
  ASSUME NEW S, NEW self, IsRing(self, S),
         NEW elements \in Seq(S) \ {<< >>}
  PROVE  Ring!Contents(Ring!QueueBytes(self, elements))
           = Queue!Last(Ring!Contents(self) \o Queue!First(elements, self.size), self.size)
<1> DEFINE new == Ring!QueueBytes(self, elements)
           s == self.size
           d == self.data_size
           r == self.read
           w == self.write
           n == Ring!Smaller(Len(elements), s)
           end == Turn(w + n, s)
           m == IF d + n < s THEN d + n ELSE s
           old == Ring!Contents(self)
           fitting == Queue!First(elements, s)
           both == old \o fitting
<1>1. s \in Nat /\ d \in 0 .. s  BY DEF IsRing
<1>2. old \in Seq(S) /\ Len(old) = d  BY ContentsOfRing
<1>3. /\ fitting \in Seq(S)
      /\ Len(fitting) = IF s < Len(elements) THEN s ELSE Len(elements)
      /\ \A i \in 1 .. Len(fitting) : fitting[i] = elements[i]
  BY <1>1, FirstOf
<1>4. /\ both \in Seq(S)
      /\ Len(both) = d + Len(fitting)
      /\ \A i \in 1 .. d + Len(fitting) :
           both[i] = IF i <= d THEN old[i] ELSE fitting[i - d]
  <2> HIDE DEF old, fitting, d
  <2> QED BY <1>2, <1>3, ConcatProperties, ZenonT(30)
<1>5. CASE s = 0
  <2>1. new = self  BY <1>5 DEF Ring!QueueBytes
  <2>2. old = << >>  BY <1>5 DEF Ring!Contents
  <2>3. Len(fitting) = 0 /\ d = 0  BY <1>1, <1>3, <1>5
  <2>4. Len(both) = 0  BY <1>4, <2>3
  <2>5. both = << >>  BY <1>4, <2>4, EmptySeq
  <2>6. Queue!Last(both, s) = both  BY <1>5, <2>4 DEF Queue!Last
  <2> QED BY <2>1, <2>2, <2>5, <2>6
<1>6. CASE s > 0
  <2>1. /\ s \in Nat \ {0} /\ d \in 0 .. s /\ r \in 0 .. s - 1 /\ w \in 0 .. s - 1
        /\ n \in 1 .. s /\ n <= Len(elements) /\ Len(elements) \in Nat
        /\ end \in 0 .. s - 1
        /\ w = Turn(r + d, s)
        /\ new.size = s /\ new.data_size = m
        /\ new.read = IF d + n > s THEN end ELSE r
        /\ new.data = [p \in 0 .. s - 1 |->
             IF (IF p < w THEN p - w + s ELSE p - w) < n
               THEN elements[(IF p < w THEN p - w + s ELSE p - w) + 1]
               ELSE self.data[p]]
    BY <1>6, QueuedFields
  <2>2. n = Len(fitting)
    BY <1>1, <1>3, <2>1 DEF Ring!Smaller
  <2>3. end = Turn(w + n, s) /\ m = IF d + n < s THEN d + n ELSE s  OBVIOUS
  <2>4. IsRing(new, S)  BY QueueBytesKeepsRing
  <2>5. Ring!Contents(new) \in Seq(S) /\ Len(Ring!Contents(new)) = m
    BY <2>1, <2>4, ContentsOfRing
  <2>6. \A k \in 1 .. m : /\ Ring!Contents(new)[k] = new.data[Turn(new.read + k - 1, s)]
                          /\ Turn(new.read + k - 1, s) \in 0 .. s - 1
    <3>1. m \in 0 .. new.size /\ new.size > 0  BY <1>6, <2>1, SMTT(20)
    <3>2. Ring!Contents(new) = Ring!FirstElements(new, m)
      BY <2>1, <3>1 DEF Ring!Contents
    <3> HIDE DEF new, m, s
    <3>3. \A k \in 1 .. m : /\ Ring!FirstElements(new, m)[k] = new.data[Turn(new.read + k - 1, new.size)]
                            /\ Turn(new.read + k - 1, new.size) \in 0 .. new.size - 1
      BY <2>4, <3>1, ElementsOfRing
    <3> QED BY <2>1, <3>2, <3>3
  <2>7. \A i \in 1 .. d : old[i] = self.data[Turn(r + i - 1, s)]
    <3>1. old = Ring!FirstElements(self, d)  BY <1>6 DEF Ring!Contents
    <3> QED BY <1>1, <1>6, <3>1, ElementsOfRing
  <2>8. LET l == IF s < Len(both) THEN s ELSE Len(both) IN
        /\ Queue!Last(both, s) \in Seq(S)
        /\ Len(Queue!Last(both, s)) = l
        /\ \A i \in 1 .. l : Queue!Last(both, s)[i] = both[Len(both) - l + i]
    <3> HIDE DEF both, s
    <3> QED BY <1>1, <1>4, LastOf
  <2> HIDE DEF new, s, d, r, w, n, end, m, old, fitting, both
  <2>9. /\ s \in Nat /\ d \in Nat /\ d <= s /\ r \in Nat /\ r < s
         /\ n \in Nat /\ 1 <= n /\ n <= s /\ w \in Nat /\ end \in Nat
    BY <2>1
  <2>10. m \in Nat /\ m <= d + n /\ m = IF s < d + n THEN s ELSE d + n
    BY <2>3, <2>9
  <2>11. w = Turn(r + d, s)  BY <2>1
  <2>12. /\ Len(Queue!Last(both, s)) = m
        /\ \A i \in 1 .. m : Queue!Last(both, s)[i] = both[d + n - m + i]
    <3>1. Len(both) = d + n  BY <1>4, <2>2
    <3>2. (IF s < Len(both) THEN s ELSE Len(both)) = m
      BY <2>10, <3>1
    <3> DEFINE l == IF s < Len(both) THEN s ELSE Len(both)
    <3>3. /\ Len(Queue!Last(both, s)) = l
          /\ \A i \in 1 .. l : Queue!Last(both, s)[i] = both[Len(both) - l + i]
      BY <2>8
    <3>4. l = m  BY <3>2
    <3> HIDE DEF l
    <3>5. Len(both) - l = d + n - m  BY <2>9, <2>10, <3>1, <3>4
    <3> QED BY <3>3, <3>4, <3>5, Zenon
  <2>13. ASSUME NEW k \in 1 .. m
         PROVE  Ring!Contents(new)[k] = Queue!Last(both, s)[k]
    <3> DEFINE p == Turn((IF d + n > s THEN end ELSE r) + k - 1, s)
               j == d + n - m + k
               after == IF p < w THEN p - w + s ELSE p - w
    <3>1. Ring!Contents(new)[k] = new.data[p] /\ p \in 0 .. s - 1
      BY <2>1, <2>6
    <3>2. new.data[p] = IF after < n THEN elements[after + 1] ELSE self.data[p]
      BY <2>1, <3>1
    <3>3. j \in 1 .. d + n /\ j \in Int
      BY <2>9, <2>10
    <3>4. /\ k \in Nat /\ 1 <= k /\ k <= m
          /\ p \in Nat /\ after \in Int
      <4> HIDE DEF p
      <4> QED BY <2>9, <2>10, <3>1
    <3>5. /\ p = Turn((IF d + n > s THEN end ELSE r) + k - 1, s)
          /\ j = d + n - m + k
          /\ after = IF p < w THEN p - w + s ELSE p - w
      OBVIOUS
    <3> HIDE DEF p, j, after
    <3>6. (IF after < n THEN elements[after + 1] ELSE self.data[p])
            = IF j <= d THEN self.data[Turn(r + j - 1, s)] ELSE elements[j - d]
      <4>1. ElementStays(s, d, r, n, w, end, m, k, p, j, after, elements, self.data)
        BY <2>9, <2>10, <3>3, <3>4, ElementsStay
      <4> QED BY <2>3, <2>9, <2>11, <3>4, <3>5, <4>1, Zenon DEF ElementStays
    <3>7. Queue!Last(both, s)[k] = both[j]  BY <2>12 DEF j
    <3>8. both[j] = IF j <= d THEN old[j] ELSE fitting[j - d]
      BY <1>4, <2>2, <3>3
    <3>9. CASE j <= d
      <4>1. old[j] = self.data[Turn(r + j - 1, s)]  BY <2>7, <2>9, <3>3, <3>9
      <4> QED BY <3>1, <3>2, <3>6, <3>7, <3>8, <3>9, <4>1
    <3>10. CASE ~ (j <= d)
      <4>1. j - d \in 1 .. Len(fitting)  BY <2>2, <2>9, <3>3, <3>10
      <4>2. fitting[j - d] = elements[j - d]  BY <1>3, <4>1
      <4> QED BY <3>1, <3>2, <3>6, <3>7, <3>8, <3>10, <4>2
    <3> QED BY <3>9, <3>10
  <2>14. Ring!Contents(new) = Queue!Last(both, s)
    BY <2>5, <2>8, <2>12, <2>13, SeqEqual
  <2> QED BY <2>14 DEF new, both, s, old, fitting
<1> QED BY <1>1, <1>5, <1>6

-----------------------------------------------------------------------------
LEMMA DequeuedIsFirst ==
  ASSUME NEW S, NEW self, IsRing(self, S), self.data_size > 0, NEW n \in Nat
  PROVE  /\ Ring!Dequeued(self, n) = Queue!First(Ring!Contents(self), n)
         /\ Len(Ring!Dequeued(self, n)) = Ring!Smaller(n, self.data_size)
<1> DEFINE d == self.data_size
           c == Ring!Smaller(n, d)
           q == Ring!Contents(self)
<1>1. self.size > 0 /\ self.size \in Nat /\ d \in 0 .. self.size  BY DEF IsRing
<1>2. c \in 0 .. self.size /\ c \in 0 .. d /\ c = IF n < d THEN n ELSE d
  BY <1>1 DEF Ring!Smaller
<1>3. q \in Seq(S) /\ Len(q) = d  BY ContentsOfRing
<1>4. q = Ring!FirstElements(self, d)  BY <1>1 DEF Ring!Contents
<1>5. \A k \in 1 .. d : q[k] = self.data[Turn(self.read + k - 1, self.size)]
  BY <1>1, <1>4, ElementsOfRing
<1> HIDE DEF c, q
<1>6. /\ Ring!FirstElements(self, c) \in Seq(S)
      /\ Len(Ring!FirstElements(self, c)) = c
      /\ \A k \in 1 .. c : Ring!FirstElements(self, c)[k]
                            = self.data[Turn(self.read + k - 1, self.size)]
  BY <1>1, <1>2, ElementsOfRing
<1>7. /\ Queue!First(q, n) \in Seq(S)
      /\ Len(Queue!First(q, n)) = c
      /\ \A k \in 1 .. c : Queue!First(q, n)[k] = q[k]
  <2>1. /\ Queue!First(q, n) \in Seq(S)
        /\ Len(Queue!First(q, n)) = IF n < Len(q) THEN n ELSE Len(q)
        /\ \A k \in 1 .. Len(Queue!First(q, n)) : Queue!First(q, n)[k] = q[k]
    BY <1>3, FirstOf
  <2> QED BY <1>2, <1>3, <2>1
<1>8. \A k \in 1 .. c : Ring!FirstElements(self, c)[k] = Queue!First(q, n)[k]
  BY <1>1, <1>2, <1>5, <1>6, <1>7
<1>9. Ring!FirstElements(self, c) = Queue!First(q, n)
  BY <1>6, <1>7, <1>8, SeqEqual
<1> QED BY <1>6, <1>9 DEF c, q, Ring!Dequeued

LEMMA DequeuedRing ==
  ASSUME NEW S, NEW self, IsRing(self, S), self.data_size > 0, NEW n \in Nat
  PROVE  LET c == Ring!Smaller(n, self.data_size)
             q == Ring!Contents(self) IN
         /\ IsRing(Ring!DequeueBytes(self, n), S)
         /\ Ring!DequeueBytes(self, n).size = self.size
         /\ Ring!Contents(Ring!DequeueBytes(self, n)) = SubSeq(q, c + 1, Len(q))
<1> DEFINE s == self.size
           d == self.data_size
           r == self.read
           c == Ring!Smaller(n, d)
           q == Ring!Contents(self)
           new == Ring!DequeueBytes(self, n)
<1>1. /\ s \in Nat /\ s > 0 /\ d \in 0 .. s /\ r \in 0 .. s - 1 /\ d > 0
      /\ self.data \in [0 .. s - 1 -> S] /\ self.write \in 0 .. s - 1
  BY DEF IsRing
<1>2. c \in 0 .. d
  BY <1>1 DEF Ring!Smaller
<1>3. (r + c) % s = Turn(r + c, s) /\ Turn(r + c, s) \in 0 .. s - 1
  <2> HIDE DEF s, d, r, c
  <2>1. r + c \in 0 .. 2 * s - 1 /\ s \in Nat \ {0}  BY <1>1, <1>2
  <2>2. (r + c) % s = Turn(r + c, s) /\ (r + c) % s \in 0 .. s - 1  BY <2>1, Wrap
  <2> QED BY <2>2
<1>4. /\ new = [data |-> self.data, size |-> s, data_size |-> d - c,
                read |-> Turn(r + c, s), write |-> self.write]
      /\ new.size = s /\ new.data_size = d - c /\ new.read = Turn(r + c, s)
      /\ new.data = self.data /\ new.write = self.write
  <2>1. ~ (self.data_size < 1)  BY <1>1
  <2>2. new = [self EXCEPT !.read = (r + c) % s, !.data_size = d - c]
    BY <2>1 DEF Ring!DequeueBytes
  <2> QED BY <1>3, <2>2 DEF IsRing
<1>5. self.write = (r + d) % s  BY <1>1 DEF IsRing
<1>6. q \in Seq(S) /\ Len(q) = d
  BY <1>1, ContentsOfRing
<1>7. \A k \in 1 .. d : q[k] = self.data[Turn(r + k - 1, s)]
  <2>1. q = Ring!FirstElements(self, d)  BY <1>1 DEF Ring!Contents
  <2>2. d \in 0 .. self.size /\ self.size > 0  BY <1>1
  <2>3. \A k \in 1 .. d : Ring!FirstElements(self, d)[k]
                              = self.data[Turn(self.read + k - 1, self.size)]
    BY <2>2, ElementsOfRing
  <2> QED BY <2>1, <2>3
<1> HIDE DEF s, d, r, c, q, new
<1>8. IsRing(new, S)
  <2>1. (r + d) % s = Turn(r + d, s)
    <3>1. r + d \in 0 .. 2 * s - 1 /\ s \in Nat \ {0}  BY <1>1
    <3> QED BY <3>1, Wrap
  <2>2. d - c \in 0 .. s  BY <1>1, <1>2
  <2>3. (Turn(r + c, s) + (d - c)) % s = Turn(Turn(r + c, s) + (d - c), s)
    <3>1. Turn(r + c, s) + (d - c) \in 0 .. 2 * s - 1 /\ s \in Nat \ {0}
      BY <1>1, <1>3, <2>2
    <3> QED BY <3>1, Wrap
  <2>4. Turn(Turn(r + c, s) + (d - c), s) = Turn(r + c + (d - c), s)
    <3>1. /\ s \in Nat /\ r \in Nat /\ c \in Nat /\ d - c \in Nat
          /\ r < s /\ c + (d - c) <= s
      BY <1>1, <1>2
    <3>2. TurnsOn(s, r, c, d - c)  BY <3>1, TurnOn
    <3> QED BY <3>1, <3>2 DEF TurnsOn
  <2>5. r + c + (d - c) = r + d  BY <1>1, <1>2
  <2>6. self.write = (new.read + new.data_size) % s
    BY <1>4, <1>5, <2>1, <2>3, <2>4, <2>5
  <2> QED BY <1>1, <1>3, <1>4, <2>2, <2>6 DEF IsRing
<1>9. Ring!Contents(new) = SubSeq(q, c + 1, Len(q))
  <2>1. Ring!Contents(new) \in Seq(S) /\ Len(Ring!Contents(new)) = d - c
    BY <1>4, <1>8, ContentsOfRing
  <2>2. \A k \in 1 .. d - c : Ring!Contents(new)[k] = self.data[Turn(Turn(r + c, s) + k - 1, s)]
    <3>1. d - c \in 0 .. new.size /\ new.size > 0  BY <1>1, <1>2, <1>4
    <3>2. Ring!Contents(new) = Ring!FirstElements(new, d - c)
      BY <1>4, <3>1 DEF Ring!Contents
    <3> DEFINE m == d - c
    <3> HIDE DEF m
    <3>3. m \in 0 .. new.size  BY <3>1 DEF m
    <3>4. \A k \in 1 .. m : Ring!FirstElements(new, m)[k]
                              = new.data[Turn(new.read + k - 1, new.size)]
      BY <1>8, <3>1, <3>3, ElementsOfRing
    <3> QED BY <1>4, <3>2, <3>4 DEF m
  <2>3. /\ SubSeq(q, c + 1, d) \in Seq(S)
        /\ Len(SubSeq(q, c + 1, d)) = d - c
        /\ \A k \in 1 .. d - c : SubSeq(q, c + 1, d)[k] = q[c + k]
    <3> DEFINE f == c + 1
    <3>1. f \in Int /\ d \in Int /\ f \in 1 .. d + 1  BY <1>1, <1>2
    <3>2. \A i \in f .. d : q[i] \in S
      <4>1. \A i \in 1 .. d : q[i] \in S  BY <1>6, ElementOfSeq
      <4> QED BY <3>1, <4>1
    <3> HIDE DEF f
    <3>3. /\ SubSeq(q, f, d) \in Seq(S)
          /\ Len(SubSeq(q, f, d)) = IF f <= d THEN d - f + 1 ELSE 0
          /\ \A i \in 1 .. d - f + 1 : SubSeq(q, f, d)[i] = q[f + i - 1]
      BY <3>1, <3>2, SubSeqProperties
    <3>4. (IF f <= d THEN d - f + 1 ELSE 0) = d - c /\ d - f + 1 = d - c
      BY <1>1, <1>2, <3>1 DEF f
    <3>5. ASSUME NEW k \in 1 .. d - c PROVE SubSeq(q, f, d)[k] = q[c + k]
      <4>1. f + k - 1 = c + k  BY <1>1, <1>2 DEF f
      <4> QED BY <3>3, <3>4, <4>1
    <3> QED BY <3>3, <3>4, <3>5 DEF f
  <2>4. ASSUME NEW k \in 1 .. d - c
        PROVE  Ring!Contents(new)[k] = SubSeq(q, c + 1, d)[k]
    <3> DEFINE e == k - 1
    <3>1. /\ s \in Nat /\ r \in Nat /\ c \in Nat /\ e \in Nat
          /\ r < s /\ c + e <= s /\ c + k \in 1 .. d
      BY <1>1, <1>2
    <3>2. Turn(r + c, s) + k - 1 = Turn(r + c, s) + e /\ r + (c + k) - 1 = r + c + e
      BY <1>1, <1>2, <1>3
    <3> HIDE DEF e
    <3>3. Turn(Turn(r + c, s) + e, s) = Turn(r + c + e, s)
      <4>1. TurnsOn(s, r, c, e)  BY <3>1, TurnOn
      <4> QED BY <3>1, <4>1 DEF TurnsOn
    <3>4. q[c + k] = self.data[Turn(r + (c + k) - 1, s)]
      BY <1>7, <3>1
    <3> QED BY <2>2, <2>3, <3>2, <3>3, <3>4
  <2>5. Ring!Contents(new) = SubSeq(q, c + 1, d)
    BY <2>1, <2>3, <2>4, SeqEqual
  <2> QED BY <1>6, <2>5
<1> QED BY <1>4, <1>8, <1>9 DEF s, d, c, q, new

-----------------------------------------------------------------------------
LEMMA ResizedRing ==
  ASSUME NEW S, "NUL" \in S, NEW self, IsRing(self, S),
         NEW n \in Nat, n = 0 => self.data_size = 0
  PROVE  /\ IsRing(Ring!Resize(self, n), S)
         /\ Ring!Resize(self, n).size = n
         /\ Ring!Contents(Ring!Resize(self, n)) = Queue!First(Ring!Contents(self), n)
<1> DEFINE s == self.size
           d == self.data_size
           q == Ring!Contents(self)
           new == Ring!Resize(self, n)
           kept == Ring!Smaller(d, n)
           moved == Ring!FirstElements(self, kept)
<1>1. s \in Nat /\ d \in 0 .. s  BY DEF IsRing
<1>2. q \in Seq(S) /\ Len(q) = d  BY ContentsOfRing
<1>3. CASE n = s
  <2>1. new = self  BY <1>3 DEF Ring!Resize
  <2>2. Queue!First(q, n) = q  BY <1>1, <1>2, <1>3 DEF Queue!First
  <2> QED BY <1>3, <2>1, <2>2
<1>4. CASE n = 0 /\ n # s
  <2>1. new = [data |-> << >>, size |-> 0, data_size |-> 0, read |-> 0, write |-> 0]
    BY <1>4 DEF Ring!Resize, Ring!NewRing
  <2>2. IsRing(new, S) /\ new.size = n  BY <1>4, <2>1 DEF IsRing
  <2>3. Ring!Contents(new) = << >>  BY <1>4, <2>2 DEF Ring!Contents
  <2>4. q = << >>  BY <1>2, <1>4, EmptySeq
  <2>6. Queue!First(q, n) = << >>  BY <1>2, <1>4, <2>4 DEF Queue!First
  <2> QED BY <2>2, <2>3, <2>6
<1>5. CASE n # 0 /\ n # s
  <2>1. kept \in 0 .. n /\ kept \in 0 .. d /\ kept = IF n < d THEN n ELSE d
    BY <1>1 DEF Ring!Smaller
  <2>2. kept = 0 \/ s > 0  BY <1>1, <2>1
  <2>3. /\ moved \in Seq(S) /\ Len(moved) = kept
        /\ \A k \in 1 .. kept : moved[k] = q[k]
    <3>1. CASE kept = 0
      <4>1. moved = << >>  BY <3>1 DEF Ring!FirstElements
      <4>2. moved \in Seq(S) /\ Len(moved) = 0  BY <4>1, EmptySeq
      <4> HIDE DEF kept, moved, q
      <4> QED BY <3>1, <4>2
    <3>2. CASE s > 0
      <4>1. kept \in 0 .. s /\ s > 0  BY <1>1, <2>1, <3>2
      <4>2. q = Ring!FirstElements(self, d)  BY <3>2 DEF Ring!Contents
      <4>3. \A k \in 1 .. d : q[k] = self.data[Turn(self.read + k - 1, s)]
        BY <1>1, <3>2, <4>2, ElementsOfRing
      <4> HIDE DEF kept, q
      <4>4. /\ moved \in Seq(S) /\ Len(moved) = kept
            /\ \A k \in 1 .. kept : moved[k] = self.data[Turn(self.read + k - 1, s)]
        BY <4>1, ElementsOfRing
      <4> QED BY <1>1, <2>1, <4>3, <4>4
    <3> QED BY <2>2, <3>1, <3>2
  <2>4. new = [data |-> [i \in 0 .. n - 1 |-> IF i < kept THEN moved[i + 1] ELSE "NUL"],
               size |-> n, data_size |-> kept, read |-> 0, write |-> kept % n]
    BY <1>5 DEF Ring!Resize
  <2> HIDE DEF kept, moved, new, s, d, q
  <2>5. n \in Nat /\ 0 < n /\ kept \in Nat /\ kept <= n  BY <1>5, <2>1
  <2>6. /\ new.size = n /\ new.data_size = kept /\ new.read = 0 /\ new.write = kept % n
        /\ new.data = [i \in 0 .. n - 1 |-> IF i < kept THEN moved[i + 1] ELSE "NUL"]
    BY <2>4
  <2>7. IsRing(new, S)
    <3>1. \A i \in 1 .. kept : moved[i] \in S  BY <2>3, ElementOfSeq
    <3>2. new.data \in [0 .. n - 1 -> S]
      BY <2>1, <2>6, <3>1
    <3>3. kept % n \in 0 .. n - 1
      <4>1. n \in Nat \ {0} /\ kept \in 0 .. 2 * n - 1  BY <2>5
      <4> QED BY <4>1, Wrap
    <3>4. 0 + kept = kept  BY <2>1
    <3> QED BY <1>5, <2>1, <2>4, <2>6, <3>2, <3>3, <3>4 DEF IsRing
  <2>8. Ring!Contents(new) \in Seq(S) /\ Len(Ring!Contents(new)) = kept
    BY <2>6, <2>7, ContentsOfRing
  <2>9. /\ Queue!First(q, n) \in Seq(S)
        /\ Len(Queue!First(q, n)) = kept
        /\ \A k \in 1 .. kept : Queue!First(q, n)[k] = q[k]
    <3>1. /\ Queue!First(q, n) \in Seq(S)
          /\ Len(Queue!First(q, n)) = IF n < Len(q) THEN n ELSE Len(q)
          /\ \A k \in 1 .. Len(Queue!First(q, n)) : Queue!First(q, n)[k] = q[k]
      BY <1>2, FirstOf
    <3> QED BY <1>2, <2>1, <3>1
  <2>10. ASSUME NEW k \in 1 .. kept
        PROVE  Ring!Contents(new)[k] = Queue!First(q, n)[k]
    <3>1. Ring!Contents(new) = Ring!FirstElements(new, kept)
      BY <1>5, <2>6 DEF Ring!Contents
    <3>2. Ring!FirstElements(new, kept)[k] = new.data[Turn(0 + k - 1, n)]
      <4>1. kept \in 0 .. new.size /\ new.size > 0  BY <1>5, <2>1, <2>6
      <4>2. Ring!FirstElements(new, kept)[k] = new.data[Turn(new.read + k - 1, new.size)]
        BY <2>7, <4>1, ElementsOfRing
      <4> QED BY <2>6, <4>2
    <3>3. Turn(0 + k - 1, n) = k - 1 /\ k - 1 \in 0 .. n - 1 /\ k - 1 < kept /\ k - 1 + 1 = k
      <4>1. 0 + k - 1 = k - 1 /\ k - 1 < n /\ k - 1 \in 0 .. n - 1 /\ k - 1 < kept /\ k - 1 + 1 = k
        BY <2>5
      <4>2. Turn(k - 1, n) = k - 1  BY <4>1 DEF Turn
      <4> QED BY <4>1, <4>2
    <3>4. new.data[k - 1] = moved[k]
      BY <2>6, <3>3
    <3> QED BY <2>3, <2>9, <3>1, <3>2, <3>3, <3>4
  <2>11. Ring!Contents(new) = Queue!First(q, n)
    BY <2>8, <2>9, <2>10, SeqEqual
  <2> QED BY <2>6, <2>7, <2>11 DEF new, q
<1> QED BY <1>3, <1>4, <1>5

LEMMA ClearedRing ==
  ASSUME NEW S, NEW self, IsRing(self, S)
  PROVE  /\ IsRing(Ring!Clear(self), S)
         /\ Ring!Clear(self).size = self.size
         /\ Ring!Contents(Ring!Clear(self)) = << >>
<1> DEFINE new == Ring!Clear(self)
<1>1. new = [data |-> self.data, size |-> self.size, data_size |-> 0, read |-> 0, write |-> 0]
  <2>1. self = [data |-> self.data, size |-> self.size, data_size |-> self.data_size,
                read |-> self.read, write |-> self.write]
    BY DEF IsRing
  <2>2. new = [self EXCEPT !.data_size = 0, !.read = 0, !.write = 0]
    BY DEF Ring!Clear
  <2> QED BY <2>1, <2>2
<1>2. /\ new.data = self.data /\ new.size = self.size /\ new.data_size = 0
      /\ new.read = 0 /\ new.write = 0
  BY <1>1
<1>3. IsRing(new, S)
  <2>1. self.size \in Nat  BY DEF IsRing
  <2>2. self.size > 0 => (0 + 0) % self.size = 0
    <3>1. self.size > 0 => self.size \in Nat \ {0} /\ 0 \in 0 .. 2 * self.size - 1
      BY <2>1
    <3> QED BY <2>1, <3>1, Wrap DEF Turn
  <2> QED BY <1>1, <1>2, <2>1, <2>2 DEF IsRing
<1>4. Ring!Contents(new) \in Seq(S) /\ Len(Ring!Contents(new)) = 0
  BY <1>2, <1>3, ContentsOfRing
<1>5. Ring!Contents(new) = << >>  BY <1>4, EmptySeq
<1> QED BY <1>2, <1>3, <1>5

-----------------------------------------------------------------------------
LEMMA InputsAreHeld == Inputs \subseteq Seq(Held) \ {<< >>}
<1>1. Elements \subseteq Held  BY DEF Held
<1>2. Seq(Elements) \subseteq Seq(Held)  BY <1>1, SeqMonotonic
<1> QED BY <1>2, RingInputs

LEMMA RingStarts == RingInit => IsRing(ring, Held)
BY DEF RingInit, Ring!NewRing, IsRing

LEMMA RingSteps == IsRing(ring, Held) /\ [RingNext]_<<ring, taken>> => IsRing(ring', Held)
<1> SUFFICES ASSUME IsRing(ring, Held), [RingNext]_<<ring, taken>>
             PROVE  IsRing(ring', Held)
  OBVIOUS
<1>1. ASSUME NEW elements \in Inputs, Enqueue(elements) PROVE IsRing(ring', Held)
  <2>1. elements \in Seq(Held) \ {<< >>}  BY InputsAreHeld
  <2> QED BY <1>1, <2>1, QueueBytesKeepsRing DEF Enqueue
<1>2. ASSUME NEW n \in 1 .. ring.size + 1, Dequeue(n) PROVE IsRing(ring', Held)
  <2>1. n \in Nat  BY DEF IsRing
  <2> QED BY <1>2, <2>1, DequeuedRing DEF Dequeue
<1>3. ASSUME NEW n \in Sizes, Resize(n) PROVE IsRing(ring', Held)
  <2>1. n \in Nat  BY RingInputs
  <2>2. "NUL" \in Held  BY DEF Held
  <2> QED BY <1>3, <2>1, <2>2, ResizedRing DEF Resize
<1>4. CASE Clear  BY <1>4, ClearedRing DEF Clear
<1>5. CASE UNCHANGED <<ring, taken>>  BY <1>5
<1> QED BY <1>1, <1>2, <1>3, <1>4, <1>5 DEF RingNext

LEMMA RingIsConsistent == ASSUME IsRing(ring, Held) PROVE RingConsistent
BY DEF IsRing, RingConsistent

(***************************************************************************)
(* Whatever is queued, taken out, resized or cleared, the positions of     *)
(* rbuffer.c stay inside the buffer and apart by the number of elements.   *)
(***************************************************************************)
THEOREM RingStaysConsistent == RingSpec => []RingConsistent
<1>1. RingSpec => []IsRing(ring, Held)
  <2> DEFINE I == IsRing(ring, Held)
  <2>1. RingInit => I  BY RingStarts
  <2>2. I /\ [RingNext]_<<ring, taken>> => I'  BY RingSteps
  <2> HIDE DEF I
  <2>3. RingSpec => []I  BY <2>1, <2>2, PTL DEF RingSpec
  <2> QED BY <2>3 DEF I
<1>2. IsRing(ring, Held) => RingConsistent  BY RingIsConsistent
<1> QED BY <1>1, <1>2, PTL

(* A step of the ring buffer is a step of the queue, or none.              *)
LEMMA RingStepsAreQueueSteps ==
  ASSUME IsRing(ring, Held), [RingNext]_<<ring, taken>>
  PROVE  [Queue!Next]_<<Ring!Contents(ring), ring.size, taken>>
<1> DEFINE q == Ring!Contents(ring)
<1>1. q \in Seq(Held) /\ Len(q) = ring.data_size  BY ContentsOfRing
<1>2. ASSUME NEW elements \in Inputs, Enqueue(elements)
      PROVE  Queue!Enqueue(elements)
  <2>1. elements \in Seq(Held) \ {<< >>}  BY InputsAreHeld
  <2>2. ring' = Ring!QueueBytes(ring, elements) /\ taken' = taken
    BY <1>2 DEF Enqueue
  <2>3. Ring!Contents(ring') = Queue!Last(q \o Queue!First(elements, ring.size), ring.size)
    BY <2>1, <2>2, QueuedContents
  <2>4. ring'.size = ring.size  BY <2>2, QueueBytesKeepsSize
  <2> QED BY <2>2, <2>3, <2>4 DEF Queue!Enqueue
<1>3. ASSUME NEW n \in 1 .. ring.size + 1, Dequeue(n)
      PROVE  \E k \in 1 .. Len(q) : Queue!Dequeue(k)
  <2> DEFINE k == Ring!Smaller(n, ring.data_size)
  <2>1. ring.data_size > 0 /\ ring.data_size \in Nat /\ n \in Nat \ {0}
    BY <1>3 DEF Dequeue, IsRing
  <2>2. k \in 1 .. Len(q) /\ k \in Nat /\ k <= ring.data_size
        /\ k = (IF n < ring.data_size THEN n ELSE ring.data_size)
    BY <1>1, <2>1 DEF Ring!Smaller
  <2>3. ring' = Ring!DequeueBytes(ring, n) /\ taken' = Ring!Dequeued(ring, n)
    BY <1>3 DEF Dequeue
  <2>4. taken' = Queue!First(q, n) /\ Len(taken') = k
    BY <2>1, <2>3, DequeuedIsFirst
  <2>5. ring'.size = ring.size /\ Ring!Contents(ring') = SubSeq(q, k + 1, Len(q))
    BY <2>1, <2>3, DequeuedRing
  <2>6. q # << >>  BY <1>1, <2>1
  <2> HIDE DEF k
  <2>7. Queue!First(q, k) = Queue!First(q, n)
    <3>1. CASE n < ring.data_size
      <4>1. k = n  BY <2>2, <3>1
      <4> QED BY <4>1
    <3>2. CASE ~ (n < ring.data_size)
      BY <1>1, <2>2, <3>2 DEF Queue!First
    <3> QED BY <3>1, <3>2
  <2>8. Queue!Dequeue(k)
    BY <2>4, <2>5, <2>6, <2>7 DEF Queue!Dequeue
  <2> QED BY <2>2, <2>8
<1>4. ASSUME NEW n \in Sizes, Resize(n)
      PROVE  Queue!Resize(n)
  <2>1. n \in Nat  BY RingInputs
  <2>2. /\ ring' = Ring!Resize(ring, n) /\ taken' = taken
        /\ n = 0 => ring.data_size = 0
    BY <1>4 DEF Resize
  <2>3. "NUL" \in Held  BY DEF Held
  <2>4. ring'.size = n /\ Ring!Contents(ring') = Queue!First(q, n)
    BY <2>1, <2>2, <2>3, ResizedRing
  <2> QED BY <2>2, <2>4 DEF Queue!Resize
<1>5. ASSUME Clear
      PROVE  Queue!Clear
  <2>1. ring' = Ring!Clear(ring) /\ taken' = taken  BY <1>5 DEF Clear
  <2>2. ring'.size = ring.size /\ Ring!Contents(ring') = << >>
    BY <2>1, ClearedRing
  <2> QED BY <2>1, <2>2 DEF Queue!Clear
<1>6. ASSUME UNCHANGED <<ring, taken>>
      PROVE  UNCHANGED <<Ring!Contents(ring), ring.size, taken>>
  BY <1>6
<1> QED BY <1>2, <1>3, <1>4, <1>5, <1>6 DEF RingNext, Queue!Next

(***************************************************************************)
(* For every size and every sequence of elements, the ring buffer of       *)
(* rbuffer.c is the queue of BoundedQueue: RingIsQueue.                    *)
(***************************************************************************)
THEOREM RingImplementsQueue == RingSpec => RingIsQueue
<1>1. RingInit => Queue!Init
  BY DEF RingInit, Ring!NewRing, Ring!Contents, Queue!Init
<1> DEFINE I == IsRing(ring, Held)
<1>2. RingInit => I  BY RingStarts
<1>3. I /\ [RingNext]_<<ring, taken>> => I'  BY RingSteps
<1>4. I /\ [RingNext]_<<ring, taken>> => [Queue!Next]_<<Ring!Contents(ring), ring.size, taken>>
  BY RingStepsAreQueueSteps
<1> HIDE DEF I
<1> QED BY <1>1, <1>2, <1>3, <1>4, PTL DEF RingSpec, RingIsQueue, Queue!Spec
=============================================================================
