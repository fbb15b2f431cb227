------------------------- MODULE ConfigurationProofs -------------------------
(***************************************************************************)
(* Proofs about the file reader and the settings (Configuration;           *)
(* src/src/file_read.c, src/src/settings.c), for every file and every way  *)
(* the kernel hands it over.                                               *)
(***************************************************************************)
EXTENDS Configuration, RingQueueProofs, SequenceLemmas

(* The reader's buffer is one of RingQueue.                                *)
LEMMA BufferIsRing ==
  /\ Buffer!NewRing = Ring!NewRing
  /\ \A a, b : Buffer!Smaller(a, b) = Ring!Smaller(a, b)
  /\ \A self : Buffer!Clear(self) = Ring!Clear(self)
  /\ \A self, n : Buffer!Resize(self, n) = Ring!Resize(self, n)
  /\ \A self, n : Buffer!Dequeued(self, n) = Ring!Dequeued(self, n)
  /\ \A self, n : Buffer!DequeueBytes(self, n) = Ring!DequeueBytes(self, n)
  /\ \A self, e : Buffer!QueueBytes(self, e) = Ring!QueueBytes(self, e)
<1>1. /\ Buffer!NewRing = Ring!NewRing
      /\ \A a, b : Buffer!Smaller(a, b) = Ring!Smaller(a, b)
      /\ \A self : Buffer!Clear(self) = Ring!Clear(self)
  BY DEF Buffer!NewRing, Ring!NewRing, Buffer!Smaller, Ring!Smaller,
         Buffer!Clear, Ring!Clear
<1>2. ASSUME NEW self, NEW n
      PROVE  /\ Buffer!FirstElements(self, n) = Ring!FirstElements(self, n)
             /\ Buffer!Smaller(self, n) = Ring!Smaller(self, n)
  BY DEF Buffer!FirstElements, Ring!FirstElements, Buffer!Smaller, Ring!Smaller
<1>3. ASSUME NEW self, NEW n PROVE Buffer!Resize(self, n) = Ring!Resize(self, n)
  BY <1>1, <1>2 DEF Buffer!Resize, Ring!Resize
<1>4. ASSUME NEW self, NEW n PROVE Buffer!Dequeued(self, n) = Ring!Dequeued(self, n)
  BY <1>1, <1>2 DEF Buffer!Dequeued, Ring!Dequeued
<1>5. ASSUME NEW self, NEW n
      PROVE  Buffer!DequeueBytes(self, n) = Ring!DequeueBytes(self, n)
  BY <1>1, <1>2 DEF Buffer!DequeueBytes, Ring!DequeueBytes
<1>6. ASSUME NEW self, NEW e PROVE Buffer!QueueBytes(self, e) = Ring!QueueBytes(self, e)
  BY DEF Buffer!QueueBytes, Ring!QueueBytes, Buffer!MoveRead, Ring!MoveRead,
         Buffer!Smaller, Ring!Smaller
<1> QED BY <1>1, <1>3, <1>4, <1>5, <1>6

-----------------------------------------------------------------------------
(* The elements of a part of a sequence.                                   *)
LEMMA PartOf ==
  ASSUME NEW S, NEW c \in Seq(S), NEW a \in Nat, NEW b \in Nat, a <= b, b <= Len(c)
  PROVE  /\ SubSeq(c, a + 1, b) \in Seq(S)
         /\ Len(SubSeq(c, a + 1, b)) = b - a
         /\ \A i \in 1 .. b - a : SubSeq(c, a + 1, b)[i] = c[a + i]
<1> DEFINE m == a + 1
<1>1. m \in 1 .. Len(c) + 1 /\ b \in m - 1 .. Len(c)  OBVIOUS
<1> HIDE DEF m
<1>2. /\ SubSeq(c, m, b) \in Seq(S)
      /\ Len(SubSeq(c, m, b)) = b - m + 1
      /\ \A i \in 1 .. b - m + 1 : SubSeq(c, m, b)[i] = c[m + i - 1]
  BY <1>1, SubSeqProperties
<1>3. b - m + 1 = b - a  BY DEF m
<1>4. \A i \in 1 .. b - a : m + i - 1 = a + i  BY DEF m
<1> QED BY <1>2, <1>3, <1>4 DEF m

(* Elements for which a ring has room are put behind those it holds.       *)
LEMMA QueuedBehind ==
  ASSUME NEW S, NEW self, IsRing(self, S), NEW elements \in Seq(S) \ {<< >>},
         self.data_size + Len(elements) <= self.size
  PROVE  /\ IsRing(Ring!QueueBytes(self, elements), S)
         /\ Ring!QueueBytes(self, elements).size = self.size
         /\ Ring!QueueBytes(self, elements).data_size = self.data_size + Len(elements)
         /\ Ring!Contents(Ring!QueueBytes(self, elements)) = Ring!Contents(self) \o elements
<1> DEFINE q == Ring!Contents(self)
           new == Ring!QueueBytes(self, elements)
<1>1. /\ q \in Seq(S) /\ Len(q) = self.data_size
  BY ContentsOfRing
<1>2. Len(elements) \in Nat \ {0} /\ self.size \in Nat /\ self.data_size \in Nat
  BY EmptySeq DEF IsRing
<1>3. Ring!Contents(new) = Queue!Last(q \o Queue!First(elements, self.size), self.size)
  BY QueuedContents
<1>4. IsRing(new, S) /\ new.size = self.size
  BY QueueBytesKeepsRing, QueueBytesKeepsSize
<1> HIDE DEF q, new
<1>5. Queue!First(elements, self.size) = elements
  BY <1>2 DEF Queue!First
<1>6. q \o elements \in Seq(S) /\ Len(q \o elements) = Len(q) + Len(elements)
  BY <1>1
<1>7. Queue!Last(q \o elements, self.size) = q \o elements
  BY <1>1, <1>2, <1>6 DEF Queue!Last
<1>8. new.data_size = Len(q \o elements)
  BY <1>3, <1>4, <1>5, <1>7, ContentsOfRing
<1> QED BY <1>1, <1>3, <1>4, <1>5, <1>6, <1>7, <1>8 DEF q, new

(* What is taken out of a ring, and what is left.                          *)
LEMMA TakenOut ==
  ASSUME NEW S, NEW self, IsRing(self, S), NEW n \in Nat
  PROVE  /\ Ring!Dequeued(self, n) \in Seq(S)
         /\ Len(Ring!Dequeued(self, n)) = IF n < self.data_size THEN n ELSE self.data_size
         /\ \A i \in 1 .. Len(Ring!Dequeued(self, n)) :
              Ring!Dequeued(self, n)[i] = Ring!Contents(self)[i]
<1> DEFINE q == Ring!Contents(self)
<1>1. q \in Seq(S) /\ Len(q) = self.data_size /\ self.data_size \in Nat
  <2>1. self.data_size \in Nat  BY DEF IsRing
  <2> QED BY <2>1, ContentsOfRing
<1>2. CASE self.data_size > 0
  <2>1. Ring!Dequeued(self, n) = Queue!First(q, n)
    BY <1>2, DequeuedIsFirst
  <2> HIDE DEF q
  <2>2. /\ Queue!First(q, n) \in Seq(S)
        /\ Len(Queue!First(q, n)) = IF n < Len(q) THEN n ELSE Len(q)
        /\ \A i \in 1 .. Len(Queue!First(q, n)) : Queue!First(q, n)[i] = q[i]
    BY <1>1, FirstOf
  <2> QED BY <1>1, <2>1, <2>2 DEF q
<1>3. CASE self.data_size = 0
  <2>1. Ring!Smaller(n, self.data_size) = 0
    BY <1>3 DEF Ring!Smaller
  <2>2. Ring!Dequeued(self, n) = << >>
    BY <2>1 DEF Ring!Dequeued, Ring!FirstElements
  <2> QED BY <1>3, <2>2, EmptySeq
<1> QED BY <1>1, <1>2, <1>3

LEMMA LeftBehind ==
  ASSUME NEW S, NEW self, IsRing(self, S), NEW n \in 0 .. self.data_size
  PROVE  /\ IsRing(Ring!DequeueBytes(self, n), S)
         /\ Ring!DequeueBytes(self, n).size = self.size
         /\ Ring!DequeueBytes(self, n).data_size = self.data_size - n
         /\ \A i \in 1 .. self.data_size - n :
              Ring!Contents(Ring!DequeueBytes(self, n))[i] = Ring!Contents(self)[n + i]
<1> DEFINE q == Ring!Contents(self)
           d == self.data_size
           new == Ring!DequeueBytes(self, n)
<1>1. q \in Seq(S) /\ Len(q) = d /\ d \in Nat
  BY ContentsOfRing DEF IsRing
<1>2. CASE d > 0
  <2>1. Ring!Smaller(n, d) = n
    BY <1>1 DEF Ring!Smaller
  <2>2. /\ IsRing(new, S) /\ new.size = self.size
        /\ Ring!Contents(new) = SubSeq(q, Ring!Smaller(n, d) + 1, Len(q))
    BY <1>2, DequeuedRing
  <2>3. Len(Ring!Contents(new)) = new.data_size
    BY <2>2, ContentsOfRing
  <2> HIDE DEF q, d, new
  <2>4. n \in Nat /\ n <= Len(q) /\ Len(q) \in Nat  BY <1>1 DEF d
  <2>5. /\ Len(SubSeq(q, n + 1, Len(q))) = Len(q) - n
        /\ \A i \in 1 .. Len(q) - n : SubSeq(q, n + 1, Len(q))[i] = q[n + i]
    BY <1>1, <2>4, PartOf
  <2> QED BY <1>1, <2>1, <2>2, <2>3, <2>5 DEF q, d, new
<1>3. CASE d = 0
  <2>1. new = self  BY <1>3 DEF Ring!DequeueBytes
  <2> QED BY <1>3, <2>1
<1> QED BY <1>1, <1>2, <1>3

(* The first place of an element in a ring.                                *)
LEMMA FoundFirst ==
  ASSUME NEW S, NEW self, IsRing(self, S), NEW e
  PROVE  LET q == Ring!Contents(self)
             r == Buffer!Find(self, e) IN
         \/ r = -1 /\ \A i \in 1 .. self.data_size : q[i] # e
         \/ /\ r \in 0 .. self.data_size - 1
            /\ q[r + 1] = e
            /\ \A i \in 1 .. r : q[i] # e
<1> DEFINE q == Ring!Contents(self)
           d == self.data_size
           at == {i \in 0 .. d - 1 : self.data[(self.read + i) % self.size] = e}
<1>1. d \in Nat /\ (d > 0 => self.size # 0 /\ self.read \in Nat) /\ self.size \in Nat
  BY DEF IsRing
<1>2. ASSUME NEW i \in 0 .. d - 1
      PROVE  q[i + 1] = self.data[(self.read + i) % self.size]
  <2>1. q = [k \in 1 .. d |-> self.data[(self.read + k - 1) % self.size]]
    BY <1>1 DEF Ring!Contents, Ring!FirstElements
  <2>2. self.read + (i + 1) - 1 = self.read + i  BY <1>1
  <2> HIDE DEF q
  <2> QED BY <1>1, <2>1, <2>2
<1>3. CASE at = {}
  <2>1. Buffer!Find(self, e) = -1  BY <1>3 DEF Buffer!Find
  <2>2. ASSUME NEW i \in 1 .. d PROVE q[i] # e
    <3>1. i - 1 \in 0 .. d - 1 /\ i - 1 + 1 = i  BY <1>1
    <3> HIDE DEF q
    <3> QED BY <1>2, <1>3, <3>1
  <2> QED BY <2>1, <2>2
<1>4. CASE at # {}
  <2> DEFINE r == CHOOSE i \in at : \A j \in at : i <= j
  <2>1. at \in SUBSET Nat  BY <1>1
  <2>2. \E i \in at : \A j \in at : i <= j
    <3> HIDE DEF at
    <3> QED BY <1>4, <2>1, LeastIndex
  <2>3. r \in at /\ \A j \in at : r <= j
    <3> HIDE DEF at
    <3> QED BY <2>2
  <2>4. Buffer!Find(self, e) = r  BY <1>4 DEF Buffer!Find
  <2>5. r \in 0 .. d - 1 /\ q[r + 1] = e
    <3> HIDE DEF q, r
    <3> QED BY <1>2, <2>3
  <2>6. ASSUME NEW i \in 1 .. r PROVE q[i] # e
    <3>1. i - 1 \in 0 .. d - 1 /\ i - 1 + 1 = i /\ ~ (r <= i - 1)
      <4> HIDE DEF r
      <4> QED BY <1>1, <2>5
    <3> HIDE DEF q, r
    <3> QED BY <1>2, <2>3, <3>1
  <2> HIDE DEF r, q
  <2> QED BY <2>4, <2>5, <2>6 DEF q
<1> QED BY <1>3, <1>4

-----------------------------------------------------------------------------
(***************************************************************************)
(* The reader.  Its buffer holds what stands in the file between the       *)
(* position of its user and the one up to which it has read.               *)
(***************************************************************************)
IsFile(f, content) ==
  /\ f = [buffer |-> f.buffer, size |-> f.size, bytes_read |-> f.bytes_read,
          file_bytes_read |-> f.file_bytes_read, is_open |-> f.is_open]
  /\ IsRing(f.buffer, Characters)
  /\ f.buffer.size = f.size
  /\ f.size \in Nat
  /\ f.bytes_read \in Nat
  /\ f.file_bytes_read \in Nat /\ f.file_bytes_read <= f.size
  /\ f.bytes_read + f.buffer.data_size = f.file_bytes_read
  /\ f.is_open \in BOOLEAN
  /\ ~f.is_open => f.size = 0
  /\ f.is_open =>
       /\ f.size = Len(content)
       /\ \A i \in 1 .. f.buffer.data_size :
            Ring!Contents(f.buffer)[i] = content[f.bytes_read + i]

IsKernel(kernel) == kernel.block \in Nat \ {0} /\ kernel.reads \in Nat

LEMMA NewFileIsFile == ASSUME NEW content PROVE IsFile(NewFile, content)
<1> DEFINE b == Buffer!NewRing
<1>1. b = [data |-> << >>, size |-> 0, data_size |-> 0, read |-> 0, write |-> 0]
  BY DEF Buffer!NewRing
<1>2. IsRing(b, Characters)
  BY <1>1 DEF IsRing
<1>3. NewFile = [buffer |-> b, size |-> 0, bytes_read |-> 0, file_bytes_read |-> 0,
                 is_open |-> FALSE]
  BY DEF NewFile
<1> HIDE DEF b
<1> QED BY <1>1, <1>2, <1>3 DEF IsFile

LEMMA ClosedIsFile ==
  ASSUME NEW content, NEW other, NEW f, IsFile(f, content)
  PROVE  IsFile(CloseFile(f), other) /\ ~CloseFile(f).is_open
<1>1. CASE ~f.is_open  BY <1>1 DEF IsFile, CloseFile
<1>2. CASE f.is_open
  <2> DEFINE c == Ring!Clear(f.buffer)
             b == Ring!Resize(c, 0)
  <2>1. IsRing(f.buffer, Characters)  BY DEF IsFile
  <2>2. IsRing(c, Characters) /\ c.data_size = 0
    <3>1. c.data_size = Len(<< >>)  BY <2>1, ClearedRing, ContentsOfRing
    <3> QED BY <2>1, <3>1, ClearedRing
  <2> HIDE DEF c
  <2>3. "NUL" \in Characters /\ 0 \in Nat /\ (0 = 0 => c.data_size = 0)
    BY <2>2 DEF Characters
  <2>4. IsRing(b, Characters) /\ b.size = 0  BY <2>2, <2>3, ResizedRing
  <2>5. b.data_size = 0  BY <2>4 DEF IsRing
  <2>6. CloseFile(f) = [NewFile EXCEPT !.buffer = Buffer!Resize(Buffer!Clear(f.buffer), 0)]
    BY <1>2 DEF CloseFile
  <2>7. Buffer!Resize(Buffer!Clear(f.buffer), 0) = b
    BY BufferIsRing DEF c
  <2> HIDE DEF b
  <2>8. CloseFile(f) = [buffer |-> b, size |-> 0, bytes_read |-> 0, file_bytes_read |-> 0,
                        is_open |-> FALSE]
    BY <2>6, <2>7 DEF NewFile
  <2> QED BY <2>4, <2>5, <2>8 DEF IsFile
<1> QED BY <1>1, <1>2 DEF IsFile

LEMMA OpenedIsFile ==
  ASSUME NEW other, NEW content \in Seq(Characters), NEW f, IsFile(f, other)
  PROVE  IsFile(OpenFile(f, content), content) /\ OpenFile(f, content).is_open
<1> DEFINE closed == CloseFile(f)
           r == Ring!Resize(closed.buffer, Len(content))
           b == Ring!Clear(r)
<1>1. IsFile(closed, content) /\ ~closed.is_open  BY ClosedIsFile
<1>2. /\ IsRing(closed.buffer, Characters) /\ closed.buffer.data_size = 0
      /\ closed.bytes_read = 0 /\ closed.file_bytes_read = 0
      /\ closed = [buffer |-> closed.buffer, size |-> closed.size, bytes_read |-> 0,
                   file_bytes_read |-> 0, is_open |-> FALSE]
  <2> HIDE DEF closed
  <2>1. /\ IsRing(closed.buffer, Characters) /\ closed.size = 0
        /\ closed.bytes_read \in Nat /\ closed.file_bytes_read \in Nat
        /\ closed.file_bytes_read <= closed.size
        /\ closed.bytes_read + closed.buffer.data_size = closed.file_bytes_read
    BY <1>1 DEF IsFile
  <2>2. closed.buffer.data_size \in Nat  BY <2>1 DEF IsRing
  <2>3. closed.bytes_read = 0 /\ closed.file_bytes_read = 0 /\ closed.buffer.data_size = 0
    BY <2>1, <2>2
  <2>4. closed = [buffer |-> closed.buffer, size |-> closed.size,
                  bytes_read |-> closed.bytes_read,
                  file_bytes_read |-> closed.file_bytes_read, is_open |-> closed.is_open]
    BY <1>1 DEF IsFile
  <2>5. closed.is_open = FALSE  BY <1>1 DEF IsFile
  <2> QED BY <2>1, <2>3, <2>4, <2>5
<1>3. OpenFile(f, content) = [closed EXCEPT !.buffer = b, !.size = Len(content), !.is_open = TRUE]
  BY BufferIsRing DEF OpenFile
<1> HIDE DEF closed
<1>4. "NUL" \in Characters /\ Len(content) \in Nat /\ (Len(content) = 0 => closed.buffer.data_size = 0)
  BY <1>2 DEF Characters
<1>5. IsRing(r, Characters) /\ r.size = Len(content)
  BY <1>2, <1>4, ResizedRing
<1> HIDE DEF r
<1>6. IsRing(b, Characters) /\ b.size = Len(content) /\ Ring!Contents(b) = << >>
  BY <1>5, ClearedRing
<1> HIDE DEF b
<1>7. b.data_size = 0  BY <1>6, ContentsOfRing, EmptySeq
<1>8. OpenFile(f, content) = [buffer |-> b, size |-> Len(content), bytes_read |-> 0,
                              file_bytes_read |-> 0, is_open |-> TRUE]
  BY <1>2, <1>3
<1> QED BY <1>4, <1>6, <1>7, <1>8 DEF IsFile

LEMMA SoughtIsFile ==
  ASSUME NEW content, NEW f, IsFile(f, content), NEW offset \in Int,
         NEW pos \in {"BEG", "CUR", "END"}
  PROVE  IsFile(Seek(f, offset, pos), content)
<1>1. CASE ~f.is_open  BY <1>1 DEF Seek
<1>2. CASE f.is_open
  <2> DEFINE b == Ring!Clear(f.buffer)
             from == CASE pos = "BEG" -> 0 [] pos = "CUR" -> f.bytes_read
                       [] pos = "END" -> f.size
             there == Bound(0, from + offset, f.size)
  <2>1. /\ f = [buffer |-> f.buffer, size |-> f.size, bytes_read |-> f.bytes_read,
                file_bytes_read |-> f.file_bytes_read, is_open |-> f.is_open]
        /\ IsRing(f.buffer, Characters) /\ f.buffer.size = f.size
        /\ f.size \in Nat /\ f.bytes_read \in Nat /\ f.size = Len(content)
    BY <1>2 DEF IsFile
  <2>2. from \in Int  BY <2>1
  <2>3. there \in Nat /\ there <= f.size
    <3> HIDE DEF from
    <3> QED BY <2>1, <2>2 DEF Bound
  <2>4. Seek(f, offset, pos) = [f EXCEPT !.buffer = b, !.bytes_read = there,
                                         !.file_bytes_read = there]
    BY <1>2, BufferIsRing DEF Seek
  <2> HIDE DEF there
  <2>5. IsRing(b, Characters) /\ b.size = f.size /\ Ring!Contents(b) = << >>
    BY <2>1, ClearedRing
  <2> HIDE DEF b
  <2>6. b.data_size = 0  BY <2>5, ContentsOfRing, EmptySeq
  <2>7. Seek(f, offset, pos) = [buffer |-> b, size |-> f.size, bytes_read |-> there,
                                file_bytes_read |-> there, is_open |-> f.is_open]
    BY <2>1, <2>4
  <2> QED BY <1>2, <2>1, <2>3, <2>5, <2>6, <2>7 DEF IsFile
<1> QED BY <1>1, <1>2 DEF IsFile

(* So many blocks are enough, and none of them is empty.                   *)
LEMMA BlocksEnough ==
  ASSUME NEW b \in Nat \ {0}, NEW a \in Int
  PROVE  LET q == (a + b - 1) \div b IN
         q \in Int /\ (a > 0 => q * b >= a /\ q <= a)
<1> DEFINE e == a + b - 1
           q == e \div b
           m == e % b
<1>1. e \in Int /\ q \in Int /\ m \in 0 .. b - 1  OBVIOUS
<1>2. e = b * q + m  OBVIOUS
<1>3. e = a + b - 1  OBVIOUS
<1> HIDE DEF q, m, e
<1>4. b * q = q * b  BY <1>1
<1>5. q * b >= a
  <2> DEFINE n == q * b
  <2>1. n \in Int  BY <1>1
  <2>2. e = n + m  BY <1>2, <1>4
  <2> HIDE DEF n
  <2>3. n >= a  BY <1>1, <1>3, <2>1, <2>2
  <2> QED BY <2>3 DEF n
<1>6. ASSUME a > 0 PROVE q <= a
  <2> SUFFICES ASSUME q >= a + 1 PROVE FALSE
    BY <1>1
  <2>1. b * q >= b * (a + 1)  BY <1>1
  <2>2. b * (a + 1) = b * a + b  BY <1>1
  <2>3. b * a >= a  BY <1>6
  <2>4. b * q \in Int /\ b * a \in Int /\ b * (a + 1) \in Int  BY <1>1
  <2> QED BY <1>1, <1>2, <1>3, <2>1, <2>2, <2>3, <2>4
<1> QED BY <1>1, <1>5, <1>6 DEF q, e

(* Got elements are put behind those the buffer of the reader holds.       *)
Filled(f, content, got) ==
  [f EXCEPT
    !.buffer = Buffer!QueueBytes(@, SubSeq(content, f.file_bytes_read + 1,
                                           f.file_bytes_read + got)),
    !.file_bytes_read = @ + got]

LEMMA FilledIsFile ==
  ASSUME NEW content \in Seq(Characters), NEW f, IsFile(f, content), f.is_open,
         NEW got \in Nat, got > 0, f.file_bytes_read + got <= f.size
  PROVE  /\ IsFile(Filled(f, content, got), content)
         /\ Filled(f, content, got).bytes_read = f.bytes_read
         /\ Filled(f, content, got).size = f.size
         /\ Filled(f, content, got).is_open
         /\ Filled(f, content, got).file_bytes_read = f.file_bytes_read + got
<1> DEFINE from == f.file_bytes_read
           to == from + got
           elements == SubSeq(content, from + 1, to)
           q == Ring!Contents(f.buffer)
           b == Ring!QueueBytes(f.buffer, elements)
           d == f.buffer.data_size
           g == Filled(f, content, got)
<1>1. /\ f = [buffer |-> f.buffer, size |-> f.size, bytes_read |-> f.bytes_read,
              file_bytes_read |-> from, is_open |-> TRUE]
      /\ IsRing(f.buffer, Characters) /\ f.buffer.size = f.size
      /\ f.size \in Nat /\ f.bytes_read \in Nat /\ f.size = Len(content)
      /\ from \in Nat /\ f.bytes_read + d = from
      /\ \A i \in 1 .. d : q[i] = content[f.bytes_read + i]
  BY DEF IsFile
<1>2. d \in Nat  BY <1>1 DEF IsRing
<1>3. q \in Seq(Characters) /\ Len(q) = d  BY <1>1, ContentsOfRing
<1>4. g = [buffer |-> b, size |-> f.size, bytes_read |-> f.bytes_read,
           file_bytes_read |-> to, is_open |-> TRUE]
  <2>1. Buffer!QueueBytes(f.buffer, elements) = b  BY BufferIsRing
  <2>2. g = [f EXCEPT !.buffer = b, !.file_bytes_read = to]  BY <2>1 DEF Filled
  <2> HIDE DEF b, g, elements, to
  <2> QED BY <1>1, <2>2
<1>5. from \in Nat /\ to \in Nat /\ from <= to /\ to <= Len(content) /\ to - from = got
  BY <1>1
<1>6. /\ elements \in Seq(Characters) /\ Len(elements) = got
      /\ \A i \in 1 .. got : elements[i] = content[from + i]
  <2> HIDE DEF from, to
  <2> QED BY <1>5, PartOf
<1> HIDE DEF elements, q, d, g, to
<1>7. elements # << >>  BY <1>6, EmptySeq
<1>8. d + Len(elements) <= f.buffer.size
  BY <1>1, <1>2, <1>5, <1>6 DEF to, d
<1>9. /\ IsRing(b, Characters) /\ b.size = f.size /\ b.data_size = d + got
      /\ Ring!Contents(b) = q \o elements
  BY <1>1, <1>6, <1>7, <1>8, QueuedBehind DEF d, q
<1> HIDE DEF b, from
<1>10. ASSUME NEW i \in 1 .. d + got
       PROVE  Ring!Contents(b)[i] = content[f.bytes_read + i]
  <2>1. CASE i <= d
    <3>1. i \in 1 .. d /\ (q \o elements)[i] = q[i]  BY <1>2, <1>3, <1>6, <2>1
    <3> QED BY <1>1, <1>9, <3>1
  <2>2. CASE i > d
    <3>1. i - d \in 1 .. got /\ i \in 1 .. Len(q) + Len(elements) /\ i > Len(q)
      BY <1>2, <1>3, <1>6, <2>2
    <3>2. (q \o elements)[i] = elements[i - Len(q)]
      <4>1. \A j \in 1 .. Len(q) + Len(elements) : (q \o elements)[j] =
               IF j <= Len(q) THEN q[j] ELSE elements[j - Len(q)]
        BY <1>3, <1>6, ConcatProperties
      <4>2. ~ (i <= Len(q))  BY <1>2, <1>3, <3>1
      <4> QED BY <3>1, <4>1, <4>2
    <3>3. from + (i - d) = f.bytes_read + i  BY <1>1, <1>2
    <3> QED BY <1>3, <1>6, <1>9, <3>1, <3>2, <3>3
  <2> QED BY <1>2, <2>1, <2>2
<1>11. f.bytes_read + (d + got) = to  BY <1>1, <1>2, <1>5
<1>12. IsFile(g, content)
  BY <1>1, <1>4, <1>5, <1>9, <1>10, <1>11 DEF IsFile
<1> QED BY <1>4, <1>12 DEF g, elements, to, from

(* What the user takes.                                                    *)
LEMMA TakenIsFile ==
  ASSUME NEW content, NEW f, IsFile(f, content), NEW n \in 0 .. f.buffer.data_size
  PROVE  /\ IsFile(Take(f, n), content)
         /\ Take(f, n).bytes_read = f.bytes_read + n
         /\ Take(f, n).size = f.size /\ Take(f, n).is_open = f.is_open
<1> DEFINE b == Ring!DequeueBytes(f.buffer, n)
           d == f.buffer.data_size
<1>1. /\ f = [buffer |-> f.buffer, size |-> f.size, bytes_read |-> f.bytes_read,
              file_bytes_read |-> f.file_bytes_read, is_open |-> f.is_open]
      /\ IsRing(f.buffer, Characters) /\ f.buffer.size = f.size
      /\ f.size \in Nat /\ f.bytes_read \in Nat /\ f.file_bytes_read \in Nat
      /\ f.bytes_read + d = f.file_bytes_read
  BY DEF IsFile
<1>2. d \in Nat  BY <1>1 DEF IsRing
<1>3. Take(f, n) = [buffer |-> b, size |-> f.size, bytes_read |-> f.bytes_read + n,
                    file_bytes_read |-> f.file_bytes_read, is_open |-> f.is_open]
  <2>1. Buffer!DequeueBytes(f.buffer, n) = b  BY BufferIsRing
  <2>2. Take(f, n) = [f EXCEPT !.buffer = b, !.bytes_read = @ + n]  BY <2>1 DEF Take
  <2> HIDE DEF b
  <2> QED BY <1>1, <2>2
<1>4. /\ IsRing(b, Characters) /\ b.size = f.size /\ b.data_size = d - n
      /\ \A i \in 1 .. d - n : Ring!Contents(b)[i] = Ring!Contents(f.buffer)[n + i]
  BY <1>1, LeftBehind
<1> HIDE DEF b, d
<1>5. n \in Nat /\ n <= d  BY <1>2 DEF d
<1>6. f.bytes_read + n \in Nat /\ f.bytes_read + n + (d - n) = f.file_bytes_read
  BY <1>1, <1>2, <1>5
<1>7. ASSUME f.is_open, NEW i \in 1 .. d - n
      PROVE  Ring!Contents(b)[i] = content[f.bytes_read + n + i]
  <2>1. n + i \in 1 .. d /\ f.bytes_read + (n + i) = f.bytes_read + n + i
    BY <1>1, <1>2, <1>5
  <2>2. Ring!Contents(f.buffer)[n + i] = content[f.bytes_read + (n + i)]
    BY <1>7, <2>1 DEF IsFile, d
  <2> QED BY <1>4, <2>1, <2>2
<1>8. IsFile(Take(f, n), content)
  <2> DEFINE t == Take(f, n)
  <2>1. /\ t = [buffer |-> t.buffer, size |-> t.size, bytes_read |-> t.bytes_read,
                file_bytes_read |-> t.file_bytes_read, is_open |-> t.is_open]
        /\ t.buffer = b /\ t.size = f.size /\ t.bytes_read = f.bytes_read + n
        /\ t.file_bytes_read = f.file_bytes_read /\ t.is_open = f.is_open
    BY <1>3
  <2>2. /\ f.file_bytes_read <= f.size /\ f.is_open \in BOOLEAN
        /\ ~f.is_open => f.size = 0
        /\ f.is_open => f.size = Len(content)
    BY DEF IsFile
  <2> HIDE DEF t
  <2> QED BY <1>1, <1>4, <1>6, <1>7, <2>1, <2>2 DEF IsFile, t
<1> QED BY <1>3, <1>8

-----------------------------------------------------------------------------
(***************************************************************************)
(* Fetch.  It leaves the position of the user as it is, and unless a read  *)
(* fails the buffer holds what is wanted, or the rest of the file.         *)
(***************************************************************************)
IsFetched(g, f, content, wanted, whole) ==
  /\ IsFile(g, content)
  /\ g.bytes_read = f.bytes_read /\ g.size = f.size /\ g.is_open = f.is_open
  /\ whole /\ wanted > 0 => g.buffer.data_size >= wanted \/ g.file_bytes_read = g.size
  /\ whole /\ wanted = 0 =>
       \/ \E i \in 1 .. g.buffer.data_size : Ring!Contents(g.buffer)[i] = "\n"
       \/ g.file_bytes_read = g.size

LEMMA FetchedIsFile ==
  ASSUME NEW content \in Seq(Characters), NEW f, IsFile(f, content),
         NEW kernel, IsKernel(kernel), NEW wanted \in Nat
  PROVE  IsFetched(Fetch(f, content, wanted, kernel), f, content, wanted,
                   kernel.reads = f.size)
<1> DEFINE from == f.file_bytes_read
           rest == f.size - from
           d == f.buffer.data_size
           breaks == {i \in 1 .. rest : content[from + i] = "\n"}
           missing == CASE wanted > 0 -> wanted - d
                        [] wanted = 0 /\ Buffer!Find(f.buffer, "\n") >= 0 -> 0
                        [] OTHER -> IF breaks = {} THEN rest
                                    ELSE CHOOSE i \in breaks : \A j \in breaks : i <= j
           enough == Buffer!Smaller(missing, rest)
           blocks == (enough + kernel.block - 1) \div kernel.block
           done == Buffer!Smaller(blocks, kernel.reads) * kernel.block
           got == Buffer!Smaller(done, rest)
           filled == Filled(f, content, got)
           g == Fetch(f, content, wanted, kernel)
           q == Ring!Contents(f.buffer)
<1>1. g = IF got <= 0 THEN f ELSE filled
  BY DEF Fetch, Filled
<1>2. /\ f.size \in Nat /\ from \in Nat /\ from <= f.size /\ rest \in Nat
      /\ IsRing(f.buffer, Characters)
      /\ f.bytes_read \in Nat /\ f.bytes_read + d = from
      /\ ~f.is_open => f.size = 0
  BY DEF IsFile
<1>3. d \in Nat  BY <1>2 DEF IsRing
<1>4. kernel.block \in Nat \ {0} /\ kernel.reads \in Nat  BY DEF IsKernel
<1> DEFINE r == Buffer!Find(f.buffer, "\n")
<1>0. r = -1 \/ (r \in 0 .. d - 1 /\ q[r + 1] = "\n")
  BY <1>2, FoundFirst
<1> HIDE DEF q
<1> HIDE DEF rest
<1>5. /\ missing \in Int
      /\ wanted > 0 => missing = wanted - d
      /\ wanted = 0 =>
           \/ Buffer!Find(f.buffer, "\n") >= 0 /\ missing = 0
           \/ missing = rest
           \/ missing \in breaks
  <2>1. breaks \in SUBSET Nat  BY <1>2
  <2> HIDE DEF breaks
  <2>2. breaks # {} => (CHOOSE i \in breaks : \A j \in breaks : i <= j) \in breaks
    BY <2>1, LeastIndex
  <2> DEFINE first == CHOOSE i \in breaks : \A j \in breaks : i <= j
  <2> HIDE DEF first
  <2>3. CASE wanted > 0
    <3>1. missing = wanted - d  BY <2>3
    <3> QED BY <1>3, <2>3, <3>1
  <2>4. CASE wanted = 0 /\ Buffer!Find(f.buffer, "\n") >= 0
    <3>1. missing = 0  BY <2>4
    <3> QED BY <2>4, <3>1
  <2>5. CASE ~ (wanted > 0) /\ ~ (wanted = 0 /\ Buffer!Find(f.buffer, "\n") >= 0)
    <3>1. missing = IF breaks = {} THEN rest ELSE first  BY <2>5 DEF first
    <3> QED BY <1>2, <2>1, <2>2, <2>5, <3>1 DEF first
  <2> QED BY <2>3, <2>4, <2>5
<1> HIDE DEF missing
<1>6. enough \in Int /\ enough <= missing /\ enough <= rest
      /\ (enough = missing \/ enough = rest)
  BY <1>2, <1>5 DEF Buffer!Smaller
<1> HIDE DEF enough
<1>7. blocks \in Int /\ (enough > 0 => blocks * kernel.block >= enough /\ blocks <= enough)
  BY <1>4, <1>6, BlocksEnough
<1> HIDE DEF blocks
<1>8. done \in Int /\ (kernel.reads = f.size /\ enough > 0 => done >= enough)
  <2>1. Buffer!Smaller(blocks, kernel.reads) \in Int
    BY <1>4, <1>7 DEF Buffer!Smaller
  <2>2. done \in Int  BY <1>4, <2>1
  <2>3. ASSUME kernel.reads = f.size, enough > 0 PROVE done >= enough
    <3>1. blocks <= kernel.reads  BY <1>2, <1>6, <1>7, <2>3 DEF rest
    <3>2. Buffer!Smaller(blocks, kernel.reads) = blocks
      BY <1>4, <1>7, <3>1 DEF Buffer!Smaller
    <3> QED BY <1>7, <2>3, <3>2
  <2> QED BY <2>2, <2>3
<1> HIDE DEF done
<1>9. got \in Int /\ got <= rest /\ (kernel.reads = f.size /\ enough > 0 => got >= enough)
  BY <1>2, <1>6, <1>8 DEF Buffer!Smaller
<1> HIDE DEF got
<1>10. CASE got <= 0
  <2>1. g = f  BY <1>1, <1>10
  <2> HIDE DEF g
  <2>2. ASSUME kernel.reads = f.size PROVE enough <= 0  BY <1>6, <1>9, <1>10, <2>2
  <2>3. ASSUME kernel.reads = f.size, wanted > 0
        PROVE  d >= wanted \/ from = f.size
    <3>1. missing <= 0 \/ rest <= 0  BY <1>2, <1>5, <1>6, <2>2, <2>3
    <3> QED BY <1>2, <1>3, <1>5, <2>3, <3>1 DEF rest
  <2>4. ASSUME kernel.reads = f.size, wanted = 0
        PROVE  (\E i \in 1 .. d : q[i] = "\n") \/ from = f.size
    <3>1. missing <= 0 \/ rest <= 0  BY <1>2, <1>5, <1>6, <2>2, <2>4
    <3>2. rest <= 0 => from = f.size  BY <1>2 DEF rest
    <3>3. CASE Buffer!Find(f.buffer, "\n") >= 0
      <4> HIDE DEF r
      <4>2. r \in 0 .. d - 1 /\ q[r + 1] = "\n" /\ r + 1 \in 1 .. d
        BY <1>0, <1>3, <3>3 DEF r
      <4> QED BY <4>2
    <3>4. CASE missing = rest  BY <3>1, <3>2, <3>4
    <3>5. CASE missing \in breaks
      <4>1. missing > 0  BY <1>2, <3>5
      <4> QED BY <1>5, <3>1, <3>2, <4>1
    <3> QED BY <1>5, <2>4, <3>3, <3>4, <3>5
  <2> QED BY <2>1, <2>3, <2>4 DEF IsFetched, g, q
<1>11. CASE got > 0
  <2>1. g = filled  BY <1>1, <1>9, <1>11
  <2>2. f.is_open /\ got \in Nat /\ from + got <= f.size
    BY <1>2, <1>9, <1>11 DEF IsFile, rest
  <2>3. /\ IsFile(filled, content)
        /\ filled.bytes_read = f.bytes_read /\ filled.size = f.size /\ filled.is_open
        /\ filled.file_bytes_read = from + got
    BY <1>11, <2>2, FilledIsFile
  <2> HIDE DEF filled
  <2>4. /\ f.is_open = TRUE /\ g.is_open = TRUE
    BY <2>1, <2>2, <2>3 DEF IsFile
  <2> DEFINE e == g.buffer.data_size
  <2>5. /\ e \in Nat /\ f.bytes_read + e = from + got
        /\ \A i \in 1 .. e : Ring!Contents(g.buffer)[i] = content[f.bytes_read + i]
    <3> HIDE DEF g
    <3>1. /\ IsRing(g.buffer, Characters) /\ g.bytes_read = f.bytes_read
          /\ g.bytes_read + e = from + got
          /\ \A i \in 1 .. e : Ring!Contents(g.buffer)[i] = content[g.bytes_read + i]
      BY <2>1, <2>3, <2>4 DEF IsFile
    <3>2. e \in Nat  BY <3>1 DEF IsRing
    <3> QED BY <3>1, <3>2
  <2> HIDE DEF g, e
  <2>6. e = d + got
    <3> DEFINE at == f.bytes_read
    <3>1. at \in Nat /\ at + d = from /\ at + e = from + got  BY <1>2, <2>5
    <3> HIDE DEF at, from, d
    <3>2. at + e = (at + d) + got  BY <3>1
    <3> QED BY <1>3, <1>9, <2>5, <3>1, <3>2
  <2>7. got >= rest => from + got = f.size  BY <1>2, <1>9 DEF rest
  <2>8. ASSUME kernel.reads = f.size, wanted > 0
        PROVE  e >= wanted \/ from + got = f.size
    <3>1. CASE enough <= 0
      <4>1. missing <= 0 \/ rest <= 0  BY <1>2, <1>5, <1>6, <3>1
      <4> QED BY <1>2, <1>3, <1>5, <1>9, <1>11, <2>6, <2>8, <4>1
    <3>2. CASE enough > 0
      <4>1. got >= missing \/ got >= rest  BY <1>2, <1>5, <1>6, <1>9, <2>8, <3>2
      <4> QED BY <1>2, <1>3, <1>5, <1>9, <2>6, <2>7, <2>8, <4>1
    <3> QED BY <1>6, <3>1, <3>2
  <2>9. ASSUME kernel.reads = f.size, wanted = 0
        PROVE  (\E i \in 1 .. e : Ring!Contents(g.buffer)[i] = "\n") \/ from + got = f.size
    <3>1. CASE Buffer!Find(f.buffer, "\n") >= 0
      <4>2. \A i \in 1 .. d : q[i] = content[f.bytes_read + i]
        BY <2>2 DEF IsFile, q
      <4> HIDE DEF r
      <4>3. r + 1 \in 1 .. d /\ q[r + 1] = "\n" /\ r + 1 \in 1 .. e
        BY <1>0, <1>3, <1>9, <1>11, <2>6, <3>1 DEF r
      <4> QED BY <2>5, <4>2, <4>3
    <3>2. CASE missing = rest
      <4>1. got >= rest  BY <1>2, <1>6, <1>9, <1>11, <2>9, <3>2
      <4> QED BY <2>7, <4>1
    <3>3. CASE missing \in breaks
      <4>1. missing \in 1 .. rest /\ content[from + missing] = "\n"  BY <3>3
      <4>2. got >= missing  BY <1>2, <1>6, <1>9, <2>9, <4>1
      <4>3. d + missing \in 1 .. e /\ f.bytes_read + (d + missing) = from + missing
        <5>1. missing \in Nat /\ missing >= 1 /\ from \in Nat /\ f.bytes_read \in Nat
              /\ f.bytes_read + d = from
          BY <1>2, <4>1
        <5>2. d + missing <= e /\ d + missing >= 1
          BY <1>3, <1>9, <2>6, <4>2, <5>1
        <5> HIDE DEF d, from
        <5> QED BY <1>3, <2>5, <5>1, <5>2
      <4> QED BY <2>5, <4>1, <4>3
    <3> QED BY <1>5, <2>9, <3>1, <3>2, <3>3
  <2> QED BY <2>1, <2>2, <2>3, <2>4, <2>8, <2>9 DEF IsFetched, e, g
<1> QED BY <1>9, <1>10, <1>11

-----------------------------------------------------------------------------
(***************************************************************************)
(* What the operations of the reader return: `data` is what stands in the  *)
(* file at the position of its user.                                       *)
(***************************************************************************)
IsPart(data, f, content) ==
  /\ data \in Seq(Characters)
  /\ Len(data) <= f.size - f.bytes_read
  /\ f.is_open => \A i \in 1 .. Len(data) : data[i] = content[f.bytes_read + i]

(* What is in the buffer of a reader that has read on.                     *)
LEMMA BufferIsPart ==
  ASSUME NEW content, NEW f, NEW g, NEW wanted, NEW whole,
         IsFetched(g, f, content, wanted, whole), NEW n \in Nat
  PROVE  LET data == Buffer!Dequeued(g.buffer, n) IN
         /\ IsPart(data, f, content)
         /\ Len(data) = IF n < g.buffer.data_size THEN n ELSE g.buffer.data_size
         /\ \A i \in 1 .. Len(data) : data[i] = Ring!Contents(g.buffer)[i]
         /\ g.buffer.data_size \in Nat
         /\ g.buffer.data_size = g.file_bytes_read - f.bytes_read
<1> DEFINE data == Buffer!Dequeued(g.buffer, n)
           d == g.buffer.data_size
<1>1. IsFile(g, content) /\ g.bytes_read = f.bytes_read /\ g.size = f.size
      /\ g.is_open = f.is_open
  BY DEF IsFetched
<1>2. /\ IsRing(g.buffer, Characters) /\ g.size \in Nat /\ g.bytes_read \in Nat
      /\ g.file_bytes_read \in Nat /\ g.file_bytes_read <= g.size
      /\ g.bytes_read + d = g.file_bytes_read
      /\ g.is_open => \A i \in 1 .. d : Ring!Contents(g.buffer)[i] = content[g.bytes_read + i]
  BY <1>1 DEF IsFile
<1>3. d \in Nat  BY <1>2 DEF IsRing
<1>4. /\ data = Ring!Dequeued(g.buffer, n)
      /\ data \in Seq(Characters)
      /\ Len(data) = IF n < d THEN n ELSE d
      /\ \A i \in 1 .. Len(data) : data[i] = Ring!Contents(g.buffer)[i]
  <2>1. data = Ring!Dequeued(g.buffer, n)  BY BufferIsRing
  <2>2. IsRing(g.buffer, Characters)  BY <1>2
  <2>3. /\ Ring!Dequeued(g.buffer, n) \in Seq(Characters)
        /\ Len(Ring!Dequeued(g.buffer, n)) = IF n < d THEN n ELSE d
        /\ \A i \in 1 .. Len(Ring!Dequeued(g.buffer, n)) :
             Ring!Dequeued(g.buffer, n)[i] = Ring!Contents(g.buffer)[i]
    BY <2>2, TakenOut
  <2> HIDE DEF data
  <2> QED BY <2>1, <2>3
<1> HIDE DEF data, d
<1>5. Len(data) <= f.size - f.bytes_read /\ Len(data) <= d /\ Len(data) \in Nat
  BY <1>1, <1>2, <1>3, <1>4
<1>6. ASSUME f.is_open, NEW i \in 1 .. Len(data)
      PROVE  data[i] = content[f.bytes_read + i]
  <2>1. i \in 1 .. d  BY <1>3, <1>5
  <2> QED BY <1>1, <1>2, <1>4, <1>6, <2>1
<1>7. IsPart(data, f, content)
  BY <1>4, <1>5, <1>6 DEF IsPart
<1>8. d = g.file_bytes_read - f.bytes_read  BY <1>1, <1>2, <1>3
<1> QED BY <1>3, <1>4, <1>7, <1>8 DEF data, d

(* The reader goes on in the same file.                                    *)
GoesOn(g, f, content) == IsFile(g, content) /\ g.size = f.size /\ g.is_open = f.is_open

IsRead(r, f, content, n, whole) ==
  /\ GoesOn(r.file, f, content)
  /\ IsPart(r.data, f, content)
  /\ Len(r.data) <= n
  /\ whole => Len(r.data) = n \/ Len(r.data) = f.size - f.bytes_read

LEMMA ReadGives ==
  ASSUME NEW content \in Seq(Characters), NEW f, IsFile(f, content),
         NEW kernel, IsKernel(kernel), NEW n \in Nat, n > 0
  PROVE  IsRead(Read(f, content, n, kernel), f, content, n, kernel.reads = f.size)
<1> DEFINE g == Fetch(f, content, n, kernel)
           data == Buffer!Dequeued(g.buffer, n)
           r == Read(f, content, n, kernel)
           whole == kernel.reads = f.size
<1>1. IsFetched(g, f, content, n, whole)  BY FetchedIsFile
<1>2. r = [file |-> Take(g, Len(data)), data |-> data]  BY DEF Read
<1> HIDE DEF g, whole
<1>3. /\ IsPart(data, f, content)
      /\ Len(data) = IF n < g.buffer.data_size THEN n ELSE g.buffer.data_size
      /\ g.buffer.data_size \in Nat
      /\ g.buffer.data_size = g.file_bytes_read - f.bytes_read
  BY <1>1, BufferIsPart
<1> HIDE DEF data, r
<1>4. IsFile(g, content) /\ g.size = f.size /\ g.is_open = f.is_open
  BY <1>1 DEF IsFetched
<1>5. Len(data) \in 0 .. g.buffer.data_size  BY <1>3
<1>6. GoesOn(r.file, f, content)
  <2>1. GoesOn(Take(g, Len(data)), f, content)
    BY <1>4, <1>5, TakenIsFile DEF GoesOn
  <2> QED BY <1>2, <2>1
<1>7. whole => g.buffer.data_size >= n \/ g.file_bytes_read = g.size
  BY <1>1 DEF IsFetched
<1>8. whole => Len(data) = n \/ Len(data) = f.size - f.bytes_read
  BY <1>3, <1>4, <1>7
<1>9. Len(data) <= n  BY <1>3
<1>10. r.data = data  BY <1>2
<1> QED BY <1>3, <1>6, <1>8, <1>9, <1>10 DEF IsRead, r, whole

IsLine(line, f, content, whole) ==
  /\ GoesOn(line.file, f, content)
  /\ IsPart(line.data, f, content)
  /\ \A i \in 1 .. Len(line.data) : line.data[i] # "\n"
  /\ whole =>
       \/ Len(line.data) = f.size - f.bytes_read
       \/ /\ f.is_open
          /\ Len(line.data) < f.size - f.bytes_read
          /\ content[f.bytes_read + Len(line.data) + 1] = "\n"

LEMMA LineGives ==
  ASSUME NEW content, NEW f, NEW g, NEW whole, IsFetched(g, f, content, 0, whole),
         f.bytes_read \in Nat
  PROVE  IsLine(ReadLine(g), f, content, whole)
<1> DEFINE r == Buffer!Find(g.buffer, "\n")
           d == g.buffer.data_size
           q == Ring!Contents(g.buffer)
           line == ReadLine(g)
           part == Buffer!Dequeued(g.buffer, r)
           all == Buffer!Dequeued(g.buffer, d)
<1>1. /\ IsFile(g, content) /\ g.bytes_read = f.bytes_read /\ g.size = f.size
      /\ g.is_open = f.is_open
      /\ whole => (\E i \in 1 .. d : q[i] = "\n") \/ g.file_bytes_read = g.size
  BY DEF IsFetched
<1>2. /\ IsRing(g.buffer, Characters) /\ g.size \in Nat
      /\ g.file_bytes_read \in Nat /\ g.file_bytes_read <= g.size
      /\ g.bytes_read + d = g.file_bytes_read
      /\ g.is_open => \A i \in 1 .. d : q[i] = content[g.bytes_read + i]
      /\ ~g.is_open => g.size = 0
      /\ g.is_open \in BOOLEAN
  BY <1>1 DEF IsFile
<1>3. d \in Nat  BY <1>2 DEF IsRing
<1>4. \/ r = -1 /\ \A i \in 1 .. d : q[i] # "\n"
      \/ /\ r \in 0 .. d - 1
         /\ q[r + 1] = "\n"
         /\ \A i \in 1 .. r : q[i] # "\n"
  BY <1>2, FoundFirst
<1>8. r \in Int
  <2> HIDE DEF r, d, q
  <2> QED BY <1>3, <1>4
<1>5. CASE r >= 0
  <2>1. line = [file |-> Take(g, r + 1), data |-> part]
    <3>1. ~ (r < 0)  BY <1>5, <1>8
    <3> HIDE DEF r
    <3> QED BY <1>5, <3>1 DEF ReadLine, r
  <2>2. /\ r \in Nat /\ r + 1 \in 0 .. d /\ r < d
        /\ q[r + 1] = "\n" /\ \A i \in 1 .. r : q[i] # "\n"
    <3> HIDE DEF r, d, q
    <3> QED BY <1>3, <1>4, <1>5
  <2> HIDE DEF r, line
  <2>3. /\ IsPart(part, f, content)
        /\ Len(part) = IF r < d THEN r ELSE d
        /\ \A i \in 1 .. Len(part) : part[i] = q[i]
    BY <2>2, BufferIsPart
  <2> HIDE DEF part, d, q
  <2>4. Len(part) = r  BY <2>2, <2>3
  <2>5. GoesOn(line.file, f, content)
    <3>1. GoesOn(Take(g, r + 1), f, content)
      BY <1>1, <2>2, TakenIsFile DEF GoesOn, d
    <3> QED BY <2>1, <3>1
  <2>6. f.is_open /\ r < f.size - f.bytes_read
    <3>1. g.size > 0  BY <1>1, <1>2, <1>3, <2>2
    <3> QED BY <1>1, <1>2, <1>3, <2>2, <3>1
  <2>7. content[f.bytes_read + r + 1] = "\n"
    <3>1. r + 1 \in 1 .. d /\ f.bytes_read + (r + 1) = f.bytes_read + r + 1
      BY <1>3, <2>2
    <3> QED BY <1>1, <1>2, <2>2, <2>6, <3>1
  <2>8. line.data = part  BY <2>1
  <2>9. IsLine(line, f, content, whole)
    BY <2>2, <2>3, <2>4, <2>5, <2>6, <2>7, <2>8 DEF IsLine
  <2> QED BY <2>9 DEF line
<1>6. CASE r < 0 /\ g.bytes_read < g.size
  <2>1. line = [file |-> Take(g, d), data |-> all]
    <3>1. ~ (r >= 0)  BY <1>4, <1>6
    <3> QED BY <1>6, <3>1 DEF ReadLine
  <2>2. \A i \in 1 .. d : q[i] # "\n"  BY <1>3, <1>4, <1>6
  <2>3. /\ IsPart(all, f, content)
        /\ Len(all) = d
        /\ \A i \in 1 .. Len(all) : all[i] = q[i]
    <3>1. ~ (d < d)  BY <1>3
    <3> QED BY <1>3, <3>1, BufferIsPart
  <2> HIDE DEF all, q, line, d
  <2>4. GoesOn(line.file, f, content)
    <3>1. d \in 0 .. g.buffer.data_size  BY <1>3 DEF d
    <3>2. GoesOn(Take(g, d), f, content)
      BY <1>1, <3>1, TakenIsFile DEF GoesOn
    <3> QED BY <2>1, <3>2
  <2>5. whole => d = f.size - f.bytes_read  BY <1>1, <1>2, <1>3, <2>2
  <2>6. line.data = all  BY <2>1
  <2>7. IsLine(line, f, content, whole)
    BY <2>2, <2>3, <2>4, <2>5, <2>6 DEF IsLine
  <2> QED BY <2>7 DEF line
<1>7. CASE r < 0 /\ ~ (g.bytes_read < g.size)
  <2>1. line = [file |-> g, data |-> << >>]
    <3>1. ~ (r >= 0)  BY <1>4, <1>7
    <3> QED BY <1>7, <3>1 DEF ReadLine
  <2>2. << >> \in Seq(Characters) /\ Len(<< >>) = 0  BY EmptySeq
  <2>3. f.size - f.bytes_read = 0  BY <1>1, <1>2, <1>3, <1>7
  <2> HIDE DEF line
  <2>4. line.data = << >> /\ line.file = g  BY <2>1
  <2>5. IsLine(line, f, content, whole)
    BY <1>1, <2>2, <2>3, <2>4 DEF IsLine, IsPart, GoesOn
  <2> QED BY <2>5 DEF line
<1> QED BY <1>5, <1>6, <1>7, <1>8

-----------------------------------------------------------------------------
(***************************************************************************)
(* ReadsContent, of an operation l, a reader that is open or not, and a    *)
(* file.                                                                   *)
(***************************************************************************)
Returns(l, is_open, content) ==
  LET from == SubSeq(content, l.at + 1, Len(content))
      rest == IF is_open THEN from ELSE << >>
      end == {i \in DOMAIN rest : rest[i] = "\n"} IN
  /\ IsPrefix(l.data, rest)
  /\ l.kind = "bytes" /\ l.whole => Len(l.data) = Min({l.asked, Len(rest)})
  /\ l.kind = "line" => "\n" \notin ToSet(l.data)
  /\ l.kind = "line" /\ l.whole =>
       l.data = IF end = {} THEN rest ELSE SubSeq(rest, 1, Min(end) - 1)

LEMMA ReturnsIsReads == ReadsContent <=> Returns(last, file.is_open, task.content)
BY DEF ReadsContent, Returns

LEMMA MinOfTwo ==
  ASSUME NEW a \in Int, NEW b \in Int
  PROVE  Min({a, b}) = IF a < b THEN a ELSE b
<1> DEFINE m == IF a < b THEN a ELSE b
<1>1. m \in {a, b} /\ \A y \in {a, b} : m <= y  OBVIOUS
<1>2. \A x \in {a, b} : (\A y \in {a, b} : x <= y) => x = m  OBVIOUS
<1> HIDE DEF m
<1>3. Min({a, b}) = m  BY <1>1, <1>2 DEF Min
<1> QED BY <1>3 DEF m

LEMMA MinOfNumbers ==
  ASSUME NEW T \in SUBSET Nat, T # {}
  PROVE  Min(T) \in T /\ \A i \in T : Min(T) <= i
<1>1. \E i \in T : \A j \in T : i <= j  BY LeastIndex
<1> QED BY <1>1 DEF Min

LEMMA MaxOfNumbers ==
  ASSUME NEW n \in Nat, NEW T \in SUBSET (0 .. n), T # {}
  PROVE  Max(T) \in T /\ \A i \in T : i <= Max(T)
<1>1. \E i \in T : \A j \in T : j <= i  BY GreatestIndex
<1>2. \E i \in T : \A j \in T : i >= j
  <2>1. PICK i \in T : \A j \in T : j <= i  BY <1>1
  <2>2. \A j \in T : i >= j  BY <2>1
  <2> QED BY <2>2
<1> DEFINE m == CHOOSE i \in T : \A j \in T : i >= j
<1>3. m \in T /\ \A j \in T : m >= j  BY <1>2
<1>4. Max(T) = m  BY DEF Max
<1> HIDE DEF m
<1> QED BY <1>3, <1>4

(* The rest of the file from a position.                                   *)
LEMMA RestOf ==
  ASSUME NEW f, NEW content \in Seq(Characters), IsFile(f, content)
  PROVE  LET from == SubSeq(content, f.bytes_read + 1, Len(content))
             rest == IF f.is_open THEN from ELSE << >> IN
         /\ rest \in Seq(Characters)
         /\ Len(rest) = f.size - f.bytes_read
         /\ f.is_open => \A i \in 1 .. Len(rest) : rest[i] = content[f.bytes_read + i]
         /\ f.bytes_read \in Nat /\ f.size - f.bytes_read \in Nat
         /\ f.is_open \in BOOLEAN
<1> DEFINE at == f.bytes_read
           rest == IF f.is_open THEN SubSeq(content, at + 1, Len(content)) ELSE << >>
           Goal == /\ rest \in Seq(Characters)
                   /\ Len(rest) = f.size - at
                   /\ f.is_open => \A i \in 1 .. Len(rest) : rest[i] = content[at + i]
                   /\ at \in Nat /\ f.size - at \in Nat
                   /\ f.is_open \in BOOLEAN
<1> SUFFICES Goal  OBVIOUS
<1>1. /\ f.bytes_read \in Nat /\ f.size \in Nat
      /\ f.file_bytes_read \in Nat /\ f.file_bytes_read <= f.size
      /\ f.bytes_read + f.buffer.data_size = f.file_bytes_read
      /\ f.is_open \in BOOLEAN
      /\ ~f.is_open => f.size = 0
      /\ f.is_open => f.size = Len(content)
      /\ IsRing(f.buffer, Characters)
  BY DEF IsFile
<1>2. f.buffer.data_size \in Nat  BY <1>1 DEF IsRing
<1>3. at \in Nat /\ at <= f.size  BY <1>1, <1>2
<1>4. CASE f.is_open
  <2> HIDE DEF at
  <2>1. /\ SubSeq(content, at + 1, Len(content)) \in Seq(Characters)
        /\ Len(SubSeq(content, at + 1, Len(content))) = Len(content) - at
        /\ \A i \in 1 .. Len(content) - at :
             SubSeq(content, at + 1, Len(content))[i] = content[at + i]
    <3>1. at <= Len(content) /\ Len(content) \in Nat  BY <1>1, <1>3, <1>4
    <3> QED BY <1>3, <3>1, PartOf
  <2>2. rest = SubSeq(content, at + 1, Len(content))  BY <1>4
  <2>3. Len(content) = f.size  BY <1>1, <1>4
  <2> HIDE DEF rest
  <2>4. /\ rest \in Seq(Characters) /\ Len(rest) = f.size - at
        /\ \A i \in 1 .. f.size - at : rest[i] = content[at + i]
    BY <2>1, <2>2, <2>3
  <2> QED BY <1>1, <1>3, <2>4
<1>5. CASE ~f.is_open
  <2>1. at = 0 /\ f.size = 0  BY <1>1, <1>3, <1>5
  <2>2. rest = << >>  BY <1>5
  <2> HIDE DEF rest
  <2> QED BY <1>1, <1>5, <2>1, <2>2, EmptySeq
<1> QED BY <1>1, <1>4, <1>5

LEMMA PartIsPrefix ==
  ASSUME NEW data \in Seq(Characters), NEW rest \in Seq(Characters),
         Len(data) <= Len(rest), \A i \in 1 .. Len(data) : data[i] = rest[i]
  PROVE  /\ IsPrefix(data, rest)
         /\ data = SubSeq(rest, 1, Len(data))
<1> DEFINE n == Len(data)
<1>1. n \in Nat /\ Len(rest) \in Nat /\ 0 <= n /\ 0 + 1 = 1  OBVIOUS
<1>2. /\ SubSeq(rest, 0 + 1, n) \in Seq(Characters)
      /\ Len(SubSeq(rest, 0 + 1, n)) = n - 0
      /\ \A i \in 1 .. n - 0 : SubSeq(rest, 0 + 1, n)[i] = rest[0 + i]
  <2> HIDE DEF n
  <2>1. n <= Len(rest)  BY DEF n
  <2> QED BY <1>1, <2>1, PartOf
<1>3. /\ SubSeq(data, 0 + 1, n) \in Seq(Characters)
      /\ Len(SubSeq(data, 0 + 1, n)) = n - 0
      /\ \A i \in 1 .. n - 0 : SubSeq(data, 0 + 1, n)[i] = data[0 + i]
  <2> HIDE DEF n
  <2>1. n <= Len(data)  BY <1>1 DEF n
  <2> QED BY <1>1, <2>1, PartOf
<1>4. /\ SubSeq(rest, 1, n) \in Seq(Characters) /\ Len(SubSeq(rest, 1, n)) = n
      /\ \A i \in 1 .. n : SubSeq(rest, 1, n)[i] = rest[i]
      /\ SubSeq(data, 1, n) \in Seq(Characters) /\ Len(SubSeq(data, 1, n)) = n
      /\ \A i \in 1 .. n : SubSeq(data, 1, n)[i] = data[i]
  <2> HIDE DEF n
  <2>1. n - 0 = n /\ \A i \in 1 .. n : 0 + i = i  BY <1>1
  <2> QED BY <1>1, <1>2, <1>3, <2>1
<1>5. data = SubSeq(rest, 1, n) /\ data = SubSeq(data, 1, n)
  BY <1>4, SeqEqual
<1> QED BY <1>5 DEF IsPrefix

LEMMA BytesReturn ==
  ASSUME NEW r, NEW f, NEW content \in Seq(Characters), IsFile(f, content),
         NEW n \in Nat, NEW whole, IsRead(r, f, content, n, whole)
  PROVE  Returns([kind |-> "bytes", at |-> f.bytes_read, asked |-> n, data |-> r.data,
                  whole |-> whole], f.is_open, content)
<1> DEFINE from == SubSeq(content, f.bytes_read + 1, Len(content))
           rest == IF f.is_open THEN from ELSE << >>
           l == [kind |-> "bytes", at |-> f.bytes_read, asked |-> n, data |-> r.data,
                 whole |-> whole]
<1>1. /\ rest \in Seq(Characters) /\ Len(rest) = f.size - f.bytes_read
      /\ f.is_open => \A i \in 1 .. Len(rest) : rest[i] = content[f.bytes_read + i]
      /\ f.size - f.bytes_read \in Nat
  BY RestOf
<1>2. /\ r.data \in Seq(Characters) /\ Len(r.data) <= f.size - f.bytes_read
      /\ f.is_open => \A i \in 1 .. Len(r.data) : r.data[i] = content[f.bytes_read + i]
      /\ Len(r.data) <= n
      /\ whole => Len(r.data) = n \/ Len(r.data) = f.size - f.bytes_read
  BY DEF IsRead, IsPart
<1>3. ~f.is_open => Len(rest) = 0  BY EmptySeq
<1> HIDE DEF rest
<1>4. Len(r.data) \in Nat /\ Len(rest) \in Nat /\ Len(r.data) <= Len(rest)
  BY <1>1, <1>2
<1>5. \A i \in 1 .. Len(r.data) : r.data[i] = rest[i]
  <2>1. CASE f.is_open
    <3>1. \A i \in 1 .. Len(r.data) : i \in 1 .. Len(rest)  BY <1>4
    <3> QED BY <1>1, <1>2, <2>1, <3>1
  <2>2. CASE ~f.is_open  BY <1>3, <1>4, <2>2
  <2> QED BY <2>1, <2>2
<1>6. IsPrefix(r.data, rest)  BY <1>1, <1>2, <1>4, <1>5, PartIsPrefix
<1>7. whole => Len(r.data) = Min({n, Len(rest)})
  <2>1. Min({n, Len(rest)}) = IF n < Len(rest) THEN n ELSE Len(rest)
    BY <1>4, MinOfTwo
  <2> QED BY <1>1, <1>2, <1>4, <2>1
<1>8. /\ l.kind = "bytes" /\ l.at = f.bytes_read /\ l.asked = n /\ l.data = r.data
      /\ l.whole = whole
  OBVIOUS
<1> HIDE DEF l
<1>9. rest = IF f.is_open THEN SubSeq(content, l.at + 1, Len(content)) ELSE << >>
  BY <1>8 DEF rest
<1>10. l.kind # "line"  BY <1>8
<1>11. Returns(l, f.is_open, content)
  BY <1>6, <1>7, <1>8, <1>9, <1>10 DEF Returns
<1> QED BY <1>11 DEF l

LEMMA LineReturns ==
  ASSUME NEW r, NEW f, NEW content \in Seq(Characters), IsFile(f, content),
         NEW whole, IsLine(r, f, content, whole)
  PROVE  Returns([kind |-> "line", at |-> f.bytes_read, asked |-> 0, data |-> r.data,
                  whole |-> whole], f.is_open, content)
<1> DEFINE from == SubSeq(content, f.bytes_read + 1, Len(content))
           rest == IF f.is_open THEN from ELSE << >>
           end == {i \in DOMAIN rest : rest[i] = "\n"}
           n == Len(r.data)
           l == [kind |-> "line", at |-> f.bytes_read, asked |-> 0, data |-> r.data,
                 whole |-> whole]
<1>1. /\ rest \in Seq(Characters) /\ Len(rest) = f.size - f.bytes_read
      /\ f.is_open => \A i \in 1 .. Len(rest) : rest[i] = content[f.bytes_read + i]
      /\ f.size - f.bytes_read \in Nat /\ f.bytes_read \in Nat
  BY RestOf
<1>2. /\ r.data \in Seq(Characters) /\ n <= f.size - f.bytes_read
      /\ f.is_open => \A i \in 1 .. n : r.data[i] = content[f.bytes_read + i]
      /\ \A i \in 1 .. n : r.data[i] # "\n"
      /\ whole => \/ n = f.size - f.bytes_read
                  \/ /\ f.is_open
                     /\ n < f.size - f.bytes_read
                     /\ content[f.bytes_read + n + 1] = "\n"
  BY DEF IsLine, IsPart
<1>3. ~f.is_open => Len(rest) = 0  BY EmptySeq
<1> HIDE DEF rest, n
<1>4. n \in Nat /\ Len(rest) \in Nat /\ n <= Len(rest) /\ n = Len(r.data)
  BY <1>1, <1>2 DEF n
<1>5. \A i \in 1 .. n : r.data[i] = rest[i]
  <2>1. CASE f.is_open
    <3>1. \A i \in 1 .. n : i \in 1 .. Len(rest)  BY <1>4
    <3> QED BY <1>1, <1>2, <2>1, <3>1
  <2>2. CASE ~f.is_open  BY <1>3, <1>4, <2>2
  <2> QED BY <2>1, <2>2
<1>6. IsPrefix(r.data, rest) /\ r.data = SubSeq(rest, 1, n)
  BY <1>1, <1>2, <1>4, <1>5, PartIsPrefix
<1>7. "\n" \notin ToSet(r.data)
  <2>1. DOMAIN r.data = 1 .. n  BY <1>2, <1>4
  <2> QED BY <1>2, <2>1 DEF ToSet
<1>8. DOMAIN rest = 1 .. Len(rest)  BY <1>1
<1>9. ASSUME n = Len(rest) PROVE end = {} /\ r.data = rest
  <2>1. end = {}  BY <1>2, <1>5, <1>8, <1>9
  <2>2. r.data = rest  BY <1>1, <1>2, <1>4, <1>5, <1>9, SeqEqual
  <2> QED BY <2>1, <2>2
<1>10. ASSUME whole, n # Len(rest)
       PROVE  end # {} /\ Min(end) - 1 = n
  <2>1. f.is_open /\ n < Len(rest) /\ content[f.bytes_read + n + 1] = "\n"
    BY <1>1, <1>2, <1>10
  <2>2. n + 1 \in 1 .. Len(rest) /\ f.bytes_read + (n + 1) = f.bytes_read + n + 1
    <3>1. n + 1 \in 1 .. Len(rest)  BY <1>4, <2>1
    <3>2. f.bytes_read \in Nat  BY <1>1
    <3> QED BY <1>4, <3>1, <3>2
  <2>3. n + 1 \in end
    <3>1. rest[n + 1] = content[f.bytes_read + (n + 1)]
      BY <1>1, <2>1, <2>2
    <3> QED BY <1>8, <2>1, <2>2, <3>1
  <2>4. end \in SUBSET Nat  BY <1>4, <1>8
  <2>5. ASSUME NEW i \in end PROVE i > n
    <3>1. i \in Nat /\ i >= 1 /\ rest[i] = "\n"  BY <1>4, <1>8
    <3>2. i <= n => rest[i] # "\n"
      <4> SUFFICES ASSUME i <= n PROVE rest[i] # "\n"  OBVIOUS
      <4>1. i \in 1 .. n  BY <1>4, <3>1
      <4> QED BY <1>2, <1>5, <4>1
    <3> QED BY <1>4, <3>1, <3>2
  <2> HIDE DEF end
  <2>6. Min(end) \in end /\ \A i \in end : Min(end) <= i
    BY <2>3, <2>4, MinOfNumbers
  <2> DEFINE m == Min(end)
  <2> HIDE DEF m
  <2>7. m \in Nat /\ m > n /\ m <= n + 1  BY <2>3, <2>4, <2>5, <2>6 DEF m
  <2>8. m - 1 = n  BY <1>4, <2>7
  <2> QED BY <2>3, <2>8 DEF m
<1>11. whole => r.data = IF end = {} THEN rest ELSE SubSeq(rest, 1, Min(end) - 1)
  BY <1>6, <1>9, <1>10
<1>12. /\ l.kind = "line" /\ l.at = f.bytes_read /\ l.data = r.data /\ l.whole = whole
  OBVIOUS
<1> HIDE DEF l
<1>13. rest = IF f.is_open THEN SubSeq(content, l.at + 1, Len(content)) ELSE << >>
  BY <1>12 DEF rest
<1>14. l.kind # "bytes"  BY <1>12
<1>15. Returns(l, f.is_open, content)
  BY <1>6, <1>7, <1>11, <1>12, <1>13, <1>14 DEF Returns
<1> QED BY <1>15 DEF l

(* Before the first operation, and after one that returns nothing.         *)
LEMMA NothingReturns ==
  ASSUME NEW is_open, NEW content,
         is_open => content \in Seq(Characters)
  PROVE  Returns(NoOperation, is_open, content)
<1> DEFINE from == SubSeq(content, 0 + 1, Len(content))
           rest == IF is_open THEN from ELSE << >>
<1>1. NoOperation.kind = "none" /\ NoOperation.at = 0 /\ NoOperation.data = << >>
  BY DEF NoOperation
<1>2. rest \in Seq(Characters)
  <2>1. CASE is_open
    <3>1. 0 \in Nat /\ 0 <= Len(content) /\ Len(content) \in Nat  BY <2>1
    <3>2. from \in Seq(Characters)  BY <2>1, <3>1, PartOf
    <3> QED BY <2>1, <3>2
  <2>2. CASE ~is_open  BY <2>2
  <2> QED BY <2>1, <2>2
<1>3. rest = IF is_open THEN SubSeq(content, NoOperation.at + 1, Len(content)) ELSE << >>
  BY <1>1
<1> HIDE DEF rest
<1>4. << >> \in Seq(Characters) /\ Len(<< >>) = 0 /\ Len(rest) \in Nat
  BY <1>2, EmptySeq
<1>5. IsPrefix(<< >>, rest)
  <2>1. Len(<< >>) <= Len(rest) /\ \A i \in 1 .. Len(<< >>) : << >>[i] = rest[i]
    BY <1>4
  <2> QED BY <1>2, <1>4, <2>1, PartIsPrefix
<1> QED BY <1>1, <1>3, <1>5 DEF Returns

-----------------------------------------------------------------------------
(* The settings.  What is parsed of a text is text.                        *)
LEMMA StrippedIsText ==
  ASSUME NEW S, NEW s \in Seq(S)
  PROVE  Strip(s) \in Seq(S)
<1> DEFINE solid == {i \in DOMAIN s : s[i] \notin Spaces}
<1>1. CASE solid = {}  BY <1>1 DEF Strip
<1>2. CASE solid # {}
  <2>1. DOMAIN s = 1 .. Len(s) /\ Len(s) \in Nat  OBVIOUS
  <2>2. solid \in SUBSET Nat /\ solid \in SUBSET (0 .. Len(s)) /\ solid \subseteq 1 .. Len(s)
    BY <2>1
  <2>3. Strip(s) = SubSeq(s, Min(solid), Max(solid))  BY <1>2 DEF Strip
  <2> HIDE DEF solid
  <2> DEFINE a == Min(solid)
             b == Max(solid)
             c == a - 1
  <2>4. a \in 1 .. Len(s) /\ b \in 1 .. Len(s) /\ a <= b
    <3>1. a \in solid /\ \A i \in solid : a <= i  BY <1>2, <2>2, MinOfNumbers
    <3>2. b \in solid  BY <1>2, <2>1, <2>2, MaxOfNumbers
    <3> QED BY <2>2, <3>1, <3>2
  <2> HIDE DEF a, b
  <2>5. c \in Nat /\ c + 1 = a /\ b \in Nat /\ c <= b /\ b <= Len(s)  BY <2>1, <2>4
  <2> HIDE DEF c
  <2>6. SubSeq(s, c + 1, b) \in Seq(S)  BY <2>5, PartOf
  <2> QED BY <2>3, <2>5, <2>6 DEF a, b
<1> QED BY <1>1, <1>2

LEMMA ParsedGroup ==
  ASSUME NEW S, NEW line \in Seq(S)
  PROVE  Parse(line).group \in Seq(S)
<1> DEFINE inner == SubSeq(line, 2, Len(line) - 1)
           sep == IndexIn(line, "=")
           key == KeyIn(SubSeq(line, 1, sep - 1))
           value == ParseString(Strip(SubSeq(line, sep + 1, Len(line))))
           malformed == [NothingSaid EXCEPT !.malformed = TRUE]
           group == [NothingSaid EXCEPT !.group = Strip(inner)]
           pair == [NothingSaid EXCEPT !.key = key, !.value = value]
<1>1. Parse(line) =
        IF line = << >> \/ line[1] \in {"#", ";"} THEN NothingSaid
        ELSE IF line[1] = "[" THEN
          IF line[Len(line)] # "]" \/ Len(line) < 3 THEN malformed ELSE group
        ELSE IF sep = 0 \/ key = << >> THEN malformed
        ELSE pair
  BY DEF Parse
<1>2. << >> \in Seq(S)  OBVIOUS
<1>3. NothingSaid.group = << >> /\ malformed.group = << >>
  BY DEF NothingSaid
<1>4. pair.group = << >>
  <2> HIDE DEF key, value
  <2> QED BY DEF NothingSaid
<1>5. ASSUME ~ (Len(line) < 3) PROVE group.group \in Seq(S)
  <2> DEFINE b == Len(line) - 1
  <2>1. 1 \in Nat /\ b \in Nat /\ 1 <= b /\ b <= Len(line) /\ 1 + 1 = 2  BY <1>5
  <2> HIDE DEF b
  <2>2. SubSeq(line, 1 + 1, b) \in Seq(S)  BY <2>1, PartOf
  <2>3. inner \in Seq(S)  BY <2>1, <2>2 DEF b
  <2> HIDE DEF inner
  <2>4. Strip(inner) \in Seq(S)  BY <2>3, StrippedIsText
  <2> QED BY <2>4 DEF NothingSaid
<1> HIDE DEF malformed, group, pair
<1> QED BY <1>1, <1>2, <1>3, <1>4, <1>5

(* No settings without a group that has a name.                            *)
IsSettings(r) ==
  /\ r.group \in Seq(Characters)
  /\ DOMAIN r.configs \subseteq Seq(Characters) \ {<< >>}

LEMMA SetValueAdds ==
  ASSUME NEW map, NEW key, NEW value
  PROVE  DOMAIN MapSetValue(map, key, value) = DOMAIN map \cup {key}
BY DEF MapSetValue

LEMMA StoredIsSettings ==
  ASSUME NEW r, IsSettings(r), NEW element, element.group \in Seq(Characters)
  PROVE  IsSettings(Store(r, element))
<1> DEFINE group == IF r.group = << >> THEN <<"General">> ELSE r.group
<1>1. group \in Seq(Characters) \ {<< >>}
  <2>1. "General" \in Characters  BY DEF Characters
  <2>2. <<"General">> \in Seq(Characters) /\ <<"General">> # << >>
    <3>1. Len(<<"General">>) = 1 /\ Len(<< >>) = 0  OBVIOUS
    <3> QED BY <2>1, <3>1
  <2> QED BY <2>2 DEF IsSettings
<1>2. StoreValue(r, element) =
        [group |-> group,
         configs |-> MapSetValue(r.configs, group,
            MapSetValue(MapValue(r.configs, group), element.key, element.value))]
  BY DEF StoreValue
<1> HIDE DEF group
<1>3. IsSettings(StoreValue(r, element))
  <2>1. /\ StoreValue(r, element).group = group
        /\ DOMAIN StoreValue(r, element).configs = DOMAIN r.configs \cup {group}
    <3> DEFINE inner == MapSetValue(MapValue(r.configs, group), element.key, element.value)
               configs == MapSetValue(r.configs, group, inner)
    <3>1. DOMAIN configs = DOMAIN r.configs \cup {group}  BY SetValueAdds
    <3>2. StoreValue(r, element) = [group |-> group, configs |-> configs]  BY <1>2
    <3> HIDE DEF configs
    <3> QED BY <3>1, <3>2
  <2> QED BY <1>1, <2>1 DEF IsSettings
<1>4. CASE element.group # << >>
  <2> DEFINE configs == MapSetValue(r.configs, element.group,
                                    MapValue(r.configs, element.group))
  <2>1. Store(r, element) = [group |-> element.group, configs |-> configs]
    BY <1>4 DEF Store
  <2>2. DOMAIN configs = DOMAIN r.configs \cup {element.group}  BY SetValueAdds
  <2> HIDE DEF configs
  <2> QED BY <1>4, <2>1, <2>2 DEF IsSettings
<1>5. CASE element.group = << >>
  <2>1. Store(r, element) = StoreValue(r, element) \/ Store(r, element) = r
    BY <1>5 DEF Store
  <2> QED BY <1>3, <2>1
<1> QED BY <1>4, <1>5

-----------------------------------------------------------------------------
(***************************************************************************)
(* The inductive invariant.  Only a user of the reader notes down what it  *)
(* returns; only settings are read line by line by the driver; and the     *)
(* file of a picture is another one.                                       *)
(***************************************************************************)
IsTask(t) ==
  /\ t.what \in {"read", "settings", "picture"}
  /\ t.block \in Blocks
  /\ t.what # "picture" => t.content \in Seq(Characters)

ReaderInv ==
  /\ IsTask(task)
  /\ IsFile(file, task.content)
  /\ task.what = "picture" => ~file.is_open
  /\ task.what # "read" => last = NoOperation
  /\ Returns(last, file.is_open, task.content)

SettingsInv ==
  /\ status \in {"none", "loading", "loaded", "refused", "configured"}
  /\ status = "loading" => task.what = "settings"
  /\ IsSettings(read)
  /\ failures \in 0 .. MaxFailures

ConfigurationInv == ReaderInv /\ SettingsInv

LEMMA ConfigurationStarts == Init => ConfigurationInv
<1> SUFFICES ASSUME Init PROVE ConfigurationInv
  OBVIOUS
<1>1. IsTask(task)
  <2>1. CASE task \in [what : {"read"}, content : Texts, block : Blocks]
    BY <2>1, ConfigurationConstants DEF IsTask
  <2>2. CASE \E d \in Documents, b \in Blocks :
               task = [what |-> "settings", document |-> d, content |-> Written(d), block |-> b]
    BY <2>2, DocumentsAreTexts DEF IsTask
  <2>3. CASE \E p \in Bitmaps, b \in Blocks :
               task = [what |-> "picture", bitmap |-> p, block |-> b,
                       content |-> LET f == FileOf(p) IN SubSeq(f, 1, Len(f) - p.missing)]
    BY <2>3 DEF IsTask
  <2> QED BY <2>1, <2>2, <2>3 DEF Init
<1>2. IsFile(file, task.content)  BY NewFileIsFile DEF Init
<1>3. ~file.is_open  BY DEF Init, NewFile
<1>4. Returns(last, file.is_open, task.content)
  BY <1>3, NothingReturns DEF Init
<1>5. IsSettings(read)
  <2>1. NothingRead.group = << >> /\ NothingRead.configs = << >>  BY DEF NothingRead
  <2>2. DOMAIN << >> = {} /\ << >> \in Seq(Characters)  OBVIOUS
  <2> QED BY <2>1, <2>2 DEF Init, IsSettings
<1>6. failures \in 0 .. MaxFailures  BY ConfigurationConstants DEF Init
<1>7. last = NoOperation /\ status = "none"  BY DEF Init
<1> QED BY <1>1, <1>2, <1>3, <1>4, <1>5, <1>6, <1>7
        DEF ConfigurationInv, ReaderInv, SettingsInv

LEMMA KernelsRead ==
  ASSUME ReaderInv, NEW kernel \in Kernels
  PROVE  IsKernel(kernel)
<1>1. task.block \in Nat \ {0}
  BY ConfigurationConstants DEF ReaderInv, IsTask
<1>2. file.size \in Nat  BY DEF ReaderInv, IsFile
<1>3. Min({2, file.size}) \in Int  BY <1>2, MinOfTwo
<1>4. kernel.block = task.block /\ kernel.reads \in {file.size} \cup 0 .. Min({2, file.size})
  BY DEF Kernels
<1> QED BY <1>1, <1>2, <1>3, <1>4 DEF IsKernel

LEMMA FailuresCounted ==
  ASSUME failures \in 0 .. MaxFailures, NEW kernel, Kernel(kernel)
  PROVE  failures' \in 0 .. MaxFailures
BY ConfigurationConstants DEF Kernel

(* A user of the reader.                                                   *)
LEMMA UserSteps ==
  ASSUME ReaderInv, SettingsInv, User
  PROVE  ReaderInv' /\ SettingsInv'
<1> DEFINE c == task.content
<1>1. task.what = "read" /\ task' = task /\ status' = status /\ read' = read
  BY DEF User, Open, Close, SeekTo, ReadBytes, ReadOneLine, settings
<1>2. c \in Seq(Characters) /\ IsTask(task) /\ IsFile(file, c)
  BY <1>1 DEF ReaderInv, IsTask
<1>3. SUFFICES /\ IsFile(file', c)
               /\ Returns(last', file.is_open', c)
               /\ failures' \in 0 .. MaxFailures
  BY <1>1, <1>2 DEF ReaderInv, SettingsInv
<1>4. ASSUME failures' = failures PROVE failures' \in 0 .. MaxFailures
  BY <1>4 DEF SettingsInv
<1>5. CASE Open
  <2>1. file' = OpenFile(file, c) /\ last' = NoOperation /\ failures' = failures
    BY <1>5 DEF Open
  <2>2. IsFile(file', c)  BY <1>2, <2>1, OpenedIsFile
  <2> QED BY <1>2, <1>4, <2>1, <2>2, NothingReturns
<1>6. CASE Close
  <2>1. file' = CloseFile(file) /\ last' = NoOperation /\ failures' = failures
    BY <1>6 DEF Close
  <2>2. IsFile(file', c)  BY <1>2, <2>1, ClosedIsFile
  <2> QED BY <1>2, <1>4, <2>1, <2>2, NothingReturns
<1>7. ASSUME NEW offset \in {-1, 1}, NEW pos \in {"BEG", "CUR", "END"}, SeekTo(offset, pos)
      PROVE  /\ IsFile(file', c)
             /\ Returns(last', file.is_open', c)
             /\ failures' \in 0 .. MaxFailures
  <2>1. file' = Seek(file, offset, pos) /\ last' = NoOperation /\ failures' = failures
    BY <1>7 DEF SeekTo
  <2>2. offset \in Int  OBVIOUS
  <2>3. IsFile(file', c)  BY <1>2, <2>1, <2>2, SoughtIsFile
  <2> QED BY <1>2, <1>4, <2>1, <2>3, NothingReturns
<1>8. ASSUME NEW kernel \in Kernels, NEW n \in 1 .. 2, ReadBytes(n, kernel)
      PROVE  /\ IsFile(file', c)
             /\ Returns(last', file.is_open', c)
             /\ failures' \in 0 .. MaxFailures
  <2> DEFINE r == Read(file, c, n, kernel)
             whole == kernel.reads = file.size
  <2>1. /\ Kernel(kernel)
        /\ file' = r.file
        /\ last' = [kind |-> "bytes", at |-> file.bytes_read, asked |-> n,
                    data |-> r.data, whole |-> whole]
    BY <1>8 DEF ReadBytes
  <2>2. IsRead(r, file, c, n, whole)
    <3>1. IsKernel(kernel) /\ n \in Nat /\ n > 0  BY KernelsRead
    <3> QED BY <1>2, <3>1, ReadGives
  <2> HIDE DEF r, whole, c
  <2>3. IsFile(file', c) /\ file.is_open' = file.is_open
    BY <2>1, <2>2 DEF IsRead, GoesOn
  <2>4. n \in Nat  OBVIOUS
  <2>5. Returns(last', file.is_open, c)
    BY <1>2, <2>1, <2>2, <2>4, BytesReturn
  <2>6. failures' \in 0 .. MaxFailures  BY <2>1, FailuresCounted DEF SettingsInv
  <2> QED BY <2>3, <2>5, <2>6
<1>9. ASSUME NEW kernel \in Kernels, ReadOneLine(kernel)
      PROVE  /\ IsFile(file', c)
             /\ Returns(last', file.is_open', c)
             /\ failures' \in 0 .. MaxFailures
  <2> DEFINE g == Fetch(file, c, 0, kernel)
             line == ReadLine(g)
             whole == kernel.reads = file.size
  <2>1. /\ Kernel(kernel)
        /\ file' = line.file
        /\ last' = [kind |-> "line", at |-> file.bytes_read, asked |-> 0,
                    data |-> line.data, whole |-> whole]
    BY <1>9 DEF ReadOneLine
  <2>2. IsFetched(g, file, c, 0, whole)
    <3>1. IsKernel(kernel) /\ 0 \in Nat  BY KernelsRead
    <3> QED BY <1>2, <3>1, FetchedIsFile
  <2> HIDE DEF g, c
  <2>3. file.bytes_read \in Nat  BY <1>2 DEF IsFile
  <2> HIDE DEF whole
  <2>4. IsLine(line, file, c, whole)  BY <2>2, <2>3, LineGives
  <2> HIDE DEF line
  <2>5. IsFile(file', c) /\ file.is_open' = file.is_open
    BY <2>1, <2>4 DEF IsLine, GoesOn
  <2>6. Returns(last', file.is_open, c)
    BY <1>2, <2>1, <2>4, LineReturns
  <2>7. failures' \in 0 .. MaxFailures  BY <2>1, FailuresCounted DEF SettingsInv
  <2> QED BY <2>5, <2>6, <2>7
<1> HIDE DEF c
<1> QED BY <1>5, <1>6, <1>7, <1>8, <1>9 DEF User

(* The driver, which reads lines of the settings.                          *)
LEMMA LineLoads ==
  ASSUME ReaderInv, SettingsInv, NEW kernel \in Kernels, LoadLine(kernel)
  PROVE  /\ IsFile(file', task.content)
         /\ IsSettings(read')
         /\ status' \in {"loading", "refused"}
         /\ failures' \in 0 .. MaxFailures
<1> DEFINE c == task.content
           g == Fetch(file, c, 0, kernel)
           line == ReadLine(g)
           element == Parse(line.data)
           whole == kernel.reads = file.size
<1>1. /\ status = "loading" /\ Kernel(kernel)
      /\ file' = IF element.malformed THEN CloseFile(line.file) ELSE line.file
      /\ status' = IF element.malformed THEN "refused" ELSE "loading"
      /\ read' = IF element.malformed THEN NothingRead ELSE Store(read, element)
  BY DEF LoadLine
<1>2. c \in Seq(Characters) /\ IsFile(file, c)
  BY <1>1 DEF SettingsInv, ReaderInv, IsTask
<1>3. IsFetched(g, file, c, 0, whole)
  <2>1. IsKernel(kernel) /\ 0 \in Nat  BY KernelsRead
  <2> QED BY <1>2, <2>1, FetchedIsFile
<1> HIDE DEF g, c
<1>4. file.bytes_read \in Nat  BY <1>2 DEF IsFile
<1> HIDE DEF whole
<1>5. IsLine(line, file, c, whole)  BY <1>3, <1>4, LineGives
<1> HIDE DEF line
<1>6. IsFile(line.file, c) /\ line.data \in Seq(Characters)
  BY <1>5 DEF IsLine, GoesOn, IsPart
<1>7. IsFile(file', c)
  <2>1. IsFile(CloseFile(line.file), c)  BY <1>6, ClosedIsFile
  <2> HIDE DEF element
  <2> QED BY <1>1, <1>6, <2>1
<1>8. element.group \in Seq(Characters)  BY <1>6, ParsedGroup
<1> HIDE DEF element
<1>9. IsSettings(read')
  <2>1. IsSettings(NothingRead)
    <3>1. NothingRead.group = << >> /\ NothingRead.configs = << >>  BY DEF NothingRead
    <3>2. DOMAIN << >> = {} /\ << >> \in Seq(Characters)  OBVIOUS
    <3> QED BY <3>1, <3>2 DEF IsSettings
  <2>2. IsSettings(Store(read, element))
    BY <1>8, StoredIsSettings DEF SettingsInv
  <2> QED BY <1>1, <2>1, <2>2
<1>10. failures' \in 0 .. MaxFailures  BY <1>1, FailuresCounted DEF SettingsInv
<1> QED BY <1>1, <1>7, <1>9, <1>10 DEF c

LEMMA DriverSteps ==
  ASSUME ReaderInv, SettingsInv, Driver
  PROVE  ReaderInv' /\ SettingsInv'
<1> DEFINE c == task.content
<1>1. task' = task /\ last' = last
  BY DEF Driver, OpenSettings, LoadSettings, LoadDone, LoadLine, ReadConfiguration,
         LoadPicture
<1>2. IsTask(task) /\ IsFile(file, c)  BY DEF ReaderInv
<1>3. ASSUME file' = file PROVE ReaderInv'
  BY <1>1, <1>3 DEF ReaderInv
<1>4. ASSUME task.what = "settings", IsFile(file', c) PROVE ReaderInv'
  <2>1. last' = NoOperation /\ c \in Seq(Characters)
    BY <1>1, <1>2, <1>4 DEF ReaderInv, IsTask
  <2>2. Returns(last', file.is_open', c)  BY <2>1, NothingReturns
  <2> QED BY <1>1, <1>2, <1>4, <2>1, <2>2 DEF ReaderInv
<1>5. CASE OpenSettings
  <2>1. /\ task.what = "settings" /\ file' = OpenFile(file, c) /\ status' = "loading"
        /\ read' = read /\ failures' = failures
    BY <1>5 DEF OpenSettings, settings
  <2>2. IsFile(file', c)
    <3>1. c \in Seq(Characters)  BY <1>2, <2>1 DEF IsTask
    <3> QED BY <1>2, <2>1, <3>1, OpenedIsFile
  <2> QED BY <1>1, <1>4, <2>1, <2>2 DEF SettingsInv
<1>6. ASSUME NEW kernel \in Kernels, LoadLine(kernel) PROVE ReaderInv' /\ SettingsInv'
  <2>1. task.what = "settings"  BY <1>6 DEF LoadLine, SettingsInv
  <2>2. /\ IsFile(file', c) /\ IsSettings(read')
        /\ status' \in {"loading", "refused"} /\ failures' \in 0 .. MaxFailures
    BY <1>6, LineLoads
  <2> QED BY <1>1, <1>4, <2>1, <2>2 DEF SettingsInv
<1>7. CASE LoadDone
  <2>1. /\ status = "loading" /\ file' = CloseFile(file) /\ status' = "loaded"
        /\ read' = read /\ failures' = failures
    BY <1>7 DEF LoadDone, settings
  <2>2. task.what = "settings"  BY <2>1 DEF SettingsInv
  <2>3. IsFile(file', c)  BY <1>2, <2>1, ClosedIsFile
  <2> QED BY <1>1, <1>4, <2>1, <2>2, <2>3 DEF SettingsInv
<1>8. CASE ReadConfiguration
  <2>1. file' = file /\ status' = "configured" /\ read' = read /\ failures' = failures
    BY <1>8 DEF ReadConfiguration
  <2> QED BY <1>3, <2>1 DEF SettingsInv
<1>9. ASSUME NEW junk, LoadPicture(junk) PROVE ReaderInv' /\ SettingsInv'
  <2>1. file' = file /\ status' = "loaded" /\ read' = read /\ failures' = failures
    BY <1>9 DEF LoadPicture, settings
  <2> QED BY <1>3, <2>1 DEF SettingsInv
<1> HIDE DEF c
<1> QED BY <1>5, <1>6, <1>7, <1>8, <1>9 DEF Driver, LoadSettings

LEMMA ConfigurationSteps == ConfigurationInv /\ [Next]_vars => ConfigurationInv'
<1> SUFFICES ASSUME ReaderInv, SettingsInv, [Next]_vars
             PROVE  ReaderInv' /\ SettingsInv'
  BY DEF ConfigurationInv
<1>1. CASE UNCHANGED vars
  BY <1>1 DEF vars, ReaderInv, SettingsInv
<1> QED BY <1>1, UserSteps, DriverSteps DEF Next

THEOREM ConfigurationInvariant == Spec => []ConfigurationInv
<1>1. Init => ConfigurationInv  BY ConfigurationStarts
<1>2. ConfigurationInv /\ [Next]_vars => ConfigurationInv'  BY ConfigurationSteps
<1> QED BY <1>1, <1>2, PTL DEF Spec

(* The reader's counts agree with each other, its buffer and the file, and *)
(* settings are kept under groups that have a name.                        *)
THEOREM ConfigurationTypes == Spec => []TypeOK
<1>1. ConfigurationInv => TypeOK
  <2> SUFFICES ASSUME ReaderInv, SettingsInv PROVE TypeOK
    BY DEF ConfigurationInv
  <2>1. /\ IsRing(file.buffer, Characters) /\ file.buffer.size = file.size
        /\ file.size \in Nat /\ file.bytes_read \in Nat /\ file.file_bytes_read \in Nat
        /\ file.file_bytes_read <= file.size
        /\ file.bytes_read + file.buffer.data_size = file.file_bytes_read
        /\ file.is_open => file.size = Len(task.content)
    BY DEF ReaderInv, IsFile
  <2>2. file.buffer.data_size \in Nat  BY <2>1 DEF IsRing
  <2>3. file.bytes_read \in 0 .. file.size /\ file.file_bytes_read \in 0 .. file.size
    BY <2>1, <2>2
  <2> QED BY <2>1, <2>3 DEF TypeOK, ReaderInv, IsTask, SettingsInv, IsSettings
<1> QED BY <1>1, ConfigurationInvariant, PTL

(* What an operation of the reader returns stands in the file where it     *)
(* began, whatever the kernel gives of each block, and whatever has been   *)
(* read, sought, closed or opened before (akvcam_file_read,                *)
(* akvcam_file_read_line).                                                 *)
THEOREM ReadsContentHolds == Spec => []ReadsContent
<1>1. ConfigurationInv => ReadsContent
  BY ReturnsIsReads DEF ConfigurationInv, ReaderInv
<1> QED BY <1>1, ConfigurationInvariant, PTL
=============================================================================
