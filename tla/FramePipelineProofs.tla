------------------------- MODULE FramePipelineProofs -------------------------
(***************************************************************************)
(* Proofs about the frames a capture device makes, for every size of the   *)
(* frames and of the device, every aspect ratio and every value of the     *)
(* controls.                                                               *)
(***************************************************************************)
EXTENDS FramePipeline, SequenceLemmas, TLAPS

-----------------------------------------------------------------------------
(* Integer division.                                                       *)

LEMMA DivBounds ==
  ASSUME NEW a \in Nat, NEW n \in Nat \ {0}
  PROVE  /\ a \div n \in Nat
         /\ n * (a \div n) <= a /\ a < n * (a \div n) + n
OBVIOUS

LEMMA DivMonotone ==
  ASSUME NEW a \in Int, NEW b \in Int, NEW n \in Nat \ {0}, a <= b
  PROVE  a \div n <= b \div n
OBVIOUS

LEMMA DivShift ==
  ASSUME NEW a \in Nat, NEW f \in Nat, NEW n \in Nat \ {0}
  PROVE  a + f * n \in Nat /\ (a + f * n) \div n = f + a \div n
OBVIOUS

LEMMA DivAtMost ==
  ASSUME NEW a \in Int, NEW q \in Int, NEW n \in Nat \ {0}, a <= n * q
  PROVE  a \div n <= q
OBVIOUS

LEMMA DivAtLeast ==
  ASSUME NEW a \in Int, NEW q \in Int, NEW n \in Nat \ {0}, n * q <= a
  PROVE  q <= a \div n
OBVIOUS

LEMMA ProductGrows ==
  ASSUME NEW a \in Nat, NEW b \in Nat, NEW n \in Nat, a <= b
  PROVE  a * n \in Nat /\ b * n \in Nat /\ a * n <= b * n
OBVIOUS

-----------------------------------------------------------------------------
(* The tables along one axis.                                              *)

(* How far column d of a strip of `steps' is along one of `length'.        *)
Share(d, steps, length) == (d * length) \div steps

LEMMA ShareBounds ==
  ASSUME NEW d \in Nat, NEW steps \in Nat \ {0}, NEW length \in Nat \ {0}
  PROVE  /\ Share(d, steps, length) \in Nat
         /\ steps * Share(d, steps, length) <= d * length
         /\ d * length < steps * Share(d, steps, length) + steps
<1> DEFINE a == d * length
<1>1. a \in Nat
  OBVIOUS
<1> HIDE DEF a
<1>2. a \div steps \in Nat /\ steps * (a \div steps) <= a /\ a < steps * (a \div steps) + steps
  BY <1>1, DivBounds
<1> QED
  BY <1>2 DEF a, Share

LEMMA ShareGrows ==
  ASSUME NEW d \in Nat, NEW e \in Nat, d <= e,
         NEW steps \in Nat \ {0}, NEW length \in Nat \ {0}
  PROVE  Share(d, steps, length) <= Share(e, steps, length)
<1> DEFINE a == d * length
           b == e * length
<1>1. a \in Nat /\ b \in Nat /\ a <= b
  BY ProductGrows
<1> HIDE DEF a, b
<1>2. a \div steps <= b \div steps
  BY <1>1, DivMonotone
<1> QED
  BY <1>2 DEF a, b, Share

LEMMA ShareOfAll ==
  ASSUME NEW steps \in Nat \ {0}, NEW length \in Nat \ {0}
  PROVE  Share(steps, steps, length) = length
BY DEF Share

(* There and back is not ahead; there, one further and back not behind.    *)
LEMMA ShareBack ==
  ASSUME NEW d \in Nat, NEW steps \in Nat \ {0}, NEW length \in Nat \ {0}
  PROVE  /\ Share(Share(d, steps, length), length, steps) <= d
         /\ d <= Share(Share(d, steps, length) + 1, length, steps)
<1> DEFINE q == Share(d, steps, length)
<1>1. q \in Nat /\ steps * q <= d * length /\ d * length < steps * q + steps
  BY ShareBounds
<1> HIDE DEF q
<1> DEFINE back == q * steps
           next == (q + 1) * steps
<1>2. back \in Nat /\ next \in Nat /\ back <= length * d /\ length * d <= next
  BY <1>1
<1> HIDE DEF back, next
<1>3. back \div length <= d /\ d <= next \div length
  BY <1>2, DivAtMost, DivAtLeast
<1> QED
  BY <1>3 DEF back, next, Share, q

(* A column is mapped to its share of the other strip.                     *)
LEMMA MappedShare ==
  ASSUME NEW start \in Nat, NEW steps \in Nat \ {0}, NEW first \in Nat,
         NEW length \in Nat \ {0}, NEW v \in Int, NEW d \in Nat, v - start = d
  PROVE  Mapped(v, start, steps, first, length) = first + Share(d, steps, length)
<1>1. Mapped(v, start, steps, first, length) = CDiv(d * length + first * steps, steps)
  BY DEF Mapped
<1> DEFINE a == d * length
<1>3. a \in Nat
  OBVIOUS
<1>4. Share(d, steps, length) = a \div steps
  BY DEF Share
<1> HIDE DEF a
<1>5. a + first * steps \in Nat /\ (a + first * steps) \div steps = first + a \div steps
  BY <1>3, DivShift
<1>6. CDiv(a + first * steps, steps) = first + a \div steps
  BY <1>5 DEF CDiv
<1> QED
  BY <1>1, <1>4, <1>6 DEF a

(* There: in order, from the first column of the other strip to its last.  *)
LEMMA MappedGrows ==
  ASSUME NEW start \in Nat, NEW steps \in Nat \ {0}, NEW first \in Nat,
         NEW length \in Nat \ {0}, NEW v \in Int, start <= v
  PROVE  LET there(u) == Mapped(u, start, steps, first, length) IN
         /\ there(v) \in Nat /\ first <= there(v)
         /\ there(v + 1) \in Nat /\ there(v) <= there(v + 1)
         /\ v - start <= steps => there(v) <= first + length
<1> DEFINE d == v - start
           q == Share(d, steps, length)
           e == d + 1
           r == Share(e, steps, length)
           t == Mapped(v, start, steps, first, length)
           u == Mapped(v + 1, start, steps, first, length)
<1>1. d \in Nat /\ e \in Nat /\ d <= e /\ v - start = d
  OBVIOUS
<1>2. t = first + q /\ q \in Nat
  <2> HIDE DEF d
  <2>1. t = first + q
    BY <1>1, MappedShare
  <2>2. q \in Nat
    BY <1>1, ShareBounds
  <2> QED
    BY <2>1, <2>2
<1>3. u = first + r /\ r \in Nat
  <2> DEFINE w == v + 1
  <2>1. w \in Int /\ w - start = e
    OBVIOUS
  <2>2. u = Mapped(w, start, steps, first, length)
    OBVIOUS
  <2> HIDE DEF w, u, r, e, d
  <2>3. Mapped(w, start, steps, first, length) = first + Share(e, steps, length)
    BY <1>1, <2>1, MappedShare
  <2>4. r \in Nat
    BY <1>1, ShareBounds DEF r
  <2> QED
    BY <2>2, <2>3, <2>4 DEF r
<1> HIDE DEF d, e, t, u
<1>4. q <= r
  BY <1>1, ShareGrows
<1>5. d <= steps => q <= length
  <2> SUFFICES ASSUME d <= steps PROVE q <= length
    OBVIOUS
  <2>1. q <= Share(steps, steps, length)
    BY <1>1, ShareGrows
  <2> QED
    BY <2>1, ShareOfAll
<1> HIDE DEF q, r
<1>6. t \in Nat /\ first <= t /\ u \in Nat /\ t <= u /\ (d <= steps => t <= first + length)
  BY <1>2, <1>3, <1>4, <1>5
<1> QED
  BY <1>6 DEF d, t, u

(* And back: not ahead, from the first and the last column to themselves,  *)
(* and from one column further not behind.                                 *)
LEMMA MappedBack ==
  ASSUME NEW start \in Nat, NEW steps \in Nat \ {0}, NEW first \in Nat,
         NEW length \in Nat \ {0}, NEW v \in Int, start <= v
  PROVE  LET t == Mapped(v, start, steps, first, length)
             back(u) == Mapped(u, first, length, start, steps) IN
         /\ back(t) \in Nat /\ back(t) <= v
         /\ back(t + 1) \in Nat /\ v <= back(t + 1)
         /\ v = start => back(t) = v
         /\ v - start = steps => back(t) = v
<1> DEFINE d == v - start
           q == Share(d, steps, length)
           t == Mapped(v, start, steps, first, length)
           w == t + 1
           low == Share(q, length, steps)
           p == q + 1
           high == Share(p, length, steps)
<1>1. d \in Nat /\ v - start = d
  OBVIOUS
<1> HIDE DEF d
<1>2. t = first + q /\ q \in Nat
  <2>1. t = first + q
    BY <1>1, MappedShare
  <2>2. q \in Nat
    BY <1>1, ShareBounds
  <2> QED
    BY <2>1, <2>2
<1>3. low <= d /\ d <= high
  BY <1>1, ShareBack
<1>4. d = steps => low = d
  BY ShareOfAll
<1>5. d = 0 => low = d
  BY DEF Share
<1> HIDE DEF t, q, low, high
<1>6. Mapped(t, first, length, start, steps) = start + low /\ low \in Nat
  <2>1. t \in Int /\ first <= t /\ t - first = q
    BY <1>2
  <2>2. Mapped(t, first, length, start, steps) = start + Share(q, length, steps)
    BY <1>2, <2>1, MappedShare
  <2>3. low \in Nat
    BY <1>2, ShareBounds DEF low
  <2> QED
    BY <2>2, <2>3 DEF low
<1>7. Mapped(w, first, length, start, steps) = start + high /\ high \in Nat
  <2>1. w \in Int /\ w - first = p /\ p \in Nat
    BY <1>2
  <2> HIDE DEF w, p
  <2>2. Mapped(w, first, length, start, steps) = start + Share(p, length, steps)
    BY <2>1, MappedShare
  <2>3. high \in Nat
    BY <2>1, ShareBounds DEF high
  <2> QED
    BY <2>2, <2>3 DEF high
<1> DEFINE x == Mapped(t, first, length, start, steps)
           y == Mapped(w, first, length, start, steps)
<1>8. v = start + d
  BY DEF d
<1> HIDE DEF x, y
<1>9. /\ x \in Nat /\ x <= v /\ y \in Nat /\ v <= y
      /\ v = start => x = v
      /\ d = steps => x = v
  BY <1>1, <1>3, <1>4, <1>5, <1>6, <1>7, <1>8 DEF x, y
<1> QED
  BY <1>9 DEF x, y, t, d

(* Weights are eighths, and 0 for a column that is the lower of the two.   *)
LEMMA WeightBounds ==
  ASSUME NEW v \in Int, NEW low \in Nat, NEW high \in Nat, low <= v, v <= high
  PROVE  /\ Weight(v, low, high) \in 0 .. 8
         /\ low = v => Weight(v, low, high) = 0
<1>1. CASE ~(high > low)
  BY <1>1 DEF Weight
<1>2. CASE high > low
  <2> DEFINE n == high - low
             m == Emult * (v - low)
  <2>1. n \in Nat \ {0} /\ m \in Nat /\ m <= n * 8 /\ (v = low => m = 0)
    BY <1>2 DEF Emult
  <2>2. Weight(v, low, high) = CDiv(m, n)
    BY <1>2 DEF Weight
  <2> HIDE DEF n, m
  <2>3. CDiv(m, n) = m \div n
    BY <2>1 DEF CDiv
  <2>4. m \div n \in Nat
    BY <2>1, DivBounds
  <2>5. m \div n <= 8
    BY <2>1, DivAtMost
  <2>6. m = 0 => m \div n = 0
    BY <2>1
  <2> QED
    BY <2>1, <2>2, <2>3, <2>4, <2>5, <2>6
<1> QED
  BY <1>1, <1>2

(* The tables of an axis lead to its part of the source: `limit' columns,  *)
(* of which those from `first' on are shown, with one column behind them   *)
(* when they are only one.                                                 *)
LEMMA AxisStaysInside ==
  ASSUME NEW first \in Nat, NEW length \in Nat, NEW limit \in Nat,
         first + Max2(1, length - 1) <= limit - 1,
         NEW origin \in Nat, NEW extent \in Nat, NEW size \in Nat,
         origin + extent <= size
  PROVE  AxisInside(Axis(first, length, limit, origin, extent, size),
                    origin, origin + extent, limit)
<1> DEFINE in1  == Max2(1, length - 1)
           out1 == Max2(1, extent - 1)
           there(u) == Mapped(u, origin, out1, first, in1)
           back(u)  == Mapped(u, first, in1, origin, out1)
           a == Axis(first, length, limit, origin, extent, size)
<1>1. /\ in1 \in Nat \ {0} /\ out1 \in Nat \ {0}
      /\ first + in1 <= limit - 1
      /\ extent > 0 => extent - 1 <= out1
      /\ extent > 1 => extent - 1 = out1
  BY DEF Max2
<1> SUFFICES ASSUME NEW v \in origin .. origin + extent - 1
             PROVE  /\ a.from[v] \in 0 .. limit - 1
                    /\ v > origin => a.from[v - 1] <= a.from[v]
                    /\ a.to[v] \in a.from[v] .. limit
                    /\ a.k[v] \in 0 .. 8
                    /\ a.k[v] > 0 => a.next[v] \in a.from[v] .. limit - 1
  BY DEF AxisInside
<1> DEFINE Entries(u) == /\ a.from[u] = there(u)
                         /\ a.to[u] = Min2(there(u + 1), limit)
                         /\ a.next[u] = there(Min2(u + 1, size - 1))
                         /\ a.k[u] = Weight(u, back(there(u)), back(there(u) + 1))
<1>2. \A u \in 0 .. size - 1 : Entries(u)
  BY DEF Axis
<1> HIDE DEF in1, out1, a
<1>3. /\ v \in Int /\ origin <= v /\ v < origin + extent /\ v \in 0 .. size - 1
      /\ v + 1 \in Int /\ origin <= v + 1
  OBVIOUS
<1>4. /\ there(v) \in Nat /\ first <= there(v)
      /\ there(v + 1) \in Nat /\ there(v) <= there(v + 1)
      /\ v - origin <= out1 => there(v) <= first + in1
  BY ONLY first \in Nat, origin \in Nat, <1>1, <1>3, MappedGrows
<1>5. /\ back(there(v)) \in Nat /\ back(there(v)) <= v
      /\ back(there(v) + 1) \in Nat /\ v <= back(there(v) + 1)
      /\ v = origin => back(there(v)) = v
      /\ v - origin = out1 => back(there(v)) = v
  BY ONLY first \in Nat, origin \in Nat, <1>1, <1>3, MappedBack
<1>6. Entries(v)
  BY <1>2, <1>3
<1>7. v > origin => a.from[v - 1] = there(v - 1) /\ there(v - 1) <= there(v)
  <2> SUFFICES ASSUME v > origin
               PROVE  a.from[v - 1] = there(v - 1) /\ there(v - 1) <= there(v)
    OBVIOUS
  <2> DEFINE u == v - 1
  <2>1. u \in Int /\ origin <= u /\ u \in 0 .. size - 1 /\ u + 1 = v
    BY <1>3
  <2> HIDE DEF u
  <2>2. Entries(u)
    BY <1>2, <2>1
  <2>3. there(u) <= there(u + 1)
    BY ONLY first \in Nat, origin \in Nat, <1>1, <2>1, MappedGrows
  <2>4. a.from[u] = there(u) /\ there(u) <= there(v)
    BY <2>1, <2>2, <2>3
  <2> QED
    BY <2>4 DEF u
<1>8. v + 1 < origin + extent => there(v + 1) <= first + in1
  <2> SUFFICES ASSUME v + 1 < origin + extent PROVE there(v + 1) <= first + in1
    OBVIOUS
  <2> DEFINE u == v + 1
  <2>1. u \in Int /\ origin <= u /\ u - origin <= out1
    BY <1>1, <1>3
  <2> HIDE DEF u
  <2>2. there(u) <= first + in1
    BY ONLY first \in Nat, origin \in Nat, <1>1, <2>1, MappedGrows
  <2> QED
    BY <2>2 DEF u
<1>9. /\ Weight(v, back(there(v)), back(there(v) + 1)) \in 0 .. 8
      /\ back(there(v)) = v => Weight(v, back(there(v)), back(there(v) + 1)) = 0
  <2> DEFINE low == back(there(v))
             high == back(there(v) + 1)
  <2>1. low \in Nat /\ high \in Nat /\ low <= v /\ v <= high
    BY <1>5
  <2> HIDE DEF low, high
  <2>2. Weight(v, low, high) \in 0 .. 8 /\ (low = v => Weight(v, low, high) = 0)
    BY ONLY <1>3, <2>1, WeightBounds
  <2> QED
    BY <2>2 DEF low, high
<1>10. v - origin <= out1
  BY <1>1, <1>3
<1>11. a.k[v] \in 0 .. 8 /\ (v = origin \/ v - origin = out1 => a.k[v] = 0)
  <2> DEFINE low == back(there(v))
             high == back(there(v) + 1)
  <2>1. a.k[v] = Weight(v, low, high)
    BY <1>6
  <2>2. (v = origin \/ v - origin = out1) => low = v
    BY <1>5
  <2>3. Weight(v, low, high) \in 0 .. 8 /\ (low = v => Weight(v, low, high) = 0)
    BY <1>9
  <2> HIDE DEF low, high
  <2> QED
    BY <2>1, <2>2, <2>3
<1>12. /\ a.from[v] = there(v)
       /\ a.to[v] = Min2(there(v + 1), limit)
       /\ a.next[v] = there(Min2(v + 1, size - 1))
  BY <1>6
<1> DEFINE t == there(v)
           s == there(v + 1)
<1>13. /\ t \in Nat /\ s \in Nat /\ t <= s /\ t <= limit - 1
       /\ a.from[v] = t /\ a.to[v] = Min2(s, limit)
       /\ v > origin => a.from[v - 1] <= t
       /\ v + 1 < origin + extent => s <= limit - 1
       /\ v + 1 < origin + extent => a.next[v] = s
  <2>1. v + 1 < origin + extent => Min2(v + 1, size - 1) = v + 1
    BY <1>3 DEF Min2
  <2>2. v + 1 < origin + extent => a.next[v] = s
    BY <1>12, <2>1
  <2>3. v > origin => a.from[v - 1] <= t
    BY <1>7
  <2>4. /\ t \in Nat /\ s \in Nat /\ t <= s /\ t <= first + in1
        /\ v + 1 < origin + extent => s <= first + in1
        /\ a.from[v] = t /\ a.to[v] = Min2(s, limit)
    BY <1>4, <1>8, <1>10, <1>12
  <2> HIDE DEF t, s
  <2> QED
    BY <1>1, <2>2, <2>3, <2>4
<1> HIDE DEF t, s, there, back, Entries
<1>14. a.to[v] \in a.from[v] .. limit
  BY <1>13 DEF Min2
<1>15. a.k[v] > 0 => a.next[v] \in a.from[v] .. limit - 1
  <2>1. CASE v + 1 < origin + extent
    BY <1>13, <2>1
  <2>2. CASE ~(v + 1 < origin + extent)
    <3>1. v = origin \/ v - origin = out1
      BY <1>1, <1>3, <2>2
    <3> QED
      BY <1>11, <3>1
  <2> QED
    BY <2>1, <2>2
<1> QED
  BY <1>11, <1>13, <1>14, <1>15

-----------------------------------------------------------------------------
(* The picture in the target and the part of the source.                   *)

LEMMA QuotientFits ==
  ASSUME NEW a \in Nat, NEW b \in Nat, NEW c \in Nat \ {0}, NEW d \in Nat \ {0},
         (a * c) \div d > b
  PROVE  (b * d) \div c <= a
<1> DEFINE m == a * c
           n == b * d
<1>1. m \in Nat /\ n \in Nat
  OBVIOUS
<1>2. m = c * a /\ n = d * b
  OBVIOUS
<1> HIDE DEF m
<1>3. d * (m \div d) <= m /\ m \div d \in Nat
  BY <1>1, DivBounds
<1>4. m \div d > b
  BY DEF m
<1>5. d * b <= d * (m \div d)
  BY <1>3, <1>4
<1> HIDE DEF n
<1>6. n <= c * a
  BY <1>1, <1>2, <1>3, <1>5
<1>7. n \div c <= a
  BY <1>1, <1>6, DivAtMost
<1> QED
  BY <1>7 DEF n

LEMMA PictureFits ==
  ASSUME NEW source, NEW target, NEW aspect, IsSize(source), IsSize(target)
  PROVE  LET picture == PictureSize(source, target, aspect) IN
         /\ picture[1] \in Nat /\ picture[1] <= target.width
         /\ picture[2] \in Nat /\ picture[2] <= target.height
         /\ aspect \in {"Ignore", "Expanding"} =>
              picture[1] = target.width /\ picture[2] = target.height
<1> DEFINE sw == source.width
           sh == source.height
           tw == target.width
           th == target.height
           w == (th * sw) \div sh
           h == (tw * sh) \div sw
<1>1. sw \in Nat \ {0} /\ sh \in Nat \ {0} /\ tw \in Nat /\ th \in Nat
  BY DEF IsSize
<1>2. CASE aspect \in {"Ignore", "Expanding"}
  BY <1>1, <1>2 DEF PictureSize
<1>3. w \in Nat
  BY <1>1
<1>4. h \in Nat
  BY <1>1
<1>5. w > tw => h <= th
  <2> HIDE DEF sw, sh, tw, th
  <2> QED
    BY <1>1, QuotientFits
<1>6. CASE aspect \notin {"Ignore", "Expanding"} /\ w > tw
  <2>1. PictureSize(source, target, aspect) = <<tw, h>>
    BY <1>6 DEF PictureSize
  <2> HIDE DEF sw, sh, tw, th, w, h
  <2> QED
    BY <1>1, <1>4, <1>5, <1>6, <2>1 DEF tw, th
<1>7. CASE aspect \notin {"Ignore", "Expanding"} /\ ~(w > tw)
  <2>1. PictureSize(source, target, aspect) = <<w, Min2(h, th)>>
    BY <1>7 DEF PictureSize
  <2> HIDE DEF sw, sh, tw, th, w, h
  <2>2. Min2(h, th) \in Nat /\ Min2(h, th) <= th
    BY <1>1, <1>4 DEF Min2
  <2>3. w <= tw
    BY <1>1, <1>3, <1>7
  <2> QED
    BY <1>3, <1>7, <2>1, <2>2, <2>3 DEF tw, th
<1> QED
  BY <1>2, <1>6, <1>7

LEMMA StripInside ==
  ASSUME NEW all \in Nat, all > 1, NEW part \in Nat, part <= all, part > 0
  PROVE  /\ (all - part) \div 2 \in Nat
         /\ (all - part) \div 2 + Max2(1, part - 1) <= all - 1
BY DEF Max2

LEMMA RectInside ==
  ASSUME NEW source, IsSize(source), NEW picture, NEW aspect,
         picture[1] \in Nat, picture[2] \in Nat,
         aspect = "Expanding" => picture[1] > 1 /\ picture[2] > 1
  PROVE  LET rect == SourceRect(source, picture, aspect) IN
         (rect.width > 0 /\ rect.height > 0) =>
           /\ rect.width \in Nat /\ rect.x \in Nat
           /\ rect.x + Max2(1, rect.width - 1) <= source.width - 1
           /\ rect.height \in Nat /\ rect.y \in Nat
           /\ rect.y + Max2(1, rect.height - 1) <= source.height - 1
<1> DEFINE sw == source.width
           sh == source.height
           w == Min2((sh * picture[1]) \div picture[2], sw)
           h == Min2((sw * picture[2]) \div picture[1], sh)
           rect == SourceRect(source, picture, aspect)
<1>1. sw \in Nat /\ sh \in Nat /\ sw > 1 /\ sh > 1
  BY DEF IsSize
<1>2. CASE aspect # "Expanding"
  <2>1. rect = [x |-> 0, y |-> 0, width |-> sw, height |-> sh]
    BY <1>2 DEF SourceRect
  <2> HIDE DEF sw, sh, rect
  <2> QED
    BY <1>1, <2>1 DEF Max2, sw, sh, rect
<1>3. CASE aspect = "Expanding"
  <2>1. rect = [x |-> (sw - w) \div 2, y |-> (sh - h) \div 2, width |-> w, height |-> h]
    BY <1>3 DEF SourceRect
  <2>2. (sh * picture[1]) \div picture[2] \in Nat
    BY <1>1, <1>3
  <2>3. (sw * picture[2]) \div picture[1] \in Nat
    BY <1>1, <1>3
  <2>4. w \in Nat /\ w <= sw
    BY <1>1, <2>2 DEF Min2
  <2>5. h \in Nat /\ h <= sh
    BY <1>1, <2>3 DEF Min2
  <2> HIDE DEF sw, sh, w, h, rect
  <2>6. w > 0 => (sw - w) \div 2 \in Nat /\ (sw - w) \div 2 + Max2(1, w - 1) <= sw - 1
    BY <1>1, <2>4, StripInside
  <2>7. h > 0 => (sh - h) \div 2 \in Nat /\ (sh - h) \div 2 + Max2(1, h - 1) <= sh - 1
    BY <1>1, <2>5, StripInside
  <2> QED
    BY <2>1, <2>4, <2>5, <2>6, <2>7 DEF sw, sh, rect
<1> QED
  BY <1>2, <1>3

(* Centred, the picture is as long as it should be and inside the target.  *)
LEMMA Centred ==
  ASSUME NEW all \in Nat, NEW part \in Nat, part <= all
  PROVE  /\ (all - part) \div 2 \in Nat
         /\ (all + part) \div 2 = (all - part) \div 2 + part
         /\ (all - part) \div 2 + part <= all
OBVIOUS

(* What a converter is configured with to scale stays inside the source.   *)
LEMMA ConfiguredInside ==
  ASSUME NEW source, NEW target, NEW aspect, IsSize(source), IsSize(target)
  PROVE  ScaleInside(ConfigureScaling(source, target, aspect), source, aspect)
<1> DEFINE picture == PictureSize(source, target, aspect)
           width == IF aspect = "Keep" THEN picture[1] ELSE target.width
           height == IF aspect = "Keep" THEN picture[2] ELSE target.height
           rect == SourceRect(source, picture, aspect)
           xmin == (width - picture[1]) \div 2
           ymin == (height - picture[2]) \div 2
           xmax == (width + picture[1]) \div 2
           ymax == (height + picture[2]) \div 2
           x == Axis(rect.x, rect.width, source.width, xmin, picture[1], target.width)
           y == Axis(rect.y, rect.height, source.height, ymin, picture[2], target.height)
           s == ConfigureScaling(source, target, aspect)
           shown == <<s.xmax - s.xmin, s.ymax - s.ymin>>
<1>1. /\ picture[1] \in Nat /\ picture[1] <= target.width
      /\ picture[2] \in Nat /\ picture[2] <= target.height
      /\ aspect = "Expanding" => picture[1] > 1 /\ picture[2] > 1
      /\ target.width \in Nat /\ target.height \in Nat
      /\ source.width \in Nat /\ source.height \in Nat
  BY PictureFits DEF IsSize
<1>2. /\ s.x = x /\ s.y = y
      /\ s.xmin = xmin /\ s.ymin = ymin /\ s.xmax = xmax /\ s.ymax = ymax
  BY DEF ConfigureScaling, Scaled, Format, WithParams
<1> HIDE DEF picture, s
<1>3. /\ width \in Nat /\ picture[1] <= width /\ width <= target.width
      /\ height \in Nat /\ picture[2] <= height /\ height <= target.height
  BY <1>1
<1> HIDE DEF width, height
<1>4. /\ xmin \in Nat /\ xmax = xmin + picture[1] /\ xmin + picture[1] <= width
      /\ ymin \in Nat /\ ymax = ymin + picture[2] /\ ymin + picture[2] <= height
  <2>1. /\ xmin \in Nat /\ xmax = xmin + picture[1] /\ xmin + picture[1] <= width
    BY <1>1, <1>3, Centred
  <2>2. /\ ymin \in Nat /\ ymax = ymin + picture[2] /\ ymin + picture[2] <= height
    BY <1>1, <1>3, Centred
  <2> QED
    BY <2>1, <2>2
<1> HIDE DEF xmin, ymin, xmax, ymax
<1>5. xmax - xmin = picture[1] /\ ymax - ymin = picture[2]
  BY <1>1, <1>4
<1>6. shown[1] = picture[1] /\ shown[2] = picture[2]
  BY <1>2, <1>5
<1> HIDE DEF shown
<1>7. SourceRect(source, shown, aspect) = rect
  BY <1>6 DEF SourceRect
<1> HIDE DEF rect
<1>8. SUFFICES ASSUME rect.width > 0, rect.height > 0
               PROVE  /\ AxisInside(x, xmin, xmin + picture[1], source.width)
                      /\ AxisInside(y, ymin, ymin + picture[2], source.height)
  <2> HIDE DEF x, y
  <2>1. ASSUME rect.width > 0 /\ rect.height > 0 =>
                 /\ AxisInside(x, xmin, xmax, source.width)
                 /\ AxisInside(y, ymin, ymax, source.height)
        PROVE  ScaleInside(s, source, aspect)
    <3>1. SourceRect(source, <<s.xmax - s.xmin, s.ymax - s.ymin>>, aspect) = rect
      BY <1>7 DEF shown
    <3> QED
      BY <1>2, <2>1, <3>1 DEF ScaleInside
  <2> QED
    BY <1>4, <2>1 DEF s
<1>9. /\ rect.width \in Nat /\ rect.x \in Nat
      /\ rect.x + Max2(1, rect.width - 1) <= source.width - 1
      /\ rect.height \in Nat /\ rect.y \in Nat
      /\ rect.y + Max2(1, rect.height - 1) <= source.height - 1
  BY <1>1, <1>8, RectInside DEF rect
<1>10. xmin + picture[1] <= target.width /\ ymin + picture[2] <= target.height
  BY <1>1, <1>3, <1>4
<1>11. AxisInside(x, xmin, xmin + picture[1], source.width)
  BY <1>1, <1>4, <1>9, <1>10, AxisStaysInside
<1>12. AxisInside(y, ymin, ymin + picture[2], source.height)
  BY <1>1, <1>4, <1>9, <1>10, AxisStaysInside
<1> QED
  BY <1>11, <1>12

(* Converting to the same size leaves the size as it is.                   *)
LEMMA SizeRemains ==
  ASSUME NEW source, NEW target, NEW aspect, IsSize(source),
         target.width = source.width, target.height = source.height
  PROVE  LET f == ConfigureScaling(source, target, aspect).format IN
         IsSize(f) /\ f.width = source.width /\ f.height = source.height
<1> DEFINE picture == PictureSize(source, target, aspect)
           sw == source.width
           sh == source.height
           f == ConfigureScaling(source, target, aspect).format
<1>1. sw \in Nat \ {0} /\ sh \in Nat \ {0} /\ sw > 1 /\ sh > 1
  BY DEF IsSize
<1>2. (sh * sw) \div sh = sw /\ (sw * sh) \div sw = sh
  <2> HIDE DEF sw, sh
  <2>1. (sh * sw) \div sh = sw
    BY <1>1
  <2>2. (sw * sh) \div sw = sh
    BY <1>1
  <2> QED
    BY <2>1, <2>2
<1>3. picture = <<sw, sh>>
  <2>1. PictureSize(source, target, aspect)
          = IF aspect \in {"Ignore", "Expanding"} THEN <<sw, sh>>
            ELSE IF (sh * sw) \div sh > sw THEN <<sw, (sw * sh) \div sw>>
            ELSE <<(sh * sw) \div sh, Min2((sw * sh) \div sw, sh)>>
    BY DEF PictureSize
  <2> HIDE DEF sw, sh
  <2>2. ~(sw > sw) /\ Min2(sh, sh) = sh
    BY <1>1 DEF Min2
  <2> QED
    BY <1>2, <2>1, <2>2
<1>4. f.width = (IF aspect = "Keep" THEN picture[1] ELSE target.width)
      /\ f.height = (IF aspect = "Keep" THEN picture[2] ELSE target.height)
  BY DEF ConfigureScaling, Scaled, Format, WithParams
<1> HIDE DEF picture, f
<1> QED
  BY <1>1, <1>3, <1>4 DEF IsSize, f

-----------------------------------------------------------------------------
(* The filters change the data of a frame only.                            *)

LEMMA PixelsKeepPicture ==
  ASSUME NEW f, IsPicture(f), NEW image
  PROVE  IsPicture(WithPixels(f, image))
<1>1. CASE f.format.fourcc # "ARGB32"
  BY <1>1 DEF WithPixels
<1>2. CASE f.format.fourcc = "ARGB32"
  <2>1. PICK line, pixels : WithPixels(f, image) = Redrawn(f, line, pixels)
    BY <1>2 DEF WithPixels
  <2> QED
    BY <2>1 DEF Redrawn, IsPicture
<1> QED
  BY <1>1, <1>2

LEMMA MirrorKeepsPicture ==
  ASSUME NEW f, IsPicture(f), NEW horizontal, NEW vertical
  PROVE  IsPicture(Mirror(f, horizontal, vertical))
<1>1. IsPicture(MirrorHorizontal(f))
  BY PixelsKeepPicture DEF MirrorHorizontal
<1>2. IsPicture(MirrorVertical(f))
  BY DEF MirrorVertical, IsPicture
<1>3. IsPicture(MirrorBoth(f))
  BY PixelsKeepPicture DEF MirrorBoth
<1> QED
  BY <1>1, <1>2, <1>3 DEF Mirror

LEMMA ApplyKeepsPicture ==
  ASSUME NEW f, IsPicture(f), NEW c
  PROVE  IsPicture(Apply(f, c))
BY PixelsKeepPicture DEF Apply

-----------------------------------------------------------------------------
(* What a converter is configured with fits what it is configured for.     *)

IsConfigured(fc) ==
  /\ {"key", "p", "data"} \subseteq DOMAIN fc
  /\ IsSize(fc.key.input) /\ IsSize(fc.key.output)
  /\ fc.p.scale = ConfigureScaling(fc.key.input, fc.key.output, fc.key.aspect)

IsConverter(c) ==
  /\ DOMAIN c = {"output", "scaling", "aspect", "fc"}
  /\ c.fc = None \/ IsConfigured(c.fc)

LEMMA ConfiguredFits ==
  ASSUME NEW c, IsConverter(c), IsSize(c.output), NEW input, IsSize(input)
  PROVE  LET key == Key(c, input)
             fc == IF IsCurrent(c.fc, key) THEN c.fc ELSE Configured(key) IN
         IsConfigured(fc) /\ fc.key = key
<1> DEFINE key == Key(c, input)
<1>1. CASE IsCurrent(c.fc, key)
  BY <1>1 DEF IsCurrent, IsConverter
<1>2. CASE ~IsCurrent(c.fc, key)
  <2> DEFINE p == Parameters(key.input, key.output, key.aspect)
  <2>1. key.input = input /\ key.output = c.output
    BY DEF Key
  <2>2. p.scale = ConfigureScaling(key.input, key.output, key.aspect)
    BY DEF Parameters, Configure
  <2> HIDE DEF p
  <2>3. Configured(key) = [key |-> key, p |-> p, data |-> OutputFrame(p.scale.format, key.aspect)]
    BY DEF Configured, ConfiguredWith, p
  <2> HIDE DEF key
  <2>4. IsConfigured(Configured(key)) /\ Configured(key).key = key
    BY <2>1, <2>2, <2>3 DEF IsConfigured
  <2> QED
    BY <1>2, <2>4 DEF key
<1> QED
  BY <1>1, <1>2

LEMMA ConverterRemains ==
  ASSUME NEW c, IsConverter(c), IsSize(c.output), NEW input, IsSize(input.format)
  PROVE  IsConverter(ConvertFrame(c, input).converter)
<1>1. CASE input.format = c.output
  BY <1>1 DEF ConvertFrame
<1>2. CASE input.format # c.output
  <2> DEFINE key == Key(c, input.format)
             fc == IF IsCurrent(c.fc, key) THEN c.fc ELSE Configured(key)
             data == Convert(fc.p, c.scaling, input, fc.data)
             d == [c EXCEPT !.fc = fc]
             e == [c EXCEPT !.fc = [fc EXCEPT !.data = data]]
  <2>1. IsConfigured(fc)
    BY ConfiguredFits
  <2>2. ConvertFrame(c, input) = Converted(c, input, fc, data)
    BY <1>2 DEF ConvertFrame, PrivateConvert, ConvertWith
  <2> HIDE DEF fc, data
  <2>3. Converted(c, input, fc, data).converter \in {d, e}
    BY DEF Converted
  <2>4. IsConverter(d)
    BY <2>1 DEF IsConverter
  <2>5. IsConverter(e)
    <3>1. IsConfigured([fc EXCEPT !.data = data])
      BY <2>1 DEF IsConfigured
    <3> QED
      BY <3>1 DEF IsConverter
  <2> QED
    BY <2>2, <2>3, <2>4, <2>5
<1> QED
  BY <1>1, <1>2

LEMMA PictureRemains ==
  ASSUME NEW c, IsConverter(c), NEW input, IsPicture(input), IsSize(c.output),
         c.output.width = input.format.width, c.output.height = input.format.height
  PROVE  IsPicture(ConvertFrame(c, input).frame)
<1>1. CASE input.format = c.output
  BY <1>1 DEF ConvertFrame
<1>2. CASE input.format # c.output
  <2> DEFINE key == Key(c, input.format)
             fc == IF IsCurrent(c.fc, key) THEN c.fc ELSE Configured(key)
             data == Convert(fc.p, c.scaling, input, fc.data)
             target == fc.p.scale.format
  <2>1. IsConfigured(fc) /\ fc.key = key
    BY ConfiguredFits DEF IsPicture
  <2>2. key.input = input.format /\ key.output = c.output
    BY DEF Key
  <2>3. ConvertFrame(c, input) = Converted(c, input, fc, data)
    BY <1>2 DEF ConvertFrame, PrivateConvert, ConvertWith
  <2> HIDE DEF fc, data, key
  <2>4. IsSize(target)
    BY <2>1, <2>2, SizeRemains DEF IsConfigured, IsPicture
  <2>5. Converted(c, input, fc, data).frame \in {input, [format |-> target, data |-> data]}
    BY DEF Converted
  <2> HIDE DEF target
  <2>6. IsPicture([format |-> target, data |-> data])
    BY <2>4 DEF IsPicture
  <2> QED
    BY <2>3, <2>5, <2>6
<1> QED
  BY <1>1, <1>2

-----------------------------------------------------------------------------
(* The frame the clock works on is a picture, and the converters are       *)
(* configured for pictures.                                                *)

FramesArePictures ==
  /\ IsSize(format)
  /\ current = None \/ IsPicture(current)
  /\ default = None \/ IsPicture(default)
  /\ pc \in {"convert_in", "filter", "convert_out", "convert_default"} => IsPicture(frame)

ConvertersFit == IsConverter(in) /\ IsConverter(out)

PipelineInv == FramesArePictures /\ ConvertersFit

LEMMA InitPipeline == Init => PipelineInv
<1> SUFFICES ASSUME Init PROVE PipelineInv
  OBVIOUS
<1>1. FramesArePictures
  BY FramePipelineAssumption DEF Init, FramesArePictures, IsSource
<1>2. ConvertersFit
  BY DEF Init, ConvertersFit, IsConverter, NewConverter
<1> QED
  BY <1>1, <1>2 DEF PipelineInv

LEMMA PipelineStep == PipelineInv /\ [Next]_vars => PipelineInv'
<1> SUFFICES ASSUME PipelineInv, [Next]_vars PROVE PipelineInv'
  OBVIOUS
<1> USE DEF PipelineInv
<1>1. ASSUME NEW c \in CaptureChanges, SetCaptureControl(c[1], c[2]) PROVE PipelineInv'
  BY <1>1 DEF SetCaptureControl, ClockUnchanged, FramesArePictures, ConvertersFit
<1>2. ASSUME NEW c \in OutputChanges, SetOutputControl(c[1], c[2]) PROVE PipelineInv'
  BY <1>2 DEF SetOutputControl, ClockUnchanged, FramesArePictures, ConvertersFit
<1>3. ASSUME NEW f \in Sources, Send(f) PROVE PipelineInv'
  BY <1>3, FramePipelineAssumption
     DEF Send, ClockUnchanged, FramesArePictures, ConvertersFit, IsSource
<1>4. ASSUME NEW f \in Formats, SetFormat(f) PROVE PipelineInv'
  BY <1>4, FramePipelineAssumption DEF SetFormat, ClockUnchanged, FramesArePictures, ConvertersFit
<1>5. CASE ReadFrame
  <2> DEFINE random == [NewFrame(format) EXCEPT !.data = [b \in DOMAIN @ |-> 77]]
             f == IF current # None THEN current
                  ELSE IF default # None THEN default ELSE random
  <2>1. IsPicture(random)
    BY DEF IsPicture, NewFrame, FramesArePictures
  <2>2. IsPicture(f)
    BY <2>1 DEF FramesArePictures
  <2>3. pc' = "idle" \/ frame' = f
    BY <1>5 DEF ReadFrame, Write
  <2>4. UNCHANGED <<format, current, default, in, out>>
    BY <1>5 DEF ReadFrame, environment
  <2> HIDE DEF f
  <2> QED
    BY <2>2, <2>3, <2>4 DEF FramesArePictures, ConvertersFit
<1>6. CASE ConvertIn
  <2> DEFINE target == Format("ARGB32", frame.format.width, frame.format.height)
             c == Set(in, target, controls)
  <2>1. IsPicture(frame)
    BY <1>6 DEF ConvertIn, FramesArePictures
  <2>2. /\ target.width = frame.format.width /\ target.height = frame.format.height
        /\ IsSize(target)
    BY <2>1 DEF Format, WithParams, IsPicture, IsSize
  <2>3. /\ frame' = ConvertFrame(c, frame).frame
        /\ in' = ConvertFrame(c, frame).converter
        /\ UNCHANGED <<format, current, default, out>>
    BY <1>6 DEF ConvertIn, environment
  <2> HIDE DEF target
  <2>4. IsConverter(c) /\ c.output = target
    BY DEF Set, IsConverter, ConvertersFit
  <2> HIDE DEF c
  <2>5. IsConverter(ConvertFrame(c, frame).converter)
    BY <2>1, <2>2, <2>4, ConverterRemains DEF IsPicture
  <2>6. IsPicture(ConvertFrame(c, frame).frame)
    BY <2>1, <2>2, <2>4, PictureRemains
  <2> QED
    BY <2>3, <2>5, <2>6 DEF FramesArePictures, ConvertersFit
<1>7. CASE Filter
  <2>1. IsPicture(frame)
    BY <1>7 DEF Filter, FramesArePictures
  <2>2. /\ frame' = Apply(Mirror(frame, flips[1], flips[2]), controls)
        /\ UNCHANGED <<format, current, default, in, out>>
    BY <1>7 DEF Filter, environment
  <2>3. IsPicture(frame')
    BY <2>1, <2>2, MirrorKeepsPicture, ApplyKeepsPicture
  <2> QED
    BY <2>2, <2>3 DEF FramesArePictures, ConvertersFit
<1>8. CASE ConvertOut
  <2> DEFINE c == Set(out, format, controls)
  <2>1. IsPicture(frame)
    BY <1>8 DEF ConvertOut, FramesArePictures
  <2>2. /\ out' = ConvertFrame(c, frame).converter /\ pc' = "idle"
        /\ UNCHANGED <<format, current, default, in>>
    BY <1>8 DEF ConvertOut, Write, environment
  <2>3. IsConverter(c) /\ c.output = format
    BY DEF Set, IsConverter, ConvertersFit
  <2> HIDE DEF c
  <2>4. IsConverter(ConvertFrame(c, frame).converter)
    BY <2>1, <2>3, ConverterRemains DEF IsPicture, FramesArePictures
  <2> QED
    BY <2>2, <2>4 DEF FramesArePictures, ConvertersFit
<1>9. CASE UNCHANGED vars
  BY <1>9 DEF vars, FramesArePictures, ConvertersFit
<1> QED
  BY <1>1, <1>2, <1>3, <1>4, <1>5, <1>6, <1>7, <1>8, <1>9 DEF Next

LEMMA PipelineHolds == Spec => []PipelineInv
BY InitPipeline, PipelineStep, PTL DEF Spec

(* The tables by which a converter reads its source lead to columns and    *)
(* lines of the source, in their order, for frames and devices of all      *)
(* sizes, whatever was converted before (akvcam_frame_convert_parameters_  *)
(* configure_scaling).                                                     *)
THEOREM TablesStayInsideHolds == Spec => []TablesStayInside
<1>1. PipelineInv => TablesStayInside
  <2> SUFFICES ASSUME PipelineInv, NEW c \in Used
               PROVE  ScaleInside(c.fc.p.scale, c.fc.key.input, c.fc.key.aspect)
    BY DEF TablesStayInside
  <2>1. IsConfigured(c.fc)
    BY DEF Used, PipelineInv, ConvertersFit, IsConverter
  <2> QED
    BY <2>1, ConfiguredInside DEF IsConfigured
<1> QED
  BY <1>1, PipelineHolds, PTL

-----------------------------------------------------------------------------
(* The controls have values in their ranges, and those that are copied     *)
(* from the output device the values they have there.                      *)

Both == {"horizontal_flip", "vertical_flip"}
Copied == {"scaling", "aspect_ratio", "swap_rgb"}

LEMMA Names ==
  /\ Shared = Both \cup Copied
  /\ DOMAIN CaptureControls
       = Both \cup {"brightness", "contrast", "saturation", "hue", "gamma", "gray"}
BY DEF Shared, OutputControls, CaptureControls, Both, Copied

ControlsInv ==
  /\ AreControls(controls, Shared \cup DOMAIN CaptureControls)
  /\ AreControls(output, Shared)
  /\ DOMAIN set = DOMAIN CaptureControls
  /\ FlipsAreKnown

LEMMA InitControls == Init => ControlsInv
<1> SUFFICES ASSUME Init PROVE ControlsInv
  OBVIOUS
<1>1. PICK s \in Setups : /\ output = [c \in Shared |-> s.controls[c]]
                          /\ controls = s.controls
                          /\ set = [c \in DOMAIN CaptureControls |-> s.controls[c]]
  BY DEF Init
<1>2. AreControls(controls, Shared \cup DOMAIN CaptureControls)
  BY <1>1, FramePipelineAssumption
<1>3. AreControls(output, Shared)
  BY <1>1, <1>2 DEF AreControls
<1>4. FlipsAreKnown
  BY <1>1, Names DEF FlipsAreKnown, Both, Copied
<1> QED
  BY <1>1, <1>2, <1>3, <1>4 DEF ControlsInv

LEMMA ControlsStep == ControlsInv /\ [Next]_vars => ControlsInv'
<1> SUFFICES ASSUME ControlsInv, [Next]_vars PROVE ControlsInv'
  OBVIOUS
<1> DEFINE all == Shared \cup DOMAIN CaptureControls
<1>1. ASSUME NEW c \in CaptureChanges, SetCaptureControl(c[1], c[2]) PROVE ControlsInv'
  <2>1. c[1] \in DOMAIN CaptureControls /\ c[2] \in ControlValues(c[1])
    BY FramePipelineAssumption
  <2>2. /\ set' = [set EXCEPT ![c[1]] = c[2]]
        /\ controls' = [controls EXCEPT ![c[1]] = c[2]]
        /\ output' = output
    BY <1>1 DEF SetCaptureControl
  <2>3. AreControls(controls', all)
    BY <2>1, <2>2 DEF ControlsInv, AreControls
  <2>4. FlipsAreKnown'
    BY <2>1, <2>2, Names DEF ControlsInv, AreControls, FlipsAreKnown, Both, Copied
  <2> QED
    BY <2>2, <2>3, <2>4 DEF ControlsInv
<1>2. ASSUME NEW c \in OutputChanges, SetOutputControl(c[1], c[2]) PROVE ControlsInv'
  <2>1. c[1] \in Shared /\ c[2] \in ControlValues(c[1])
    BY FramePipelineAssumption
  <2>2. /\ output' = [output EXCEPT ![c[1]] = c[2]]
        /\ controls' = [d \in DOMAIN controls |->
                         IF d \in Shared THEN output'[d] ELSE controls[d]]
        /\ set' = set
    BY <1>2 DEF SetOutputControl
  <2>3. AreControls(output', Shared)
    BY <2>1, <2>2 DEF ControlsInv, AreControls
  <2>4. AreControls(controls', all)
    BY <2>2, <2>3 DEF ControlsInv, AreControls
  <2>5. FlipsAreKnown'
    BY <2>2, Names DEF ControlsInv, AreControls, FlipsAreKnown, Both, Copied
  <2> QED
    BY <2>2, <2>3, <2>4, <2>5 DEF ControlsInv
<1>3. CASE UNCHANGED <<output, set, controls>>
  BY <1>3 DEF ControlsInv, FlipsAreKnown
<1> QED
  BY <1>1, <1>2, <1>3 DEF Next, Send, SetFormat, ReadFrame, ConvertIn, Filter,
                          ConvertOut, environment, vars

LEMMA ControlsHold == Spec => []ControlsInv
BY InitControls, ControlsStep, PTL DEF Spec

(* The flips a device applies are those set last on it or on the output    *)
(* device, and the controls it has from there are as they are set there    *)
(* (akvcam_device_controls_changed).                                       *)
THEOREM FlipsAreKnownHolds == Spec => []FlipsAreKnown
<1>1. ControlsInv => FlipsAreKnown
  BY DEF ControlsInv
<1> QED
  BY <1>1, ControlsHold, PTL

-----------------------------------------------------------------------------
(* The curves.                                                             *)

LEMMA ClampRises ==
  ASSUME NEW a \in Int, NEW b \in Int,
         \/ a <= b
         \/ a <= 0
         \/ b >= 255
  PROVE  Clamp(0, a, 255) <= Clamp(0, b, 255)
BY DEF Clamp

LEMMA ContrastRises ==
  ASSUME NEW c \in -255 .. 255, NEW i \in 0 .. 254
  PROVE  ContrastTable(c, i) <= ContrastTable(c, i + 1)
<1> DEFINE num == 259 * (255 + c)
           den == 255 * (259 - c)
           a == num * (i - 128) + 128 * den
           b == num * (i + 1 - 128) + 128 * den
<1>1. num \in Nat /\ den \in Nat \ {0}
  OBVIOUS
<1>2. ContrastTable(c, i) = Clamp(0, a \div den, 255)
  BY DEF ContrastTable
<1>3. ContrastTable(c, i + 1) = Clamp(0, b \div den, 255)
  BY DEF ContrastTable
<1> HIDE DEF num, den
<1>4. a \in Int /\ b \in Int /\ a <= b
  BY <1>1
<1> HIDE DEF a, b
<1>5. a \div den \in Int /\ b \div den \in Int /\ a \div den <= b \div den
  BY <1>1, <1>4, DivMonotone
<1> QED
  BY <1>2, <1>3, <1>5, ClampRises

(* With num < 0 the value is a product of i and a factor that grows, and   *)
(* with num >= 0 what is missing to 255 one of 255 - i and a factor that   *)
(* falls; a factor that is not positive is cut off.                        *)
LEMMA GammaRises ==
  ASSUME NEW c \in -255 .. 255, NEW i \in 0 .. 254
  PROVE  GammaTable(c, i) <= GammaTable(c, i + 1)
<1> DEFINE g == (255 + c) \div 2
           num == 2 * g - 255
           den == g * (255 - g)
           j == i + 1
           a == num * (255 * i - i * i) + den * i
           b == num * (255 * j - j * j) + den * j
<1>1. g \in 0 .. 255
  OBVIOUS
<1>2. CASE g = 0
  <2> HIDE DEF j
  <2> QED
    BY <1>2 DEF GammaTable
<1>3. CASE g = 255
  BY <1>3 DEF GammaTable
<1>4. CASE g # 0 /\ g # 255
  <2>1. GammaTable(c, i) = Clamp(0, a \div den, 255)
    BY <1>4 DEF GammaTable
  <2>2. GammaTable(c, j) = Clamp(0, b \div den, 255)
    BY <1>4 DEF GammaTable
  <2> HIDE DEF g
  <2>3. num \in Int /\ den \in Nat \ {0}
    BY <1>1, <1>4
  <2> HIDE DEF num, den
  <2>4. i \in Nat /\ j \in Nat /\ j = i + 1 /\ j <= 255
    OBVIOUS
  <2> HIDE DEF j
  <2>5. a \in Int /\ b \in Int
    BY <2>3, <2>4
  <2>6. a <= b \/ a <= 0 \/ b >= 255 * den
    <3>1. CASE num < 0
      <4> DEFINE h == num * (255 - i) + den
                 k == num * (255 - j) + den
      <4>1. h \in Int /\ k \in Int /\ h <= k
        BY <2>3, <2>4, <3>1
      <4>2. a = i * h /\ b = j * k
        BY <2>3, <2>4
      <4> HIDE DEF h, k, a, b
      <4>3. CASE h <= 0
        BY <2>4, <4>1, <4>2, <4>3
      <4>4. CASE h > 0
        <5>1. i * h <= j * k
          BY <2>4, <4>1, <4>4
        <5> QED
          BY <4>2, <5>1
      <4> QED
        BY <4>1, <4>3, <4>4
    <3>2. CASE num >= 0
      <4> DEFINE m == 255 - i
                 n == 255 - j
                 h == den - num * i
                 k == den - num * j
      <4>1. h \in Int /\ k \in Int /\ k <= h /\ m \in Nat /\ n \in Nat /\ n <= m
        BY <2>3, <2>4, <3>2
      <4>2. 255 * den - a = m * h /\ 255 * den - b = n * k
        BY <2>3, <2>4
      <4> HIDE DEF h, k, m, n, a, b
      <4>3. CASE k <= 0
        <5>1. n * k <= 0
          BY <4>1, <4>3
        <5> QED
          BY <2>3, <2>5, <4>2, <5>1
      <4>4. CASE k > 0
        <5>1. n * k <= m * h
          BY <4>1, <4>4
        <5> QED
          BY <2>3, <2>5, <4>1, <4>2, <5>1
      <4> QED
        BY <4>1, <4>3, <4>4
    <3> QED
      BY <2>3, <3>1, <3>2
  <2> HIDE DEF a, b
  <2>7. a \div den \in Int /\ b \div den \in Int
    BY <2>3, <2>5
  <2>8. a <= b => a \div den <= b \div den
    BY <2>3, <2>5, DivMonotone
  <2>9. a <= 0 => a \div den <= 0
    BY <2>3, <2>5
  <2>10. b >= 255 * den => b \div den >= 255
    BY <2>3, <2>5
  <2>11. Clamp(0, a \div den, 255) <= Clamp(0, b \div den, 255)
    BY <2>6, <2>7, <2>8, <2>9, <2>10, ClampRises
  <2> QED
    BY <2>1, <2>2, <2>11 DEF j
<1> QED
  BY <1>2, <1>3, <1>4

(* No curve makes a brighter value the darker one, whatever the controls   *)
(* are set to while the clock is at work (akvcam_init_contrast_table and   *)
(* akvcam_init_gamma_table).                                               *)
THEOREM CurvesRiseHolds == Spec => []CurvesRise
<1>1. ControlsInv => CurvesRise
  <2> SUFFICES ASSUME ControlsInv, NEW i \in 0 .. 254
               PROVE  /\ ContrastTable(controls.contrast, i)
                           <= ContrastTable(controls.contrast, i + 1)
                      /\ GammaTable(controls.gamma, i)
                           <= GammaTable(controls.gamma, i + 1)
    BY DEF CurvesRise
  <2>1. controls.contrast \in -255 .. 255 /\ controls.gamma \in -255 .. 255
    BY Names DEF ControlsInv, AreControls, ControlValues
  <2> QED
    BY <2>1, ContrastRises, GammaRises
<1> QED
  BY <1>1, ControlsHold, PTL


-----------------------------------------------------------------------------

(***************************************************************************)
(* Bytes and their bits.                                                   *)
(***************************************************************************)
LEMMA BitsOfSum ==
  ASSUME NEW b0 \in {0, 1}, NEW b1 \in {0, 2}, NEW b2 \in {0, 4}, NEW b3 \in {0, 8},
         NEW b4 \in {0, 16}, NEW b5 \in {0, 32}, NEW b6 \in {0, 64}, NEW b7 \in {0, 128}
  PROVE  LET n == b0 + b1 + b2 + b3 + b4 + b5 + b6 + b7 IN
         /\ (n \div 1) % 2 = 1 <=> b0 = 1
         /\ (n \div 2) % 2 = 1 <=> b1 = 2
         /\ (n \div 4) % 2 = 1 <=> b2 = 4
         /\ (n \div 8) % 2 = 1 <=> b3 = 8
         /\ (n \div 16) % 2 = 1 <=> b4 = 16
         /\ (n \div 32) % 2 = 1 <=> b5 = 32
         /\ (n \div 64) % 2 = 1 <=> b6 = 64
         /\ (n \div 128) % 2 = 1 <=> b7 = 128
OBVIOUS

(* The bits of a byte that is made of bits are those.                      *)
LEMMA BitsOfByte ==
  ASSUME NEW bits, NEW j \in 0 .. 7
  PROVE  Bit(FromBits(bits), j) <=> j \in bits
<1> DEFINE b(i) == IF i \in bits THEN 2 ^ i ELSE 0
           n == b(0) + b(1) + b(2) + b(3) + b(4) + b(5) + b(6) + b(7)
<1>1. FromBits(bits) = n
  BY DEF FromBits
<1>2. /\ b(0) = IF 0 \in bits THEN 1 ELSE 0
      /\ b(1) = IF 1 \in bits THEN 2 ELSE 0
      /\ b(2) = IF 2 \in bits THEN 4 ELSE 0
      /\ b(3) = IF 3 \in bits THEN 8 ELSE 0
      /\ b(4) = IF 4 \in bits THEN 16 ELSE 0
      /\ b(5) = IF 5 \in bits THEN 32 ELSE 0
      /\ b(6) = IF 6 \in bits THEN 64 ELSE 0
      /\ b(7) = IF 7 \in bits THEN 128 ELSE 0
  OBVIOUS
<1> HIDE DEF b
<1>3. /\ (n \div 1) % 2 = 1 <=> b(0) = 1
      /\ (n \div 2) % 2 = 1 <=> b(1) = 2
      /\ (n \div 4) % 2 = 1 <=> b(2) = 4
      /\ (n \div 8) % 2 = 1 <=> b(3) = 8
      /\ (n \div 16) % 2 = 1 <=> b(4) = 16
      /\ (n \div 32) % 2 = 1 <=> b(5) = 32
      /\ (n \div 64) % 2 = 1 <=> b(6) = 64
      /\ (n \div 128) % 2 = 1 <=> b(7) = 128
  <2>1. /\ b(0) \in {0, 1} /\ b(1) \in {0, 2} /\ b(2) \in {0, 4} /\ b(3) \in {0, 8}
        /\ b(4) \in {0, 16} /\ b(5) \in {0, 32} /\ b(6) \in {0, 64} /\ b(7) \in {0, 128}
    BY <1>2
  <2> QED BY <2>1, BitsOfSum
<1>4. /\ b(0) = 1 <=> 0 \in bits
      /\ b(1) = 2 <=> 1 \in bits
      /\ b(2) = 4 <=> 2 \in bits
      /\ b(3) = 8 <=> 3 \in bits
      /\ b(4) = 16 <=> 4 \in bits
      /\ b(5) = 32 <=> 5 \in bits
      /\ b(6) = 64 <=> 6 \in bits
      /\ b(7) = 128 <=> 7 \in bits
  BY <1>2
<1> HIDE DEF n
<1>5. /\ 2 ^ 0 = 1 /\ 2 ^ 1 = 2 /\ 2 ^ 2 = 4 /\ 2 ^ 3 = 8
      /\ 2 ^ 4 = 16 /\ 2 ^ 5 = 32 /\ 2 ^ 6 = 64 /\ 2 ^ 7 = 128
  OBVIOUS
<1>6. CASE j = 0
  BY <1>1, <1>3, <1>4, <1>5, <1>6 DEF Bit
<1>7. CASE j = 1
  BY <1>1, <1>3, <1>4, <1>5, <1>7 DEF Bit
<1>8. CASE j = 2
  BY <1>1, <1>3, <1>4, <1>5, <1>8 DEF Bit
<1>9. CASE j = 3
  BY <1>1, <1>3, <1>4, <1>5, <1>9 DEF Bit
<1>10. CASE j = 4
  BY <1>1, <1>3, <1>4, <1>5, <1>10 DEF Bit
<1>11. CASE j = 5
  BY <1>1, <1>3, <1>4, <1>5, <1>11 DEF Bit
<1>12. CASE j = 6
  BY <1>1, <1>3, <1>4, <1>5, <1>12 DEF Bit
<1>13. CASE j = 7
  BY <1>1, <1>3, <1>4, <1>5, <1>13 DEF Bit
<1> QED
  BY <1>6, <1>7, <1>8, <1>9, <1>10, <1>11, <1>12, <1>13

Bits(n) == {j \in 0 .. 7 : Bit(n, j)}

(* A byte is nothing but its bits, and the bits it has after a component   *)
(* was put into it.                                                        *)
LEMMA BitsOfPut ==
  ASSUME NEW byte, NEW c, NEW value
  PROVE  /\ \A j \in 0 .. 7 :
              Bit(Put(byte, c, value), j) <=>
                \/ j \notin c.shift .. c.shift + c.depth - 1 /\ Bit(byte, j)
                \/ j >= c.shift /\ Bit(value, j - c.shift)
         /\ Put(byte, c, value) = FromBits(Bits(Put(byte, c, value)))
<1> DEFINE bits == {j \in 0 .. 7 :
                      \/ j \notin c.shift .. c.shift + c.depth - 1 /\ Bit(byte, j)
                      \/ j >= c.shift /\ Bit(value, j - c.shift)}
<1>1. Put(byte, c, value) = FromBits(bits)
  BY DEF Put
<1>2. Bits(FromBits(bits)) = bits
  BY BitsOfByte DEF Bits
<1>3. \A j \in 0 .. 7 : Bit(Put(byte, c, value), j) <=> j \in bits
  BY <1>1, <1>2, BitsOfByte
<1> QED
  BY <1>1, <1>2, <1>3

(***************************************************************************)
(* Components put into a byte one after the other, those of them that are  *)
(* written to it.                                                          *)
(***************************************************************************)
Step(act, x, c, v) == IF act THEN Put(x, c, v) ELSE x

Chain(x, act, c, v) ==
  Step(act[4], Step(act[3], Step(act[2], Step(act[1], x, c[1], v[1]),
                                 c[2], v[2]), c[3], v[3]), c[4], v[4])

Covers(c, j) == j \in c.shift .. c.shift + c.depth - 1

Adds(c, v, j) == j >= c.shift /\ Bit(v, j - c.shift)

(* Every bit is cleared before it is written, or never set.                *)
Settled(act, c, v) ==
  \A j \in 0 .. 7 :
    \/ \E i \in 1 .. 4 : act[i] /\ Covers(c[i], j)
    \/ \A i \in 1 .. 4 : act[i] => ~Adds(c[i], v[i], j)

IsByte(n) == n = FromBits(Bits(n))

LEMMA StepBits ==
  ASSUME NEW act, NEW x, NEW c, NEW v
  PROVE  /\ \A j \in 0 .. 7 :
              Bit(Step(act, x, c, v), j) <=>
                \/ ~(act /\ Covers(c, j)) /\ Bit(x, j)
                \/ act /\ Adds(c, v, j)
         /\ act \/ IsByte(x) => IsByte(Step(act, x, c, v))
<1>1. CASE act
  <2>1. Step(act, x, c, v) = Put(x, c, v)
    BY <1>1 DEF Step
  <2>2. /\ \A j \in 0 .. 7 : Bit(Put(x, c, v), j) <=>
                             \/ j \notin c.shift .. c.shift + c.depth - 1 /\ Bit(x, j)
                             \/ j >= c.shift /\ Bit(v, j - c.shift)
        /\ Put(x, c, v) = FromBits(Bits(Put(x, c, v)))
    BY BitsOfPut
  <2>3. ASSUME NEW j \in 0 .. 7
        PROVE  Bit(Put(x, c, v), j) <=> \/ ~(act /\ Covers(c, j)) /\ Bit(x, j)
                                        \/ act /\ Adds(c, v, j)
    BY <1>1, <2>2, Zenon DEF Covers, Adds
  <2> QED BY <2>1, <2>2, <2>3 DEF IsByte
<1>2. CASE ~act
  <2>1. Step(act, x, c, v) = x
    BY <1>2 DEF Step
  <2> QED BY <1>2, <2>1
<1> QED BY <1>1, <1>2

LEMMA ChainBits ==
  ASSUME NEW act, NEW x, NEW c, NEW v, NEW j \in 0 .. 7
  PROVE  Bit(Chain(x, act, c, v), j) <=>
           \/ act[4] /\ Adds(c[4], v[4], j)
           \/ ~(act[4] /\ Covers(c[4], j)) /\
              \/ act[3] /\ Adds(c[3], v[3], j)
              \/ ~(act[3] /\ Covers(c[3], j)) /\
                 \/ act[2] /\ Adds(c[2], v[2], j)
                 \/ ~(act[2] /\ Covers(c[2], j)) /\
                    \/ act[1] /\ Adds(c[1], v[1], j)
                    \/ ~(act[1] /\ Covers(c[1], j)) /\ Bit(x, j)
<1> DEFINE x1 == Step(act[1], x, c[1], v[1])
           x2 == Step(act[2], x1, c[2], v[2])
           x3 == Step(act[3], x2, c[3], v[3])
           x4 == Step(act[4], x3, c[4], v[4])
<1>1. Bit(x1, j) <=> \/ ~(act[1] /\ Covers(c[1], j)) /\ Bit(x, j)
                     \/ act[1] /\ Adds(c[1], v[1], j)
  BY StepBits
<1> HIDE DEF x1
<1>2. Bit(x2, j) <=> \/ ~(act[2] /\ Covers(c[2], j)) /\ Bit(x1, j)
                     \/ act[2] /\ Adds(c[2], v[2], j)
  BY StepBits
<1> HIDE DEF x2
<1>3. Bit(x3, j) <=> \/ ~(act[3] /\ Covers(c[3], j)) /\ Bit(x2, j)
                     \/ act[3] /\ Adds(c[3], v[3], j)
  BY StepBits
<1> HIDE DEF x3
<1>4. Bit(x4, j) <=> \/ ~(act[4] /\ Covers(c[4], j)) /\ Bit(x3, j)
                     \/ act[4] /\ Adds(c[4], v[4], j)
  BY StepBits
<1>5. Chain(x, act, c, v) = x4
  BY DEF Chain, x1, x2, x3
<1> HIDE DEF x4
<1> QED
  BY <1>1, <1>2, <1>3, <1>4, <1>5

LEMMA ChainIsByte ==
  ASSUME NEW act, NEW x, NEW c, NEW v, \E i \in 1 .. 4 : act[i]
  PROVE  IsByte(Chain(x, act, c, v))
<1> DEFINE x1 == Step(act[1], x, c[1], v[1])
           x2 == Step(act[2], x1, c[2], v[2])
           x3 == Step(act[3], x2, c[3], v[3])
           x4 == Step(act[4], x3, c[4], v[4])
<1>1. act[1] => IsByte(x1)
  BY StepBits
<1> HIDE DEF x1
<1>2. act[2] \/ IsByte(x1) => IsByte(x2)
  BY StepBits
<1> HIDE DEF x2
<1>3. act[3] \/ IsByte(x2) => IsByte(x3)
  BY StepBits
<1> HIDE DEF x3
<1>4. act[4] \/ IsByte(x3) => IsByte(x4)
  BY StepBits
<1>5. Chain(x, act, c, v) = x4
  BY DEF Chain, x1, x2, x3
<1> HIDE DEF x4
<1>6. act[1] \/ act[2] \/ act[3] \/ act[4]
  OBVIOUS
<1> QED
  BY <1>1, <1>2, <1>3, <1>4, <1>5, <1>6

(* What was written before does not show, when all of it is written again. *)
LEMMA ChainAgain ==
  ASSUME NEW act, NEW x, NEW c, NEW v, NEW w, Settled(act, c, v)
  PROVE  Chain(Chain(x, act, c, v), act, c, w) = Chain(x, act, c, w)
<1> DEFINE y == Chain(x, act, c, v)
           left == Chain(y, act, c, w)
           right == Chain(x, act, c, w)
<1>1. CASE \E i \in 1 .. 4 : act[i]
  <2>1. ASSUME NEW j \in 0 .. 7 PROVE Bit(left, j) <=> Bit(right, j)
    <3>1. \/ \/ act[1] /\ Covers(c[1], j)
             \/ act[2] /\ Covers(c[2], j)
             \/ act[3] /\ Covers(c[3], j)
             \/ act[4] /\ Covers(c[4], j)
          \/ /\ act[1] => ~Adds(c[1], v[1], j)
             /\ act[2] => ~Adds(c[2], v[2], j)
             /\ act[3] => ~Adds(c[3], v[3], j)
             /\ act[4] => ~Adds(c[4], v[4], j)
      BY DEF Settled
    <3>2. Bit(y, j) <=>
           \/ act[4] /\ Adds(c[4], v[4], j)
           \/ ~(act[4] /\ Covers(c[4], j)) /\
              \/ act[3] /\ Adds(c[3], v[3], j)
              \/ ~(act[3] /\ Covers(c[3], j)) /\
                 \/ act[2] /\ Adds(c[2], v[2], j)
                 \/ ~(act[2] /\ Covers(c[2], j)) /\
                    \/ act[1] /\ Adds(c[1], v[1], j)
                    \/ ~(act[1] /\ Covers(c[1], j)) /\ Bit(x, j)
      BY ChainBits
    <3>3. Bit(right, j) <=>
           \/ act[4] /\ Adds(c[4], w[4], j)
           \/ ~(act[4] /\ Covers(c[4], j)) /\
              \/ act[3] /\ Adds(c[3], w[3], j)
              \/ ~(act[3] /\ Covers(c[3], j)) /\
                 \/ act[2] /\ Adds(c[2], w[2], j)
                 \/ ~(act[2] /\ Covers(c[2], j)) /\
                    \/ act[1] /\ Adds(c[1], w[1], j)
                    \/ ~(act[1] /\ Covers(c[1], j)) /\ Bit(x, j)
      BY ChainBits
    <3> HIDE DEF y
    <3>4. Bit(left, j) <=>
           \/ act[4] /\ Adds(c[4], w[4], j)
           \/ ~(act[4] /\ Covers(c[4], j)) /\
              \/ act[3] /\ Adds(c[3], w[3], j)
              \/ ~(act[3] /\ Covers(c[3], j)) /\
                 \/ act[2] /\ Adds(c[2], w[2], j)
                 \/ ~(act[2] /\ Covers(c[2], j)) /\
                    \/ act[1] /\ Adds(c[1], w[1], j)
                    \/ ~(act[1] /\ Covers(c[1], j)) /\ Bit(y, j)
      BY ChainBits
    <3> HIDE DEF left, right
    <3> QED BY <3>1, <3>2, <3>3, <3>4
  <2>2. Bits(left) = Bits(right)
    BY <2>1 DEF Bits
  <2>3. left = FromBits(Bits(left)) /\ right = FromBits(Bits(right))
    BY <1>1, ChainIsByte DEF IsByte
  <2> QED BY <2>2, <2>3
<1>2. CASE ~\E i \in 1 .. 4 : act[i]
  <2>1. ~act[1] /\ ~act[2] /\ ~act[3] /\ ~act[4]
    BY <1>2
  <2> QED BY <2>1 DEF Chain, Step
<1> QED BY <1>1, <1>2


LEMMA SameTable == \A f : Table(f) = f
BY DEF Table

(* A set of integers below a bound has a greatest one.                     *)
LEMMA GreatestInside ==
  ASSUME NEW low \in Int, NEW high \in Int, NEW T \in SUBSET (low .. high), T # {}
  PROVE  Greatest(T) \in T
<1> DEFINE D == {high - v : v \in T}
<1>1. D \in SUBSET Nat /\ D # {}
  <2>1. \A v \in T : high - v \in Nat
    OBVIOUS
  <2> QED BY <2>1
<1>2. PICK d \in D : \A e \in D : d <= e
  BY <1>1, LeastIndex
<1>3. PICK v \in T : d = high - v
  BY <1>2
<1>4. \A w \in T : w <= v
  <2> TAKE w \in T
  <2>1. d <= high - w
    BY <1>2
  <2> QED BY <2>1, <1>3
<1> QED
  BY <1>3, <1>4 DEF Greatest

LEMMA LastsInside ==
  ASSUME NEW place, NEW low \in Int, NEW high \in Int, DOMAIN place = low .. high,
         NEW b \in DOMAIN Lasts(place)
  PROVE  Lasts(place)[b] \in low .. high
<1> DEFINE T == {v \in DOMAIN place : place[v] = b}
<1>1. Lasts(place) = [a \in {place[v] : v \in DOMAIN place} |->
                       Greatest({v \in DOMAIN place : place[v] = a})]
  BY SameTable DEF Lasts
<1>2. Lasts(place)[b] = Greatest(T) /\ T # {}
  BY <1>1
<1>3. T \in SUBSET (low .. high)
  OBVIOUS
<1> HIDE DEF T
<1>4. Greatest(T) \in T
  BY <1>2, <1>3, GreatestInside
<1> QED
  BY <1>2, <1>3, <1>4

AreBounded(s) ==
  s.xmin \in Int /\ s.xmax \in Int /\ s.ymin \in Int /\ s.ymax \in Int

(* Only pixels of the picture are written.                                 *)
LEMMA WritersInside ==
  ASSUME NEW s, AreBounded(s), NEW c, NEW b
  PROVE  Writers(Placed(s, c), b) \subseteq Columns(s) \X Lines(s)
<1> DEFINE place == Placed(s, c)
           lines == [y \in Lines(s) |-> Line(s.format, c.plane, y)]
           columns == [x \in Columns(s) |-> InLine(c.component, x)]
<1>1. place.line = Lasts(lines) /\ place.column = Lasts(columns)
  BY DEF Placed
<1>2. DOMAIN lines = s.ymin .. s.ymax - 1 /\ DOMAIN columns = s.xmin .. s.xmax - 1
  BY DEF Lines, Columns
<1> HIDE DEF lines, columns
<1>3. \A a \in DOMAIN place.line : place.line[a] \in Lines(s)
  BY <1>1, <1>2, LastsInside DEF Lines, AreBounded
<1>4. \A a \in DOMAIN place.column : place.column[a] \in Columns(s)
  BY <1>1, <1>2, LastsInside DEF Columns, AreBounded
<1> HIDE DEF place
<1>5. Writers(place, b) \subseteq Columns(s) \X Lines(s)
  BY <1>3, <1>4 DEF Writers
<1> QED
  BY <1>5 DEF place

(***************************************************************************)
(* Painting a byte is a chain of components.                               *)
(***************************************************************************)
WrittenTo(b, places, pixels, i) ==
  {q \in Writers(places[i], b) : i \in DOMAIN pixels[q]}

Acts(b, out_, places, pixels) ==
  [i \in 1 .. 4 |-> i \in DOMAIN out_ /\ WrittenTo(b, places, pixels, i) # {}]

PutComponents(out_) == [i \in 1 .. 4 |-> out_[i].component]

PutValues(b, places, pixels) ==
  [i \in 1 .. 4 |-> pixels[CHOOSE q \in WrittenTo(b, places, pixels, i) : TRUE][i]]

LEMMA PaintedByteChain ==
  ASSUME NEW byte, NEW b, NEW out_, NEW places, NEW pixels
  PROVE  PaintedByte(byte, b, out_, places, pixels) =
           Chain(byte, Acts(b, out_, places, pixels), PutComponents(out_),
                 PutValues(b, places, pixels))
<1> DEFINE act == Acts(b, out_, places, pixels)
           c == PutComponents(out_)
           v == PutValues(b, places, pixels)
<1>1. ASSUME NEW x, NEW i \in 1 .. 4
      PROVE  WithComponent(x, b, out_, places, pixels, i) = Step(act[i], x, c[i], v[i])
  <2> DEFINE written_ == WrittenTo(b, places, pixels, i)
             q == CHOOSE r \in written_ : TRUE
  <2>1. WithComponent(x, b, out_, places, pixels, i)
          = IF i \notin DOMAIN out_ \/ written_ = {} THEN x
            ELSE Put(x, out_[i].component, pixels[q][i])
    BY DEF WithComponent, WrittenTo
  <2>2. act[i] = (i \in DOMAIN out_ /\ written_ # {})
    BY DEF Acts
  <2>3. c[i] = out_[i].component /\ v[i] = pixels[q][i]
    BY DEF PutComponents, PutValues
  <2> HIDE DEF written_, q, act, c, v
  <2> QED
    BY <2>1, <2>2, <2>3 DEF Step
<1> HIDE DEF act, c, v
<1>2. PaintedByte(byte, b, out_, places, pixels) =
        WithComponent(WithComponent(WithComponent(WithComponent(
          byte, b, out_, places, pixels, 1), b, out_, places, pixels, 2),
          b, out_, places, pixels, 3), b, out_, places, pixels, 4)
  BY DEF PaintedByte
<1>3. PaintedByte(byte, b, out_, places, pixels) = Chain(byte, act, c, v)
  BY <1>1, <1>2 DEF Chain
<1> QED
  BY <1>3 DEF act, c, v

(* Two images whose pixels have the same components.                       *)
LEMMA PaintedAgain ==
  ASSUME NEW out_, NEW places, NEW data, NEW p1, NEW p2,
         \A i \in DOMAIN out_ : \A b : \A q \in Writers(places[i], b) :
           DOMAIN p1[q] = DOMAIN p2[q],
         \A b : Settled(Acts(b, out_, places, p1), PutComponents(out_),
                        PutValues(b, places, p1))
  PROVE  PaintedAt(out_, places, PaintedAt(out_, places, data, p1), p2)
           = PaintedAt(out_, places, data, p2)
<1> DEFINE once == PaintedAt(out_, places, data, p1)
<1>1. once = [b \in DOMAIN data |-> PaintedByte(data[b], b, out_, places, p1)]
  BY SameTable DEF PaintedAt
<1>2. ASSUME NEW b \in DOMAIN data
      PROVE  PaintedByte(once[b], b, out_, places, p2)
               = PaintedByte(data[b], b, out_, places, p2)
  <2> DEFINE act == Acts(b, out_, places, p1)
             c == PutComponents(out_)
             v == PutValues(b, places, p1)
             w == PutValues(b, places, p2)
  <2>1. \A i \in DOMAIN out_ : WrittenTo(b, places, p1, i) = WrittenTo(b, places, p2, i)
    BY DEF WrittenTo
  <2>2. Acts(b, out_, places, p2) = act
    BY <2>1 DEF Acts
  <2>3. once[b] = Chain(data[b], act, c, v)
    BY <1>1, PaintedByteChain
  <2>4. Settled(act, c, v)
    OBVIOUS
  <2>5. /\ PaintedByte(once[b], b, out_, places, p2) = Chain(once[b], act, c, w)
        /\ PaintedByte(data[b], b, out_, places, p2) = Chain(data[b], act, c, w)
    BY <2>2, PaintedByteChain
  <2> HIDE DEF act, c, v, w
  <2> QED
    BY <2>3, <2>4, <2>5, ChainAgain
<1> HIDE DEF once
<1>3. DOMAIN once = DOMAIN data
  BY <1>1
<1>4. /\ PaintedAt(out_, places, once, p2)
          = [b \in DOMAIN data |-> PaintedByte(once[b], b, out_, places, p2)]
      /\ PaintedAt(out_, places, data, p2)
          = [b \in DOMAIN data |-> PaintedByte(data[b], b, out_, places, p2)]
  BY <1>3, SameTable DEF PaintedAt
<1> QED
  BY <1>2, <1>4 DEF once


(***************************************************************************)
(* The table of pixel formats.                                             *)
(***************************************************************************)
LEMMA SameJoined ==
  ASSUME NEW f, NEW g
  PROVE  /\ DOMAIN Joined(f, g) = DOMAIN f \cup DOMAIN g
         /\ \A x \in DOMAIN f : Joined(f, g)[x] = f[x]
         /\ \A x \in DOMAIN g \ DOMAIN f : Joined(f, g)[x] = g[x]
BY SameTable DEF Joined

Holds(specs, t, p) == \E c \in specs.planes[p].components : c.type = t

LEMMA ComponentFound ==
  ASSUME NEW specs, NEW t, NEW p \in DOMAIN specs.planes, Holds(specs, t, p)
  PROVE  /\ PlaneOf(specs, t) \in DOMAIN specs.planes
         /\ ComponentOf(specs, t) \in specs.planes[PlaneOf(specs, t)].components
         /\ ComponentOf(specs, t).type = t
<1>1. PlaneOf(specs, t) = CHOOSE q \in DOMAIN specs.planes : Holds(specs, t, q)
  BY DEF PlaneOf, Holds
<1>2. PlaneOf(specs, t) \in DOMAIN specs.planes /\ Holds(specs, t, PlaneOf(specs, t))
  BY <1>1
<1> QED
  BY <1>2 DEF ComponentOf, Holds

LEMMA ComponentAbsent ==
  ASSUME NEW specs, NEW t, \A p \in DOMAIN specs.planes : ~Holds(specs, t, p)
  PROVE  ~HasComponent(specs, t)
BY DEF HasComponent, PlaneOf, Holds

(* All components are whole bytes.                                         *)
IsWhole(c) == c.shift = 0 /\ c.depth = 8

IsEight(specs) ==
  /\ \A i \in 1 .. 3 : \E p \in DOMAIN specs.planes :
       Holds(specs, MainComponents(specs)[i], p)
  /\ \A p \in DOMAIN specs.planes : \A c \in specs.planes[p].components : IsWhole(c)

LEMMA EightComponents ==
  ASSUME NEW specs, IsEight(specs), NEW i \in DOMAIN Components(specs)
  PROVE  IsWhole(Components(specs)[i].component)
<1> DEFINE main == MainComponents(specs)
           types == IF HasComponent(specs, "A") THEN Append(main, "A") ELSE main
<1>1. Components(specs) = [k \in DOMAIN types |-> Located(specs, types[k])]
  BY DEF Components
<1>2. \E p \in DOMAIN specs.planes : Holds(specs, types[i], p)
  <2>1. main = <<"R", "G", "B">> \/ main = <<"Y", "U", "V">>
    BY DEF MainComponents
  <2>2. CASE i \in 1 .. 3
    <3>1. types[i] = main[i]
      BY <2>1, <2>2
    <3> QED BY <3>1, <2>2 DEF IsEight
  <2>3. CASE i \notin 1 .. 3
    <3>1. HasComponent(specs, "A") /\ types[i] = "A"
      <4> HIDE DEF types
      <4>1. i \in DOMAIN types
        BY <1>1
      <4>2. HasComponent(specs, "A")
        BY <4>1, <2>1, <2>3 DEF types
      <4>3. types = Append(main, "A")
        BY <4>2 DEF types
      <4>4. DOMAIN types = 1 .. 4 /\ types[4] = "A"
        BY <4>3, <2>1
      <4> QED BY <4>1, <4>2, <4>4, <2>3
    <3> QED BY <3>1, ComponentAbsent
  <2> QED BY <2>2, <2>3
<1>3. Components(specs)[i].component = ComponentOf(specs, types[i])
  BY <1>1 DEF Located
<1> HIDE DEF types
<1>4. \E p \in DOMAIN specs.planes :
        ComponentOf(specs, types[i]) \in specs.planes[p].components
  BY <1>2, ComponentFound
<1> QED
  BY <1>3, <1>4 DEF IsEight

LEMMA Rgb8Eight ==
  ASSUME NEW bytes, \A t \in {"R", "G", "B"} : \E i \in DOMAIN bytes : bytes[i] = t
  PROVE  IsEight(Rgb8(bytes))
<1> DEFINE specs == Rgb8(bytes)
           k == {Component(bytes[i], Len(bytes), i - 1, 0, 8, 0, 0) :
                   i \in {j \in DOMAIN bytes : bytes[j] # "X"}}
<1>1. specs.planes = <<Plane(k, 8 * Len(bytes))>> /\ specs.type = "RGB"
  BY DEF Rgb8
<1>2. DOMAIN specs.planes = {1} /\ specs.planes[1].components = k
  BY <1>1 DEF Plane
<1>3. \A c \in k : IsWhole(c)
  BY DEF Component, IsWhole
<1>4. ASSUME NEW t \in {"R", "G", "B"} PROVE \E c \in k : c.type = t
  <2>1. PICK i \in DOMAIN bytes : bytes[i] = t
    OBVIOUS
  <2>2. i \in {j \in DOMAIN bytes : bytes[j] # "X"}
    BY <2>1
  <2>3. Component(bytes[i], Len(bytes), i - 1, 0, 8, 0, 0) \in k
    BY <2>2
  <2>4. Component(bytes[i], Len(bytes), i - 1, 0, 8, 0, 0).type = t
    BY <2>1 DEF Component
  <2> QED BY <2>3, <2>4
<1>5. \A i \in 1 .. 3 : MainComponents(specs)[i] \in {"R", "G", "B"}
  BY <1>1 DEF MainComponents
<1> HIDE DEF specs, k
<1>6. IsEight(specs)
  BY <1>2, <1>3, <1>4, <1>5 DEF IsEight, Holds
<1> QED BY <1>6 DEF specs

(* YUV formats whose planes hold the components given.                     *)
LEMMA YuvEight ==
  ASSUME NEW specs, specs.type = "YUV",
         \A t \in {"Y", "U", "V"} : \E p \in DOMAIN specs.planes : Holds(specs, t, p),
         \A p \in DOMAIN specs.planes : \A c \in specs.planes[p].components : IsWhole(c)
  PROVE  IsEight(specs)
<1>1. \A i \in 1 .. 3 : MainComponents(specs)[i] \in {"Y", "U", "V"}
  BY DEF MainComponents
<1> QED
  BY <1>1 DEF IsEight

LEMMA Yuv4Eight ==
  ASSUME NEW bytes
  PROVE  IsEight(Yuv4(bytes))
<1> DEFINE at(c) == CHOOSE i \in 1 .. 4 : bytes[i] = c
           chroma(c) == Component(c, 4, at(c) - 1, 0, 8, 1, 0)
           k == {Component("Y", 2, at("Y") - 1, 0, 8, 0, 0), chroma("U"), chroma("V")}
           specs == Yuv4(bytes)
<1>1. specs.planes = <<Plane(k, 16)>> /\ specs.type = "YUV"
  BY DEF Yuv4
<1>2. DOMAIN specs.planes = {1} /\ specs.planes[1].components = k
  <2> HIDE DEF k, specs
  <2> QED BY <1>1 DEF Plane
<1>3. \A c \in k : IsWhole(c)
  BY DEF Component, IsWhole
<1>4. \A t \in {"Y", "U", "V"} : \E c \in k : c.type = t
  BY DEF Component
<1> HIDE DEF specs, k
<1>5. IsEight(specs)
  BY <1>1, <1>2, <1>3, <1>4, YuvEight DEF Holds
<1> QED BY <1>5 DEF specs

LEMMA SemiEight ==
  ASSUME NEW first, NEW second, NEW heightDiv, {first, second} = {"U", "V"}
  PROVE  IsEight(Semi(first, second, heightDiv))
<1> DEFINE k == {Component(first, 2, 0, 0, 8, 1, heightDiv),
                 Component(second, 2, 1, 0, 8, 1, heightDiv)}
           specs == Semi(first, second, heightDiv)
<1>1. specs.planes = <<Luma, Plane(k, 8)>> /\ specs.type = "YUV"
  BY DEF Semi
<1>2. /\ DOMAIN specs.planes = {1, 2} /\ specs.planes[2].components = k
      /\ specs.planes[1].components = {Component("Y", 1, 0, 0, 8, 0, 0)}
  BY <1>1 DEF Plane, Luma
<1>3. \A c \in k \cup {Component("Y", 1, 0, 0, 8, 0, 0)} : IsWhole(c)
  BY DEF Component, IsWhole
<1>4. /\ \A t \in {"U", "V"} : \E c \in k : c.type = t
      /\ Component("Y", 1, 0, 0, 8, 0, 0).type = "Y"
  BY DEF Component
<1> HIDE DEF specs, k
<1>5. IsEight(specs)
  BY <1>1, <1>2, <1>3, <1>4, YuvEight DEF Holds
<1> QED BY <1>5 DEF specs

LEMMA PlanarEight ==
  ASSUME NEW first, NEW second, NEW widthDiv, NEW heightDiv, NEW bits,
         {first, second} = {"U", "V"}
  PROVE  IsEight(Planar(first, second, widthDiv, heightDiv, bits))
<1> DEFINE chroma(c) == Component(c, 1, 0, 0, 8, widthDiv, heightDiv)
           specs == Planar(first, second, widthDiv, heightDiv, bits)
           y == Component("Y", 1, 0, 0, 8, 0, 0)
<1>1. /\ specs.planes = <<Luma, Plane({chroma(first)}, bits), Plane({chroma(second)}, bits)>>
      /\ specs.type = "YUV"
  BY DEF Planar
<1>2. /\ DOMAIN specs.planes = {1, 2, 3}
      /\ specs.planes[1].components = {y}
      /\ specs.planes[2].components = {chroma(first)}
      /\ specs.planes[3].components = {chroma(second)}
  BY <1>1 DEF Plane, Luma
<1>3. IsWhole(y) /\ IsWhole(chroma(first)) /\ IsWhole(chroma(second))
  BY DEF Component, IsWhole
<1>4. y.type = "Y" /\ chroma(first).type = first /\ chroma(second).type = second
  BY DEF Component
<1> HIDE DEF specs, y, chroma
<1>5. IsEight(specs)
  BY <1>1, <1>2, <1>3, <1>4, YuvEight DEF Holds
<1> QED BY <1>5 DEF specs


(* A component of a 16 bit word.                                           *)
LEMMA WordComponent ==
  ASSUME NEW order, NEW fields, NEW f \in fields, \A g \in fields : g[1] = f[1] => g = f
  PROVE  LET specs == Rgb16(order, fields) IN
         Located(specs, f[1])
           = [component |-> Component(f[1], 2, 0, f[2], f[3], 0, 0), plane |-> 1]
<1> DEFINE specs == Rgb16(order, fields)
           k == {Component(g[1], 2, 0, g[2], g[3], 0, 0) : g \in fields}
           c == Component(f[1], 2, 0, f[2], f[3], 0, 0)
<1>1. specs.planes = <<Plane(k, 16)>>
  BY DEF Rgb16
<1>2. \A e \in k : e.type = f[1] => e = c
  BY DEF Component
<1>3. c \in k /\ c.type = f[1]
  BY DEF Component
<1> HIDE DEF specs, k, c
<1>4. DOMAIN specs.planes = {1} /\ specs.planes[1].components = k
  BY <1>1 DEF Plane
<1>5. Holds(specs, f[1], 1)
  BY <1>3, <1>4 DEF Holds
<1>6. PlaneOf(specs, f[1]) = 1
  BY <1>4, <1>5, ComponentFound
<1>7. ComponentOf(specs, f[1]) = c
  BY <1>2, <1>4, <1>5, <1>6, ComponentFound
<1>8. Located(specs, f[1]) = [component |-> c, plane |-> 1]
  BY <1>6, <1>7 DEF Located
<1> QED
  BY <1>8 DEF specs, c

Word(t, shift, depth) ==
  [component |-> Component(t, 2, 0, shift, depth, 0, 0), plane |-> 1]

LEMMA WordComponents ==
  ASSUME NEW order, NEW r, NEW rd, NEW g, NEW gd, NEW b, NEW bd
  PROVE  LET specs == Rgb16(order, {<<"R", r, rd>>, <<"G", g, gd>>, <<"B", b, bd>>}) IN
         /\ Components(specs) = <<Word("R", r, rd), Word("G", g, gd), Word("B", b, bd)>>
         /\ ~HasComponent(specs, "A")
<1> DEFINE fields == {<<"R", r, rd>>, <<"G", g, gd>>, <<"B", b, bd>>}
           specs == Rgb16(order, fields)
           k == {Component(f[1], 2, 0, f[2], f[3], 0, 0) : f \in fields}
<1>1. /\ Located(specs, "R") = Word("R", r, rd)
      /\ Located(specs, "G") = Word("G", g, gd)
      /\ Located(specs, "B") = Word("B", b, bd)
  <2>1. Located(specs, "R") = Word("R", r, rd)
    <3> DEFINE f == <<"R", r, rd>>
    <3>1. f \in fields /\ \A e \in fields : e[1] = f[1] => e = f
      OBVIOUS
    <3> HIDE DEF fields
    <3>2. Located(specs, f[1]) = [component |-> Component(f[1], 2, 0, f[2], f[3], 0, 0), plane |-> 1]
      BY <3>1, WordComponent
    <3> QED BY <3>2 DEF Word
  <2>2. Located(specs, "G") = Word("G", g, gd)
    <3> DEFINE f == <<"G", g, gd>>
    <3>1. f \in fields /\ \A e \in fields : e[1] = f[1] => e = f
      OBVIOUS
    <3> HIDE DEF fields
    <3>2. Located(specs, f[1]) = [component |-> Component(f[1], 2, 0, f[2], f[3], 0, 0), plane |-> 1]
      BY <3>1, WordComponent
    <3> QED BY <3>2 DEF Word
  <2>3. Located(specs, "B") = Word("B", b, bd)
    <3> DEFINE f == <<"B", b, bd>>
    <3>1. f \in fields /\ \A e \in fields : e[1] = f[1] => e = f
      OBVIOUS
    <3> HIDE DEF fields
    <3>2. Located(specs, f[1]) = [component |-> Component(f[1], 2, 0, f[2], f[3], 0, 0), plane |-> 1]
      BY <3>1, WordComponent
    <3> QED BY <3>2 DEF Word
  <2> QED BY <2>1, <2>2, <2>3
<1>2. ~HasComponent(specs, "A")
  <2>1. specs.planes = <<Plane(k, 16)>>
    BY DEF Rgb16
  <2>2. \A c \in k : c.type # "A"
    BY DEF Component
  <2> HIDE DEF specs, k
  <2>3. DOMAIN specs.planes = {1} /\ specs.planes[1].components = k
    BY <2>1 DEF Plane
  <2> QED BY <2>2, <2>3, ComponentAbsent DEF Holds
<1>3. MainComponents(specs) = <<"R", "G", "B">>
  BY DEF MainComponents, Rgb16
<1> HIDE DEF specs
<1>4. Components(specs) = [i \in DOMAIN <<"R", "G", "B">> |->
                             Located(specs, <<"R", "G", "B">>[i])]
  BY <1>2, <1>3 DEF Components
<1>5. Components(specs) = <<Located(specs, "R"), Located(specs, "G"), Located(specs, "B")>>
  BY <1>4
<1> QED
  BY <1>1, <1>2, <1>5 DEF specs

LEMMA WordComponentsA ==
  ASSUME NEW order, NEW r, NEW rd, NEW g, NEW gd, NEW b, NEW bd, NEW a
  PROVE  LET specs == Rgb16(order, {<<"R", r, rd>>, <<"G", g, gd>>, <<"B", b, bd>>,
                                    <<"A", a, 1>>}) IN
         /\ Components(specs) = <<Word("R", r, rd), Word("G", g, gd), Word("B", b, bd),
                                  Word("A", a, 1)>>
         /\ HasComponent(specs, "A")
<1> DEFINE fields == {<<"R", r, rd>>, <<"G", g, gd>>, <<"B", b, bd>>, <<"A", a, 1>>}
           specs == Rgb16(order, fields)
<1>1. /\ Located(specs, "R") = Word("R", r, rd)
      /\ Located(specs, "G") = Word("G", g, gd)
      /\ Located(specs, "B") = Word("B", b, bd)
      /\ Located(specs, "A") = Word("A", a, 1)
  <2>1. Located(specs, "R") = Word("R", r, rd)
    <3> DEFINE f == <<"R", r, rd>>
    <3>1. f \in fields /\ \A e \in fields : e[1] = f[1] => e = f
      OBVIOUS
    <3> HIDE DEF fields
    <3>2. Located(specs, f[1]) = [component |-> Component(f[1], 2, 0, f[2], f[3], 0, 0), plane |-> 1]
      BY <3>1, WordComponent
    <3> QED BY <3>2 DEF Word
  <2>2. Located(specs, "G") = Word("G", g, gd)
    <3> DEFINE f == <<"G", g, gd>>
    <3>1. f \in fields /\ \A e \in fields : e[1] = f[1] => e = f
      OBVIOUS
    <3> HIDE DEF fields
    <3>2. Located(specs, f[1]) = [component |-> Component(f[1], 2, 0, f[2], f[3], 0, 0), plane |-> 1]
      BY <3>1, WordComponent
    <3> QED BY <3>2 DEF Word
  <2>3. Located(specs, "B") = Word("B", b, bd)
    <3> DEFINE f == <<"B", b, bd>>
    <3>1. f \in fields /\ \A e \in fields : e[1] = f[1] => e = f
      OBVIOUS
    <3> HIDE DEF fields
    <3>2. Located(specs, f[1]) = [component |-> Component(f[1], 2, 0, f[2], f[3], 0, 0), plane |-> 1]
      BY <3>1, WordComponent
    <3> QED BY <3>2 DEF Word
  <2>4. Located(specs, "A") = Word("A", a, 1)
    <3> DEFINE f == <<"A", a, 1>>
    <3>1. f \in fields /\ \A e \in fields : e[1] = f[1] => e = f
      OBVIOUS
    <3> HIDE DEF fields
    <3>2. Located(specs, f[1]) = [component |-> Component(f[1], 2, 0, f[2], f[3], 0, 0), plane |-> 1]
      BY <3>1, WordComponent
    <3> QED BY <3>2 DEF Word
  <2> QED BY <2>1, <2>2, <2>3, <2>4
<1>2. HasComponent(specs, "A")
  <2> HIDE DEF specs
  <2>1. PlaneOf(specs, "A") = 1
    BY <1>1 DEF Located, Word
  <2> QED BY <2>1 DEF HasComponent
<1>3. MainComponents(specs) = <<"R", "G", "B">>
  BY DEF MainComponents, Rgb16
<1> HIDE DEF specs
<1> DEFINE types == Append(<<"R", "G", "B">>, "A")
<1>4. /\ DOMAIN types = 1 .. 4
      /\ types[1] = "R" /\ types[2] = "G" /\ types[3] = "B" /\ types[4] = "A"
  OBVIOUS
<1>5. Components(specs) = [i \in DOMAIN types |-> Located(specs, types[i])]
  BY <1>2, <1>3 DEF Components
<1> HIDE DEF types
<1>6. Components(specs) = <<Located(specs, "R"), Located(specs, "G"), Located(specs, "B"),
                            Located(specs, "A")>>
  BY <1>4, <1>5
<1> QED
  BY <1>1, <1>2, <1>6 DEF specs

LEMMA WordNotFast ==
  ASSUME NEW order, NEW fields, NEW f \in fields, f[2] # 0
  PROVE  ~IsFast(Rgb16(order, fields))
<1> DEFINE specs == Rgb16(order, fields)
           k == {Component(g[1], 2, 0, g[2], g[3], 0, 0) : g \in fields}
<1>1. specs.planes = <<Plane(k, 16)>>
  BY DEF Rgb16
<1>2. \E c \in k : c.shift # 0
  <2> DEFINE c == Component(f[1], 2, 0, f[2], f[3], 0, 0)
  <2>1. c \in k
    OBVIOUS
  <2>2. c.shift # 0
    BY DEF Component
  <2> QED BY <2>1, <2>2
<1> HIDE DEF specs, k
<1>3. DOMAIN specs.planes = {1} /\ specs.planes[1].components = k
  BY <1>1 DEF Plane
<1>4. ~IsFast(specs)
  BY <1>2, <1>3 DEF IsFast, AllComponents
<1> QED BY <1>4 DEF specs


(* Pixels of 16 bits, of which only the lower byte is written: its bits    *)
(* are all covered by components, or lie below them.                       *)
AreWords(specs) ==
  LET c == Components(specs) IN
  /\ ~IsFast(specs)
  /\ DOMAIN c = IF HasComponent(specs, "A") THEN 1 .. 4 ELSE 1 .. 3
  /\ \A i \in DOMAIN c :
       /\ c[i].plane = 1 /\ c[i].component.step = 2
       /\ c[i].component.offset = 0 /\ c[i].component.widthDiv = 0
  /\ \A j \in 0 .. 7 : \/ \E i \in DOMAIN c : Covers(c[i].component, j)
                       \/ \A i \in DOMAIN c : ~(j >= c[i].component.shift)

LEMMA WordFacts ==
  ASSUME NEW t, NEW shift, NEW depth
  PROVE  LET w == Word(t, shift, depth) IN
         /\ w.plane = 1 /\ w.component.step = 2
         /\ w.component.offset = 0 /\ w.component.widthDiv = 0
         /\ w.component.shift = shift /\ w.component.depth = depth
         /\ \A j : Covers(w.component, j) <=> j \in shift .. shift + depth - 1
BY DEF Word, Component, Covers

AreThree(specs, r, rd, g, gd, b, bd) ==
  /\ r \in Nat /\ rd \in Nat /\ g \in Nat /\ gd \in Nat /\ b \in Nat /\ bd \in Nat
  /\ Components(specs) = <<Word("R", r, rd), Word("G", g, gd), Word("B", b, bd)>>
  /\ ~HasComponent(specs, "A") /\ ~IsFast(specs)
  /\ \A j \in 0 .. 7 : \/ j \in r .. r + rd - 1 \/ j \in g .. g + gd - 1
                       \/ j \in b .. b + bd - 1
                       \/ (j < r /\ j < g /\ j < b)

LEMMA ThreeWords ==
  ASSUME NEW specs, NEW r, NEW rd, NEW g, NEW gd, NEW b, NEW bd,
         AreThree(specs, r, rd, g, gd, b, bd)
  PROVE  AreWords(specs)
<1> USE DEF AreThree
<1> DEFINE c == Components(specs)
<1>1. /\ DOMAIN c = 1 .. 3
      /\ c[1] = Word("R", r, rd) /\ c[2] = Word("G", g, gd) /\ c[3] = Word("B", b, bd)
  OBVIOUS
<1> HIDE DEF c
<1>2. \A i \in DOMAIN c :
        /\ c[i].plane = 1 /\ c[i].component.step = 2
        /\ c[i].component.offset = 0 /\ c[i].component.widthDiv = 0
  BY <1>1, WordFacts
<1>3. /\ c[1].component.shift = r /\ c[2].component.shift = g /\ c[3].component.shift = b
      /\ c[1].component.depth = rd /\ c[2].component.depth = gd
      /\ c[3].component.depth = bd
  BY <1>1, WordFacts
<1>4. ASSUME NEW j \in 0 .. 7
      PROVE \/ \E i \in DOMAIN c : Covers(c[i].component, j)
            \/ \A i \in DOMAIN c : ~(j >= c[i].component.shift)
  <2>1. CASE j \in r .. r + rd - 1 \/ j \in g .. g + gd - 1 \/ j \in b .. b + bd - 1
    <3>1. Covers(c[1].component, j) \/ Covers(c[2].component, j) \/ Covers(c[3].component, j)
      BY <1>3, <2>1 DEF Covers
    <3> QED BY <1>1, <3>1
  <2>2. CASE j < r /\ j < g /\ j < b
    BY <1>1, <1>3, <2>2
  <2> QED BY <2>1, <2>2
<1> QED
  BY <1>1, <1>2, <1>4 DEF AreWords, c

AreFour(specs, r, rd, g, gd, b, bd, a) ==
  /\ r \in Nat /\ rd \in Nat /\ g \in Nat /\ gd \in Nat /\ b \in Nat /\ bd \in Nat
  /\ a \in Nat
  /\ Components(specs) = <<Word("R", r, rd), Word("G", g, gd), Word("B", b, bd),
                           Word("A", a, 1)>>
  /\ HasComponent(specs, "A") /\ ~IsFast(specs)
  /\ \A j \in 0 .. 7 : \/ j \in r .. r + rd - 1 \/ j \in g .. g + gd - 1
                       \/ j \in b .. b + bd - 1 \/ j = a

LEMMA FourWords ==
  ASSUME NEW specs, NEW r, NEW rd, NEW g, NEW gd, NEW b, NEW bd, NEW a,
         AreFour(specs, r, rd, g, gd, b, bd, a)
  PROVE  AreWords(specs)
<1> USE DEF AreFour
<1> DEFINE c == Components(specs)
<1>1. /\ DOMAIN c = 1 .. 4
      /\ c[1] = Word("R", r, rd) /\ c[2] = Word("G", g, gd) /\ c[3] = Word("B", b, bd)
      /\ c[4] = Word("A", a, 1)
  OBVIOUS
<1> HIDE DEF c
<1>2. \A i \in DOMAIN c :
        /\ c[i].plane = 1 /\ c[i].component.step = 2
        /\ c[i].component.offset = 0 /\ c[i].component.widthDiv = 0
  BY <1>1, WordFacts
<1>3. /\ c[1].component.shift = r /\ c[2].component.shift = g /\ c[3].component.shift = b
      /\ c[1].component.depth = rd /\ c[2].component.depth = gd
      /\ c[3].component.depth = bd
      /\ c[4].component.shift = a /\ c[4].component.depth = 1
  BY <1>1, WordFacts
<1>4. ASSUME NEW j \in 0 .. 7
      PROVE \E i \in DOMAIN c : Covers(c[i].component, j)
  <2>1. \/ Covers(c[1].component, j) \/ Covers(c[2].component, j)
        \/ Covers(c[3].component, j) \/ Covers(c[4].component, j)
    BY <1>3 DEF Covers
  <2> QED BY <1>1, <2>1
<1> QED
  BY <1>1, <1>2, <1>4 DEF AreWords, c

LEMMA WordsOf1 == ASSUME NEW order PROVE AreWords(Rgb16(order, RGB555))
<1> DEFINE fields == {<<"R", 10, 5>>, <<"G", 5, 5>>, <<"B", 0, 5>>}
           specs == Rgb16(order, fields)
<1>1. RGB555 = fields
  BY DEF RGB555, BGR555, RGB565, Up, Alpha
<1>2. ~IsFast(specs)
  <2>1. <<"G", 5, 5>> \in fields
    OBVIOUS
  <2> HIDE DEF fields
  <2> QED BY <2>1, WordNotFast
<1>3. Components(specs) = <<Word("R", 10, 5), Word("G", 5, 5), Word("B", 0, 5)>>
      /\ ~HasComponent(specs, "A")
  BY WordComponents
<1>4. AreWords(specs)
  <2> HIDE DEF specs
  <2>1. AreThree(specs, 10, 5, 5, 5, 0, 5)
    BY <1>2, <1>3 DEF AreThree
  <2> QED BY <2>1, ThreeWords
<1> QED BY <1>1, <1>4

LEMMA WordsOf2 == ASSUME NEW order PROVE AreWords(Rgb16(order, RGB555 \cup Alpha(15)))
<1> DEFINE fields == {<<"R", 10, 5>>, <<"G", 5, 5>>, <<"B", 0, 5>>, <<"A", 15, 1>>}
           specs == Rgb16(order, fields)
<1>1. RGB555 \cup Alpha(15) = fields
  BY DEF RGB555, BGR555, RGB565, Up, Alpha
<1>2. ~IsFast(specs)
  <2>1. <<"G", 5, 5>> \in fields
    OBVIOUS
  <2> HIDE DEF fields
  <2> QED BY <2>1, WordNotFast
<1>3. Components(specs) = <<Word("R", 10, 5), Word("G", 5, 5), Word("B", 0, 5), Word("A", 15, 1)>>
      /\ HasComponent(specs, "A")
  BY WordComponentsA
<1>4. AreWords(specs)
  <2> HIDE DEF specs
  <2>1. AreFour(specs, 10, 5, 5, 5, 0, 5, 15)
    BY <1>2, <1>3 DEF AreFour
  <2> QED BY <2>1, FourWords
<1> QED BY <1>1, <1>4

LEMMA WordsOf3 == ASSUME NEW order PROVE AreWords(Rgb16(order, Up(RGB555)))
<1> DEFINE fields == {<<"R", 11, 5>>, <<"G", 6, 5>>, <<"B", 1, 5>>}
           specs == Rgb16(order, fields)
<1>1. Up(RGB555) = fields
  BY DEF RGB555, BGR555, RGB565, Up, Alpha
<1>2. ~IsFast(specs)
  <2>1. <<"G", 6, 5>> \in fields
    OBVIOUS
  <2> HIDE DEF fields
  <2> QED BY <2>1, WordNotFast
<1>3. Components(specs) = <<Word("R", 11, 5), Word("G", 6, 5), Word("B", 1, 5)>>
      /\ ~HasComponent(specs, "A")
  BY WordComponents
<1>4. AreWords(specs)
  <2> HIDE DEF specs
  <2>1. AreThree(specs, 11, 5, 6, 5, 1, 5)
    BY <1>2, <1>3 DEF AreThree
  <2> QED BY <2>1, ThreeWords
<1> QED BY <1>1, <1>4

LEMMA WordsOf4 == ASSUME NEW order PROVE AreWords(Rgb16(order, Up(RGB555) \cup Alpha(0)))
<1> DEFINE fields == {<<"R", 11, 5>>, <<"G", 6, 5>>, <<"B", 1, 5>>, <<"A", 0, 1>>}
           specs == Rgb16(order, fields)
<1>1. Up(RGB555) \cup Alpha(0) = fields
  BY DEF RGB555, BGR555, RGB565, Up, Alpha
<1>2. ~IsFast(specs)
  <2>1. <<"G", 6, 5>> \in fields
    OBVIOUS
  <2> HIDE DEF fields
  <2> QED BY <2>1, WordNotFast
<1>3. Components(specs) = <<Word("R", 11, 5), Word("G", 6, 5), Word("B", 1, 5), Word("A", 0, 1)>>
      /\ HasComponent(specs, "A")
  BY WordComponentsA
<1>4. AreWords(specs)
  <2> HIDE DEF specs
  <2>1. AreFour(specs, 11, 5, 6, 5, 1, 5, 0)
    BY <1>2, <1>3 DEF AreFour
  <2> QED BY <2>1, FourWords
<1> QED BY <1>1, <1>4

LEMMA WordsOf5 == ASSUME NEW order PROVE AreWords(Rgb16(order, BGR555))
<1> DEFINE fields == {<<"R", 0, 5>>, <<"G", 5, 5>>, <<"B", 10, 5>>}
           specs == Rgb16(order, fields)
<1>1. BGR555 = fields
  BY DEF RGB555, BGR555, RGB565, Up, Alpha
<1>2. ~IsFast(specs)
  <2>1. <<"G", 5, 5>> \in fields
    OBVIOUS
  <2> HIDE DEF fields
  <2> QED BY <2>1, WordNotFast
<1>3. Components(specs) = <<Word("R", 0, 5), Word("G", 5, 5), Word("B", 10, 5)>>
      /\ ~HasComponent(specs, "A")
  BY WordComponents
<1>4. AreWords(specs)
  <2> HIDE DEF specs
  <2>1. AreThree(specs, 0, 5, 5, 5, 10, 5)
    BY <1>2, <1>3 DEF AreThree
  <2> QED BY <2>1, ThreeWords
<1> QED BY <1>1, <1>4

LEMMA WordsOf6 == ASSUME NEW order PROVE AreWords(Rgb16(order, BGR555 \cup Alpha(15)))
<1> DEFINE fields == {<<"R", 0, 5>>, <<"G", 5, 5>>, <<"B", 10, 5>>, <<"A", 15, 1>>}
           specs == Rgb16(order, fields)
<1>1. BGR555 \cup Alpha(15) = fields
  BY DEF RGB555, BGR555, RGB565, Up, Alpha
<1>2. ~IsFast(specs)
  <2>1. <<"G", 5, 5>> \in fields
    OBVIOUS
  <2> HIDE DEF fields
  <2> QED BY <2>1, WordNotFast
<1>3. Components(specs) = <<Word("R", 0, 5), Word("G", 5, 5), Word("B", 10, 5), Word("A", 15, 1)>>
      /\ HasComponent(specs, "A")
  BY WordComponentsA
<1>4. AreWords(specs)
  <2> HIDE DEF specs
  <2>1. AreFour(specs, 0, 5, 5, 5, 10, 5, 15)
    BY <1>2, <1>3 DEF AreFour
  <2> QED BY <2>1, FourWords
<1> QED BY <1>1, <1>4

LEMMA WordsOf7 == ASSUME NEW order PROVE AreWords(Rgb16(order, Up(BGR555) \cup Alpha(0)))
<1> DEFINE fields == {<<"R", 1, 5>>, <<"G", 6, 5>>, <<"B", 11, 5>>, <<"A", 0, 1>>}
           specs == Rgb16(order, fields)
<1>1. Up(BGR555) \cup Alpha(0) = fields
  BY DEF RGB555, BGR555, RGB565, Up, Alpha
<1>2. ~IsFast(specs)
  <2>1. <<"G", 6, 5>> \in fields
    OBVIOUS
  <2> HIDE DEF fields
  <2> QED BY <2>1, WordNotFast
<1>3. Components(specs) = <<Word("R", 1, 5), Word("G", 6, 5), Word("B", 11, 5), Word("A", 0, 1)>>
      /\ HasComponent(specs, "A")
  BY WordComponentsA
<1>4. AreWords(specs)
  <2> HIDE DEF specs
  <2>1. AreFour(specs, 1, 5, 6, 5, 11, 5, 0)
    BY <1>2, <1>3 DEF AreFour
  <2> QED BY <2>1, FourWords
<1> QED BY <1>1, <1>4

LEMMA WordsOf8 == ASSUME NEW order PROVE AreWords(Rgb16(order, RGB565))
<1> DEFINE fields == {<<"R", 11, 5>>, <<"G", 5, 6>>, <<"B", 0, 5>>}
           specs == Rgb16(order, fields)
<1>1. RGB565 = fields
  BY DEF RGB555, BGR555, RGB565, Up, Alpha
<1>2. ~IsFast(specs)
  <2>1. <<"G", 5, 6>> \in fields
    OBVIOUS
  <2> HIDE DEF fields
  <2> QED BY <2>1, WordNotFast
<1>3. Components(specs) = <<Word("R", 11, 5), Word("G", 5, 6), Word("B", 0, 5)>>
      /\ ~HasComponent(specs, "A")
  BY WordComponents
<1>4. AreWords(specs)
  <2> HIDE DEF specs
  <2>1. AreThree(specs, 11, 5, 5, 6, 0, 5)
    BY <1>2, <1>3 DEF AreThree
  <2> QED BY <2>1, ThreeWords
<1> QED BY <1>1, <1>4

(* The format with gaps between its components.                            *)
IsBgrx(specs) ==
  /\ specs.type = "RGB" /\ ~IsFast(specs) /\ ~HasComponent(specs, "A")
  /\ Components(specs) = <<Word("R", 1, 4), Word("G", 6, 4), Word("B", 11, 4)>>

Bgrx == {<<"B", 11, 4>>, <<"G", 6, 4>>, <<"R", 1, 4>>}

LEMMA BgrxWords == ASSUME NEW order PROVE IsBgrx(Rgb16(order, Bgrx))
<1> DEFINE fields == {<<"R", 1, 4>>, <<"G", 6, 4>>, <<"B", 11, 4>>}
           specs == Rgb16(order, fields)
<1>1. Bgrx = fields
  BY DEF Bgrx
<1>2. ~IsFast(specs)
  <2>1. <<"G", 6, 4>> \in fields
    OBVIOUS
  <2> HIDE DEF fields
  <2> QED BY <2>1, WordNotFast
<1>3. /\ Components(specs) = <<Word("R", 1, 4), Word("G", 6, 4), Word("B", 11, 4)>>
      /\ ~HasComponent(specs, "A")
  BY WordComponents
<1>4. specs.type = "RGB"
  BY DEF Rgb16
<1> QED BY <1>1, <1>2, <1>3, <1>4 DEF IsBgrx

Kind(specs) == IsEight(specs) \/ AreWords(specs) \/ IsBgrx(specs)

LEMMA JoinedFirst ==
  ASSUME NEW f, NEW g, NEW x \in DOMAIN f
  PROVE  x \in DOMAIN Joined(f, g) /\ Joined(f, g)[x] = f[x]
<1> DEFINE j == Joined(f, g)
<1>1. DOMAIN j = DOMAIN f \cup DOMAIN g
  BY SameJoined
<1>2. j[x] = f[x]
  BY SameJoined
<1> HIDE DEF j
<1>3. x \in DOMAIN j
  BY <1>1
<1> QED BY <1>2, <1>3 DEF j

LEMMA JoinedSecond ==
  ASSUME NEW f, NEW g, NEW x \in DOMAIN g, x \notin DOMAIN f
  PROVE  x \in DOMAIN Joined(f, g) /\ Joined(f, g)[x] = g[x]
<1> DEFINE j == Joined(f, g)
<1>1. DOMAIN j = DOMAIN f \cup DOMAIN g
  BY SameJoined
<1>2. \A y \in DOMAIN g \ DOMAIN f : j[y] = g[y]
  BY SameJoined
<1> HIDE DEF j
<1>3. x \in DOMAIN j /\ j[x] = g[x]
  BY <1>1, <1>2
<1> QED BY <1>3 DEF j

LEMMA JoinedKinds ==
  ASSUME NEW f, NEW g, \A x \in DOMAIN f : Kind(f[x]), \A x \in DOMAIN g : Kind(g[x])
  PROVE  \A x \in DOMAIN Joined(f, g) : Kind(Joined(f, g)[x])
<1> DEFINE j == Joined(f, g)
<1>1. DOMAIN j = DOMAIN f \cup DOMAIN g
  BY SameJoined
<1>2. \A x \in DOMAIN f : j[x] = f[x]
  BY SameJoined
<1>3. \A x \in DOMAIN g \ DOMAIN f : j[x] = g[x]
  BY SameJoined
<1> HIDE DEF j
<1>4. \A x \in DOMAIN j : Kind(j[x])
  BY <1>1, <1>2, <1>3
<1> QED BY <1>4 DEF j

LEMMA Rgb16Kinds ==
  ASSUME NEW f \in DOMAIN Rgb16Formats
  PROVE  Kind(Rgb16Formats[f])
<1> DEFINE little == [RGB15   |-> RGB555,
                      ARGB555 |-> RGB555 \cup Alpha(15),
                      XRGB555 |-> RGB555,
                      RGBA555 |-> Up(RGB555) \cup Alpha(0),
                      RGBX555 |-> Up(RGB555),
                      ABGR555 |-> BGR555 \cup Alpha(15),
                      XBGR555 |-> BGR555,
                      BGRA555 |-> Up(BGR555) \cup Alpha(0),
                      BGRX555 |-> Bgrx,
                      RGB16   |-> RGB565]
           big == [RGB555X  |-> RGB555,
                   ARGB555X |-> RGB555 \cup Alpha(15),
                   XRGB555X |-> RGB555,
                   RGB565X  |-> RGB565]
           Words(order, fields) ==
             AreWords(Rgb16(order, fields)) \/ IsBgrx(Rgb16(order, fields))
           words == [g \in DOMAIN little |-> Rgb16("little", little[g])]
           bigWords == [g \in DOMAIN big |-> Rgb16("big", big[g])]
<1>1. Rgb16Formats = Joined(words, bigWords)
  BY DEF Rgb16Formats, Bgrx
<1>2. ASSUME NEW order, NEW fields \in {RGB555, RGB555 \cup Alpha(15), Up(RGB555),
               Up(RGB555) \cup Alpha(0), BGR555, BGR555 \cup Alpha(15),
               Up(BGR555) \cup Alpha(0), RGB565, Bgrx}
      PROVE  Words(order, fields)
  BY WordsOf1, WordsOf2, WordsOf3, WordsOf4, WordsOf5, WordsOf6, WordsOf7, WordsOf8,
     BgrxWords
<1> HIDE DEF Words
<1>3. ASSUME NEW g \in DOMAIN little PROVE Words("little", little[g])
  <2>1. little[g] \in {RGB555, RGB555 \cup Alpha(15), Up(RGB555), Up(RGB555) \cup Alpha(0),
                       BGR555, BGR555 \cup Alpha(15), Up(BGR555) \cup Alpha(0), RGB565, Bgrx}
    OBVIOUS
  <2> QED BY <1>2, <2>1
<1>4. ASSUME NEW g \in DOMAIN big PROVE Words("big", big[g])
  <2>1. big[g] \in {RGB555, RGB555 \cup Alpha(15), Up(RGB555), Up(RGB555) \cup Alpha(0),
                    BGR555, BGR555 \cup Alpha(15), Up(BGR555) \cup Alpha(0), RGB565, Bgrx}
    OBVIOUS
  <2> QED BY <1>2, <2>1
<1> HIDE DEF little, big
<1>5. /\ \A g \in DOMAIN words : Kind(words[g])
      /\ \A g \in DOMAIN bigWords : Kind(bigWords[g])
  BY <1>3, <1>4 DEF Words, Kind
<1> HIDE DEF words, bigWords
<1> QED
  BY <1>1, <1>5, JoinedKinds

LEMMA Rgb24Kinds == \A f \in DOMAIN Rgb24Formats : IsEight(Rgb24Formats[f])
<1> DEFINE bytes == [BGR24  |-> <<"B", "G", "R">>,
                     RGB24  |-> <<"R", "G", "B">>,
                     BGR32  |-> <<"X", "B", "G", "R">>,
                     ABGR32 |-> <<"A", "B", "G", "R">>,
                     XBGR32 |-> <<"X", "B", "G", "R">>,
                     BGRA32 |-> <<"B", "G", "R", "A">>,
                     BGRX32 |-> <<"B", "G", "R", "X">>]
<1>1. Rgb24Formats = [f \in DOMAIN bytes |-> Rgb8(bytes[f])]
  BY DEF Rgb24Formats
<1>2. \A f \in DOMAIN bytes : IsEight(Rgb8(bytes[f]))
  <2>1. IsEight(Rgb8(<<"B", "G", "R">>))
    <3>2. \A t \in {"R", "G", "B"} : \E i \in DOMAIN <<"B", "G", "R">> : <<"B", "G", "R">>[i] = t
      <4>1. <<"B", "G", "R">>[3] = "R"
        OBVIOUS
      <4>2. <<"B", "G", "R">>[2] = "G"
        OBVIOUS
      <4>3. <<"B", "G", "R">>[1] = "B"
        OBVIOUS
      <4> QED BY <4>1, <4>2, <4>3
    <3> QED BY <3>2, Rgb8Eight
  <2>2. IsEight(Rgb8(<<"R", "G", "B">>))
    <3>2. \A t \in {"R", "G", "B"} : \E i \in DOMAIN <<"R", "G", "B">> : <<"R", "G", "B">>[i] = t
      <4>1. <<"R", "G", "B">>[1] = "R"
        OBVIOUS
      <4>2. <<"R", "G", "B">>[2] = "G"
        OBVIOUS
      <4>3. <<"R", "G", "B">>[3] = "B"
        OBVIOUS
      <4> QED BY <4>1, <4>2, <4>3
    <3> QED BY <3>2, Rgb8Eight
  <2>3. IsEight(Rgb8(<<"X", "B", "G", "R">>))
    <3>2. \A t \in {"R", "G", "B"} : \E i \in DOMAIN <<"X", "B", "G", "R">> : <<"X", "B", "G", "R">>[i] = t
      <4>1. <<"X", "B", "G", "R">>[4] = "R"
        OBVIOUS
      <4>2. <<"X", "B", "G", "R">>[3] = "G"
        OBVIOUS
      <4>3. <<"X", "B", "G", "R">>[2] = "B"
        OBVIOUS
      <4> QED BY <4>1, <4>2, <4>3
    <3> QED BY <3>2, Rgb8Eight
  <2>4. IsEight(Rgb8(<<"A", "B", "G", "R">>))
    <3>2. \A t \in {"R", "G", "B"} : \E i \in DOMAIN <<"A", "B", "G", "R">> : <<"A", "B", "G", "R">>[i] = t
      <4>1. <<"A", "B", "G", "R">>[4] = "R"
        OBVIOUS
      <4>2. <<"A", "B", "G", "R">>[3] = "G"
        OBVIOUS
      <4>3. <<"A", "B", "G", "R">>[2] = "B"
        OBVIOUS
      <4> QED BY <4>1, <4>2, <4>3
    <3> QED BY <3>2, Rgb8Eight
  <2>5. IsEight(Rgb8(<<"B", "G", "R", "A">>))
    <3>2. \A t \in {"R", "G", "B"} : \E i \in DOMAIN <<"B", "G", "R", "A">> : <<"B", "G", "R", "A">>[i] = t
      <4>1. <<"B", "G", "R", "A">>[3] = "R"
        OBVIOUS
      <4>2. <<"B", "G", "R", "A">>[2] = "G"
        OBVIOUS
      <4>3. <<"B", "G", "R", "A">>[1] = "B"
        OBVIOUS
      <4> QED BY <4>1, <4>2, <4>3
    <3> QED BY <3>2, Rgb8Eight
  <2>6. IsEight(Rgb8(<<"B", "G", "R", "X">>))
    <3>2. \A t \in {"R", "G", "B"} : \E i \in DOMAIN <<"B", "G", "R", "X">> : <<"B", "G", "R", "X">>[i] = t
      <4>1. <<"B", "G", "R", "X">>[3] = "R"
        OBVIOUS
      <4>2. <<"B", "G", "R", "X">>[2] = "G"
        OBVIOUS
      <4>3. <<"B", "G", "R", "X">>[1] = "B"
        OBVIOUS
      <4> QED BY <4>1, <4>2, <4>3
    <3> QED BY <3>2, Rgb8Eight
  <2> QED BY <2>1, <2>2, <2>3, <2>4, <2>5, <2>6
<1> HIDE DEF bytes
<1> QED BY <1>1, <1>2

LEMMA Rgb32Kinds == \A f \in DOMAIN Rgb32Formats : IsEight(Rgb32Formats[f])
<1> DEFINE bytes == [RGB32  |-> <<"X", "R", "G", "B">>,
                     RGBA32 |-> <<"R", "G", "B", "A">>,
                     RGBX32 |-> <<"R", "G", "B", "X">>,
                     ARGB32 |-> <<"A", "R", "G", "B">>,
                     XRGB32 |-> <<"X", "R", "G", "B">>]
<1>1. Rgb32Formats = [f \in DOMAIN bytes |-> Rgb8(bytes[f])]
  BY DEF Rgb32Formats
<1>2. \A f \in DOMAIN bytes : IsEight(Rgb8(bytes[f]))
  <2>1. IsEight(Rgb8(<<"X", "R", "G", "B">>))
    <3>2. \A t \in {"R", "G", "B"} : \E i \in DOMAIN <<"X", "R", "G", "B">> : <<"X", "R", "G", "B">>[i] = t
      <4>1. <<"X", "R", "G", "B">>[2] = "R"
        OBVIOUS
      <4>2. <<"X", "R", "G", "B">>[3] = "G"
        OBVIOUS
      <4>3. <<"X", "R", "G", "B">>[4] = "B"
        OBVIOUS
      <4> QED BY <4>1, <4>2, <4>3
    <3> QED BY <3>2, Rgb8Eight
  <2>2. IsEight(Rgb8(<<"R", "G", "B", "A">>))
    <3>2. \A t \in {"R", "G", "B"} : \E i \in DOMAIN <<"R", "G", "B", "A">> : <<"R", "G", "B", "A">>[i] = t
      <4>1. <<"R", "G", "B", "A">>[1] = "R"
        OBVIOUS
      <4>2. <<"R", "G", "B", "A">>[2] = "G"
        OBVIOUS
      <4>3. <<"R", "G", "B", "A">>[3] = "B"
        OBVIOUS
      <4> QED BY <4>1, <4>2, <4>3
    <3> QED BY <3>2, Rgb8Eight
  <2>3. IsEight(Rgb8(<<"R", "G", "B", "X">>))
    <3>2. \A t \in {"R", "G", "B"} : \E i \in DOMAIN <<"R", "G", "B", "X">> : <<"R", "G", "B", "X">>[i] = t
      <4>1. <<"R", "G", "B", "X">>[1] = "R"
        OBVIOUS
      <4>2. <<"R", "G", "B", "X">>[2] = "G"
        OBVIOUS
      <4>3. <<"R", "G", "B", "X">>[3] = "B"
        OBVIOUS
      <4> QED BY <4>1, <4>2, <4>3
    <3> QED BY <3>2, Rgb8Eight
  <2>4. IsEight(Rgb8(<<"A", "R", "G", "B">>))
    <3>2. \A t \in {"R", "G", "B"} : \E i \in DOMAIN <<"A", "R", "G", "B">> : <<"A", "R", "G", "B">>[i] = t
      <4>1. <<"A", "R", "G", "B">>[2] = "R"
        OBVIOUS
      <4>2. <<"A", "R", "G", "B">>[3] = "G"
        OBVIOUS
      <4>3. <<"A", "R", "G", "B">>[4] = "B"
        OBVIOUS
      <4> QED BY <4>1, <4>2, <4>3
    <3> QED BY <3>2, Rgb8Eight
  <2> QED BY <2>1, <2>2, <2>3, <2>4
<1> HIDE DEF bytes
<1> QED BY <1>1, <1>2

LEMMA YuvKinds == \A f \in DOMAIN YuvFormats : Kind(YuvFormats[f])
<1>1. \A f \in DOMAIN YuvPackedFormats : IsEight(YuvPackedFormats[f])
  <2> DEFINE bytes == [YUY2 |-> <<"Y", "U", "Y2", "V">>,
                       YVYU |-> <<"Y", "V", "Y2", "U">>,
                       UYVY |-> <<"U", "Y", "V", "Y2">>,
                       VYUY |-> <<"V", "Y", "U", "Y2">>]
  <2>1. YuvPackedFormats = [f \in DOMAIN bytes |-> Yuv4(bytes[f])]
    BY DEF YuvPackedFormats
  <2> HIDE DEF bytes
  <2> QED BY <2>1, Yuv4Eight
<1>2. \A f \in DOMAIN YuvPlanarFormats : IsEight(YuvPlanarFormats[f])
  <2>1. /\ IsEight(Semi("U", "V", 1)) /\ IsEight(Semi("V", "U", 1))
        /\ IsEight(Semi("U", "V", 0)) /\ IsEight(Semi("V", "U", 0))
    BY SemiEight
  <2>2. /\ IsEight(Planar("U", "V", 2, 2, 2)) /\ IsEight(Planar("V", "U", 2, 2, 2))
        /\ IsEight(Planar("U", "V", 2, 0, 2)) /\ IsEight(Planar("U", "V", 1, 1, 4))
        /\ IsEight(Planar("V", "U", 1, 1, 4)) /\ IsEight(Planar("U", "V", 1, 0, 4))
    BY PlanarEight
  <2> QED BY <2>1, <2>2 DEF YuvPlanarFormats
<1>3. \A f \in DOMAIN YuvPackedFormats : Kind(YuvPackedFormats[f])
  BY <1>1 DEF Kind
<1>4. \A f \in DOMAIN YuvPlanarFormats : Kind(YuvPlanarFormats[f])
  BY <1>2 DEF Kind
<1> QED BY <1>3, <1>4, JoinedKinds DEF YuvFormats

(* Every pixel format is of one of the three kinds.                        *)
LEMMA AllKinds == \A f \in SupportedFormats : Kind(Specs[f])
<1>1. \A f \in DOMAIN RgbFormats : Kind(RgbFormats[f])
  <2> DEFINE bytes == Joined(Rgb24Formats, Rgb32Formats)
  <2>1. \A f \in DOMAIN bytes : Kind(bytes[f])
    <3>1. \A f \in DOMAIN Rgb24Formats : Kind(Rgb24Formats[f])
      BY Rgb24Kinds DEF Kind
    <3>2. \A f \in DOMAIN Rgb32Formats : Kind(Rgb32Formats[f])
      BY Rgb32Kinds DEF Kind
    <3> QED BY <3>1, <3>2, JoinedKinds
  <2> HIDE DEF bytes
  <2>2. \A f \in DOMAIN Rgb16Formats : Kind(Rgb16Formats[f])
    BY Rgb16Kinds
  <2> QED BY <2>1, <2>2, JoinedKinds DEF RgbFormats, bytes
<1>2. SupportedFormats = DOMAIN Joined(RgbFormats, YuvFormats)
  BY DEF SupportedFormats, Specs
<1> QED BY <1>1, <1>2, YuvKinds, JoinedKinds DEF Specs

(* ARGB32 is the format between the converters.                            *)
LEMMA Argb32Bytes ==
  /\ Specs["ARGB32"] = Rgb8(<<"A", "R", "G", "B">>)
  /\ "ARGB32" \in SupportedFormats
<1> DEFINE specs == Rgb8(<<"A", "R", "G", "B">>)
<1>1. "ARGB32" \in DOMAIN Rgb32Formats /\ Rgb32Formats["ARGB32"] = specs
  BY DEF Rgb32Formats
<1>2. "ARGB32" \notin DOMAIN Rgb24Formats
  BY DEF Rgb24Formats
<1>3. "ARGB32" \notin DOMAIN Rgb16Formats
  <2> DEFINE w1 == [RGB15 |-> 0, ARGB555 |-> 0, XRGB555 |-> 0, RGBA555 |-> 0,
                    RGBX555 |-> 0, ABGR555 |-> 0, XBGR555 |-> 0, BGRA555 |-> 0,
                    BGRX555 |-> 0, RGB16 |-> 0]
             w2 == [RGB555X |-> 0, ARGB555X |-> 0, XRGB555X |-> 0, RGB565X |-> 0]
  <2>1. PICK f, g : Rgb16Formats = Joined(f, g) /\ DOMAIN f = DOMAIN w1 /\ DOMAIN g = DOMAIN w2
    BY DEF Rgb16Formats
  <2>2. DOMAIN Rgb16Formats = DOMAIN w1 \cup DOMAIN w2
    <3>1. DOMAIN Joined(f, g) = DOMAIN f \cup DOMAIN g
      BY SameJoined
    <3> QED BY <2>1, <3>1
  <2> QED BY <2>2
<1>4. Specs["ARGB32"] = specs /\ "ARGB32" \in DOMAIN Specs
  <2> HIDE DEF specs
  <2> DEFINE j == Joined(Rgb24Formats, Rgb32Formats)
  <2>1. "ARGB32" \in DOMAIN j /\ j["ARGB32"] = specs
    BY <1>1, <1>2, JoinedSecond
  <2> HIDE DEF j
  <2>2. RgbFormats = Joined(Rgb16Formats, j)
    BY DEF RgbFormats, j
  <2>3. "ARGB32" \in DOMAIN RgbFormats /\ RgbFormats["ARGB32"] = specs
    BY <2>1, <2>2, <1>3, JoinedSecond
  <2>4. Specs = Joined(RgbFormats, YuvFormats)
    BY DEF Specs
  <2> QED BY <2>3, <2>4, JoinedFirst
<1> QED BY <1>4 DEF SupportedFormats

LEMMA Argb32 ==
  /\ IsEight(Specs["ARGB32"]) /\ Specs["ARGB32"].type = "RGB"
  /\ HasComponent(Specs["ARGB32"], "A")
<1> DEFINE bytes == <<"A", "R", "G", "B">>
           specs == Rgb8(bytes)
           k == {Component(bytes[i], Len(bytes), i - 1, 0, 8, 0, 0) :
                   i \in {j \in DOMAIN bytes : bytes[j] # "X"}}
<1>1. Specs["ARGB32"] = specs
  BY Argb32Bytes
<1>2. "ARGB32" \in DOMAIN Rgb32Formats /\ Rgb32Formats["ARGB32"] = specs
  BY DEF Rgb32Formats
<1>3. IsEight(specs)
  BY <1>2, Rgb32Kinds
<1>4. specs.planes = <<Plane(k, 8 * Len(bytes))>> /\ specs.type = "RGB"
  BY DEF Rgb8
<1>5. \E c \in k : c.type = "A"
  <2>1. 1 \in {j \in DOMAIN bytes : bytes[j] # "X"}
    OBVIOUS
  <2>2. Component(bytes[1], Len(bytes), 1 - 1, 0, 8, 0, 0).type = "A"
    BY DEF Component
  <2> QED BY <2>1, <2>2
<1> HIDE DEF specs, k
<1>6. DOMAIN specs.planes = 1 .. 1 /\ specs.planes[1].components = k
  BY <1>4 DEF Plane
<1>7. HasComponent(specs, "A")
  <2>1. 1 \in DOMAIN specs.planes /\ Holds(specs, "A", 1)
    BY <1>5, <1>6 DEF Holds
  <2>2. PlaneOf(specs, "A") \in DOMAIN specs.planes
    BY <2>1, ComponentFound
  <2> QED BY <2>2, <1>6 DEF HasComponent
<1> QED BY <1>1, <1>3, <1>4, <1>7


(***************************************************************************)
(* The pixels a conversion writes.                                         *)
(***************************************************************************)
Image(p, scaling, src) ==
  [q \in Columns(p.scale) \X Lines(p.scale) |-> Pixel(p, scaling, src, q[1], q[2])]

(* The components that are written depend on the two pixel formats only.   *)
Shape(p) ==
  IF p.fast THEN 1 .. 3
  ELSE IF ~p.alphaOut THEN 1 .. 3
  ELSE IF p.type = "VECTOR" \/ ~p.alphaIn THEN 1 .. 4
  ELSE {}

LEMMA ThreeComponents ==
  ASSUME NEW p, NEW src, NEW x, NEW y
  PROVE  /\ DOMAIN Convert3to3(p, src, x, y) = 1 .. 3
         /\ DOMAIN Convert3Ato3(p, src, x, y) = 1 .. 3
         /\ DOMAIN ConvertV3to3(p, src, x, y) = 1 .. 3
         /\ DOMAIN ConvertV3Ato3(p, src, x, y) = 1 .. 3
         /\ DOMAIN ConvertDL3to3(p, src, x, y) = 1 .. 3
         /\ DOMAIN ConvertDL3Ato3(p, src, x, y) = 1 .. 3
         /\ DOMAIN ConvertDLV3to3(p, src, x, y) = 1 .. 3
         /\ DOMAIN ConvertDLV3Ato3(p, src, x, y) = 1 .. 3
         /\ DOMAIN ConvertUL3to3(p, src, x, y) = 1 .. 3
         /\ DOMAIN ConvertUL3Ato3(p, src, x, y) = 1 .. 3
         /\ DOMAIN ConvertULV3to3(p, src, x, y) = 1 .. 3
         /\ DOMAIN ConvertULV3Ato3(p, src, x, y) = 1 .. 3
<1>1. \A m, v : DOMAIN Write3(p, ApplyMatrix(m, v)) = 1 .. 3
  BY DEF Write3, ApplyMatrix
<1>2. \A m, v : DOMAIN Write3(p, ApplyVector(m, v)) = 1 .. 3
  BY DEF Write3, ApplyVector
<1>3. \A m, v, a : DOMAIN Write3(p, ApplyAlpha(m, v, a)) = 1 .. 3
  BY DEF Write3, ApplyAlpha
<1>4. /\ DOMAIN Convert3to3(p, src, x, y) = 1 .. 3
      /\ DOMAIN ConvertDL3to3(p, src, x, y) = 1 .. 3
      /\ DOMAIN ConvertUL3to3(p, src, x, y) = 1 .. 3
  BY <1>1 DEF Convert3to3, ConvertDL3to3, ConvertUL3to3
<1>5. /\ DOMAIN ConvertV3to3(p, src, x, y) = 1 .. 3
      /\ DOMAIN ConvertDLV3to3(p, src, x, y) = 1 .. 3
      /\ DOMAIN ConvertULV3to3(p, src, x, y) = 1 .. 3
  BY <1>2 DEF ConvertV3to3, ConvertDLV3to3, ConvertULV3to3
<1>6. /\ DOMAIN Convert3Ato3(p, src, x, y) = 1 .. 3
      /\ DOMAIN ConvertDL3Ato3(p, src, x, y) = 1 .. 3
      /\ DOMAIN ConvertUL3Ato3(p, src, x, y) = 1 .. 3
      /\ DOMAIN ConvertV3Ato3(p, src, x, y) = 1 .. 3
      /\ DOMAIN ConvertDLV3Ato3(p, src, x, y) = 1 .. 3
      /\ DOMAIN ConvertULV3Ato3(p, src, x, y) = 1 .. 3
  BY <1>3 DEF Convert3Ato3, ConvertDL3Ato3, ConvertUL3Ato3, ConvertV3Ato3, ConvertDLV3Ato3,
     ConvertULV3Ato3
<1> QED BY <1>4, <1>5, <1>6

LEMMA FourComponents ==
  ASSUME NEW p, NEW src, NEW x, NEW y
  PROVE  /\ DOMAIN Convert3to3A(p, src, x, y) = 1 .. 4
         /\ DOMAIN ConvertV3to3A(p, src, x, y) = 1 .. 4
         /\ DOMAIN ConvertV3Ato3A(p, src, x, y) = 1 .. 4
         /\ DOMAIN ConvertDL3to3A(p, src, x, y) = 1 .. 4
         /\ DOMAIN ConvertDLV3to3A(p, src, x, y) = 1 .. 4
         /\ DOMAIN ConvertDLV3Ato3A(p, src, x, y) = 1 .. 4
         /\ DOMAIN ConvertUL3to3A(p, src, x, y) = 1 .. 4
         /\ DOMAIN ConvertULV3to3A(p, src, x, y) = 1 .. 4
         /\ DOMAIN ConvertULV3Ato3A(p, src, x, y) = 1 .. 4
<1>1. \A v : DOMAIN Write3A(p, v) = 1 .. 4
  BY DEF Write3A
<1>2. \A v, a : DOMAIN Write3AAo(p, v, a) = 1 .. 4
  BY DEF Write3AAo
<1>3. /\ DOMAIN Convert3to3A(p, src, x, y) = 1 .. 4
      /\ DOMAIN ConvertV3to3A(p, src, x, y) = 1 .. 4
      /\ DOMAIN ConvertDL3to3A(p, src, x, y) = 1 .. 4
      /\ DOMAIN ConvertDLV3to3A(p, src, x, y) = 1 .. 4
      /\ DOMAIN ConvertUL3to3A(p, src, x, y) = 1 .. 4
      /\ DOMAIN ConvertULV3to3A(p, src, x, y) = 1 .. 4
  BY <1>1 DEF Convert3to3A, ConvertV3to3A, ConvertDL3to3A, ConvertDLV3to3A, ConvertUL3to3A,
     ConvertULV3to3A
<1>4. /\ DOMAIN ConvertV3Ato3A(p, src, x, y) = 1 .. 4
      /\ DOMAIN ConvertDLV3Ato3A(p, src, x, y) = 1 .. 4
      /\ DOMAIN ConvertULV3Ato3A(p, src, x, y) = 1 .. 4
  BY <1>2 DEF ConvertV3Ato3A, ConvertDLV3Ato3A, ConvertULV3Ato3A
<1> QED BY <1>3, <1>4

LEMMA FastComponents ==
  ASSUME NEW p, NEW scaling, NEW src, NEW x, NEW y
  PROVE  DOMAIN ConvertFast8Bits(p, scaling, src, x, y) = 1 .. 3
<1>1. /\ DOMAIN FastV3to3(p, src, x, y) = 1 .. 3
      /\ DOMAIN FastDL3to3(p, src, x, y) = 1 .. 3
      /\ DOMAIN FastDLV3to3(p, src, x, y) = 1 .. 3
  BY DEF FastV3to3, FastDL3to3, FastDLV3to3, Read3, ApplyMatrix, ApplyVector
<1>2. ConvertFast8Bits(p, scaling, src, x, y) \in
        {ConvertULV3to3(p, src, x, y), ConvertUL3to3(p, src, x, y),
         FastDLV3to3(p, src, x, y), FastDL3to3(p, src, x, y), FastV3to3(p, src, x, y),
         Convert3to3(p, src, x, y)}
  BY DEF ConvertFast8Bits
<1> QED BY <1>1, <1>2, ThreeComponents

LEMMA Chosen ==
  ASSUME NEW p, p.alphaIn \in BOOLEAN, p.alphaOut \in BOOLEAN, NEW none, NEW to, NEW from,
         NEW both
  PROVE  ByAlpha(p, none, to, from, both) =
           IF p.alphaOut THEN IF p.alphaIn THEN both ELSE to
           ELSE IF p.alphaIn THEN from ELSE none
BY DEF ByAlpha

AreFlags(p) == p.alphaIn \in BOOLEAN /\ p.alphaOut \in BOOLEAN /\ p.fast \in BOOLEAN

LEMMA TemplateComponents ==
  ASSUME NEW p, AreFlags(p), ~p.fast, NEW scaling, NEW src, NEW x, NEW y
  PROVE  DOMAIN ConvertTemplate(p, scaling, src, x, y) = Shape(p)
<1> USE DEF AreFlags
<1> DEFINE vector == p.type = "VECTOR"
<1>1. CASE vector
  <2>1. ConvertTemplate(p, scaling, src, x, y) \in
          {FuncULV3to3(p, src, x, y), FuncDLV3to3(p, src, x, y), FuncV3to3(p, src, x, y)}
    BY <1>1 DEF ConvertTemplate
  <2>2. /\ DOMAIN FuncULV3to3(p, src, x, y) = Shape(p)
        /\ DOMAIN FuncDLV3to3(p, src, x, y) = Shape(p)
        /\ DOMAIN FuncV3to3(p, src, x, y) = Shape(p)
    BY <1>1, Chosen, ThreeComponents, FourComponents
       DEF FuncULV3to3, FuncDLV3to3, FuncV3to3, Shape
  <2> QED BY <2>1, <2>2
<1>2. CASE ~vector
  <2>1. ConvertTemplate(p, scaling, src, x, y) \in
          {FuncUL3to3(p, src, x, y), FuncDL3to3(p, src, x, y), Func3to3(p, src, x, y)}
    BY <1>2 DEF ConvertTemplate
  <2>2. DOMAIN << >> = {}
    OBVIOUS
  <2>3. /\ DOMAIN FuncUL3to3(p, src, x, y) = Shape(p)
        /\ DOMAIN FuncDL3to3(p, src, x, y) = Shape(p)
        /\ DOMAIN Func3to3(p, src, x, y) = Shape(p)
    BY <1>2, <2>2, Chosen, ThreeComponents, FourComponents
       DEF FuncUL3to3, FuncDL3to3, Func3to3, Shape
  <2> QED BY <2>1, <2>3
<1> QED BY <1>1, <1>2

LEMMA ImageShape ==
  ASSUME NEW p, AreFlags(p), NEW scaling, NEW src
  PROVE  \A q \in Columns(p.scale) \X Lines(p.scale) :
           DOMAIN Image(p, scaling, src)[q] = Shape(p)
<1>1. ASSUME NEW x \in Columns(p.scale), NEW y \in Lines(p.scale)
      PROVE  DOMAIN Pixel(p, scaling, src, x, y) = Shape(p)
  <2>1. CASE p.fast
    BY <2>1, FastComponents DEF Pixel, Shape
  <2>2. CASE ~p.fast
    <3>1. Pixel(p, scaling, src, x, y) = ConvertTemplate(p, scaling, src, x, y)
      BY <2>2 DEF Pixel
    <3>3. DOMAIN ConvertTemplate(p, scaling, src, x, y) = Shape(p)
      BY <2>2, TemplateComponents
    <3> QED BY <3>1, <3>3
  <2> QED BY <2>1, <2>2
<1>2. ASSUME NEW x \in Columns(p.scale), NEW y \in Lines(p.scale)
      PROVE  Image(p, scaling, src)[<<x, y>>] = Pixel(p, scaling, src, x, y)
  BY DEF Image
<1> QED BY <1>1, <1>2

(* A format without alpha made of one with alpha is bounded.               *)
LEMMA BoundedRed ==
  ASSUME NEW p, p.alphaIn = TRUE, p.alphaOut = FALSE, p.fast = FALSE, p.type = "VECTOR",
         p.matrix.colour.low[1] = 0, p.matrix.colour.high[1] = 15,
         NEW scaling, NEW src
  PROVE  \A q \in Columns(p.scale) \X Lines(p.scale) :
           Image(p, scaling, src)[q][1] \in 0 .. 15
<1>1. \A v, a : Write3(p, ApplyAlpha(p.matrix, v, a))[1] \in 0 .. 15
  <2> TAKE v, a
  <2>1. PICK n : Write3(p, ApplyAlpha(p.matrix, v, a))[1] = Bound(0, n, 15)
    BY DEF Write3, ApplyAlpha
  <2> QED BY <2>1 DEF Bound
<1>2. ASSUME NEW x \in Columns(p.scale), NEW y \in Lines(p.scale)
      PROVE  Pixel(p, scaling, src, x, y)[1] \in 0 .. 15
  <2>1. Pixel(p, scaling, src, x, y) = ConvertTemplate(p, scaling, src, x, y)
    BY DEF Pixel
  <2>2. ConvertTemplate(p, scaling, src, x, y) \in
          {FuncULV3to3(p, src, x, y), FuncDLV3to3(p, src, x, y), FuncV3to3(p, src, x, y)}
    BY DEF ConvertTemplate
  <2>3. /\ FuncULV3to3(p, src, x, y) = ConvertULV3Ato3(p, src, x, y)
        /\ FuncDLV3to3(p, src, x, y) = ConvertDLV3Ato3(p, src, x, y)
        /\ FuncV3to3(p, src, x, y) = ConvertV3Ato3(p, src, x, y)
    <3>1. p.alphaIn \in BOOLEAN /\ p.alphaOut \in BOOLEAN
      OBVIOUS
    <3>2. \A none, to, from, both : ByAlpha(p, none, to, from, both) = from
      BY <3>1, Chosen
    <3> QED BY <3>2 DEF FuncULV3to3, FuncDLV3to3, FuncV3to3
  <2>4. /\ ConvertULV3Ato3(p, src, x, y)[1] \in 0 .. 15
        /\ ConvertDLV3Ato3(p, src, x, y)[1] \in 0 .. 15
        /\ ConvertV3Ato3(p, src, x, y)[1] \in 0 .. 15
    BY <1>1 DEF ConvertULV3Ato3, ConvertDLV3Ato3, ConvertV3Ato3
  <2> QED BY <2>1, <2>2, <2>3, <2>4
<1>3. ASSUME NEW x \in Columns(p.scale), NEW y \in Lines(p.scale)
      PROVE  Image(p, scaling, src)[<<x, y>>] = Pixel(p, scaling, src, x, y)
  BY DEF Image
<1> QED BY <1>2, <1>3


(***************************************************************************)
(* A frame painted over another one made with the same converter.          *)
(***************************************************************************)
LEMMA ComponentsNumbered ==
  ASSUME NEW specs
  PROVE  DOMAIN Components(specs) = IF HasComponent(specs, "A") THEN 1 .. 4 ELSE 1 .. 3
<1> DEFINE main == MainComponents(specs)
           types == IF HasComponent(specs, "A") THEN Append(main, "A") ELSE main
<1>1. main = <<"R", "G", "B">> \/ main = <<"Y", "U", "V">>
  BY DEF MainComponents
<1>2. DOMAIN types = IF HasComponent(specs, "A") THEN 1 .. 4 ELSE 1 .. 3
  <2> HIDE DEF main
  <2>1. DOMAIN <<"R", "G", "B">> = 1 .. 3 /\ DOMAIN <<"Y", "U", "V">> = 1 .. 3
    OBVIOUS
  <2>2. /\ DOMAIN Append(<<"R", "G", "B">>, "A") = 1 .. 4
        /\ DOMAIN Append(<<"Y", "U", "V">>, "A") = 1 .. 4
    OBVIOUS
  <2>3. DOMAIN main = 1 .. 3 /\ DOMAIN Append(main, "A") = 1 .. 4
    BY <1>1, <2>1, <2>2
  <2> QED BY <2>3
<1>3. DOMAIN Components(specs) = DOMAIN types
  BY DEF Components
<1> QED BY <1>2, <1>3

LEMMA EightSettles ==
  ASSUME NEW out_, \A i \in DOMAIN out_ : IsWhole(out_[i].component),
         NEW b, NEW places, NEW pixels
  PROVE  Settled(Acts(b, out_, places, pixels), PutComponents(out_),
                 PutValues(b, places, pixels))
<1> DEFINE act == Acts(b, out_, places, pixels)
           c == PutComponents(out_)
           v == PutValues(b, places, pixels)
<1>1. ASSUME NEW i \in 1 .. 4, act[i], NEW j \in 0 .. 7 PROVE Covers(c[i], j)
  <2>1. i \in DOMAIN out_ /\ c[i] = out_[i].component
    BY <1>1 DEF Acts, PutComponents
  <2>2. c[i].shift = 0 /\ c[i].depth = 8
    BY <2>1 DEF IsWhole
  <2> HIDE DEF c
  <2> QED BY <2>2 DEF Covers
<1> HIDE DEF act, c, v
<1>2. Settled(act, c, v)
  BY <1>1 DEF Settled
<1> QED BY <1>2 DEF act, c, v

(* Components that are all at the same place, and written all or not.      *)
InOnePlace(out_, places, pixels, b, K, P) ==
  /\ \A i \in DOMAIN out_ : places[i] = P
  /\ \A q \in Writers(P, b) : DOMAIN pixels[q] = K
  /\ DOMAIN out_ \subseteq K \/ K = {}

LEMMA WordsAct ==
  ASSUME NEW out_, NEW places, NEW pixels, NEW b, NEW K, NEW P,
         InOnePlace(out_, places, pixels, b, K, P),
         NEW i \in 1 .. 4
  PROVE  /\ Acts(b, out_, places, pixels)[i]
              <=> i \in DOMAIN out_ /\ K # {} /\ Writers(P, b) # {}
         /\ Acts(b, out_, places, pixels)[i] =>
              \E q \in Writers(P, b) : PutValues(b, places, pixels)[i] = pixels[q][i]
<1>1. i \in DOMAIN out_ =>
        WrittenTo(b, places, pixels, i) = IF K # {} THEN Writers(P, b) ELSE {}
  BY DEF WrittenTo, InOnePlace
<1>2. Acts(b, out_, places, pixels)[i]
        <=> i \in DOMAIN out_ /\ WrittenTo(b, places, pixels, i) # {}
  BY DEF Acts
<1>3. PutValues(b, places, pixels)[i]
        = pixels[CHOOSE q \in WrittenTo(b, places, pixels, i) : TRUE][i]
  BY DEF PutValues
<1> QED BY <1>1, <1>2, <1>3

LEMMA WordsSettle ==
  ASSUME NEW specs, AreWords(specs), NEW places, NEW pixels, NEW b, NEW K, NEW P,
         InOnePlace(Components(specs), places, pixels, b, K, P)
  PROVE  Settled(Acts(b, Components(specs), places, pixels),
                 PutComponents(Components(specs)), PutValues(b, places, pixels))
<1> DEFINE out_ == Components(specs)
           act == Acts(b, out_, places, pixels)
           c == PutComponents(out_)
           v == PutValues(b, places, pixels)
           on == K # {} /\ Writers(P, b) # {}
<1>1. \A i \in 1 .. 4 : act[i] <=> i \in DOMAIN out_ /\ on
  BY WordsAct
<1>2. \A i \in 1 .. 4 : c[i] = out_[i].component
  BY DEF PutComponents
<1>3. DOMAIN out_ \subseteq 1 .. 4
  BY ComponentsNumbered
<1>4. \A j \in 0 .. 7 : \/ \E i \in DOMAIN out_ : Covers(out_[i].component, j)
                        \/ \A i \in DOMAIN out_ : ~(j >= out_[i].component.shift)
  BY DEF AreWords
<1> HIDE DEF out_, act, c, v, on
<1>5. Settled(act, c, v)
  <2> SUFFICES ASSUME NEW j \in 0 .. 7
               PROVE  \/ \E i \in 1 .. 4 : act[i] /\ Covers(c[i], j)
                      \/ \A i \in 1 .. 4 : act[i] => ~Adds(c[i], v[i], j)
    BY DEF Settled
  <2>1. CASE ~on
    BY <1>1, <2>1
  <2>2. CASE on /\ \E i \in DOMAIN out_ : Covers(out_[i].component, j)
    BY <1>1, <1>2, <1>3, <2>2
  <2>3. CASE on /\ \A i \in DOMAIN out_ : ~(j >= out_[i].component.shift)
    BY <1>1, <1>2, <2>3 DEF Adds
  <2> QED BY <1>4, <2>1, <2>2, <2>3
<1> QED BY <1>5 DEF out_, act, c, v

LEMMA BgrxSettles ==
  ASSUME NEW specs, IsBgrx(specs), NEW places, NEW pixels, NEW b, NEW K, NEW P,
         InOnePlace(Components(specs), places, pixels, b, K, P),
         \A q \in Writers(P, b) : pixels[q][1] \in 0 .. 15
  PROVE  Settled(Acts(b, Components(specs), places, pixels),
                 PutComponents(Components(specs)), PutValues(b, places, pixels))
<1> DEFINE out_ == Components(specs)
           act == Acts(b, out_, places, pixels)
           c == PutComponents(out_)
           v == PutValues(b, places, pixels)
           on == K # {} /\ Writers(P, b) # {}
<1>1. \A i \in 1 .. 4 : act[i] <=> i \in DOMAIN out_ /\ on
  BY WordsAct
<1>2. act[1] => v[1] \in 0 .. 15
  <2>1. 1 \in 1 .. 4
    OBVIOUS
  <2>2. act[1] => \E q \in Writers(P, b) : v[1] = pixels[q][1]
    BY <2>1, WordsAct
  <2> HIDE DEF act, v
  <2> QED BY <2>2
<1>3. DOMAIN out_ = 1 .. 3
  BY DEF IsBgrx
<1>4. /\ c[1].shift = 1 /\ c[1].depth = 4
      /\ c[2].shift = 6 /\ c[2].depth = 4
      /\ c[3].shift = 11 /\ c[3].depth = 4
  <2>1. /\ c[1] = Word("R", 1, 4).component
        /\ c[2] = Word("G", 6, 4).component
        /\ c[3] = Word("B", 11, 4).component
    BY DEF PutComponents, IsBgrx
  <2> HIDE DEF c
  <2> QED BY <2>1, WordFacts
<1> HIDE DEF out_, act, c, v, on
<1>5. act[1] => ~Adds(c[1], v[1], 5)
  <2> SUFFICES ASSUME act[1] PROVE ~Bit(v[1], 4)
    BY <1>4 DEF Adds
  <2>1. 2 ^ 4 = 16
    OBVIOUS
  <2>2. v[1] \in 0 .. 15
    BY <1>2
  <2>3. v[1] \div 16 = 0
    BY <2>2
  <2> QED BY <2>1, <2>3 DEF Bit
<1>6. Settled(act, c, v)
  <2> SUFFICES ASSUME NEW j \in 0 .. 7
               PROVE  \/ \E i \in 1 .. 4 : act[i] /\ Covers(c[i], j)
                      \/ \A i \in 1 .. 4 : act[i] => ~Adds(c[i], v[i], j)
    BY DEF Settled
  <2>1. CASE ~on
    BY <1>1, <2>1
  <2>2. CASE on
    <3>1. act[1] /\ act[2] /\ act[3] /\ ~act[4]
      BY <1>1, <1>3, <2>2
    <3>2. CASE j \in 1 .. 4
      <4>1. Covers(c[1], j)
        BY <1>4, <3>2 DEF Covers
      <4> QED BY <3>1, <4>1
    <3>3. CASE j \in 6 .. 7
      <4>1. Covers(c[2], j)
        BY <1>4, <3>3 DEF Covers
      <4> QED BY <3>1, <4>1
    <3>4. CASE j = 0
      <4>1. ~Adds(c[1], v[1], j) /\ ~Adds(c[2], v[2], j) /\ ~Adds(c[3], v[3], j)
        BY <1>4, <3>4 DEF Adds
      <4> QED BY <3>1, <4>1
    <3>5. CASE j = 5
      <4>1. ~Adds(c[1], v[1], j) /\ ~Adds(c[2], v[2], j) /\ ~Adds(c[3], v[3], j)
        <5>1. ~Adds(c[2], v[2], 5) /\ ~Adds(c[3], v[3], 5)
          BY <1>4 DEF Adds
        <5> QED BY <1>5, <3>1, <3>5, <5>1
      <4> QED BY <3>1, <4>1
    <3> QED BY <3>2, <3>3, <3>4, <3>5
  <2> QED BY <2>1, <2>2
<1> QED BY <1>6 DEF out_, act, c, v


LEMMA ScaleBounded ==
  ASSUME NEW source, NEW target, NEW aspect, IsSize(source), IsSize(target)
  PROVE  AreBounded(ConfigureScaling(source, target, aspect))
<1> DEFINE picture == PictureSize(source, target, aspect)
           width == IF aspect = "Keep" THEN picture[1] ELSE target.width
           height == IF aspect = "Keep" THEN picture[2] ELSE target.height
           s == ConfigureScaling(source, target, aspect)
<1>1. picture[1] \in Nat /\ picture[2] \in Nat /\ width \in Nat /\ height \in Nat
  BY PictureFits DEF IsSize
<1>2. /\ s.xmin = (width - picture[1]) \div 2 /\ s.xmax = (width + picture[1]) \div 2
      /\ s.ymin = (height - picture[2]) \div 2 /\ s.ymax = (height + picture[2]) \div 2
  BY DEF ConfigureScaling, Scaled, Format, WithParams
<1> HIDE DEF picture, width, height, s
<1>3. AreBounded(s)
  BY <1>1, <1>2 DEF AreBounded
<1> QED BY <1>3 DEF s

(* What a converter is asked to do: from one size to another, in formats   *)
(* of the table, with the one that has gaps only made of ARGB32.           *)
AreConvertible(source, target) ==
  /\ IsSize(source) /\ IsSize(target)
  /\ Kind(target.specs)
  /\ IsBgrx(target.specs) => source.specs = Specs["ARGB32"]

PlacesOf(p) == Table([i \in DOMAIN p.out |-> Placed(p.scale, p.out[i])])

LEMMA ParameterFacts ==
  ASSUME NEW source, NEW target, NEW aspect
  PROVE  LET p == Parameters(source, target, aspect) IN
         /\ AreFlags(p)
         /\ p.scale = ConfigureScaling(source, target, aspect)
         /\ p.out = Components(target.specs)
         /\ p.alphaIn = HasComponent(source.specs, "A")
         /\ p.alphaOut = HasComponent(target.specs, "A")
         /\ p.fast = (IsFast(source.specs) /\ IsFast(target.specs))
         /\ p.type = IF source.specs.type = target.specs.type THEN "VECTOR" ELSE "3TO3"
         /\ p.matrix = LoadMatrix(source.specs, target.specs)
         /\ DOMAIN PlacesOf(p) = DOMAIN p.out
         /\ \A i \in DOMAIN p.out : PlacesOf(p)[i] = Placed(p.scale, p.out[i])
<1> DEFINE p == Parameters(source, target, aspect)
<1>1. /\ p.scale = ConfigureScaling(source, target, aspect)
      /\ p.out = Components(target.specs)
      /\ p.alphaIn = HasComponent(source.specs, "A")
      /\ p.alphaOut = HasComponent(target.specs, "A")
      /\ p.fast = (IsFast(source.specs) /\ IsFast(target.specs))
      /\ p.type = IF source.specs.type = target.specs.type THEN "VECTOR" ELSE "3TO3"
      /\ p.matrix = LoadMatrix(source.specs, target.specs)
  BY DEF Parameters, Configure
<1> HIDE DEF p
<1>2. AreFlags(p)
  <2>1. HasComponent(source.specs, "A") \in BOOLEAN /\ HasComponent(target.specs, "A") \in BOOLEAN
    BY DEF HasComponent
  <2> QED BY <1>1, <2>1 DEF AreFlags
<1>3. PlacesOf(p) = [i \in DOMAIN p.out |-> Placed(p.scale, p.out[i])]
  BY SameTable DEF PlacesOf
<1>4. DOMAIN PlacesOf(p) = DOMAIN p.out /\ \A i \in DOMAIN p.out : PlacesOf(p)[i] = Placed(p.scale, p.out[i])
  BY <1>3
<1> QED BY <1>1, <1>2, <1>4 DEF p

(* The components of a 16 bit word are written to one byte.                *)
LEMMA WordsInOnePlace ==
  ASSUME NEW s, NEW c, NEW d,
         c.plane = d.plane, c.component.widthDiv = d.component.widthDiv,
         c.component.step = d.component.step, c.component.offset = d.component.offset
  PROVE  Placed(s, c) = Placed(s, d)
<1>1. \A y : Line(s.format, c.plane, y) = Line(s.format, d.plane, y)
  OBVIOUS
<1>2. \A x : InLine(c.component, x) = InLine(d.component, x)
  BY DEF InLine
<1> QED BY <1>1, <1>2 DEF Placed

BytesTogether(specs) == AreWords(specs) \/ IsBgrx(specs)

LEMMA WordPlaces ==
  ASSUME NEW specs, BytesTogether(specs), NEW s, NEW i \in DOMAIN Components(specs)
  PROVE  Placed(s, Components(specs)[i]) = Placed(s, Components(specs)[1])
<1> DEFINE c == Components(specs)
<1>1. 1 \in DOMAIN c
  BY ComponentsNumbered
<1>2. \A k \in DOMAIN c :
       /\ c[k].plane = 1 /\ c[k].component.step = 2
       /\ c[k].component.offset = 0 /\ c[k].component.widthDiv = 0
  <2>1. CASE AreWords(specs)
    BY <2>1 DEF AreWords
  <2>2. CASE IsBgrx(specs)
    <3>1. DOMAIN c = 1 .. 3 /\ c[1] = Word("R", 1, 4) /\ c[2] = Word("G", 6, 4)
          /\ c[3] = Word("B", 11, 4)
      BY <2>2 DEF IsBgrx
    <3> HIDE DEF c
    <3> QED BY <3>1, WordFacts
  <2> QED BY <2>1, <2>2 DEF BytesTogether
<1> HIDE DEF c
<1>3. Placed(s, c[i]) = Placed(s, c[1])
  <2>1. i \in DOMAIN c
    BY DEF c
  <2> QED BY <1>1, <1>2, <2>1, WordsInOnePlace
<1> QED BY <1>3 DEF c

(* The largest value of red in the format with gaps.                       *)
LEMMA BgrxRed ==
  ASSUME NEW specs, IsBgrx(specs), NEW from, from.type = "RGB"
  PROVE  LET c == LoadMatrix(from, specs).colour IN c.low[1] = 0 /\ c.high[1] = 15
<1>1. Depths(specs)[1] = 4
  <2>1. MainComponents(specs) = <<"R", "G", "B">>
    BY DEF IsBgrx, MainComponents
  <2>2. Components(specs)[1] = Located(specs, "R")
    <3>1. Components(specs) = [i \in DOMAIN <<"R", "G", "B">> |->
                                 Located(specs, <<"R", "G", "B">>[i])]
      BY <2>1 DEF Components, IsBgrx
    <3> QED BY <3>1
  <2>3. Components(specs)[1].component.depth = 4
    <3>1. Components(specs)[1] = Word("R", 1, 4)
      BY DEF IsBgrx
    <3> QED BY <3>1, WordFacts
  <2>4. ComponentOf(specs, "R").depth = 4
    BY <2>2, <2>3 DEF Located
  <2>5. Depths(specs)[1] = ComponentOf(specs, MainComponents(specs)[1]).depth
    BY DEF Depths
  <2> QED BY <2>1, <2>4, <2>5
<1>2. LoadMatrix(from, specs).colour = AbcToXyz(Depths(from), Depths(specs))
  BY DEF LoadMatrix, ColorMatrix, IsBgrx
<1> DEFINE d == Depths(specs)
           m == AbcToXyz(Depths(from), d)
<1>3. m.low[1] = 0 /\ m.high[1] = 2 ^ d[1] - 1
  <2> HIDE DEF d
  <2>1. m.low = <<0, 0, 0>> /\ m.high = [i \in 1 .. 3 |-> 2 ^ d[i] - 1]
    BY DEF AbcToXyz
  <2> HIDE DEF m
  <2> QED BY <2>1
<1>4. 2 ^ 4 = 16
  OBVIOUS
<1> HIDE DEF m
<1>5. m.low[1] = 0 /\ m.high[1] = 15
  BY <1>1, <1>3, <1>4
<1> QED BY <1>2, <1>5 DEF m


LEMMA ConvertSettles ==
  ASSUME NEW source, NEW target, AreConvertible(source, target), NEW aspect,
         NEW scaling, NEW src, NEW b
  PROVE  LET p == Parameters(source, target, aspect)
             image == Image(p, scaling, src) IN
         Settled(Acts(b, p.out, PlacesOf(p), image), PutComponents(p.out),
                 PutValues(b, PlacesOf(p), image))
<1> DEFINE p == Parameters(source, target, aspect)
           image == Image(p, scaling, src)
           specs == target.specs
           P == PlacesOf(p)[1]
<1>1. /\ AreFlags(p)
      /\ p.scale = ConfigureScaling(source, target, aspect)
      /\ p.out = Components(specs)
      /\ p.alphaIn = HasComponent(source.specs, "A")
      /\ p.alphaOut = HasComponent(specs, "A")
      /\ p.fast = (IsFast(source.specs) /\ IsFast(specs))
      /\ p.type = IF source.specs.type = specs.type THEN "VECTOR" ELSE "3TO3"
      /\ p.matrix = LoadMatrix(source.specs, specs)
      /\ \A i \in DOMAIN p.out : PlacesOf(p)[i] = Placed(p.scale, p.out[i])
  BY ParameterFacts
<1>2. AreBounded(p.scale)
  BY <1>1, ScaleBounded DEF AreConvertible
<1> HIDE DEF p
<1>3. \A q \in Columns(p.scale) \X Lines(p.scale) : DOMAIN image[q] = Shape(p)
  BY <1>1, ImageShape
<1> HIDE DEF image
<1>4. CASE IsEight(specs)
  <2>1. \A i \in DOMAIN p.out : IsWhole(p.out[i].component)
    BY <1>1, <1>4, EightComponents
  <2> QED BY <2>1, EightSettles DEF p, image
<1>5. ASSUME BytesTogether(specs)
      PROVE  /\ InOnePlace(p.out, PlacesOf(p), image, b, Shape(p), P)
             /\ Writers(P, b) \subseteq Columns(p.scale) \X Lines(p.scale)
             /\ ~p.fast
  <2>1. 1 \in DOMAIN p.out
    BY <1>1, ComponentsNumbered
  <2>2. P = Placed(p.scale, p.out[1])
    BY <1>1, <2>1
  <2>3. Writers(P, b) \subseteq Columns(p.scale) \X Lines(p.scale)
    BY <1>2, <2>2, WritersInside
  <2>4. \A i \in DOMAIN p.out : PlacesOf(p)[i] = P
    BY <1>1, <1>5, <2>2, WordPlaces
  <2>5. ~p.fast
    BY <1>1, <1>5 DEF BytesTogether, AreWords, IsBgrx
  <2>6. DOMAIN p.out = IF p.alphaOut THEN 1 .. 4 ELSE 1 .. 3
    BY <1>1, ComponentsNumbered
  <2>7. DOMAIN p.out \subseteq Shape(p) \/ Shape(p) = {}
    <3> HIDE DEF P
    <3> QED BY <2>5, <2>6 DEF Shape
  <2> HIDE DEF P
  <2>8. \A q \in Writers(P, b) : DOMAIN image[q] = Shape(p)
    BY <1>3, <2>3
  <2> QED BY <2>3, <2>4, <2>5, <2>7, <2>8 DEF InOnePlace
<1>6. CASE AreWords(specs)
  <2>1. InOnePlace(Components(specs), PlacesOf(p), image, b, Shape(p), P)
    BY <1>1, <1>5, <1>6 DEF BytesTogether
  <2> HIDE DEF P
  <2>2. Settled(Acts(b, Components(specs), PlacesOf(p), image),
                PutComponents(Components(specs)), PutValues(b, PlacesOf(p), image))
    BY <1>6, <2>1, WordsSettle
  <2> QED BY <1>1, <2>2 DEF p, image
<1>7. CASE IsBgrx(specs)
  <2>1. /\ InOnePlace(Components(specs), PlacesOf(p), image, b, Shape(p), P)
        /\ Writers(P, b) \subseteq Columns(p.scale) \X Lines(p.scale)
        /\ ~p.fast
    BY <1>1, <1>5, <1>7 DEF BytesTogether
  <2>2. source.specs = Specs["ARGB32"]
    BY <1>7 DEF AreConvertible
  <2>3. specs.type = "RGB" /\ ~HasComponent(specs, "A")
    BY <1>7 DEF IsBgrx
  <2>4. /\ p.alphaIn = TRUE /\ p.alphaOut = FALSE /\ p.fast = FALSE /\ p.type = "VECTOR"
    <3>1. p.alphaIn = TRUE
      BY <1>1, <2>2, Argb32 DEF AreFlags
    <3>2. p.alphaOut = FALSE
      BY <1>1, <2>3 DEF AreFlags
    <3>3. p.fast = FALSE
      BY <1>1, <2>1 DEF AreFlags
    <3>4. p.type = "VECTOR"
      BY <1>1, <2>2, <2>3, Argb32
    <3> QED BY <3>1, <3>2, <3>3, <3>4
  <2>5. p.matrix.colour.low[1] = 0 /\ p.matrix.colour.high[1] = 15
    BY <1>1, <1>7, <2>2, Argb32, BgrxRed
  <2>6. \A q \in Columns(p.scale) \X Lines(p.scale) : image[q][1] \in 0 .. 15
    BY <2>4, <2>5, BoundedRed DEF image
  <2> HIDE DEF P
  <2>7. \A q \in Writers(P, b) : image[q][1] \in 0 .. 15
    BY <2>1, <2>6
  <2>8. Settled(Acts(b, Components(specs), PlacesOf(p), image),
                PutComponents(Components(specs)), PutValues(b, PlacesOf(p), image))
    BY <1>7, <2>1, <2>7, BgrxSettles
  <2> QED BY <1>1, <2>8 DEF p, image
<1> QED
  BY <1>4, <1>6, <1>7 DEF AreConvertible, Kind

(* Whatever was painted on a frame before, painting over it gives the same.  *)
LEMMA ConvertTwice ==
  ASSUME NEW source, NEW target, AreConvertible(source, target), NEW aspect,
         NEW scaling1, NEW src1, NEW scaling2, NEW src2, NEW data
  PROVE  LET p == Parameters(source, target, aspect) IN
         Convert(p, scaling2, src2, Convert(p, scaling1, src1, data))
           = Convert(p, scaling2, src2, data)
<1> DEFINE p == Parameters(source, target, aspect)
           im1 == Image(p, scaling1, src1)
           im2 == Image(p, scaling2, src2)
<1>1. /\ AreFlags(p) /\ p.scale = ConfigureScaling(source, target, aspect)
      /\ \A i \in DOMAIN p.out : PlacesOf(p)[i] = Placed(p.scale, p.out[i])
  BY ParameterFacts
<1>2. AreBounded(p.scale)
  BY <1>1, ScaleBounded DEF AreConvertible
<1>3. \A b : Settled(Acts(b, p.out, PlacesOf(p), im1), PutComponents(p.out),
                     PutValues(b, PlacesOf(p), im1))
  BY ConvertSettles
<1> HIDE DEF p
<1>4. \A scaling, src, d :
        Convert(p, scaling, src, d) = PaintedAt(p.out, PlacesOf(p), d, Image(p, scaling, src))
  <2> TAKE scaling, src, d
  <2>1. Convert(p, scaling, src, d) = Painted(p, d, Image(p, scaling, src))
    BY DEF Convert, Image
  <2>2. Painted(p, d, Image(p, scaling, src))
          = PaintedAt(p.out, PlacesOf(p), d, Table(Image(p, scaling, src)))
    BY DEF Painted, PlacesOf
  <2>3. Table(Image(p, scaling, src)) = Image(p, scaling, src)
    BY SameTable
  <2> QED BY <2>1, <2>2, <2>3
<1>5. \A i \in DOMAIN p.out : \A b : \A q \in Writers(PlacesOf(p)[i], b) :
        DOMAIN im1[q] = DOMAIN im2[q]
  <2> TAKE i \in DOMAIN p.out
  <2> TAKE b
  <2> TAKE q \in Writers(PlacesOf(p)[i], b)
  <2>1. q \in Columns(p.scale) \X Lines(p.scale)
    BY <1>1, <1>2, WritersInside
  <2>2. DOMAIN im1[q] = Shape(p) /\ DOMAIN im2[q] = Shape(p)
    BY <1>1, <2>1, ImageShape
  <2> QED BY <2>2
<1> HIDE DEF im1, im2
<1>6. PaintedAt(p.out, PlacesOf(p), PaintedAt(p.out, PlacesOf(p), data, im1), im2)
        = PaintedAt(p.out, PlacesOf(p), data, im2)
  BY <1>3, <1>5, PaintedAgain
<1> QED
  BY <1>4, <1>6 DEF p, im1, im2


(***************************************************************************)
(* Freshness.                                                              *)
(***************************************************************************)
Repaints(fc) ==
  /\ AreConvertible(fc.key.input, fc.key.output)
  /\ fc.p = Parameters(fc.key.input, fc.key.output, fc.key.aspect)
  /\ \A scaling, src :
       Convert(fc.p, scaling, src, fc.data)
         = Convert(fc.p, scaling, src, OutputFrame(fc.p.scale.format, fc.key.aspect))

(* What a converter keeps of earlier conversions makes no difference.      *)
Kept(c) == c.fc # None => Repaints(c.fc)

LEMMA RepaintsAgain ==
  ASSUME NEW fc, IsConfigured(fc), Repaints(fc), NEW scaling, NEW src
  PROVE  LET data == Convert(fc.p, scaling, src, fc.data) IN
         Repaints([fc EXCEPT !.data = data])
<1> DEFINE data == Convert(fc.p, scaling, src, fc.data)
           e == [fc EXCEPT !.data = data]
<1>1. e.key = fc.key /\ e.p = fc.p /\ e.data = data
  BY DEF IsConfigured
<1>2. ASSUME NEW s, NEW f
      PROVE  Convert(fc.p, s, f, data)
               = Convert(fc.p, s, f, OutputFrame(fc.p.scale.format, fc.key.aspect))
  <2>1. Convert(fc.p, s, f, data) = Convert(fc.p, s, f, fc.data)
    BY ConvertTwice DEF Repaints
  <2> HIDE DEF data
  <2> QED BY <2>1 DEF Repaints
<1> HIDE DEF data, e
<1>3. Repaints(e)
  BY <1>1, <1>2 DEF Repaints
<1> QED BY <1>3 DEF e, data

LEMMA NothingConfigured == \A key, p, data : [key |-> key, p |-> p, data |-> data] # None
<1> SUFFICES ASSUME NEW key, NEW p, NEW data PROVE [key |-> key, p |-> p, data |-> data] # None
  OBVIOUS
<1>1. "key" \in DOMAIN [key |-> key, p |-> p, data |-> data] /\ "key" \notin DOMAIN None
  BY DEF None
<1> QED BY <1>1

LEMMA ConfiguredRepaints ==
  ASSUME NEW key, AreConvertible(key.input, key.output)
  PROVE  /\ Repaints(Configured(key)) /\ IsConfigured(Configured(key))
         /\ Configured(key).key = key
<1> DEFINE p == Parameters(key.input, key.output, key.aspect)
           data == OutputFrame(p.scale.format, key.aspect)
           fc == [key |-> key, p |-> p, data |-> data]
<1>1. Configured(key) = fc
  BY DEF Configured, ConfiguredWith
<1>2. p.scale = ConfigureScaling(key.input, key.output, key.aspect)
  BY ParameterFacts
<1> HIDE DEF p, data
<1>3. fc.key = key /\ fc.p = p /\ fc.data = data /\ DOMAIN fc = {"key", "p", "data"}
  OBVIOUS
<1> HIDE DEF fc
<1>4. Repaints(fc)
  BY <1>3 DEF Repaints, p, data
<1>5. IsConfigured(fc)
  BY <1>2, <1>3 DEF IsConfigured, AreConvertible
<1> QED BY <1>1, <1>3, <1>4, <1>5

CanConvert(c, input) ==
  /\ IsConverter(c) /\ Kept(c)
  /\ input.format # c.output => AreConvertible(input.format, c.output)

FrameOf(fc, c, input) ==
  LET target == fc.p.scale.format IN
  IF target = input.format THEN input
  ELSE [format |-> target,
        data |-> Convert(fc.p, c.scaling, input, OutputFrame(target, fc.key.aspect))]

(* A frame a converter makes is that of its settings and the source.       *)
LEMMA MadeFresh ==
  ASSUME NEW c, NEW input, CanConvert(c, input), input.format # c.output
  PROVE  LET key == Key(c, input.format)
             result == ConvertFrame(c, input) IN
         /\ result.frame = FrameOf(Configured(key), c, input)
         /\ Kept(result.converter)
<1> DEFINE key == Key(c, input.format)
           fc == IF IsCurrent(c.fc, key) THEN c.fc ELSE Configured(key)
           data == Convert(fc.p, c.scaling, input, fc.data)
<1>1. key.input = input.format /\ key.output = c.output
  BY DEF Key
<1>2. AreConvertible(key.input, key.output)
  BY <1>1 DEF CanConvert
<1>3. Repaints(fc) /\ IsConfigured(fc) /\ fc.key = key
  <2> HIDE DEF key
  <2>1. CASE IsCurrent(c.fc, key)
    BY <2>1 DEF IsCurrent, CanConvert, Kept, IsConverter
  <2>2. CASE ~IsCurrent(c.fc, key)
    BY <1>2, <2>2, ConfiguredRepaints
  <2> QED BY <2>1, <2>2
<1>4. ConvertFrame(c, input) = Converted(c, input, fc, data)
  BY DEF ConvertFrame, PrivateConvert, ConvertWith
<1>5. fc.p = Configured(key).p
  <2> HIDE DEF key, fc
  <2>1. fc.p = Parameters(key.input, key.output, key.aspect)
    BY <1>3 DEF Repaints
  <2>2. Configured(key).p = Parameters(key.input, key.output, key.aspect)
    BY DEF Configured, ConfiguredWith
  <2> QED BY <2>1, <2>2
<1>6. Configured(key).key = key
  BY DEF Configured, ConfiguredWith
<1> HIDE DEF fc, key
<1>7. data = Convert(fc.p, c.scaling, input, OutputFrame(fc.p.scale.format, fc.key.aspect))
  BY <1>3 DEF Repaints
<1>8. Repaints([fc EXCEPT !.data = data])
  BY <1>3, RepaintsAgain
<1> HIDE DEF data
<1>9. Converted(c, input, fc, data).frame = FrameOf(Configured(key), c, input)
  BY <1>3, <1>5, <1>6, <1>7 DEF Converted, FrameOf
<1>10. Kept(Converted(c, input, fc, data).converter)
  <2> DEFINE d == [c EXCEPT !.fc = fc]
             e == [c EXCEPT !.fc = [fc EXCEPT !.data = data]]
  <2>1. Converted(c, input, fc, data).converter \in {d, e}
    BY DEF Converted
  <2>2. d.fc = fc /\ e.fc = [fc EXCEPT !.data = data]
    BY DEF CanConvert, IsConverter
  <2> HIDE DEF d, e
  <2>3. Kept(d)
    BY <1>3, <2>2 DEF Kept
  <2>4. Kept(e)
    BY <1>8, <2>2 DEF Kept
  <2> QED BY <2>1, <2>3, <2>4
<1> QED BY <1>4, <1>9, <1>10 DEF key

LEMMA ConvertFresh ==
  ASSUME NEW c, NEW d, NEW input, CanConvert(c, input), CanConvert(d, input),
         c.output = d.output, c.scaling = d.scaling, c.aspect = d.aspect
  PROVE  /\ ConvertFrame(c, input).frame = ConvertFrame(d, input).frame
         /\ Kept(ConvertFrame(c, input).converter)
<1>1. CASE input.format = c.output
  BY <1>1 DEF ConvertFrame, CanConvert
<1>2. CASE input.format # c.output
  <2>1. Key(c, input.format) = Key(d, input.format)
    BY DEF Key
  <2>2. /\ ConvertFrame(c, input).frame = FrameOf(Configured(Key(c, input.format)), c, input)
        /\ Kept(ConvertFrame(c, input).converter)
    BY <1>2, MadeFresh
  <2>3. ConvertFrame(d, input).frame = FrameOf(Configured(Key(d, input.format)), d, input)
    BY <1>2, MadeFresh
  <2>4. \A fc : FrameOf(fc, c, input) = FrameOf(fc, d, input)
    BY DEF FrameOf
  <2> QED BY <2>1, <2>2, <2>3, <2>4
<1> QED BY <1>1, <1>2

(* A converter that is set makes the frame a new one would make.           *)
LEMMA SetFresh ==
  ASSUME NEW converter, IsConverter(converter), Kept(converter), NEW target, NEW input,
         input.format # target => AreConvertible(input.format, target),
         NEW c, NEW d, c.scaling = d.scaling, c.aspect_ratio = d.aspect_ratio
  PROVE  LET set_ == Set(converter, target, c) IN
         /\ ConvertFrame(set_, input).frame = Fresh(input, target, d)
         /\ Kept(ConvertFrame(set_, input).converter)
<1> DEFINE set_ == Set(converter, target, c)
           new == Set(NewConverter, target, d)
<1>1. /\ set_.output = target /\ set_.scaling = c.scaling /\ set_.aspect = c.aspect_ratio
      /\ set_.fc = converter.fc /\ DOMAIN set_ = {"output", "scaling", "aspect", "fc"}
  BY DEF Set, IsConverter
<1>2. /\ new.output = target /\ new.scaling = d.scaling /\ new.aspect = d.aspect_ratio
      /\ new.fc = None /\ DOMAIN new = {"output", "scaling", "aspect", "fc"}
  BY DEF Set, NewConverter
<1>3. Fresh(input, target, d) = ConvertFrame(new, input).frame
  BY DEF Fresh
<1> HIDE DEF set_, new
<1>4. CanConvert(set_, input)
  BY <1>1 DEF CanConvert, IsConverter, Kept
<1>5. CanConvert(new, input)
  BY <1>2 DEF CanConvert, IsConverter, Kept
<1>6. /\ ConvertFrame(set_, input).frame = ConvertFrame(new, input).frame
      /\ Kept(ConvertFrame(set_, input).converter)
  BY <1>1, <1>2, <1>4, <1>5, ConvertFresh
<1> QED BY <1>3, <1>6 DEF set_

(* The format of the frame made.                                           *)
LEMMA FreshFormat ==
  ASSUME NEW c, NEW input, input.format = c.output \/ AreConvertible(input.format, c.output),
         c.output.specs = Specs[c.output.fourcc], IsConverter(c), Kept(c)
  PROVE  ConvertFrame(c, input).frame.format.specs = c.output.specs
<1>1. CASE input.format = c.output
  BY <1>1 DEF ConvertFrame
<1>2. CASE input.format # c.output
  <2> DEFINE key == Key(c, input.format)
             p == Configured(key).p
  <2>1. CanConvert(c, input)
    BY DEF CanConvert
  <2>2. ConvertFrame(c, input).frame = FrameOf(Configured(key), c, input)
    BY <1>2, <2>1, MadeFresh
  <2>3. p = Parameters(input.format, c.output, c.aspect)
    BY DEF Configured, ConfiguredWith, Key
  <2>4. p.scale = ConfigureScaling(input.format, c.output, c.aspect)
    BY <2>3, ParameterFacts
  <2>5. p.scale.format.specs = Specs[c.output.fourcc]
    <3>1. ConfigureScaling(input.format, c.output, c.aspect).format.specs
            = Specs[c.output.fourcc]
      BY DEF ConfigureScaling, Scaled, Format, WithParams
    <3> HIDE DEF p
    <3> QED BY <2>4, <3>1
  <2> HIDE DEF key, p
  <2>6. FrameOf(Configured(key), c, input).format = p.scale.format
    BY DEF FrameOf, p
  <2> QED BY <2>2, <2>5, <2>6
<1> QED BY <1>1, <1>2

(***************************************************************************)
(* The filters.                                                            *)
(***************************************************************************)
LEMMA ApplySampled ==
  ASSUME NEW f, NEW c, NEW d,
         c.hue = d.hue, c.saturation = d.saturation, c.brightness = d.brightness,
         c.contrast = d.contrast, c.gamma = d.gamma, c.gray = d.gray,
         c.swap_rgb = d.swap_rgb
  PROVE  Apply(f, c) = Apply(f, d)
BY DEF Apply

LEMMA PixelsKeepFormat ==
  ASSUME NEW f, IsPicture(f), NEW image
  PROVE  WithPixels(f, image).format = f.format
<1>1. CASE f.format.fourcc # "ARGB32"
  BY <1>1 DEF WithPixels
<1>2. CASE f.format.fourcc = "ARGB32"
  <2>1. PICK line, pixels : WithPixels(f, image) = Redrawn(f, line, pixels)
    BY <1>2 DEF WithPixels
  <2> QED
    BY <2>1 DEF Redrawn, IsPicture
<1> QED
  BY <1>1, <1>2

LEMMA FiltersKeepFormat ==
  ASSUME NEW f, IsPicture(f), NEW horizontal, NEW vertical, NEW c
  PROVE  Apply(Mirror(f, horizontal, vertical), c).format = f.format
<1>1. MirrorHorizontal(f).format = f.format
  BY PixelsKeepFormat DEF MirrorHorizontal
<1>2. MirrorVertical(f).format = f.format
  BY DEF MirrorVertical, IsPicture
<1>3. MirrorBoth(f).format = f.format
  BY PixelsKeepFormat DEF MirrorBoth
<1>4. Mirror(f, horizontal, vertical).format = f.format
  BY <1>1, <1>2, <1>3 DEF Mirror
<1> QED
  BY <1>4, MirrorKeepsPicture, PixelsKeepFormat DEF Apply


(***************************************************************************)
(* The invariant: what the clock has made so far is what fresh converters  *)
(* would have made of what it has read.                                    *)
(***************************************************************************)
ArgbOf(f) == Format("ARGB32", f.format.width, f.format.height)

Imported == Fresh(used.frame, ArgbOf(used.frame), used.in)

Mirrored == Mirror(Imported, used.in.horizontal_flip, used.in.vertical_flip)

IsArgb(f) == f.format.specs = Specs["ARGB32"]

ChainInv ==
  /\ pc \in {"idle", "convert_in", "filter", "convert_out", "convert_default"}
  /\ pc # "idle" =>
       /\ DOMAIN used = {"frame", "direct", "in", "filter", "out", "target"}
       /\ used.direct = FALSE
  /\ pc = "convert_in" => frame = used.frame
  /\ pc = "filter" =>
       /\ used.in # None /\ frame = Imported /\ IsArgb(frame)
       /\ flips = <<used.in.horizontal_flip, used.in.vertical_flip>>
  /\ pc = "convert_out" =>
       used.in # None /\ frame = Apply(Mirrored, used.filter) /\ IsArgb(frame)
  /\ pc = "convert_default" =>
       used.in = None /\ frame = used.frame /\ IsArgb(frame)

FormatsAreKnown ==
  /\ Kind(format.specs)
  /\ default = None \/ IsArgb(default)

FreshInv ==
  /\ PipelineInv
  /\ Kept(in) /\ Kept(out)
  /\ FormatsAreKnown
  /\ ChainInv
  /\ WrittenIsFresh

LEMMA KnownFormat ==
  ASSUME NEW f, IsFormat(f)
  PROVE  f.specs = Specs[f.fourcc] /\ Kind(f.specs)
<1>1. f = Format(f.fourcc, f.width, f.height)
  BY DEF IsFormat
<1>2. Format(f.fourcc, f.width, f.height).specs = Specs[f.fourcc]
  BY DEF Format, WithParams
<1>3. f.specs = Specs[f.fourcc]
  BY <1>1, <1>2
<1> QED BY <1>3, AllKinds DEF IsFormat

LEMMA InitFresh == Init => FreshInv
<1> SUFFICES ASSUME Init PROVE FreshInv
  OBVIOUS
<1>1. PipelineInv
  BY InitPipeline
<1>2. Kept(in) /\ Kept(out)
  BY DEF Init, NewConverter, Kept
<1>3. FormatsAreKnown
  <2>1. PICK s \in Setups : format = s.format /\ default = s.default
    BY DEF Init
  <2>2. IsFormat(format)
    BY <2>1, FramePipelineAssumption
  <2>3. default = None \/ (IsFormat(default.format) /\ default.format.fourcc = "ARGB32")
    BY <2>1, FramePipelineAssumption DEF IsSource
  <2> QED BY <2>2, <2>3, KnownFormat DEF FormatsAreKnown, IsArgb
<1>4. ChainInv
  BY DEF Init, ChainInv
<1>5. WrittenIsFresh
  BY DEF Init, WrittenIsFresh
<1> QED BY <1>1, <1>2, <1>3, <1>4, <1>5 DEF FreshInv

(* What happens around the clock leaves what it made alone.                *)
LEMMA AroundClock ==
  ASSUME FreshInv, PipelineInv', ClockUnchanged, FormatsAreKnown'
  PROVE  FreshInv'
<1>1. UNCHANGED <<in, out, pc, frame, flips, written, used>>
  BY DEF ClockUnchanged
<1>2. Kept(in)' /\ Kept(out)'
  BY <1>1 DEF FreshInv, Kept
<1>3. ChainInv'
  BY <1>1 DEF FreshInv, ChainInv, Imported, Mirrored
<1>4. WrittenIsFresh'
  BY <1>1 DEF FreshInv, WrittenIsFresh, Expected
<1> QED BY <1>2, <1>3, <1>4 DEF FreshInv

LEMMA ArgbConvertible ==
  ASSUME NEW f, IsPicture(f)
  PROVE  /\ AreConvertible(f.format, ArgbOf(f))
         /\ ArgbOf(f).specs = Specs["ARGB32"] /\ ArgbOf(f).fourcc = "ARGB32"
<1>1. /\ ArgbOf(f).specs = Specs["ARGB32"] /\ ArgbOf(f).fourcc = "ARGB32"
      /\ ArgbOf(f).width = f.format.width /\ ArgbOf(f).height = f.format.height
  BY DEF ArgbOf, Format, WithParams
<1>2. Kind(Specs["ARGB32"]) /\ ~IsBgrx(Specs["ARGB32"])
  BY Argb32 DEF Kind, IsBgrx
<1> QED BY <1>1, <1>2 DEF AreConvertible, IsPicture, IsSize

LEMMA FreshReadFrame == FreshInv /\ PipelineInv' /\ ReadFrame => FreshInv'
<1> SUFFICES ASSUME FreshInv, PipelineInv', ReadFrame PROVE FreshInv'
  OBVIOUS
<1> DEFINE random == [NewFrame(format) EXCEPT !.data = [b \in DOMAIN @ |-> 77]]
           using_default == current = None /\ default # None
           f == IF current # None THEN current
                ELSE IF using_default THEN default ELSE random
<1>1. UNCHANGED <<in, out, flips, format, default>>
  BY DEF ReadFrame, environment
<1>2. Kept(in)' /\ Kept(out)' /\ FormatsAreKnown'
  BY <1>1 DEF FreshInv, Kept, FormatsAreKnown, IsArgb
<1>3. CASE direct /\ ~using_default
  <2>1. written' = f /\ pc' = "idle" /\ used' = Started(f, TRUE)
    BY <1>3 DEF ReadFrame, Write
  <2> HIDE DEF f
  <2>2. Expected' = f
    BY <2>1 DEF Expected, Started
  <2>3. WrittenIsFresh' /\ ChainInv'
    BY <2>1, <2>2 DEF WrittenIsFresh, ChainInv
  <2> QED BY <1>2, <2>3 DEF FreshInv
<1>4. CASE ~(direct /\ ~using_default)
  <2>1. /\ frame' = f /\ used' = Started(f, FALSE)
        /\ pc' = IF direct THEN "convert_default" ELSE "convert_in"
    BY <1>4 DEF ReadFrame
  <2>2. direct => IsArgb(f)
    BY <1>4 DEF FreshInv, FormatsAreKnown
  <2> HIDE DEF f
  <2>3. /\ DOMAIN used' = {"frame", "direct", "in", "filter", "out", "target"}
        /\ used'.direct = FALSE /\ used'.frame = f /\ used'.in = None
    BY <2>1 DEF Started
  <2>4. ChainInv' /\ WrittenIsFresh'
    BY <2>1, <2>2, <2>3 DEF ChainInv, WrittenIsFresh, IsArgb
  <2> QED BY <1>2, <2>4 DEF FreshInv
<1> QED BY <1>3, <1>4

LEMMA SampleFacts ==
  ASSUME NEW names
  PROVE  /\ \A c \in names : Sample(names)[c] = controls[c]
         /\ names # {} /\ "none" \notin names => Sample(names) # None
<1>1. DOMAIN Sample(names) = names /\ DOMAIN None = {"none"}
  BY DEF Sample, None
<1> QED BY <1>1 DEF Sample

LEMMA FreshConvertIn == FreshInv /\ PipelineInv' /\ ConvertIn => FreshInv'
<1> SUFFICES ASSUME FreshInv, PipelineInv', ConvertIn PROVE FreshInv'
  OBVIOUS
<1> DEFINE names == {"horizontal_flip", "vertical_flip", "scaling", "aspect_ratio"}
           target == ArgbOf(frame)
           c == Set(in, target, controls)
           d == Sample(names)
<1>1. /\ pc = "convert_in" /\ pc' = "filter"
      /\ flips' = <<controls.horizontal_flip, controls.vertical_flip>>
      /\ frame' = ConvertFrame(c, frame).frame /\ in' = ConvertFrame(c, frame).converter
      /\ used' = [used EXCEPT !.in = d]
      /\ UNCHANGED <<out, format, default>>
  BY DEF ConvertIn, environment, ArgbOf
<1>2. /\ d.horizontal_flip = controls.horizontal_flip
      /\ d.vertical_flip = controls.vertical_flip
      /\ d.scaling = controls.scaling /\ d.aspect_ratio = controls.aspect_ratio
      /\ d # None
  BY SampleFacts
<1>3. IsPicture(frame) /\ IsConverter(in) /\ Kept(in) /\ frame = used.frame
  BY <1>1 DEF FreshInv, PipelineInv, FramesArePictures, ConvertersFit, ChainInv
<1>4. AreConvertible(frame.format, target) /\ target.specs = Specs["ARGB32"]
      /\ target.fourcc = "ARGB32"
  BY <1>3, ArgbConvertible
<1> HIDE DEF names, target, d
<1>5. frame' = Fresh(frame, target, d) /\ Kept(in')
  BY <1>1, <1>2, <1>3, <1>4, SetFresh
<1>6. IsArgb(frame)'
  <2>1. c.output = target /\ IsConverter(c) /\ Kept(c)
    BY <1>3 DEF Set, IsConverter, Kept
  <2> HIDE DEF c
  <2> QED BY <1>1, <1>4, <2>1, FreshFormat DEF IsArgb
<1> HIDE DEF c
<1>7. /\ used'.frame = frame /\ used'.in = d /\ used'.direct = FALSE
      /\ DOMAIN used' = {"frame", "direct", "in", "filter", "out", "target"}
  BY <1>1, <1>3 DEF FreshInv, ChainInv
<1>8. Imported' = Fresh(frame, target, d)
  BY <1>7 DEF Imported, target
<1>9. ChainInv'
  BY <1>1, <1>2, <1>5, <1>6, <1>7, <1>8 DEF ChainInv
<1>10. WrittenIsFresh' /\ Kept(out)' /\ FormatsAreKnown'
  BY <1>1 DEF WrittenIsFresh, FreshInv, Kept, FormatsAreKnown, IsArgb
<1> QED BY <1>5, <1>9, <1>10 DEF FreshInv

LEMMA FreshFilter == FreshInv /\ PipelineInv' /\ Filter => FreshInv'
<1> SUFFICES ASSUME FreshInv, PipelineInv', Filter PROVE FreshInv'
  OBVIOUS
<1> DEFINE names == {"hue", "saturation", "brightness", "contrast", "gamma", "gray", "swap_rgb"}
           d == Sample(names)
           m == Mirror(frame, flips[1], flips[2])
<1>1. /\ pc = "filter" /\ pc' = "convert_out"
      /\ frame' = Apply(m, controls)
      /\ used' = [used EXCEPT !.filter = d]
      /\ UNCHANGED <<in, out, format, default>>
  BY DEF Filter, environment
<1>2. /\ d.hue = controls.hue /\ d.saturation = controls.saturation
      /\ d.brightness = controls.brightness /\ d.contrast = controls.contrast
      /\ d.gamma = controls.gamma /\ d.gray = controls.gray
      /\ d.swap_rgb = controls.swap_rgb
  BY SampleFacts
<1>3. /\ used.in # None /\ frame = Imported /\ IsArgb(frame)
      /\ flips = <<used.in.horizontal_flip, used.in.vertical_flip>>
      /\ DOMAIN used = {"frame", "direct", "in", "filter", "out", "target"}
      /\ used.direct = FALSE /\ IsPicture(frame)
  BY <1>1 DEF FreshInv, ChainInv, PipelineInv, FramesArePictures
<1> HIDE DEF names, d
<1>4. frame' = Apply(m, d)
  BY <1>1, <1>2, ApplySampled
<1>5. /\ used'.frame = used.frame /\ used'.in = used.in /\ used'.filter = d
      /\ used'.direct = FALSE
      /\ DOMAIN used' = {"frame", "direct", "in", "filter", "out", "target"}
  BY <1>1, <1>3
<1>6. m = Mirrored
  BY <1>3 DEF Mirrored
<1>7. Mirrored' = Mirrored
  BY <1>5 DEF Mirrored, Imported
<1>8. IsArgb(frame)'
  BY <1>1, <1>3, FiltersKeepFormat DEF IsArgb
<1> HIDE DEF m
<1>9. ChainInv'
  BY <1>1, <1>3, <1>4, <1>5, <1>6, <1>7, <1>8 DEF ChainInv
<1>10. WrittenIsFresh' /\ Kept(in)' /\ Kept(out)' /\ FormatsAreKnown'
  BY <1>1 DEF WrittenIsFresh, FreshInv, Kept, FormatsAreKnown, IsArgb
<1> QED BY <1>9, <1>10 DEF FreshInv

LEMMA FreshConvertOut == FreshInv /\ PipelineInv' /\ ConvertOut => FreshInv'
<1> SUFFICES ASSUME FreshInv, PipelineInv', ConvertOut PROVE FreshInv'
  OBVIOUS
<1> DEFINE d == Sample({"scaling", "aspect_ratio"})
           c == Set(out, format, controls)
<1>1. /\ pc \in {"convert_out", "convert_default"} /\ pc' = "idle"
      /\ written' = ConvertFrame(c, frame).frame /\ out' = ConvertFrame(c, frame).converter
      /\ used' = [used EXCEPT !.out = d, !.target = format]
      /\ UNCHANGED <<in, format, default>>
  BY DEF ConvertOut, Write, environment
<1>2. d.scaling = controls.scaling /\ d.aspect_ratio = controls.aspect_ratio
  BY SampleFacts
<1>3. /\ IsPicture(frame) /\ IsArgb(frame) /\ IsConverter(out) /\ Kept(out)
      /\ IsSize(format) /\ Kind(format.specs)
      /\ DOMAIN used = {"frame", "direct", "in", "filter", "out", "target"}
      /\ used.direct = FALSE
  BY <1>1 DEF FreshInv, PipelineInv, FramesArePictures, ConvertersFit, ChainInv,
     FormatsAreKnown
<1>4. AreConvertible(frame.format, format)
  BY <1>3 DEF AreConvertible, IsArgb, IsPicture
<1> HIDE DEF d
<1>5. written' = Fresh(frame, format, d) /\ Kept(out')
  BY <1>1, <1>2, <1>3, <1>4, SetFresh
<1> HIDE DEF c
<1>6. /\ used'.frame = used.frame /\ used'.in = used.in /\ used'.filter = used.filter
      /\ used'.direct = FALSE /\ used'.out = d /\ used'.target = format
  BY <1>1, <1>3
<1>7. Expected' = Fresh(IF used.in # None THEN Apply(Mirrored, used.filter) ELSE used.frame,
                        format, d)
  BY <1>6 DEF Expected, Mirrored, Imported, ArgbOf
<1>8. frame = IF used.in # None THEN Apply(Mirrored, used.filter) ELSE used.frame
  BY <1>1 DEF FreshInv, ChainInv
<1>9. WrittenIsFresh'
  BY <1>5, <1>7, <1>8 DEF WrittenIsFresh
<1>10. ChainInv' /\ Kept(in)' /\ FormatsAreKnown'
  BY <1>1 DEF FreshInv, ChainInv, Kept, FormatsAreKnown, IsArgb
<1> QED BY <1>5, <1>9, <1>10 DEF FreshInv

LEMMA FreshStep == FreshInv /\ [Next]_vars => FreshInv'
<1> SUFFICES ASSUME FreshInv, [Next]_vars PROVE FreshInv'
  OBVIOUS
<1>0. PipelineInv'
  BY PipelineStep DEF FreshInv
<1>1. ASSUME NEW c \in CaptureChanges, SetCaptureControl(c[1], c[2]) PROVE FreshInv'
  <2>1. ClockUnchanged /\ UNCHANGED <<format, default>>
    BY <1>1 DEF SetCaptureControl
  <2> QED BY <1>0, <2>1, AroundClock DEF FreshInv, FormatsAreKnown
<1>2. ASSUME NEW c \in OutputChanges, SetOutputControl(c[1], c[2]) PROVE FreshInv'
  <2>1. ClockUnchanged /\ UNCHANGED <<format, default>>
    BY <1>2 DEF SetOutputControl
  <2> QED BY <1>0, <2>1, AroundClock DEF FreshInv, FormatsAreKnown
<1>3. ASSUME NEW f \in Sources, Send(f) PROVE FreshInv'
  <2>1. ClockUnchanged /\ UNCHANGED <<format, default>>
    BY <1>3 DEF Send
  <2> QED BY <1>0, <2>1, AroundClock DEF FreshInv, FormatsAreKnown
<1>4. ASSUME NEW f \in Formats, SetFormat(f) PROVE FreshInv'
  <2>1. ClockUnchanged /\ format' = f /\ default' = default
    BY <1>4 DEF SetFormat
  <2>2. IsFormat(f)
    BY FramePipelineAssumption
  <2>3. FormatsAreKnown'
    BY <2>1, <2>2, KnownFormat DEF FreshInv, FormatsAreKnown
  <2> QED BY <1>0, <2>1, <2>3, AroundClock
<1>5. CASE ReadFrame
  BY <1>0, <1>5, FreshReadFrame
<1>6. CASE ConvertIn
  BY <1>0, <1>6, FreshConvertIn
<1>7. CASE Filter
  BY <1>0, <1>7, FreshFilter
<1>8. CASE ConvertOut
  BY <1>0, <1>8, FreshConvertOut
<1>9. CASE UNCHANGED vars
  <2>1. ClockUnchanged /\ UNCHANGED <<format, default>>
    BY <1>9 DEF vars, ClockUnchanged
  <2> QED BY <1>0, <2>1, AroundClock DEF FreshInv, FormatsAreKnown
<1> QED
  BY <1>1, <1>2, <1>3, <1>4, <1>5, <1>6, <1>7, <1>8, <1>9 DEF Next

(* A frame is never made with settings, sizes or a border that a converter *)
(* kept from an earlier conversion, whatever changed since: what the clock *)
(* writes is what converters that were never used would have made, with    *)
(* each control as it was when the clock read it (akvcam_frame_convert_    *)
(* prepare, akvcam_frame_convert).                                         *)
THEOREM WrittenIsFreshHolds == Spec => []WrittenIsFresh
<1>1. FreshInv => WrittenIsFresh
  BY DEF FreshInv
<1> QED
  BY <1>1, InitFresh, FreshStep, PTL DEF Spec

(***************************************************************************)
(* What the pixel formats are made from.                                   *)
(***************************************************************************)
WordFields ==
  {RGB555, RGB555 \cup Alpha(15), Up(RGB555), Up(RGB555) \cup Alpha(0),
   BGR555, BGR555 \cup Alpha(15), Up(BGR555) \cup Alpha(0), RGB565, Bgrx}

RgbBytes ==
  {<<"B", "G", "R">>, <<"R", "G", "B">>, <<"X", "B", "G", "R">>, <<"A", "B", "G", "R">>,
   <<"B", "G", "R", "A">>, <<"B", "G", "R", "X">>, <<"X", "R", "G", "B">>,
   <<"R", "G", "B", "A">>, <<"R", "G", "B", "X">>, <<"A", "R", "G", "B">>}

YuvBytes ==
  {<<"Y", "U", "Y2", "V">>, <<"Y", "V", "Y2", "U">>, <<"U", "Y", "V", "Y2">>,
   <<"V", "Y", "U", "Y2">>}

IsMade(specs) ==
  \/ \E order \in {"little", "big"}, fields \in WordFields : specs = Rgb16(order, fields)
  \/ \E bytes \in RgbBytes : specs = Rgb8(bytes)
  \/ \E bytes \in YuvBytes : specs = Yuv4(bytes)
  \/ \E first, second \in {"U", "V"}, h \in 0 .. 1 : specs = Semi(first, second, h)
  \/ \E first, second \in {"U", "V"}, w \in 1 .. 2, h \in 0 .. 2, bits \in {2, 4} :
       specs = Planar(first, second, w, h, bits)

LEMMA JoinedMade ==
  ASSUME NEW f, NEW g, \A x \in DOMAIN f : IsMade(f[x]), \A x \in DOMAIN g : IsMade(g[x])
  PROVE  \A x \in DOMAIN Joined(f, g) : IsMade(Joined(f, g)[x])
<1> DEFINE j == Joined(f, g)
<1>1. DOMAIN j = DOMAIN f \cup DOMAIN g
  BY SameJoined
<1>2. \A x \in DOMAIN f : j[x] = f[x]
  BY SameJoined
<1>3. \A x \in DOMAIN g \ DOMAIN f : j[x] = g[x]
  BY SameJoined
<1> HIDE DEF j
<1>4. \A x \in DOMAIN j : IsMade(j[x])
  BY <1>1, <1>2, <1>3
<1> QED BY <1>4 DEF j

LEMMA AllMade == \A f \in SupportedFormats : IsMade(Specs[f])
<1>1. \A f \in DOMAIN Rgb16Formats : IsMade(Rgb16Formats[f])
  <2> DEFINE little == [RGB15   |-> RGB555,
                        ARGB555 |-> RGB555 \cup Alpha(15),
                        XRGB555 |-> RGB555,
                        RGBA555 |-> Up(RGB555) \cup Alpha(0),
                        RGBX555 |-> Up(RGB555),
                        ABGR555 |-> BGR555 \cup Alpha(15),
                        XBGR555 |-> BGR555,
                        BGRA555 |-> Up(BGR555) \cup Alpha(0),
                        BGRX555 |-> Bgrx,
                        RGB16   |-> RGB565]
             big == [RGB555X  |-> RGB555,
                     ARGB555X |-> RGB555 \cup Alpha(15),
                     XRGB555X |-> RGB555,
                     RGB565X  |-> RGB565]
             words == [g \in DOMAIN little |-> Rgb16("little", little[g])]
             bigWords == [g \in DOMAIN big |-> Rgb16("big", big[g])]
  <2>1. Rgb16Formats = Joined(words, bigWords)
    BY DEF Rgb16Formats, Bgrx
  <2>2. /\ \A g \in DOMAIN little : little[g] \in WordFields
        /\ \A g \in DOMAIN big : big[g] \in WordFields
    BY DEF WordFields
  <2> HIDE DEF little, big
  <2>3. /\ \A g \in DOMAIN words : IsMade(words[g])
        /\ \A g \in DOMAIN bigWords : IsMade(bigWords[g])
    BY <2>2 DEF IsMade
  <2> HIDE DEF words, bigWords
  <2> QED BY <2>1, <2>3, JoinedMade
<1>2. /\ \A f \in DOMAIN Rgb24Formats : IsMade(Rgb24Formats[f])
      /\ \A f \in DOMAIN Rgb32Formats : IsMade(Rgb32Formats[f])
  <2> DEFINE bytes == [BGR24  |-> <<"B", "G", "R">>,
                       RGB24  |-> <<"R", "G", "B">>,
                       BGR32  |-> <<"X", "B", "G", "R">>,
                       ABGR32 |-> <<"A", "B", "G", "R">>,
                       XBGR32 |-> <<"X", "B", "G", "R">>,
                       BGRA32 |-> <<"B", "G", "R", "A">>,
                       BGRX32 |-> <<"B", "G", "R", "X">>]
             more == [RGB32  |-> <<"X", "R", "G", "B">>,
                      RGBA32 |-> <<"R", "G", "B", "A">>,
                      RGBX32 |-> <<"R", "G", "B", "X">>,
                      ARGB32 |-> <<"A", "R", "G", "B">>,
                      XRGB32 |-> <<"X", "R", "G", "B">>]
  <2>1. /\ Rgb24Formats = [f \in DOMAIN bytes |-> Rgb8(bytes[f])]
        /\ Rgb32Formats = [f \in DOMAIN more |-> Rgb8(more[f])]
    BY DEF Rgb24Formats, Rgb32Formats
  <2>2. /\ \A f \in DOMAIN bytes : bytes[f] \in RgbBytes
        /\ \A f \in DOMAIN more : more[f] \in RgbBytes
    BY DEF RgbBytes
  <2> HIDE DEF bytes, more
  <2> QED BY <2>1, <2>2 DEF IsMade
<1>3. \A f \in DOMAIN YuvPackedFormats : IsMade(YuvPackedFormats[f])
  <2> DEFINE bytes == [YUY2 |-> <<"Y", "U", "Y2", "V">>,
                       YVYU |-> <<"Y", "V", "Y2", "U">>,
                       UYVY |-> <<"U", "Y", "V", "Y2">>,
                       VYUY |-> <<"V", "Y", "U", "Y2">>]
  <2>1. YuvPackedFormats = [f \in DOMAIN bytes |-> Yuv4(bytes[f])]
    BY DEF YuvPackedFormats
  <2>2. \A f \in DOMAIN bytes : bytes[f] \in YuvBytes
    BY DEF YuvBytes
  <2> HIDE DEF bytes
  <2> QED BY <2>1, <2>2 DEF IsMade
<1>4. \A f \in DOMAIN YuvPlanarFormats : IsMade(YuvPlanarFormats[f])
  <2>1. /\ IsMade(Semi("U", "V", 1)) /\ IsMade(Semi("V", "U", 1))
        /\ IsMade(Semi("U", "V", 0)) /\ IsMade(Semi("V", "U", 0))
    BY DEF IsMade
  <2>2. /\ IsMade(Planar("U", "V", 2, 2, 2)) /\ IsMade(Planar("V", "U", 2, 2, 2))
        /\ IsMade(Planar("U", "V", 2, 0, 2)) /\ IsMade(Planar("U", "V", 1, 1, 4))
        /\ IsMade(Planar("V", "U", 1, 1, 4)) /\ IsMade(Planar("U", "V", 1, 0, 4))
    BY DEF IsMade
  <2> HIDE DEF IsMade
  <2> QED BY <2>1, <2>2 DEF YuvPlanarFormats
<1>5. \A f \in DOMAIN RgbFormats : IsMade(RgbFormats[f])
  <2> DEFINE bytes == Joined(Rgb24Formats, Rgb32Formats)
  <2>1. \A f \in DOMAIN bytes : IsMade(bytes[f])
    BY <1>2, JoinedMade
  <2> HIDE DEF bytes
  <2> QED BY <1>1, <2>1, JoinedMade DEF RgbFormats, bytes
<1>6. \A f \in DOMAIN YuvFormats : IsMade(YuvFormats[f])
  BY <1>3, <1>4, JoinedMade DEF YuvFormats
<1>7. SupportedFormats = DOMAIN Joined(RgbFormats, YuvFormats)
  BY DEF SupportedFormats, Specs
<1> QED BY <1>5, <1>6, <1>7, JoinedMade DEF Specs

LEMMA LeastInside ==
  ASSUME NEW low \in Nat, NEW high \in Nat, NEW T \in SUBSET (low .. high), T # {}
  PROVE  Least(T) \in T
<1>1. PICK v \in T : \A w \in T : v <= w
  BY LeastIndex
<1> QED BY <1>1 DEF Least

(***************************************************************************)
(* What the layout of a frame in memory rests on.                          *)
(***************************************************************************)
IsPlane(plane) ==
  /\ plane.bits \in Nat \ {0}
  /\ PixelSize(plane) \in 1 .. 4
  /\ WidthDiv(plane) \in 0 .. 2
  /\ HeightDiv(plane) \in 0 .. 2

IsLayout(specs) ==
  /\ Len(specs.planes) \in 1 .. 3
  /\ DOMAIN specs.planes = 1 .. Len(specs.planes)
  /\ \A p \in DOMAIN specs.planes : IsPlane(specs.planes[p])

LEMMA PlaneMade ==
  ASSUME NEW k, k # {},
         \A c \in k : c.step \in 1 .. 4 /\ c.widthDiv \in 0 .. 2 /\ c.heightDiv \in 0 .. 2,
         NEW bits \in Nat \ {0}
  PROVE  IsPlane(Plane(k, bits))
<1> DEFINE plane == Plane(k, bits)
<1>1. plane.components = k /\ plane.bits = bits
  BY DEF Plane
<1>2. PixelSize(plane) \in {c.step : c \in k}
  <2> DEFINE T == {c.step : c \in k}
  <2>1. T \in SUBSET (1 .. 4) /\ T # {} /\ 1 \in Int /\ 4 \in Int
    OBVIOUS
  <2> HIDE DEF T
  <2>2. Greatest(T) \in T
    BY <2>1, GreatestInside, Zenon
  <2> QED BY <1>1, <2>2 DEF PixelSize, T
<1>3. WidthDiv(plane) \in {c.widthDiv : c \in k}
  <2> DEFINE T == {c.widthDiv : c \in k}
  <2>1. T \in SUBSET (0 .. 2) /\ T # {}
    OBVIOUS
  <2> HIDE DEF T
  <2>2. Least(T) \in T
    BY <2>1, LeastInside
  <2> QED BY <1>1, <2>2 DEF WidthDiv, T
<1>4. HeightDiv(plane) \in {c.heightDiv : c \in k}
  <2> DEFINE T == {c.heightDiv : c \in k}
  <2>1. T \in SUBSET (0 .. 2) /\ T # {} /\ 0 \in Int /\ 2 \in Int
    OBVIOUS
  <2> HIDE DEF T
  <2>2. Greatest(T) \in T
    BY <2>1, GreatestInside, Zenon
  <2> QED BY <1>1, <2>2 DEF HeightDiv, T
<1> HIDE DEF plane
<1>5. IsPlane(plane)
  BY <1>1, <1>2, <1>3, <1>4 DEF IsPlane
<1> QED BY <1>5 DEF plane

LEMMA OnePlane ==
  ASSUME NEW specs, NEW a, IsPlane(a), specs.planes = <<a>>
  PROVE  IsLayout(specs)
<1>1. Len(<<a>>) = 1 /\ DOMAIN <<a>> = 1 .. 1 /\ <<a>>[1] = a
  OBVIOUS
<1> QED BY <1>1 DEF IsLayout

LEMMA TwoPlanes ==
  ASSUME NEW specs, NEW a, NEW b, IsPlane(a), IsPlane(b), specs.planes = <<a, b>>
  PROVE  IsLayout(specs)
<1>1. Len(<<a, b>>) = 2 /\ DOMAIN <<a, b>> = 1 .. 2 /\ <<a, b>>[1] = a /\ <<a, b>>[2] = b
  OBVIOUS
<1>2. \A p \in 1 .. 2 : p = 1 \/ p = 2
  OBVIOUS
<1> QED BY <1>1, <1>2 DEF IsLayout

LEMMA ThreePlanes ==
  ASSUME NEW specs, NEW a, NEW b, NEW c, IsPlane(a), IsPlane(b), IsPlane(c),
         specs.planes = <<a, b, c>>
  PROVE  IsLayout(specs)
<1>1. /\ Len(<<a, b, c>>) = 3 /\ DOMAIN <<a, b, c>> = 1 .. 3
      /\ <<a, b, c>>[1] = a /\ <<a, b, c>>[2] = b /\ <<a, b, c>>[3] = c
  OBVIOUS
<1>2. \A p \in 1 .. 3 : p = 1 \/ p = 2 \/ p = 3
  OBVIOUS
<1> QED BY <1>1, <1>2 DEF IsLayout

LEMMA ComponentFields ==
  ASSUME NEW type, NEW step, NEW offset, NEW shift, NEW depth, NEW widthDiv, NEW heightDiv
  PROVE  LET c == Component(type, step, offset, shift, depth, widthDiv, heightDiv) IN
         /\ c.type = type /\ c.step = step /\ c.offset = offset
         /\ c.shift = shift /\ c.depth = depth
         /\ c.widthDiv = widthDiv /\ c.heightDiv = heightDiv
BY DEF Component

LEMMA LumaPlane == IsPlane(Luma)
<1> DEFINE c == Component("Y", 1, 0, 0, 8, 0, 0)
<1>1. c.step = 1 /\ c.widthDiv = 0 /\ c.heightDiv = 0
  BY ComponentFields
<1> HIDE DEF c
<1>2. IsPlane(Plane({c}, 8))
  BY <1>1, PlaneMade
<1> QED BY <1>2 DEF Luma, c

LEMMA MadeLayout ==
  ASSUME NEW specs, IsMade(specs)
  PROVE  IsLayout(specs)
<1>1. ASSUME NEW order, NEW fields \in WordFields, specs = Rgb16(order, fields)
      PROVE  IsLayout(specs)
  <2> DEFINE k == {Component(f[1], 2, 0, f[2], f[3], 0, 0) : f \in fields}
  <2>1. specs.planes = <<Plane(k, 16)>>
    BY <1>1 DEF Rgb16
  <2>2. fields # {}
    <3>1. /\ RGB555 # {} /\ BGR555 # {} /\ RGB565 # {} /\ Bgrx # {}
      BY DEF RGB555, BGR555, RGB565, Bgrx
    <3>2. Up(RGB555) # {} /\ Up(BGR555) # {}
      BY <3>1 DEF Up
    <3> QED BY <3>1, <3>2 DEF WordFields
  <2>3. \A c \in k : c.step = 2 /\ c.widthDiv = 0 /\ c.heightDiv = 0
    BY ComponentFields
  <2>4. k # {}
    BY <2>2
  <2> HIDE DEF k
  <2>5. IsPlane(Plane(k, 16))
    BY <2>3, <2>4, PlaneMade
  <2> QED BY <2>1, <2>5, OnePlane
<1>2. ASSUME NEW bytes \in RgbBytes, specs = Rgb8(bytes)
      PROVE  IsLayout(specs)
  <2> DEFINE k == {Component(bytes[i], Len(bytes), i - 1, 0, 8, 0, 0) :
                     i \in {j \in DOMAIN bytes : bytes[j] # "X"}}
  <2>1. specs.planes = <<Plane(k, 8 * Len(bytes))>>
    BY <1>2 DEF Rgb8
  <2>2. /\ Len(bytes) \in 3 .. 4 /\ 2 \in DOMAIN bytes /\ bytes[2] # "X"
    BY DEF RgbBytes
  <2>3. \A c \in k : c.step = Len(bytes) /\ c.widthDiv = 0 /\ c.heightDiv = 0
    BY ComponentFields
  <2>4. k # {}
    BY <2>2
  <2> HIDE DEF k
  <2>5. IsPlane(Plane(k, 8 * Len(bytes)))
    <3>1. 8 * Len(bytes) \in Nat \ {0}
      BY <2>2
    <3>2. \A c \in k : c.step \in 1 .. 4 /\ c.widthDiv \in 0 .. 2 /\ c.heightDiv \in 0 .. 2
      <4> DEFINE n == Len(bytes)
      <4>1. n \in 1 .. 4
        BY <2>2
      <4> HIDE DEF n
      <4>2. \A c \in k : c.step = n /\ c.widthDiv = 0 /\ c.heightDiv = 0
        BY <2>3 DEF n
      <4> QED BY <4>1, <4>2
    <3> QED BY <2>4, <3>1, <3>2, PlaneMade
  <2> QED BY <2>1, <2>5, OnePlane
<1>3. ASSUME NEW bytes \in YuvBytes, specs = Yuv4(bytes)
      PROVE  IsLayout(specs)
  <2> DEFINE at(c) == CHOOSE i \in 1 .. 4 : bytes[i] = c
             chroma(c) == Component(c, 4, at(c) - 1, 0, 8, 1, 0)
             k == {Component("Y", 2, at("Y") - 1, 0, 8, 0, 0), chroma("U"), chroma("V")}
  <2>1. specs.planes = <<Plane(k, 16)>>
    BY <1>3 DEF Yuv4
  <2>2. \A c \in k : c.step \in 1 .. 4 /\ c.widthDiv \in 0 .. 2 /\ c.heightDiv \in 0 .. 2
    BY ComponentFields
  <2> HIDE DEF k
  <2>3. IsPlane(Plane(k, 16))
    <3>1. k # {}
      BY DEF k
    <3> QED BY <2>2, <3>1, PlaneMade
  <2> QED BY <2>1, <2>3, OnePlane
<1>4. ASSUME NEW first, NEW second, NEW h \in 0 .. 1, specs = Semi(first, second, h)
      PROVE  IsLayout(specs)
  <2> DEFINE k == {Component(first, 2, 0, 0, 8, 1, h), Component(second, 2, 1, 0, 8, 1, h)}
  <2>1. specs.planes = <<Luma, Plane(k, 8)>>
    BY <1>4 DEF Semi
  <2>2. \A c \in k : c.step \in 1 .. 4 /\ c.widthDiv \in 0 .. 2 /\ c.heightDiv \in 0 .. 2
    BY ComponentFields
  <2> HIDE DEF k
  <2>3. IsPlane(Plane(k, 8))
    <3>1. k # {}
      BY DEF k
    <3> QED BY <2>2, <3>1, PlaneMade
  <2> QED BY <2>1, <2>3, LumaPlane, TwoPlanes
<1>5. ASSUME NEW first, NEW second, NEW w \in 1 .. 2, NEW h \in 0 .. 2, NEW bits \in {2, 4},
             specs = Planar(first, second, w, h, bits)
      PROVE  IsLayout(specs)
  <2> DEFINE c(t) == Component(t, 1, 0, 0, 8, w, h)
             chroma(t) == Plane({c(t)}, bits)
  <2>1. specs.planes = <<Luma, chroma(first), chroma(second)>>
    BY <1>5 DEF Planar
  <2>2. ASSUME NEW t PROVE IsPlane(chroma(t))
    <3>1. c(t).step = 1 /\ c(t).widthDiv = w /\ c(t).heightDiv = h
      BY ComponentFields
    <3> HIDE DEF c
    <3> QED BY <3>1, PlaneMade
  <2> HIDE DEF chroma
  <2> QED BY <2>1, <2>2, LumaPlane, ThreePlanes
<1> QED BY <1>1, <1>2, <1>3, <1>4, <1>5 DEF IsMade

LEMMA AllLayouts == \A f \in SupportedFormats : IsLayout(Specs[f])
BY AllMade, MadeLayout

(***************************************************************************)
(* The layout of a frame in memory.                                        *)
(***************************************************************************)
IsAligned(n) == \E k \in Nat : n = 32 * k

LEMMA Aligned ==
  ASSUME NEW n \in Nat
  PROVE  /\ AlignUp(n) \in Nat /\ n <= AlignUp(n) /\ IsAligned(AlignUp(n))
         /\ IsAligned(n) => AlignUp(n) = n
<1> DEFINE k == (n + 31) \div 32
<1>1. AlignUp(n) = k * 32
  BY DEF AlignUp, Align
<1>2. k \in Nat /\ n <= 32 * k
  OBVIOUS
<1>3. ASSUME NEW m \in Nat, n = 32 * m PROVE k = m
  BY <1>3
<1> HIDE DEF k
<1> QED BY <1>1, <1>2, <1>3 DEF IsAligned

LEMMA AlignedSum ==
  ASSUME NEW a, NEW b, IsAligned(a), IsAligned(b)
  PROVE  a \in Nat /\ b \in Nat /\ IsAligned(a + b)
<1>1. PICK k \in Nat, m \in Nat : a = 32 * k /\ b = 32 * m
  BY DEF IsAligned
<1>2. a + b = 32 * (k + m) /\ k + m \in Nat
  BY <1>1
<1> QED BY <1>1, <1>2 DEF IsAligned

LEMMA SmallPower ==
  ASSUME NEW n \in 0 .. 2
  PROVE  2 ^ n \in 1 .. 4
<1>1. n = 0 \/ n = 1 \/ n = 2
  OBVIOUS
<1>2. 2 ^ 0 = 1 /\ 2 ^ 1 = 2 /\ 2 ^ 2 = 4
  OBVIOUS
<1>3. CASE n = 0
  BY <1>2, <1>3
<1>4. CASE n = 1
  BY <1>2, <1>4
<1>5. CASE n = 2
  BY <1>2, <1>5
<1> QED BY <1>1, <1>3, <1>4, <1>5

LEMMA PlaneSizes ==
  ASSUME NEW plane, IsPlane(plane), NEW w \in Nat, NEW h \in Nat
  PROVE  /\ LineSize(plane, w) \in Nat
         /\ PlaneSize(plane, w, h) \in Nat /\ IsAligned(PlaneSize(plane, w, h))
         /\ (LineSize(plane, w) * h) \div 2 ^ HeightDiv(plane) <= PlaneSize(plane, w, h)
         /\ LineSize(plane, w) = 0 => PlaneSize(plane, w, h) = 0
<1> DEFINE wd == 2 ^ WidthDiv(plane)
           hd == 2 ^ HeightDiv(plane)
<1>1. wd \in 1 .. 4 /\ hd \in 1 .. 4 /\ plane.bits \in Nat
  BY SmallPower DEF IsPlane
<1>2. BytesUsed(plane, w) = (plane.bits * (w \div wd)) \div 8
  BY DEF BytesUsed
<1> DEFINE l == LineSize(plane, w)
<1> HIDE DEF wd
<1>3. BytesUsed(plane, w) \in Nat
  <2>1. w \div wd \in Nat
    BY <1>1
  <2>2. plane.bits * (w \div wd) \in Nat
    BY <1>1, <2>1
  <2> QED BY <1>2, <2>2
<1>4. l \in Nat
  BY <1>3, Aligned DEF LineSize
<1>5. PlaneSize(plane, w, h) = AlignUp((l * h) \div hd)
  BY DEF PlaneSize
<1> HIDE DEF hd, l
<1>6. l * h \in Nat
  BY <1>4
<1>7. (l * h) \div hd \in Nat
  BY <1>1, <1>6
<1>8. l = 0 => (l * h) \div hd = 0
  BY <1>1
<1>9. AlignUp(0) = 0
  <2>1. IsAligned(0)
    BY DEF IsAligned
  <2> QED BY <2>1, Aligned
<1>10. /\ l \in Nat
       /\ PlaneSize(plane, w, h) \in Nat /\ IsAligned(PlaneSize(plane, w, h))
       /\ (l * h) \div hd <= PlaneSize(plane, w, h)
       /\ l = 0 => PlaneSize(plane, w, h) = 0
  BY <1>4, <1>5, <1>7, <1>8, <1>9, Aligned
<1> QED BY <1>10 DEF l, hd

LEMMA PlaneOffsets ==
  ASSUME NEW specs, IsLayout(specs), NEW w \in Nat, NEW h \in Nat
  PROVE  LET n == Len(specs.planes)
             offset(p) == PlaneOffset(specs.planes, w, h, p) IN
         /\ offset(1) = 0
         /\ \A p \in 1 .. n + 1 : offset(p) \in Nat /\ IsAligned(offset(p))
         /\ \A p \in 1 .. n :
              offset(p + 1) = offset(p) + PlaneSize(specs.planes[p], w, h)
<1> DEFINE n == Len(specs.planes)
           size(p) == PlaneSize(specs.planes[p], w, h)
           offset(p) == PlaneOffset(specs.planes, w, h, p)
<1>1. n \in 1 .. 3 /\ DOMAIN specs.planes = 1 .. n
  BY DEF IsLayout
<1>2. \A p \in 1 .. n : size(p) \in Nat /\ IsAligned(size(p))
  BY PlaneSizes DEF IsLayout
<1>3. \A p : offset(p) = (IF 1 < p THEN size(1) ELSE 0) + (IF 2 < p THEN size(2) ELSE 0)
                           + (IF 3 < p THEN size(3) ELSE 0)
  BY DEF PlaneOffset
<1> HIDE DEF n, size, offset
<1>4. IsAligned(0)
  BY DEF IsAligned
<1>5. offset(1) = 0
  BY <1>3
<1>6. offset(2) = size(1)
  BY <1>1, <1>2, <1>3
<1>7. n > 1 => offset(3) = size(1) + size(2)
  BY <1>1, <1>2, <1>3
<1>8. n > 2 => offset(4) = size(1) + size(2) + size(3)
  BY <1>1, <1>2, <1>3
<1>9. IsAligned(offset(1)) /\ IsAligned(offset(2))
  BY <1>1, <1>2, <1>4, <1>5, <1>6
<1>10. n > 1 => IsAligned(offset(3))
  BY <1>1, <1>2, <1>7, AlignedSum
<1>11. n > 2 => IsAligned(offset(4))
  <2> SUFFICES ASSUME n > 2 PROVE IsAligned(offset(4))
    OBVIOUS
  <2>1. offset(4) = offset(3) + size(3)
    BY <1>1, <1>2, <1>7, <1>8
  <2> QED BY <1>1, <1>2, <1>10, <2>1, AlignedSum
<1>12. \A p \in 1 .. n + 1 : IsAligned(offset(p))
  BY <1>1, <1>9, <1>10, <1>11
<1>13. \A k : IsAligned(k) => k \in Nat
  BY DEF IsAligned
<1>14. \A p \in 1 .. n : offset(p + 1) = offset(p) + size(p)
  <2>1. offset(1 + 1) = offset(1) + size(1)
    BY <1>1, <1>2, <1>5, <1>6
  <2>2. n > 1 => offset(2 + 1) = offset(2) + size(2)
    BY <1>1, <1>2, <1>6, <1>7
  <2>3. n > 2 => offset(3 + 1) = offset(3) + size(3)
    BY <1>1, <1>2, <1>7, <1>8
  <2>4. \A p \in 1 .. n : p = 1 \/ (p = 2 /\ n > 1) \/ (p = 3 /\ n > 2)
    BY <1>1
  <2> QED BY <2>1, <2>2, <2>3, <2>4
<1>15. /\ offset(1) = 0
       /\ \A p \in 1 .. n + 1 : offset(p) \in Nat /\ IsAligned(offset(p))
       /\ \A p \in 1 .. n : offset(p + 1) = offset(p) + size(p)
  BY <1>5, <1>12, <1>13, <1>14
<1> QED BY <1>15 DEF n, size, offset

(* A pixel format with a size, which may be 0.                             *)
IsFormatOfSize(f) == IsFormat(f) /\ f.width \in Nat /\ f.height \in Nat

IsLaidOut(f) ==
  /\ f.data_size \in Nat
  /\ f.specs = Specs[f.fourcc] /\ IsLayout(f.specs)
  /\ DOMAIN f.planes = DOMAIN f.specs.planes
  /\ \A p \in DOMAIN f.planes :
       /\ f.planes[p].offset \in Nat /\ f.planes[p].offset <= f.data_size
       /\ f.planes[p].line_size = LineSize(f.specs.planes[p], f.width)
       /\ f.planes[p].line_size \in Nat
       /\ f.planes[p].pixel_size = PixelSize(f.specs.planes[p])
       /\ f.planes[p].pixel_size \in 1 .. 4
       /\ f.planes[p].height_div = HeightDiv(f.specs.planes[p])
       /\ f.planes[p].height_div \in 0 .. 2
  /\ f.planes[1].offset = 0
  /\ \A p \in DOMAIN f.planes :
       LET next == IF p + 1 \in DOMAIN f.planes THEN f.planes[p + 1].offset
                   ELSE f.data_size IN
       next = f.planes[p].offset + PlaneSize(f.specs.planes[p], f.width, f.height)

LEMMA FormatLaidOut ==
  ASSUME NEW f, IsFormatOfSize(f)
  PROVE  IsLaidOut(f)
<1> DEFINE specs == Specs[f.fourcc]
           w == f.width
           h == f.height
           n == Len(specs.planes)
           offset(p) == PlaneOffset(specs.planes, w, h, p)
           size(p) == PlaneSize(specs.planes[p], w, h)
<1>1. f = Format(f.fourcc, w, h) /\ f.fourcc \in SupportedFormats /\ w \in Nat /\ h \in Nat
  BY DEF IsFormatOfSize, IsFormat
<1>2. IsLayout(specs)
  BY <1>1, AllLayouts
<1>3. n \in 1 .. 3 /\ DOMAIN specs.planes = 1 .. n
  BY <1>2 DEF IsLayout
<1>4. /\ offset(1) = 0
      /\ \A p \in 1 .. n + 1 : offset(p) \in Nat /\ IsAligned(offset(p))
      /\ \A p \in 1 .. n : offset(p + 1) = offset(p) + size(p)
  BY <1>1, <1>2, PlaneOffsets
<1>5. Format(f.fourcc, w, h).specs = specs
  BY DEF Format, WithParams
<1>6. Format(f.fourcc, w, h).data_size = DataSize(specs.planes, w, h)
  BY DEF Format, WithParams
<1>7. Format(f.fourcc, w, h).planes = [p \in DOMAIN specs.planes |->
        [offset |-> offset(p), line_size |-> LineSize(specs.planes[p], w),
         pixel_size |-> PixelSize(specs.planes[p]), height_div |-> HeightDiv(specs.planes[p])]]
  BY DEF Format, WithParams
<1>8. DataSize(specs.planes, w, h) = AlignUp(offset(n + 1))
  BY DEF DataSize
<1>9. f.specs = specs
  BY <1>1, <1>5
<1>10. f.data_size = AlignUp(offset(n + 1))
  BY <1>1, <1>6, <1>8
<1>11. f.planes = [p \in DOMAIN specs.planes |->
        [offset |-> offset(p), line_size |-> LineSize(specs.planes[p], w),
         pixel_size |-> PixelSize(specs.planes[p]), height_div |-> HeightDiv(specs.planes[p])]]
  BY <1>1, <1>7
<1>12. \A p \in 1 .. n :
         /\ size(p) \in Nat
         /\ LineSize(specs.planes[p], w) \in Nat
         /\ PixelSize(specs.planes[p]) \in 1 .. 4
         /\ HeightDiv(specs.planes[p]) \in 0 .. 2
  BY <1>1, <1>2, <1>3, PlaneSizes DEF IsLayout, IsPlane
<1> HIDE DEF specs, n, offset, size
<1>13. f.data_size = offset(n + 1)
  BY <1>3, <1>4, <1>10, Aligned
<1>14. DOMAIN f.planes = 1 .. n
  BY <1>3, <1>11
<1>15. \A p \in 1 .. n :
         /\ f.planes[p].offset = offset(p) /\ f.planes[p].line_size = LineSize(specs.planes[p], w)
         /\ f.planes[p].pixel_size = PixelSize(specs.planes[p])
         /\ f.planes[p].height_div = HeightDiv(specs.planes[p])
  BY <1>3, <1>11
<1>16. \A p \in 1 .. n : offset(p) <= offset(n + 1)
  <2>1. \A p \in 1 .. n : offset(p) <= offset(p + 1)
    BY <1>4, <1>12, <1>3
  <2>2. n = 1 => 1 .. n = {1}
    OBVIOUS
  <2>3. n = 2 => offset(2) <= offset(3) /\ offset(1) <= offset(2)
    BY <2>1
  <2>4. n = 3 => offset(3) <= offset(4) /\ offset(2) <= offset(3) /\ offset(1) <= offset(2)
    BY <2>1
  <2> QED BY <2>1, <2>2, <2>3, <2>4, <1>3, <1>4
<1>17. \A p \in 1 .. n :
         offset(p + 1) = (IF p + 1 \in 1 .. n THEN f.planes[p + 1].offset ELSE f.data_size)
  BY <1>3, <1>13, <1>15
<1>18. \A p \in 1 .. n :
         (IF p + 1 \in 1 .. n THEN f.planes[p + 1].offset ELSE f.data_size)
           = f.planes[p].offset + PlaneSize(specs.planes[p], f.width, f.height)
  BY <1>4, <1>15, <1>17 DEF size
<1>19. f.data_size \in Nat /\ f.planes[1].offset = 0
  BY <1>3, <1>4, <1>13, <1>15
<1>20. \A p \in 1 .. n :
       /\ f.planes[p].offset \in Nat /\ f.planes[p].offset <= f.data_size
       /\ f.planes[p].line_size \in Nat
       /\ f.planes[p].pixel_size \in 1 .. 4
       /\ f.planes[p].height_div \in 0 .. 2
  <2> TAKE p \in 1 .. n
  <2>1. p \in 1 .. n + 1
    BY <1>3
  <2>2. offset(p) \in Nat /\ offset(p) <= offset(n + 1)
    BY <1>4, <1>16, <2>1
  <2> QED BY <1>12, <1>13, <1>15, <2>2
<1> QED
  BY <1>2, <1>3, <1>9, <1>14, <1>15, <1>18, <1>19, <1>20 DEF IsLaidOut, specs

(* The plane that a byte of a frame is in has lines.                       *)
PlaneAt(f, b) == Greatest({p \in DOMAIN f.planes : f.planes[p].offset <= b})

LEMMA PlaneFound ==
  ASSUME NEW f, IsFormatOfSize(f), NEW b \in 0 .. f.data_size - 1
  PROVE  /\ PlaneAt(f, b) \in DOMAIN f.planes
         /\ f.planes[PlaneAt(f, b)].offset <= b
         /\ f.planes[PlaneAt(f, b)].line_size > 0
<1> DEFINE T == {p \in DOMAIN f.planes : f.planes[p].offset <= b}
           n == Len(f.specs.planes)
           g == Greatest(T)
<1>1. IsLaidOut(f)
  BY FormatLaidOut
<1>2. n \in 1 .. 3 /\ DOMAIN f.planes = 1 .. n
  BY <1>1 DEF IsLaidOut, IsLayout
<1> HIDE DEF n
<1>3. b \in Nat /\ b < f.data_size
  BY <1>1 DEF IsLaidOut
<1>4. 1 \in T
  BY <1>1, <1>2, <1>3 DEF IsLaidOut
<1>5. T \in SUBSET (1 .. n) /\ T # {} /\ 1 \in Int /\ n \in Int
  BY <1>2, <1>4
<1>6. g \in T
  <2> HIDE DEF T
  <2> QED BY <1>5, GreatestInside, Zenon
<1>7. \A p \in T : p <= g
  <2>1. \E p \in T : \A q \in T : q <= p
    <3>1. T \in SUBSET (0 .. n) /\ n \in Nat
      BY <1>2, <1>5
    <3> HIDE DEF T
    <3> QED BY <1>5, <3>1, GreatestIndex
  <2> HIDE DEF T
  <2> QED BY <2>1 DEF Greatest
<1> HIDE DEF g
<1>8. g \in 1 .. n /\ f.planes[g].offset <= b
  BY <1>2, <1>6
<1>9. g + 1 \in 1 .. n => b < f.planes[g + 1].offset
  <2> SUFFICES ASSUME g + 1 \in 1 .. n, ~(b < f.planes[g + 1].offset) PROVE FALSE
    OBVIOUS
  <2>1. f.planes[g + 1].offset \in Nat
    BY <1>1, <1>2 DEF IsLaidOut
  <2>2. g + 1 \in T
    BY <1>2, <1>3, <2>1
  <2>3. g + 1 <= g
    BY <1>7, <2>2
  <2> QED BY <1>2, <1>8, <2>3
<1> HIDE DEF T
<1> DEFINE next == IF g + 1 \in DOMAIN f.planes THEN f.planes[g + 1].offset ELSE f.data_size
           size == PlaneSize(f.specs.planes[g], f.width, f.height)
           l == f.planes[g].line_size
<1>10. next = f.planes[g].offset + size
  BY <1>1, <1>2, <1>8 DEF IsLaidOut
<1>11. b < next
  BY <1>2, <1>3, <1>9
<1>12. l \in Nat /\ (l = 0 => size = 0) /\ f.planes[g].offset \in Nat
  <2>1. IsPlane(f.specs.planes[g]) /\ l = LineSize(f.specs.planes[g], f.width)
    BY <1>1, <1>2, <1>8 DEF IsLaidOut, IsLayout
  <2>2. f.planes[g].offset \in Nat
    BY <1>1, <1>2, <1>8 DEF IsLaidOut
  <2> QED BY <2>1, <2>2, PlaneSizes DEF IsFormatOfSize
<1> HIDE DEF next, size, l
<1>13. l > 0
  <2> SUFFICES ASSUME l = 0 PROVE FALSE
    BY <1>12
  <2>1. next = f.planes[g].offset
    BY <1>10, <1>12
  <2> QED BY <1>3, <1>8, <1>11, <1>12, <2>1
<1>14. PlaneAt(f, b) = g
  BY DEF PlaneAt, g, T
<1> QED BY <1>2, <1>8, <1>13, <1>14 DEF l

(***************************************************************************)
(* Whole frames of bytes.                                                  *)
(***************************************************************************)
AreBytes(data, n) ==
  /\ DOMAIN data = 0 .. n - 1
  /\ \A b \in DOMAIN data : data[b] \in 0 .. 255

LEMMA SumOfBits ==
  ASSUME NEW b0 \in {0, 1}, NEW b1 \in {0, 2}, NEW b2 \in {0, 4}, NEW b3 \in {0, 8},
         NEW b4 \in {0, 16}, NEW b5 \in {0, 32}, NEW b6 \in {0, 64}, NEW b7 \in {0, 128}
  PROVE  b0 + b1 + b2 + b3 + b4 + b5 + b6 + b7 \in 0 .. 255
OBVIOUS

LEMMA ByteFromBits ==
  ASSUME NEW bits
  PROVE  FromBits(bits) \in 0 .. 255
<1> DEFINE b(i) == IF i \in bits THEN 2 ^ i ELSE 0
<1>1. FromBits(bits) = b(0) + b(1) + b(2) + b(3) + b(4) + b(5) + b(6) + b(7)
  BY DEF FromBits
<1>2. /\ 2 ^ 0 = 1 /\ 2 ^ 1 = 2 /\ 2 ^ 2 = 4 /\ 2 ^ 3 = 8
      /\ 2 ^ 4 = 16 /\ 2 ^ 5 = 32 /\ 2 ^ 6 = 64 /\ 2 ^ 7 = 128
  OBVIOUS
<1>3. /\ b(0) \in {0, 1} /\ b(1) \in {0, 2} /\ b(2) \in {0, 4} /\ b(3) \in {0, 8}
      /\ b(4) \in {0, 16} /\ b(5) \in {0, 32} /\ b(6) \in {0, 64} /\ b(7) \in {0, 128}
  BY <1>2
<1> HIDE DEF b
<1>4. b(0) + b(1) + b(2) + b(3) + b(4) + b(5) + b(6) + b(7) \in 0 .. 255
  BY <1>3, SumOfBits
<1> QED BY <1>1, <1>4

LEMMA PaintedIsByte ==
  ASSUME NEW byte \in 0 .. 255, NEW b, NEW out_, NEW places, NEW pixels
  PROVE  PaintedByte(byte, b, out_, places, pixels) \in 0 .. 255
<1>1. ASSUME NEW x \in 0 .. 255, NEW i
      PROVE  WithComponent(x, b, out_, places, pixels, i) \in 0 .. 255
  <2>1. \A c, v : Put(x, c, v) \in 0 .. 255
    BY ByteFromBits DEF Put
  <2> QED BY <2>1 DEF WithComponent
<1> DEFINE x1 == WithComponent(byte, b, out_, places, pixels, 1)
           x2 == WithComponent(x1, b, out_, places, pixels, 2)
           x3 == WithComponent(x2, b, out_, places, pixels, 3)
           x4 == WithComponent(x3, b, out_, places, pixels, 4)
<1>2. PaintedByte(byte, b, out_, places, pixels) = x4
  BY DEF PaintedByte
<1>3. x1 \in 0 .. 255
  BY <1>1
<1> HIDE DEF x1
<1>4. x2 \in 0 .. 255
  BY <1>1, <1>3
<1> HIDE DEF x2
<1>5. x3 \in 0 .. 255
  BY <1>1, <1>4
<1> HIDE DEF x3
<1> QED BY <1>1, <1>2, <1>5

LEMMA PaintedBytes ==
  ASSUME NEW n, NEW data, AreBytes(data, n), NEW out_, NEW places, NEW pixels
  PROVE  AreBytes(PaintedAt(out_, places, data, pixels), n)
<1>1. PaintedAt(out_, places, data, pixels)
        = [b \in DOMAIN data |-> PaintedByte(data[b], b, out_, places, pixels)]
  BY SameTable DEF PaintedAt
<1>2. \A b \in DOMAIN data : PaintedByte(data[b], b, out_, places, pixels) \in 0 .. 255
  BY PaintedIsByte DEF AreBytes
<1> QED BY <1>1, <1>2 DEF AreBytes

LEMMA ConvertBytes ==
  ASSUME NEW n, NEW data, AreBytes(data, n), NEW p, NEW scaling, NEW src
  PROVE  AreBytes(Convert(p, scaling, src, data), n)
BY PaintedBytes DEF Convert, Painted

LEMMA NewBytes ==
  ASSUME NEW f
  PROVE  AreBytes(NewFrame(f).data, f.data_size)
<1>1. NewFrame(f).data = [b \in 0 .. f.data_size - 1 |-> 0]
  BY SameTable DEF NewFrame
<1> QED BY <1>1 DEF AreBytes

LEMMA RepeatedBytes ==
  ASSUME NEW f, IsFormatOfSize(f), NEW first, AreBytes(first, f.data_size)
  PROVE  AreBytes(Repeated(f, first), f.data_size)
<1> DEFINE filled(plane_b, offset) ==
             LET line == plane_b.line_size
                 lines == f.height \div 2 ^ plane_b.height_div IN
             /\ offset \div line < Max2(lines, 1)
             /\ offset % line < (line \div plane_b.pixel_size) * plane_b.pixel_size
           source(b, p) ==
             IF filled(p, b - p.offset)
             THEN first[p.offset + (((b - p.offset) % p.line_size) % p.pixel_size)]
             ELSE first[b]
<1>1. Repeated(f, first) = [b \in DOMAIN first |-> source(b, f.planes[PlaneAt(f, b)])]
  BY SameTable DEF Repeated, PlaneAt
<1>2. ASSUME NEW b \in 0 .. f.data_size - 1
      PROVE  source(b, f.planes[PlaneAt(f, b)]) \in 0 .. 255
  <2> DEFINE p == f.planes[PlaneAt(f, b)]
             j == p.offset + (((b - p.offset) % p.line_size) % p.pixel_size)
  <2>1. IsLaidOut(f) /\ PlaneAt(f, b) \in DOMAIN f.planes /\ p.offset <= b /\ p.line_size > 0
    BY FormatLaidOut, PlaneFound
  <2>2. p.offset \in Nat /\ p.line_size \in Nat /\ p.pixel_size \in 1 .. 4 /\ f.data_size \in Nat
    BY <2>1 DEF IsLaidOut
  <2>3. j \in 0 .. b
    <3> HIDE DEF p
    <3> DEFINE d == b - p.offset
               r == d % p.line_size
               s == r % p.pixel_size
    <3>1. d \in Nat
      BY <2>1, <2>2
    <3> HIDE DEF d
    <3>2. r \in Nat /\ r <= d
      BY <2>1, <2>2, <3>1
    <3> HIDE DEF r
    <3>3. s \in Nat /\ s <= r
      BY <2>2, <3>2
    <3> HIDE DEF s
    <3>4. j = p.offset + s
      BY DEF j, s, r, d
    <3>5. p.offset + d = b
      BY <2>2 DEF d
    <3> QED BY <2>1, <2>2, <3>1, <3>2, <3>3, <3>4, <3>5
  <2>4. first[j] \in 0 .. 255 /\ first[b] \in 0 .. 255
    <3>1. j \in 0 .. f.data_size - 1
      BY <2>2, <2>3
    <3> HIDE DEF j
    <3> QED BY <3>1 DEF AreBytes
  <2>5. source(b, p) \in {first[j], first[b]}
    OBVIOUS
  <2> HIDE DEF p, source, j
  <2>6. source(b, p) \in 0 .. 255
    BY <2>4, <2>5
  <2> QED BY <2>6 DEF p
<1> DEFINE value(b) == source(b, f.planes[PlaneAt(f, b)])
<1>3. Repeated(f, first) = [b \in DOMAIN first |-> value(b)]
  BY <1>1
<1>4. \A b \in 0 .. f.data_size - 1 : value(b) \in 0 .. 255
  BY <1>2
<1> HIDE DEF value
<1> QED BY <1>3, <1>4 DEF AreBytes

LEMMA OutputBytes ==
  ASSUME NEW f, IsFormatOfSize(f), NEW aspect
  PROVE  AreBytes(OutputFrame(f, aspect), f.data_size)
<1>1. AreBytes(FillRgba(f, <<0, 0, 0, 0>>), f.data_size)
  <2> DEFINE start == [format |-> f, xmin |-> 0, xmax |-> ReadWidth(f), ymin |-> 0, ymax |-> 1]
             p == [scale |-> start, out |-> Components(f.specs)]
             image == [q \in Columns(start) \X Lines(start) |->
                        FillPixel(LoadMatrix(Specs["ARGB32"], f.specs),
                                  f.specs.type, HasComponent(f.specs, "A"), <<0, 0, 0, 0>>)]
             painted == Painted(p, NewFrame(f).data, image)
  <2>1. FillRgba(f, <<0, 0, 0, 0>>) = Repeated(f, painted)
    BY DEF FillRgba
  <2>2. \A out_, places, pixels :
          AreBytes(PaintedAt(out_, places, NewFrame(f).data, pixels), f.data_size)
    BY NewBytes, PaintedBytes
  <2>3. AreBytes(painted, f.data_size)
    <3> HIDE DEF p, image
    <3> QED BY <2>2 DEF Painted
  <2> HIDE DEF painted
  <2> QED BY <2>1, <2>3, RepeatedBytes
<1> QED BY <1>1, NewBytes DEF OutputFrame

(* A converter makes frames of the pixel format it is asked for.            *)
LEMMA ScaledFormat ==
  ASSUME NEW source, NEW target, NEW aspect, IsSize(source), IsSize(target),
         target.fourcc \in SupportedFormats
  PROVE  LET f == ConfigureScaling(source, target, aspect).format IN
         /\ IsFormatOfSize(f) /\ f.fourcc = target.fourcc
         /\ f = Format(target.fourcc, f.width, f.height)
<1> DEFINE picture == PictureSize(source, target, aspect)
           width == IF aspect = "Keep" THEN picture[1] ELSE target.width
           height == IF aspect = "Keep" THEN picture[2] ELSE target.height
           f == ConfigureScaling(source, target, aspect).format
<1>1. picture[1] \in Nat /\ picture[2] \in Nat /\ width \in Nat /\ height \in Nat
  BY PictureFits DEF IsSize
<1>2. f = Format(target.fourcc, width, height)
  BY DEF ConfigureScaling, Scaled
<1> HIDE DEF picture, width, height, f
<1>3. f.fourcc = target.fourcc /\ f.width = width /\ f.height = height
  BY <1>2 DEF Format, WithParams
<1>4. IsFormatOfSize(f)
  BY <1>1, <1>2, <1>3 DEF IsFormatOfSize, IsFormat
<1> QED BY <1>2, <1>3, <1>4 DEF f

(* What a converter keeps is a whole frame of its format.                  *)
HasFrame(c) ==
  c.fc # None =>
    /\ c.fc.key.output.fourcc \in SupportedFormats
    /\ AreBytes(c.fc.data, c.fc.p.scale.format.data_size)

LEMMA WholeFrameMade ==
  ASSUME NEW c, IsConverter(c), HasFrame(c), IsSize(c.output), IsFormat(c.output),
         NEW input, IsSource(input)
  PROVE  LET result == ConvertFrame(c, input) IN
         /\ IsFormatOfSize(result.frame.format) /\ IsFrame(result.frame)
         /\ result.frame.format.fourcc = c.output.fourcc
         /\ HasFrame(result.converter)
<1>1. CASE input.format = c.output
  <2>1. ConvertFrame(c, input) = [frame |-> input, converter |-> c]
    BY <1>1 DEF ConvertFrame
  <2>2. IsFormatOfSize(input.format)
    BY DEF IsSource, IsPicture, IsSize, IsFormatOfSize
  <2> QED BY <1>1, <2>1, <2>2 DEF IsSource
<1>2. CASE input.format # c.output
  <2> DEFINE key == Key(c, input.format)
             fc == IF IsCurrent(c.fc, key) THEN c.fc ELSE Configured(key)
             data == Convert(fc.p, c.scaling, input, fc.data)
             f == fc.p.scale.format
             made == [format |-> f, data |-> data]
             d == [c EXCEPT !.fc = fc]
             e == [c EXCEPT !.fc = [fc EXCEPT !.data = data]]
  <2>1. IsConfigured(fc) /\ fc.key = key
    BY ConfiguredFits DEF IsPicture, IsSource
  <2>2. key.input = input.format /\ key.output = c.output
    BY DEF Key
  <2>3. ConvertFrame(c, input) = Converted(c, input, fc, data)
    BY <1>2 DEF ConvertFrame, PrivateConvert, ConvertWith
  <2> HIDE DEF key
  <2>4. key.output.fourcc \in SupportedFormats /\ IsSize(key.input) /\ IsSize(key.output)
    BY <2>2 DEF IsFormat, IsSource, IsPicture
  <2>5. IsFormatOfSize(f) /\ f.fourcc = c.output.fourcc
    <3> HIDE DEF fc
    <3>1. f = ConfigureScaling(key.input, key.output, key.aspect).format
      BY <2>1 DEF IsConfigured
    <3> QED BY <2>2, <2>4, <3>1, ScaledFormat
  <2>6. AreBytes(fc.data, f.data_size)
    <3>1. CASE IsCurrent(c.fc, key)
      BY <3>1 DEF IsCurrent, HasFrame
    <3>2. CASE ~IsCurrent(c.fc, key)
      <4>1. fc = Configured(key)
        BY <3>2
      <4>2. Configured(key).data = OutputFrame(Configured(key).p.scale.format, key.aspect)
        BY DEF Configured, ConfiguredWith
      <4> HIDE DEF fc
      <4> QED BY <2>5, <4>1, <4>2, OutputBytes
    <3> QED BY <3>1, <3>2
  <2> HIDE DEF fc
  <2>7. AreBytes(data, f.data_size)
    BY <2>6, ConvertBytes
  <2> HIDE DEF data
  <2>8. Converted(c, input, fc, data).frame \in {input, made}
        /\ Converted(c, input, fc, data).frame.format = f
    BY DEF Converted
  <2>9. Converted(c, input, fc, data).converter \in {d, e}
    BY DEF Converted
  <2>10. IsFrame(made)
    <3>1. made.format = f /\ made.data = data
      OBVIOUS
    <3> HIDE DEF made, f
    <3> QED BY <2>5, <2>7, <3>1 DEF IsFrame, IsFormatOfSize, IsFormat, AreBytes
  <2>11. HasFrame(d) /\ HasFrame(e)
    <3>1. d.fc = fc /\ e.fc = [fc EXCEPT !.data = data]
      BY DEF IsConverter
    <3>2. e.fc.key = key /\ e.fc.data = data /\ e.fc.p.scale.format = f
      BY <2>1, <3>1 DEF IsConfigured
    <3> HIDE DEF d, e
    <3>3. HasFrame(d)
      BY <2>1, <2>4, <2>6, <3>1 DEF HasFrame
    <3>4. HasFrame(e)
      <4> HIDE DEF f
      <4> QED BY <2>4, <2>7, <3>2 DEF HasFrame
    <3> QED BY <3>3, <3>4
  <2> HIDE DEF f, made, d, e
  <2> QED BY <2>3, <2>5, <2>8, <2>9, <2>10, <2>11 DEF IsSource
<1> QED BY <1>1, <1>2

(***************************************************************************)
(* A frame of a format of one plane whose pixels are bytes.                *)
(***************************************************************************)
RgbComponents(bytes) ==
  {Component(bytes[i], Len(bytes), i - 1, 0, 8, 0, 0) :
     i \in {j \in DOMAIN bytes : bytes[j] # "X"}}

LEMMA BytesPlane ==
  ASSUME NEW bytes \in RgbBytes
  PROVE  LET plane == Rgb8(bytes).planes[1] IN
         /\ Len(bytes) \in 3 .. 4
         /\ DOMAIN Rgb8(bytes).planes = {1}
         /\ plane.components = RgbComponents(bytes) /\ plane.bits = 8 * Len(bytes)
         /\ PixelSize(plane) = Len(bytes) /\ WidthDiv(plane) = 0 /\ HeightDiv(plane) = 0
<1> DEFINE k == RgbComponents(bytes)
           n == Len(bytes)
           plane == Rgb8(bytes).planes[1]
<1>1. Rgb8(bytes).planes = <<Plane(k, 8 * n)>>
  BY DEF Rgb8, RgbComponents
<1>2. n \in 3 .. 4 /\ 2 \in DOMAIN bytes /\ bytes[2] # "X"
  BY DEF RgbBytes
<1>3. \A c \in k : c.step = n /\ c.widthDiv = 0 /\ c.heightDiv = 0
  BY ComponentFields DEF RgbComponents
<1>4. k # {}
  BY <1>2 DEF RgbComponents
<1>5. plane.components = k /\ plane.bits = 8 * n /\ DOMAIN Rgb8(bytes).planes = {1}
  <2> HIDE DEF k, n
  <2> QED BY <1>1 DEF Plane
<1> HIDE DEF k, n, plane
<1>6. {c.step : c \in k} = {n} /\ {c.widthDiv : c \in k} = {0} /\ {c.heightDiv : c \in k} = {0}
  BY <1>3, <1>4
<1>7. n \in Int
  BY <1>2
<1>8. Greatest({n}) = n /\ Least({0}) = 0 /\ Greatest({0}) = 0
  BY <1>7 DEF Greatest, Least
<1>9. PixelSize(plane) = n /\ WidthDiv(plane) = 0 /\ HeightDiv(plane) = 0
  BY <1>5, <1>6, <1>8 DEF PixelSize, WidthDiv, HeightDiv
<1> QED BY <1>2, <1>5, <1>9 DEF n, plane, k

IsBytesFormat(f, bytes) ==
  /\ bytes \in RgbBytes /\ IsFormatOfSize(f) /\ f.specs = Rgb8(bytes)

LEMMA BytesLaidOut ==
  ASSUME NEW f, NEW bytes, IsBytesFormat(f, bytes)
  PROVE  LET plane == f.planes[1]
             n == Len(bytes) IN
         /\ n \in 3 .. 4 /\ f.width \in Nat /\ f.height \in Nat /\ f.data_size \in Nat
         /\ DOMAIN f.planes = {1}
         /\ plane.offset = 0 /\ plane.height_div = 0 /\ plane.pixel_size = n
         /\ plane.line_size \in Nat /\ f.width * n <= plane.line_size
         /\ f.height * plane.line_size \in Nat
         /\ f.height * plane.line_size <= f.data_size
<1> DEFINE plane == f.planes[1]
           s == f.specs.planes[1]
           n == Len(bytes)
           w == f.width
           h == f.height
           l == plane.line_size
<1>1. /\ n \in 3 .. 4 /\ DOMAIN f.specs.planes = {1}
      /\ s.bits = 8 * n /\ PixelSize(s) = n /\ WidthDiv(s) = 0 /\ HeightDiv(s) = 0
  BY BytesPlane DEF IsBytesFormat
<1>2. IsLaidOut(f) /\ w \in Nat /\ h \in Nat
  BY FormatLaidOut DEF IsBytesFormat, IsFormatOfSize
<1>3. /\ DOMAIN f.planes = {1} /\ plane.offset = 0 /\ plane.height_div = 0
      /\ plane.pixel_size = n /\ l = LineSize(s, w) /\ l \in Nat
      /\ f.data_size = 0 + PlaneSize(s, w, h) /\ f.data_size \in Nat
  BY <1>1, <1>2 DEF IsLaidOut
<1>4. IsPlane(s)
  BY <1>1, <1>2 DEF IsLaidOut, IsLayout
<1> HIDE DEF plane, s, n, w, h, l
<1>5. 2 ^ 0 = 1
  OBVIOUS
<1>6. w * n <= l
  <2> DEFINE m == w * n
  <2>1. m \in Nat
    BY <1>1, <1>2
  <2>2. w \div 2 ^ WidthDiv(s) = w
    BY <1>1, <1>2, <1>5
  <2>3. BytesUsed(s, w) = (8 * n * w) \div 8
    BY <1>1, <2>2 DEF BytesUsed
  <2>4. 8 * n * w = 8 * m
    BY <1>1, <1>2
  <2> HIDE DEF m
  <2>5. BytesUsed(s, w) = m
    BY <2>1, <2>3, <2>4
  <2>6. m <= l
    BY <1>3, <2>1, <2>5, Aligned DEF LineSize
  <2> QED BY <2>6 DEF m
<1>7. h * l \in Nat /\ l * h = h * l
  BY <1>2, <1>3
<1>8. h * l <= f.data_size
  <2> DEFINE m == h * l
  <2>1. (LineSize(s, w) * h) \div 2 ^ HeightDiv(s) <= PlaneSize(s, w, h)
        /\ PlaneSize(s, w, h) \in Nat
    BY <1>2, <1>4, PlaneSizes
  <2>2. LineSize(s, w) * h = m
    BY <1>3, <1>7
  <2> HIDE DEF m
  <2>3. m \div 1 = m
    BY <1>7 DEF m
  <2>4. m <= PlaneSize(s, w, h)
    BY <1>1, <1>5, <2>1, <2>2, <2>3
  <2> QED BY <1>3, <2>1, <2>4 DEF m
<1> QED BY <1>1, <1>2, <1>3, <1>6, <1>7, <1>8 DEF plane, n, w, h, l

LEMMA ProductBound ==
  ASSUME NEW a \in Nat, NEW b \in Nat, NEW n \in Nat, a < b
  PROVE  a * n \in Nat /\ b * n \in Nat /\ a * n + n <= b * n
<1>1. (a + 1) * n <= b * n
  BY ProductGrows
<1>2. (a + 1) * n = a * n + n
  OBVIOUS
<1> QED BY <1>1, <1>2

(* The bytes of the pixels lie in the frame, and each in its line.         *)
LEMMA ByteInside ==
  ASSUME NEW f, NEW bytes, IsBytesFormat(f, bytes),
         NEW x \in 0 .. f.width - 1, NEW y \in 0 .. f.height - 1, NEW o \in 0 .. Len(bytes) - 1
  PROVE  LET l == f.planes[1].line_size IN
         /\ Line(f, 1, y) = y * l /\ y * l \in Nat /\ y * l + l <= f.data_size
         /\ x * Len(bytes) + o \in 0 .. l - 1
         /\ y * l + (x * Len(bytes) + o) \in 0 .. f.data_size - 1
<1> DEFINE l == f.planes[1].line_size
           n == Len(bytes)
<1>1. /\ n \in 3 .. 4 /\ f.width \in Nat /\ f.height \in Nat /\ f.data_size \in Nat
      /\ f.planes[1].offset = 0 /\ f.planes[1].height_div = 0
      /\ l \in Nat /\ f.width * n <= l /\ f.height * l <= f.data_size
  BY BytesLaidOut
<1>2. x \in Nat /\ x < f.width /\ y \in Nat /\ y < f.height
  BY <1>1
<1>3. Line(f, 1, y) = y * l
  <2>1. Line(f, 1, y) = 0 + (y \div 2 ^ 0) * l
    BY <1>1 DEF Line
  <2>2. 2 ^ 0 = 1 /\ y \div 1 = y
    BY <1>2
  <2> HIDE DEF l
  <2>3. Line(f, 1, y) = 0 + y * l
    BY <2>1, <2>2
  <2> QED BY <1>1, <1>2, <2>3
<1> HIDE DEF l, n
<1>4. x * n \in Nat /\ x * n + n <= f.width * n /\ f.width * n \in Nat
  <2>1. x \in Nat /\ f.width \in Nat /\ n \in Nat /\ x < f.width
    BY <1>1, <1>2
  <2> QED BY <2>1, ProductBound, Zenon
<1>5. y * l \in Nat /\ y * l + l <= f.height * l /\ f.height * l \in Nat
  <2>1. y \in Nat /\ f.height \in Nat /\ l \in Nat /\ y < f.height
    BY <1>1, <1>2
  <2> QED BY <2>1, ProductBound, Zenon
<1> DEFINE a == x * n
           b == y * l
           wn == f.width * n
           hl == f.height * l
<1>6. o \in 0 .. n - 1
  BY DEF n
<1>7. a \in Nat /\ a + n <= wn /\ wn \in Nat /\ wn <= l /\ b \in Nat /\ b + l <= hl
      /\ hl \in Nat /\ hl <= f.data_size
  BY <1>1, <1>4, <1>5
<1> HIDE DEF a, b, wn, hl
<1> DEFINE size == f.data_size
<1>8. b + l <= size /\ a + o \in 0 .. l - 1 /\ b + (a + o) \in 0 .. size - 1
  <2>1. o \in Int /\ 0 <= o /\ o + 1 <= n /\ size \in Int /\ hl <= size /\ l \in Int /\ n \in Int
    BY <1>1, <1>6, <1>7
  <2> HIDE DEF size
  <2>2. b + l <= size
    BY <1>7, <2>1
  <2>3. 0 <= a + o /\ a + o + 1 <= l /\ a + o \in Int
    BY <1>7, <2>1
  <2> QED BY <1>7, <2>1, <2>2, <2>3
<1> QED BY <1>3, <1>7, <1>8 DEF a, b, l, n

LEMMA ArgbBytes ==
  ASSUME NEW f, IsFormatOfSize(f), f.fourcc = "ARGB32"
  PROVE  IsBytesFormat(f, <<"A", "R", "G", "B">>) /\ Len(<<"A", "R", "G", "B">>) = 4
<1>1. f.specs = Rgb8(<<"A", "R", "G", "B">>)
  BY KnownFormat, Argb32Bytes DEF IsFormatOfSize
<1>2. <<"A", "R", "G", "B">> \in RgbBytes
  BY DEF RgbBytes
<1> QED BY <1>1, <1>2 DEF IsBytesFormat

(***************************************************************************)
(* The filters make pixels of bytes of pixels of bytes.                    *)
(***************************************************************************)
IsPixel(p) == \A i \in 1 .. 4 : p[i] \in 0 .. 255

IsArgbSource(f) == IsSource(f) /\ f.format.fourcc = "ARGB32"

LEMMA ArgbSource ==
  ASSUME NEW f, IsArgbSource(f)
  PROVE  /\ IsFormatOfSize(f.format) /\ f.format.fourcc = "ARGB32"
         /\ IsBytesFormat(f.format, <<"A", "R", "G", "B">>)
         /\ Len(<<"A", "R", "G", "B">>) = 4
         /\ f.format.width \in Nat /\ f.format.height \in Nat
         /\ f.format.data_size \in Nat
         /\ DOMAIN f.data = 0 .. f.format.data_size - 1
         /\ \A b \in DOMAIN f.data : f.data[b] \in 0 .. 255
<1>1. IsFormatOfSize(f.format) /\ f.format.width \in Nat /\ f.format.height \in Nat
  BY DEF IsArgbSource, IsSource, IsPicture, IsSize, IsFormatOfSize
<1>2. f.format.fourcc = "ARGB32"
  BY DEF IsArgbSource
<1>3. IsBytesFormat(f.format, <<"A", "R", "G", "B">>) /\ Len(<<"A", "R", "G", "B">>) = 4
  BY <1>1, <1>2, ArgbBytes
<1>4. f.format.data_size \in Nat
  BY <1>3, BytesLaidOut
<1>5. DOMAIN f.data = 0 .. f.format.data_size - 1 /\ \A b \in DOMAIN f.data : f.data[b] \in 0 .. 255
  BY DEF IsArgbSource, IsSource, IsFrame
<1> QED BY <1>1, <1>2, <1>3, <1>4, <1>5

LEMMA PixelOfBytes ==
  ASSUME NEW f, IsArgbSource(f), NEW x \in 0 .. f.format.width - 1,
         NEW y \in 0 .. f.format.height - 1
  PROVE  IsPixel(PixelAt(f, x, y))
<1> DEFINE n == Len(<<"A", "R", "G", "B">>)
           l == f.format.planes[1].line_size
<1>1. /\ IsBytesFormat(f.format, <<"A", "R", "G", "B">>) /\ n = 4
      /\ f.format.width \in Nat /\ f.format.height \in Nat /\ f.format.data_size \in Nat
      /\ DOMAIN f.data = 0 .. f.format.data_size - 1
      /\ \A b \in DOMAIN f.data : f.data[b] \in 0 .. 255
  BY ArgbSource
<1>2. ASSUME NEW i \in 1 .. 4 PROVE PixelAt(f, x, y)[i] \in 0 .. 255
  <2> DEFINE o == i - 1
             b == Line(f.format, 1, y) + 4 * x + i - 1
  <2>1. o \in 0 .. n - 1
    BY <1>1
  <2>2. /\ Line(f.format, 1, y) = y * l /\ y * l \in Nat
        /\ y * l + (x * n + o) \in 0 .. f.format.data_size - 1
    BY <1>1, <2>1, ByteInside
  <2>3. b = y * l + (x * n + o)
    <3> DEFINE m == y * l
    <3>1. Line(f.format, 1, y) = m /\ m \in Nat
      BY <2>2
    <3>2. x \in Nat
      BY <1>1
    <3> HIDE DEF m
    <3>3. b = m + (x * n + o)
      BY <1>1, <3>1, <3>2
    <3> QED BY <3>3 DEF m
  <2>4. PixelAt(f, x, y)[i] = f.data[b]
    BY DEF PixelAt
  <2> HIDE DEF b
  <2>5. f.data[b] \in 0 .. 255
    BY <1>1, <2>2, <2>3
  <2> QED BY <2>4, <2>5
<1> QED BY <1>2 DEF IsPixel

LEMMA RedrawnWhole ==
  ASSUME NEW f, IsArgbSource(f), NEW line, NEW pixels,
         \A q \in DOMAIN pixels : IsPixel(pixels[q])
  PROVE  IsArgbSource(Redrawn(f, line, pixels))
<1> DEFINE value(b) ==
             LET x == (b % line) \div 4
                 y == b \div line IN
             IF <<x, y>> \in DOMAIN pixels THEN pixels[<<x, y>>][(b % 4) + 1] ELSE f.data[b]
           data == [b \in DOMAIN f.data |-> value(b)]
           g == [f EXCEPT !.data = data]
<1>1. Redrawn(f, line, pixels) = g
  <2>1. Redrawn(f, line, pixels) = [f EXCEPT !.data = Table(data)]
    BY DEF Redrawn
  <2> HIDE DEF data
  <2> QED BY <2>1, SameTable
<1>2. ASSUME NEW b \in DOMAIN f.data PROVE value(b) \in 0 .. 255
  <2>1. b \in Nat /\ f.data[b] \in 0 .. 255
    BY ArgbSource
  <2>2. (b % 4) + 1 \in 1 .. 4
    BY <2>1
  <2> DEFINE i == (b % 4) + 1
             q == <<(b % line) \div 4, b \div line>>
  <2>3. value(b) = IF q \in DOMAIN pixels THEN pixels[q][i] ELSE f.data[b]
    OBVIOUS
  <2> HIDE DEF i, q, value
  <2> QED BY <2>1, <2>2, <2>3 DEF IsPixel, i
<1> HIDE DEF value
<1>3. DOMAIN data = DOMAIN f.data /\ \A b \in DOMAIN data : data[b] \in 0 .. 255
  BY <1>2
<1>4. g.format = f.format /\ g.data = data /\ DOMAIN g = DOMAIN f
  BY DEF IsArgbSource, IsSource, IsPicture
<1> HIDE DEF g, data
<1>5. IsArgbSource(g)
  BY <1>3, <1>4 DEF IsArgbSource, IsSource, IsPicture, IsFrame
<1> QED BY <1>1, <1>5

LEMMA DrawnWhole ==
  ASSUME NEW f, IsArgbSource(f), NEW image, \A q \in DOMAIN image : IsPixel(image[q])
  PROVE  IsArgbSource(WithPixels(f, image))
<1> DEFINE line == f.format.planes[1].line_size
<1>1. f.format.fourcc = "ARGB32"
  BY ArgbSource
<1>2. Table(image) = image
  BY SameTable
<1>3. WithPixels(f, image) = Redrawn(f, line, image)
  BY <1>1, <1>2 DEF WithPixels
<1> HIDE DEF line
<1> QED BY <1>3, RedrawnWhole

(* The four ways to turn a frame.                                          *)
LEMMA MirrorWhole ==
  ASSUME NEW f, IsArgbSource(f), NEW horizontal, NEW vertical
  PROVE  IsArgbSource(Mirror(f, horizontal, vertical))
<1> DEFINE w == f.format.width
           h == f.format.height
           l == f.format.planes[1].line_size
<1>1. w \in Nat /\ h \in Nat /\ f.format.data_size \in Nat /\ f.format.fourcc = "ARGB32"
  BY ArgbSource
<1>2. ASSUME NEW i \in 0 .. w - 1 PROVE w - i - 1 \in 0 .. w - 1
  BY <1>1
<1>3. ASSUME NEW i \in 0 .. h - 1 PROVE h - i - 1 \in 0 .. h - 1
  BY <1>1
<1>4. IsArgbSource(MirrorHorizontal(f))
  <2> DEFINE image == [q \in Places(f) |->
        IF q[1] < w \div 2 \/ w - q[1] - 1 < w \div 2 THEN PixelAt(f, w - q[1] - 1, q[2])
        ELSE PixelAt(f, q[1], q[2])]
  <2>1. MirrorHorizontal(f) = WithPixels(f, image)
    BY DEF MirrorHorizontal
  <2>2. ASSUME NEW q \in Places(f) PROVE IsPixel(image[q])
    <3>1. q[1] \in 0 .. w - 1 /\ q[2] \in 0 .. h - 1
      BY DEF Places
    <3>2. IsPixel(PixelAt(f, w - q[1] - 1, q[2])) /\ IsPixel(PixelAt(f, q[1], q[2]))
      BY <1>2, <3>1, PixelOfBytes
    <3> QED BY <3>2
  <2> HIDE DEF image
  <2>3. DOMAIN image = Places(f)
    BY DEF image
  <2> QED BY <2>1, <2>2, <2>3, DrawnWhole
<1>5. IsArgbSource(MirrorBoth(f))
  <2> DEFINE pair(n, i) == i < n \div 2 \/ n - i - 1 < n \div 2
             middle == h % 2 # 0
             image == [q \in Places(f) |->
               IF pair(h, q[2]) THEN PixelAt(f, w - q[1] - 1, h - q[2] - 1)
               ELSE IF middle /\ pair(w, q[1]) THEN PixelAt(f, w - q[1] - 1, q[2])
               ELSE PixelAt(f, q[1], q[2])]
  <2>1. MirrorBoth(f) = WithPixels(f, image)
    BY DEF MirrorBoth
  <2>2. ASSUME NEW q \in Places(f) PROVE IsPixel(image[q])
    <3>1. q[1] \in 0 .. w - 1 /\ q[2] \in 0 .. h - 1
      BY DEF Places
    <3>2. /\ IsPixel(PixelAt(f, w - q[1] - 1, q[2])) /\ IsPixel(PixelAt(f, q[1], q[2]))
          /\ IsPixel(PixelAt(f, w - q[1] - 1, h - q[2] - 1))
      BY <1>2, <1>3, <3>1, PixelOfBytes
    <3> HIDE DEF pair, middle
    <3> QED BY <3>2
  <2> HIDE DEF image
  <2>3. DOMAIN image = Places(f)
    BY DEF image
  <2> QED BY <2>1, <2>2, <2>3, DrawnWhole
<1>6. IsArgbSource(MirrorVertical(f))
  <2> DEFINE value(b) == IF b \div l < h /\ (b \div l < h \div 2 \/ h - (b \div l) - 1 < h \div 2)
                         THEN f.data[l * (h - (b \div l) - 1) + (b % l)] ELSE f.data[b]
             data == [b \in DOMAIN f.data |-> value(b)]
             g == [f EXCEPT !.data = data]
  <2>1. MirrorVertical(f) = g
    <3>1. MirrorVertical(f) = [f EXCEPT !.data = Table(data)]
      BY <1>1 DEF MirrorVertical
    <3> HIDE DEF data
    <3> QED BY <3>1, SameTable
  <2>2. /\ l \in Nat /\ l > 0 /\ h * l \in Nat /\ h * l <= f.format.data_size
    <3> DEFINE n == Len(<<"A", "R", "G", "B">>)
    <3>1. n = 4 /\ l \in Nat /\ w * n <= l /\ h * l \in Nat /\ h * l <= f.format.data_size
      BY ArgbSource, BytesLaidOut
    <3>2. w > 1
      BY DEF IsArgbSource, IsSource, IsPicture, IsSize
    <3> HIDE DEF l, w
    <3> QED BY <1>1, <3>1, <3>2
  <2>3. ASSUME NEW b \in DOMAIN f.data PROVE value(b) \in 0 .. 255
    <3>1. b \in Nat /\ f.data[b] \in 0 .. 255
      BY ArgbSource
    <3> DEFINE y == b \div l
               r == b % l
               j == l * (h - y - 1) + r
    <3>2. y \in Nat /\ r \in Nat /\ r < l
      <4> HIDE DEF l
      <4> QED BY <2>2, <3>1
    <3> HIDE DEF y, r
    <3>3. y < h => j \in 0 .. f.format.data_size - 1
      <4> SUFFICES ASSUME y < h PROVE j \in 0 .. f.format.data_size - 1
        OBVIOUS
      <4> DEFINE z == h - y - 1
                 m == z * l
      <4>1. z \in Nat /\ z < h
        BY <1>1, <3>2
      <4> HIDE DEF z, l, h
      <4>2. m \in Nat /\ m + l <= h * l
        BY <1>1, <2>2, <4>1, ProductBound, Zenon
      <4>3. j = m + r
        <5>1. j = l * z + r
          BY DEF z
        <5> QED BY <2>2, <4>1, <5>1
      <4> DEFINE hl == h * l
      <4>4. hl \in Nat /\ hl <= f.format.data_size /\ m + l <= hl
        BY <2>2, <4>2
      <4> HIDE DEF m, hl, j
      <4> QED BY <1>1, <2>2, <3>2, <4>2, <4>3, <4>4
    <3>4. y < h => f.data[j] \in 0 .. 255
      BY <3>3, ArgbSource
    <3>5. value(b) \in {f.data[b], f.data[j]} /\ (~(y < h) => value(b) = f.data[b])
      BY DEF y, r
    <3> HIDE DEF value, j
    <3> QED BY <3>1, <3>4, <3>5
  <2> HIDE DEF value
  <2>4. DOMAIN data = DOMAIN f.data /\ \A b \in DOMAIN data : data[b] \in 0 .. 255
    BY <2>3
  <2>5. g.format = f.format /\ g.data = data /\ DOMAIN g = DOMAIN f
    BY DEF IsArgbSource, IsSource, IsPicture
  <2> HIDE DEF g, data
  <2>6. IsArgbSource(g)
    BY <2>4, <2>5 DEF IsArgbSource, IsSource, IsPicture, IsFrame
  <2> QED BY <2>1, <2>6
<1> QED BY <1>4, <1>5, <1>6 DEF Mirror

(* Hue, saturation and lightness, and back to bytes.                        *)
LEMMA HslColours ==
  ASSUME NEW h \in 0 .. 359, NEW s \in 0 .. 255, NEW l \in 0 .. 255
  PROVE  \A i \in 1 .. 3 : HslToRgb(h, s, l)[i] \in 0 .. 255
<1> DEFINE u == 255 - Abs(2 * l - 255)
           c == (s * u) \div 255
           v == 60 - Abs((h % 120) - 60)
           x == (c * v) \div 60
           rgb == << <<c, x, 0>>, <<x, c, 0>>, <<0, c, x>>,
                     <<0, x, c>>, <<x, 0, c>>, <<c, 0, x>> >>[(h \div 60) + 1]
<1>1. u \in 0 .. 255 /\ u <= 2 * l /\ u + 2 * l <= 510
  BY DEF Abs
<1>2. v \in 0 .. 60
  BY DEF Abs
<1> HIDE DEF u, v
<1>3. c \in 0 .. u
  <2> DEFINE m == s * u
  <2>1. m \in Nat /\ m <= 255 * u
    BY <1>1, ProductGrows
  <2> HIDE DEF m
  <2>2. m \div 255 \in 0 .. u
    BY <1>1, <2>1
  <2> QED BY <2>2 DEF m
<1> HIDE DEF c
<1>4. x \in 0 .. c
  <2> DEFINE m == c * v
  <2>1. m \in Nat /\ m <= 60 * c
    <3>1. v * c \in Nat /\ v * c <= 60 * c
      BY <1>1, <1>2, <1>3, ProductGrows
    <3> QED BY <1>1, <1>2, <1>3, <3>1
  <2> HIDE DEF m
  <2>2. c \in Nat
    BY <1>1, <1>3
  <2>3. m \div 60 \in 0 .. c
    BY <2>1, <2>2
  <2> QED BY <2>3 DEF m
<1> HIDE DEF x
<1>5. (h \div 60) + 1 \in 1 .. 6
  OBVIOUS
<1>6. \A i \in 1 .. 3 : rgb[i] \in {0, c, x}
  <2> DEFINE k == (h \div 60) + 1
  <2>1. k = 1 \/ k = 2 \/ k = 3 \/ k = 4 \/ k = 5 \/ k = 6
    BY <1>5
  <2>2. rgb \in {<<c, x, 0>>, <<x, c, 0>>, <<0, c, x>>, <<0, x, c>>, <<x, 0, c>>, <<c, 0, x>>}
    <3> HIDE DEF k
    <3>1. rgb = << <<c, x, 0>>, <<x, c, 0>>, <<0, c, x>>,
                   <<0, x, c>>, <<x, 0, c>>, <<c, 0, x>> >>[k]
      BY DEF k
    <3> HIDE DEF rgb
    <3> QED BY <2>1, <3>1
  <2> HIDE DEF rgb
  <2>3. \A i \in 1 .. 3 : i = 1 \/ i = 2 \/ i = 3
    OBVIOUS
  <2> QED BY <2>2, <2>3
<1>7. HslToRgb(h, s, l) = [i \in 1 .. 3 |-> (2 * rgb[i] + 2 * l - c) \div 2]
  BY DEF HslToRgb, c, x, u, v
<1> HIDE DEF rgb
<1>8. ASSUME NEW i \in 1 .. 3 PROVE (2 * rgb[i] + 2 * l - c) \div 2 \in 0 .. 255
  <2> DEFINE r == rgb[i]
  <2>1. r \in 0 .. c
    BY <1>1, <1>3, <1>4, <1>6
  <2> HIDE DEF r
  <2>2. (2 * r + 2 * l - c) \div 2 \in 0 .. 255
    <3>1. 2 * r + 2 * l - c \in 0 .. 510
      BY <1>1, <1>3, <2>1
    <3> DEFINE n == 2 * r + 2 * l - c
    <3> HIDE DEF n
    <3>2. n \in 0 .. 510
      BY <3>1 DEF n
    <3>3. n \div 2 \in 0 .. 255
      BY <3>2
    <3> QED BY <3>3 DEF n
  <2> QED BY <2>2 DEF r
<1> DEFINE colour(i) == (2 * rgb[i] + 2 * l - c) \div 2
<1>9. HslToRgb(h, s, l) = [i \in 1 .. 3 |-> colour(i)]
  BY <1>7
<1>10. \A i \in 1 .. 3 : colour(i) \in 0 .. 255
  BY <1>8
<1> HIDE DEF colour
<1> QED BY <1>9, <1>10

LEMMA HslOfPixel ==
  ASSUME NEW r \in 0 .. 255, NEW g \in 0 .. 255, NEW b \in 0 .. 255
  PROVE  LET hsl == RgbToHsl(r, g, b) IN hsl.h \in Int /\ hsl.s \in Int /\ hsl.l \in Int
<1> DEFINE max == Larger(r, Larger(g, b))
           min == Smaller(r, Smaller(g, b))
           c == max - min
           h == IF max = r THEN (g - b) % (6 * c)
                ELSE IF max = g THEN b - r + 2 * c
                ELSE r - g + 4 * c
           hsl == RgbToHsl(r, g, b)
           d == 255 - Abs(max + min - 255)
<1>1. max \in 0 .. 255 /\ min \in 0 .. 255 /\ min <= max
  BY DEF Larger, Smaller
<1> HIDE DEF max, min
<1>2. c \in Nat /\ c <= 255
  BY <1>1
<1>3. c # 0 => d \in Nat /\ d > 0
  BY <1>1 DEF Abs
<1>4. c # 0 => h \in Int
  <2> SUFFICES ASSUME c # 0 PROVE h \in Int
    OBVIOUS
  <2>1. (g - b) % (6 * c) \in Int
    <3> DEFINE m == 6 * c
               a == g - b
    <3>1. m \in Nat \ {0} /\ a \in Int
      BY <1>2
    <3> HIDE DEF m, a
    <3>2. a % m \in Int
      BY <3>1
    <3> QED BY <3>2 DEF m, a
  <2> HIDE DEF c
  <2> QED BY <1>2, <2>1
<1>5. hsl = IF c = 0 THEN [h |-> 0, s |-> 0, l |-> (max + min) \div 2]
            ELSE [h |-> (60 * h) \div c, s |-> (255 * c) \div d, l |-> (max + min) \div 2]
  BY DEF RgbToHsl, max, min
<1>6. (max + min) \div 2 \in Int
  BY <1>1
<1> HIDE DEF c, h, d, hsl
<1>7. c # 0 => (60 * h) \div c \in Int
  BY <1>2, <1>4
<1>8. c # 0 => (255 * c) \div d \in Int
  BY <1>2, <1>3
<1>9. hsl.h \in Int /\ hsl.s \in Int /\ hsl.l \in Int
  BY <1>5, <1>6, <1>7, <1>8
<1> QED BY <1>9 DEF hsl

LEMMA Coloured ==
  ASSUME NEW p, IsPixel(p), NEW rgb, \A i \in 1 .. 3 : rgb[i] \in 0 .. 255
  PROVE  IsPixel(WithColour(p, rgb))
<1>1. WithColour(p, rgb) = <<p[1], rgb[1], rgb[2], rgb[3]>>
  BY DEF WithColour
<1>2. p[1] \in 0 .. 255
  BY DEF IsPixel
<1>3. \A i \in 1 .. 4 : i = 1 \/ i = 2 \/ i = 3 \/ i = 4
  OBVIOUS
<1> QED BY <1>1, <1>2, <1>3 DEF IsPixel

LEMMA ClampedBetween ==
  ASSUME NEW x \in Int, NEW low \in Int, NEW high \in Int, low <= high
  PROVE  Clamp(low, x, high) \in low .. high
BY DEF Clamp

LEMMA HslPixel ==
  ASSUME NEW p, IsPixel(p), NEW hue \in Int, NEW saturation \in Int, NEW luminance \in Int
  PROVE  IsPixel(Hsl(p, hue, saturation, luminance))
<1> DEFINE hsl == RgbToHsl(p[2], p[3], p[4])
           h == (hsl.h + hue) % 360
           s == Clamp(0, hsl.s + saturation, 255)
           l == Clamp(0, hsl.l + luminance, 255)
<1>1. hsl.h \in Int /\ hsl.s \in Int /\ hsl.l \in Int
  <2>1. p[2] \in 0 .. 255 /\ p[3] \in 0 .. 255 /\ p[4] \in 0 .. 255
    BY DEF IsPixel
  <2> QED BY <2>1, HslOfPixel, Zenon
<1>2. Shifted(hsl, hue, saturation, luminance) = HslToRgb(h, s, l)
  BY DEF Shifted
<1> HIDE DEF hsl
<1>3. h \in 0 .. 359
  <2> DEFINE n == hsl.h + hue
  <2>1. n \in Int
    BY <1>1
  <2> HIDE DEF n
  <2>2. n % 360 \in 0 .. 359
    BY <2>1
  <2> QED BY <2>2 DEF n
<1>4. s \in 0 .. 255 /\ l \in 0 .. 255
  BY <1>1 DEF Clamp
<1> HIDE DEF h, s, l
<1>5. \A i \in 1 .. 3 : HslToRgb(h, s, l)[i] \in 0 .. 255
  BY <1>3, <1>4, HslColours
<1>6. IsPixel(WithColour(p, Shifted(hsl, hue, saturation, luminance)))
  BY <1>2, <1>5, Coloured
<1> QED BY <1>6 DEF Hsl, hsl

LEMMA ContrastByte ==
  ASSUME NEW c \in -255 .. 255, NEW i \in 0 .. 255
  PROVE  ContrastTable(c, i) \in 0 .. 255
<1> DEFINE num == 259 * (255 + c)
           den == 255 * (259 - c)
           a == num * (i - 128) + 128 * den
<1>1. den \in Nat \ {0} /\ num \in Int
  OBVIOUS
<1> HIDE DEF num, den
<1>2. a \in Int
  BY <1>1
<1> HIDE DEF a
<1>3. a \div den \in Int
  BY <1>1, <1>2
<1>4. ContrastTable(c, i) = Clamp(0, a \div den, 255)
  BY DEF ContrastTable, a, num, den
<1> QED BY <1>3, <1>4 DEF Clamp

LEMMA GammaByte ==
  ASSUME NEW c \in -255 .. 255, NEW i \in 0 .. 255
  PROVE  GammaTable(c, i) \in 0 .. 255
<1> DEFINE g == (255 + c) \div 2
           num == 2 * g - 255
           den == g * (255 - g)
           k == 255 * i - i * i
           a == num * k + den * i
<1>1. g \in 0 .. 255
  OBVIOUS
<1> HIDE DEF g
<1>2. num \in Int /\ k \in Int
  BY <1>1
<1>3. (g # 0 /\ g # 255) => den \in Nat \ {0}
  BY <1>1
<1>4. den \in Int
  BY <1>1
<1> HIDE DEF num, den, k
<1>5. a \in Int
  BY <1>2, <1>4
<1> HIDE DEF a
<1>6. (g # 0 /\ g # 255) => a \div den \in Int
  BY <1>3, <1>5
<1>7. GammaTable(c, i) = IF g = 0 THEN 0 ELSE IF g = 255 THEN 255
                         ELSE Clamp(0, a \div den, 255)
  BY DEF GammaTable, a, num, den, k, g
<1> QED BY <1>6, <1>7 DEF Clamp

LEMMA CurvePixel ==
  ASSUME NEW p, IsPixel(p), NEW c \in Int
  PROVE  IsPixel(Contrast(p, c)) /\ IsPixel(Gamma(p, c))
<1> DEFINE row == Clamp(-255, c, 255)
<1>1. row \in -255 .. 255
  BY DEF Clamp
<1> HIDE DEF row
<1>2. ASSUME NEW i \in 1 .. 3 PROVE p[i + 1] \in 0 .. 255
  BY DEF IsPixel
<1>3. \A i \in 1 .. 3 : /\ ContrastTable(row, p[i + 1]) \in 0 .. 255
                        /\ GammaTable(row, p[i + 1]) \in 0 .. 255
  BY <1>1, <1>2, ContrastByte, GammaByte
<1>4. IsPixel(WithColour(p, [i \in 1 .. 3 |-> ContrastTable(row, p[i + 1])]))
  BY <1>3, Coloured
<1>5. IsPixel(WithColour(p, [i \in 1 .. 3 |-> GammaTable(row, p[i + 1])]))
  BY <1>3, Coloured
<1> QED BY <1>4, <1>5 DEF Contrast, Gamma, row

LEMMA GrayPixel ==
  ASSUME NEW p, IsPixel(p), NEW gray
  PROVE  IsPixel(Gray(p, gray))
<1> DEFINE luma == GrayVal(p[2], p[3], p[4])
<1>1. p[2] \in 0 .. 255 /\ p[3] \in 0 .. 255 /\ p[4] \in 0 .. 255
  BY DEF IsPixel
<1>2. luma \in 0 .. 255
  <2> DEFINE r == p[2]
             g == p[3]
             b == p[4]
             n == 11 * r + 16 * g + 5 * b
  <2>1. r \in 0 .. 255 /\ g \in 0 .. 255 /\ b \in 0 .. 255
    BY <1>1
  <2>2. luma = n \div 32
    BY DEF GrayVal
  <2> HIDE DEF luma, r, g, b
  <2>3. n \in 0 .. 8160
    BY <2>1
  <2> HIDE DEF n
  <2>4. n \div 32 \in 0 .. 255
    BY <2>3
  <2> QED BY <2>2, <2>4
<1> HIDE DEF luma
<1>3. \A i \in 1 .. 3 : <<luma, luma, luma>>[i] \in 0 .. 255
  <2>1. \A i \in 1 .. 3 : i = 1 \/ i = 2 \/ i = 3
    OBVIOUS
  <2> QED BY <1>2, <2>1
<1>4. IsPixel(Grayed(p, luma))
  BY <1>3, Coloured DEF Grayed
<1> QED BY <1>4 DEF Gray, luma

LEMMA SwappedPixel ==
  ASSUME NEW p, IsPixel(p), NEW swap
  PROVE  IsPixel(SwapRgb(p, swap))
<1>1. IsPixel(<<p[3], p[2], p[1], p[4]>>)
  <2>1. \A i \in 1 .. 4 : i = 1 \/ i = 2 \/ i = 3 \/ i = 4
    OBVIOUS
  <2>2. p[1] \in 0 .. 255 /\ p[2] \in 0 .. 255 /\ p[3] \in 0 .. 255 /\ p[4] \in 0 .. 255
    BY DEF IsPixel
  <2> QED BY <2>1, <2>2 DEF IsPixel
<1> QED BY <1>1 DEF SwapRgb

LEMMA ApplyWhole ==
  ASSUME NEW f, IsArgbSource(f), NEW c, c.hue \in Int, c.saturation \in Int,
         c.brightness \in Int, c.gamma \in Int, c.contrast \in Int
  PROVE  IsArgbSource(Apply(f, c))
<1> DEFINE pixel(x, y) ==
             LET hsl == Hsl(PixelAt(f, x, y), c.hue, c.saturation, c.brightness)
                 curves == Contrast(Gamma(hsl, c.gamma), c.contrast) IN
             SwapRgb(Gray(curves, c.gray), c.swap_rgb)
           image == [q \in Places(f) |-> pixel(q[1], q[2])]
<1>1. Apply(f, c) = WithPixels(f, image)
  BY DEF Apply
<1>2. ASSUME NEW q \in Places(f) PROVE IsPixel(pixel(q[1], q[2]))
  <2> DEFINE p == PixelAt(f, q[1], q[2])
             hsl == Hsl(p, c.hue, c.saturation, c.brightness)
             gamma == Gamma(hsl, c.gamma)
             curves == Contrast(gamma, c.contrast)
             gray == Gray(curves, c.gray)
  <2>1. q[1] \in 0 .. f.format.width - 1 /\ q[2] \in 0 .. f.format.height - 1
    BY DEF Places
  <2>2. IsPixel(p)
    BY <2>1, PixelOfBytes
  <2> HIDE DEF p
  <2>3. IsPixel(hsl)
    BY <2>2, HslPixel
  <2> HIDE DEF hsl
  <2>4. IsPixel(gamma)
    BY <2>3, CurvePixel
  <2> HIDE DEF gamma
  <2>5. IsPixel(curves)
    BY <2>4, CurvePixel
  <2> HIDE DEF curves
  <2>6. IsPixel(gray)
    BY <2>5, GrayPixel
  <2> HIDE DEF gray
  <2>7. IsPixel(SwapRgb(gray, c.swap_rgb))
    BY <2>6, SwappedPixel
  <2> QED BY <2>7 DEF gray, curves, gamma, hsl, p
<1> HIDE DEF pixel
<1>3. DOMAIN image = Places(f) /\ \A q \in Places(f) : IsPixel(image[q])
  BY <1>2
<1> HIDE DEF image
<1> QED BY <1>1, <1>3, DrawnWhole

(***************************************************************************)
(* The frames on their way are whole frames of bytes.                      *)
(***************************************************************************)
Stages == {"idle", "convert_in", "filter", "convert_out", "convert_default"}

FramesWhole ==
  /\ IsFormat(format)
  /\ current = None \/ IsSource(current)
  /\ default = None \/ IsArgbSource(default)
  /\ written = None \/ IsFrame(written)
  /\ (frame = None) <=> (pc = "idle")
  /\ pc # "idle" => IsSource(frame)
  /\ pc \in {"filter", "convert_out"} => IsArgbSource(frame)

WholeInv ==
  /\ PipelineInv /\ ControlsInv
  /\ pc \in Stages
  /\ changes \in Nat /\ runs \in Nat
  /\ HasFrame(in) /\ HasFrame(out)
  /\ FramesWhole

LEMMA SourceIsFrame == ASSUME NEW f, IsSource(f) PROVE f # None /\ IsFrame(f)
BY DEF IsSource, IsPicture, None

LEMMA NothingConverted ==
  ASSUME NEW c, c.fc = None
  PROVE  HasFrame(c)
BY DEF HasFrame

LEMMA InitWhole == Init => WholeInv
<1> SUFFICES ASSUME Init PROVE WholeInv
  OBVIOUS
<1>1. PipelineInv /\ ControlsInv
  BY InitPipeline, InitControls
<1>2. pc = "idle" /\ frame = None /\ written = None
  BY DEF Init
<1>3. HasFrame(in) /\ HasFrame(out)
  <2>1. in = NewConverter /\ out = NewConverter
    BY DEF Init
  <2>2. NewConverter.fc = None
    BY DEF NewConverter
  <2> QED BY <2>1, <2>2, NothingConverted
<1>4. PICK s \in Setups : /\ format = s.format /\ current = s.current
                          /\ default = s.default
                          /\ changes = s.changes /\ runs = s.runs
  BY DEF Init
<1>5. /\ IsFormat(format) /\ changes \in Nat /\ runs \in Nat
      /\ current = None \/ IsSource(current)
      /\ default = None \/ IsArgbSource(default)
  BY <1>4, FramePipelineAssumption DEF IsArgbSource
<1> QED BY <1>1, <1>2, <1>3, <1>5 DEF WholeInv, FramesWhole, Stages

(* What happens around the clock.                                          *)
LEMMA WholeAround ==
  ASSUME WholeInv, [Next]_vars, ClockUnchanged, changes' \in Nat, IsFormat(format'),
         current' = None \/ IsSource(current'), default' = default
  PROVE  WholeInv'
<1>1. UNCHANGED <<in, out, pc, frame, written, runs>>
  BY DEF ClockUnchanged
<1>2. PipelineInv' /\ ControlsInv'
  BY PipelineStep, ControlsStep DEF WholeInv
<1>3. HasFrame(in)' /\ HasFrame(out)'
  BY <1>1 DEF WholeInv, HasFrame
<1>4. FramesWhole'
  BY <1>1 DEF WholeInv, FramesWhole
<1> QED BY <1>1, <1>2, <1>3, <1>4 DEF WholeInv

LEMMA MadeUpWhole ==
  ASSUME NEW f, IsSize(f), IsFormat(f)
  PROVE  IsSource([NewFrame(f) EXCEPT !.data = [b \in DOMAIN @ |-> 77]])
<1> DEFINE n == NewFrame(f)
           data == [b \in DOMAIN n.data |-> 77]
           g == [n EXCEPT !.data = data]
<1>1. DOMAIN n.data = 0 .. f.data_size - 1
  BY NewBytes DEF AreBytes
<1>2. DOMAIN n = {"format", "data"} /\ n.format = f
  BY DEF NewFrame
<1>3. DOMAIN data = 0 .. f.data_size - 1 /\ \A b \in DOMAIN data : data[b] \in 0 .. 255
  BY <1>1
<1>4. [n EXCEPT !.data = [b \in DOMAIN @ |-> 77]] = g
  OBVIOUS
<1> HIDE DEF n, data
<1>5. DOMAIN g = {"format", "data"} /\ g.format = f /\ g.data = data
  BY <1>2
<1> HIDE DEF g
<1>6. IsSource(g)
  BY <1>3, <1>5 DEF IsSource, IsPicture, IsFrame, IsFormat
<1> QED BY <1>4, <1>6 DEF n

LEMMA WholeReadFrame ==
  ASSUME WholeInv, [Next]_vars, ReadFrame
  PROVE  WholeInv'
<1> DEFINE random == [NewFrame(format) EXCEPT !.data = [b \in DOMAIN @ |-> 77]]
           using_default == current = None /\ default # None
           f == IF current # None THEN current
                ELSE IF using_default THEN default ELSE random
<1>1. /\ UNCHANGED <<in, out, changes, format, current, default>>
      /\ pc = "idle" /\ runs > 0 /\ runs' = runs - 1
  BY DEF ReadFrame, environment
<1>2. PipelineInv' /\ ControlsInv'
  BY PipelineStep, ControlsStep DEF WholeInv
<1>3. HasFrame(in)' /\ HasFrame(out)' /\ changes' \in Nat /\ runs' \in Nat
  BY <1>1 DEF WholeInv, HasFrame
<1>4. IsSource(f)
  <2>1. IsSize(format) /\ IsFormat(format)
    BY DEF WholeInv, PipelineInv, FramesArePictures, FramesWhole
  <2>2. IsSource(random)
    BY <2>1, MadeUpWhole
  <2> HIDE DEF random
  <2> QED BY <2>2 DEF WholeInv, FramesWhole, IsArgbSource
<1>5. \/ written' = f /\ pc' = "idle" /\ frame' = frame
      \/ written' = written /\ frame' = f /\ pc' \in {"convert_in", "convert_default"}
  BY DEF ReadFrame, Write
<1> HIDE DEF f
<1>6. pc' \in Stages
  BY <1>5 DEF Stages
<1>7. FramesWhole'
  BY <1>1, <1>4, <1>5, SourceIsFrame DEF WholeInv, FramesWhole
<1> QED BY <1>2, <1>3, <1>6, <1>7 DEF WholeInv

LEMMA SetWhole ==
  ASSUME NEW c, IsConverter(c), HasFrame(c), NEW target, NEW values
  PROVE  /\ IsConverter(Set(c, target, values)) /\ HasFrame(Set(c, target, values))
         /\ Set(c, target, values).output = target
<1>1. /\ DOMAIN Set(c, target, values) = DOMAIN c
      /\ Set(c, target, values).fc = c.fc
      /\ Set(c, target, values).output = target
  BY DEF Set, IsConverter
<1> QED BY <1>1 DEF IsConverter, HasFrame

LEMMA WholeConvertIn ==
  ASSUME WholeInv, [Next]_vars, ConvertIn
  PROVE  WholeInv'
<1> DEFINE target == ArgbOf(frame)
           c == Set(in, target, controls)
<1>1. /\ pc = "convert_in" /\ pc' = "filter"
      /\ frame' = ConvertFrame(c, frame).frame /\ in' = ConvertFrame(c, frame).converter
      /\ UNCHANGED <<out, written, changes, runs, format, current, default>>
  BY DEF ConvertIn, environment, ArgbOf
<1>2. PipelineInv' /\ ControlsInv'
  BY PipelineStep, ControlsStep DEF WholeInv
<1>3. IsSource(frame) /\ IsConverter(in) /\ HasFrame(in)
  BY <1>1 DEF WholeInv, FramesWhole, PipelineInv, ConvertersFit
<1>4. IsSize(target) /\ IsFormat(target) /\ target.fourcc = "ARGB32"
  <2>1. IsPicture(frame)
    BY <1>3 DEF IsSource
  <2>2. /\ target.fourcc = "ARGB32" /\ target.width = frame.format.width
        /\ target.height = frame.format.height /\ "ARGB32" \in SupportedFormats
    BY <2>1, Argb32Bytes DEF ArgbOf, Format, WithParams
  <2>3. target = Format(target.fourcc, target.width, target.height)
    BY <2>2 DEF ArgbOf
  <2> HIDE DEF target
  <2> QED BY <2>1, <2>2, <2>3 DEF IsPicture, IsSize, IsFormat
<1> HIDE DEF target
<1>5. IsConverter(c) /\ HasFrame(c) /\ c.output = target
  BY <1>3, SetWhole
<1> HIDE DEF c
<1> DEFINE result == ConvertFrame(c, frame)
<1>6. /\ IsFormatOfSize(result.frame.format) /\ IsFrame(result.frame)
      /\ result.frame.format.fourcc = "ARGB32" /\ HasFrame(result.converter)
  BY <1>3, <1>4, <1>5, WholeFrameMade
<1> HIDE DEF result
<1>7. frame' = result.frame /\ in' = result.converter
  BY <1>1 DEF result
<1>8. IsPicture(frame')
  BY <1>1, <1>2 DEF PipelineInv, FramesArePictures
<1>9. IsArgbSource(frame') /\ HasFrame(in)'
  BY <1>6, <1>7, <1>8 DEF IsArgbSource, IsSource, IsFormatOfSize
<1>10. HasFrame(out)'
  BY <1>1 DEF WholeInv, HasFrame
<1>11. FramesWhole' /\ pc' \in Stages /\ changes' \in Nat /\ runs' \in Nat
  BY <1>1, <1>9, SourceIsFrame DEF WholeInv, FramesWhole, IsArgbSource, Stages
<1> QED BY <1>2, <1>9, <1>10, <1>11 DEF WholeInv

LEMMA WholeFilter ==
  ASSUME WholeInv, [Next]_vars, Filter
  PROVE  WholeInv'
<1> DEFINE m == Mirror(frame, flips[1], flips[2])
<1>1. /\ pc = "filter" /\ pc' = "convert_out" /\ frame' = Apply(m, controls)
      /\ UNCHANGED <<in, out, written, changes, runs, format, current, default>>
  BY DEF Filter, environment
<1>2. PipelineInv' /\ ControlsInv'
  BY PipelineStep, ControlsStep DEF WholeInv
<1>3. IsArgbSource(m)
  BY <1>1, MirrorWhole DEF WholeInv, FramesWhole
<1> HIDE DEF m
<1>4. /\ controls.hue \in Int /\ controls.saturation \in Int /\ controls.brightness \in Int
      /\ controls.gamma \in Int /\ controls.contrast \in Int
  <2>1. AreControls(controls, Shared \cup DOMAIN CaptureControls)
    BY DEF WholeInv, ControlsInv
  <2>2. {"hue", "saturation", "brightness", "gamma", "contrast"} \subseteq DOMAIN CaptureControls
    BY Names
  <2>3. /\ controls.hue \in -359 .. 359 /\ controls.saturation \in -255 .. 255
        /\ controls.brightness \in -255 .. 255 /\ controls.gamma \in -255 .. 255
        /\ controls.contrast \in -255 .. 255
    BY <2>1, <2>2 DEF AreControls, ControlValues
  <2>4. \A n \in -359 .. 359 : n \in Int
    OBVIOUS
  <2>5. \A n \in -255 .. 255 : n \in Int
    OBVIOUS
  <2>6. controls.hue \in Int
    BY <2>3, <2>4
  <2>7. controls.saturation \in Int /\ controls.brightness \in Int
    BY <2>3, <2>5
  <2>8. controls.gamma \in Int /\ controls.contrast \in Int
    BY <2>3, <2>5
  <2> QED BY <2>6, <2>7, <2>8
<1>5. IsArgbSource(frame')
  BY <1>1, <1>3, <1>4, ApplyWhole
<1>6. HasFrame(in)' /\ HasFrame(out)'
  BY <1>1 DEF WholeInv, HasFrame
<1>7. FramesWhole' /\ pc' \in Stages /\ changes' \in Nat /\ runs' \in Nat
  BY <1>1, <1>5, SourceIsFrame DEF WholeInv, FramesWhole, IsArgbSource, Stages
<1> QED BY <1>2, <1>6, <1>7 DEF WholeInv

LEMMA WholeConvertOut ==
  ASSUME WholeInv, [Next]_vars, ConvertOut
  PROVE  WholeInv'
<1> DEFINE c == Set(out, format, controls)
<1>1. /\ pc \in {"convert_out", "convert_default"} /\ pc' = "idle" /\ frame' = None
      /\ written' = ConvertFrame(c, frame).frame /\ out' = ConvertFrame(c, frame).converter
      /\ UNCHANGED <<in, changes, runs, format, current, default>>
  BY DEF ConvertOut, Write, environment
<1>2. PipelineInv' /\ ControlsInv'
  BY PipelineStep, ControlsStep DEF WholeInv
<1>3. /\ IsSource(frame) /\ IsConverter(out) /\ HasFrame(out)
      /\ IsSize(format) /\ IsFormat(format)
  BY <1>1 DEF WholeInv, FramesWhole, PipelineInv, ConvertersFit, FramesArePictures
<1>4. IsConverter(c) /\ HasFrame(c) /\ c.output = format
  BY <1>3, SetWhole
<1> HIDE DEF c
<1>5. IsFrame(ConvertFrame(c, frame).frame) /\ HasFrame(ConvertFrame(c, frame).converter)
  BY <1>3, <1>4, WholeFrameMade
<1>6. HasFrame(in)' /\ HasFrame(out)'
  BY <1>1, <1>5 DEF WholeInv, HasFrame
<1>7. FramesWhole' /\ pc' \in Stages /\ changes' \in Nat /\ runs' \in Nat
  BY <1>1, <1>5 DEF WholeInv, FramesWhole, Stages
<1> QED BY <1>2, <1>6, <1>7 DEF WholeInv

LEMMA WholeStep == WholeInv /\ [Next]_vars => WholeInv'
<1> SUFFICES ASSUME WholeInv, [Next]_vars PROVE WholeInv'
  OBVIOUS
<1> DEFINE Around == /\ ClockUnchanged /\ changes' \in Nat /\ IsFormat(format')
                     /\ current' = None \/ IsSource(current')
                     /\ default' = default
<1>0. Around => WholeInv'
  BY WholeAround
<1>1. ASSUME NEW c \in CaptureChanges, SetCaptureControl(c[1], c[2]) PROVE Around
  BY <1>1 DEF SetCaptureControl, Change, WholeInv, FramesWhole
<1>2. ASSUME NEW c \in OutputChanges, SetOutputControl(c[1], c[2]) PROVE Around
  BY <1>2 DEF SetOutputControl, Change, WholeInv, FramesWhole
<1>3. ASSUME NEW f \in Sources, Send(f) PROVE Around
  BY <1>3, FramePipelineAssumption DEF Send, Change, WholeInv, FramesWhole
<1>4. ASSUME NEW f \in Formats, SetFormat(f) PROVE Around
  BY <1>4, FramePipelineAssumption DEF SetFormat, Change, WholeInv, FramesWhole
<1>5. CASE UNCHANGED vars
  <2>1. Around
    BY <1>5 DEF vars, ClockUnchanged, WholeInv, FramesWhole
  <2> QED BY <1>0, <2>1
<1> HIDE DEF Around
<1> QED
  BY <1>0, <1>1, <1>2, <1>3, <1>4, <1>5, WholeReadFrame, WholeConvertIn, WholeFilter,
     WholeConvertOut DEF Next

(* Whatever the device, the sizes, the formats and the controls are: every *)
(* frame on its way has a byte for each that its format names, and no byte *)
(* more, no filter and no conversion makes a value that is not a byte, and *)
(* between the two converters frames are of ARGB32                         *)
(* (akvcam_device_clock_run, akvcam_frame_convert, akvcam_frame_filter).   *)
THEOREM FramePipelineTypes == Spec => []TypeOK
<1>1. WholeInv => TypeOK
  <2> SUFFICES ASSUME WholeInv PROVE TypeOK
    OBVIOUS
  <2>1. \A f \in {current, default, frame, written} \ {None} : IsFrame(f)
    BY SourceIsFrame DEF WholeInv, FramesWhole, IsArgbSource, Stages
  <2>2. pc \in {"filter", "convert_out"} => frame.format.fourcc = "ARGB32"
    BY DEF WholeInv, FramesWhole, IsArgbSource
  <2> QED BY <2>1, <2>2 DEF WholeInv, FramesWhole, TypeOK, Stages
<1> QED BY <1>1, InitWhole, WholeStep, PTL DEF Spec

(***************************************************************************)
(* Where the components of a pixel are, in formats whose pixels are bytes. *)
(***************************************************************************)
LEMMA QuotientUnique ==
  ASSUME NEW a \in Nat, NEW b \in Nat, NEW n \in Nat, NEW r \in 0 .. n - 1,
         NEW s \in 0 .. n - 1, a * n + r = b * n + s
  PROVE  a = b /\ r = s
<1>1. ASSUME NEW c \in Nat, NEW d \in Nat, NEW t \in 0 .. n - 1, NEW u \in 0 .. n - 1,
             c < d
      PROVE  c * n + t # d * n + u
  <2>1. c * n \in Nat /\ d * n \in Nat /\ c * n + n <= d * n
    BY <1>1, ProductBound
  <2> DEFINE p == c * n
             q == d * n
  <2>2. p \in Nat /\ q \in Nat /\ p + n <= q
    BY <2>1
  <2> HIDE DEF p, q
  <2>3. p + t # q + u
    BY <2>2
  <2> QED BY <2>3 DEF p, q
<1>2. ~(a < b) /\ ~(b < a)
  BY <1>1
<1>3. a = b
  BY <1>2
<1> DEFINE p == a * n
<1>4. p \in Nat /\ p + r = p + s
  BY <1>3
<1> HIDE DEF p
<1> QED BY <1>3, <1>4

OffsetOf(bytes, i) == Components(Rgb8(bytes))[i].component.offset

LEMMA BytesComponents ==
  ASSUME NEW bytes \in RgbBytes, NEW i \in {1, 2, 3}
  PROVE  LET c == Components(Rgb8(bytes))[i] IN
         /\ i \in DOMAIN Components(Rgb8(bytes))
         /\ c.plane = 1 /\ c.component \in RgbComponents(bytes)
         /\ c.component.type = <<"R", "G", "B">>[i]
<1> DEFINE specs == Rgb8(bytes)
           t == <<"R", "G", "B">>[i]
           types == IF HasComponent(specs, "A") THEN Append(<<"R", "G", "B">>, "A")
                    ELSE <<"R", "G", "B">>
<1>1. Components(specs) = [k \in DOMAIN types |-> Located(specs, types[k])]
  BY DEF Components, MainComponents, Rgb8
<1>2. i \in DOMAIN types /\ types[i] = t
  OBVIOUS
<1>3. DOMAIN specs.planes = {1} /\ specs.planes[1].components = RgbComponents(bytes)
  BY BytesPlane
<1> HIDE DEF types
<1>4. i \in DOMAIN Components(specs) /\ Components(specs)[i] = Located(specs, t)
  BY <1>1, <1>2
<1>5. Holds(specs, t, 1)
  <2>1. PICK j \in DOMAIN bytes : bytes[j] = t
    BY DEF RgbBytes
  <2>2. t # "X"
    OBVIOUS
  <2> DEFINE c == Component(bytes[j], Len(bytes), j - 1, 0, 8, 0, 0)
  <2>3. c \in RgbComponents(bytes)
    BY <2>1, <2>2 DEF RgbComponents
  <2>4. c.type = t
    BY <2>1 DEF Component
  <2> HIDE DEF c, t, specs
  <2> QED BY <1>3, <2>3, <2>4 DEF Holds
<1> HIDE DEF specs, t
<1>6. PlaneOf(specs, t) = 1 /\ ComponentOf(specs, t) \in RgbComponents(bytes)
      /\ ComponentOf(specs, t).type = t
  BY <1>3, <1>5, ComponentFound
<1> QED BY <1>4, <1>6 DEF Located, specs, t

LEMMA ByteComponent ==
  ASSUME NEW bytes \in RgbBytes, NEW c \in RgbComponents(bytes)
  PROVE  /\ c.step = Len(bytes) /\ c.widthDiv = 0 /\ IsWhole(c)
         /\ c.offset \in 0 .. Len(bytes) - 1 /\ c.type = bytes[c.offset + 1]
<1>1. PICK j \in DOMAIN bytes : c = Component(bytes[j], Len(bytes), j - 1, 0, 8, 0, 0)
  BY DEF RgbComponents
<1>2. DOMAIN bytes = 1 .. Len(bytes)
  BY DEF RgbBytes
<1>3. /\ c.step = Len(bytes) /\ c.widthDiv = 0 /\ c.shift = 0 /\ c.depth = 8
      /\ c.offset = j - 1 /\ c.type = bytes[j]
  BY <1>1 DEF Component
<1>4. Len(bytes) \in 3 .. 4 /\ j \in 1 .. Len(bytes)
  BY <1>2, BytesPlane
<1>5. j - 1 \in 0 .. Len(bytes) - 1 /\ j - 1 + 1 = j
  BY <1>4
<1> QED BY <1>3, <1>5 DEF IsWhole

LEMMA OffsetsDiffer ==
  ASSUME NEW bytes \in RgbBytes, NEW i \in {1, 2, 3}
  PROVE  /\ OffsetOf(bytes, i) \in 0 .. Len(bytes) - 1
         /\ \A j \in {1, 2, 3} : OffsetOf(bytes, i) = OffsetOf(bytes, j) => i = j
<1> DEFINE o(k) == OffsetOf(bytes, k)
<1>1. \A k \in {1, 2, 3} : /\ o(k) \in 0 .. Len(bytes) - 1
                           /\ bytes[o(k) + 1] = <<"R", "G", "B">>[k]
  BY BytesComponents, ByteComponent DEF OffsetOf
<1> HIDE DEF o
<1>2. ASSUME NEW j \in {1, 2, 3}, o(i) = o(j) PROVE i = j
  <2>1. <<"R", "G", "B">>[i] = <<"R", "G", "B">>[j]
    BY <1>1, <1>2
  <2> QED BY <2>1
<1> QED BY <1>1, <1>2 DEF o

(* The byte of component i of a pixel.                                      *)
ByteOf(f, bytes, i, x, y) ==
  y * f.planes[1].line_size + (x * Len(bytes) + OffsetOf(bytes, i))

LEMMA ByteAddress ==
  ASSUME NEW f, NEW bytes, IsBytesFormat(f, bytes), NEW x \in 0 .. f.width - 1,
         NEW y \in 0 .. f.height - 1, NEW i \in {1, 2, 3}
  PROVE  LET c == Components(f.specs)[i] IN
         /\ Address(f, c, x, y) = ByteOf(f, bytes, i, x, y)
         /\ Line(f, c.plane, y) = y * f.planes[1].line_size
         /\ InLine(c.component, x) = x * Len(bytes) + OffsetOf(bytes, i)
         /\ ByteOf(f, bytes, i, x, y) \in 0 .. f.data_size - 1
         /\ IsWhole(c.component)
<1> DEFINE c == Components(f.specs)[i]
           n == Len(bytes)
           o == OffsetOf(bytes, i)
           l == f.planes[1].line_size
<1>1. bytes \in RgbBytes /\ f.specs = Rgb8(bytes)
  BY DEF IsBytesFormat
<1>2. c.plane = 1 /\ c.component.step = n /\ c.component.widthDiv = 0
      /\ IsWhole(c.component) /\ c.component.offset = o
  BY <1>1, BytesComponents, ByteComponent DEF OffsetOf
<1>3. o \in 0 .. n - 1
  BY <1>1, OffsetsDiffer
<1>4. n \in 3 .. 4 /\ f.width \in Nat
  BY BytesLaidOut
<1> HIDE DEF o
<1>5. Line(f, 1, y) = y * l /\ y * l + (x * n + o) \in 0 .. f.data_size - 1
  BY <1>3, ByteInside
<1> HIDE DEF c, l
<1>6. InLine(c.component, x) = x * n + o
  <2>1. 2 ^ 0 = 1 /\ x \div 1 = x
    BY <1>4
  <2>2. InLine(c.component, x) = (x \div 2 ^ 0) * n + o
    BY <1>2 DEF InLine
  <2> QED BY <2>1, <2>2
<1>7. Address(f, c, x, y) = y * l + (x * n + o)
  BY <1>2, <1>5, <1>6 DEF Address
<1> QED BY <1>2, <1>5, <1>6, <1>7 DEF ByteOf, c, o, l

(* No two components of any pixels share a byte.                           *)
LEMMA OneByteEach ==
  ASSUME NEW f, NEW bytes, IsBytesFormat(f, bytes),
         NEW x \in 0 .. f.width - 1, NEW y \in 0 .. f.height - 1, NEW i \in {1, 2, 3},
         NEW v \in 0 .. f.width - 1, NEW w \in 0 .. f.height - 1, NEW j \in {1, 2, 3},
         ByteOf(f, bytes, i, x, y) = ByteOf(f, bytes, j, v, w)
  PROVE  x = v /\ y = w /\ i = j
<1> DEFINE n == Len(bytes)
           l == f.planes[1].line_size
           o == OffsetOf(bytes, i)
           p == OffsetOf(bytes, j)
           r == x * n + o
           s == v * n + p
<1>1. o \in 0 .. n - 1 /\ p \in 0 .. n - 1 /\ (o = p => i = j)
  BY OffsetsDiffer DEF IsBytesFormat
<1>2. n \in Nat /\ l \in Nat /\ f.width \in Nat /\ f.height \in Nat
  BY BytesLaidOut
<1>3. x \in Nat /\ y \in Nat /\ v \in Nat /\ w \in Nat
  BY <1>2
<1> HIDE DEF o, p
<1>4. r \in 0 .. l - 1 /\ s \in 0 .. l - 1
  BY <1>1, ByteInside
<1>5. y * l + r = w * l + s
  BY DEF ByteOf, o, p
<1> HIDE DEF l, n
<1>6. y = w /\ r = s
  <2> HIDE DEF r, s
  <2>1. l \in Nat /\ y \in Nat /\ w \in Nat /\ r \in 0 .. l - 1 /\ s \in 0 .. l - 1
    BY <1>2, <1>3, <1>4
  <2> QED BY <2>1, <1>5, QuotientUnique
<1>7. x = v /\ o = p
  <2>1. n \in Nat /\ x \in Nat /\ v \in Nat /\ o \in 0 .. n - 1 /\ p \in 0 .. n - 1
    BY <1>1, <1>2, <1>3 DEF n
  <2>2. x * n + o = v * n + p
    BY <1>6
  <2> QED BY <2>1, <2>2, QuotientUnique
<1> QED BY <1>1, <1>6, <1>7

(***************************************************************************)
(* What is painted on a byte of such a format.                             *)
(***************************************************************************)
LEMMA LastOfOne ==
  ASSUME NEW place, NEW v \in DOMAIN place, v \in Int,
         \A w \in DOMAIN place : place[w] = place[v] => w = v
  PROVE  place[v] \in DOMAIN Lasts(place) /\ Lasts(place)[place[v]] = v
<1>1. Lasts(place) = [b \in {place[w] : w \in DOMAIN place} |->
                       Greatest({w \in DOMAIN place : place[w] = b})]
  BY SameTable DEF Lasts
<1>2. {w \in DOMAIN place : place[w] = place[v]} = {v}
  OBVIOUS
<1>3. Greatest({v}) = v
  BY DEF Greatest
<1>4. Lasts(place)[place[v]] = Greatest({w \in DOMAIN place : place[w] = place[v]})
  BY <1>1
<1>5. place[v] \in DOMAIN Lasts(place)
  BY <1>1
<1> QED BY <1>2, <1>3, <1>4, <1>5

LEMMA PutWhole ==
  ASSUME NEW byte, NEW c, IsWhole(c), NEW v \in 0 .. 255
  PROVE  Put(byte, c, v) = v
<1> DEFINE bits == {j \in 0 .. 7 : Bit(v, j)}
           b(i) == IF i \in bits THEN 2 ^ i ELSE 0
<1>1. Put(byte, c, v) = FromBits(bits)
  <2>1. \A j \in 0 .. 7 : j \in 0 .. 0 + 8 - 1 /\ j >= 0 /\ j - 0 = j
    OBVIOUS
  <2>2. Put(byte, c, v) = FromBits({j \in 0 .. 7 :
          \/ j \notin 0 .. 0 + 8 - 1 /\ Bit(byte, j)
          \/ j >= 0 /\ Bit(v, j - 0)})
    BY DEF Put, IsWhole
  <2>3. {j \in 0 .. 7 : \/ j \notin 0 .. 0 + 8 - 1 /\ Bit(byte, j)
                        \/ j >= 0 /\ Bit(v, j - 0)} = bits
    BY <2>1
  <2> QED BY <2>2, <2>3
<1>2. /\ 2 ^ 0 = 1 /\ 2 ^ 1 = 2 /\ 2 ^ 2 = 4 /\ 2 ^ 3 = 8
      /\ 2 ^ 4 = 16 /\ 2 ^ 5 = 32 /\ 2 ^ 6 = 64 /\ 2 ^ 7 = 128
  OBVIOUS
<1>3. /\ b(0) = IF (v \div 1) % 2 = 1 THEN 1 ELSE 0
      /\ b(1) = IF (v \div 2) % 2 = 1 THEN 2 ELSE 0
      /\ b(2) = IF (v \div 4) % 2 = 1 THEN 4 ELSE 0
      /\ b(3) = IF (v \div 8) % 2 = 1 THEN 8 ELSE 0
  BY <1>2 DEF Bit
<1>4. /\ b(4) = IF (v \div 16) % 2 = 1 THEN 16 ELSE 0
      /\ b(5) = IF (v \div 32) % 2 = 1 THEN 32 ELSE 0
      /\ b(6) = IF (v \div 64) % 2 = 1 THEN 64 ELSE 0
      /\ b(7) = IF (v \div 128) % 2 = 1 THEN 128 ELSE 0
  BY <1>2 DEF Bit
<1>5. FromBits(bits) = b(0) + b(1) + b(2) + b(3) + b(4) + b(5) + b(6) + b(7)
  BY DEF FromBits
<1> HIDE DEF b
<1>6. b(0) + b(1) + b(2) + b(3) + b(4) + b(5) + b(6) + b(7) = v
  BY <1>3, <1>4
<1> QED BY <1>1, <1>5, <1>6

(* The whole frame is painted on, and it is of such a format.              *)
IsBytesTarget(s, bytes) ==
  /\ IsBytesFormat(s.format, bytes)
  /\ s.xmin = 0 /\ s.xmax = s.format.width
  /\ s.ymin = 0 /\ s.ymax = s.format.height

LEMMA WritersOfByte ==
  ASSUME NEW s, NEW bytes, IsBytesTarget(s, bytes),
         NEW x \in 0 .. s.format.width - 1, NEW y \in 0 .. s.format.height - 1,
         NEW i \in {1, 2, 3}, NEW j \in {1, 2, 3}
  PROVE  LET w == Writers(Placed(s, Components(s.format.specs)[j]),
                          ByteOf(s.format, bytes, i, x, y)) IN
         (i = j => w = {<<x, y>>}) /\ (i # j => w = {})
<1> DEFINE f == s.format
           c == Components(f.specs)[j]
           b == ByteOf(f, bytes, i, x, y)
           lines == [w \in Lines(s) |-> Line(f, c.plane, w)]
           columns == [v \in Columns(s) |-> InLine(c.component, v)]
           place == Placed(s, c)
           m(w) == w * f.planes[1].line_size
           k(v) == v * Len(bytes) + OffsetOf(bytes, j)
<1>1. place.line = Lasts(lines) /\ place.column = Lasts(columns)
  BY DEF Placed
<1>2. IsBytesFormat(f, bytes) /\ f.width \in Nat /\ f.height \in Nat
  BY BytesLaidOut DEF IsBytesTarget
<1>3. Lines(s) = 0 .. f.height - 1 /\ Columns(s) = 0 .. f.width - 1
  BY DEF IsBytesTarget, Lines, Columns
<1>4. \A w \in 0 .. f.height - 1 : lines[w] = m(w)
  <2> SUFFICES ASSUME NEW w \in 0 .. f.height - 1 PROVE lines[w] = m(w)
    OBVIOUS
  <2>1. 0 \in 0 .. f.width - 1
    BY <1>2
  <2>2. Line(f, c.plane, w) = m(w)
    <3> HIDE DEF c
    <3> QED BY <1>2, <2>1, ByteAddress DEF c
  <2> QED BY <1>3, <2>2
<1>5. \A v \in 0 .. f.width - 1 : columns[v] = k(v)
  <2> SUFFICES ASSUME NEW v \in 0 .. f.width - 1 PROVE columns[v] = k(v)
    OBVIOUS
  <2>1. 0 \in 0 .. f.height - 1
    BY <1>2
  <2>2. InLine(c.component, v) = k(v)
    BY <1>2, <2>1, ByteAddress
  <2> QED BY <1>3, <2>2
<1>6. DOMAIN lines = 0 .. f.height - 1 /\ DOMAIN columns = 0 .. f.width - 1
  BY <1>3
<1> HIDE DEF place, lines, columns
<1>7. \A w \in 0 .. f.height - 1 : \A v \in 0 .. f.width - 1 :
        ByteOf(f, bytes, j, v, w) = m(w) + k(v)
  BY DEF ByteOf
<1>8. ASSUME NEW w \in 0 .. f.height - 1, NEW v \in 0 .. f.width - 1, b = m(w) + k(v)
      PROVE  x = v /\ y = w /\ i = j
  <2>1. ByteOf(f, bytes, i, x, y) = ByteOf(f, bytes, j, v, w)
    BY <1>7, <1>8
  <2> HIDE DEF f, m, k, b
  <2> QED BY <1>2, <2>1, OneByteEach DEF f
<1>9. \A w \in 0 .. f.height - 1 : m(w) \in Int
  BY <1>2, BytesLaidOut
<1>10. \A v \in 0 .. f.width - 1 : k(v) \in Int
  <2>1. OffsetOf(bytes, j) \in Int /\ Len(bytes) \in Int
    BY <1>2, BytesLaidOut, OffsetsDiffer DEF IsBytesFormat
  <2> QED BY <1>2, <2>1
<1>11. b \in Int
  <2>1. b \in 0 .. f.data_size - 1
    BY <1>2, ByteAddress
  <2>2. f.data_size \in Nat
    BY <1>2, BytesLaidOut
  <2> HIDE DEF b
  <2> QED BY <2>1, <2>2
<1>12. i = j => b = m(y) + k(x)
  BY <1>7
<1>13. DOMAIN place.line = {lines[w] : w \in 0 .. f.height - 1}
       /\ DOMAIN place.column = {columns[v] : v \in 0 .. f.width - 1}
  <2>1. \A p : DOMAIN Lasts(p) = {p[v] : v \in DOMAIN p}
    BY SameTable DEF Lasts
  <2> QED BY <1>1, <1>6, <2>1
<1> DEFINE keys == {a \in DOMAIN place.line : b - a \in DOMAIN place.column}
<1>14. Writers(place, b) = {<<place.column[b - a], place.line[a]>> : a \in keys}
  BY DEF Writers
<1> HIDE DEF m, k, b, f, c
<1>15. ASSUME NEW a \in keys PROVE i = j /\ a = m(y) /\ b - a = k(x)
  <2>1. PICK w \in 0 .. f.height - 1 : a = m(w)
    BY <1>4, <1>13
  <2>2. PICK v \in 0 .. f.width - 1 : b - a = k(v)
    BY <1>5, <1>13
  <2>3. b = m(w) + k(v)
    BY <1>9, <1>10, <1>11, <2>1, <2>2
  <2>4. x = v /\ y = w /\ i = j
    BY <1>8, <2>3
  <2> QED BY <2>1, <2>2, <2>4
<1>16. CASE i # j
  <2>1. keys = {}
    BY <1>15, <1>16
  <2> HIDE DEF keys
  <2>2. Writers(place, b) = {}
    BY <1>14, <2>1
  <2> QED BY <1>16, <2>2 DEF place, b, c, f
<1>17. CASE i = j
  <2>1. x \in 0 .. f.width - 1 /\ y \in 0 .. f.height - 1
    BY DEF f
  <2>2. b = m(y) + k(x) /\ b - m(y) = k(x)
    BY <1>9, <1>10, <1>11, <1>12, <1>17, <2>1
  <2>3. m(y) \in keys
    BY <1>4, <1>5, <1>13, <2>1, <2>2
  <2>4. keys = {m(y)}
    BY <1>15, <2>3
  <2>5. place.line[m(y)] = y
    <3>1. \A w \in 0 .. f.height - 1 : lines[w] = lines[y] => w = y
      <4> SUFFICES ASSUME NEW w \in 0 .. f.height - 1, lines[w] = lines[y] PROVE w = y
        BY <1>6
      <4>1. m(w) = m(y)
        BY <1>4, <2>1
      <4> QED BY <1>8, <2>1, <2>2, <4>1
    <3>2. y \in Int
      BY <1>2, <2>1
    <3>3. y \in DOMAIN lines /\ \A w \in DOMAIN lines : lines[w] = lines[y] => w = y
      BY <1>6, <2>1, <3>1
    <3>4. Lasts(lines)[lines[y]] = y
      BY <3>2, <3>3, LastOfOne
    <3>5. lines[y] = m(y)
      BY <1>4, <2>1
    <3> QED BY <1>1, <3>4, <3>5
  <2>6. place.column[k(x)] = x
    <3>1. \A v \in 0 .. f.width - 1 : columns[v] = columns[x] => v = x
      <4> SUFFICES ASSUME NEW v \in 0 .. f.width - 1, columns[v] = columns[x] PROVE v = x
        BY <1>6
      <4>1. k(v) = k(x)
        BY <1>5, <2>1
      <4> QED BY <1>8, <2>1, <2>2, <4>1
    <3>2. x \in Int
      BY <1>2, <2>1
    <3>3. x \in DOMAIN columns /\ \A v \in DOMAIN columns : columns[v] = columns[x] => v = x
      BY <1>6, <2>1, <3>1
    <3>4. Lasts(columns)[columns[x]] = x
      BY <3>2, <3>3, LastOfOne
    <3>5. columns[x] = k(x)
      BY <1>5, <2>1
    <3> QED BY <1>1, <3>4, <3>5
  <2> HIDE DEF keys
  <2>7. Writers(place, b) = {<<x, y>>}
    BY <1>14, <2>2, <2>4, <2>5, <2>6
  <2> QED BY <1>17, <2>7 DEF place, b, c, f
<1> QED BY <1>16, <1>17

(* Of three components painted each ends up in the byte of its pixel.      *)
Paints(s, bytes, places, pixels) ==
  /\ IsBytesTarget(s, bytes)
  /\ \A j \in DOMAIN Components(s.format.specs) :
       places[j] = Placed(s, Components(s.format.specs)[j])
  /\ \A q \in Columns(s) \X Lines(s) : DOMAIN pixels[q] = 1 .. 3

IsByteOf(v, pixels, x, y, i) == pixels[<<x, y>>][i] = v /\ v \in 0 .. 255

LEMMA PaintedPixel ==
  ASSUME NEW s, NEW bytes, NEW places, NEW pixels, Paints(s, bytes, places, pixels),
         NEW x \in 0 .. s.format.width - 1, NEW y \in 0 .. s.format.height - 1,
         NEW i \in {1, 2, 3}, NEW byte, NEW value, IsByteOf(value, pixels, x, y, i)
  PROVE  PaintedByte(byte, ByteOf(s.format, bytes, i, x, y), Components(s.format.specs),
                     places, pixels) = value
<1> DEFINE f == s.format
           out_ == Components(f.specs)
           b == ByteOf(f, bytes, i, x, y)
           v == pixels[<<x, y>>][i]
<1>13. IsBytesTarget(s, bytes)
  BY DEF Paints
<1>14. \A j \in DOMAIN out_ : places[j] = Placed(s, out_[j])
  BY DEF Paints
<1>15. \A q \in Columns(s) \X Lines(s) : DOMAIN pixels[q] = 1 .. 3
  BY DEF Paints
<1>16. v = value /\ v \in 0 .. 255
  BY DEF IsByteOf
<1>1. IsBytesFormat(f, bytes) /\ bytes \in RgbBytes /\ f.specs = Rgb8(bytes)
      /\ f.width \in Nat /\ f.height \in Nat
  BY <1>13, BytesLaidOut DEF IsBytesTarget, IsBytesFormat
<1>2. \A j \in {1, 2, 3} : j \in DOMAIN out_
  BY <1>1, BytesComponents
<1>3. <<x, y>> \in Columns(s) \X Lines(s)
  BY <1>13 DEF IsBytesTarget, Columns, Lines
<1>4. ASSUME NEW j \in {1, 2, 3}
      PROVE  (i = j => Writers(places[j], b) = {<<x, y>>}) /\ (i # j => Writers(places[j], b) = {})
  <2>1. places[j] = Placed(s, out_[j])
    BY <1>2, <1>14
  <2> DEFINE w == Writers(Placed(s, out_[j]), b)
  <2>2. (i = j => w = {<<x, y>>}) /\ (i # j => w = {})
    BY <1>13, WritersOfByte
  <2> HIDE DEF b, out_
  <2> QED BY <2>1, <2>2
<1>5. IsWhole(out_[i].component)
  BY <1>1, ByteAddress
<1>6. ASSUME NEW p, NEW j \in {1, 2, 3}
      PROVE  WithComponent(p, b, out_, places, pixels, j) = IF i = j THEN v ELSE p
  <2> DEFINE written_ == {q \in Writers(places[j], b) : j \in DOMAIN pixels[q]}
  <2>1. WithComponent(p, b, out_, places, pixels, j)
          = IF written_ = {} THEN p
            ELSE Put(p, out_[j].component, pixels[CHOOSE q \in written_ : TRUE][j])
    BY <1>2 DEF WithComponent
  <2> HIDE DEF b, out_
  <2>2. CASE i = j
    <3>1. written_ = {<<x, y>>}
      BY <1>3, <1>4, <1>15, <2>2
    <3> HIDE DEF written_
    <3>2. (CHOOSE q \in written_ : TRUE) = <<x, y>>
      BY <3>1
    <3>3. WithComponent(p, b, out_, places, pixels, j) = Put(p, out_[i].component, v)
      BY <2>1, <2>2, <3>1, <3>2
    <3> QED BY <1>5, <1>16, <2>2, <3>3, PutWhole
  <2>3. CASE i # j
    <3>1. written_ = {}
      BY <1>4, <2>3
    <3> QED BY <2>1, <2>3, <3>1
  <2> QED BY <2>2, <2>3
<1>7. ASSUME NEW p PROVE WithComponent(p, b, out_, places, pixels, 4) = p
  <2>1. CASE 4 \in DOMAIN out_
    <3>1. AreBounded(s)
      BY <1>1, <1>13 DEF AreBounded, IsBytesTarget
    <3>2. Writers(places[4], b) \subseteq Columns(s) \X Lines(s)
      BY <1>14, <2>1, <3>1, WritersInside
    <3>3. {q \in Writers(places[4], b) : 4 \in DOMAIN pixels[q]} = {}
      BY <1>15, <3>2
    <3> HIDE DEF b, out_
    <3> QED BY <3>3 DEF WithComponent
  <2>2. CASE 4 \notin DOMAIN out_
    BY <2>2 DEF WithComponent
  <2> QED BY <2>1, <2>2
<1> HIDE DEF b, out_, v
<1> DEFINE x1 == WithComponent(byte, b, out_, places, pixels, 1)
           x2 == WithComponent(x1, b, out_, places, pixels, 2)
           x3 == WithComponent(x2, b, out_, places, pixels, 3)
           x4 == WithComponent(x3, b, out_, places, pixels, 4)
<1>8. PaintedByte(byte, b, out_, places, pixels) = x4
  BY DEF PaintedByte
<1>9. x4 = x3
  BY <1>7
<1>10. /\ x1 = IF i = 1 THEN v ELSE byte
       /\ x2 = IF i = 2 THEN v ELSE x1
       /\ x3 = IF i = 3 THEN v ELSE x2
  BY <1>6
<1> HIDE DEF x1, x2, x3, x4
<1>11. x3 = v
  BY <1>10
<1>12. PaintedByte(byte, b, out_, places, pixels) = v
  BY <1>8, <1>9, <1>11
<1> QED BY <1>12, <1>16 DEF b, out_, v, f

(***************************************************************************)
(* Between frames of one size the tables lead from every column and line   *)
(* to itself.                                                              *)
(***************************************************************************)
LEMMA MappedToItself ==
  ASSUME NEW v \in Nat, NEW n \in Nat \ {0}
  PROVE  Mapped(v, 0, n, 0, n) = v
<1>1. v - 0 = v
  OBVIOUS
<1>2. Mapped(v, 0, n, 0, n) = 0 + Share(v, n, n)
  BY <1>1, MappedShare
<1>3. Share(v, n, n) = v
  <2>1. 0 + v * n \in Nat /\ (0 + v * n) \div n = v + 0 \div n
    BY DivShift
  <2>2. 0 \div n = 0
    OBVIOUS
  <2> DEFINE m == v * n
  <2>3. m \in Nat
    OBVIOUS
  <2>4. (0 + m) \div n = v + 0
    BY <2>1, <2>2
  <2> HIDE DEF m
  <2>5. m \div n = v
    BY <2>3, <2>4
  <2> QED BY <2>5 DEF Share, m
<1> QED BY <1>2, <1>3

LEMMA AxisToItself ==
  ASSUME NEW size \in Nat, NEW limit \in Nat, size > 1, size <= limit
  PROVE  \A v \in 0 .. size - 1 : Axis(0, size, size, 0, size, limit).from[v] = v
<1> DEFINE n == Max2(1, size - 1)
<1>1. n \in Nat \ {0}
  BY DEF Max2
<1>2. Axis(0, size, size, 0, size, limit).from
        = [v \in 0 .. limit - 1 |-> Mapped(v, 0, n, 0, n)]
  BY DEF Axis
<1> HIDE DEF n
<1>3. ASSUME NEW v \in 0 .. size - 1
      PROVE  Axis(0, size, size, 0, size, limit).from[v] = v
  <2>1. v \in 0 .. limit - 1 /\ v \in Nat
    OBVIOUS
  <2> QED BY <1>1, <1>2, <2>1, MappedToItself
<1> QED BY <1>3

(* Nothing is left out and nothing moved.                                   *)
IsIdentity(s, width, height) ==
  /\ s.format.width = width /\ s.format.height = height
  /\ s.xmin = 0 /\ s.xmax = width /\ s.ymin = 0 /\ s.ymax = height
  /\ s.resize = "Keep"
  /\ \A v \in 0 .. width - 1 : s.x.from[v] = v
  /\ \A v \in 0 .. height - 1 : s.y.from[v] = v

LEMMA SameSizePicture ==
  ASSUME NEW source, NEW target, NEW aspect, IsSize(source), IsSize(target),
         LET f == ConfigureScaling(source, target, aspect).format IN
           f.width = source.width /\ f.height = source.height
  PROVE  PictureSize(source, target, aspect) = <<source.width, source.height>>
<1> DEFINE picture == PictureSize(source, target, aspect)
           sw == source.width
           sh == source.height
           f == ConfigureScaling(source, target, aspect).format
<1>1. sw \in Nat \ {0} /\ sh \in Nat \ {0} /\ sw > 1 /\ sh > 1
  BY DEF IsSize
<1>2. (sh * sw) \div sh = sw /\ (sw * sh) \div sw = sh
  <2> HIDE DEF sw, sh
  <2>1. (sh * sw) \div sh = sw
    BY <1>1
  <2>2. (sw * sh) \div sw = sh
    BY <1>1
  <2> QED
    BY <2>1, <2>2
<1>3. f.width = (IF aspect = "Keep" THEN picture[1] ELSE target.width)
      /\ f.height = (IF aspect = "Keep" THEN picture[2] ELSE target.height)
  BY DEF ConfigureScaling, Scaled, Format, WithParams
<1>4. picture = <<picture[1], picture[2]>>
  BY DEF PictureSize
<1>5. CASE aspect = "Keep"
  <2> HIDE DEF picture, f
  <2> QED BY <1>3, <1>4, <1>5 DEF f, picture
<1>6. CASE aspect # "Keep"
  <2>1. target.width = sw /\ target.height = sh
    <3> HIDE DEF f, picture
    <3> QED BY <1>3, <1>6 DEF f
  <2>2. PictureSize(source, target, aspect)
          = IF aspect \in {"Ignore", "Expanding"} THEN <<sw, sh>>
            ELSE IF (sh * sw) \div sh > sw THEN <<sw, (sw * sh) \div sw>>
            ELSE <<(sh * sw) \div sh, Min2((sw * sh) \div sw, sh)>>
    BY <2>1 DEF PictureSize
  <2> HIDE DEF sw, sh, f, picture
  <2>3. ~(sw > sw) /\ Min2(sh, sh) = sh
    BY <1>1 DEF Min2
  <2> QED BY <1>2, <2>2, <2>3 DEF sw, sh
<1> QED BY <1>5, <1>6

LEMMA SameSizeScale ==
  ASSUME NEW source, NEW target, NEW aspect, IsSize(source), IsSize(target),
         LET f == ConfigureScaling(source, target, aspect).format IN
           f.width = source.width /\ f.height = source.height
  PROVE  IsIdentity(ConfigureScaling(source, target, aspect), source.width, source.height)
<1> DEFINE s == ConfigureScaling(source, target, aspect)
           sw == source.width
           sh == source.height
           p == PictureSize(source, target, aspect)
           w == IF aspect = "Keep" THEN p[1] ELSE target.width
           h == IF aspect = "Keep" THEN p[2] ELSE target.height
           rect == SourceRect(source, p, aspect)
           xmin == (w - p[1]) \div 2
           ymin == (h - p[2]) \div 2
<1>1. p = <<sw, sh>>
  BY SameSizePicture
<1>2. sw \in Nat \ {0} /\ sh \in Nat \ {0} /\ sw > 1 /\ sh > 1
  BY DEF IsSize
<1>3. sw <= target.width /\ sh <= target.height
      /\ target.width \in Nat /\ target.height \in Nat
  <2>1. p[1] <= target.width /\ p[2] <= target.height
    BY PictureFits
  <2> HIDE DEF p
  <2> QED BY <1>1, <2>1 DEF IsSize
<1>4. s.format.width = w /\ s.format.height = h
  BY DEF ConfigureScaling, Scaled, Format, WithParams
<1>5. s.xmin = xmin /\ s.ymin = ymin
      /\ s.xmax = (s.format.width + p[1]) \div 2 /\ s.ymax = (s.format.height + p[2]) \div 2
      /\ s.resize = ResizeMode(source, p)
  BY DEF ConfigureScaling, Scaled, Format, WithParams
<1>6. s.x = Axis(rect.x, rect.width, sw, xmin, p[1], target.width)
      /\ s.y = Axis(rect.y, rect.height, sh, ymin, p[2], target.height)
  BY DEF ConfigureScaling, Scaled
<1>7. s.format.width = sw /\ s.format.height = sh
  OBVIOUS
<1> HIDE DEF p, s
<1>8. p[1] = sw /\ p[2] = sh
  BY <1>1
<1>9. rect.x = 0 /\ rect.y = 0 /\ rect.width = sw /\ rect.height = sh
  <2>1. (sh * sw) \div sh = sw /\ (sw * sh) \div sw = sh
    <3> HIDE DEF sw, sh
    <3>1. (sh * sw) \div sh = sw
      BY <1>2
    <3>2. (sw * sh) \div sw = sh
      BY <1>2
    <3> QED
      BY <3>1, <3>2
  <2>2. SourceRect(source, p, aspect)
          = IF aspect # "Expanding" THEN [x |-> 0, y |-> 0, width |-> sw, height |-> sh]
            ELSE [x |-> (sw - Min2((sh * sw) \div sh, sw)) \div 2,
                  y |-> (sh - Min2((sw * sh) \div sw, sh)) \div 2,
                  width |-> Min2((sh * sw) \div sh, sw),
                  height |-> Min2((sw * sh) \div sw, sh)]
    BY <1>8 DEF SourceRect
  <2> HIDE DEF sw, sh, rect
  <2>3. Min2(sw, sw) = sw /\ Min2(sh, sh) = sh
    BY DEF Min2
  <2>4. (sw - sw) \div 2 = 0 /\ (sh - sh) \div 2 = 0
    BY <1>2
  <2>5. rect = [x |-> 0, y |-> 0, width |-> sw, height |-> sh]
    BY <2>1, <2>2, <2>3, <2>4 DEF rect
  <2> QED BY <2>5
<1>10. xmin = 0 /\ ymin = 0
  <2> HIDE DEF w, h, sw, sh
  <2>1. w = sw /\ h = sh
    BY <1>4, <1>7
  <2> QED BY <1>2, <1>8, <2>1
<1>11. s.xmax = sw /\ s.ymax = sh
  <2> HIDE DEF sw, sh
  <2>1. (sw + sw) \div 2 = sw /\ (sh + sh) \div 2 = sh
    BY <1>2
  <2> QED BY <1>5, <1>7, <1>8, <2>1
<1>12. s.resize = "Keep"
  <2> HIDE DEF xmin, ymin, w, h
  <2> QED BY <1>2, <1>5, <1>8 DEF ResizeMode
<1> HIDE DEF rect, xmin, ymin, w, h
<1>13. s.x = Axis(0, sw, sw, 0, sw, target.width) /\ s.y = Axis(0, sh, sh, 0, sh, target.height)
  BY <1>6, <1>8, <1>9, <1>10
<1>14. (\A v \in 0 .. sw - 1 : s.x.from[v] = v) /\ (\A v \in 0 .. sh - 1 : s.y.from[v] = v)
  <2> HIDE DEF sw, sh
  <2> QED BY <1>2, <1>3, <1>13, AxisToItself
<1>15. IsIdentity(s, sw, sh)
  BY <1>5, <1>7, <1>10, <1>11, <1>12, <1>14 DEF IsIdentity
<1> QED BY <1>15 DEF s

(***************************************************************************)
(* The RGB formats of 8 bits are those whose pixels are bytes.             *)
(***************************************************************************)
LEMMA BytesFast ==
  ASSUME NEW bytes \in RgbBytes
  PROVE  Rgb8(bytes).type = "RGB" /\ IsFast(Rgb8(bytes))
<1> DEFINE specs == Rgb8(bytes)
<1>1. specs.type = "RGB" /\ specs.order = "little"
  BY DEF Rgb8
<1>2. AllComponents(specs) = RgbComponents(bytes)
  BY BytesPlane DEF AllComponents
<1>3. \A c \in RgbComponents(bytes) : c.shift = 0 /\ c.depth = 8
  BY ByteComponent DEF IsWhole
<1>4. MainComponents(specs) = <<"R", "G", "B">>
  BY <1>1 DEF MainComponents
<1>5. Components(specs)[1] = Located(specs, "R")
  <2> DEFINE types == IF HasComponent(specs, "A") THEN Append(<<"R", "G", "B">>, "A")
                      ELSE <<"R", "G", "B">>
  <2>1. Components(specs) = [i \in DOMAIN types |-> Located(specs, types[i])]
    BY <1>4 DEF Components
  <2>2. 1 \in DOMAIN types /\ types[1] = "R"
    OBVIOUS
  <2> HIDE DEF types, specs
  <2> QED BY <2>1, <2>2
<1>6. ComponentOf(specs, "R") \in RgbComponents(bytes)
  <2>1. Components(specs)[1].component \in RgbComponents(bytes)
    BY BytesComponents
  <2> HIDE DEF specs
  <2> QED BY <1>5, <2>1 DEF Located
<1> HIDE DEF specs
<1>7. Depth(specs) = 8
  BY <1>3, <1>4, <1>6 DEF Depth
<1>8. IsFast(specs)
  BY <1>1, <1>2, <1>3, <1>7 DEF IsFast
<1> QED BY <1>1, <1>8 DEF specs

LEMMA FieldsAreShifted ==
  ASSUME NEW fields \in WordFields
  PROVE  \E f \in fields : f[2] # 0
<1>1. \E f \in RGB555 : f[2] # 0
  BY DEF RGB555
<1>2. \E f \in BGR555 : f[2] # 0
  BY DEF BGR555
<1>3. \E f \in RGB565 : f[2] # 0
  BY DEF RGB565
<1>4. \E f \in Bgrx : f[2] # 0
  BY DEF Bgrx
<1>5. \E f \in Up(RGB555) : f[2] # 0
  <2>1. <<"R", 10, 5>> \in RGB555
    BY DEF RGB555
  <2>2. <<"R", 11, 5>> \in Up(RGB555)
    BY <2>1 DEF Up
  <2> QED BY <2>2
<1>6. \E f \in Up(BGR555) : f[2] # 0
  <2>1. <<"B", 10, 5>> \in BGR555
    BY DEF BGR555
  <2>2. <<"B", 11, 5>> \in Up(BGR555)
    BY <2>1 DEF Up
  <2> QED BY <2>2
<1> DEFINE shifted(k) == \E f \in k : f[2] # 0
<1>7. \A k, m : shifted(k) => shifted(k \cup m)
  OBVIOUS
<1>8. /\ shifted(RGB555) /\ shifted(BGR555) /\ shifted(RGB565) /\ shifted(Bgrx)
      /\ shifted(Up(RGB555)) /\ shifted(Up(BGR555))
  BY <1>1, <1>2, <1>3, <1>4, <1>5, <1>6
<1> HIDE DEF shifted
<1>9. shifted(fields)
  BY <1>7, <1>8 DEF WordFields
<1> QED BY <1>9 DEF shifted

LEMMA FastRgbBytes ==
  ASSUME NEW f, IsFormatOfSize(f), Is8BitRgb(f)
  PROVE  \E bytes \in RgbBytes : IsBytesFormat(f, bytes)
<1>1. f.specs.type = "RGB" /\ IsFast(f.specs)
  BY DEF Is8BitRgb
<1>2. IsMade(f.specs)
  <2>1. f.specs = Specs[f.fourcc] /\ f.fourcc \in SupportedFormats
    BY KnownFormat DEF IsFormatOfSize, IsFormat
  <2> QED BY <2>1, AllMade
<1>3. ~\E order \in {"little", "big"}, fields \in WordFields : f.specs = Rgb16(order, fields)
  BY <1>1, FieldsAreShifted, WordNotFast
<1>4. \A bytes : Yuv4(bytes).type = "YUV"
  BY DEF Yuv4
<1>5. \A first, second, h : Semi(first, second, h).type = "YUV"
  BY DEF Semi
<1>6. \A first, second, w, h, bits : Planar(first, second, w, h, bits).type = "YUV"
  BY DEF Planar
<1>7. PICK bytes \in RgbBytes : f.specs = Rgb8(bytes)
  BY <1>1, <1>2, <1>3, <1>4, <1>5, <1>6 DEF IsMade
<1> QED BY <1>7 DEF IsBytesFormat

LEMMA ColourShape ==
  ASSUME NEW f, NEW x, NEW y
  PROVE  /\ Colour(f, x, y) = [i \in 1 .. 3 |-> Colour(f, x, y)[i]]
         /\ \A i \in {1, 2, 3} :
              Colour(f, x, y)[i] = Field(f, Components(f.format.specs)[i], x, y)
<1> DEFINE value(i) == Field(f, Components(f.format.specs)[i], x, y)
<1>1. Colour(f, x, y) = [i \in 1 .. 3 |-> value(i)]
  BY DEF Colour
<1> HIDE DEF value
<1>2. \A i \in 1 .. 3 : Colour(f, x, y)[i] = value(i)
  BY <1>1
<1>3. \A i \in {1, 2, 3} : i \in 1 .. 3
  OBVIOUS
<1>4. \A i \in {1, 2, 3} : Colour(f, x, y)[i] = value(i)
  BY <1>2, <1>3
<1> QED BY <1>1, <1>2, <1>4 DEF value

LEMMA SameColours ==
  ASSUME NEW f, NEW g, NEW x, NEW y, NEW v, NEW w,
         \A i \in {1, 2, 3} : Colour(f, x, y)[i] = Colour(g, v, w)[i]
  PROVE  Colour(f, x, y) = Colour(g, v, w)
<1> DEFINE a(i) == Colour(f, x, y)[i]
           b(i) == Colour(g, v, w)[i]
<1>1. Colour(f, x, y) = [i \in 1 .. 3 |-> a(i)] /\ Colour(g, v, w) = [i \in 1 .. 3 |-> b(i)]
  BY ColourShape
<1>2. \A i \in {1, 2, 3} : a(i) = b(i)
  OBVIOUS
<1> HIDE DEF a, b
<1>3. \A i \in 1 .. 3 : i \in {1, 2, 3}
  OBVIOUS
<1>4. \A i \in 1 .. 3 : a(i) = b(i)
  BY <1>2, <1>3
<1> QED BY <1>1, <1>4

LEMMA ColourOfBytes ==
  ASSUME NEW f, NEW bytes, IsBytesFormat(f.format, bytes), IsFrame(f),
         NEW x \in 0 .. f.format.width - 1, NEW y \in 0 .. f.format.height - 1,
         NEW i \in {1, 2, 3}
  PROVE  /\ Colour(f, x, y)[i] = f.data[ByteOf(f.format, bytes, i, x, y)]
         /\ ByteOf(f.format, bytes, i, x, y) \in DOMAIN f.data
         /\ Colour(f, x, y)[i] \in 0 .. 255
<1> DEFINE c == Components(f.format.specs)[i]
           b == ByteOf(f.format, bytes, i, x, y)
<1>1. Address(f.format, c, x, y) = b /\ b \in 0 .. f.format.data_size - 1
      /\ IsWhole(c.component)
  BY ByteAddress
<1>2. Colour(f, x, y)[i] = Field(f, c, x, y)
  BY ColourShape
<1> HIDE DEF b, c
<1>3. b \in DOMAIN f.data /\ f.data[b] \in 0 .. 255
  BY <1>1 DEF IsFrame
<1>4. Byte(f, b) = f.data[b]
  BY <1>3 DEF Byte
<1> DEFINE v == f.data[b]
<1>5. Field(f, c, x, y) = (v \div 2 ^ 0) % 2 ^ 8
  <2> HIDE DEF v
  <2>1. Byte(f, b) = v
    BY <1>4 DEF v
  <2> QED BY <1>1, <2>1 DEF Field, IsWhole
<1>6. (v \div 2 ^ 0) % 2 ^ 8 = v
  <2>1. 2 ^ 0 = 1 /\ 2 ^ 8 = 256
    OBVIOUS
  <2>2. v \in 0 .. 255
    BY <1>3
  <2> HIDE DEF v
  <2>3. v \div 1 = v /\ v % 256 = v
    BY <2>2
  <2> QED BY <2>1, <2>3
<1> QED BY <1>2, <1>3, <1>5, <1>6 DEF b, c

LEMMA ColourIsByte ==
  ASSUME NEW f, IsSource(f), Is8BitRgb(f.format),
         NEW x \in 0 .. f.format.width - 1, NEW y \in 0 .. f.format.height - 1,
         NEW i \in {1, 2, 3}
  PROVE  Colour(f, x, y)[i] \in 0 .. 255
<1>1. PICK bytes \in RgbBytes : IsBytesFormat(f.format, bytes)
  BY FastRgbBytes DEF IsSource, IsPicture, IsSize, IsFormatOfSize
<1>2. IsFrame(f)
  BY DEF IsSource
<1> DEFINE b == ByteOf(f.format, bytes, i, x, y)
<1>3. Colour(f, x, y)[i] = f.data[b]
  BY <1>1, <1>2, ColourOfBytes
<1>4. b \in DOMAIN f.data
  BY <1>1, <1>2, ColourOfBytes
<1> HIDE DEF b
<1> QED BY <1>2, <1>3, <1>4 DEF IsFrame

(***************************************************************************)
(* A conversion between frames of one size in such formats copies.         *)
(***************************************************************************)
HasColoursOf(g, f) ==
  \A x \in 0 .. f.format.width - 1 : \A y \in 0 .. f.format.height - 1 :
    Colour(g, x, y) = Colour(f, x, y)

(* What the conversion is configured with.                                 *)
Copies(p, input, bytes) ==
  /\ IsBytesTarget(p.scale, bytes)
  /\ IsIdentity(p.scale, input.format.width, input.format.height)
  /\ AreFlags(p) /\ p.fast = TRUE /\ p.type = "VECTOR"
  /\ p.in = Components(input.format.specs)
  /\ p.out = Components(p.scale.format.specs)
  /\ \A i \in DOMAIN p.out : PlacesOf(p)[i] = Placed(p.scale, p.out[i])

LEMMA CopiedPixel ==
  ASSUME NEW p, NEW input, NEW bytes, Copies(p, input, bytes), NEW scaling,
         IsSource(input), Is8BitRgb(input.format),
         NEW x \in 0 .. input.format.width - 1, NEW y \in 0 .. input.format.height - 1,
         NEW i \in {1, 2, 3}
  PROVE  LET q == Image(p, scaling, input)[<<x, y>>] IN
         DOMAIN q = 1 .. 3 /\ q[i] = Colour(input, x, y)[i]
<1> DEFINE q == Image(p, scaling, input)[<<x, y>>]
<1>1. <<x, y>> \in Columns(p.scale) \X Lines(p.scale)
  BY DEF Copies, IsIdentity, Columns, Lines
<1>2. q = Pixel(p, scaling, input, x, y)
  BY <1>1 DEF Image
<1>3. ~Enlarges(p, scaling) /\ ~Reduces(p, scaling)
  BY DEF Enlarges, Reduces, Copies, IsIdentity
<1>4. Pixel(p, scaling, input, x, y) = ConvertFast8Bits(p, scaling, input, x, y)
  BY DEF Pixel, Copies
<1>5. ConvertFast8Bits(p, scaling, input, x, y) = FastV3to3(p, input, x, y)
  BY <1>3 DEF ConvertFast8Bits, Copies
<1>6. FastV3to3(p, input, x, y) = [j \in 1 .. 3 |-> Nearest(p, input, p.in[j], x, y)]
  BY DEF FastV3to3, Read3
<1> HIDE DEF q
<1>7. DOMAIN q = 1 .. 3 /\ q[i] = Nearest(p, input, p.in[i], x, y)
  BY <1>2, <1>4, <1>5, <1>6
<1>8. p.scale.x.from[x] = x /\ p.scale.y.from[y] = y
  BY DEF Copies, IsIdentity
<1>9. Nearest(p, input, p.in[i], x, y) = Field(input, Components(input.format.specs)[i], x, y)
  BY <1>8 DEF Nearest, Copies
<1>10. Colour(input, x, y)[i] = Field(input, Components(input.format.specs)[i], x, y)
  BY ColourShape
<1> QED BY <1>7, <1>9, <1>10 DEF q

LEMMA CopiedByte ==
  ASSUME NEW p, NEW input, NEW bytes, Copies(p, input, bytes), NEW scaling,
         IsSource(input), Is8BitRgb(input.format), NEW data,
         AreBytes(data, p.scale.format.data_size),
         NEW x \in 0 .. p.scale.format.width - 1, NEW y \in 0 .. p.scale.format.height - 1,
         NEW i \in {1, 2, 3}
  PROVE  Convert(p, scaling, input, data)[ByteOf(p.scale.format, bytes, i, x, y)]
           = Colour(input, x, y)[i]
<1> DEFINE s == p.scale
           b == ByteOf(s.format, bytes, i, x, y)
           image == Image(p, scaling, input)
           places == PlacesOf(p)
<1>1. IsBytesTarget(s, bytes) /\ IsBytesFormat(s.format, bytes)
      /\ s.format.width = input.format.width /\ s.format.height = input.format.height
  BY DEF Copies, IsBytesTarget, IsIdentity
<1>2. x \in 0 .. input.format.width - 1 /\ y \in 0 .. input.format.height - 1
  BY <1>1
<1>3. b \in DOMAIN data
  BY <1>1, ByteAddress DEF AreBytes
<1>4. Convert(p, scaling, input, data) = PaintedAt(p.out, places, data, image)
  BY SameTable DEF Convert, Painted, PlacesOf, Image
<1>5. PaintedAt(p.out, places, data, image)
        = [k \in DOMAIN data |-> PaintedByte(data[k], k, p.out, places, image)]
  BY SameTable DEF PaintedAt
<1>6. \A q \in Columns(s) \X Lines(s) : DOMAIN image[q] = 1 .. 3
  <2>1. \A q \in Columns(s) \X Lines(s) : DOMAIN image[q] = Shape(p)
    BY ImageShape DEF Copies
  <2>2. Shape(p) = 1 .. 3
    BY DEF Shape, Copies
  <2> HIDE DEF image
  <2> QED BY <2>1, <2>2
<1>7. image[<<x, y>>][i] = Colour(input, x, y)[i]
  BY <1>2, CopiedPixel
<1>8. Colour(input, x, y)[i] \in 0 .. 255
  BY <1>2, ColourIsByte
<1>9. \A j \in DOMAIN Components(s.format.specs) :
        places[j] = Placed(s, Components(s.format.specs)[j])
  BY DEF Copies
<1>10. p.out = Components(s.format.specs)
  BY DEF Copies
<1> HIDE DEF image, places
<1>11. PaintedByte(data[b], b, p.out, places, image) = Colour(input, x, y)[i]
  <2> DEFINE byte == data[b]
             out_ == Components(s.format.specs)
  <2>1. IsByteOf(Colour(input, x, y)[i], image, x, y, i)
    BY <1>7, <1>8 DEF IsByteOf
  <2>2. Paints(s, bytes, places, image)
    BY <1>1, <1>6, <1>9, Zenon DEF Paints
  <2> HIDE DEF byte
  <2>3. PaintedByte(byte, b, out_, places, image) = Colour(input, x, y)[i]
    BY <2>1, <2>2, PaintedPixel
  <2> HIDE DEF b, out_
  <2>4. p.out = out_
    BY <1>10 DEF out_
  <2> QED BY <2>3, <2>4 DEF byte
<1> HIDE DEF b
<1>12. Convert(p, scaling, input, data)[b] = Colour(input, x, y)[i]
  BY <1>3, <1>4, <1>5, <1>11
<1> QED BY <1>12 DEF b, s

LEMMA CopiedColours ==
  ASSUME NEW c, NEW input, CanConvert(c, input), HasFrame(c), IsSize(c.output),
         IsFormat(c.output), IsSource(input), Is8BitRgb(input.format),
         LET g == ConvertFrame(c, input).frame IN
           /\ Is8BitRgb(g.format)
           /\ g.format.width = input.format.width
           /\ g.format.height = input.format.height
  PROVE  LET g == ConvertFrame(c, input).frame IN
         IsSource(g) /\ HasColoursOf(g, input)
<1> DEFINE g == ConvertFrame(c, input).frame
           key == Key(c, input.format)
           target == Configured(key).p.scale.format
           made == [format |-> target,
                    data |-> Convert(Configured(key).p, c.scaling, input,
                                     OutputFrame(target, Configured(key).key.aspect))]
<1>1. CASE input.format = c.output
  <2>1. g = input
    BY <1>1 DEF ConvertFrame
  <2> HIDE DEF g
  <2> QED BY <2>1 DEF g, HasColoursOf
<1>2. ASSUME input.format # c.output, g = input
      PROVE  IsSource(g) /\ HasColoursOf(g, input)
  BY <1>2 DEF HasColoursOf
<1>3. ASSUME input.format # c.output, g # input
      PROVE  IsSource(g) /\ HasColoursOf(g, input)
  <2>1. g = made
    <3>1. g = FrameOf(Configured(key), c, input)
      BY <1>3, MadeFresh
    <3> HIDE DEF g, key
    <3> QED BY <1>3, <3>1 DEF FrameOf
  <2>2. /\ IsFormatOfSize(g.format) /\ IsFrame(g)
        /\ g.format.fourcc = c.output.fourcc
    BY <1>3, WholeFrameMade DEF CanConvert
  <2>3. IsSize(input.format) /\ g.format.width = input.format.width
        /\ g.format.height = input.format.height
    BY DEF IsSource, IsPicture
  <2> HIDE DEF g
  <2>4. g.format = target /\ g.data = made.data
    BY <2>1
  <2>5. IsSource(g)
    <3>1. {"format", "data"} \subseteq DOMAIN g /\ IsSize(g.format)
      <4>1. {"format", "data"} \subseteq DOMAIN g
        BY <2>1
      <4>2. IsSize(g.format)
        BY <2>3 DEF IsSize
      <4> QED BY <4>1, <4>2
    <3> QED BY <2>2, <3>1 DEF IsSource, IsPicture, IsFormatOfSize
  <2>6. Is8BitRgb(g.format)
    BY DEF g
  <2>7. PICK bytes \in RgbBytes : IsBytesFormat(g.format, bytes)
    BY <2>2, <2>6, FastRgbBytes
  <2> DEFINE p == Configured(key).p
             aspect == Configured(key).key.aspect
             data == OutputFrame(target, aspect)
  <2>9. p = Parameters(input.format, c.output, c.aspect)
    BY DEF Configured, ConfiguredWith, Key
  <2>10. made.data = Convert(p, c.scaling, input, data) /\ p.scale.format = target
    OBVIOUS
  <2> HIDE DEF made, p, target, key
  <2>11. c.output.specs = g.format.specs
    BY <2>2, KnownFormat DEF IsFormatOfSize
  <2>12. Copies(p, input, bytes)
    <3> DEFINE r == Parameters(input.format, c.output, c.aspect)
    <3>0. p = r
      BY <2>9
    <3>7. /\ AreFlags(r) /\ r.scale = ConfigureScaling(input.format, c.output, c.aspect)
          /\ r.out = Components(c.output.specs)
          /\ r.fast = (IsFast(input.format.specs) /\ IsFast(c.output.specs))
          /\ r.type = IF input.format.specs.type = c.output.specs.type THEN "VECTOR"
                      ELSE "3TO3"
          /\ \A i \in DOMAIN r.out : PlacesOf(r)[i] = Placed(r.scale, r.out[i])
      BY ParameterFacts
    <3> HIDE DEF r
    <3>1. p.scale = ConfigureScaling(input.format, c.output, c.aspect)
          /\ p.out = Components(c.output.specs)
          /\ p.fast = (IsFast(input.format.specs) /\ IsFast(c.output.specs))
          /\ p.type = IF input.format.specs.type = c.output.specs.type THEN "VECTOR"
                      ELSE "3TO3"
      BY <3>0, <3>7
    <3>9. AreFlags(p) /\ \A i \in DOMAIN p.out : PlacesOf(p)[i] = Placed(p.scale, p.out[i])
      BY <3>0, <3>7, Zenon
    <3>2. p.in = Components(input.format.specs)
      BY <2>9 DEF Parameters, Configure
    <3>3. p.scale.format = g.format
      BY <2>4, <2>10
    <3>4. IsIdentity(p.scale, input.format.width, input.format.height)
      BY <2>3, <3>1, <3>3, SameSizeScale
    <3>5. p.fast = TRUE /\ p.type = "VECTOR"
      BY <2>6, <2>11, <3>1 DEF Is8BitRgb
    <3>6. IsBytesTarget(p.scale, bytes)
      BY <2>7, <3>3, <3>4 DEF IsBytesTarget, IsIdentity
    <3>8. p.out = Components(p.scale.format.specs)
      BY <2>11, <3>1, <3>3
    <3> QED BY <3>1, <3>2, <3>4, <3>5, <3>6, <3>8, <3>9, Zenon DEF Copies
  <2>13. AreBytes(data, p.scale.format.data_size)
    BY <2>2, <2>4, <2>10, OutputBytes
  <2> HIDE DEF data
  <2>14. ASSUME NEW x \in 0 .. input.format.width - 1,
                NEW y \in 0 .. input.format.height - 1
         PROVE  Colour(g, x, y) = Colour(input, x, y)
    <3>1. x \in 0 .. g.format.width - 1 /\ y \in 0 .. g.format.height - 1
      BY <2>3
    <3>4. ASSUME NEW i \in {1, 2, 3} PROVE Colour(g, x, y)[i] = Colour(input, x, y)[i]
      <4>1. Convert(p, c.scaling, input, data)[ByteOf(p.scale.format, bytes, i, x, y)]
              = Colour(input, x, y)[i]
        BY <2>4, <2>10, <2>12, <2>13, <3>1, CopiedByte
      <4>2. Colour(g, x, y)[i] = g.data[ByteOf(g.format, bytes, i, x, y)]
        BY <2>2, <2>7, <3>1, ColourOfBytes
      <4> QED BY <2>4, <2>10, <4>1, <4>2
    <3> QED BY <3>4, SameColours
  <2> QED BY <2>5, <2>14 DEF HasColoursOf
<1> QED BY <1>1, <1>2, <1>3

(***************************************************************************)
(* The filters see the components of ARGB32 where a conversion does.       *)
(***************************************************************************)
LEMMA ArgbOffset ==
  ASSUME NEW i \in {1, 2, 3}
  PROVE  OffsetOf(<<"A", "R", "G", "B">>, i) = i
<1> DEFINE bytes == <<"A", "R", "G", "B">>
           o == OffsetOf(bytes, i)
<1>1. bytes \in RgbBytes /\ Len(bytes) = 4
  BY DEF RgbBytes
<1>2. o \in 0 .. Len(bytes) - 1 /\ bytes[o + 1] = <<"R", "G", "B">>[i]
  <2> HIDE DEF bytes
  <2> QED BY <1>1, BytesComponents, ByteComponent DEF OffsetOf
<1> HIDE DEF o
<1>3. o \in {0, 1, 2, 3}
  BY <1>1, <1>2
<1>4. o = i
  BY <1>2, <1>3
<1> QED BY <1>4 DEF o

(* Where a pixel of ARGB32 is.                                             *)
LEMMA ArgbByte ==
  ASSUME NEW f, IsArgbSource(f), NEW x \in 0 .. f.format.width - 1,
         NEW y \in 0 .. f.format.height - 1, NEW i \in {1, 2, 3}
  PROVE  LET l == f.format.planes[1].line_size
             b == y * l + (4 * x + i) IN
         /\ l \in Nat \ {0} /\ b \in DOMAIN f.data /\ y * l \in Nat
         /\ 4 * x + i \in 0 .. l - 1
         /\ Colour(f, x, y)[i] = f.data[b]
         /\ PixelAt(f, x, y)[i + 1] = f.data[b]
<1> DEFINE bytes == <<"A", "R", "G", "B">>
           l == f.format.planes[1].line_size
           m == y * l
           b == m + (4 * x + i)
<1>1. /\ IsBytesFormat(f.format, bytes) /\ Len(bytes) = 4
      /\ f.format.width \in Nat /\ f.format.height \in Nat
      /\ DOMAIN f.data = 0 .. f.format.data_size - 1
  BY ArgbSource
<1>2. OffsetOf(bytes, i) = i
  BY ArgbOffset
<1> HIDE DEF bytes
<1>3. /\ Line(f.format, 1, y) = m /\ m \in Nat
      /\ x * Len(bytes) + i \in 0 .. l - 1 /\ m + (x * Len(bytes) + i) \in 0 .. f.format.data_size - 1
  <2>1. i \in 0 .. Len(bytes) - 1
    BY <1>1
  <2> QED BY <1>1, <2>1, ByteInside
<1>4. l \in Nat
  BY <1>1, BytesLaidOut
<1>5. x \in Nat
  BY <1>1
<1> HIDE DEF l, m
<1>6. x * Len(bytes) + i = 4 * x + i
  BY <1>1, <1>5
<1>7. l \in Nat \ {0} /\ 4 * x + i \in 0 .. l - 1 /\ b \in 0 .. f.format.data_size - 1
  BY <1>3, <1>4, <1>6
<1>8. Colour(f, x, y)[i] = f.data[b]
  <2>1. Colour(f, x, y)[i] = f.data[ByteOf(f.format, bytes, i, x, y)]
    BY <1>1, ColourOfBytes DEF IsArgbSource, IsSource
  <2>2. ByteOf(f.format, bytes, i, x, y) = m + (x * Len(bytes) + i)
    BY <1>2 DEF ByteOf, m, l
  <2> QED BY <1>6, <2>1, <2>2
<1>9. PixelAt(f, x, y)[i + 1] = f.data[b]
  <2>1. i + 1 \in 1 .. 4
    OBVIOUS
  <2>2. PixelAt(f, x, y)[i + 1] = f.data[Line(f.format, 1, y) + 4 * x + (i + 1) - 1]
    BY <2>1 DEF PixelAt
  <2>3. Line(f.format, 1, y) + 4 * x + (i + 1) - 1 = b
    BY <1>3, <1>5
  <2> QED BY <2>2, <2>3
<1> HIDE DEF b
<1>10. b \in DOMAIN f.data
  BY <1>1, <1>7
<1> QED BY <1>3, <1>7, <1>8, <1>9, <1>10 DEF b, m, l

LEMMA LinesAligned ==
  ASSUME NEW f, IsArgbSource(f)
  PROVE  IsAligned(f.format.planes[1].line_size)
<1>1. IsFormatOfSize(f.format) /\ DOMAIN f.format.planes = {1}
  BY ArgbSource, BytesLaidOut
<1>2. IsLaidOut(f.format)
  BY <1>1, FormatLaidOut
<1>3. f.format.planes[1].line_size = LineSize(f.format.specs.planes[1], f.format.width)
      /\ IsPlane(f.format.specs.planes[1])
  BY <1>1, <1>2 DEF IsLaidOut, IsLayout
<1> DEFINE plane == f.format.specs.planes[1]
           n == BytesUsed(plane, f.format.width)
<1>4. LineSize(plane, f.format.width) = AlignUp(n)
  BY DEF LineSize
<1>5. n \in Nat
  <2> DEFINE w == WidthDiv(plane)
             d == 2 ^ w
             k == f.format.width \div d
  <2>1. d \in 1 .. 4
    BY <1>3, SmallPower DEF IsPlane
  <2> HIDE DEF d
  <2>2. k \in Nat
    BY <1>1, <2>1 DEF IsFormatOfSize
  <2> HIDE DEF k
  <2>3. plane.bits \in Nat
    BY <1>3 DEF IsPlane
  <2>4. (plane.bits * k) \div 8 \in Nat
    <3> DEFINE m == plane.bits * k
    <3>1. m \in Nat
      BY <2>2, <2>3
    <3> HIDE DEF m
    <3>2. m \div 8 \in Nat
      BY <3>1
    <3> QED BY <3>2 DEF m
  <2> QED BY <2>4 DEF BytesUsed, k, d
<1> HIDE DEF n
<1>6. IsAligned(AlignUp(n))
  BY <1>5, Aligned
<1> QED BY <1>3, <1>4, <1>6

(* Taking such an address apart.                                           *)
IsTaken(l, x, y, i) ==
  LET b == y * l + (4 * x + i) IN
  /\ b \in Nat
  /\ (b % l) \div 4 = x /\ b \div l = y /\ b % 4 = i /\ b % l = 4 * x + i

LEMMA ByteTaken ==
  ASSUME NEW l \in Nat \ {0}, IsAligned(l), NEW x \in Nat, NEW y \in Nat, NEW i \in {1, 2, 3},
         4 * x + i \in 0 .. l - 1
  PROVE  IsTaken(l, x, y, i)
<1> DEFINE m == y * l
           r == 4 * x + i
           b == m + r
<1>1. m \in Nat /\ r \in Nat
  OBVIOUS
<1>2. b \in Nat
  BY <1>1
<1>3. b \div l = y /\ b % l = r
  <2> DEFINE q == b \div l
             s == b % l
  <2>1. q \in Nat /\ s \in 0 .. l - 1 /\ b = l * q + s
    <3> HIDE DEF b
    <3> QED BY <1>2
  <2> HIDE DEF q, s
  <2>2. q * l + s = y * l + r
    <3> DEFINE z == l * q
    <3>1. z = q * l
      BY <2>1
    <3> HIDE DEF z
    <3>2. b = z + s
      BY <2>1 DEF z
    <3> QED BY <3>1, <3>2
  <2>3. q = y /\ s = r
    <3> HIDE DEF r
    <3> QED BY <2>1, <2>2, QuotientUnique DEF r
  <2> QED BY <2>3 DEF q, s
<1>4. r \div 4 = x
  BY DEF r
<1>5. b % 4 = i
  <2>1. PICK k \in Nat : l = 32 * k
    BY DEF IsAligned
  <2> DEFINE z == y * k
  <2>2. z \in Nat /\ m = 32 * z
    BY <2>1
  <2> HIDE DEF m, z
  <2>3. b = 4 * (8 * z + x) + i
    BY <2>2
  <2> QED BY <2>2, <2>3
<1> HIDE DEF b, r
<1>6. b \in Nat /\ (b % l) \div 4 = x /\ b \div l = y /\ b % 4 = i /\ b % l = r
  BY <1>2, <1>3, <1>4, <1>5
<1> QED BY <1>6 DEF IsTaken, b, r, m

(***************************************************************************)
(* What the filters do to the colour of a pixel.                           *)
(***************************************************************************)
LEMMA DrawnPixel ==
  ASSUME NEW f, IsArgbSource(f), NEW image, DOMAIN image = Places(f),
         \A q \in Places(f) : IsPixel(image[q]),
         NEW x \in 0 .. f.format.width - 1, NEW y \in 0 .. f.format.height - 1,
         NEW i \in {1, 2, 3}
  PROVE  Colour(WithPixels(f, image), x, y)[i] = image[<<x, y>>][i + 1]
<1> DEFINE g == WithPixels(f, image)
           l == f.format.planes[1].line_size
           b == y * l + (4 * x + i)
           value(k) ==
             LET v == (k % l) \div 4
                 w == k \div l IN
             IF <<v, w>> \in DOMAIN image THEN image[<<v, w>>][(k % 4) + 1] ELSE f.data[k]
<1>1. IsArgbSource(g) /\ g.format = f.format
  <2>1. IsArgbSource(g)
    BY DrawnWhole
  <2>2. g.format = f.format
    BY PixelsKeepFormat DEF IsArgbSource, IsSource
  <2> QED BY <2>1, <2>2
<1>2. g.data = [k \in DOMAIN f.data |-> value(k)]
  <2>1. f.format.fourcc = "ARGB32"
    BY DEF IsArgbSource
  <2>2. g = [f EXCEPT !.data = Table([k \in DOMAIN f.data |-> value(k)])]
    BY <2>1, SameTable DEF WithPixels, Redrawn
  <2> DEFINE data == [k \in DOMAIN f.data |-> value(k)]
  <2>3. "data" \in DOMAIN f
    BY DEF IsArgbSource, IsSource, IsPicture
  <2> HIDE DEF data, g
  <2>4. g.data = Table(data)
    BY <2>2, <2>3 DEF data
  <2> QED BY <2>4, SameTable DEF data
<1> HIDE DEF g
<1>3. /\ l \in Nat \ {0} /\ b \in DOMAIN f.data /\ 4 * x + i \in 0 .. l - 1
  BY ArgbByte
<1>4. Colour(g, x, y)[i] = g.data[b]
  <2> DEFINE m == g.format.planes[1].line_size
  <2>1. x \in 0 .. g.format.width - 1 /\ y \in 0 .. g.format.height - 1
    BY <1>1
  <2>2. Colour(g, x, y)[i] = g.data[y * m + (4 * x + i)]
    BY <1>1, <2>1, ArgbByte
  <2>3. m = l
    BY <1>1
  <2> HIDE DEF m, l
  <2> QED BY <2>2, <2>3
<1>5. x \in Nat /\ y \in Nat
  BY ArgbSource
<1>6. (b % l) \div 4 = x /\ b \div l = y /\ b % 4 = i
  <2>1. IsAligned(l)
    BY LinesAligned
  <2> HIDE DEF l
  <2> DEFINE c == y * l + (4 * x + i)
  <2>2. IsTaken(l, x, y, i)
    BY <1>3, <1>5, <2>1, ByteTaken
  <2>3. (c % l) \div 4 = x /\ c \div l = y /\ c % 4 = i
    BY <2>2 DEF IsTaken
  <2> QED BY <2>3 DEF l
<1> HIDE DEF b, l
<1>7. <<x, y>> \in DOMAIN image
  BY DEF Places
<1>8. value(b) = image[<<x, y>>][i + 1]
  BY <1>6, <1>7
<1> HIDE DEF value
<1> QED BY <1>2, <1>3, <1>4, <1>8 DEF g

(* A filter that draws every pixel from another one.                       *)
LEMMA MovedColour ==
  ASSUME NEW f, IsArgbSource(f), NEW image, DOMAIN image = Places(f),
         \A q \in Places(f) : IsPixel(image[q]),
         NEW x \in 0 .. f.format.width - 1, NEW y \in 0 .. f.format.height - 1,
         NEW v \in 0 .. f.format.width - 1, NEW w \in 0 .. f.format.height - 1,
         image[<<x, y>>] = PixelAt(f, v, w)
  PROVE  Colour(WithPixels(f, image), x, y) = Colour(f, v, w)
<1>1. ASSUME NEW i \in {1, 2, 3}
      PROVE  Colour(WithPixels(f, image), x, y)[i] = Colour(f, v, w)[i]
  <2>1. Colour(WithPixels(f, image), x, y)[i] = image[<<x, y>>][i + 1]
    BY DrawnPixel
  <2>2. Colour(f, v, w)[i] = PixelAt(f, v, w)[i + 1]
    BY ArgbByte
  <2> QED BY <2>1, <2>2
<1> QED BY <1>1, SameColours

Neutrals(c) ==
  /\ c.hue = 0 /\ c.saturation = 0 /\ c.brightness = 0 /\ c.contrast = 0 /\ c.gamma = 0
  /\ c.gray = FALSE /\ c.swap_rgb = FALSE

LEMMA AppliedNeutral ==
  ASSUME NEW f, IsArgbSource(f), NEW c, Neutrals(c)
  PROVE  IsArgbSource(Apply(f, c)) /\ HasColoursOf(Apply(f, c), f)
         /\ Apply(f, c).format = f.format
<1> DEFINE value(q) ==
             LET hsl == Hsl(PixelAt(f, q[1], q[2]), c.hue, c.saturation, c.brightness)
                 curves == Contrast(Gamma(hsl, c.gamma), c.contrast) IN
             SwapRgb(Gray(curves, c.gray), c.swap_rgb)
           image == [q \in Places(f) |-> value(q)]
<1>1. Apply(f, c) = WithPixels(f, image)
  BY DEF Apply
<1>2. \A q : value(q) = PixelAt(f, q[1], q[2])
  <2> SUFFICES ASSUME NEW q PROVE value(q) = PixelAt(f, q[1], q[2])
    OBVIOUS
  <2> DEFINE p == PixelAt(f, q[1], q[2])
  <2>1. value(q) = SwapRgb(Gray(Contrast(Gamma(Hsl(p, c.hue, c.saturation, c.brightness),
                                               c.gamma), c.contrast), c.gray), c.swap_rgb)
    OBVIOUS
  <2> HIDE DEF p, value
  <2>2. Hsl(p, c.hue, c.saturation, c.brightness) = p
    BY DEF Neutrals, Hsl
  <2>3. Gamma(p, c.gamma) = p /\ Contrast(p, c.contrast) = p
    BY DEF Neutrals, Gamma, Contrast
  <2>4. Gray(p, c.gray) = p /\ SwapRgb(p, c.swap_rgb) = p
    BY DEF Neutrals, Gray, SwapRgb
  <2> QED BY <2>1, <2>2, <2>3, <2>4 DEF p
<1> HIDE DEF value
<1>3. DOMAIN image = Places(f) /\ \A q \in Places(f) : image[q] = PixelAt(f, q[1], q[2])
  BY <1>2
<1> HIDE DEF image
<1>4. \A q \in Places(f) : IsPixel(image[q])
  BY <1>3, PixelOfBytes DEF Places
<1>5. IsArgbSource(Apply(f, c)) /\ Apply(f, c).format = f.format
  BY <1>1, <1>3, <1>4, DrawnWhole, PixelsKeepFormat DEF IsArgbSource, IsSource
<1>6. ASSUME NEW x \in 0 .. f.format.width - 1, NEW y \in 0 .. f.format.height - 1
      PROVE  Colour(Apply(f, c), x, y) = Colour(f, x, y)
  <2>1. <<x, y>> \in Places(f)
    BY DEF Places
  <2>2. image[<<x, y>>] = PixelAt(f, x, y)
    BY <1>3, <2>1
  <2>3. Colour(WithPixels(f, image), x, y) = Colour(f, x, y)
    BY <1>3, <1>4, <2>2, MovedColour
  <2> QED BY <1>1, <2>3
<1> QED BY <1>5, <1>6 DEF HasColoursOf

(***************************************************************************)
(* Turning a frame around moves every pixel, also those in the middle.     *)
(***************************************************************************)
Paired(n, i) == i < n \div 2 \/ n - i - 1 < n \div 2

LEMMA NoPartner ==
  ASSUME NEW n \in Nat, NEW i \in 0 .. n - 1
  PROVE  /\ n - i - 1 \in 0 .. n - 1
         /\ ~Paired(n, i) => n - i - 1 = i /\ n % 2 # 0
BY DEF Paired

LEMMA HorizontalColour ==
  ASSUME NEW f, IsArgbSource(f), NEW x \in 0 .. f.format.width - 1,
         NEW y \in 0 .. f.format.height - 1
  PROVE  Colour(MirrorHorizontal(f), x, y) = Colour(f, f.format.width - x - 1, y)
<1> DEFINE w == f.format.width
           h == f.format.height
           image == [q \in Places(f) |->
             IF Paired(w, q[1]) THEN PixelAt(f, w - q[1] - 1, q[2])
             ELSE PixelAt(f, q[1], q[2])]
<1>1. w \in Nat /\ h \in Nat
  BY ArgbSource
<1>2. MirrorHorizontal(f) = WithPixels(f, image)
  BY DEF MirrorHorizontal, Paired
<1>3. ASSUME NEW q \in Places(f)
      PROVE  image[q] = PixelAt(f, w - q[1] - 1, q[2]) /\ IsPixel(image[q])
  <2>1. q[1] \in 0 .. w - 1 /\ q[2] \in 0 .. h - 1
    BY DEF Places
  <2>2. w - q[1] - 1 \in 0 .. w - 1 /\ (~Paired(w, q[1]) => w - q[1] - 1 = q[1])
    BY <1>1, <2>1, NoPartner
  <2>3. IsPixel(PixelAt(f, w - q[1] - 1, q[2]))
    BY <2>1, <2>2, PixelOfBytes
  <2>4. image[q] = PixelAt(f, w - q[1] - 1, q[2])
    BY <2>2
  <2> QED BY <2>3, <2>4
<1>4. DOMAIN image = Places(f)
  OBVIOUS
<1> HIDE DEF image
<1>5. <<x, y>> \in Places(f)
  BY DEF Places
<1> DEFINE v == w - x - 1
<1>6. v \in 0 .. w - 1
  BY <1>1
<1>7. image[<<x, y>>] = PixelAt(f, v, y)
  BY <1>3, <1>5
<1> HIDE DEF v
<1>8. Colour(WithPixels(f, image), x, y) = Colour(f, v, y)
  BY <1>3, <1>4, <1>6, <1>7, MovedColour
<1> QED BY <1>2, <1>8 DEF v

LEMMA BothColour ==
  ASSUME NEW f, IsArgbSource(f), NEW x \in 0 .. f.format.width - 1,
         NEW y \in 0 .. f.format.height - 1
  PROVE  Colour(MirrorBoth(f), x, y)
           = Colour(f, f.format.width - x - 1, f.format.height - y - 1)
<1> DEFINE w == f.format.width
           h == f.format.height
           middle == h % 2 # 0
           image == [q \in Places(f) |->
             IF Paired(h, q[2]) THEN PixelAt(f, w - q[1] - 1, h - q[2] - 1)
             ELSE IF middle /\ Paired(w, q[1]) THEN PixelAt(f, w - q[1] - 1, q[2])
             ELSE PixelAt(f, q[1], q[2])]
<1>1. w \in Nat /\ h \in Nat
  BY ArgbSource
<1>2. MirrorBoth(f) = WithPixels(f, image)
  BY DEF MirrorBoth, Paired
<1>3. ASSUME NEW q \in Places(f)
      PROVE  image[q] = PixelAt(f, w - q[1] - 1, h - q[2] - 1) /\ IsPixel(image[q])
  <2>1. q[1] \in 0 .. w - 1 /\ q[2] \in 0 .. h - 1
    BY DEF Places
  <2>2. w - q[1] - 1 \in 0 .. w - 1 /\ (~Paired(w, q[1]) => w - q[1] - 1 = q[1])
    BY <1>1, <2>1, NoPartner
  <2>3. h - q[2] - 1 \in 0 .. h - 1 /\ (~Paired(h, q[2]) => h - q[2] - 1 = q[2] /\ middle)
    BY <1>1, <2>1, NoPartner
  <2>4. IsPixel(PixelAt(f, w - q[1] - 1, h - q[2] - 1))
    BY <2>2, <2>3, PixelOfBytes
  <2> HIDE DEF middle
  <2>5. image[q] = PixelAt(f, w - q[1] - 1, h - q[2] - 1)
    BY <2>2, <2>3
  <2> QED BY <2>4, <2>5
<1>4. DOMAIN image = Places(f)
  OBVIOUS
<1> HIDE DEF image
<1>5. <<x, y>> \in Places(f)
  BY DEF Places
<1> DEFINE v == w - x - 1
           u == h - y - 1
<1>6. v \in 0 .. w - 1 /\ u \in 0 .. h - 1
  BY <1>1
<1>7. image[<<x, y>>] = PixelAt(f, v, u)
  BY <1>3, <1>5
<1> HIDE DEF v, u
<1>8. Colour(WithPixels(f, image), x, y) = Colour(f, v, u)
  BY <1>3, <1>4, <1>6, <1>7, MovedColour
<1> QED BY <1>2, <1>8 DEF v, u

LEMMA VerticalColour ==
  ASSUME NEW f, IsArgbSource(f), NEW x \in 0 .. f.format.width - 1,
         NEW y \in 0 .. f.format.height - 1
  PROVE  Colour(MirrorVertical(f), x, y) = Colour(f, x, f.format.height - y - 1)
<1> DEFINE h == f.format.height
           l == f.format.planes[1].line_size
           u == h - y - 1
           g == MirrorVertical(f)
           value(b) == IF b \div l < h /\ Paired(h, b \div l)
                       THEN f.data[l * (h - (b \div l) - 1) + (b % l)] ELSE f.data[b]
           data == [b \in DOMAIN f.data |-> value(b)]
<1>1. h \in Nat /\ x \in Nat /\ y \in Nat /\ f.format.fourcc = "ARGB32"
  BY ArgbSource
<1>2. IsArgbSource(g)
  <2>1. g = Mirror(f, FALSE, TRUE)
    BY DEF Mirror
  <2> QED BY <2>1, MirrorWhole
<1>3. g.format = f.format /\ g.data = data
  <2>1. g = [f EXCEPT !.data = Table(data)]
    BY <1>1 DEF MirrorVertical, Paired
  <2>2. "data" \in DOMAIN f
    BY DEF IsArgbSource, IsSource, IsPicture
  <2> HIDE DEF g, data
  <2>3. g.format = f.format /\ g.data = Table(data)
    BY <2>1, <2>2
  <2> QED BY <2>3, SameTable
<1> HIDE DEF g
<1>4. u \in 0 .. h - 1 /\ (~Paired(h, y) => u = y)
  BY <1>1, NoPartner
<1>5. ASSUME NEW i \in {1, 2, 3} PROVE Colour(g, x, y)[i] = Colour(f, x, u)[i]
  <2> DEFINE r == 4 * x + i
             b == y * l + r
             a == u * l + r
  <2>1. l \in Nat \ {0} /\ b \in DOMAIN f.data /\ r \in 0 .. l - 1
    BY ArgbByte
  <2>2. Colour(g, x, y)[i] = g.data[b]
    <3> DEFINE m == g.format.planes[1].line_size
    <3>1. x \in 0 .. g.format.width - 1 /\ y \in 0 .. g.format.height - 1
      BY <1>3
    <3>2. Colour(g, x, y)[i] = g.data[y * m + (4 * x + i)]
      BY <1>2, <3>1, ArgbByte
    <3>3. m = l
      BY <1>3
    <3> HIDE DEF m, l
    <3> QED BY <3>2, <3>3
  <2>3. Colour(f, x, u)[i] = f.data[a]
    <3> HIDE DEF u
    <3> QED BY <1>4, ArgbByte
  <2>4. IsTaken(l, x, y, i)
    <3>1. IsAligned(l)
      BY LinesAligned
    <3> HIDE DEF l
    <3> QED BY <1>1, <2>1, <3>1, ByteTaken
  <2>5. b \div l = y /\ b % l = r
    BY <2>4 DEF IsTaken
  <2>6. l * (h - y - 1) + r = a
    <3> HIDE DEF l, u, h, r
    <3>1. l * u = u * l
      BY <1>4, <2>1, <1>1
    <3>2. h - y - 1 = u
      BY DEF u
    <3> QED BY <3>1, <3>2
  <2> HIDE DEF r, a, b, l, u, h
  <2>7. y < h
    BY <1>1 DEF h
  <2>8. value(b) = f.data[a]
    <3>1. CASE Paired(h, y)
      BY <2>5, <2>6, <2>7, <3>1
    <3>2. CASE ~Paired(h, y)
      <4>1. b = a
        BY <1>4, <3>2 DEF a, b
      <4> QED BY <2>5, <3>2, <4>1
    <3> QED BY <3>1, <3>2
  <2> HIDE DEF value
  <2>9. g.data[b] = value(b)
    BY <1>3, <2>1
  <2> QED BY <2>2, <2>3, <2>8, <2>9
<1>6. Colour(g, x, y) = Colour(f, x, u)
  BY <1>5, SameColours
<1> QED BY <1>6 DEF g

LEMMA MirroredColour ==
  ASSUME NEW f, IsArgbSource(f), NEW horizontal \in BOOLEAN, NEW vertical \in BOOLEAN,
         NEW x \in 0 .. f.format.width - 1, NEW y \in 0 .. f.format.height - 1
  PROVE  Colour(Mirror(f, horizontal, vertical), x, y)
           = Colour(f, IF horizontal THEN f.format.width - x - 1 ELSE x,
                       IF vertical THEN f.format.height - y - 1 ELSE y)
<1>1. CASE horizontal /\ vertical
  BY <1>1, BothColour DEF Mirror
<1>2. CASE horizontal /\ ~vertical
  BY <1>2, HorizontalColour DEF Mirror
<1>3. CASE ~horizontal /\ vertical
  BY <1>3, VerticalColour DEF Mirror
<1>4. CASE ~horizontal /\ ~vertical
  BY <1>4 DEF Mirror
<1> QED BY <1>1, <1>2, <1>3, <1>4

(***************************************************************************)
(* A frame on its way through the two converters and the filters.          *)
(***************************************************************************)
LEMMA NewCanConvert ==
  ASSUME NEW target, NEW values, NEW input,
         input.format # target => AreConvertible(input.format, target)
  PROVE  LET c == Set(NewConverter, target, values) IN
         CanConvert(c, input) /\ HasFrame(c) /\ c.output = target
<1> DEFINE c == Set(NewConverter, target, values)
<1>1. DOMAIN c = {"output", "scaling", "aspect", "fc"} /\ c.fc = None /\ c.output = target
  BY DEF Set, NewConverter
<1> HIDE DEF c
<1>2. IsConverter(c) /\ Kept(c) /\ HasFrame(c)
  BY <1>1 DEF IsConverter, Kept, HasFrame
<1> QED BY <1>1, <1>2 DEF CanConvert, c

LEMMA ImportedSource ==
  ASSUME NEW f, IsSource(f), Is8BitRgb(f.format), NEW values
  PROVE  LET g == Fresh(f, ArgbOf(f), values) IN
         /\ IsArgbSource(g) /\ HasColoursOf(g, f)
         /\ g.format.width = f.format.width /\ g.format.height = f.format.height
<1> DEFINE target == ArgbOf(f)
           c == Set(NewConverter, target, values)
           g == ConvertFrame(c, f).frame
<1>1. g = Fresh(f, ArgbOf(f), values)
  BY DEF Fresh
<1>2. IsPicture(f) /\ IsSize(f.format)
  BY DEF IsSource, IsPicture
<1>3. AreConvertible(f.format, target) /\ target.fourcc = "ARGB32"
      /\ target.specs = Specs["ARGB32"]
  BY <1>2, ArgbConvertible
<1>4. target.width = f.format.width /\ target.height = f.format.height
  BY DEF ArgbOf, Format, WithParams
<1>5. IsSize(target) /\ IsFormat(target)
  <2>1. IsSize(target)
    BY <1>2, <1>4 DEF IsSize
  <2>2. target = Format("ARGB32", target.width, target.height)
    BY <1>4 DEF ArgbOf
  <2> HIDE DEF target
  <2> QED BY <1>3, <2>1, <2>2, Argb32Bytes DEF IsFormat
<1> HIDE DEF target
<1>6. CanConvert(c, f) /\ HasFrame(c) /\ c.output = target
  BY <1>3, NewCanConvert
<1> HIDE DEF c
<1>7. g.format.fourcc = "ARGB32" /\ IsFormatOfSize(g.format)
  BY <1>3, <1>5, <1>6, WholeFrameMade DEF CanConvert
<1>8. g.format.width = f.format.width /\ g.format.height = f.format.height
  <2>1. CASE f.format = c.output
    <3>1. g = f
      BY <2>1 DEF ConvertFrame
    <3> HIDE DEF g
    <3> QED BY <3>1
  <2>2. CASE f.format # c.output
    <3> DEFINE key == Key(c, f.format)
               made == Configured(key).p.scale.format
    <3>1. g = FrameOf(Configured(key), c, f)
      BY <1>6, <2>2, MadeFresh
    <3>2. made = ConfigureScaling(f.format, c.output, c.aspect).format
      BY DEF Configured, ConfiguredWith, Key, Parameters, Configure
    <3> HIDE DEF key, g
    <3>3. g.format = made
      BY <3>1 DEF FrameOf
    <3> HIDE DEF made
    <3> QED BY <1>2, <1>4, <1>6, <3>2, <3>3, SizeRemains
  <2> QED BY <2>1, <2>2
<1>9. Is8BitRgb(g.format)
  <2>1. g.format.specs = Specs["ARGB32"]
    BY <1>7, KnownFormat DEF IsFormatOfSize
  <2>2. <<"A", "R", "G", "B">> \in RgbBytes
    BY DEF RgbBytes
  <2> HIDE DEF g
  <2> QED BY <2>1, <2>2, Argb32Bytes, BytesFast DEF Is8BitRgb
<1>10. IsSource(g) /\ HasColoursOf(g, f)
  BY <1>5, <1>6, <1>8, <1>9, CopiedColours
<1> HIDE DEF g
<1> QED BY <1>1, <1>7, <1>8, <1>10 DEF IsArgbSource

LEMMA ExportedColours ==
  ASSUME NEW f, IsArgbSource(f), NEW target, IsSize(target), IsFormat(target), NEW values,
         LET g == Fresh(f, target, values) IN
           /\ Is8BitRgb(g.format)
           /\ g.format.width = f.format.width /\ g.format.height = f.format.height
  PROVE  HasColoursOf(Fresh(f, target, values), f)
<1> DEFINE c == Set(NewConverter, target, values)
           g == ConvertFrame(c, f).frame
<1>1. g = Fresh(f, target, values)
  BY DEF Fresh
<1>2. IsSource(f) /\ f.format.specs = Specs["ARGB32"] /\ IsSize(f.format)
  BY KnownFormat DEF IsArgbSource, IsSource, IsPicture
<1>3. AreConvertible(f.format, target)
  BY <1>2, KnownFormat DEF AreConvertible
<1>4. CanConvert(c, f) /\ HasFrame(c) /\ c.output = target
  BY <1>3, NewCanConvert
<1> HIDE DEF c
<1>5. Is8BitRgb(f.format)
  <2>1. <<"A", "R", "G", "B">> \in RgbBytes
    BY DEF RgbBytes
  <2> QED BY <1>2, <2>1, Argb32Bytes, BytesFast DEF Is8BitRgb
<1>6. /\ Is8BitRgb(g.format)
      /\ g.format.width = f.format.width /\ g.format.height = f.format.height
  <2> HIDE DEF g
  <2> QED BY <1>1
<1>7. HasColoursOf(g, f)
  BY <1>2, <1>4, <1>5, <1>6, CopiedColours
<1> HIDE DEF g
<1> QED BY <1>1, <1>7

LEMMA PlacedColours ==
  ASSUME NEW f, IsSource(f), Is8BitRgb(f.format), NEW target, IsSize(target),
         IsFormat(target), NEW in_, NEW out_, NEW filter_, Neutrals(filter_),
         NEW horizontal \in BOOLEAN, NEW vertical \in BOOLEAN,
         NEW g, g = Fresh(Apply(Mirror(Fresh(f, ArgbOf(f), in_), horizontal, vertical),
                                filter_), target, out_),
         Is8BitRgb(g.format),
         g.format.width = f.format.width, g.format.height = f.format.height,
         NEW x \in 0 .. g.format.width - 1, NEW y \in 0 .. g.format.height - 1
  PROVE  Colour(g, x, y)
           = Colour(f, IF horizontal THEN g.format.width - 1 - x ELSE x,
                       IF vertical THEN g.format.height - 1 - y ELSE y)
<1> DEFINE argb == Fresh(f, ArgbOf(f), in_)
           turned == Mirror(argb, horizontal, vertical)
           filtered == Apply(turned, filter_)
           w == g.format.width
           h == g.format.height
           v == IF horizontal THEN w - x - 1 ELSE x
           u == IF vertical THEN h - y - 1 ELSE y
<1>1. IsArgbSource(argb) /\ HasColoursOf(argb, f)
      /\ argb.format.width = w /\ argb.format.height = h
  BY ImportedSource
<1> HIDE DEF argb
<1>2. w \in Nat /\ h \in Nat
  BY <1>1, ArgbSource
<1>3. v \in 0 .. w - 1 /\ u \in 0 .. h - 1
  <2> HIDE DEF w, h
  <2>1. w - x - 1 \in 0 .. w - 1 /\ x \in 0 .. w - 1
    BY <1>2 DEF w
  <2>2. h - y - 1 \in 0 .. h - 1 /\ y \in 0 .. h - 1
    BY <1>2 DEF h
  <2> QED BY <2>1, <2>2
<1>4. IsArgbSource(turned) /\ turned.format = argb.format
  <2>1. IsArgbSource(turned)
    BY <1>1, MirrorWhole
  <2>2. IsPicture(argb)
    BY <1>1 DEF IsArgbSource, IsSource
  <2>3. Apply(turned, filter_).format = argb.format
    BY <2>2, FiltersKeepFormat
  <2>4. Apply(turned, filter_).format = turned.format
    BY <2>1, AppliedNeutral
  <2> QED BY <2>1, <2>3, <2>4
<1>5. Colour(turned, x, y) = Colour(argb, v, u)
  <2>1. x \in 0 .. argb.format.width - 1 /\ y \in 0 .. argb.format.height - 1
    BY <1>1
  <2>2. Colour(turned, x, y)
          = Colour(argb, IF horizontal THEN argb.format.width - x - 1 ELSE x,
                         IF vertical THEN argb.format.height - y - 1 ELSE y)
    BY <1>1, <2>1, MirroredColour
  <2> HIDE DEF w, h, turned
  <2> QED BY <1>1, <2>2
<1> HIDE DEF turned
<1>6. IsArgbSource(filtered) /\ HasColoursOf(filtered, turned)
      /\ filtered.format = turned.format
  BY <1>4, AppliedNeutral
<1> HIDE DEF filtered
<1>7. g = Fresh(filtered, target, out_)
  BY DEF filtered, turned, argb
<1>8. HasColoursOf(g, filtered)
  <2> DEFINE made == Fresh(filtered, target, out_)
  <2>1. /\ Is8BitRgb(made.format)
        /\ made.format.width = filtered.format.width
        /\ made.format.height = filtered.format.height
    <3> HIDE DEF made
    <3>1. g = made
      BY <1>7 DEF made
    <3> QED BY <1>1, <1>4, <1>6, <3>1
  <2>2. HasColoursOf(made, filtered)
    BY <1>6, <2>1, ExportedColours
  <2> HIDE DEF made
  <2> QED BY <1>7, <2>2 DEF made
<1> HIDE DEF v, u, w, h
<1>9. Colour(g, x, y) = Colour(filtered, x, y)
  BY <1>1, <1>4, <1>6, <1>8 DEF HasColoursOf, w, h
<1>10. Colour(filtered, x, y) = Colour(turned, x, y)
  BY <1>1, <1>4, <1>6 DEF HasColoursOf, w, h
<1>11. Colour(argb, v, u) = Colour(f, v, u)
  BY <1>1, <1>3 DEF HasColoursOf, w, h
<1>12. Colour(g, x, y) = Colour(f, v, u)
  BY <1>5, <1>9, <1>10, <1>11
<1>13. v = (IF horizontal THEN g.format.width - 1 - x ELSE x)
       /\ u = (IF vertical THEN g.format.height - 1 - y ELSE y)
  BY <1>2 DEF v, u, w, h
<1> QED BY <1>12, <1>13

(***************************************************************************)
(* The invariant: what the clock noted down is what its steps leave.       *)
(***************************************************************************)
FilterNames ==
  {"hue", "saturation", "brightness", "contrast", "gamma", "gray", "swap_rgb"}

FlipsNoted ==
  used.in.horizontal_flip \in BOOLEAN /\ used.in.vertical_flip \in BOOLEAN

UsedInv ==
  /\ pc # "idle" => IsSource(used.frame)
  /\ pc \in {"filter", "convert_out"} => used.in # None /\ FlipsNoted
  /\ pc = "convert_out" => DOMAIN used.filter = FilterNames
  /\ pc = "idle" /\ written # None /\ ~used.direct =>
       /\ IsSource(used.frame) /\ IsSize(used.target) /\ IsFormat(used.target)
       /\ used.in # None => FlipsNoted /\ DOMAIN used.filter = FilterNames

LEMMA InitUsed == Init => UsedInv
BY DEF Init, UsedInv

LEMMA FlipsAreBoolean ==
  ASSUME ControlsInv
  PROVE  controls.horizontal_flip \in BOOLEAN /\ controls.vertical_flip \in BOOLEAN
         /\ controls.gray \in BOOLEAN /\ controls.swap_rgb \in BOOLEAN
<1>1. AreControls(controls, Shared \cup DOMAIN CaptureControls)
  BY DEF ControlsInv
<1>2. {"horizontal_flip", "vertical_flip", "gray", "swap_rgb"}
        \subseteq Shared \cup DOMAIN CaptureControls
  BY Names DEF Both, Copied
<1> QED BY <1>1, <1>2 DEF AreControls, ControlValues

LEMMA UsedReadFrame ==
  ASSUME UsedInv, FreshInv', WholeInv', ReadFrame
  PROVE  UsedInv'
<1> DEFINE random == [NewFrame(format) EXCEPT !.data = [b \in DOMAIN @ |-> 77]]
           using_default == current = None /\ default # None
           g == IF current # None THEN current ELSE IF using_default THEN default ELSE random
<1>1. \/ used' = Started(g, TRUE) /\ pc' = "idle"
      \/ used' = Started(g, FALSE) /\ frame' = g
           /\ pc' \in {"convert_default", "convert_in"}
  BY DEF ReadFrame, Write
<1> HIDE DEF g
<1>2. CASE used' = Started(g, TRUE) /\ pc' = "idle"
  <2>1. used'.direct = TRUE
    BY <1>2 DEF Started
  <2> QED BY <1>2, <2>1 DEF UsedInv
<1>3. CASE /\ used' = Started(g, FALSE) /\ frame' = g
           /\ pc' \in {"convert_default", "convert_in"}
  <2>1. used'.frame = g
    BY <1>3 DEF Started
  <2>2. IsSource(frame')
    BY <1>3 DEF WholeInv, FramesWhole
  <2> QED BY <1>3, <2>1, <2>2 DEF UsedInv
<1> QED BY <1>1, <1>2, <1>3

LEMMA UsedConvertIn ==
  ASSUME UsedInv, FreshInv, WholeInv, ConvertIn
  PROVE  UsedInv'
<1> DEFINE names == {"horizontal_flip", "vertical_flip", "scaling", "aspect_ratio"}
           d == Sample(names)
<1>1. pc = "convert_in" /\ pc' = "filter" /\ used' = [used EXCEPT !.in = d]
  BY DEF ConvertIn
<1>2. DOMAIN used = {"frame", "direct", "in", "filter", "out", "target"}
  BY <1>1 DEF FreshInv, ChainInv
<1>3. d # None /\ d.horizontal_flip \in BOOLEAN /\ d.vertical_flip \in BOOLEAN
  BY SampleFacts, FlipsAreBoolean DEF WholeInv
<1> HIDE DEF d
<1>4. used'.in = d /\ used'.frame = used.frame
  BY <1>1, <1>2
<1>5. IsSource(used'.frame)
  BY <1>1, <1>4 DEF UsedInv
<1> QED BY <1>1, <1>3, <1>4, <1>5 DEF UsedInv, FlipsNoted

LEMMA UsedFilter ==
  ASSUME UsedInv, FreshInv, Filter
  PROVE  UsedInv'
<1>1. pc = "filter" /\ pc' = "convert_out"
      /\ used' = [used EXCEPT !.filter = Sample(FilterNames)]
  BY DEF Filter, FilterNames
<1>2. DOMAIN used = {"frame", "direct", "in", "filter", "out", "target"}
  BY <1>1 DEF FreshInv, ChainInv
<1>3. DOMAIN Sample(FilterNames) = FilterNames
  BY DEF Sample
<1> DEFINE d == Sample(FilterNames)
<1> HIDE DEF d
<1>4. used'.in = used.in /\ used'.frame = used.frame /\ used'.filter = d
  BY <1>1, <1>2 DEF d
<1>5. IsSource(used'.frame) /\ used'.in # None /\ FlipsNoted'
  BY <1>1, <1>4 DEF UsedInv, FlipsNoted
<1> QED BY <1>1, <1>3, <1>4, <1>5 DEF UsedInv, d

LEMMA UsedConvertOut ==
  ASSUME UsedInv, FreshInv, WholeInv, ConvertOut
  PROVE  UsedInv'
<1> DEFINE d == Sample({"scaling", "aspect_ratio"})
<1>1. pc \in {"convert_out", "convert_default"} /\ pc' = "idle"
      /\ used' = [used EXCEPT !.out = d, !.target = format]
  BY DEF ConvertOut, Write
<1>2. DOMAIN used = {"frame", "direct", "in", "filter", "out", "target"}
  BY <1>1 DEF FreshInv, ChainInv
<1> HIDE DEF d
<1>3. /\ used'.in = used.in /\ used'.frame = used.frame /\ used'.filter = used.filter
      /\ used'.target = format
  BY <1>1, <1>2
<1>4. IsSource(used'.frame) /\ IsSize(used'.target) /\ IsFormat(used'.target)
  BY <1>1, <1>3 DEF UsedInv, WholeInv, FramesWhole, PipelineInv, FramesArePictures
<1>5. used'.in # None => FlipsNoted' /\ DOMAIN used'.filter = FilterNames
  BY <1>1, <1>3 DEF UsedInv, FlipsNoted, FreshInv, ChainInv
<1> QED BY <1>1, <1>4, <1>5 DEF UsedInv

AllInv == WholeInv /\ FreshInv /\ UsedInv

LEMMA AllStep == AllInv /\ [Next]_vars => AllInv'
<1> SUFFICES ASSUME AllInv, [Next]_vars PROVE AllInv'
  OBVIOUS
<1>1. UsedInv /\ WholeInv /\ FreshInv /\ WholeInv' /\ FreshInv'
  BY FreshStep, WholeStep DEF AllInv
<1> DEFINE Same == UNCHANGED <<pc, used, written>>
<1>2. Same => UsedInv'
  BY <1>1 DEF UsedInv, FlipsNoted
<1>3. ASSUME NEW c \in CaptureChanges, SetCaptureControl(c[1], c[2]) PROVE Same
  BY <1>3 DEF SetCaptureControl, ClockUnchanged
<1>4. ASSUME NEW c \in OutputChanges, SetOutputControl(c[1], c[2]) PROVE Same
  BY <1>4 DEF SetOutputControl, ClockUnchanged
<1>5. ASSUME NEW f \in Sources, Send(f) PROVE Same
  BY <1>5 DEF Send, ClockUnchanged
<1>6. ASSUME NEW f \in Formats, SetFormat(f) PROVE Same
  BY <1>6 DEF SetFormat, ClockUnchanged
<1>7. UNCHANGED vars => Same
  BY DEF vars
<1> HIDE DEF Same
<1>8. UsedInv'
  BY <1>1, <1>2, <1>3, <1>4, <1>5, <1>6, <1>7, UsedReadFrame, UsedConvertIn, UsedFilter,
     UsedConvertOut DEF Next
<1> QED BY <1>1, <1>8 DEF AllInv

LEMMA AllHolds == Spec => []AllInv
<1>1. Init => AllInv
  BY InitWhole, InitFresh, InitUsed DEF AllInv
<1> QED BY <1>1, AllStep, PTL DEF Spec

(***************************************************************************)
(* A frame written has the colours of the frame read, where they belong.   *)
(***************************************************************************)
LEMMA SizeOfPlaces ==
  ASSUME NEW w \in Nat, NEW h \in Nat, w > 0, h > 0, NEW a \in Nat, NEW b \in Nat,
         (0 .. w - 1) \X (0 .. h - 1) = (0 .. a - 1) \X (0 .. b - 1)
  PROVE  w = a /\ h = b
<1>1. <<w - 1, h - 1>> \in (0 .. w - 1) \X (0 .. h - 1)
  OBVIOUS
<1>2. w - 1 \in 0 .. a - 1 /\ h - 1 \in 0 .. b - 1
  BY <1>1
<1>3. <<a - 1, b - 1>> \in (0 .. a - 1) \X (0 .. b - 1)
  BY <1>2
<1>4. a - 1 \in 0 .. w - 1 /\ b - 1 \in 0 .. h - 1
  BY <1>3
<1> QED BY <1>2, <1>4

LEMMA SampledNeutrals ==
  ASSUME ControlsInv, Neutral, DOMAIN used.filter = FilterNames
  PROVE  Neutrals(used.filter)
<1> DEFINE d == used.filter
<1>1. \A c \in FilterNames : d[c] = controls[c]
  BY SampleFacts DEF Neutral
<1> HIDE DEF d
<1>2. /\ controls.gray = FALSE /\ controls.swap_rgb = FALSE
      /\ controls.hue = 0 /\ controls.saturation = 0 /\ controls.brightness = 0
      /\ controls.contrast = 0 /\ controls.gamma = 0
  BY FlipsAreBoolean DEF Neutral
<1>3. Neutrals(d)
  BY <1>1, <1>2 DEF Neutrals, FilterNames
<1> QED BY <1>3 DEF d

LEMMA ExportedSize ==
  ASSUME NEW f, IsArgbSource(f), NEW target, IsSize(target), IsFormat(target), NEW values
  PROVE  LET g == Fresh(f, target, values) IN
         g.format.width \in Nat /\ g.format.height \in Nat
<1> DEFINE c == Set(NewConverter, target, values)
           g == ConvertFrame(c, f).frame
<1>1. g = Fresh(f, target, values)
  BY DEF Fresh
<1>2. IsSource(f) /\ f.format.specs = Specs["ARGB32"] /\ IsSize(f.format)
  BY KnownFormat DEF IsArgbSource, IsSource, IsPicture
<1>3. AreConvertible(f.format, target)
  BY <1>2, KnownFormat DEF AreConvertible
<1>4. CanConvert(c, f) /\ HasFrame(c) /\ c.output = target
  BY <1>3, NewCanConvert
<1> HIDE DEF c
<1>5. IsFormatOfSize(g.format)
  BY <1>2, <1>4, WholeFrameMade DEF CanConvert
<1> HIDE DEF g
<1> QED BY <1>1, <1>5 DEF IsFormatOfSize

LEMMA PlacedWhenWritten ==
  ASSUME AllInv,
         Done, used.in # None, Neutral,
         Is8BitRgb(used.frame.format), Is8BitRgb(written.format),
         Places(used.frame) = Places(written),
         NEW x \in 0 .. written.format.width - 1,
         NEW y \in 0 .. written.format.height - 1
  PROVE  Colour(written, x, y)
           = Colour(used.frame,
                    IF used.in.horizontal_flip THEN written.format.width - 1 - x ELSE x,
                    IF used.in.vertical_flip THEN written.format.height - 1 - y ELSE y)
<1> DEFINE f == used.frame
           argb == Fresh(f, ArgbOf(f), used.in)
           turned == Mirror(argb, used.in.horizontal_flip, used.in.vertical_flip)
           filtered == Apply(turned, used.filter)
<1>1. /\ IsSource(f) /\ IsSize(used.target) /\ IsFormat(used.target)
      /\ used.in.horizontal_flip \in BOOLEAN /\ used.in.vertical_flip \in BOOLEAN
      /\ DOMAIN used.filter = FilterNames
  BY DEF AllInv, UsedInv, Done, FlipsNoted
<1>2. Neutrals(used.filter)
  BY <1>1, SampledNeutrals DEF AllInv, WholeInv
<1>3. written = Fresh(filtered, used.target, used.out)
  BY DEF AllInv, FreshInv, WrittenIsFresh, Expected, Done, ArgbOf
<1>4. IsArgbSource(filtered)
  <2>1. IsArgbSource(argb)
    BY <1>1, ImportedSource
  <2> HIDE DEF argb
  <2>2. IsArgbSource(turned)
    BY <1>1, <2>1, MirrorWhole
  <2> HIDE DEF turned
  <2> QED BY <1>2, <2>2, AppliedNeutral
<1>5. written.format.width \in Nat /\ written.format.height \in Nat
  <2> HIDE DEF filtered
  <2> QED BY <1>1, <1>3, <1>4, ExportedSize
<1>6. written.format.width = f.format.width /\ written.format.height = f.format.height
  <2>1. IsSize(f.format)
    BY <1>1 DEF IsSource, IsPicture
  <2>2. (0 .. f.format.width - 1) \X (0 .. f.format.height - 1)
          = (0 .. written.format.width - 1) \X (0 .. written.format.height - 1)
    BY DEF Places
  <2> DEFINE w == f.format.width
             h == f.format.height
             a == written.format.width
             b == written.format.height
  <2>3. /\ w \in Nat /\ h \in Nat /\ w > 0 /\ h > 0 /\ a \in Nat /\ b \in Nat
        /\ (0 .. w - 1) \X (0 .. h - 1) = (0 .. a - 1) \X (0 .. b - 1)
    BY <1>5, <2>1, <2>2 DEF IsSize
  <2> HIDE DEF w, h, a, b
  <2>4. w = a /\ h = b
    BY <2>3, SizeOfPlaces
  <2> QED BY <2>4 DEF w, h, a, b
<1> QED BY <1>1, <1>2, <1>3, <1>6, PlacedColours

(* Between RGB formats of 8 bits and frames of one size, whatever the      *)
(* converters, the flips and the scaling modes were before, a pixel of the *)
(* frame written has the colour the frame read has at its place, or at the *)
(* place across from it where a flip is set (akvcam_frame_convert, its     *)
(* fast paths, akvcam_frame_filter_mirror, akvcam_frame_filter_apply).     *)
THEOREM ColoursArePlacedHolds == Spec => []ColoursArePlaced
<1>1. AllInv => ColoursArePlaced
  <2> SUFFICES ASSUME AllInv, Done, used.in # None, Neutral,
                      Is8BitRgb(used.frame.format), Is8BitRgb(written.format),
                      Places(used.frame) = Places(written), NEW q \in Places(written)
               PROVE  LET f == written.format
                          x == IF used.in.horizontal_flip THEN f.width - 1 - q[1] ELSE q[1]
                          y == IF used.in.vertical_flip THEN f.height - 1 - q[2] ELSE q[2] IN
                      Colour(written, q[1], q[2]) = Colour(used.frame, x, y)
    BY DEF ColoursArePlaced
  <2>1. q[1] \in 0 .. written.format.width - 1 /\ q[2] \in 0 .. written.format.height - 1
    BY DEF Places
  <2> QED BY <2>1, PlacedWhenWritten
<1> QED BY <1>1, AllHolds, PTL

=============================================================================
