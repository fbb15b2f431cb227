----------------------- MODULE FormatNegotiationProofs -----------------------
(***************************************************************************)
(* Proofs about FormatNegotiation, for every list of formats, every size   *)
(* of word and every request.                                              *)
(*                                                                         *)
(* Two of them are about the state: the copies of the format differ only   *)
(* while one is being set, and a buffer is measured against its own size.  *)
(* The third is about arithmetic: that the distance of a format from the   *)
(* request cannot wrap around to 0, since the square of a power of two is  *)
(* no sum of two squares of smaller numbers, nor one more than such a sum. *)
(***************************************************************************)
EXTENDS FormatNegotiation, SequenceLemmas, TLAPS

Configured(f) == \E g \in Range(formats) : SameSize(f, g)

(* The format on its way to both copies is a configured one; the device    *)
(* has it before the buffers do.                                           *)
CopiesAgree ==
  /\ Configured(device)
  /\ Configured(target)
  /\ setting = "no" => device = queue
  /\ setting = "queue" => device = target

(* S_PARM and the defaults bring in rates that the settings list.          *)
RatesArePositive == target.fps.num > 0 /\ target.fps.den > 0

FormatInv == TypeOK /\ RatesArePositive /\ CopiesAgree

-----------------------------------------------------------------------------
(* What akvcam_format_nearest finds is in the list, and the settings'.     *)
LEMMA FormatsListed ==
  ASSUME formats \in FormatLists
  PROVE  /\ formats \in Seq(Formats) /\ formats # << >>
         /\ \A i \in DOMAIN formats :
              formats[i].fps.num > 0 /\ formats[i].fps.den > 0
         /\ \A f \in Range(formats) :
              f \in Formats /\ f.fps.num > 0 /\ f.fps.den > 0
<1>1. /\ formats \in Seq(Formats) /\ formats # << >>
      /\ \A i \in DOMAIN formats :
           formats[i].fps.num > 0 /\ formats[i].fps.den > 0
  BY FormatNegotiationAssumption DEF FormatNegotiationAssumption
<1>2. \A i \in DOMAIN formats : formats[i] \in Formats
  BY <1>1
<1> QED
  BY <1>1, <1>2 DEF Range

LEMMA NearestIsListed ==
  ASSUME NEW format, Nearest(format) # << >>
  PROVE  Nearest(format)[1] \in Range(formats)
<1> DEFINE i == CHOOSE k \in DOMAIN formats : IsNearest(k, format)
<1>1. (\E k \in DOMAIN formats : IsNearest(k, format)) /\ Nearest(format) = << formats[i] >>
  BY DEF Nearest
<1>2. i \in DOMAIN formats
  BY <1>1
<1> HIDE DEF i
<1>3. Nearest(format)[1] = formats[i]
  BY <1>1
<1> QED
  BY <1>2, <1>3 DEF Range

(* The first format is configured, being the default of the device.        *)
LEMMA FirstIsListed ==
  ASSUME formats \in FormatLists
  PROVE  formats[1] \in Range(formats)
<1>1. formats \in Seq(Formats) /\ formats # << >>
  BY FormatsListed
<1>2. Len(formats) \in Nat \ {0} /\ DOMAIN formats = 1 .. Len(formats)
  BY <1>1
<1> QED
  BY <1>2 DEF Range

(* Sizes and bytes are numbers.                                            *)
LEMMA ConstantTypes ==
  Sizes \subseteq Nat /\ BytesPerPixel \in [Fourccs -> Nat] /\ SizeModulus \in Nat
<1>1. \E word \in 2 .. SizeModulus : Sizes \subseteq 0 .. word - 1
  BY FormatNegotiationAssumption, Zenon DEF FormatNegotiationAssumption
<1>2. Sizes \subseteq Nat
  BY <1>1
<1> QED
  BY <1>2, FormatNegotiationAssumption, Zenon DEF FormatNegotiationAssumption

(* The size of a plane is a number of bytes.                               *)
LEMMA PlaneSizeType == ASSUME NEW f \in Formats PROVE PlaneSize(f) \in Nat
<1>1. BytesPerPixel[f.fourcc] \in Nat /\ f.width \in Nat /\ f.height \in Nat
  BY ConstantTypes DEF Formats
<1>2. BytesPerPixel[f.fourcc] * f.width \in Nat
  BY <1>1
<1>3. AlignUp(BytesPerPixel[f.fourcc] * f.width) \in Nat
  BY <1>2 DEF AlignUp
<1>4. \A m, n \in Nat : m * n \in Nat
  OBVIOUS
<1> QED
  BY <1>1, <1>3, <1>4 DEF PlaneSize

-----------------------------------------------------------------------------
(* The two copies of the format.                                           *)

LEMMA FormatInvInit == Init => FormatInv
<1> SUFFICES ASSUME Init PROVE FormatInv
  OBVIOUS
<1>1. formats \in FormatLists /\ device = formats[1] /\ queue = formats[1] /\ target = formats[1]
  BY DEF Init
<1>2. /\ formats[1] \in Range(formats) /\ formats[1] \in Formats
      /\ formats[1].fps.num > 0 /\ formats[1].fps.den > 0
  BY <1>1, FirstIsListed, FormatsListed
<1>3. Configured(formats[1])
  BY <1>2 DEF Configured, SameSize
<1> QED
  BY <1>1, <1>2, <1>3
  DEF Init, FormatInv, TypeOK, RatesArePositive, CopiesAgree

(* What S_FMT sets is a configured size with the rate from before.         *)
LEMMA SFmtTarget ==
  ASSUME FormatInv, NEW fourcc \in Fourccs, NEW width \in Sizes, NEW height \in Sizes,
         SFmt(fourcc, width, height)
  PROVE  /\ target' \in Formats /\ Configured(target')
         /\ target'.fps.num > 0 /\ target'.fps.den > 0
<1> DEFINE found == TryFmt(fourcc, width, height)[1]
<1>1. found \in Range(formats) /\ target' = Chosen(found)
  BY NearestIsListed DEF SFmt, TryFmt
<1>2. found \in Formats /\ device \in Formats /\ device.fps.num > 0 /\ device.fps.den > 0
  BY <1>1, FormatsListed DEF FormatInv, TypeOK
<1>3. target' = [found EXCEPT !.fps = device.fps]
  BY <1>1 DEF Chosen
<1> HIDE DEF found
<1>4. /\ target' \in Formats /\ SameSize(target', found)
      /\ target'.fps = device.fps
  BY <1>2, <1>3 DEF Formats, SameSize
<1> QED
  BY <1>1, <1>2, <1>4 DEF Configured

LEMMA SParmTarget ==
  ASSUME FormatInv, NEW interval, SParm(interval)
  PROVE  /\ target' \in Formats /\ Configured(target')
         /\ target'.fps.num > 0 /\ target'.fps.den > 0
<1>1. target' \in Range(formats)
  BY NearestIsListed DEF SParm, SParmFormat
<1> QED
  BY <1>1, FormatsListed DEF Configured, SameSize, FormatInv, TypeOK

LEMMA FormatInvStep == FormatInv /\ [Next]_vars => FormatInv'
<1> SUFFICES ASSUME FormatInv, [Next]_vars PROVE FormatInv'
  OBVIOUS
<1>t. TypeOK /\ RatesArePositive /\ CopiesAgree
  BY DEF FormatInv
<1>p. PlaneSize(queue) \in Nat
  BY <1>t, PlaneSizeType DEF TypeOK
<1>1. ASSUME NEW fourcc \in Fourccs, NEW width \in Sizes, NEW height \in Sizes,
             SFmt(fourcc, width, height)
      PROVE  FormatInv'
  <2>1. /\ target' \in Formats /\ Configured(target')
        /\ target'.fps.num > 0 /\ target'.fps.den > 0
    BY <1>1, SFmtTarget
  <2> QED
    BY <1>1, <1>t, <2>1
    DEF SFmt, FormatInv, TypeOK, RatesArePositive, CopiesAgree, Configured
<1>2. ASSUME NEW num \in Rates, NEW den \in Rates, SParm([num |-> num, den |-> den])
      PROVE  FormatInv'
  <2>1. /\ target' \in Formats /\ Configured(target')
        /\ target'.fps.num > 0 /\ target'.fps.den > 0
    BY <1>2, SParmTarget
  <2> QED
    BY <1>2, <1>t, <2>1
    DEF SParm, FormatInv, TypeOK, RatesArePositive, CopiesAgree, Configured
<1>3. CASE SetDeviceFormat
  BY <1>3, <1>t
  DEF SetDeviceFormat, FormatInv, TypeOK, RatesArePositive, CopiesAgree, Configured
<1>4. CASE SetQueueFormat
  BY <1>4, <1>t
  DEF SetQueueFormat, FormatInv, TypeOK, RatesArePositive, CopiesAgree, Configured
<1>5. ASSUME UNCHANGED <<formats, device, queue, setting, target>>,
             TypeOK'
      PROVE  FormatInv'
  BY <1>5, <1>t DEF FormatInv, RatesArePositive, CopiesAgree, Configured
<1>6. CASE ReqBufs
  <2>1. TypeOK'
    BY <1>6, <1>t, <1>p DEF ReqBufs, TypeOK
  <2> QED
    BY <1>5, <1>6, <2>1 DEF ReqBufs
<1>7. CASE QBuf
  <2>1. TypeOK'
    BY <1>7, <1>t, <1>p DEF QBuf, TypeOK
  <2> QED
    BY <1>5, <1>7, <2>1 DEF QBuf
<1>8. CASE StreamOn
  BY <1>5, <1>8, <1>t DEF StreamOn, TypeOK
<1>9. CASE StreamOff
  <2>1. TypeOK'
    BY <1>9, <1>t DEF StreamOff, TypeOK
  <2> QED
    BY <1>5, <1>9, <2>1 DEF StreamOff
<1>10. CASE CompleteFrame
  <2>1. AtMost(PlaneSize(queue), buffer.size) \in Nat
    BY <1>p, <1>t DEF AtMost, TypeOK
  <2>2. TypeOK'
    BY <1>10, <1>t, <2>1 DEF CompleteFrame, TypeOK
  <2> QED
    BY <1>5, <1>10, <2>2 DEF CompleteFrame
<1>11. CASE DQBuf
  <2>1. TypeOK'
    BY <1>11, <1>t DEF DQBuf, TypeOK
  <2> QED
    BY <1>5, <1>11, <2>1 DEF DQBuf
<1>12. CASE UNCHANGED vars
  BY <1>5, <1>12, <1>t DEF vars, TypeOK
<1> QED
  BY <1>1, <1>2, <1>3, <1>4, <1>6, <1>7, <1>8, <1>9, <1>10, <1>11, <1>12 DEF Next

LEMMA FormatInvHolds == Spec => []FormatInv
BY FormatInvInit, FormatInvStep, PTL DEF Spec

-----------------------------------------------------------------------------
(* Types, and a frame rate that is a rate: no numerator and no denominator *)
(* of the device's becomes 0, whichever ioctl sets it.                     *)
THEOREM TypesHold == Spec => []TypeOK
<1>1. FormatInv => TypeOK
  BY DEF FormatInv
<1> QED
  BY <1>1, FormatInvHolds, PTL

(* Whatever a process asks for, the device is left with a size and a pixel *)
(* format of the settings, and both copies of the format agree between two *)
(* calls of akvcam_device_set_format.                                      *)
THEOREM SizeIsConfiguredHolds == Spec => []SizeIsConfigured
<1>1. FormatInv => SizeIsConfigured
  BY DEF FormatInv, CopiesAgree, Configured, SizeIsConfigured
<1> QED
  BY <1>1, FormatInvHolds, PTL

(* A buffer never claims more bytes than it has, whatever becomes of the   *)
(* format while it is queued.                                              *)
THEOREM PayloadFitsHolds == Spec => []PayloadFits
<1>1. Init => PayloadFits
  BY DEF Init, PayloadFits
<1>2. FormatInv /\ PayloadFits /\ [Next]_vars => PayloadFits'
  <2> SUFFICES ASSUME FormatInv, PayloadFits, [Next]_vars PROVE PayloadFits'
    OBVIOUS
  <2>t. /\ buffer \in [state : {"none", "dequeued", "queued", "done"},
                       size : Nat, payload : Nat]
        /\ PlaneSize(queue) \in Nat
    BY PlaneSizeType DEF FormatInv, TypeOK
  <2>1. CASE ReqBufs
    BY <2>1, <2>t DEF ReqBufs, PayloadFits
  <2>2. CASE QBuf
    BY <2>2, <2>t DEF QBuf, PayloadFits
  <2>3. CASE StreamOff
    BY <2>3, <2>t DEF StreamOff, PayloadFits
  <2>4. CASE CompleteFrame
    <3>1. AtMost(PlaneSize(queue), buffer.size) \in Nat
          /\ AtMost(PlaneSize(queue), buffer.size) <= buffer.size
      BY <2>t DEF AtMost
    <3> QED
      BY <2>4, <2>t, <3>1 DEF CompleteFrame, PayloadFits
  <2>5. CASE DQBuf
    BY <2>5, <2>t DEF DQBuf, PayloadFits
  <2>6. CASE UNCHANGED buffer
    BY <2>6 DEF PayloadFits
  <2>7. CASE StreamOn \/ SetDeviceFormat \/ SetQueueFormat \/ UNCHANGED vars
    BY <2>6, <2>7 DEF StreamOn, SetDeviceFormat, SetQueueFormat, vars
  <2>8. ASSUME NEW fourcc \in Fourccs, NEW width \in Sizes, NEW height \in Sizes,
               SFmt(fourcc, width, height)
        PROVE  UNCHANGED buffer
    BY <2>8 DEF SFmt
  <2>9. ASSUME NEW num \in Rates, NEW den \in Rates,
               SParm([num |-> num, den |-> den])
        PROVE  UNCHANGED buffer
    BY <2>9 DEF SParm
  <2> QED
    BY <2>1, <2>2, <2>3, <2>4, <2>5, <2>6, <2>7, <2>8, <2>9 DEF Next
<1> QED
  BY <1>1, <1>2, FormatInvHolds, PTL DEF Spec

-----------------------------------------------------------------------------
(* Distances do not wrap around to 0.                                      *)

(* Squares modulo 4: of an even number 0, of an odd one 1.                 *)
LEMMA SquareModFour ==
  ASSUME NEW n \in Nat
  PROVE  \/ \E h \in Nat : n = 2 * h /\ n * n = 4 * (h * h)
         \/ \E h \in Nat : n = 2 * h + 1 /\ n * n = 4 * (h * h + h) + 1
<1>1. CASE n % 2 = 0
  <2>1. n \div 2 \in Nat /\ n = 2 * (n \div 2)
    BY <1>1
  <2>2. \A h \in Nat : (2 * h) * (2 * h) = 4 * (h * h)
    OBVIOUS
  <2> QED
    BY <2>1, <2>2
<1>2. CASE n % 2 = 1
  <2>1. n \div 2 \in Nat /\ n = 2 * (n \div 2) + 1
    BY <1>2
  <2>2. \A h \in Nat : (2 * h + 1) * (2 * h + 1) = 4 * (h * h + h) + 1
    OBVIOUS
  <2> QED
    BY <2>1, <2>2
<1>3. n % 2 = 0 \/ n % 2 = 1
  OBVIOUS
<1> QED
  BY <1>1, <1>2, <1>3

(* The square of a power of two is no sum of two squares of smaller        *)
(* numbers: all three would be even, and their halves another such sum.    *)
LEMMA NoSumOfTwoSquares ==
  ASSUME NEW n \in Nat, n # 0, PowerOf2(n),
         NEW a \in Nat, NEW b \in Nat, a < n, b < n
  PROVE  a * a + b * b # n * n
<1> DEFINE Sum(m, x, y) == x < m /\ y < m /\ x * x + y * y = m * m
           Bad == {m \in Nat \ {0} : PowerOf2(m) /\ \E x, y \in Nat : Sum(m, x, y)}
<1>1. ASSUME NEW m \in Bad PROVE \E h \in Bad : h < m
  <2> DEFINE h == m \div 2
  <2>1. m \in Nat \ {0} /\ PowerOf2(m)
    OBVIOUS
  <2>2. PICK x \in Nat, y \in Nat : Sum(m, x, y)
    OBVIOUS
  <2>3. m # 1
    <3>1. ASSUME m = 1 PROVE x = 0 /\ y = 0
      BY <2>2, <3>1
    <3> QED
      BY <2>2, <3>1
  <2>4. m % 2 = 0
    <3>1. m \in 1 .. m /\ 1 \in 1 .. m /\ m = m * 1
      BY <2>1
    <3> QED
      BY <2>1, <2>3, <3>1 DEF PowerOf2
  <2>5. h \in Nat /\ h # 0 /\ m = 2 * h /\ h < m
    BY <2>1, <2>4
  <2> HIDE DEF h
  <2>6. m * m = 4 * (h * h)
    BY <2>5
  <2>7. PICK u \in Nat, v \in Nat :
          x = 2 * u /\ x * x = 4 * (u * u) /\ y = 2 * v /\ y * y = 4 * (v * v)
    <3> HIDE DEF Bad
    <3>1. x * x + y * y = 4 * (h * h)
      BY <2>2, <2>6
    <3>2. h * h \in Nat /\ \A k \in Nat : k * k \in Nat
      BY <2>5
    <3>3. ASSUME NEW p \in Nat, NEW q \in Nat, p + q = 4 * (h * h),
                 NEW k \in Nat, p = 4 * k + 1
          PROVE  ~ (\E l \in Nat : q = 4 * l) /\ ~ (\E l \in Nat : q = 4 * l + 1)
      BY <3>2, <3>3
    <3>4. \A k \in Nat : k * k + k \in Nat
      OBVIOUS
    <3>5. \E u \in Nat : x = 2 * u /\ x * x = 4 * (u * u)
      <4>1. \/ \E l \in Nat : y * y = 4 * l
            \/ \E l \in Nat : y * y = 4 * l + 1
        BY <3>2, <3>4, SquareModFour
      <4> QED
        BY <3>1, <3>2, <3>3, <3>4, <4>1, SquareModFour
    <3>6. \E v \in Nat : y = 2 * v /\ y * y = 4 * (v * v)
      <4>1. \/ \E l \in Nat : x * x = 4 * l
            \/ \E l \in Nat : x * x = 4 * l + 1
        BY <3>2, <3>4, SquareModFour
      <4>2. y * y + x * x = 4 * (h * h)
        BY <3>1, <3>2
      <4> QED
        BY <4>2, <3>2, <3>3, <3>4, <4>1, SquareModFour
    <3> QED
      BY <3>5, <3>6
  <2>8. u < h /\ v < h
    BY <2>2, <2>5, <2>7
  <2>9. u * u + v * v = h * h
    <3>1. u * u \in Nat /\ v * v \in Nat /\ h * h \in Nat
      BY <2>5
    <3> QED
      BY <2>2, <2>6, <2>7, <3>1
  <2>10. PowerOf2(h)
    <3> SUFFICES ASSUME NEW d \in 1 .. h, NEW e \in 1 .. h, h = d * e
                 PROVE  d = 1 \/ d % 2 = 0
      BY DEF PowerOf2
    <3>1. m = d * (2 * e)
      BY <2>5
    <3>2. d \in 1 .. m /\ 2 * e \in 1 .. m
      BY <2>5
    <3> QED
      BY <2>1, <3>1, <3>2 DEF PowerOf2
  <2> QED
    BY <2>5, <2>8, <2>9, <2>10
<1>2. Bad = {}
  <2>1. SUFFICES ASSUME Bad # {} PROVE FALSE
    OBVIOUS
  <2>2. Bad \in SUBSET Nat
    OBVIOUS
  <2> HIDE DEF Bad
  <2>3. PICK m \in Bad : \A k \in Bad : m <= k
    BY <2>1, <2>2, LeastIndex
  <2>4. PICK h \in Bad : h < m
    BY <1>1
  <2> QED
    BY <2>2, <2>3, <2>4
<1> QED
  BY <1>2

(* Nor is it one more than such a sum, when it is even: modulo 4.          *)
LEMMA NoSumOfThreeSquares ==
  ASSUME NEW n \in Nat, n % 2 = 0, NEW a \in Nat, NEW b \in Nat
  PROVE  1 + a * a + b * b # n * n
<1>1. PICK h \in Nat : n * n = 4 * (h * h)
  <2>1. \A h \in Nat : 2 * h + 1 # n
    OBVIOUS
  <2> QED
    BY <2>1, SquareModFour
<1>2. h * h \in Nat /\ \A k \in Nat : k * k \in Nat /\ k * k + k \in Nat
  OBVIOUS
<1>3. \/ \E u \in Nat : a * a = 4 * u
      \/ \E u \in Nat : a * a = 4 * u + 1
  BY <1>2, SquareModFour
<1>4. \/ \E u \in Nat : b * b = 4 * u
      \/ \E u \in Nat : b * b = 4 * u + 1
  BY <1>2, SquareModFour
<1>5. ASSUME NEW k \in Nat, NEW p \in Nat, NEW q \in Nat,
             (\E u \in Nat : p = 4 * u) \/ (\E u \in Nat : p = 4 * u + 1),
             (\E u \in Nat : q = 4 * u) \/ (\E u \in Nat : q = 4 * u + 1)
      PROVE  1 + p + q # 4 * k
  BY <1>5
<1> QED
  BY <1>1, <1>2, <1>3, <1>4, <1>5

(* The distance of two formats whose pixel formats differ by e, widths by  *)
(* a and heights by b.                                                     *)
Remainder(e, a, b) == (e + a * a + b * b) % SizeModulus

(* Below a word, the sum of the squares of two differences and of the      *)
(* difference in pixel format leaves no remainder only when it is 0.       *)
LEMMA NoWrapToZero ==
  ASSUME NEW w \in Nat, w >= 2, PowerOf2(w), SizeModulus = Square(w),
         NEW a \in Nat, NEW b \in Nat, a < w, b < w, NEW e \in {0, 1},
         Remainder(e, a, b) = 0
  PROVE  e = 0 /\ a = 0 /\ b = 0
<1> DEFINE sum == e + a * a + b * b
<1>1. \A x \in Nat : x < w => x * x \in Nat /\ x * x <= w * w - 2 * w + 1
  <2> SUFFICES ASSUME NEW x \in Nat, x < w
               PROVE  x * x \in Nat /\ x * x <= w * w - 2 * w + 1
    OBVIOUS
  <2>1. x <= w - 1 /\ w - 1 \in Nat
    OBVIOUS
  <2>2. x * x <= (w - 1) * (w - 1) /\ x * x \in Nat
    BY <2>1
  <2>3. (w - 1) * (w - 1) = w * w - 2 * w + 1
    OBVIOUS
  <2> QED
    BY <2>2, <2>3
<1>2. w * w \in Nat /\ w * w > 0
  OBVIOUS
<1>3. sum \in Nat /\ sum < 2 * (w * w)
  BY <1>1, <1>2
<1>4. w % 2 = 0
  <2>1. w \in 1 .. w /\ 1 \in 1 .. w /\ w = w * 1
    OBVIOUS
  <2> QED
    BY <2>1 DEF PowerOf2
<1>5. sum # w * w
  <2>1. CASE e = 0
    <3>1. a * a + b * b # w * w
      <4>1. w # 0
        OBVIOUS
      <4> QED
        BY ONLY <4>1, NoSumOfTwoSquares, w \in Nat, PowerOf2(w), a \in Nat,
                b \in Nat, a < w, b < w
    <3>2. a * a \in Nat /\ b * b \in Nat
      BY <1>1
    <3> QED
      BY <2>1, <3>1, <3>2
  <2>2. CASE e = 1
    BY <2>2, <1>4, NoSumOfThreeSquares
  <2> QED
    BY <2>1, <2>2
<1>6. \A s, m \in Nat : m > 0 /\ s < 2 * m /\ s # m /\ s % m = 0 => s = 0
  <2> SUFFICES ASSUME NEW s \in Nat, NEW m \in Nat, m > 0, s < 2 * m, s # m, s % m = 0
               PROVE  s = 0
    OBVIOUS
  <2>1. CASE s < m
    BY <2>1
  <2>2. CASE s > m
    <3>1. s = m * (s \div m) + (s % m) /\ s \div m \in Nat
      OBVIOUS
    <3> QED
      BY <2>2, <3>1
  <2> QED
    BY <2>1, <2>2
<1> HIDE DEF sum
<1>7. sum % (w * w) = 0
  BY DEF sum, Remainder, Square
<1>8. sum = 0
  BY <1>2, <1>3, <1>5, <1>6, <1>7
<1>9. a * a = 0 /\ b * b = 0 /\ e = 0
  BY <1>1, <1>8 DEF sum
<1> QED
  BY <1>9

(* A modulus is a square of 2 or more; distances are numbers below it.     *)
LEMMA ModulusIsLarge == SizeModulus \in Nat /\ SizeModulus - 1 > 0
<1>1. PICK w \in 2 .. SizeModulus : SizeModulus = w * w
  BY FormatNegotiationAssumption, Zenon DEF FormatNegotiationAssumption
<1> QED
  BY <1>1, ConstantTypes

LEMMA DistanceType ==
  ASSUME NEW f \in Formats, NEW g \in Formats
  PROVE  LET request == [fourcc |-> g.fourcc, width |-> g.width,
                         height |-> g.height, fps |-> NoRate]
         IN  Distance(f, request) \in Nat
<1> DEFINE request == [fourcc |-> g.fourcc, width |-> g.width,
                       height |-> g.height, fps |-> NoRate]
<1>1. /\ f.width \in Nat /\ f.height \in Nat /\ g.width \in Nat /\ g.height \in Nat
      /\ f.fps.num \in Nat /\ f.fps.den \in Nat
  <2>1. Sizes \subseteq Nat /\ Rates \subseteq Nat
    BY ConstantTypes, FormatNegotiationAssumption, Zenon DEF FormatNegotiationAssumption
  <2> QED
    BY <2>1 DEF Formats
<1>2. \A m, n \in Int : Square(m - n) \in Int
  BY DEF Square
<1>3. /\ Square(f.width - request.width) \in Int
      /\ Square(f.height - request.height) \in Int
  <2>1. \A m, n \in Nat : Square(m - n) \in Int
    BY DEF Square
  <2>2. request.width = g.width /\ request.height = g.height
    OBVIOUS
  <2> QED
    BY <1>1, <2>1, <2>2
<1>4. Square(f.fps.num * request.fps.den - request.fps.num * f.fps.den) \in Int
  <2>1. f.fps.num * 0 \in Int /\ 0 * f.fps.den \in Int
    BY <1>1
  <2> QED
    BY <1>2, <2>1 DEF NoRate
<1>5. \A n \in Int : n % SizeModulus \in Nat
  BY ModulusIsLarge
<1> HIDE DEF request
<1> QED
  BY <1>3, <1>4, <1>5 DEF Distance, request

(* A format is at distance 0 from a request of TRY_FMT exactly when it has *)
(* the pixel format and the size that were asked for.                      *)
LEMMA ZeroDistance ==
  ASSUME NEW f \in Formats, NEW g \in Formats
  PROVE  LET request == [fourcc |-> g.fourcc, width |-> g.width,
                         height |-> g.height, fps |-> NoRate]
         IN  Distance(f, request) = 0 <=> SameSize(f, g)
<1> DEFINE request == [fourcc |-> g.fourcc, width |-> g.width,
                       height |-> g.height, fps |-> NoRate]
           e == IF f.fourcc = g.fourcc THEN 0 ELSE 1
           a == IF f.width >= g.width THEN f.width - g.width ELSE g.width - f.width
           b == IF f.height >= g.height THEN f.height - g.height
                                        ELSE g.height - f.height
<1>1. PICK w \in 2 .. SizeModulus :
        SizeModulus = w * w /\ PowerOf2(w) /\ Sizes \subseteq 0 .. w - 1
  BY FormatNegotiationAssumption, Zenon DEF FormatNegotiationAssumption
<1>w. SizeModulus \in Nat /\ w \in Nat /\ w >= 2
  BY <1>1, ConstantTypes
<1>2. /\ f.width \in 0 .. w - 1 /\ f.height \in 0 .. w - 1
      /\ g.width \in 0 .. w - 1 /\ g.height \in 0 .. w - 1
  BY <1>1, Zenon DEF Formats
<1>3. a \in Nat /\ b \in Nat /\ a < w /\ b < w /\ e \in {0, 1}
  BY <1>w, <1>2
<1>4. Square(f.width - g.width) = a * a /\ Square(f.height - g.height) = b * b
  BY <1>w, <1>2 DEF Square
<1>5. Square(f.fps.num * request.fps.den - request.fps.num * f.fps.den) = 0
  <2>1. f.fps.num \in Nat /\ f.fps.den \in Nat
    BY FormatNegotiationAssumption, Zenon DEF FormatNegotiationAssumption, Formats
  <2> QED
    BY <2>1 DEF Square, NoRate
<1>6. Distance(f, request) = (e + a * a + b * b + 0) % SizeModulus
  BY <1>4, <1>5 DEF Distance
<1>7. a * a \in Nat /\ b * b \in Nat
  BY <1>3
<1>8. Distance(f, request) = Remainder(e, a, b)
  BY <1>3, <1>6, <1>7 DEF Remainder
<1>9. SameSize(f, g) <=> e = 0 /\ a = 0 /\ b = 0
  <2>1. (f.width = g.width <=> a = 0) /\ (f.height = g.height <=> b = 0)
    BY <1>w, <1>2
  <2>2. f.fourcc = g.fourcc <=> e = 0
    OBVIOUS
  <2> QED
    BY <2>1, <2>2 DEF SameSize
<1> HIDE DEF a, b, e
<1>10. ASSUME Distance(f, request) = 0 PROVE e = 0 /\ a = 0 /\ b = 0
  <2>1. Remainder(e, a, b) = 0
    BY <1>8, <1>10
  <2>2. SizeModulus = Square(w) /\ PowerOf2(w)
    BY <1>1 DEF Square
  <2> QED
    BY <1>w, <1>3, <2>1, <2>2, NoWrapToZero
<1>11. ASSUME e = 0, a = 0, b = 0 PROVE Distance(f, request) = 0
  <2>1. Remainder(0, 0, 0) = 0 % SizeModulus
    BY DEF Remainder
  <2> QED
    BY <1>8, <1>11, <2>1, ModulusIsLarge
<1> QED
  BY <1>9, <1>10, <1>11

(* What is enumerated is accepted as it is: TRY_FMT of a listed size finds *)
(* a format at distance 0, so that what it returns is at distance 0.       *)
THEOREM EnumeratedSizesAcceptedHolds == Spec => []EnumeratedSizesAccepted
<1>1. FormatInv => EnumeratedSizesAccepted
  <2> SUFFICES ASSUME FormatInv, NEW f \in Range(formats)
               PROVE  LET found == TryFmt(f.fourcc, f.width, f.height)
                      IN  found # << >> /\ SameSize(found[1], f)
    BY DEF EnumeratedSizesAccepted
  <2> DEFINE request == [fourcc |-> f.fourcc, width |-> f.width,
                         height |-> f.height, fps |-> NoRate]
             Zeros == {i \in DOMAIN formats : Distance(formats[i], request) = 0}
             Found == CHOOSE i \in DOMAIN formats : IsNearest(i, request)
  <2>1. formats \in Seq(Formats) /\ f \in Formats
    BY FormatsListed DEF FormatInv, TypeOK
  <2>2. DOMAIN formats \in SUBSET Nat /\ \A i \in DOMAIN formats : formats[i] \in Formats
    BY <2>1
  <2>3. \A i \in DOMAIN formats : Distance(formats[i], request) = 0 <=> SameSize(formats[i], f)
    BY <2>1, <2>2, ZeroDistance
  <2>4. \A i \in DOMAIN formats : Distance(formats[i], request) \in Nat
    BY <2>1, <2>2, DistanceType
  <2>5. PICK z \in Zeros : \A i \in Zeros : z <= i
    <3>1. Zeros \in SUBSET Nat
      BY <2>2
    <3>2. PICK i \in DOMAIN formats : formats[i] = f
      BY DEF Range
    <3>3. i \in Zeros
      BY <2>3, <3>2 DEF SameSize
    <3> HIDE DEF Zeros
    <3> QED
      BY <3>1, <3>3, LeastIndex
  <2>6. IsNearest(z, request)
    <3>1. z \in DOMAIN formats /\ Distance(formats[z], request) = 0
      OBVIOUS
    <3>2. \A j \in DOMAIN formats : j < z => Distance(formats[j], request) # 0
      BY <2>2, <2>5
    <3>3. SizeModulus - 1 > 0
      BY ModulusIsLarge
    <3> QED
      BY <2>4, <3>1, <3>2, <3>3 DEF IsNearest
  <2>7. z \in DOMAIN formats /\ Distance(formats[z], request) = 0
    OBVIOUS
  <2>8. Found \in DOMAIN formats /\ IsNearest(Found, request)
    BY <2>6, <2>7
  <2>9. TryFmt(f.fourcc, f.width, f.height) = << formats[Found] >>
    BY <2>6, <2>7 DEF TryFmt, Nearest
  <2> HIDE DEF Found
  <2>10. Distance(formats[Found], request) = 0
    BY <2>4, <2>7, <2>8 DEF IsNearest
  <2> QED
    BY <2>3, <2>8, <2>9, <2>10
<1> QED
  BY <1>1, FormatInvHolds, PTL

=============================================================================
