-------------------------- MODULE ColourConversion --------------------------
(***************************************************************************)
(* The matrices with which the converter changes the colours of a pixel    *)
(* (src/src/color_convert.c, src/src/color_convert.h), in the fixed point  *)
(* arithmetic of the code.                                                 *)
(*                                                                         *)
(* The colour space is the one every converter starts with and no caller   *)
(* changes, BT.601 with studio swing.  Formats of the type GRAY are not in *)
(* the table of pixel formats, so that their matrices are never loaded.    *)
(***************************************************************************)
LOCAL INSTANCE Integers
LOCAL INSTANCE Sequences
INSTANCE PixelFormats

Bound(low, x, high) ==
  IF x \in low .. high THEN x ELSE IF x < low THEN low ELSE high

Max3(depths) ==
  CHOOSE d \in {depths[i] : i \in 1 .. 3} : \A i \in 1 .. 3 : depths[i] <= d

(* x >> bits, which rounds towards minus infinity.                         *)
ShiftRight(x, bits) == x \div 2 ^ bits

(***************************************************************************)
(* rounded_div is defined on 64 bit integers.  Its result depends on the   *)
(* quotient only, so that a product of fractions is reduced by what small  *)
(* factors its numbers have in common before it is rounded.                *)
(***************************************************************************)
CommonFactor(a, b) ==
  CHOOSE g \in 1 .. 100 :
    /\ a % g = 0 /\ b % g = 0
    /\ \A f \in 1 .. 100 : a % f = 0 /\ b % f = 0 => f <= g

Times(p, q) ==
  LET g == CommonFactor(p[1], q[2])
      h == CommonFactor(q[1], p[2]) IN
  <<(p[1] \div g) * (q[1] \div h), (p[2] \div h) * (q[2] \div g)>>

(* A fraction to the nearest integer.                                      *)
Rounded(p) == (2 * p[1] + p[2]) \div (2 * p[2])

(* Of two powers of two equally near the larger one.                       *)
NearestPowerOf2(value) ==
  LET res == CHOOSE e \in 0 .. 30 :
               /\ 2 ^ e <= value \/ e = 0
               /\ value < 2 ^ (e + 1) IN
  IF 2 ^ (res + 1) - value <= value - 2 ^ res THEN 2 ^ (res + 1) ELSE 2 ^ res

(* The range of Y and of U and V, with room for an overshoot of 9 %.       *)
Overshoot == 9
Lowest(bits) ==
  NearestPowerOf2(Rounded(<<(2 ^ bits - 1) * Overshoot, 2 * Overshoot + 100>>))

LimitsY(bits) ==
  <<Lowest(bits),
    ((2 ^ bits - 1) * (Overshoot + 100)) \div (2 * Overshoot + 100)>>

LimitsUV(bits) == <<Lowest(bits), 2 ^ bits - Lowest(bits)>>

(* The weights of red and blue, and what they are fractions of.            *)
RbConstants == [kr |-> 2990, kb |-> 1140, div |-> 10000]

Kr == RbConstants.kr
Kb == RbConstants.kb
Div == RbConstants.div
Kg == Div - Kr - Kb

(***************************************************************************)
(* The matrices: m[i] has the factors of the three components and a        *)
(* constant, low[i] and high[i] bound the i-th result.  `in' and `out' are *)
(* the depths of the components.                                           *)
(***************************************************************************)
AbcToXyz(in, out) ==
  LET shift == Max3(in)
      k(i) == Rounded(<<2 ^ shift * (2 ^ out[i] - 1), 2 ^ in[i] - 1>>)
      round == 2 ^ (shift - 1) IN
  [m |-> << <<k(1), 0, 0, round>>, <<0, k(2), 0, round>>,
            <<0, 0, k(3), round>> >>,
   low |-> <<0, 0, 0>>,
   high |-> [i \in 1 .. 3 |-> 2 ^ out[i] - 1],
   shift |-> shift]

(* In these two y, u and v are the limits of Y, U and V, and `max` has the *)
(* largest values of R, G and B.                                           *)
ToYuv(shift, max, y, u, v) ==
  LET S == 2 ^ shift
      round == 2 ^ (shift - 1)
      factor(range, max_i, weight) ==
        Rounded(Times(<<S * (range[2] - range[1]), max_i>>, weight))
      row(ky, range) == ky \o <<round + (S * (range[1] + range[2])) \div 2>> IN
  [m |-> << [i \in 1 .. 3 |-> factor(y, max[i], <<(<<Kr, Kg, Kb>>)[i], Div>>)]
              \o <<round + S * y[1]>>,
            row([i \in 1 .. 3 |-> (<<-1, -1, 1>>)[i]
                  * factor(u, 2 * max[i],
                           <<(<<Kr, Kg, Div - Kb>>)[i], Div - Kb>>)], u),
            row([i \in 1 .. 3 |-> (<<1, -1, -1>>)[i]
                  * factor(v, 2 * max[i],
                           <<(<<Div - Kr, Kg, Kb>>)[i], Div - Kr>>)], v) >>,
   low |-> <<y[1], u[1], v[1]>>,
   high |-> <<y[2], u[2], v[2]>>,
   shift |-> shift]

RgbToYuv(in, out) ==
  ToYuv(Max3(in), [i \in 1 .. 3 |-> 2 ^ in[i] - 1],
        LimitsY(out[1]), LimitsUV(out[2]), LimitsUV(out[3]))

ToRgb(shift, max, y, u, v) ==
  LET S == 2 ^ shift
      round == 2 ^ (shift - 1)
      k(i) == Rounded(<<S * max[i], y[2] - y[1]>>)
      factor(i, range, weight) ==
        Rounded(Times(<<2 * S * max[i], range[2] - range[1]>>, weight))
      half(x) == IF x < 0 THEN -((-x) \div 2) ELSE x \div 2
      row(ky, ku, kv) ==
        <<ky, ku, kv, round - ky * y[1]
                        - half(ku * (u[1] + u[2]) + kv * (v[1] + v[2]))>> IN
  [m |-> <<row(k(1), 0, factor(1, v, <<Div - Kr, Div>>)),
           row(k(2),
               -factor(2, u, Times(<<Kb, Div>>, <<Div - Kb, Kg>>)),
               -factor(2, v, Times(<<Kr, Div>>, <<Div - Kr, Kg>>))),
           row(k(3), factor(3, u, <<Div - Kb, Div>>), 0)>>,
   low |-> <<0, 0, 0>>,
   high |-> max,
   shift |-> shift]

YuvToRgb(in, out) ==
  ToRgb(Max3(in), [i \in 1 .. 3 |-> 2 ^ out[i] - 1],
        LimitsY(in[1]), LimitsUV(in[2]), LimitsUV(in[3]))

(* The alpha matrix: a[i] has the factor of the i-th component and the two *)
(* constants it is used with.                                              *)
AlphaRgb(bits) ==
  LET k == Rounded(<<2 ^ bits, 2 ^ bits - 1>>)
      row == <<k, 0, 2 ^ (bits - 1)>> IN
  [a |-> <<row, row, row>>, alphaShift |-> bits]

AlphaYuvWith(bits, y, uv) ==
  LET S == 2 ^ bits
      amax == S - 1
      round == 2 ^ (bits - 1)
      chroma(i) == <<S \div amax, -Rounded(<<S * uv[i], 2 * amax>>),
                     round + (S * uv[i]) \div 2>> IN
  [a |-> << <<S \div amax, -Rounded(<<S * y, amax>>), round + S * y>>,
            chroma(2), chroma(3)>>,
   alphaShift |-> bits]

AlphaYuv(bits, out) ==
  LET both(limits) == limits[1] + limits[2] IN
  AlphaYuvWith(bits, LimitsY(out[1])[1],
               [i \in 2 .. 3 |-> both(LimitsUV(out[i]))])

ColorMatrix(fromType, toType, in, out) ==
  IF fromType = toType THEN AbcToXyz(in, out)
  ELSE IF toType = "YUV" THEN RgbToYuv(in, out) ELSE YuvToRgb(in, out)

AlphaMatrix(toType, bits, out) ==
  IF toType = "RGB" THEN AlphaRgb(bits) ELSE AlphaYuv(bits, out)

(* The matrices for two pixel formats; alpha is 0 where there is none.     *)
Depths(specs) ==
  [i \in 1 .. 3 |-> ComponentOf(specs, MainComponents(specs)[i]).depth]

LoadMatrix(from, to) ==
  [colour |-> ColorMatrix(from.type, to.type, Depths(from), Depths(to)),
   alpha |-> IF HasComponent(from, "A")
             THEN AlphaMatrix(to.type, ComponentOf(from, "A").depth, Depths(to))
             ELSE [a |-> << >>, alphaShift |-> 0]]

(***************************************************************************)
(* What the matrices do with the three components of a pixel.              *)
(***************************************************************************)
(* (wrong: without bounds)                                                 *)
ApplyMatrixUnbounded(matrix, p) ==
  LET c == matrix.colour IN
  [i \in 1 .. 3 |->
    ShiftRight(p[1] * c.m[i][1] + p[2] * c.m[i][2] + p[3] * c.m[i][3]
                 + c.m[i][4], c.shift)]

ApplyMatrix(matrix, p) ==
  LET c == matrix.colour IN
  [i \in 1 .. 3 |->
    Bound(c.low[i],
          ShiftRight(p[1] * c.m[i][1] + p[2] * c.m[i][2] + p[3] * c.m[i][3]
                       + c.m[i][4], c.shift),
          c.high[i])]

(* Without bounds.                                                         *)
ApplyVector(matrix, p) ==
  LET c == matrix.colour IN
  [i \in 1 .. 3 |-> ShiftRight(p[i] * c.m[i][i] + c.m[i][4], c.shift)]

ApplyAlpha(matrix, p, alpha) ==
  LET c == matrix.colour
      a == matrix.alpha.a IN
  [i \in 1 .. 3 |->
    Bound(c.low[i],
          ShiftRight(alpha * (p[i] * a[i][1] + a[i][2]) + a[i][3],
                     matrix.alpha.alphaShift),
          c.high[i])]

=============================================================================
