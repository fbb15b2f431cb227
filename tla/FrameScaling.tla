---------------------------- MODULE FrameScaling ----------------------------
(***************************************************************************)
(* Which part of the target a conversion paints, and with which part of    *)
(* the source (src/src/converter.c): the sizes and the tables, one entry   *)
(* for each column and one for each line of the target, that the converter *)
(* reads the source by.                                                    *)
(***************************************************************************)
LOCAL INSTANCE Integers

AspectRatios == {"Ignore", "Keep", "Expanding", "Fit"}

(* The division of C rounds towards 0.                                     *)
CDiv(a, b) == IF a < 0 THEN -((-a) \div b) ELSE a \div b

Min2(a, b) == IF a < b THEN a ELSE b
Max2(a, b) == IF a > b THEN a ELSE b

(* The size of the picture in the target.                                  *)
PictureSize(source, target, aspect) ==
  LET w == (target.height * source.width) \div source.height
      h == (target.width * source.height) \div source.width IN
  IF aspect \in {"Ignore", "Expanding"} THEN <<target.width, target.height>>
  ELSE IF w > target.width THEN <<target.width, h>>
  ELSE <<w, Min2(h, target.height)>>

(* The part of the source that is shown.                                   *)
SourceRect(source, picture, aspect) ==
  LET w == Min2((source.height * picture[1]) \div picture[2], source.width)
      h == Min2((source.width * picture[2]) \div picture[1], source.height) IN
  IF aspect # "Expanding"
  THEN [x |-> 0, y |-> 0, width |-> source.width, height |-> source.height]
  ELSE [x |-> (source.width - w) \div 2, y |-> (source.height - h) \div 2,
        width |-> w, height |-> h]

ResizeMode(source, picture) ==
  IF picture[1] > source.width \/ picture[2] > source.height THEN "Up"
  ELSE IF picture[1] < source.width \/ picture[2] < source.height THEN "Down"
  ELSE "Keep"

(***************************************************************************)
(* The tables along one axis: `first' and `length' of the shown part of    *)
(* the source, of which there are `limit', and `origin' and `extent' of    *)
(* the picture in the target, which is `size' long.  `from' is the source  *)
(* column of a target column, `to' the one behind the last to be averaged, *)
(* `next' the one to blend with and `k' how far.                           *)
(***************************************************************************)
Emult == 8

(* Column v of a strip that starts at `start' and is `steps' long, on one  *)
(* that starts at `first' and is `length' long.                            *)
Mapped(v, start, steps, first, length) ==
  CDiv((v - start) * length + first * steps, steps)

(* (wrong: the last column of the target shows the one behind the part)    *)
AxisBeyond(first, length, limit, origin, extent, size) ==
  LET toSource(v) == Mapped(v, origin, Max2(1, extent - 1), first, length) IN
  [from |-> [v \in 0 .. size - 1 |-> toSource(v)],
   to   |-> [v \in 0 .. size - 1 |-> Min2(toSource(v + 1), limit)],
   next |-> [v \in 0 .. size - 1 |-> toSource(Min2(v + 1, size - 1))],
   k    |-> [v \in 0 .. size - 1 |-> 0]]

Weight(v, low, high) ==
  IF high > low THEN CDiv(Emult * (v - low), high - low) ELSE 0

Axis(first, length, limit, origin, extent, size) ==
  LET in1 == Max2(1, length - 1)
      out1 == Max2(1, extent - 1)
      toSource(v) == Mapped(v, origin, out1, first, in1)
      toTarget(v) == Mapped(v, first, in1, origin, out1) IN
  [from |-> [v \in 0 .. size - 1 |-> toSource(v)],
   to   |-> [v \in 0 .. size - 1 |-> Min2(toSource(v + 1), limit)],
   next |-> [v \in 0 .. size - 1 |-> toSource(Min2(v + 1, size - 1))],
   k    |-> [v \in 0 .. size - 1 |->
              Weight(v, toTarget(toSource(v)), toTarget(toSource(v) + 1))]]

=============================================================================
