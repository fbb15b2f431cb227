-------------------------- MODULE FrameConversion ---------------------------
(***************************************************************************)
(* How the converter turns a frame into one of another pixel format and    *)
(* size (src/src/converter.c), and how a new frame is filled with a colour *)
(* (src/src/frame.c).                                                      *)
(*                                                                         *)
(* A frame is its format and its memory, a function from 0 to bytes.  No   *)
(* component of the table of pixel formats is 16 or 32 bits deep, so that  *)
(* the code takes the variants of its functions that read and write single *)
(* bytes, also for pixels of 16 bits, of which they see the lower half.    *)
(*                                                                         *)
(* Formats are at least two pixels wide and high: a converter takes 0 and  *)
(* 1 for "as in the source", which is not modelled.                        *)
(***************************************************************************)
LOCAL INSTANCE Integers
LOCAL INSTANCE Sequences
LOCAL INSTANCE FiniteSets
LOCAL INSTANCE FiniteSetsExt
INSTANCE ColourConversion
INSTANCE FrameScaling

Scalings == {"Fast", "Linear"}

(***************************************************************************)
(* Memory.  A byte that is read behind the end of a frame is one of those  *)
(* vzalloc cleared up to the end of the page.                              *)
(***************************************************************************)
NewFrame(format) ==
  [format |-> format, data |-> Table([b \in 0 .. format.data_size - 1 |-> 0])]

Byte(frame, b) == IF b \in DOMAIN frame.data THEN frame.data[b] ELSE 0

(* A component of a pixel format together with the plane it is in.         *)
Located(specs, type) ==
  [component |-> ComponentOf(specs, type), plane |-> PlaneOf(specs, type)]

(* The byte of a component for column x of line y.                         *)
Address(format, c, x, y) ==
  Line(format, c.plane, y) + InLine(c.component, x)

Field(frame, c, x, y) ==
  (Byte(frame, Address(frame.format, c, x, y)) \div 2 ^ c.component.shift)
    % 2 ^ c.component.depth

Bit(n, i) == (n \div 2 ^ i) % 2 = 1

(* The byte with these bits.                                               *)
FromBits(bits) ==
  LET value(i) == IF i \in bits THEN 2 ^ i ELSE 0 IN
  value(0) + value(1) + value(2) + value(3)
    + value(4) + value(5) + value(6) + value(7)

(* The byte with the bits of the component cleared and those of the value  *)
(* added, which may be too large for it and then reaches into other bits.  *)
Put(byte, component, value) ==
  LET first == component.shift
      last == component.shift + component.depth - 1 IN
  FromBits({j \in 0 .. 7 :
    \/ j \notin first .. last /\ Bit(byte, j)
    \/ j >= first /\ Bit(value, j - first)})

(***************************************************************************)
(* What a conversion needs to know of the two pixel formats.               *)
(***************************************************************************)
Components(specs) ==
  LET main == MainComponents(specs)
      types == IF HasComponent(specs, "A") THEN Append(main, "A") ELSE main IN
  [i \in DOMAIN types |-> Located(specs, types[i])]

Configure(from, to, scale) ==
  [scale |-> scale,
   in |-> Components(from),
   out |-> Components(to),
   type |-> IF from.type = to.type THEN "VECTOR" ELSE "3TO3",
   alphaIn |-> HasComponent(from, "A"),
   alphaOut |-> HasComponent(to, "A"),
   matrix |-> LoadMatrix(from, to),
   fast |-> IsFast(from) /\ IsFast(to)]

(***************************************************************************)
(* What the scaling needs besides the tables of FrameScaling.              *)
(***************************************************************************)
(* (wrong: column after column)                                            *)
AreasTransposed(x, y, target) ==
  Table([i \in 0 .. target.width * target.height - 1 |->
    LET c == i \div target.height
        l == i % target.height IN
    Max2((x.to[c] - x.from[c]) * (y.to[l] - y.from[l]), 1)])

(* The divisors of the averages, line after line of the target's width.    *)
Areas(x, y, target) ==
  Table([i \in 0 .. target.width * target.height - 1 |->
    LET c == i % target.width
        l == i \div target.width
        area == (x.to[c] - x.from[c]) * (y.to[l] - y.from[l]) IN
    IF area > 0 THEN area ELSE 1])

Scaled(format, xmin, ymin, picture, resize, x, y, target) ==
  [format |-> format,
   xmin |-> xmin, xmax |-> (format.width + picture[1]) \div 2,
   ymin |-> ymin, ymax |-> (format.height + picture[2]) \div 2,
   resize |-> resize,
   x |-> x, y |-> y,
   areas |-> Areas(x, y, target)]

ConfigureScaling(source, target, aspect) ==
  LET picture == PictureSize(source, target, aspect)
      width == IF aspect = "Keep" THEN picture[1] ELSE target.width
      height == IF aspect = "Keep" THEN picture[2] ELSE target.height
      rect == SourceRect(source, picture, aspect)
      xmin == (width - picture[1]) \div 2
      ymin == (height - picture[2]) \div 2 IN
  Scaled(Format(target.fourcc, width, height), xmin, ymin, picture,
         ResizeMode(source, picture),
         Axis(rect.x, rect.width, source.width, xmin, picture[1],
              target.width),
         Axis(rect.y, rect.height, source.height, ymin, picture[2],
              target.height),
         target)

(***************************************************************************)
(* Reading the components of the pixel for column x of line y: the nearest *)
(* one, the average of a part of the source, or the nearest one blended    *)
(* with the ones to its right and below it.                                *)
(***************************************************************************)
Blend(a, bx, by, kx, ky) ==
  ShiftRight(kx * (bx - a) + ky * (by - a) + a * 2 ^ (Emult + 1), Emult + 1)

Nearest(p, src, c, x, y) ==
  Field(src, c, p.scale.x.from[x], p.scale.y.from[y])

(* The table of areas is read in lines of xmax.                            *)
LOCAL Divisor(p, x, y) ==
  p.scale.areas[(y - p.scale.ymin) * p.scale.xmax + x]

IntegralImage(src, c, columns, lines) ==
  MapThenSumSet(LAMBDA q : Field(src, c, q[1], q[2]), columns \X lines)

LOCAL Average(p, src, c, x, y) ==
  (IntegralImage(src, c, p.scale.x.from[x] .. p.scale.x.to[x] - 1,
                 p.scale.y.from[y] .. p.scale.y.to[y] - 1)
     \div Divisor(p, x, y)) % 256

LOCAL Blended(p, src, c, x, y) ==
  LET s == p.scale IN
  Blend(Nearest(p, src, c, x, y),
        Field(src, c, s.x.next[x], s.y.from[y]),
        Field(src, c, s.x.from[x], s.y.next[y]),
        s.x.k[x], s.y.k[y]) % 256

Read3(p, src, x, y) == [i \in 1 .. 3 |-> Nearest(p, src, p.in[i], x, y)]
Read3A(p, src, x, y) == [i \in 1 .. 4 |-> Nearest(p, src, p.in[i], x, y)]
ReadDL3(p, src, x, y) == [i \in 1 .. 3 |-> Average(p, src, p.in[i], x, y)]
ReadDL3A(p, src, x, y) == [i \in 1 .. 4 |-> Average(p, src, p.in[i], x, y)]
ReadUL3(p, src, x, y) == [i \in 1 .. 3 |-> Blended(p, src, p.in[i], x, y)]
ReadUL3A(p, src, x, y) == [i \in 1 .. 4 |-> Blended(p, src, p.in[i], x, y)]

(***************************************************************************)
(* Writing: three components, with the alpha component of the target set   *)
(* to its largest value, or to the value of the source.                    *)
(***************************************************************************)
Write3(p, values) == values
Write3A(p, values) ==
  <<values[1], values[2], values[3], ComponentMax(p.out[4].component)>>
Write3AAo(p, values, alpha) == <<values[1], values[2], values[3], alpha>>

Columns(scale) == scale.xmin .. scale.xmax - 1
Lines(scale) == scale.ymin .. scale.ymax - 1

(* For every byte where the line, or the column, is written at, the last   *)
(* one written there.                                                      *)
Lasts(place) ==
  Table([b \in {place[v] : v \in DOMAIN place} |->
          Greatest({v \in DOMAIN place : place[v] = b})])

(* Where the component is written: a[b] is the line, or the column, for    *)
(* the part b of its address.                                              *)
Placed(s, c) ==
  [line |-> Lasts([y \in Lines(s) |-> Line(s.format, c.plane, y)]),
   column |-> Lasts([x \in Columns(s) |-> InLine(c.component, x)])]

(* The columns and lines whose pixels are written to byte b.               *)
Writers(place, b) ==
  {<<place.column[b - a], place.line[a]>> :
    a \in {l \in DOMAIN place.line : b - l \in DOMAIN place.column}}

(* Byte b with component i of the pixel written there, if there is one.    *)
WithComponent(byte, b, out, places, pixels, i) ==
  LET written == {q \in Writers(places[i], b) : i \in DOMAIN pixels[q]}
      pixel == CHOOSE q \in written : TRUE IN
  IF i \notin DOMAIN out \/ written = {} THEN byte
  ELSE Put(byte, out[i].component, pixels[pixel][i])

PaintedByte(byte, b, out, places, pixels) ==
  LET after(before, i) == WithComponent(before, b, out, places, pixels, i) IN
  after(after(after(after(byte, 1), 2), 3), 4)

PaintedAt(out, places, data, pixels) ==
  Table([b \in DOMAIN data |-> PaintedByte(data[b], b, out, places, pixels)])

(* The data of a frame after image[x, y] was written to every place of the *)
(* picture, line by line: of the pixels that share a byte of a component   *)
(* the last one remains.                                                   *)
Painted(p, data, image) ==
  PaintedAt(p.out, Table([i \in DOMAIN p.out |-> Placed(p.scale, p.out[i])]),
            data, Table(image))

(***************************************************************************)
(* The conversions, named as in the code: 3TO3 between RGB and YUV, V3TO3  *)
(* between formats of one type, with an A where a side has alpha, DL to    *)
(* average and UL to blend.                                                *)
(***************************************************************************)
Convert3to3(p, src, x, y) ==
  Write3(p, ApplyMatrix(p.matrix, Read3(p, src, x, y)))

Convert3to3A(p, src, x, y) ==
  Write3A(p, ApplyMatrix(p.matrix, Read3(p, src, x, y)))

Convert3Ato3(p, src, x, y) ==
  LET q == Read3A(p, src, x, y) IN
  Write3(p, ApplyAlpha(p.matrix, ApplyMatrix(p.matrix, q), q[4]))

ConvertV3to3(p, src, x, y) ==
  Write3(p, ApplyVector(p.matrix, Read3(p, src, x, y)))

ConvertV3to3A(p, src, x, y) ==
  Write3A(p, ApplyVector(p.matrix, Read3(p, src, x, y)))

ConvertV3Ato3(p, src, x, y) ==
  LET q == Read3A(p, src, x, y) IN
  Write3(p, ApplyAlpha(p.matrix, ApplyVector(p.matrix, q), q[4]))

ConvertV3Ato3A(p, src, x, y) ==
  LET q == Read3A(p, src, x, y) IN
  Write3AAo(p, ApplyVector(p.matrix, q), q[4])

ConvertDL3to3(p, src, x, y) ==
  Write3(p, ApplyMatrix(p.matrix, ReadDL3(p, src, x, y)))

ConvertDL3to3A(p, src, x, y) ==
  Write3A(p, ApplyMatrix(p.matrix, ReadDL3(p, src, x, y)))

ConvertDL3Ato3(p, src, x, y) ==
  LET q == ReadDL3A(p, src, x, y) IN
  Write3(p, ApplyAlpha(p.matrix, ApplyMatrix(p.matrix, q), q[4]))

ConvertDLV3to3(p, src, x, y) ==
  Write3(p, ApplyVector(p.matrix, ReadDL3(p, src, x, y)))

ConvertDLV3to3A(p, src, x, y) ==
  Write3A(p, ApplyVector(p.matrix, ReadDL3(p, src, x, y)))

ConvertDLV3Ato3(p, src, x, y) ==
  LET q == ReadDL3A(p, src, x, y) IN
  Write3(p, ApplyAlpha(p.matrix, ApplyVector(p.matrix, q), q[4]))

ConvertDLV3Ato3A(p, src, x, y) ==
  LET q == ReadDL3A(p, src, x, y) IN
  Write3AAo(p, ApplyVector(p.matrix, q), q[4])

ConvertUL3to3(p, src, x, y) ==
  Write3(p, ApplyMatrix(p.matrix, ReadUL3(p, src, x, y)))

ConvertUL3to3A(p, src, x, y) ==
  Write3A(p, ApplyMatrix(p.matrix, ReadUL3(p, src, x, y)))

ConvertUL3Ato3(p, src, x, y) ==
  LET q == ReadUL3A(p, src, x, y) IN
  Write3(p, ApplyAlpha(p.matrix, ApplyMatrix(p.matrix, q), q[4]))

ConvertULV3to3(p, src, x, y) ==
  Write3(p, ApplyVector(p.matrix, ReadUL3(p, src, x, y)))

ConvertULV3to3A(p, src, x, y) ==
  Write3A(p, ApplyVector(p.matrix, ReadUL3(p, src, x, y)))

ConvertULV3Ato3(p, src, x, y) ==
  LET q == ReadUL3A(p, src, x, y) IN
  Write3(p, ApplyAlpha(p.matrix, ApplyVector(p.matrix, q), q[4]))

ConvertULV3Ato3A(p, src, x, y) ==
  LET q == ReadUL3A(p, src, x, y) IN
  Write3AAo(p, ApplyVector(p.matrix, q), q[4])

(* The variants for formats of 8 bit components.  The averaging ones find   *)
(* the integral image as it was allocated, all zeros.                      *)
FastV3to3(p, src, x, y) ==
  Read3(p, src, x, y)

FastDL3to3(p, src, x, y) ==
  ApplyMatrix(p.matrix, <<0, 0, 0>>)

FastDLV3to3(p, src, x, y) ==
  ApplyVector(p.matrix, <<0, 0, 0>>)

(***************************************************************************)
(* Which conversion is done.                                               *)
(***************************************************************************)
ByAlpha(p, none, to, from, both) ==
  CASE p.alphaIn /\ p.alphaOut -> both
    [] p.alphaIn /\ ~p.alphaOut -> from
    [] ~p.alphaIn /\ p.alphaOut -> to
    [] OTHER -> none

(* No pixel format of the type YUV has alpha: not both sides have, and     *)
(* nothing is written.                                                     *)
Func3to3(p, src, x, y) ==
  ByAlpha(p, Convert3to3(p, src, x, y), Convert3to3A(p, src, x, y),
          Convert3Ato3(p, src, x, y), << >>)

FuncV3to3(p, src, x, y) ==
  ByAlpha(p, ConvertV3to3(p, src, x, y), ConvertV3to3A(p, src, x, y),
          ConvertV3Ato3(p, src, x, y), ConvertV3Ato3A(p, src, x, y))

FuncDL3to3(p, src, x, y) ==
  ByAlpha(p, ConvertDL3to3(p, src, x, y), ConvertDL3to3A(p, src, x, y),
          ConvertDL3Ato3(p, src, x, y), << >>)

FuncDLV3to3(p, src, x, y) ==
  ByAlpha(p, ConvertDLV3to3(p, src, x, y), ConvertDLV3to3A(p, src, x, y),
          ConvertDLV3Ato3(p, src, x, y), ConvertDLV3Ato3A(p, src, x, y))

FuncUL3to3(p, src, x, y) ==
  ByAlpha(p, ConvertUL3to3(p, src, x, y), ConvertUL3to3A(p, src, x, y),
          ConvertUL3Ato3(p, src, x, y), << >>)

FuncULV3to3(p, src, x, y) ==
  ByAlpha(p, ConvertULV3to3(p, src, x, y), ConvertULV3to3A(p, src, x, y),
          ConvertULV3Ato3(p, src, x, y), ConvertULV3Ato3A(p, src, x, y))

Enlarges(p, scaling) == scaling = "Linear" /\ p.scale.resize = "Up"
Reduces(p, scaling) == scaling = "Linear" /\ p.scale.resize = "Down"

ConvertTemplate(p, scaling, src, x, y) ==
  LET vector == p.type = "VECTOR" IN
  CASE Enlarges(p, scaling) /\ vector -> FuncULV3to3(p, src, x, y)
    [] Enlarges(p, scaling) /\ ~vector -> FuncUL3to3(p, src, x, y)
    [] Reduces(p, scaling) /\ vector -> FuncDLV3to3(p, src, x, y)
    [] Reduces(p, scaling) /\ ~vector -> FuncDL3to3(p, src, x, y)
    [] vector -> FuncV3to3(p, src, x, y)
    [] OTHER -> Func3to3(p, src, x, y)

ConvertFast8Bits(p, scaling, src, x, y) ==
  LET vector == p.type = "VECTOR" IN
  CASE Enlarges(p, scaling) /\ vector -> ConvertULV3to3(p, src, x, y)
    [] Enlarges(p, scaling) /\ ~vector -> ConvertUL3to3(p, src, x, y)
    [] Reduces(p, scaling) /\ vector -> FastDLV3to3(p, src, x, y)
    [] Reduces(p, scaling) /\ ~vector -> FastDL3to3(p, src, x, y)
    [] vector -> FastV3to3(p, src, x, y)
    [] OTHER -> Convert3to3(p, src, x, y)

(***************************************************************************)
(* Filling a new frame with a colour, given as <<red, green, blue, alpha>>. *)
(* Some pixels of the first line are written, then its first bytes copied  *)
(* along the line, and the line to the others.                             *)
(***************************************************************************)
FillPixel(matrix, type, alphaOut, rgba) ==
  LET colour == IF type = "RGB" THEN ApplyVector(matrix, rgba)
                ELSE ApplyMatrix(matrix, rgba) IN
  IF alphaOut THEN <<colour[1], colour[2], colour[3], rgba[4]>>
  ELSE ApplyAlpha(matrix, colour, rgba[4])

BitsPerPixel(specs) ==
  LET bits(p) == IF p \in DOMAIN specs.planes THEN specs.planes[p].bits ELSE 0 IN
  bits(1) + bits(2) + bits(3)

ReadWidth(format) ==
  Max2((8 * format.planes[1].pixel_size) \div BitsPerPixel(format.specs), 1)

(* A frame with `first` as its first pixels.                               *)
Repeated(format, first) ==
  LET plane(b) == format.planes[
                    Greatest({p \in DOMAIN format.planes : format.planes[p].offset <= b})]
      filled(plane_b, offset) ==
        LET line == plane_b.line_size
            lines == format.height \div 2 ^ plane_b.height_div IN
        /\ offset \div line < Max2(lines, 1)
        /\ offset % line < (line \div plane_b.pixel_size) * plane_b.pixel_size
      source(b, p) ==
        IF filled(p, b - p.offset)
        THEN first[p.offset + (((b - p.offset) % p.line_size) % p.pixel_size)]
        ELSE first[b] IN
  Table([b \in DOMAIN first |-> source(b, plane(b))])

FillRgba(format, rgba) ==
  LET start == [format |-> format, xmin |-> 0, xmax |-> ReadWidth(format),
                ymin |-> 0, ymax |-> 1] IN
  Repeated(format,
    Painted([scale |-> start, out |-> Components(format.specs)],
            NewFrame(format).data,
            [q \in Columns(start) \X Lines(start) |->
              FillPixel(LoadMatrix(Specs["ARGB32"], format.specs),
                        format.specs.type, HasComponent(format.specs, "A"),
                        rgba)]))

(* (wrong: the border is left as it was allocated)                         *)
OutputFrameUnfilled(format, aspect) == NewFrame(format).data

(* The frame that is painted on: a new one, black around the picture when  *)
(* the picture may be smaller than the frame.                              *)
OutputFrame(format, aspect) ==
  IF aspect = "Fit" THEN FillRgba(format, <<0, 0, 0, 0>>)
  ELSE NewFrame(format).data

(***************************************************************************)
(* What the converter is configured with, and one conversion with it onto  *)
(* the data of its frame.                                                  *)
(***************************************************************************)
Parameters(source, target, aspect) ==
  Configure(source.specs, target.specs,
            ConfigureScaling(source, target, aspect))

Pixel(p, scaling, src, x, y) ==
  IF p.fast THEN ConvertFast8Bits(p, scaling, src, x, y)
  ELSE ConvertTemplate(p, scaling, src, x, y)

Convert(p, scaling, src, data) ==
  Painted(p, data, [q \in Columns(p.scale) \X Lines(p.scale) |->
                     Pixel(p, scaling, src, q[1], q[2])])

=============================================================================
