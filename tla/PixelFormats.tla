---------------------------- MODULE PixelFormats ----------------------------
(***************************************************************************)
(* The pixel formats of the module (src/src/format_specs.c) and where the  *)
(* components of a pixel lie in the memory of a frame (src/src/format.c,   *)
(* src/src/frame.c), on a little endian machine.                           *)
(*                                                                         *)
(* A pixel format has a type, a byte order and a sequence of planes, a     *)
(* plane the set of its components and its bits per pixel.  The memory of a  *)
(* frame is one sequence of bytes with the planes one after the other.     *)
(***************************************************************************)
LOCAL INSTANCE Integers
LOCAL INSTANCE Sequences

(* The same function, which TLC then evaluates once for every argument.    *)
Table(f) == CHOOSE g \in {f} : g = f

(* One table and another.                                                  *)
Joined(f, g) ==
  Table([x \in DOMAIN f \cup DOMAIN g |-> IF x \in DOMAIN f THEN f[x] ELSE g[x]])

(***************************************************************************)
(* The table.  A component is found every `step` bytes from `offset` on,   *)
(* as the `depth` bits above the lowest `shift`, and once for every        *)
(* 2^widthDiv columns and 2^heightDiv lines.                               *)
(***************************************************************************)
Component(type, step, offset, shift, depth, widthDiv, heightDiv) ==
  [type |-> type, step |-> step, offset |-> offset, shift |-> shift,
   depth |-> depth, widthDiv |-> widthDiv, heightDiv |-> heightDiv]

Plane(components, bits) == [components |-> components, bits |-> bits]

(* Fields of a 16 bit word, each <<type, shift, depth>>.                   *)
Rgb16(order, fields) ==
  [type |-> "RGB", order |-> order, planes |->
    <<Plane({Component(f[1], 2, 0, f[2], f[3], 0, 0) : f \in fields}, 16)>>]

(* Bytes of a pixel; no component is in a byte marked "X".                  *)
Rgb8(bytes) ==
  [type |-> "RGB", order |-> "little", planes |->
    <<Plane({Component(bytes[i], Len(bytes), i - 1, 0, 8, 0, 0) :
              i \in {j \in DOMAIN bytes : bytes[j] # "X"}},
            8 * Len(bytes))>>]

(* Four bytes for two pixels, of which the second "Y" is the other one's.  *)
Yuv4(bytes) ==
  LET at(c) == CHOOSE i \in 1 .. 4 : bytes[i] = c
      chroma(c) == Component(c, 4, at(c) - 1, 0, 8, 1, 0) IN
  [type |-> "YUV", order |-> "little", planes |->
    <<Plane({Component("Y", 2, at("Y") - 1, 0, 8, 0, 0), chroma("U"), chroma("V")},
            16)>>]

Luma == Plane({Component("Y", 1, 0, 0, 8, 0, 0)}, 8)

(* A plane of Y and one where the two chroma components take turns.        *)
Semi(first, second, heightDiv) ==
  [type |-> "YUV", order |-> "little", planes |->
    <<Luma, Plane({Component(first, 2, 0, 0, 8, 1, heightDiv),
                   Component(second, 2, 1, 0, 8, 1, heightDiv)}, 8)>>]

(* A plane for each of Y and the two chroma components.                    *)
Planar(first, second, widthDiv, heightDiv, bits) ==
  LET chroma(c) ==
        Plane({Component(c, 1, 0, 0, 8, widthDiv, heightDiv)}, bits) IN
  [type |-> "YUV", order |-> "little",
   planes |-> <<Luma, chroma(first), chroma(second)>>]

RGB555 == {<<"R", 10, 5>>, <<"G", 5, 5>>, <<"B", 0, 5>>}
BGR555 == {<<"B", 10, 5>>, <<"G", 5, 5>>, <<"R", 0, 5>>}
RGB565 == {<<"R", 11, 5>>, <<"G", 5, 6>>, <<"B", 0, 5>>}
Up(fields) == {<<f[1], f[2] + 1, f[3]>> : f \in fields}
Alpha(shift) == {<<"A", shift, 1>>}

Rgb16Formats ==
  LET little == [RGB15   |-> RGB555,
                 ARGB555 |-> RGB555 \cup Alpha(15),
                 XRGB555 |-> RGB555,
                 RGBA555 |-> Up(RGB555) \cup Alpha(0),
                 RGBX555 |-> Up(RGB555),
                 ABGR555 |-> BGR555 \cup Alpha(15),
                 XBGR555 |-> BGR555,
                 BGRA555 |-> Up(BGR555) \cup Alpha(0),
                 BGRX555 |-> {<<"B", 11, 4>>, <<"G", 6, 4>>, <<"R", 1, 4>>},
                 RGB16   |-> RGB565]
      big == [RGB555X  |-> RGB555,
              ARGB555X |-> RGB555 \cup Alpha(15),
              XRGB555X |-> RGB555,
              RGB565X  |-> RGB565] IN
  Joined([f \in DOMAIN little |-> Rgb16("little", little[f])],
         [f \in DOMAIN big |-> Rgb16("big", big[f])])

Rgb24Formats ==
  LET bytes == [BGR24  |-> <<"B", "G", "R">>,
                RGB24  |-> <<"R", "G", "B">>,
                BGR32  |-> <<"X", "B", "G", "R">>,
                ABGR32 |-> <<"A", "B", "G", "R">>,
                XBGR32 |-> <<"X", "B", "G", "R">>,
                BGRA32 |-> <<"B", "G", "R", "A">>,
                BGRX32 |-> <<"B", "G", "R", "X">>] IN
  [f \in DOMAIN bytes |-> Rgb8(bytes[f])]

Rgb32Formats ==
  LET bytes == [RGB32  |-> <<"X", "R", "G", "B">>,
                RGBA32 |-> <<"R", "G", "B", "A">>,
                RGBX32 |-> <<"R", "G", "B", "X">>,
                ARGB32 |-> <<"A", "R", "G", "B">>,
                XRGB32 |-> <<"X", "R", "G", "B">>] IN
  [f \in DOMAIN bytes |-> Rgb8(bytes[f])]

YuvPackedFormats ==
  LET bytes == [YUY2 |-> <<"Y", "U", "Y2", "V">>,
                YVYU |-> <<"Y", "V", "Y2", "U">>,
                UYVY |-> <<"U", "Y", "V", "Y2">>,
                VYUY |-> <<"V", "Y", "U", "Y2">>] IN
  [f \in DOMAIN bytes |-> Yuv4(bytes[f])]

YuvPlanarFormats ==
  [NV12    |-> Semi("U", "V", 1),
   NV21    |-> Semi("V", "U", 1),
   NV16    |-> Semi("U", "V", 0),
   NV61    |-> Semi("V", "U", 0),
   YUV410  |-> Planar("U", "V", 2, 2, 2),
   YVU410  |-> Planar("V", "U", 2, 2, 2),
   YUV411P |-> Planar("U", "V", 2, 0, 2),
   YUV420  |-> Planar("U", "V", 1, 1, 4),
   YVU420  |-> Planar("V", "U", 1, 1, 4),
   YUV422P |-> Planar("U", "V", 1, 0, 4)]

RgbFormats == Joined(Rgb16Formats, Joined(Rgb24Formats, Rgb32Formats))

YuvFormats == Joined(YuvPackedFormats, YuvPlanarFormats)

Specs == Joined(RgbFormats, YuvFormats)

SupportedFormats == DOMAIN Specs

(***************************************************************************)
(* What the rest of the module asks of the table.                          *)
(***************************************************************************)
PlaneOf(specs, type) ==
  LET holds(p) == \E c \in specs.planes[p].components : c.type = type IN
  IF \E p \in DOMAIN specs.planes : holds(p)
  THEN CHOOSE p \in DOMAIN specs.planes : holds(p)
  ELSE 0

HasComponent(specs, type) == PlaneOf(specs, type) # 0

ComponentOf(specs, type) ==
  CHOOSE c \in specs.planes[PlaneOf(specs, type)].components : c.type = type

(* The main components; no format of the table is of the type GRAY.        *)
MainComponents(specs) ==
  IF specs.type = "RGB" THEN <<"R", "G", "B">> ELSE <<"Y", "U", "V">>

Depth(specs) == ComponentOf(specs, MainComponents(specs)[1]).depth

ComponentMax(component) == 2 ^ component.depth - 1

(* Every component is one byte deep or less, at the bottom of its byte, and *)
(* all are equally deep.                                                    *)
AllComponents(specs) ==
  UNION {specs.planes[p].components : p \in DOMAIN specs.planes}

IsFast(specs) ==
  /\ specs.order = "little"
  /\ \A c \in AllComponents(specs) :
       /\ c.shift = 0
       /\ c.depth \in {1, 2, 4, 8}
       /\ c.depth = Depth(specs)

Greatest(numbers) == CHOOSE n \in numbers : \A m \in numbers : m <= n
Least(numbers) == CHOOSE n \in numbers : \A m \in numbers : n <= m

PixelSize(plane) == Greatest({c.step : c \in plane.components})
WidthDiv(plane) == Least({c.widthDiv : c \in plane.components})
HeightDiv(plane) == Greatest({c.heightDiv : c \in plane.components})

(***************************************************************************)
(* A format: a pixel format and a size, with what follows from them, the   *)
(* length of the lines of each plane and the place of the plane in memory. *)
(***************************************************************************)
Align == 32
AlignUp(n) == ((n + Align - 1) \div Align) * Align

BytesUsed(plane, width) == (plane.bits * (width \div 2 ^ WidthDiv(plane))) \div 8

LineSize(plane, width) == AlignUp(BytesUsed(plane, width))

PlaneSize(plane, width, height) ==
  AlignUp((LineSize(plane, width) * height) \div 2 ^ HeightDiv(plane))

(* Behind the planes before; there are at most three.                      *)
PlaneOffset(planes, width, height, p) ==
  LET before(q) == IF q < p THEN PlaneSize(planes[q], width, height) ELSE 0 IN
  before(1) + before(2) + before(3)

DataSize(planes, width, height) ==
  AlignUp(PlaneOffset(planes, width, height, Len(planes) + 1))

WithParams(fourcc, specs, width, height) ==
  [fourcc |-> fourcc, width |-> width, height |-> height, specs |-> specs,
   data_size |-> DataSize(specs.planes, width, height),
   planes |-> [p \in DOMAIN specs.planes |->
     [offset |-> PlaneOffset(specs.planes, width, height, p),
      line_size |-> LineSize(specs.planes[p], width),
      pixel_size |-> PixelSize(specs.planes[p]),
      height_div |-> HeightDiv(specs.planes[p])]]]

Format(fourcc, width, height) ==
  WithParams(fourcc, Specs[fourcc], width, height)

(* Where line y of a plane starts.                                         *)
Line(format, p, y) ==
  format.planes[p].offset
    + (y \div 2 ^ format.planes[p].height_div) * format.planes[p].line_size

(* Where the byte of a component for column x starts, in its line.         *)
InLine(component, x) ==
  (x \div 2 ^ component.widthDiv) * component.step + component.offset

=============================================================================
