----------------------------- MODULE FrameFilter -----------------------------
(***************************************************************************)
(* What the controls of a device do to a frame (src/src/frame_filter.c):   *)
(* the frame is turned around, and the colours of its pixels are changed.  *)
(*                                                                         *)
(* The filters work on frames of the pixel format ARGB32, where a pixel is *)
(* <<alpha, red, green, blue>>, and leave others as they are.              *)
(***************************************************************************)
LOCAL INSTANCE Integers
LOCAL INSTANCE Sequences
INSTANCE PixelFormats

Clamp(low, x, high) == IF x < low THEN low ELSE IF x > high THEN high ELSE x
Larger(a, b) == IF a > b THEN a ELSE b
Smaller(a, b) == IF a < b THEN a ELSE b
Abs(x) == IF x < 0 THEN -x ELSE x

PixelAt(frame, x, y) ==
  [i \in 1 .. 4 |-> frame.data[Line(frame.format, 1, y) + 4 * x + i - 1]]

Places(frame) == (0 .. frame.format.width - 1) \X (0 .. frame.format.height - 1)

Redrawn(frame, line, pixels) ==
  [frame EXCEPT !.data =
    Table([b \in DOMAIN @ |->
      LET x == (b % line) \div 4
          y == b \div line IN
      IF <<x, y>> \in DOMAIN pixels THEN pixels[<<x, y>>][(b % 4) + 1] ELSE @[b]])]

(* The frame with the pixels of the image, one for every place.             *)
WithPixels(frame, image) ==
  IF frame.format.fourcc # "ARGB32" THEN frame
  ELSE Redrawn(frame, frame.format.planes[1].line_size, Table(image))

(***************************************************************************)
(* Turning a frame around.  Lines, or the pixels of a line, change places  *)
(* in pairs; with an odd number of lines both mirrors together have to     *)
(* turn the line in the middle, which has no partner, by itself.           *)
(***************************************************************************)
MirrorHorizontal(frame) ==
  LET w == frame.format.width IN
  WithPixels(frame, [q \in Places(frame) |->
    LET x == q[1] IN
    IF x < w \div 2 \/ w - x - 1 < w \div 2 THEN PixelAt(frame, w - x - 1, q[2])
    ELSE PixelAt(frame, x, q[2])])

(* Whole lines, with the bytes behind their last pixel.                    *)
MirrorVertical(frame) ==
  LET h == frame.format.height
      line == frame.format.planes[1].line_size IN
  IF frame.format.fourcc # "ARGB32" THEN frame
  ELSE [frame EXCEPT !.data =
         Table([b \in DOMAIN @ |->
           LET y == b \div line IN
           IF y < h /\ (y < h \div 2 \/ h - y - 1 < h \div 2)
           THEN @[line * (h - y - 1) + (b % line)]
           ELSE @[b]])]

(* (wrong: the line in the middle is left as it is)                        *)
MirrorBothButMiddle(frame) ==
  LET w == frame.format.width
      h == frame.format.height IN
  WithPixels(frame, [q \in Places(frame) |->
    IF q[2] < h \div 2 \/ h - q[2] - 1 < h \div 2
    THEN PixelAt(frame, w - q[1] - 1, h - q[2] - 1) ELSE PixelAt(frame, q[1], q[2])])

(* The code copies lines by way of a new buffer whose end it does not set, *)
(* so that the bytes behind the last pixel of the lower lines are left to  *)
(* chance.  They are no part of the picture and stay as they are here.     *)
MirrorBoth(frame) ==
  LET w == frame.format.width
      h == frame.format.height
      pair(n, i) == i < n \div 2 \/ n - i - 1 < n \div 2
      middle == h % 2 # 0 IN
  WithPixels(frame, [q \in Places(frame) |->
    LET x == q[1]
        y == q[2] IN
    IF pair(h, y) THEN PixelAt(frame, w - x - 1, h - y - 1)
    ELSE IF middle /\ pair(w, x) THEN PixelAt(frame, w - x - 1, y)
    ELSE PixelAt(frame, x, y)])

Mirror(frame, horizontal, vertical) ==
  CASE horizontal /\ vertical -> MirrorBoth(frame)
    [] horizontal /\ ~vertical -> MirrorHorizontal(frame)
    [] ~horizontal /\ vertical -> MirrorVertical(frame)
    [] OTHER -> frame

(***************************************************************************)
(* Hue is in degrees, the saturation and the lightness are bytes.          *)
(***************************************************************************)
RgbToHsl(r, g, b) ==
  LET max == Larger(r, Larger(g, b))
      min == Smaller(r, Smaller(g, b))
      c == max - min
      h == IF max = r THEN (g - b) % (6 * c)
           ELSE IF max = g THEN b - r + 2 * c
           ELSE r - g + 4 * c IN
  IF c = 0 THEN [h |-> 0, s |-> 0, l |-> (max + min) \div 2]
  ELSE [h |-> (60 * h) \div c,
        s |-> (255 * c) \div (255 - Abs(max + min - 255)),
        l |-> (max + min) \div 2]

HslToRgb(h, s, l) ==
  LET c == (s * (255 - Abs(2 * l - 255))) \div 255
      x == (c * (60 - Abs((h % 120) - 60))) \div 60
      rgb == << <<c, x, 0>>, <<x, c, 0>>, <<0, c, x>>,
                <<0, x, c>>, <<x, 0, c>>, <<c, 0, x>> >>[(h \div 60) + 1] IN
  [i \in 1 .. 3 |-> (2 * rgb[i] + 2 * l - c) \div 2]

Shifted(hsl, hue, saturation, luminance) ==
  HslToRgb((hsl.h + hue) % 360,
           Clamp(0, hsl.s + saturation, 255),
           Clamp(0, hsl.l + luminance, 255))

(* The pixel with another colour and its alpha.                            *)
WithColour(p, rgb) == <<p[1], rgb[1], rgb[2], rgb[3]>>

Hsl(p, hue, saturation, luminance) ==
  IF hue = 0 /\ saturation = 0 /\ luminance = 0 THEN p
  ELSE WithColour(p, Shifted(RgbToHsl(p[2], p[3], p[4]), hue, saturation, luminance))

(***************************************************************************)
(* The curves are tables with a row for each value of the control.         *)
(***************************************************************************)
(* (wrong: values are not bounded before they are stored in a byte)        *)
ContrastTableWrapping(contrast, i) ==
  LET num == 259 * (255 + contrast)
      den == 255 * (259 - contrast) IN
  ((num * (i - 128) + 128 * den) \div den) % 256

ContrastTable(contrast, i) ==
  LET num == 259 * (255 + contrast)
      den == 255 * (259 - contrast) IN
  Clamp(0, (num * (i - 128) + 128 * den) \div den, 255)

GammaTable(gamma, i) ==
  LET g == (255 + gamma) \div 2
      num == 2 * g - 255
      den == g * (255 - g) IN
  IF g = 0 THEN 0
  ELSE IF g = 255 THEN 255
  ELSE Clamp(0, (num * (255 * i - i * i) + den * i) \div den, 255)

Contrast(p, contrast) ==
  LET row == Clamp(-255, contrast, 255) IN
  IF contrast = 0 THEN p
  ELSE WithColour(p, [i \in 1 .. 3 |-> ContrastTable(row, p[i + 1])])

Gamma(p, gamma) ==
  LET row == Clamp(-255, gamma, 255) IN
  IF gamma = 0 THEN p
  ELSE WithColour(p, [i \in 1 .. 3 |-> GammaTable(row, p[i + 1])])

GrayVal(r, g, b) == (11 * r + 16 * g + 5 * b) \div 32

Grayed(p, luma) == WithColour(p, <<luma, luma, luma>>)

Gray(p, gray) == IF gray THEN Grayed(p, GrayVal(p[2], p[3], p[4])) ELSE p

(* The first and the third byte of the pixel.                              *)
SwapRgb(p, swap_rgb) == IF swap_rgb THEN <<p[3], p[2], p[1], p[4]>> ELSE p

(* (wrong: gray comes first)                                               *)
ApplyGrayFirst(frame, c) ==
  WithPixels(frame, [q \in Places(frame) |->
    LET gray == Gray(PixelAt(frame, q[1], q[2]), c.gray)
        hsl == Hsl(gray, c.hue, c.saturation, c.brightness) IN
    SwapRgb(Contrast(Gamma(hsl, c.gamma), c.contrast), c.swap_rgb)])

(* All filters, in the order of the code; `c` has the values of controls.  *)
Apply(frame, c) ==
  WithPixels(frame, [q \in Places(frame) |->
    LET hsl == Hsl(PixelAt(frame, q[1], q[2]), c.hue, c.saturation, c.brightness)
        curves == Contrast(Gamma(hsl, c.gamma), c.contrast) IN
    SwapRgb(Gray(curves, c.gray), c.swap_rgb)])

=============================================================================
