---------------------------- MODULE FramePipeline ----------------------------
(***************************************************************************)
(* How a capture device makes the frame it delivers (src/src/device.c):    *)
(* its clock copies the frame of the output device, or the default frame,  *)
(* or makes up one, converts it to ARGB32, applies the controls and        *)
(* converts it to the format of the device, with two converters that live  *)
(* as long as the device and keep what they configured for the last        *)
(* conversion (src/src/converter.c).                                       *)
(*                                                                         *)
(* The controls of the device, and those of the output device, which are   *)
(* copied to it, change while the clock is at work: it takes no lock and   *)
(* reads each of them when it needs it.  The locks around the current      *)
(* frame and the buffers are modelled in FrameRelay.                       *)
(***************************************************************************)
EXTENDS Integers, Sequences, FiniteSets
INSTANCE FrameConversion
INSTANCE FrameFilter

CONSTANTS
  Setups,          \* what a device may start with, see Init
  CaptureChanges,  \* pairs of a control of the capture device and a value
  OutputChanges,   \* and of one of the output device
  Sources,         \* frames the output device may come to send
  Formats          \* formats the device may be set to

(* No frame, no format, or nothing configured. *)
None == [none |-> TRUE]

VARIABLES
  format,    \* the format of the device
  direct,    \* does it deliver frames as they are?
  current,   \* the frame of the output device, None when that does not stream
  default,   \* the default frame, or None
  output,    \* the controls of the output device
  set,       \* the controls of the capture device, as V4L2 reports them
  controls,  \* and as the device applies them
  in, out,   \* the converters
  pc,        \* what the clock does next
  frame,     \* the frame it works on
  flips,     \* the local variables horizontal_flip and vertical_flip
  written,   \* the frame it wrote last
  used,      \* what that was made from, for the properties
  changes,   \* how many changes may still happen
  runs       \* how often the clock still runs

vars == <<format, direct, current, default, output, set, controls, in, out, pc,
          frame, flips, written, used, changes, runs>>

environment == <<format, direct, current, default, output, set, controls>>

(***************************************************************************)
(* Controls start at 0.  The menus are values here.                        *)
(***************************************************************************)
OutputControls ==
  [horizontal_flip |-> FALSE, vertical_flip |-> FALSE, scaling |-> "Fast",
   aspect_ratio |-> "Ignore", swap_rgb |-> FALSE]

CaptureControls ==
  [brightness |-> 0, contrast |-> 0, saturation |-> 0, hue |-> 0, gamma |-> 0,
   horizontal_flip |-> FALSE, vertical_flip |-> FALSE, gray |-> FALSE]

Shared == DOMAIN OutputControls

ControlValues(c) ==
  IF c \in {"horizontal_flip", "vertical_flip", "gray", "swap_rgb"} THEN BOOLEAN
  ELSE IF c = "scaling" THEN Scalings
  ELSE IF c = "aspect_ratio" THEN AspectRatios
  ELSE IF c = "hue" THEN -359 .. 359
  ELSE -255 .. 255

(***************************************************************************)
(* What the constants have to be.  V4L2 takes no control that a device     *)
(* does not have, and no value out of its range; the default frame is      *)
(* loaded as one of ARGB32 (Picture).                                      *)
(***************************************************************************)
IsSize(f) == f.width \in Nat /\ f.height \in Nat /\ f.width > 1 /\ f.height > 1

IsPicture(f) == {"format", "data"} \subseteq DOMAIN f /\ IsSize(f.format)

IsFormat(f) ==
  /\ f.fourcc \in SupportedFormats
  /\ f = Format(f.fourcc, f.width, f.height)

(* A whole frame of bytes.                                                  *)
IsFrame(f) ==
  /\ f.format.fourcc \in SupportedFormats
  /\ DOMAIN f.data = 0 .. f.format.data_size - 1
  /\ \A b \in DOMAIN f.data : f.data[b] \in 0 .. 255

IsSource(f) == IsPicture(f) /\ IsFormat(f.format) /\ IsFrame(f)

AreControls(values, names) ==
  /\ DOMAIN values = names
  /\ \A c \in names : values[c] \in ControlValues(c)

ASSUME FramePipelineAssumption ==
  /\ \A s \in Setups :
       /\ IsSize(s.format) /\ IsFormat(s.format)
       /\ \A f \in {s.current, s.default} : f = None \/ IsSource(f)
       /\ s.default = None \/ s.default.format.fourcc = "ARGB32"
       /\ s.changes \in Nat /\ s.runs \in Nat
       /\ AreControls(s.controls, Shared \cup DOMAIN CaptureControls)
  /\ \A c \in CaptureChanges :
       c[1] \in DOMAIN CaptureControls /\ c[2] \in ControlValues(c[1])
  /\ \A c \in OutputChanges : c[1] \in Shared /\ c[2] \in ControlValues(c[1])
  /\ \A f \in Sources : f = None \/ IsSource(f)
  /\ \A f \in Formats : IsSize(f) /\ IsFormat(f)

(***************************************************************************)
(* A converter: its settings, and fc, what it is configured for.           *)
(***************************************************************************)
NewConverter ==
  [output |-> None, scaling |-> "Fast", aspect |-> "Ignore", fc |-> None]

Set(converter, target, c) ==
  [converter EXCEPT !.output = target, !.scaling = c.scaling,
                    !.aspect = c.aspect_ratio]

Key(converter, input) ==
  [input |-> input, output |-> converter.output,
   scaling |-> converter.scaling, aspect |-> converter.aspect]

(* (wrong: a new aspect ratio goes unnoticed)                              *)
IsCurrentButAspect(fc, key) ==
  fc # None /\ [fc.key EXCEPT !.aspect = key.aspect] = key

IsCurrent(fc, key) == fc # None /\ fc.key = key

(* (wrong: the frame gets the size asked for)                              *)
ConfiguredAsAsked(key) ==
  [key |-> key, p |-> Parameters(key.input, key.output, key.aspect),
   data |-> OutputFrame(key.output, key.aspect)]

ConfiguredWith(key, p) ==
  [key |-> key, p |-> p, data |-> OutputFrame(p.scale.format, key.aspect)]

Configured(key) ==
  ConfiguredWith(key, Parameters(key.input, key.output, key.aspect))

Converted(converter, input, fc, data) ==
  IF fc.p.scale.format = input.format
  THEN [frame |-> input, converter |-> [converter EXCEPT !.fc = fc]]
  ELSE [frame |-> [format |-> fc.p.scale.format, data |-> data],
        converter |-> [converter EXCEPT !.fc = [fc EXCEPT !.data = data]]]

ConvertWith(converter, input, fc) ==
  Converted(converter, input, fc,
            Convert(fc.p, converter.scaling, input, fc.data))

PrivateConvert(converter, input) ==
  LET key == Key(converter, input.format) IN
  ConvertWith(converter, input,
              IF IsCurrent(converter.fc, key) THEN converter.fc
              ELSE Configured(key))

ConvertFrame(converter, input) ==
  IF input.format = converter.output
  THEN [frame |-> input, converter |-> converter]
  ELSE PrivateConvert(converter, input)

(***************************************************************************)
Init ==
  /\ \E s \in Setups :
       /\ format = s.format
       /\ direct = s.direct
       /\ current = s.current
       /\ default = s.default
       /\ output = [c \in Shared |-> s.controls[c]]
       /\ controls = s.controls
       /\ set = [c \in DOMAIN CaptureControls |-> s.controls[c]]
       /\ changes = s.changes /\ runs = s.runs
  /\ in = NewConverter /\ out = NewConverter
  /\ pc = "idle"
  /\ frame = None /\ flips = << >> /\ written = None /\ used = None

(***************************************************************************)
(* What happens around the clock, at any time.  A control is copied to all *)
(* fields that the connected devices share, whichever of them changed.     *)
(***************************************************************************)
Change == changes > 0 /\ changes' = changes - 1
ClockUnchanged ==
  UNCHANGED <<in, out, pc, frame, flips, written, used, runs>>

SetCaptureControl(c, value) ==
  /\ Change
  /\ set[c] # value
  /\ set' = [set EXCEPT ![c] = value]
  /\ controls' = [controls EXCEPT ![c] = value]
  /\ UNCHANGED <<format, direct, current, default, output>> /\ ClockUnchanged

(* (wrong: the aspect ratio is not copied)                                 *)
SetOutputControlButAspect(c, value) ==
  /\ Change
  /\ output[c] # value
  /\ output' = [output EXCEPT ![c] = value]
  /\ controls' = [d \in DOMAIN controls |->
                   IF d \in Shared \ {"aspect_ratio"} THEN output'[d]
                   ELSE controls[d]]
  /\ UNCHANGED <<format, direct, current, default, set>> /\ ClockUnchanged

SetOutputControl(c, value) ==
  /\ Change
  /\ output[c] # value
  /\ output' = [output EXCEPT ![c] = value]
  /\ controls' = [d \in DOMAIN controls |->
                   IF d \in Shared THEN output'[d] ELSE controls[d]]
  /\ UNCHANGED <<format, direct, current, default, set>> /\ ClockUnchanged

(* The clock of the output device hands on a frame, or it stops.           *)
Send(f) ==
  /\ Change
  /\ current' = f
  /\ UNCHANGED <<format, direct, default, output, set, controls>>
  /\ ClockUnchanged

(* S_FMT looks whether the device streams, and the clock may start before  *)
(* it sets the format; the converters remain from one stream to the next.  *)
SetFormat(f) ==
  /\ Change
  /\ format' = f
  /\ UNCHANGED <<direct, current, default, output, set, controls>>
  /\ ClockUnchanged

(***************************************************************************)
(* One run of the clock.  It starts with a frame, and what it reads later  *)
(* is noted down step by step.                                             *)
(***************************************************************************)
Started(f, is_direct) ==
  [frame |-> f, direct |-> is_direct,
   in |-> None, filter |-> None, out |-> None, target |-> None]

Write(f) ==
  /\ written' = f
  /\ pc' = "idle"

(* The random bytes of a frame made up are all the same here.              *)
ReadFrame ==
  LET random == [NewFrame(format) EXCEPT !.data = [b \in DOMAIN @ |-> 77]]
      using_default == current = None /\ default # None
      f == IF current # None THEN current
           ELSE IF using_default THEN default ELSE random IN
  /\ pc = "idle" /\ runs > 0
  /\ runs' = runs - 1
  /\ IF direct /\ ~using_default
     THEN Write(f) /\ used' = Started(f, TRUE)
                   /\ UNCHANGED frame
     ELSE /\ frame' = f
          /\ pc' = IF direct THEN "convert_default" ELSE "convert_in"
          /\ used' = Started(f, FALSE)
          /\ UNCHANGED written
  /\ UNCHANGED <<in, out, flips, changes>> /\ UNCHANGED environment

Sample(names) == [c \in names |-> controls[c]]

ConvertIn ==
  LET target == Format("ARGB32", frame.format.width, frame.format.height)
      converter == Set(in, target, controls) IN
  /\ pc = "convert_in"
  /\ flips' = <<controls.horizontal_flip, controls.vertical_flip>>
  /\ \E result \in {ConvertFrame(converter, frame)} :
       frame' = result.frame /\ in' = result.converter
  /\ used' = [used EXCEPT !.in = Sample({"horizontal_flip", "vertical_flip",
                                       "scaling", "aspect_ratio"})]
  /\ pc' = "filter"
  /\ UNCHANGED <<out, written, changes, runs>> /\ UNCHANGED environment

Filter ==
  /\ pc = "filter"
  /\ frame' = Apply(Mirror(frame, flips[1], flips[2]), controls)
  /\ used' = [used EXCEPT !.filter = Sample({"hue", "saturation", "brightness",
                               "contrast", "gamma", "gray", "swap_rgb"})]
  /\ pc' = "convert_out"
  /\ UNCHANGED <<in, out, flips, written, changes, runs>>
  /\ UNCHANGED environment

ConvertOut ==
  /\ pc \in {"convert_out", "convert_default"}
  /\ \E result \in {ConvertFrame(Set(out, format, controls), frame)} :
       Write(result.frame) /\ out' = result.converter
  /\ used' = [used EXCEPT !.out = Sample({"scaling", "aspect_ratio"}),
                          !.target = format]
  /\ frame' = None
  /\ UNCHANGED <<in, flips, changes, runs>> /\ UNCHANGED environment

Next ==
  \/ \E c \in CaptureChanges : SetCaptureControl(c[1], c[2])
  \/ \E c \in OutputChanges : SetOutputControl(c[1], c[2])
  \/ \E f \in Sources : Send(f)
  \/ \E f \in Formats : SetFormat(f)
  \/ ReadFrame
  \/ ConvertIn
  \/ Filter
  \/ ConvertOut

Spec == Init /\ [][Next]_vars

-----------------------------------------------------------------------------
(***************************************************************************)
(* Properties.                                                             *)
(***************************************************************************)
(* Every frame on its way is a whole frame of bytes; between the two       *)
(* converters it is one of ARGB32, unless a direct device converts its     *)
(* default frame only.                                                     *)
TypeOK ==
  /\ pc \in {"idle", "convert_in", "filter", "convert_out", "convert_default"}
  /\ \A f \in {current, default, frame, written} \ {None} : IsFrame(f)
  /\ (frame = None) <=> (pc = "idle")
  /\ pc \in {"filter", "convert_out"} => frame.format.fourcc = "ARGB32"
  /\ changes \in Nat /\ runs \in Nat

(* What converters that were never used before make of the frame copied,   *)
(* with the values each control had when the clock read it.                *)
Fresh(input, target, c) ==
  ConvertFrame(Set(NewConverter, target, c), input).frame

Expected ==
  LET f == used.frame
      argb == Fresh(f, Format("ARGB32", f.format.width, f.format.height), used.in)
      mirrored == Mirror(argb, used.in.horizontal_flip, used.in.vertical_flip) IN
  IF used.direct THEN f
  ELSE Fresh(IF used.in # None THEN Apply(mirrored, used.filter) ELSE f,
             used.target, used.out)

(* A frame is never made with settings, sizes or a border that a converter *)
(* kept from an earlier conversion, whatever changed since.                *)
WrittenIsFresh == pc = "idle" /\ written # None => written = Expected

AxisInside(a, low, high, limit) ==
  \A v \in low .. high - 1 :
    /\ a.from[v] \in 0 .. limit - 1
    /\ v > low => a.from[v - 1] <= a.from[v]
    /\ a.to[v] \in a.from[v] .. limit
    /\ a.k[v] \in 0 .. 8
    /\ a.k[v] > 0 => a.next[v] \in a.from[v] .. limit - 1

Used == {c \in {in, out} : c.fc # None}

ScaleInside(s, input, aspect) ==
  LET rect == SourceRect(input, <<s.xmax - s.xmin, s.ymax - s.ymin>>, aspect) IN
  (rect.width > 0 /\ rect.height > 0) =>
    /\ AxisInside(s.x, s.xmin, s.xmax, input.width)
    /\ AxisInside(s.y, s.ymin, s.ymax, input.height)

(* The tables of a converter only name columns and lines of the source, in *)
(* their order: those that are shown, averaged, or blended with a weight   *)
(* other than 0.  Only a picture so narrow that the part of the source to  *)
(* show has no width is drawn with other columns.                          *)
TablesStayInside ==
  \A c \in Used : ScaleInside(c.fc.p.scale, c.fc.key.input, c.fc.key.aspect)

(***************************************************************************)
(* The frame written last, while nothing has changed since.                *)
(***************************************************************************)
Done == pc = "idle" /\ written # None /\ ~used.direct

Colour(f, x, y) ==
  LET c == Components(f.format.specs) IN
  [i \in 1 .. 3 |-> Field(f, c[i], x, y)]

Colours(f, places) == {Colour(f, q[1], q[2]) : q \in places}

(* The places of the picture in the frame written, of which a conversion   *)
(* may leave a border; a frame passed on as it is is all picture.          *)
Picture ==
  LET f == used.frame.format
      input == IF used.in = None THEN f
               ELSE Format("ARGB32", f.width, f.height)
      s == out.fc.p.scale IN
  IF input = out.output THEN Places(written)
  ELSE (s.xmin .. s.xmax - 1) \X (s.ymin .. s.ymax - 1)

(* Averages are only right where the picture is as wide as the frame.      *)
LOCAL Averaged ==
  /\ out.scaling = "Linear" /\ out.aspect \in {"Keep", "Fit"}
  /\ out.fc # None /\ out.fc.p.scale.resize = "Down" /\ ~out.fc.p.fast

(* A source of one colour gives a picture of one colour, whatever the      *)
(* formats, the sizes, the scaling and the other controls are: no byte is  *)
(* read that is not the right component of a pixel of the source.          *)
UniformStaysUniform ==
  (Done /\ ~Averaged /\ Cardinality(Colours(used.frame, Places(used.frame))) = 1)
    => Cardinality(Colours(written, Picture)) <= 1

Is8BitRgb(f) == f.specs.type = "RGB" /\ IsFast(f.specs)

Neutral ==
  /\ used.filter = Sample(DOMAIN used.filter) /\ ~controls.gray /\ ~controls.swap_rgb
  /\ \A c \in {"hue", "saturation", "brightness", "contrast", "gamma"} :
       controls[c] = 0

(* Between RGB formats of 8 bits and frames of one size, with no more than *)
(* the flips set, every pixel arrives with its colour, at its place.       *)
ColoursArePlaced ==
  (/\ Done /\ used.in # None /\ Neutral
   /\ Is8BitRgb(used.frame.format) /\ Is8BitRgb(written.format)
   /\ Places(used.frame) = Places(written)) =>
  \A q \in Places(written) :
    LET f == written.format
        x == IF used.in.horizontal_flip THEN f.width - 1 - q[1] ELSE q[1]
        y == IF used.in.vertical_flip THEN f.height - 1 - q[2] ELSE q[2] IN
    Colour(written, q[1], q[2]) = Colour(used.frame, x, y)

(* What is not covered by the picture of an aspect ratio that fits is      *)
(* black, and stays so while frames are painted on it.                     *)
BordersStayBlack ==
  Done /\ out.aspect = "Fit" =>
    \A q \in Places(written) \ Picture :
      LET c == Colour(written, q[1], q[2]) IN
      IF written.format.specs.type = "YUV" THEN c[1] = 16
      ELSE c = <<0, 0, 0>>

(* A gray picture has no colour in the format of the device either.        *)
GrayIsGray ==
  (/\ Done /\ used.filter # None
   /\ used.filter.gray /\ ~used.filter.swap_rgb) =>
  \A c \in Colours(written, Picture) :
    /\ written.format.specs.type = "YUV" => c[2] = 128 /\ c[3] = 128
    /\ Is8BitRgb(written.format) => c[1] = c[2] /\ c[2] = c[3]

(* Neither curve makes a brighter value the darker one.                    *)
CurvesRise ==
  pc = "filter" =>
    \A i \in 0 .. 254 :
      /\ ContrastTable(controls.contrast, i)
           <= ContrastTable(controls.contrast, i + 1)
      /\ GammaTable(controls.gamma, i) <= GammaTable(controls.gamma, i + 1)

(* The flips applied are those set last on this device or on the output    *)
(* device, and what only the output device has is applied as set there.    *)
FlipsAreKnown ==
  /\ \A c \in {"horizontal_flip", "vertical_flip"} :
       controls[c] \in {set[c], output[c]}
  /\ \A c \in {"scaling", "aspect_ratio", "swap_rgb"} : controls[c] = output[c]

(* On the way from one YUV format to another by way of RGB a gray level    *)
(* changes by no more than 1, but for the limits of its range.             *)
LumaIsKept ==
  (/\ Done /\ used.in # None /\ Neutral
   /\ used.frame.format.specs.type = "YUV"
   /\ written.format.specs.type = "YUV"
   /\ ~(out.scaling = "Linear" /\ out.fc # None /\ out.fc.p.scale.resize = "Down")
   /\ \A c \in Colours(used.frame, Places(used.frame)) :
        c[1] = Colour(used.frame, 0, 0)[1] /\ c[2] = 128 /\ c[3] = 128) =>
  \A c \in Colours(written, Picture) :
    c[1] - Bound(16, Colour(used.frame, 0, 0)[1], 235) \in -1 .. 1

=============================================================================
