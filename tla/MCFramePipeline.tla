--------------------------- MODULE MCFramePipeline ---------------------------
(***************************************************************************)
(* Frames of a few pixels.  Every pixel format is once that of the source  *)
(* and once that of the device; ARGB32 frames are scaled between several   *)
(* sizes; a few values of each control are applied; and two devices run    *)
(* while settings, frames and formats change.                              *)
(***************************************************************************)
EXTENDS FramePipeline

LOCAL INSTANCE TLC

(* Lines of planes with less columns than that have no bytes.              *)
MCWidth(fourcc) == IF fourcc \in {"YUV410", "YVU410", "YUV411P"} THEN 16 ELSE 4

MCFormat(fourcc) == Format(fourcc, MCWidth(fourcc), 2)

MCFrame(f, pixel(_, _)) ==
  LET c == Components(f.specs)
      whole == [format |-> f, xmin |-> 0, xmax |-> f.width,
                ymin |-> 0, ymax |-> f.height]
      fitting(p) == [i \in DOMAIN c |-> p[i] % (ComponentMax(c[i].component) + 1)] IN
  [format |-> f,
   data |-> Painted([scale |-> whole, out |-> c], NewFrame(f).data,
                    [x \in 0 .. f.width - 1, y \in 0 .. f.height - 1 |->
                      fitting(pixel(x, y))])]

MCUniform(f) == MCFrame(f, LAMBDA x, y : <<180, 91, 140, 255>>)
MCGray(f, v) == MCFrame(f, LAMBDA x, y : <<v, 128, 128, 255>>)
MCPattern(f) == MCFrame(f, LAMBDA x, y :
  <<(50 * x + 20 * y) % 256, (200 + 31 * x) % 256, (7 + 83 * y) % 256, 255>>)

MCControls == OutputControls @@ CaptureControls

MCSetup(source, device) ==
  [format |-> device, direct |-> FALSE, current |-> source, default |-> None,
   controls |-> MCControls, changes |-> 0, runs |-> 1]

Having(setup, name, value) == [setup EXCEPT !.controls[name] = value]

MCDevices == {"RGB24", "YUY2", "RGBA555"}

MCFromAll == {MCSetup(MCUniform(MCFormat(from)), Format(to, MCWidth(from), 2)) :
                from \in SupportedFormats, to \in MCDevices}

MCToAll == {MCSetup(MCUniform(Format(from, 4, 3)), MCFormat(to)) :
              from \in {"ARGB32", "UYVY", "RGBA555"}, to \in SupportedFormats}

MCLuma == {MCSetup(MCGray(Format(from, 4, 2), v), Format(to, 4, 2)) :
             from \in {"NV12", "YUY2"}, to \in {"UYVY", "YUV420"},
             v \in {0, 15, 16, 17, 128, 202, 234, 235, 240, 255}}

MCSizes == {Format("ARGB32", w, h) : w \in {2, 3, 5}, h \in {2, 3}}

MCScaled ==
  {Having(Having(MCSetup(MCPattern(from),
                     Format(IF scaling = "Fast" THEN "UYVY" ELSE "RGB16",
                            to.width, to.height)),
             "scaling", scaling), "aspect_ratio", aspect) :
     from \in MCSizes, to \in MCSizes, scaling \in Scalings,
     aspect \in AspectRatios}

MCUniformScaled ==
  {Having(Having(MCSetup(MCUniform(Format("RGB24", 5, 3)), to),
             "scaling", "Linear"), "aspect_ratio", aspect) :
     to \in {Format(f, w, h) : f \in {"NV12", "RGBA555", "RGB24", "RGB16"},
                               w \in {4, 6}, h \in {2, 4}},
     aspect \in AspectRatios}

MCFiltered ==
  LET base == MCSetup(MCPattern(Format("BGR24", 3, 3)), Format("RGBX32", 3, 3))
      yuv == [base EXCEPT !.format = Format("YUY2", 4, 3)]
      plain == {Having(base, c[1], c[2]) : c \in
                  {<<"contrast", v>> : v \in {-255, -128, -1, 0, 1, 77, 255}}
                  \cup {<<"gamma", v>> : v \in {-255, -253, -99, 1, 99, 253, 255}}
                  \cup {<<"hue", v>> : v \in {-359, 60, 100}}
                  \cup {<<"saturation", v>> : v \in {-255, 90}}
                  \cup {<<"brightness", v>> : v \in {-50, 50}}} IN
  plain
    \cup {Having(s, "gray", TRUE) : s \in plain \cup {yuv}}
    \cup {Having(Having(base, "horizontal_flip", h), "vertical_flip", v) :
            h, v \in BOOLEAN}
    \cup {Having(Having([base EXCEPT !.format = Format("ARGB32", 3, 3)],
                    "horizontal_flip", TRUE), "vertical_flip", v) :
            v \in BOOLEAN}

MCRunning ==
  {[MCSetup(MCPattern(Format("RGB24", 3, 2)), Format("YUY2", 4, 2))
      EXCEPT !.changes = 2, !.runs = 2],
   [MCSetup(None, Format("NV12", 4, 4))
      EXCEPT !.changes = 1, !.runs = 2,
             !.default = MCPattern(Format("ARGB32", 2, 2))],
   [MCSetup(None, Format("RGB16", 2, 2)) EXCEPT !.changes = 1],
   [MCSetup(MCPattern(Format("RGB24", 4, 2)), Format("BGRX555", 4, 2))
      EXCEPT !.changes = 1, !.runs = 2]}
    \cup {[MCSetup(source, Format("RGB24", 2, 2))
             EXCEPT !.direct = TRUE, !.changes = 1, !.runs = 2,
                    !.default = MCPattern(Format("ARGB32", 3, 2))] :
            source \in {None, MCPattern(Format("RGB24", 2, 2))}}

MCSetups == MCFromAll \cup MCToAll \cup MCLuma \cup MCScaled
              \cup MCUniformScaled \cup MCFiltered \cup MCRunning

MCCaptureChanges == {<<"horizontal_flip", TRUE>>, <<"contrast", 90>>}
MCOutputChanges == {<<"vertical_flip", TRUE>>, <<"scaling", "Linear">>,
                    <<"aspect_ratio", "Fit">>, <<"aspect_ratio", "Keep">>}
MCSources == {None, MCPattern(Format("YUY2", 2, 2))}
MCFormats == {Format("RGB24", 2, 2)}

=============================================================================
