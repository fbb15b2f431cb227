----------------------- MODULE MCFormatNegotiation --------------------------
(***************************************************************************)
(* FormatNegotiation for TLC, scaled down to 4 bit values and 8 bit sums:  *)
(* every list of up to three out of five formats, which share pixel        *)
(* formats, sizes and rates in different ways, and requests on both ends   *)
(* of the range, so that distances do wrap around.                         *)
(***************************************************************************)
EXTENDS FormatNegotiation

Rate(n, d) == [num |-> n, den |-> d]

Format(fourcc, width, height, fps) ==
  [fourcc |-> fourcc, width |-> width, height |-> height, fps |-> fps]

FiveFormats == { Format("YUY2", 6, 4, Rate(3, 1)),
                 Format("YUY2", 6, 4, Rate(15, 2)),
                 Format("RGB24", 6, 4, Rate(2, 1)),
                 Format("RGB24", 14, 12, Rate(2, 1)),
                 Format("YUY2", 15, 15, Rate(3, 1)) }

UpToThree == UNION {[1 .. n -> FiveFormats] : n \in 1 .. 3}

PixelBytes == [fourcc \in {"YUY2", "RGB24"} |->
                 IF fourcc = "YUY2" THEN 2 ELSE 3]

=============================================================================
