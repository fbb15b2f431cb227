------------------------------- MODULE Picture -------------------------------
(***************************************************************************)
(* Loading the default frame from a bitmap file (akvcam_frame_load of      *)
(* src/src/frame.c).                                                       *)
(*                                                                         *)
(* The first element of a file is its header, a record: `signed` tells     *)
(* whether it begins with BM, and off_bits, where the pixels begin, is     *)
(* counted in elements.  The others are bytes.  A picture is a function    *)
(* from the columns and lines of a frame of the format ARGB32 to pixels    *)
(* <<alpha, red, green, blue>>, none of which are no picture.              *)
(***************************************************************************)
LOCAL INSTANCE Integers
LOCAL INSTANCE Sequences
LOCAL INSTANCE FileReader
LOCAL INSTANCE PixelFormats

NoPicture == << >>

LOCAL AbsHeight(header) == IF header.height < 0 THEN -header.height ELSE header.height

(* The line of the picture that line y of the file is.                     *)
LineOf(header, y) == IF header.height < 0 THEN y ELSE AbsHeight(header) - y - 1

LOCAL Points(header) == (0 .. header.width - 1) \X (0 .. AbsHeight(header) - 1)

(* `count` chunks of n bytes, each read into the same variable, which
   starts with junk and keeps what a read that comes up short leaves.      *)
Chunks(file, content, n, count, from) ==
  LET none == [file |-> file, chunk |-> [b \in 1 .. n |-> from.junk], all |-> << >>]
      After[i \in 0 .. count] ==
        LET before == After[i - 1]
            r == Read(before.file, content, n, from.kernel)
            chunk == r.data \o SubSeq(before.chunk, Len(r.data) + 1, n) IN
        IF i = 0 THEN none
        ELSE [file |-> r.file, chunk |-> chunk, all |-> Append(before.all, chunk)] IN
  After[count].all

(* Of at most 256 colours, blue, green, red and a byte that is not used.
   If the pixels begin inside the header, the difference wraps around.     *)
ReadPalette(file, content, header, from) ==
  LET n == IF header.off_bits < 1 THEN 256
           ELSE IF (header.off_bits - 1) \div 4 > 256 THEN 256
           ELSE (header.off_bits - 1) \div 4
      raw == Chunks(file, content, 4, n, from) IN
  [i \in 0 .. 255 |-> IF i < n THEN <<255, raw[i + 1][3], raw[i + 1][2], raw[i + 1][1]>>
                      ELSE <<255, 0, 0, 0>>]

(* (wrong: lines of a picture with one byte for a pixel are not padded) *)
RowSizeUnpadded(header) == header.width

RowSize(header) == ((header.width + 3) \div 4) * 4

(* Bytes that are indices of colours, a line at a time.                    *)
LoadIndexed(file, content, header, palette, from) ==
  LET rows == Chunks(file, content, RowSize(header), AbsHeight(header), from) IN
  [p \in Points(header) |-> palette[rows[LineOf(header, p[2]) + 1][p[1] + 1]]]

(* Blue, green, red and, with four bytes for a pixel, alpha: one pixel
   after the other, with no padding behind a line.                         *)
LoadPixels(file, content, header, from) ==
  LET n == header.bit_count \div 8
      pixels == Chunks(file, content, n, header.width * AbsHeight(header), from)
      at(p) == pixels[LineOf(header, p[2]) * header.width + p[1] + 1] IN
  [p \in Points(header) |-> <<IF n = 4 THEN at(p)[4] ELSE 255, at(p)[3], at(p)[2], at(p)[1]>>]

(* Line y of the file from column x with pixels of these colours.          *)
LOCAL Drawn(state, header, colours) ==
  [state EXCEPT
    !.picture = [p \in DOMAIN @ |->
      IF p[2] = LineOf(header, state.y) /\ p[1] \in state.x .. state.x + Len(colours) - 1
        THEN colours[p[1] - state.x + 1] ELSE @[p]],
    !.x = @ + Len(colours)]

(* May that be a line of the picture?  With the height as it is in the
   file: if that is negative there is no limit.                            *)
LOCAL HasLine(header, y) == header.height < 0 \/ y < header.height

LOCAL Refused(state) == [state EXCEPT !.ended = TRUE, !.picture = NoPicture]

LOCAL Fits(state, header, n) == state.x + n <= header.width

(* n pixels of the same colour.                                            *)
Run(state, header, n, colour) ==
  IF ~Fits(state, header, n) THEN Refused(state)
  ELSE Drawn(state, header, [i \in 1 .. n |-> colour])

(* Pixels that are passed over, by so many columns and lines.              *)
Skip(state, header, delta) ==
  IF \/ Len(delta.data) < 2
     \/ state.x + delta.data[1] >= header.width
     \/ ~HasLine(header, state.y + delta.data[2]) THEN Refused(state)
  ELSE [state EXCEPT !.file = delta.file, !.x = @ + delta.data[1], !.y = @ + delta.data[2]]

(* Different pixels, n of them, and a byte that makes their number even.   *)
Literal(state, header, palette, n, run) ==
  IF Len(run.data) < n \/ ~Fits(state, header, n) THEN Refused(state)
  ELSE Drawn([state EXCEPT !.file = IF n % 2 = 1 THEN Seek(run.file, 1, "CUR") ELSE run.file],
             header, [i \in 1 .. n |-> palette[run.data[i]]])

(***************************************************************************)
(* Runs of equal pixels, and runs of different ones, with the position in  *)
(* the file, the column x and the line y to go on with.  Pairs of bytes    *)
(* are a count and a colour, or 0 and an instruction.                      *)
(***************************************************************************)
DrawPair(state, content, header, palette, kernel, count, code) ==
  CASE count > 0 -> Run(state, header, count, palette[code])
    [] count = 0 /\ code = 0 ->
         IF ~HasLine(header, state.y + 1) THEN Refused(state)
         ELSE [state EXCEPT !.x = 0, !.y = @ + 1]
    [] count = 0 /\ code = 1 -> [state EXCEPT !.ended = TRUE]
    [] count = 0 /\ code = 2 -> Skip(state, header, Read(state.file, content, 2, kernel))
    [] OTHER -> Literal(state, header, palette, code, Read(state.file, content, code, kernel))

LoadPair(state, content, header, palette, kernel) ==
  LET pair == Read(state.file, content, 2, kernel) IN
  IF Len(pair.data) < 2 THEN Refused(state)
  ELSE DrawPair([state EXCEPT !.file = pair.file], content, header, palette, kernel,
                pair.data[1], pair.data[2])

(* Each pair is read from the file, so that there are not more of them than
   it has bytes.                                                           *)
LoadRle8(start, content, header, palette, kernel) ==
  LET After[i \in 0 .. Len(content)] ==
        LET state == After[i - 1] IN
        CASE i = 0 -> start
          [] i > 0 /\ state.ended -> state
          [] OTHER -> LoadPair(state, content, header, palette, kernel) IN
  After[Len(content)].picture

(* The picture in a file; `from` has the kernel that reads it and the junk
   the variables on the stack start with.                                  *)
Load(content, from) ==
  LET opened == Read(OpenFile(NewFile, content), content, 1, from.kernel)
      header == opened.data[1]
      palette == ReadPalette(opened.file, content, header, from)
      file == Seek(opened.file, header.off_bits, "BEG")
      start == [file |-> file, x |-> 0, y |-> 0, ended |-> FALSE,
                picture |-> [p \in Points(header) |-> <<0, 0, 0, 0>>]] IN
  IF opened.data = << >> \/ ~header.signed THEN NoPicture
  ELSE IF Format("ARGB32", header.width, AbsHeight(header)).data_size < 1 THEN NoPicture
  ELSE CASE header.bit_count = 8 /\ header.compression = 1 ->
              LoadRle8(start, content, header, palette, from.kernel)
         [] header.bit_count = 8 /\ header.compression = 0 ->
              LoadIndexed(file, content, header, palette, from)
         [] header.bit_count \in {24, 32} -> LoadPixels(file, content, header, from)
         [] OTHER -> NoPicture
=============================================================================
