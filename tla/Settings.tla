------------------------------- MODULE Settings -------------------------------
(***************************************************************************)
(* The configuration file of the driver and what it says of formats and    *)
(* devices (src/src/settings.c, src/src/driver.c, src/src/list.c).         *)
(*                                                                         *)
(* A text is a sequence of characters, in which whole words and numerals   *)
(* stand for the characters they are made of: a character that follows a   *)
(* backslash is one of its own.  A map is a function.                      *)
(***************************************************************************)
EXTENDS Integers, Sequences, SequencesExt, FiniteSetsExt
LOCAL INSTANCE TLC
LOCAL INSTANCE PixelFormats

CONSTANTS
  Numbers,     \* what the numerals stand for, a function to the integers
  Codes,       \* what hexadecimal digits stand for, a function to characters
  RowFrames    \* frames for each row in the stack that combines lists, 64

ASSUME SettingsConstants == /\ \A word \in DOMAIN Numbers : Numbers[word] \in Int
                            /\ RowFrames \in Nat \ {0}

(* No value and no device.  No value is empty: a key without one is not kept. *)
NoValue == << >>
None == [none |-> TRUE]

Spaces == {" ", "\t", "\n", "\f", "\r", "VT"}

Escapes ==
  [c \in {"'", "\"", "?", "\\"} |-> c] @@
  [a |-> "BEL", b |-> "BS", f |-> "\f", n |-> "\n", r |-> "\r", t |-> "\t", v |-> "VT"] @@
  ("0" :> "NUL")

Strip(s) ==
  LET solid == {i \in DOMAIN s : s[i] \notin Spaces} IN
  IF solid = {} THEN << >> ELSE SubSeq(s, Min(solid), Max(solid))

IndexIn(s, c) ==
  LET at == {i \in DOMAIN s : s[i] = c} IN IF at = {} THEN 0 ELSE Min(at)

(***************************************************************************)
(* Values.  A backslash in front of the last two characters of a value is  *)
(* left as it is, and so is a code that is not complete two characters     *)
(* before its end; in a value of three characters, where that limit wraps  *)
(* around, one digit will do.                                              *)
(***************************************************************************)
LOCAL HexAt(s, i) ==
  CASE i + 4 <= Len(s) -> SubSeq(s, i + 2, i + 3)
    [] i + 4 > Len(s) /\ Len(s) = 3 -> <<s[3]>>
    [] OTHER -> << >>

Unescaped(s, start, end) ==
  LET From[i \in Nat] ==
        LET escape == i + 2 <= Len(s) /\ s[i] = "\\" IN
        CASE i > end -> << >>
          [] i <= end /\ escape /\ s[i + 1] \in DOMAIN Escapes ->
               <<Escapes[s[i + 1]]>> \o From[i + 2]
          [] i <= end /\ escape /\ s[i + 1] = "x" /\ HexAt(s, i) \in DOMAIN Codes ->
               <<Codes[HexAt(s, i)]>> \o From[i + 4]
          [] OTHER -> <<s[i]>> \o From[i + 1]
  IN From[start]

ParseString(s) ==
  LET quoted == s[1] \in {"\"", "'"} /\ s[Len(s)] = s[1]
      all == IF quoted THEN Unescaped(s, 2, Len(s) - 1) ELSE Unescaped(s, 1, Len(s))
      nul == IndexIn(all, "NUL") IN
  IF Len(s) < 2 THEN s ELSE IF nul > 0 THEN SubSeq(all, 1, nul - 1) ELSE all

(* What a line says: a group, a key and its value, or nothing.             *)
NothingSaid == [malformed |-> FALSE, group |-> << >>, key |-> << >>, value |-> << >>]

KeyIn(s) == [c \in 1 .. Len(Strip(s)) |-> IF Strip(s)[c] = "\\" THEN "/" ELSE Strip(s)[c]]

Parse(line) ==
  LET sep == IndexIn(line, "=")
      key == KeyIn(SubSeq(line, 1, sep - 1))
      malformed == [NothingSaid EXCEPT !.malformed = TRUE] IN
  IF line = << >> \/ line[1] \in {"#", ";"} THEN NothingSaid
  ELSE IF line[1] = "[" THEN
    IF line[Len(line)] # "]" \/ Len(line) < 3 THEN malformed
    ELSE [NothingSaid EXCEPT !.group = Strip(SubSeq(line, 2, Len(line) - 1))]
  ELSE IF sep = 0 \/ key = << >> THEN malformed
  ELSE [NothingSaid EXCEPT !.key = key,
          !.value = ParseString(Strip(SubSeq(line, sep + 1, Len(line))))]

(* Maps.  What is not in a map is empty: no value, or a map without keys.  *)
MapValue(map, key) == IF key \in DOMAIN map THEN map[key] ELSE << >>
MapSetValue(map, key, value) ==
  [k \in DOMAIN map \cup {key} |-> IF k = key THEN value ELSE map[k]]

(* What has been read so far, and the group of the lines to come (none at
   first), with one more line.  A key without a value is passed over.      *)
StoreValue(read, element) ==
  LET group == IF read.group = << >> THEN <<"General">> ELSE read.group IN
  [group |-> group,
   configs |-> MapSetValue(read.configs, group,
                 MapSetValue(MapValue(read.configs, group), element.key, element.value))]

(* (wrong: a group that comes again starts anew) *)
StoreAnew(read, element) ==
  IF element.group # << >>
  THEN [group |-> element.group,
        configs |-> MapSetValue(read.configs, element.group, << >>)]
  ELSE IF element.key # << >> /\ element.value # << >> THEN StoreValue(read, element)
  ELSE read

Store(read, element) ==
  IF element.group # << >>
  THEN [group |-> element.group,
        configs |-> MapSetValue(read.configs, element.group,
                                MapValue(read.configs, element.group))]
  ELSE IF element.key # << >> /\ element.value # << >> THEN StoreValue(read, element)
  ELSE read

-----------------------------------------------------------------------------
(* What values mean.                                                       *)
LOCAL IsNumber(v) == Len(v) = 1 /\ v[1] \in DOMAIN Numbers

ToInt32(v) == IF IsNumber(v) THEN Numbers[v[1]] ELSE 0

ToUint32(v) == IF IsNumber(v) /\ Numbers[v[1]] >= 0 THEN Numbers[v[1]] ELSE 0

ToBool(v) == v \in {<<w>> : w \in {"true", "True", "TRUE"}} \/ ToInt32(v) # 0

SplitAt(s, separator) ==
  LET From[i \in Nat] ==
        LET seps == {j \in i .. Len(s) : s[j] = separator} IN
        IF seps = {} THEN <<Strip(SubSeq(s, i, Len(s)))>>
        ELSE <<Strip(SubSeq(s, i, Min(seps) - 1))>> \o From[Min(seps) + 1]
  IN From[1]

ToList(v, separator) == IF v = NoValue THEN << >> ELSE SplitAt(v, separator)

ToFrac(v) ==
  LET parts == ToList(v, "/")
      denominator == ToUint32(parts[2]) IN
  CASE Len(parts) = 1 -> <<ToUint32(parts[1]), 1>>
    [] Len(parts) = 2 -> IF denominator < 1 THEN <<0, 1>> ELSE <<ToUint32(parts[1]), denominator>>
    [] OTHER -> <<0, 1>>

-----------------------------------------------------------------------------
(* Looking up the value of a key, in a group and, perhaps, for an element
   of an array there.                                                      *)
Settings(configs) == [configs |-> configs, current_group |-> <<"General">>,
                      current_array |-> << >>, array_index |-> 0]

GroupConfigs(s) == MapValue(s.configs, s.current_group)

Value(s, key) ==
  MapValue(GroupConfigs(s),
    IF s.current_array = << >> THEN <<key>>
    ELSE s.current_array \o <<"/", ToString(s.array_index + 1), "/", key>>)

BeginGroup(s, prefix) == [s EXCEPT !.current_group = <<prefix>>]

(* How many elements an array has: of the key prefix/size.                 *)
ArraySize(s, prefix) == ToUint32(MapValue(GroupConfigs(s), <<prefix, "/", "size">>))

(* The array of a group, element i.                                        *)
SetArrayIndex(s, prefix, i) ==
  [s EXCEPT !.current_array = <<prefix>>, !.array_index = i]

-----------------------------------------------------------------------------
(* (wrong: the last element of a row is left out) *)
PushedButOne(frame, row, room) ==
  [i \in 1 .. Min({Len(row) - 1, room}) |->
    [index |-> frame.index + 1, combined |-> Append(frame.combined, row[i])]]

(* The frames an incomplete combination is replaced by: one for each
   element of the next row the stack has room for.                         *)
Pushed(frame, row, room) ==
  [i \in 1 .. Min({Len(row), room}) |->
    [index |-> frame.index + 1, combined |-> Append(frame.combined, row[i])]]

(* All sequences of one element of each row, from a stack: the combination
   of the last elements comes first.                                       *)
Combine(matrix, start) ==
  LET max_frames == Len(matrix) * RowFrames + 1
      From[stack \in Seq([index : Nat, combined : Seq(Seq(STRING))])] ==
        LET frame == Last(stack)
            others == Front(stack) IN
        IF stack = << >> THEN << >>
        ELSE IF frame.index >= Len(matrix) THEN <<frame.combined>> \o From[others]
        ELSE From[others \o Pushed(frame, matrix[frame.index + 1],
                                   max_frames - Len(others))]
  IN From[start]

CombineMatrix(matrix) ==
  IF matrix = << >> THEN << >>
  ELSE Combine(matrix, <<[index |-> 0, combined |-> << >>]>>)

(* The pixel format of that name, and a format that can be used.           *)
FourccFromString(v) == IF Len(v) = 1 /\ v[1] \in SupportedFormats THEN v[1] ELSE "none"

IsValid(f) ==
  /\ f.fourcc \in SupportedFormats
  /\ Format(f.fourcc, f.width, f.height).data_size > 0
  /\ f.rate[1] > 0 /\ f.rate[2] > 0

FormatLists(s) == [i \in 1 .. 4 |-> ToList(Value(s, <<"format", "width", "height", "fps">>[i]), ",")]

FormatOf(combination) ==
  [fourcc |-> FourccFromString(combination[1]), width |-> ToUint32(combination[2]),
   height |-> ToUint32(combination[3]), rate |-> ToFrac(combination[4])]

(* The formats of an element of the configuration, without the impossible. *)
ReadFormat(s) ==
  LET lists == FormatLists(s)
      combined == CombineMatrix(lists) IN
  IF \E i \in 1 .. 4 : lists[i] = << >> THEN << >>
  ELSE SelectSeq([i \in 1 .. Len(combined) |-> FormatOf(combined[i])], IsValid)

ReadFormats(s) ==
  LET group == BeginGroup(s, "Formats") IN
  [i \in 1 .. ArraySize(group, "formats") |->
    ReadFormat(SetArrayIndex(group, "formats", i - 1))]

-----------------------------------------------------------------------------
(* A device: the formats of the elements its list names, one after the
   other, of which a direct device keeps the first.  Elements that are not
   there are passed over.                                                  *)
ReadDeviceFormats(s, available) ==
  LET index == ToList(Value(s, "formats"), ",")
      formats(v) == IF IsNumber(v) /\ Numbers[v[1]] \in DOMAIN available
                      THEN available[Numbers[v[1]]] ELSE << >> IN
  FlattenSeq([i \in 1 .. Len(index) |-> formats(index[i])])

RwModes == <<"rw", "mmap", "userptr", "dmabuf">>

ReadDevice(s, available) ==
  LET listed == {m \in ToSet(RwModes) :
                  \E i \in DOMAIN ToList(Value(s, "mode"), ",") :
                    ToList(Value(s, "mode"), ",")[i] = <<m>>}
      direct == ToBool(Value(s, "direct_mode"))
      all == ReadDeviceFormats(s, available)
      formats == IF direct /\ Len(all) > 1 THEN <<all[1]>> ELSE all IN
  IF Value(s, "description") = NoValue \/ formats = << >> THEN None
  ELSE [description |-> Value(s, "description"),
        type |-> IF Value(s, "type") = <<"output">> THEN "output" ELSE "capture",
        mode |-> IF listed = {} THEN {"mmap", "userptr"} ELSE listed,
        formats |-> formats,
        direct_mode |-> direct,
        num |-> IF Value(s, "videonr") = NoValue THEN -1 ELSE ToInt32(Value(s, "videonr"))]

(* The format a device has until it is given another one.                  *)
DefaultFormat(device) == Head(device.formats)

(* A device that cannot be read is left out, and the others move up.       *)
ReadDevices(s, available) ==
  LET group == BeginGroup(s, "Cameras")
      read == [i \in 1 .. ArraySize(group, "cameras") |->
                ReadDevice(SetArrayIndex(group, "cameras", i - 1), available)] IN
  SelectSeq(read, LAMBDA d : d # None)
=============================================================================
