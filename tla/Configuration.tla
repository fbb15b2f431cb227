---------------------------- MODULE Configuration ----------------------------
(***************************************************************************)
(* Where the driver gets its configuration from: the settings file, which  *)
(* it reads line by line when the module is loaded (akvcam_settings_load,  *)
(* src/src/settings.c), the formats and devices it finds there             *)
(* (src/src/driver.c) and the picture it shows while there is no video     *)
(* (src/src/frame.c); and the file reader they use (src/src/file_read.c),  *)
(* by itself with anything a user of it may do.                            *)
(*                                                                         *)
(* The kernel gives blocks of any size, and MaxFailures times a read fails. *)
(***************************************************************************)
EXTENDS Integers, Sequences, FiniteSets, SequencesExt, FiniteSetsExt, Settings
INSTANCE FileReader
INSTANCE Picture

CONSTANTS
  Texts,         \* what files hold that are just read
  Documents,     \* what is written into the settings, see Written
  Bitmaps,       \* pictures, see FileOf
  Blocks,        \* how much a read of the kernel gives
  MaxFailures    \* how many operations the kernel may fail

(* What texts are made of.  The strings of the driver itself are named here
   because no prover knows of a string written down that it is one.        *)
Characters == STRING \cup {"NUL", "General"}

ASSUME ConfigurationConstants ==
  /\ Texts \subseteq Seq(Characters)
  /\ Blocks \subseteq Nat \ {0}
  /\ MaxFailures \in Nat

VARIABLES
  task,        \* what the file is for, and what is in it
  file,        \* the file
  last,        \* the user's last operation, for the properties
  status,      \* what became of the settings or the picture
  read,        \* what has been read of the settings
  available,   \* the formats, an element for each of the configuration
  devices,     \* the devices
  picture,     \* the picture
  failures     \* how many operations the kernel may still fail

vars == <<task, file, last, status, read, available, devices, picture, failures>>

settings == <<read, available, devices>>

NothingRead == [group |-> << >>, configs |-> << >>]
NoOperation == [kind |-> "none", at |-> 0, asked |-> 0, data |-> << >>, whole |-> TRUE]

-----------------------------------------------------------------------------
(***************************************************************************)
(* What somebody wrote.  A document is a sequence of entries and tells     *)
(* whether its last line is ended; an entry is a group or a pair of a key  *)
(* and a value, in one of several styles, or something else.               *)
(***************************************************************************)
Quoted(value) ==
  FlattenSeq([i \in 1 .. Len(value) |->
    CASE value[i] \in {"\"", "\\"} -> <<"\\", value[i]>>
      [] value[i] = "\n" -> <<"\\", "n">>
      [] value[i] = "A" -> <<"\\", "x", "4", "1">>
      [] OTHER -> <<value[i]>>])

LineFor(entry) ==
  CASE entry.kind = "group" -> <<"[", " ">> \o entry.group \o <<"]">>
    [] entry.kind = "pair" /\ entry.style = "plain" -> entry.key \o <<"=">> \o entry.value
    [] entry.kind = "pair" /\ entry.style = "spaced" ->
         <<" ">> \o entry.key \o <<"\t", "=", " ">> \o entry.value \o <<" ", "\r">>
    [] entry.kind = "pair" /\ entry.style = "quoted" ->
         [i \in 1 .. Len(entry.key) |-> IF entry.key[i] = "/" THEN "\\" ELSE entry.key[i]]
           \o <<"=", "\"">> \o Quoted(entry.value) \o <<"\"">>
    [] entry.kind = "comment" -> <<"#", "a", "=">>
    [] entry.kind = "blank" -> << >>
    [] entry.kind = "broken" -> entry.line

Written(document) ==
  FlattenSeq([i \in 1 .. Len(document.entries) |->
    LineFor(document.entries[i]) \o
      (IF i < Len(document.entries) \/ document.ended THEN <<"\n">> ELSE << >>)])

(* What is written is text.                                                *)
ASSUME DocumentsAreTexts == \A d \in Documents : Written(d) \in Seq(Characters)

(* The file of a picture, which the format of bitmaps lets be written in
   many ways: its lines from the bottom or from the top; as indices of the
   colours of a palette or as colours, in lines padded to four bytes; as
   runs or literals of such indices, line by line or with moves that skip
   what is not set.                                                        *)
Unset == <<0, 0, 0, 0>>

ColourIndex(bitmap, colour) ==
  (CHOOSE i \in DOMAIN bitmap.palette : bitmap.palette[i] = colour) - 1

RowOf(bitmap, y) ==
  [x \in 1 .. bitmap.width |->
    bitmap.picture[<<x - 1, IF bitmap.top_down THEN y ELSE bitmap.height - y - 1>>]]

Padded(bytes) == bytes \o [i \in 1 .. (4 - (Len(bytes) % 4)) % 4 |-> 9]

RunsOf(bitmap, row) ==
  LET Length(x) == Max({n \in 1 .. Len(row) - x + 1 :
                         \A i \in x .. x + n - 1 : row[i] = row[x]}) IN
  FlattenSeq([x \in 1 .. Len(row) |->
    IF x > 1 /\ row[x] = row[x - 1] THEN << >>
    ELSE <<Length(x), ColourIndex(bitmap, row[x])>>])

EndOfLine == <<0, 0>>
EndOfBitmap == <<0, 1>>

Bytes(bitmap, y) ==
  LET row == RowOf(bitmap, y)
      index == [x \in 1 .. bitmap.width |-> ColourIndex(bitmap, row[x])]
      end == IF y < bitmap.height - 1 THEN EndOfLine ELSE EndOfBitmap IN
  CASE bitmap.form = "indexed" -> Padded(index)
    [] bitmap.form = "runs" -> RunsOf(bitmap, row) \o end
    [] bitmap.form = "ended runs" ->
         RunsOf(bitmap, row) \o EndOfLine \o (IF end = EndOfLine THEN << >> ELSE end)
    [] bitmap.form = "literals" ->
         <<0, bitmap.width>> \o index \o [i \in 1 .. bitmap.width % 2 |-> 9] \o end
    [] bitmap.form = "colours" ->
         Padded(FlattenSeq([x \in 1 .. bitmap.width |-> <<row[x][4], row[x][3], row[x][2]>>]))
    [] bitmap.form = "alpha" ->
         FlattenSeq([x \in 1 .. bitmap.width |-> <<row[x][4], row[x][3], row[x][2], row[x][1]>>])

(* From a column and a line to the next pixel to be set.                   *)
MoveTo(from, to) ==
  CASE to = from -> << >>
    [] to # from /\ to[1] >= from[1] -> <<0, 2, to[1] - from[1], to[2] - from[2]>>
    [] to[1] < from[1] ->
         FlattenSeq([i \in 1 .. to[2] - from[2] |-> EndOfLine])
           \o (IF to[1] > 0 THEN <<0, 2, to[1], 0>> ELSE << >>)

SkippingBytes(bitmap) ==
  LET pixel(p) == RowOf(bitmap, p[2])[p[1] + 1]
      set == {p \in (0 .. bitmap.width - 1) \X (0 .. bitmap.height - 1) : pixel(p) # Unset}
      places == SetToSortSeq(set, LAMBDA p, q : p[2] < q[2] \/ (p[2] = q[2] /\ p[1] < q[1]))
      from(i) == IF i = 1 THEN <<0, 0>> ELSE <<places[i - 1][1] + 1, places[i - 1][2]>> IN
  FlattenSeq([i \in 1 .. Len(places) |->
      MoveTo(from(i), places[i]) \o <<1, ColourIndex(bitmap, pixel(places[i]))>>])
    \o EndOfBitmap

IsRle8(bitmap) == bitmap.form \in {"runs", "ended runs", "literals", "skips"}

FileOf(bitmap) ==
  LET palette == IF bitmap.form \in {"colours", "alpha"} THEN << >> ELSE bitmap.palette IN
  <<[signed |-> TRUE, width |-> bitmap.width,
     height |-> IF bitmap.top_down THEN -bitmap.height ELSE bitmap.height,
     off_bits |-> 1 + 4 * Len(palette),
     bit_count |-> CASE bitmap.form = "colours" -> 24 [] bitmap.form = "alpha" -> 32
                     [] OTHER -> 8,
     compression |-> IF IsRle8(bitmap) THEN 1 ELSE 0]>>
    \o FlattenSeq([i \in 1 .. Len(palette) |->
                    <<palette[i][4], palette[i][3], palette[i][2], 0>>])
    \o (IF bitmap.form = "skips" THEN SkippingBytes(bitmap)
        ELSE FlattenSeq([y \in 1 .. bitmap.height |-> Bytes(bitmap, y - 1)]))

-----------------------------------------------------------------------------
Init ==
  /\ task \in [what : {"read"}, content : Texts, block : Blocks]
        \cup {[what |-> "settings", document |-> d, content |-> Written(d), block |-> b] :
               d \in Documents, b \in Blocks}
        \cup {[what |-> "picture", bitmap |-> p, block |-> b,
               content |-> LET f == FileOf(p) IN SubSeq(f, 1, Len(f) - p.missing)] :
               p \in Bitmaps, b \in Blocks}
  /\ file = NewFile
  /\ last = NoOperation
  /\ status = "none"
  /\ read = NothingRead
  /\ available = << >> /\ devices = << >>
  /\ picture = NoPicture
  /\ failures = MaxFailures

(* What the kernel does while an operation reads: all of its reads give a
   block, or there is one, of the first ones, that gives nothing.          *)
Kernels == [block : {task.block}, reads : {file.size} \cup 0 .. Min({2, file.size})]

Kernel(kernel) ==
  /\ kernel.reads < file.size => failures > 0
  /\ failures' = IF kernel.reads < file.size THEN failures - 1 ELSE failures

(***************************************************************************)
(* A user of the reader does what he likes.                                *)
(***************************************************************************)
Open ==
  /\ task.what = "read"
  /\ file' = OpenFile(file, task.content)
  /\ last' = NoOperation
  /\ UNCHANGED <<task, status, settings, picture, failures>>

Close ==
  /\ task.what = "read"
  /\ file' = CloseFile(file)
  /\ last' = NoOperation
  /\ UNCHANGED <<task, status, settings, picture, failures>>

SeekTo(offset, pos) ==
  /\ task.what = "read"
  /\ file' = Seek(file, offset, pos)
  /\ last' = NoOperation
  /\ UNCHANGED <<task, status, settings, picture, failures>>

ReadBytes(n, kernel) ==
  LET r == Read(file, task.content, n, kernel) IN
  /\ task.what = "read"
  /\ Kernel(kernel)
  /\ file' = r.file
  /\ last' = [kind |-> "bytes", at |-> file.bytes_read, asked |-> n, data |-> r.data,
              whole |-> kernel.reads = file.size]
  /\ UNCHANGED <<task, status, settings, picture>>

ReadOneLine(kernel) ==
  LET line == ReadLine(Fetch(file, task.content, 0, kernel)) IN
  /\ task.what = "read"
  /\ Kernel(kernel)
  /\ file' = line.file
  /\ last' = [kind |-> "line", at |-> file.bytes_read, asked |-> 0, data |-> line.data,
              whole |-> kernel.reads = file.size]
  /\ UNCHANGED <<task, status, settings, picture>>

User ==
  \/ Open \/ Close
  \/ \E offset \in {-1, 1}, pos \in {"BEG", "CUR", "END"} : SeekTo(offset, pos)
  \/ \E kernel \in Kernels :
       \/ \E n \in 1 .. 2 : ReadBytes(n, kernel)
       \/ ReadOneLine(kernel)

(***************************************************************************)
(* The driver reads its settings.                                          *)
(***************************************************************************)
OpenSettings ==
  /\ task.what = "settings" /\ status = "none"
  /\ file' = OpenFile(file, task.content)
  /\ status' = "loading"
  /\ UNCHANGED <<task, last, settings, picture, failures>>

LoadLine(kernel) ==
  /\ status = "loading" /\ ~Eof(file)
  /\ Kernel(kernel)
  /\ \E filled \in {Fetch(file, task.content, 0, kernel)} :
     \E line \in {ReadLine(filled)} :
     \E element \in {Parse(line.data)} :
       /\ file' = IF element.malformed THEN CloseFile(line.file) ELSE line.file
       /\ status' = IF element.malformed THEN "refused" ELSE "loading"
       /\ read' = IF element.malformed THEN NothingRead ELSE Store(read, element)
  /\ UNCHANGED <<task, last, available, devices, picture>>

LoadDone ==
  /\ status = "loading" /\ Eof(file)
  /\ file' = CloseFile(file)
  /\ status' = "loaded"
  /\ UNCHANGED <<task, last, settings, picture, failures>>

(* The devices of the configuration; if it could not be read, there are none. *)
ReadConfiguration ==
  /\ status \in {"loaded", "refused"} /\ task.what = "settings"
  /\ IF status = "loaded"
       THEN /\ available' = ReadFormats(Settings(read.configs))
            /\ devices' = ReadDevices(Settings(read.configs), available')
       ELSE UNCHANGED <<available, devices>>
  /\ status' = "configured"
  /\ UNCHANGED <<task, file, last, read, picture, failures>>

(* The picture is loaded.  The junk is what was on the stack.              *)
LoadPicture(junk) ==
  /\ task.what = "picture" /\ status = "none"
  /\ picture' = Load(task.content, [junk |-> junk, kernel |->
                [block |-> task.block, reads |-> Len(task.content)]])
  /\ status' = "loaded"
  /\ UNCHANGED <<task, file, last, settings, failures>>

LoadSettings == LoadDone \/ \E kernel \in Kernels : LoadLine(kernel)

Driver ==
  \/ OpenSettings
  \/ LoadSettings
  \/ ReadConfiguration
  \/ \E junk \in {0, 7} : LoadPicture(junk)

Next == User \/ Driver

(* Whoever loads the module is a thread that runs.                         *)
Fairness == WF_vars(LoadSettings)

Spec == Init /\ [][Next]_vars /\ Fairness

-----------------------------------------------------------------------------
TypeOK ==
  /\ task.what \in {"read", "settings", "picture"}
  /\ file.bytes_read \in 0 .. file.size
  /\ file.bytes_read + file.buffer.data_size = file.file_bytes_read
  /\ file.file_bytes_read \in 0 .. file.size
  /\ file.buffer.size = file.size
  /\ file.is_open => file.size = Len(task.content)
  /\ status \in {"none", "loading", "loaded", "refused", "configured"}
  /\ DOMAIN read.configs \subseteq Seq(Characters) \ {<< >>}
  /\ failures \in 0 .. MaxFailures

(***************************************************************************)
(* Whatever has been read, sought, reopened or has failed before, through  *)
(* a buffer that reads ahead: what an operation returns is what stands in  *)
(* the file at the position it began at.  Unless a read fails, it is all   *)
(* that was asked for and the file has, or the line up to its end, and no  *)
(* line contains a line break.                                             *)
(***************************************************************************)
ReadsContent ==
  LET from == SubSeq(task.content, last.at + 1, Len(task.content))
      rest == IF file.is_open THEN from ELSE << >>
      end == {i \in DOMAIN rest : rest[i] = "\n"} IN
  /\ IsPrefix(last.data, rest)
  /\ last.kind = "bytes" /\ last.whole =>
       Len(last.data) = Min({last.asked, Len(rest)})
  /\ last.kind = "line" => "\n" \notin ToSet(last.data)
  /\ last.kind = "line" /\ last.whole =>
       last.data = IF end = {} THEN rest ELSE SubSeq(rest, 1, Min(end) - 1)

(* What the entries of a document mean: the last value that is not empty
   of each key of each group.                                              *)
GroupAt(entries, i) ==
  LET headers == {j \in 1 .. i : entries[j].kind = "group"} IN
  IF headers = {} THEN <<"General">> ELSE entries[Max(headers)].group

Meaning(entries) ==
  LET pairs == {i \in DOMAIN entries : entries[i].kind = "pair" /\ entries[i].value # << >>}
      headers == {i \in DOMAIN entries : entries[i].kind = "group"}
      Of(g) == {i \in pairs : GroupAt(entries, i) = g} IN
  [g \in {GroupAt(entries, i) : i \in pairs \cup headers} |->
    [k \in {entries[i].key : i \in Of(g)} |->
      entries[Max({i \in Of(g) : entries[i].key = k})].value]]

Malformed(entries) == \E i \in DOMAIN entries : entries[i].kind = "broken"

(***************************************************************************)
(* However a document is written - with groups that come back, values that *)
(* are replaced, spaces, quotes, escapes, comments and no line break at    *)
(* its end - and wherever the blocks end in which it is read: unless reads *)
(* fail, the settings are what it means, or nothing if a line of it is     *)
(* malformed.                                                              *)
(***************************************************************************)
SettingsAreRead ==
  task.what = "settings" /\ failures = MaxFailures /\ status \in {"loaded", "refused", "configured"} =>
    /\ status = "refused" => Malformed(task.document.entries)
    /\ read.configs = IF Malformed(task.document.entries) THEN << >>
                      ELSE Meaning(task.document.entries)

(* All combinations of the elements of four lists, in the order in which
   config_example.ini lists them: those with the first elements first.     *)
Combinations(lists) ==
  LET n(i) == Len(lists[i])
      all == n(1) * n(2) * n(3) * n(4)
      At(m) == <<lists[1][(m \div (n(2) * n(3) * n(4))) + 1],
                 lists[2][((m \div (n(3) * n(4))) % n(2)) + 1],
                 lists[3][((m \div n(4)) % n(3)) + 1],
                 lists[4][(m % n(4)) + 1]>> IN
  [i \in 1 .. all |-> At(i - 1)]

(* The lists of element i of the configuration, and the formats that they
   define.                                                                 *)
Listed(i) ==
  FormatLists(SetArrayIndex(BeginGroup(Settings(read.configs), "Formats"), "formats", i - 1))

Defined(i) ==
  LET all == Combinations(Listed(i)) IN
  SelectSeq([j \in 1 .. Len(all) |-> FormatOf(all[j])], IsValid)

(***************************************************************************)
(* For each element of the configuration the formats are all combinations  *)
(* of its lists that can be used, each as often as it can be combined; if  *)
(* the stack is too small for that some of them are missing.  Devices have *)
(* at least one format, direct devices exactly one, and all of them are    *)
(* formats of the configuration.  The order, in which the code and the     *)
(* documentation differ, is left to FirstDefinedIsDefault.                 *)
(***************************************************************************)
FormatsAreCombined ==
  LET depth(i) == Len(Listed(i)[1]) + Len(Listed(i)[2]) + Len(Listed(i)[3])
                    + Len(Listed(i)[4]) - 3
      AllOf(i) == ToSet(available[i]) IN
  status = "configured" =>
    /\ \A i \in DOMAIN available :
         /\ AllOf(i) \subseteq ToSet(Defined(i))
         /\ depth(i) <= 4 * RowFrames + 1 => ToBag(available[i]) = ToBag(Defined(i))
    /\ \A d \in ToSet(devices) :
         /\ d.formats # << >> /\ (d.direct_mode => Len(d.formats) = 1)
         /\ ToSet(d.formats) \subseteq UNION {AllOf(i) : i \in DOMAIN available}

(***************************************************************************)
(* The format a device starts with is the one that an element of the       *)
(* configuration defines first: config_example.ini calls it the default    *)
(* frame format, and shows in which order lists are combined.              *)
(***************************************************************************)
FirstDefinedIsDefault ==
  status = "configured" =>
    \A d \in ToSet(devices) : \E i \in DOMAIN available :
      Defined(i) # << >> /\ DefaultFormat(d) = Head(Defined(i))

(* If reads fail only so often, loading the settings ends: they are read to
   the end or refused.                                                     *)
LoadingEnds == status = "loading" ~> status \in {"loaded", "refused"}

(***************************************************************************)
(* A complete picture is shown as it is in its file, whatever the palette, *)
(* the order of its lines and where blocks end: one of 8 bits in padded    *)
(* lines of indices, or in runs, literals and moves; one of 32 bits; and   *)
(* one of 24 bits if its lines need no padding.  Runs that break off are   *)
(* refused.  So are those that end the last line as a line too, unless the *)
(* picture is stored from the top, where nothing limits the line.          *)
(***************************************************************************)
PictureIsLoaded ==
  LET bitmap == task.bitmap
      needs_padding == bitmap.form = "colours" /\ bitmap.width % 4 # 0
      ends_beyond == bitmap.form = "ended runs" /\ ~bitmap.top_down
      refused == ends_beyond \/ (bitmap.missing > 0 /\ IsRle8(bitmap)) IN
  task.what = "picture" /\ status = "loaded" =>
    /\ refused => picture = NoPicture
    /\ ~refused /\ bitmap.missing = 0 /\ ~needs_padding => picture = bitmap.picture

(* The bitmaps config_example.ini calls supported, of 24 and 32 bits for a *)
(* pixel, are shown as they are in their files, whatever their width.      *)
SupportedPicturesLoad ==
  (/\ task.what = "picture" /\ status = "loaded"
   /\ task.bitmap.form \in {"colours", "alpha"} /\ task.bitmap.missing = 0) =>
  picture = task.bitmap.picture

(* And they are the only ones that are shown.                              *)
OnlySupportedDepths ==
  task.what = "picture" /\ picture # NoPicture => task.content[1].bit_count \in {24, 32}
=============================================================================
