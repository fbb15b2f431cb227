------------------------------ MODULE FileReader ------------------------------
(***************************************************************************)
(* Reading a file in blocks through a ring buffer (src/src/file_read.c).   *)
(*                                                                         *)
(* The kernel gives what it likes of a block, and its reads may fail:      *)
(* `kernel` is a record [block |-> n, reads |-> m] of an operation that is *)
(* given n bytes by each of m reads and nothing after them.                *)
(***************************************************************************)
LOCAL INSTANCE Integers
LOCAL INSTANCE Sequences
Buffer == INSTANCE RingBuffer

Bound(low, x, high) == IF x < low THEN low ELSE IF x > high THEN high ELSE x

NewFile == [buffer |-> Buffer!NewRing, size |-> 0, bytes_read |-> 0, file_bytes_read |-> 0,
            is_open |-> FALSE]

CloseFile(file) ==
  IF ~file.is_open THEN file
  ELSE [NewFile EXCEPT !.buffer = Buffer!Resize(Buffer!Clear(file.buffer), 0)]

(* (wrong: the file before is not closed) *)
OpenFileAnew(file, content) ==
  [file EXCEPT !.buffer = Buffer!Clear(Buffer!Resize(@, Len(content))),
               !.size = Len(content), !.is_open = TRUE]

OpenFile(file, content) ==
  LET closed == CloseFile(file) IN
  [closed EXCEPT !.buffer = Buffer!Clear(Buffer!Resize(@, Len(content))),
                 !.size = Len(content), !.is_open = TRUE]

Eof(file) == file.bytes_read >= file.size

(* (wrong: what was read ahead is kept) *)
SeekAhead(file, offset, pos) ==
  LET there == Bound(0, offset + (CASE pos = "BEG" -> 0 [] pos = "CUR" -> file.bytes_read
                                    [] pos = "END" -> file.size), file.size) IN
  IF ~file.is_open THEN file
  ELSE [file EXCEPT !.bytes_read = there, !.file_bytes_read = there]

Seek(file, offset, pos) ==
  LET from == CASE pos = "BEG" -> 0 [] pos = "CUR" -> file.bytes_read
                [] pos = "END" -> file.size
      there == Bound(0, from + offset, file.size) IN
  IF ~file.is_open THEN file
  ELSE [file EXCEPT !.buffer = Buffer!Clear(@), !.bytes_read = there, !.file_bytes_read = there]

(* The buffer is filled, a block after the other, until it holds so many
   bytes - or, for 0, a line break -, the file ends or a read gives
   nothing.  It has room for the whole file.                               *)
Fetch(file, content, wanted, kernel) ==
  LET from == file.file_bytes_read
      rest == file.size - from
      breaks == {i \in 1 .. rest : content[from + i] = "\n"}
      missing == CASE wanted > 0 -> wanted - file.buffer.data_size
                   [] wanted = 0 /\ Buffer!Find(file.buffer, "\n") >= 0 -> 0
                   [] OTHER -> IF breaks = {} THEN rest
                               ELSE CHOOSE i \in breaks : \A j \in breaks : i <= j
      blocks == (Buffer!Smaller(missing, rest) + kernel.block - 1) \div kernel.block
      got == Buffer!Smaller(Buffer!Smaller(blocks, kernel.reads) * kernel.block, rest) IN
  IF got <= 0 THEN file
  ELSE [file EXCEPT !.buffer = Buffer!QueueBytes(@, SubSeq(content, from + 1, from + got)),
                    !.file_bytes_read = @ + got]

(* (wrong: what is read is not counted) *)
TakeUncounted(file, n) == [file EXCEPT !.buffer = Buffer!DequeueBytes(@, n)]

Take(file, n) == [file EXCEPT !.buffer = Buffer!DequeueBytes(@, n), !.bytes_read = @ + n]

(* The next n bytes, or fewer.                                             *)
Read(file, content, n, kernel) ==
  LET filled == Fetch(file, content, n, kernel)
      data == Buffer!Dequeued(filled.buffer, n) IN
  [file |-> Take(filled, Len(data)), data |-> data]

(* The bytes before the next line break, which is passed, too, once Fetch
   has looked for one.  Without one the line is all that could be read.    *)
ReadLine(file) ==
  LET new_line == Buffer!Find(file.buffer, "\n")
      rest == file.buffer.data_size IN
  CASE new_line >= 0 ->
         [file |-> Take(file, new_line + 1), data |-> Buffer!Dequeued(file.buffer, new_line)]
    [] new_line < 0 /\ file.bytes_read < file.size ->
         [file |-> Take(file, rest), data |-> Buffer!Dequeued(file.buffer, rest)]
    [] OTHER -> [file |-> file, data |-> << >>]
=============================================================================
