------------------------- MODULE FormatNegotiation --------------------------
(***************************************************************************)
(* How a process and a device settle the format of the frames              *)
(* (src/src/ioctl.c, src/src/format.c) and what becomes of the buffers     *)
(* when they settle it anew (src/src/buffers.c).                           *)
(*                                                                         *)
(* S_FMT and S_PARM run under device_mutex, the ioctls of the queue under  *)
(* buffers_mutex: the two kinds interleave.  A format is stored twice, in  *)
(* the device and in its buffers, one after the other.  One buffer stands  *)
(* for all of them; it has one plane.                                      *)
(*                                                                         *)
(* Arithmetic on sizes is modulo SizeModulus, which stands for 2^64 as     *)
(* sizes below its square root stand for 32 bit values.                    *)
(***************************************************************************)
EXTENDS Integers, Sequences, Functions

CONSTANTS
  FormatLists,  (* the lists of formats the settings may give the device   *)
  Fourccs,      (* pixel formats                                           *)
  Sizes,        (* widths and heights a process may ask for                *)
  Rates,        (* numerators and denominators it may ask for              *)
  BytesPerPixel,(* of each pixel format                                    *)
  SizeModulus

Formats == [fourcc : Fourccs, width : Sizes, height : Sizes,
            fps : [num : Rates, den : Rates]]

(* no odd number but 1 divides it                                          *)
PowerOf2(n) ==
  \A d \in 1 .. n : (\E m \in 1 .. n : n = d * m) => d = 1 \/ d % 2 = 0

(* Words hold the sizes, and double words their squares.  The settings     *)
(* list valid formats only (akvcam_format_is_valid).                       *)
ASSUME FormatNegotiationAssumption ==
  /\ FormatLists \subseteq Seq(Formats) /\ << >> \notin FormatLists
  /\ \A list \in FormatLists :
       \A i \in DOMAIN list : list[i].fps.num > 0 /\ list[i].fps.den > 0
  /\ SizeModulus \in Nat
  /\ \E word \in 2 .. SizeModulus :
       /\ SizeModulus = word * word
       /\ PowerOf2(word)
       /\ Sizes \subseteq 0 .. word - 1
  /\ Rates \subseteq Nat
  /\ BytesPerPixel \in [Fourccs -> Nat]

VARIABLES
  formats,   (* the formats of the device; they never change               *)
  device,    (* the device's format                                        *)
  queue,     (* the format of its buffers                                  *)
  setting,   (* akvcam_device_set_format in progress: "no", "device" (next *)
             (* the device's copy) or "queue" (next the buffers' copy)     *)
  target,    (* the format being set                                       *)
  streaming, (* the clock thread runs                                      *)
  buffer     (* the buffer: its state, the size it was allocated with and  *)
             (* the number of bytes in use                                 *)

vars == <<formats, device, queue, setting, target, streaming, buffer>>

Init ==
  /\ formats \in FormatLists
  /\ device = formats[1]
  /\ queue = formats[1]
  /\ setting = "no"
  /\ target = formats[1]
  /\ streaming = FALSE
  /\ buffer = [state |-> "none", size |-> 0, payload |-> 0]

TypeOK ==
  /\ formats \in FormatLists
  /\ device \in Formats /\ device.fps.num > 0 /\ device.fps.den > 0
  /\ queue \in Formats
  /\ setting \in {"no", "device", "queue"}
  /\ target \in Formats
  /\ streaming \in BOOLEAN
  /\ buffer \in [state : {"none", "dequeued", "queued", "done"}, size : Nat,
                 payload : Nat]

-----------------------------------------------------------------------------
(* Choosing a format.                                                      *)

Square(n) == n * n

(* (wrong: does not look at the pixel format)                              *)
SizeDistance(f, g) ==
  (  Square(f.width - g.width)
   + Square(f.height - g.height)
   + Square(f.fps.num * g.fps.den - g.fps.num * f.fps.den)) % SizeModulus

(* Two different pixel formats are as far apart as two widths one pixel    *)
(* apart; the rates are compared by cross multiplication.                  *)
Distance(f, g) ==
  (  (IF f.fourcc = g.fourcc THEN 0 ELSE 1)
   + Square(f.width - g.width)
   + Square(f.height - g.height)
   + Square(f.fps.num * g.fps.den - g.fps.num * f.fps.den)) % SizeModulus

(* The first of the nearest; one as far away as can be is never found.     *)
IsNearest(i, format) ==
  /\ Distance(formats[i], format) < SizeModulus - 1
  /\ \A j \in DOMAIN formats :
       /\ Distance(formats[i], format) <= Distance(formats[j], format)
       /\ j < i => Distance(formats[i], format) < Distance(formats[j], format)

(* akvcam_format_nearest; << >> stands for NULL                            *)
Nearest(format) ==
  IF \E i \in DOMAIN formats : IsNearest(i, format)
  THEN << formats[CHOOSE i \in DOMAIN formats : IsNearest(i, format)] >>
  ELSE << >>

NoRate == [num |-> 0, den |-> 0]

(* TRY_FMT looks for a size and a pixel format, whatever the rate.         *)
TryFmt(fourcc, width, height) ==
  Nearest([fourcc |-> fourcc, width |-> width, height |-> height,
           fps |-> NoRate])

(* (wrong: takes the rate it searched with)                                *)
ChosenUnrated(found) == [found EXCEPT !.fps = NoRate]

(* S_FMT takes these from the nearest format, and the rate from before.    *)
Chosen(found) == [found EXCEPT !.fps = device.fps]

(* S_PARM takes the interval for a rate, and the whole of the nearest      *)
(* format to the current one with that rate.                               *)
SParmFormat(interval) == Nearest([device EXCEPT !.fps = interval])

(* akvcam_format_frame_rates, as ENUM_FRAMEINTERVALS returns them: swapped *)
Intervals(f) ==
  {[num |-> g.fps.den, den |-> g.fps.num] :
     g \in {h \in Range(formats) : /\ h.fourcc = f.fourcc
                                      /\ h.width = f.width
                                      /\ h.height = f.height}}

-----------------------------------------------------------------------------
(* The ioctls under device_mutex.                                          *)

(* S_FMT up to its first assignment: refused while the clock thread runs   *)
SFmt(fourcc, width, height) ==
  /\ setting = "no"
  /\ ~streaming
  /\ TryFmt(fourcc, width, height) # << >>
  /\ target' = Chosen(TryFmt(fourcc, width, height)[1])
  /\ setting' = "device"
  /\ UNCHANGED <<formats, device, queue, streaming, buffer>>

SParm(interval) ==
  /\ setting = "no"
  /\ ~streaming
  /\ SParmFormat(interval) # << >>
  /\ target' = SParmFormat(interval)[1]
  /\ setting' = "device"
  /\ UNCHANGED <<formats, device, queue, streaming, buffer>>

(* (wrong: forgets the copy in the buffers)                                *)
SetDeviceOnly ==
  /\ setting = "device"
  /\ device' = target
  /\ setting' = "no"
  /\ UNCHANGED <<formats, queue, target, streaming, buffer>>

SetDeviceFormat ==
  /\ setting = "device"
  /\ device' = target
  /\ setting' = "queue"
  /\ UNCHANGED <<formats, queue, target, streaming, buffer>>

SetQueueFormat ==
  /\ setting = "queue"
  /\ queue' = target
  /\ setting' = "no"
  /\ UNCHANGED <<formats, device, target, streaming, buffer>>

-----------------------------------------------------------------------------
(* The ioctls of the queue and the clock thread.                           *)

AlignUp(n) == ((n + 31) \div 32) * 32

(* akvcam_format_private_update_params for one plane: lines are padded     *)
PlaneSize(f) == AlignUp(BytesPerPixel[f.fourcc] * f.width) * f.height

(* (wrong: does not look at the limit)                                     *)
Unlimited(n, limit) == n

AtMost(n, limit) == IF n < limit THEN n ELSE limit

(* REQBUFS: akvcam_buffers_queue_setup gives the size                      *)
ReqBufs ==
  /\ ~streaming
  /\ buffer' = [state |-> "dequeued", size |-> PlaneSize(queue), payload |-> 0]
  /\ UNCHANGED <<formats, device, queue, setting, target, streaming>>

(* QBUF: akvcam_buffers_buffer_prepare refuses a buffer that is too small  *)
QBuf ==
  /\ buffer.state = "dequeued"
  /\ buffer.size >= PlaneSize(queue)
  /\ buffer' = [buffer EXCEPT !.state = "queued", !.payload = PlaneSize(queue)]
  /\ UNCHANGED <<formats, device, queue, setting, target, streaming>>

StreamOn ==
  /\ ~streaming
  /\ buffer.state = "queued"
  /\ streaming' = TRUE
  /\ UNCHANGED <<formats, device, queue, setting, target, buffer>>

StreamOff ==
  /\ streaming' = FALSE
  /\ buffer' = IF buffer.state = "none" THEN buffer
               ELSE [buffer EXCEPT !.state = "dequeued"]
  /\ UNCHANGED <<formats, device, queue, setting, target>>

(* akvcam_buffers_write_frame: as much as the format says and the buffer   *)
(* holds.  akvcam_buffers_read_frame leaves the payload as it is.          *)
CompleteFrame ==
  /\ streaming
  /\ buffer.state = "queued"
  /\ \E writes \in BOOLEAN :
       buffer' = [buffer EXCEPT
         !.state = "done",
         !.payload = IF writes THEN AtMost(PlaneSize(queue), buffer.size)
                     ELSE @]
  /\ UNCHANGED <<formats, device, queue, setting, target, streaming>>

DQBuf ==
  /\ streaming
  /\ buffer.state = "done"
  /\ buffer' = [buffer EXCEPT !.state = "dequeued"]
  /\ UNCHANGED <<formats, device, queue, setting, target, streaming>>

-----------------------------------------------------------------------------
Next ==
  \/ \E fourcc \in Fourccs, width \in Sizes, height \in Sizes :
       SFmt(fourcc, width, height)
  \/ \E num \in Rates, den \in Rates : SParm([num |-> num, den |-> den])
  \/ SetDeviceFormat
  \/ SetQueueFormat
  \/ ReqBufs
  \/ QBuf
  \/ StreamOn
  \/ StreamOff
  \/ CompleteFrame
  \/ DQBuf

Spec == Init /\ [][Next]_vars

-----------------------------------------------------------------------------
(* Properties.                                                             *)

SameSize(f, g) ==
  f.fourcc = g.fourcc /\ f.width = g.width /\ f.height = g.height

(* Whatever a process asks for, in whatever order, the device ends up with *)
(* a pixel format and a size that the settings give it together, and the   *)
(* two copies of the format agree whenever no change is in progress.       *)
SizeIsConfigured ==
  /\ \E f \in Range(formats) : SameSize(device, f)
  /\ setting = "no" => device = queue

(* What ENUM_FMT and ENUM_FRAMESIZES list, TRY_FMT and S_FMT give back     *)
(* unchanged: no other format is as near, and no sum of the differences    *)
(* wraps around to less.                                                   *)
EnumeratedSizesAccepted ==
  \A f \in Range(formats) :
    LET found == TryFmt(f.fourcc, f.width, f.height)
    IN  found # << >> /\ SameSize(found[1], f)

(* A buffer never claims more bytes than it has, though the format may     *)
(* change between its allocation, its queueing and the frame it receives.  *)
PayloadFits == buffer.payload <= buffer.size

(* An interval that ENUM_FRAMEINTERVALS lists for the current format can   *)
(* be set with S_PARM, and setting it leaves the rest of the format alone. *)
EnumeratedIntervalsAccepted ==
  \A interval \in Intervals(device) :
    LET found == SParmFormat(interval)
    IN  /\ found # << >>
        /\ SameSize(found[1], device)
        /\ found[1].fps.num * interval.num = found[1].fps.den * interval.den

=============================================================================
