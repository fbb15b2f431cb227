----------------------------- MODULE FrameRelay -----------------------------
(***************************************************************************)
(* How a frame written to an output device reaches the capture devices     *)
(* connected to it (akvcam_device_clock_run_once and its surroundings in   *)
(* src/src/device.c).                                                      *)
(*                                                                         *)
(* The output's clock thread reads one frame at a time from the output's   *)
(* buffers and replaces the current frame of each connected capture, under *)
(* that capture's frame_mutex.  The clock thread of each capture looks at  *)
(* the thread pointer of the output and at its own current frame, and      *)
(* writes that frame, or a substitute, to its own buffers.  Every device   *)
(* is started and stopped by a process of its own.                         *)
(*                                                                         *)
(* Frames are numbered as they are written.  The buffers of an output are  *)
(* the sequence of frames it has been given (VideoQueue says why they are  *)
(* read in order); those of a capture either take a frame or are exhausted.*)
(* The default frame and the random one are both the Substitute.           *)
(***************************************************************************)
EXTENDS Naturals, Sequences, Functions

CONSTANTS
  Connected,   (* the captures, in the order of connected_devices; none is *)
               (* there twice (ConnectionsSound in Driver)                 *)
  MinQueued,   (* frames an output needs queued before it starts           *)
  MaxFrames,   (* bound: frames ever written                               *)
  MaxQueued    (* buffers of the output                                    *)

Captures   == Range(Connected)
Frames     == 1 .. MaxFrames
NoFrame    == 0
Substitute == MaxFrames + 1

ASSUME FrameRelayAssumption ==
  /\ Connected \in Seq(Captures)
  /\ IsInjective(Connected)
  /\ MinQueued \in Nat \ {0}
  /\ MaxFrames \in Nat
  /\ MaxQueued \in Nat

VARIABLES
  (* the output device                                                     *)
  written,      (* frames written so far                                   *)
  queued,       (* frames in its buffers, oldest first                     *)
  outThread,    (* its clock thread; "none" iff thread is NULL             *)
  outStop,      (* the thread has been asked to stop                       *)
  outFrame,     (* the frame the thread has read                           *)
  outNext,      (* index of the capture it serves next                     *)
  sessionFirst, (* history: first frame of the output's current session    *)
  (* each capture device                                                   *)
  current,      (* current_frame                                           *)
  frameMutex,   (* frame_mutex: held by the output's thread, or free       *)
  capThread,
  capStop,
  capFrame,     (* the frame its thread is about to write                  *)
  clearing,     (* stop_streaming has joined the thread, and goes on       *)
  screen,       (* the last frame written to its buffers                   *)
  received,     (* history: the last frame stored in current               *)
  cleared,      (* history: what was received when current was last deleted*)
  shown         (* history: the last frame of the output on screen         *)

outVars == <<written, queued, outThread, outStop, outFrame, outNext,
             sessionFirst>>
slotVars == <<current, frameMutex, received, cleared>>
capVars == <<capThread, capStop, capFrame, clearing, screen, shown>>
vars == <<outVars, slotVars, capVars>>

TypeOK ==
  /\ written \in 0 .. MaxFrames
  /\ queued \in Seq(Frames)
  /\ Len(queued) <= MaxQueued
  /\ outThread \in {"none", "loop", "publish", "store", "exited"}
  /\ outStop \in BOOLEAN
  /\ outFrame \in Frames \cup {NoFrame}
  /\ outNext \in 1 .. Len(Connected) + 1
  /\ sessionFirst \in Frames \cup {NoFrame}
  /\ current \in [Captures -> Frames \cup {NoFrame}]
  /\ frameMutex \in [Captures -> {"free", "out"}]
  /\ capThread \in [Captures -> {"none", "loop", "write", "exited"}]
  /\ capStop \in [Captures -> BOOLEAN]
  /\ capFrame \in [Captures -> Frames \cup {NoFrame, Substitute}]
  /\ clearing \in [Captures -> BOOLEAN]
  /\ screen \in [Captures -> Frames \cup {NoFrame, Substitute}]
  /\ received \in [Captures -> Frames \cup {NoFrame}]
  /\ cleared \in [Captures -> Frames \cup {NoFrame}]
  /\ shown \in [Captures -> Frames \cup {NoFrame}]

Init ==
  /\ written = 0
  /\ queued = << >>
  /\ outThread = "none"
  /\ outStop = FALSE
  /\ outFrame = NoFrame
  /\ outNext = 1
  /\ sessionFirst = NoFrame
  /\ current = [c \in Captures |-> NoFrame]
  /\ frameMutex = [c \in Captures |-> "free"]
  /\ capThread = [c \in Captures |-> "none"]
  /\ capStop = [c \in Captures |-> FALSE]
  /\ capFrame = [c \in Captures |-> NoFrame]
  /\ clearing = [c \in Captures |-> FALSE]
  /\ screen = [c \in Captures |-> NoFrame]
  /\ received = [c \in Captures |-> NoFrame]
  /\ cleared = [c \in Captures |-> NoFrame]
  /\ shown = [c \in Captures |-> NoFrame]

-----------------------------------------------------------------------------
(* The process that writes to the output.                                  *)

OutputIdle == ~outStop

(* (wrong: more frames than there are buffers)                             *)
WritesUnbounded ==
  /\ OutputIdle
  /\ written < MaxFrames
  /\ written' = written + 1
  /\ queued' = Append(queued, written + 1)
  /\ UNCHANGED <<outThread, outStop, outFrame, outNext, sessionFirst,
                 slotVars, capVars>>

WriteFrame ==
  /\ OutputIdle
  /\ written < MaxFrames
  /\ Len(queued) < MaxQueued
  /\ written' = written + 1
  /\ queued' = Append(queued, written + 1)
  /\ UNCHANGED <<outThread, outStop, outFrame, outNext, sessionFirst,
                 slotVars, capVars>>

StartOutput ==
  /\ OutputIdle
  /\ outThread = "none"
  /\ Len(queued) >= MinQueued
  /\ outThread' = "loop"
  /\ sessionFirst' = Head(queued)
  /\ UNCHANGED <<written, queued, outStop, outFrame, outNext, slotVars,
                 capVars>>

(* akvcam_device_clock_stop up to the wait inside kthread_stop             *)
StopOutput ==
  /\ OutputIdle
  /\ outThread # "none"
  /\ outStop' = TRUE
  /\ UNCHANGED <<written, queued, outThread, outFrame, outNext, sessionFirst,
                 slotVars, capVars>>

(* The thread has exited: the pointer becomes NULL, the device's own       *)
(* current frame is deleted (an output never has one) and the buffers that *)
(* were not read are given back.  The captures are not told.               *)
OutputStopped ==
  /\ outStop
  /\ outThread = "exited"
  /\ outThread' = "none"
  /\ outStop' = FALSE
  /\ queued' = << >>
  /\ UNCHANGED <<written, outFrame, outNext, sessionFirst, slotVars, capVars>>

-----------------------------------------------------------------------------
(* The output's clock thread.                                              *)

(* (wrong: looks at the request to stop only when it has a frame)          *)
ExitsOnFrame ==
  /\ outThread = "loop"
  /\ outStop
  /\ queued # << >>
  /\ outThread' = "exited"
  /\ UNCHANGED <<written, queued, outStop, outFrame, outNext, sessionFirst,
                 slotVars, capVars>>

OutputExits ==
  /\ outThread = "loop"
  /\ outStop
  /\ outThread' = "exited"
  /\ UNCHANGED <<written, queued, outStop, outFrame, outNext, sessionFirst,
                 slotVars, capVars>>

(* (wrong: takes the frame at the other end)                               *)
ReadsNewest ==
  /\ outThread = "loop"
  /\ ~outStop
  /\ queued # << >>
  /\ outFrame' = queued[Len(queued)]
  /\ queued' = SubSeq(queued, 1, Len(queued) - 1)
  /\ outNext' = 1
  /\ outThread' = "publish"
  /\ UNCHANGED <<written, outStop, sessionFirst, slotVars, capVars>>

(* (wrong: goes on in the list of captures where it stopped before)        *)
ReadsUnreset ==
  /\ outThread = "loop"
  /\ ~outStop
  /\ queued # << >>
  /\ outFrame' = Head(queued)
  /\ queued' = Tail(queued)
  /\ outThread' = "publish"
  /\ UNCHANGED <<written, outStop, outNext, sessionFirst, slotVars, capVars>>

(* akvcam_buffers_read_frame finds a frame; finding none, it just sleeps   *)
ReadFrame ==
  /\ outThread = "loop"
  /\ ~outStop
  /\ queued # << >>
  /\ outFrame' = Head(queued)
  /\ queued' = Tail(queued)
  /\ outNext' = 1
  /\ outThread' = "publish"
  /\ UNCHANGED <<written, outStop, sessionFirst, slotVars, capVars>>

(* frame_mutex of the next capture; no signal reaches a kernel thread, so  *)
(* that the interruptible lock always ends in getting the mutex            *)
LockCapture ==
  /\ outThread = "publish"
  /\ outNext <= Len(Connected)
  /\ frameMutex[Connected[outNext]] = "free"
  /\ frameMutex' = [frameMutex EXCEPT ![Connected[outNext]] = "out"]
  /\ outThread' = "store"
  /\ UNCHANGED <<written, queued, outStop, outFrame, outNext, sessionFirst,
                 current, received, cleared, capVars>>

(* the old frame is deleted, a copy of the new one takes its place         *)
StoreFrame ==
  LET c == Connected[outNext]
  IN  /\ outThread = "store"
      /\ current' = [current EXCEPT ![c] = outFrame]
      /\ received' = [received EXCEPT ![c] = outFrame]
      /\ frameMutex' = [frameMutex EXCEPT ![c] = "free"]
      /\ outNext' = outNext + 1
      /\ outThread' = "publish"
      /\ UNCHANGED <<written, queued, outStop, outFrame, sessionFirst, cleared,
                     capVars>>

(* every capture has been served: the frame is deleted, the thread sleeps  *)
PublishDone ==
  /\ outThread = "publish"
  /\ outNext > Len(Connected)
  /\ outFrame' = NoFrame
  /\ outThread' = "loop"
  /\ UNCHANGED <<written, queued, outStop, outNext, sessionFirst, slotVars,
                 capVars>>

-----------------------------------------------------------------------------
(* The process that reads from capture c.                                  *)

CaptureIdle(c) == ~capStop[c] /\ ~clearing[c]

StartCapture(c) ==
  /\ CaptureIdle(c)
  /\ capThread[c] = "none"
  /\ capThread' = [capThread EXCEPT ![c] = "loop"]
  /\ UNCHANGED <<outVars, slotVars, capStop, capFrame, clearing, screen, shown>>

StopCapture(c) ==
  /\ CaptureIdle(c)
  /\ capThread[c] # "none"
  /\ capStop' = [capStop EXCEPT ![c] = TRUE]
  /\ UNCHANGED <<outVars, slotVars, capThread, capFrame, clearing, screen,
                 shown>>

(* akvcam_device_stop_streaming once the thread has exited                 *)
CaptureJoined(c) ==
  /\ capThread[c] = "exited"
  /\ capThread' = [capThread EXCEPT ![c] = "none"]
  /\ capStop' = [capStop EXCEPT ![c] = FALSE]
  /\ clearing' = [clearing EXCEPT ![c] = TRUE]
  /\ UNCHANGED <<outVars, slotVars, capFrame, screen, shown>>

(* (wrong: does so while the thread, asked to stop, may still be at work)  *)
ClearsUnjoined(c) ==
  /\ clearing[c] \/ capStop[c]
  /\ frameMutex[c] = "free"
  /\ current' = [current EXCEPT ![c] = NoFrame]
  /\ cleared' = [cleared EXCEPT ![c] = received[c]]
  /\ clearing' = [clearing EXCEPT ![c] = FALSE]
  /\ UNCHANGED <<outVars, frameMutex, received, capThread, capStop, capFrame,
                 screen, shown>>

(* It deletes the current frame under frame_mutex ...                      *)
ClearFrame(c) ==
  /\ clearing[c]
  /\ frameMutex[c] = "free"
  /\ current' = [current EXCEPT ![c] = NoFrame]
  /\ cleared' = [cleared EXCEPT ![c] = received[c]]
  /\ clearing' = [clearing EXCEPT ![c] = FALSE]
  /\ UNCHANGED <<outVars, frameMutex, received, capThread, capStop, capFrame,
                 screen, shown>>

(* ... or leaves it when a signal interrupts the wait for the mutex.       *)
ClearInterrupted(c) ==
  /\ clearing[c]
  /\ frameMutex[c] = "out"
  /\ clearing' = [clearing EXCEPT ![c] = FALSE]
  /\ UNCHANGED <<outVars, slotVars, capThread, capStop, capFrame, screen,
                 shown>>

-----------------------------------------------------------------------------
(* The clock thread of capture c.                                          *)

CaptureExits(c) ==
  /\ capThread[c] = "loop"
  /\ capStop[c]
  /\ capThread' = [capThread EXCEPT ![c] = "exited"]
  /\ UNCHANGED <<outVars, slotVars, capStop, capFrame, clearing, screen, shown>>

(* (wrong: does not look at the output)                                    *)
SamplesAlways(c) ==
  /\ capThread[c] = "loop"
  /\ ~capStop[c]
  /\ frameMutex[c] = "free"
  /\ capFrame' = [capFrame EXCEPT ![c] =
       IF current[c] # NoFrame THEN current[c] ELSE Substitute]
  /\ capThread' = [capThread EXCEPT ![c] = "write"]
  /\ UNCHANGED <<outVars, slotVars, capStop, clearing, screen, shown>>

(* A copy of the current frame while the output streams, else a substitute *)
SampleFrame(c) ==
  /\ capThread[c] = "loop"
  /\ ~capStop[c]
  /\ frameMutex[c] = "free"
  /\ capFrame' = [capFrame EXCEPT ![c] =
       IF outThread # "none" /\ current[c] # NoFrame
       THEN current[c] ELSE Substitute]
  /\ capThread' = [capThread EXCEPT ![c] = "write"]
  /\ UNCHANGED <<outVars, slotVars, capStop, clearing, screen, shown>>

(* akvcam_buffers_write_frame into a queued buffer                         *)
DeliverFrame(c) ==
  /\ capThread[c] = "write"
  /\ screen' = [screen EXCEPT ![c] = capFrame[c]]
  /\ shown' = [shown EXCEPT ![c] =
       IF capFrame[c] = Substitute THEN @ ELSE capFrame[c]]
  /\ capFrame' = [capFrame EXCEPT ![c] = NoFrame]
  /\ capThread' = [capThread EXCEPT ![c] = "loop"]
  /\ UNCHANGED <<outVars, slotVars, capStop, clearing>>

(* -EAGAIN: the reader has not given a buffer back, the frame is dropped   *)
DropFrame(c) ==
  /\ capThread[c] = "write"
  /\ capFrame' = [capFrame EXCEPT ![c] = NoFrame]
  /\ capThread' = [capThread EXCEPT ![c] = "loop"]
  /\ UNCHANGED <<outVars, slotVars, capStop, clearing, screen, shown>>

-----------------------------------------------------------------------------
OutputClock ==
  OutputExits \/ ReadFrame \/ LockCapture \/ StoreFrame \/ PublishDone

CaptureClock(c) ==
  CaptureExits(c) \/ SampleFrame(c) \/ DeliverFrame(c) \/ DropFrame(c)

Next ==
  \/ WriteFrame
  \/ StartOutput
  \/ StopOutput
  \/ OutputStopped
  \/ OutputExits
  \/ ReadFrame
  \/ LockCapture
  \/ StoreFrame
  \/ PublishDone
  \/ \E c \in Captures : StartCapture(c)
  \/ \E c \in Captures : StopCapture(c)
  \/ \E c \in Captures : CaptureJoined(c)
  \/ \E c \in Captures : ClearFrame(c)
  \/ \E c \in Captures : ClearInterrupted(c)
  \/ \E c \in Captures : CaptureExits(c)
  \/ \E c \in Captures : SampleFrame(c)
  \/ \E c \in Captures : DeliverFrame(c)
  \/ \E c \in Captures : DropFrame(c)

Spec == Init /\ [][Next]_vars

(* The scheduler runs the clock threads, mutexes go to their waiters, and  *)
(* an ioctl that has begun runs on.  A reader that keeps giving buffers    *)
(* back keeps receiving frames: strong fairness of DeliverFrame.           *)
FairSpec ==
  /\ Spec
  /\ WF_vars(OutputExits \/ ReadFrame \/ StoreFrame \/ PublishDone)
  /\ SF_vars(LockCapture)
  /\ WF_vars(OutputStopped)
  /\ \A c \in Captures :
       /\ SF_vars(SampleFrame(c))
       /\ WF_vars(CaptureClock(c))
       /\ SF_vars(DeliverFrame(c))
       /\ WF_vars(CaptureJoined(c))
       /\ SF_vars(ClearFrame(c))

-----------------------------------------------------------------------------
(* Properties.                                                             *)

(* A reader never goes back in time: across drops, sessions of the output  *)
(* and restarts of the capture, the frames of the output it is shown come  *)
(* in the order they were written.                                         *)
NeverBackwards == [][\A c \in Captures : shown'[c] >= shown[c]]_vars

(* One output serves all of its captures: between two frames all of them   *)
(* have been given the same last frame, and within one frame those that    *)
(* come earlier in connected_devices have it and the others do not.        *)
FanOut ==
  /\ outThread \in {"none", "loop", "exited"} =>
       \A c, d \in Captures : received[c] = received[d]
  /\ outThread \in {"publish", "store"} =>
       \A i \in DOMAIN Connected :
         IF i < outNext THEN received[Connected[i]] = outFrame
                        ELSE received[Connected[i]] < outFrame

(* A frame that stop_streaming has deleted does not come back, nor one     *)
(* from before it: the capture's thread has no copy of it any more, the    *)
(* output's thread, that may be on its way to this very capture, brings a  *)
(* newer one, and so whatever a restarted capture has or is about to write *)
(* was stored after the stop.  A stop that is interrupted deletes nothing. *)
ClearedStaysGone ==
  \A c \in Captures : \A f \in {current[c], capFrame[c]} \cap Frames : f > cleared[c]

(* A frame that has been written is shown, or a later one, unless one of   *)
(* the two devices is asked to stop first.                                 *)
Relayed ==
  \A c \in Captures, n \in Frames :
    (n \in Range(queued) /\ outThread # "none" /\ capThread[c] # "none") ~>
      (shown[c] >= n \/ outStop \/ capStop[c])

(* When the output stays off, a capture that stays on ends up showing the  *)
(* substitute, however many frames it was given before.                    *)
FallsBack ==
  \A c \in Captures :
    <>[](outThread = "none" /\ capThread[c] # "none" /\ ~capStop[c]) =>
      <>[](screen[c] = Substitute)

(* Stopping a device returns, whatever the other devices do: a stop waits  *)
(* for a thread that may itself wait for a frame_mutex.                    *)
StopsReturn ==
  /\ outStop ~> ~outStop
  /\ \A c \in Captures : capStop[c] ~> CaptureIdle(c)

(* A capture whose output has just started shows nothing of the session    *)
(* before it: it is not receiving any input yet.                           *)
NoFrameOfEarlierSession ==
  [][\A c \in Captures :
       capFrame'[c] \in Frames /\ capFrame'[c] # capFrame[c] =>
         capFrame'[c] >= sessionFirst]_vars

=============================================================================
