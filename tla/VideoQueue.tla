----------------------------- MODULE VideoQueue -----------------------------
(***************************************************************************)
(* The buffer queue of ONE akvcam device (src/src/buffers.c) with the      *)
(* clock thread that serves it (src/src/device.c) and the part of the      *)
(* kernel's videobuf2 that drives both.                                    *)
(*                                                                         *)
(* Two actors meet here.  The process that streams runs one ioctl at a     *)
(* time, because videobuf2 takes the queue's lock (buffers_mutex) around   *)
(* each of them.  The clock thread, started and stopped from inside those  *)
(* ioctls, takes buffers from the driver's list and completes them.  They  *)
(* share the list under frames_mutex and the thread pointer.               *)
(*                                                                         *)
(* Read and write are one model: akvcam_buffers_read_frame (output) and    *)
(* akvcam_buffers_write_frame (capture) take, number and complete a buffer *)
(* in the same way and differ in the direction of the copy only.           *)
(*                                                                         *)
(* What videobuf2 does (the states of a buffer, the list of the queued     *)
(* ones, the list of the completed ones, the two streaming flags) is       *)
(* external: it is modelled as far as buffers.c depends on it.             *)
(***************************************************************************)
EXTENDS Naturals, Sequences, FiniteSets, Functions

CONSTANTS
  Buffers,       (* buffers a process may ever request                     *)
  MinQueued,     (* AKVCAM_BUFFERS_MIN: videobuf2 starts at this many      *)
  SeqModulus,    (* the frame counter is unsigned and wraps here           *)
  StartMayFail,  (* may kthread_run fail (no memory, a fatal signal)?      *)
  NoBuffer

ASSUME VideoQueueAssumption ==
  /\ NoBuffer \notin Buffers
  /\ MinQueued \in Nat \ {0}
  /\ SeqModulus \in Nat \ {0}
  /\ StartMayFail \in BOOLEAN

VARIABLES
  vb,           (* videobuf2's state of every buffer                        *)
  waiting,      (* queued, and not handed to the driver yet, in order       *)
  doneList,     (* completed, and not collected yet, in order               *)
  streaming,    (* STREAMON succeeded, STREAMOFF has not come               *)
  startCalled,  (* start_streaming succeeded, stop_streaming not finished   *)
  seqOf,        (* vb.sequence, written when a buffer is taken              *)
  ioctl,        (* where the ioctl that holds buffers_mutex stands          *)
  buffers,      (* self->buffers, the driver's list                         *)
  framesMutex,  (* frames_mutex: held by the clock thread, or free          *)
  sequence,     (* self->sequence                                           *)
  thread,       (* the clock thread; "none" iff self->thread is NULL        *)
  shouldStop,   (* kthread_should_stop()                                    *)
  held          (* the buffer the thread took and has not completed         *)

vb2Vars    == <<vb, waiting, doneList, streaming, startCalled>>
listVars   == <<buffers, framesMutex, sequence, seqOf, held>>
threadVars == <<thread, shouldStop>>
vars       == <<vb2Vars, listVars, threadVars, ioctl>>

VbStates     == {"FREE", "DEQUEUED", "QUEUED", "ACTIVE", "DONE", "ERROR"}
ThreadStates == {"none", "loop", "locked", "copy", "sleep", "exited"}
IoctlStates  == {"idle", "handover", "joining", "cancelling"}

TypeOK ==
  /\ vb \in [Buffers -> VbStates]
  /\ waiting \in Seq(Buffers)
  /\ doneList \in Seq(Buffers)
  /\ streaming \in BOOLEAN
  /\ startCalled \in BOOLEAN
  /\ seqOf \in [Buffers -> 0 .. SeqModulus - 1]
  /\ ioctl \in IoctlStates
  /\ buffers \in Seq(Buffers)
  /\ framesMutex \in {"free", "clock"}
  /\ sequence \in 0 .. SeqModulus - 1
  /\ thread \in ThreadStates
  /\ shouldStop \in BOOLEAN
  /\ held \in Buffers \cup {NoBuffer}

Init ==
  /\ vb = [b \in Buffers |-> "FREE"]
  /\ waiting = << >>
  /\ doneList = << >>
  /\ streaming = FALSE
  /\ startCalled = FALSE
  /\ seqOf = [b \in Buffers |-> 0]
  /\ ioctl = "idle"
  /\ buffers = << >>
  /\ framesMutex = "free"
  /\ sequence = 0
  /\ thread = "none"
  /\ shouldStop = FALSE
  /\ held = NoBuffer

-----------------------------------------------------------------------------
(* Helpers.                                                                *)

Linked(b) == \E i \in DOMAIN buffers : buffers[i] = b

(* vb after every buffer of s went to state st *)
Moved(s, st) == [b \in Buffers |-> IF b \in Range(s) THEN st ELSE vb[b]]

(* (wrong: list_add, which inserts at the head)                            *)
AddHead(list, s) == [i \in DOMAIN s |-> s[Len(s) + 1 - i]] \o list

(* list_add_tail on the driver's list of each element of s in turn.  An    *)
(* entry that is linked already (left behind by a start that failed) is    *)
(* not moved: its next pointer is redirected to the head, so that whatever *)
(* followed it can no longer be reached from there.  Of the entries linked *)
(* before, the first in the list is the last one that cuts it.             *)
AddTail(list, s) ==
  LET again == {i \in DOMAIN list : list[i] \in Range(s)}
      first == CHOOSE i \in again : \A j \in again : i <= j
      cut   == CHOOSE i \in DOMAIN s : s[i] = list[first]
  IN  IF again = {}
      THEN list \o s
      ELSE SubSeq(list, 1, first) \o SubSeq(s, cut + 1, Len(s))

(* vb2_start_streaming: every buffer queued so far goes to the driver, the *)
(* counter is reset and akvcam_device_clock_start runs the thread.  Its    *)
(* leading akvcam_device_clock_stop finds no thread.                       *)
StartStreaming(queued) ==
  /\ vb' = Moved(queued, "ACTIVE")
  /\ waiting' = << >>
  /\ buffers' = AddTail(buffers, queued)
  /\ sequence' = 0
  /\ startCalled' = TRUE
  /\ thread' = "loop"
  /\ shouldStop' = FALSE
  /\ UNCHANGED <<doneList, seqOf, framesMutex, held, ioctl>>

(* The same when kthread_run fails.  The driver keeps its list; videobuf2  *)
(* takes the buffers back as queued.                                       *)
StartFails(queued) ==
  /\ StartMayFail
  /\ buffers' = AddTail(buffers, queued)
  /\ sequence' = 0
  /\ UNCHANGED <<doneList, streaming, startCalled, seqOf, framesMutex, held,
                 thread, shouldStop, ioctl>>

-----------------------------------------------------------------------------
(* The streaming process.                                                  *)

(* REQBUFS with a count: only when not streaming; frees what there is,     *)
(* videobuf2 raises the count to what the queue needs.                     *)
ReqBufs(S) ==
  /\ ioctl = "idle"
  /\ ~streaming
  /\ S = {} \/ Cardinality(S) >= MinQueued
  /\ vb' = [b \in Buffers |-> IF b \in S THEN "DEQUEUED" ELSE "FREE"]
  /\ waiting' = << >>
  /\ doneList' = << >>
  /\ UNCHANGED <<streaming, startCalled, listVars, threadVars, ioctl>>

(* QBUF before the stream has been started, and not enough to start it     *)
QBufWaits(b) ==
  /\ ioctl = "idle"
  /\ vb[b] = "DEQUEUED"
  /\ ~startCalled
  /\ ~streaming \/ Len(waiting) + 1 < MinQueued
  /\ vb' = [vb EXCEPT ![b] = "QUEUED"]
  /\ waiting' = Append(waiting, b)
  /\ UNCHANGED <<doneList, streaming, startCalled, listVars, threadVars, ioctl>>

(* QBUF that completes the minimum after an early STREAMON                 *)
QBufStarts(b) ==
  /\ ioctl = "idle"
  /\ vb[b] = "DEQUEUED"
  /\ ~startCalled
  /\ streaming
  /\ Len(waiting) + 1 >= MinQueued
  /\ \/ StartStreaming(Append(waiting, b)) /\ UNCHANGED streaming
     \/ StartFails(Append(waiting, b)) /\ UNCHANGED <<vb, waiting>>

(* QBUF while the thread runs, up to the wait for frames_mutex             *)
QBufRunning(b) ==
  /\ ioctl = "idle"
  /\ vb[b] = "DEQUEUED"
  /\ startCalled
  /\ vb' = [vb EXCEPT ![b] = "QUEUED"]
  /\ waiting' = << b >>
  /\ ioctl' = "handover"
  /\ UNCHANGED <<doneList, streaming, startCalled, listVars, threadVars>>

(* akvcam_buffers_buffer_queue with the mutex                              *)
BufferQueue ==
  /\ ioctl = "handover"
  /\ framesMutex = "free"
  /\ vb' = [vb EXCEPT ![Head(waiting)] = "ACTIVE"]
  /\ buffers' = AddTail(buffers, waiting)
  /\ waiting' = << >>
  /\ ioctl' = "idle"
  /\ UNCHANGED <<doneList, streaming, startCalled, seqOf, framesMutex,
                 sequence, held, threadVars>>

(* (wrong: goes on to link the buffer it has just completed)               *)
InterruptedGoesOn ==
  /\ ioctl = "handover"
  /\ framesMutex = "clock"
  /\ vb' = [vb EXCEPT ![Head(waiting)] = "ERROR"]
  /\ doneList' = Append(doneList, Head(waiting))
  /\ buffers' = AddTail(buffers, waiting)
  /\ waiting' = << >>
  /\ ioctl' = "idle"
  /\ UNCHANGED <<streaming, startCalled, seqOf, framesMutex, sequence, held,
                 threadVars>>

(* akvcam_buffers_buffer_queue when a signal ends the wait for the mutex   *)
BufferQueueInterrupted ==
  /\ ioctl = "handover"
  /\ framesMutex = "clock"
  /\ vb' = [vb EXCEPT ![Head(waiting)] = "ERROR"]
  /\ doneList' = Append(doneList, Head(waiting))
  /\ waiting' = << >>
  /\ ioctl' = "idle"
  /\ UNCHANGED <<streaming, startCalled, listVars, threadVars>>

(* DQBUF: the oldest completed buffer                                      *)
DQBuf ==
  /\ ioctl = "idle"
  /\ streaming
  /\ doneList # << >>
  /\ vb' = [vb EXCEPT ![Head(doneList)] = "DEQUEUED"]
  /\ doneList' = Tail(doneList)
  /\ UNCHANGED <<waiting, streaming, startCalled, listVars, threadVars, ioctl>>

(* STREAMON: starts the stream only when enough buffers are queued         *)
StreamOn ==
  /\ ioctl = "idle"
  /\ ~streaming
  /\ Cardinality({b \in Buffers : vb[b] # "FREE"}) >= MinQueued
  /\ \/ /\ Len(waiting) < MinQueued
        /\ streaming' = TRUE
        /\ UNCHANGED <<vb, waiting, doneList, startCalled, listVars,
                       threadVars, ioctl>>
     \/ /\ Len(waiting) >= MinQueued
        /\ StartStreaming(waiting)
        /\ streaming' = TRUE
     \/ /\ Len(waiting) >= MinQueued
        /\ StartFails(waiting)
        /\ UNCHANGED <<vb, waiting>>

(* STREAMOFF of a queue that was never started: videobuf2 only             *)
StreamOffIdle ==
  /\ ioctl = "idle"
  /\ ~startCalled
  /\ ioctl' = "cancelling"
  /\ UNCHANGED <<vb2Vars, listVars, threadVars>>

(* (wrong: waits for a thread it has not asked to stop)                    *)
StreamOffUnasked ==
  /\ ioctl = "idle"
  /\ startCalled
  /\ ioctl' = "joining"
  /\ UNCHANGED <<vb2Vars, listVars, threadVars>>

(* STREAMOFF of a running one: kthread_stop asks the thread to stop, wakes *)
(* it and waits for it, buffers_mutex and clock_mutex held                 *)
StreamOffRunning ==
  /\ ioctl = "idle"
  /\ startCalled
  /\ shouldStop' = TRUE
  /\ ioctl' = "joining"
  /\ UNCHANGED <<vb2Vars, listVars, thread>>

(* (wrong: does not give the listed buffers back)                          *)
StopKeepsBuffers ==
  /\ ioctl = "joining"
  /\ thread = "exited"
  /\ thread' = "none"
  /\ ioctl' = "cancelling"
  /\ UNCHANGED <<vb2Vars, listVars, shouldStop>>

(* The rest of akvcam_buffers_stop_streaming once the thread has exited:   *)
(* every buffer still listed goes back with an error.                      *)
StopStreaming ==
  /\ ioctl = "joining"
  /\ thread = "exited"
  /\ thread' = "none"
  /\ vb' = Moved(buffers, "ERROR")
  /\ doneList' = doneList \o buffers
  /\ buffers' = << >>
  /\ ioctl' = "cancelling"
  /\ UNCHANGED <<waiting, streaming, startCalled, framesMutex, sequence,
                 seqOf, held, shouldStop>>

(* The rest of videobuf2's queue cancel: everything returns to the process *)
CancelQueue ==
  /\ ioctl = "cancelling"
  /\ vb' = [b \in Buffers |-> IF vb[b] = "FREE" THEN "FREE" ELSE "DEQUEUED"]
  /\ waiting' = << >>
  /\ doneList' = << >>
  /\ streaming' = FALSE
  /\ startCalled' = FALSE
  /\ ioctl' = "idle"
  /\ UNCHANGED <<listVars, threadVars>>

-----------------------------------------------------------------------------
(* The clock thread.                                                       *)

(* akvcam_device_clock_timeout's loop condition                            *)
ClockExit ==
  /\ thread = "loop"
  /\ shouldStop
  /\ thread' = "exited"
  /\ UNCHANGED <<vb2Vars, listVars, shouldStop, ioctl>>

(* read_frame or write_frame enters its critical section                   *)
ClockLock ==
  /\ thread = "loop"
  /\ ~shouldStop
  /\ framesMutex = "free"
  /\ framesMutex' = "clock"
  /\ thread' = "locked"
  /\ UNCHANGED <<vb2Vars, buffers, sequence, seqOf, held, shouldStop, ioctl>>

(* (wrong: counts a frame that no buffer took)                             *)
CountsNone ==
  /\ thread = "locked"
  /\ buffers = << >>
  /\ sequence' = IF sequence + 1 = SeqModulus THEN 0 ELSE sequence + 1
  /\ framesMutex' = "free"
  /\ thread' = "sleep"
  /\ UNCHANGED <<vb2Vars, buffers, seqOf, held, shouldStop, ioctl>>

(* (wrong: the thread gives up when it finds no buffer)                    *)
EndsOnNone ==
  /\ thread = "locked"
  /\ buffers = << >>
  /\ framesMutex' = "free"
  /\ thread' = "exited"
  /\ UNCHANGED <<vb2Vars, buffers, sequence, seqOf, held, shouldStop, ioctl>>

(* no buffer: NULL for a read, -EAGAIN for a write                         *)
ClockFindsNone ==
  /\ thread = "locked"
  /\ buffers = << >>
  /\ framesMutex' = "free"
  /\ thread' = "sleep"
  /\ UNCHANGED <<vb2Vars, buffers, sequence, seqOf, held, shouldStop, ioctl>>

(* (wrong: the counter does not wrap)                                      *)
TakesUnwrapped ==
  /\ thread = "locked"
  /\ buffers # << >>
  /\ held' = Head(buffers)
  /\ buffers' = Tail(buffers)
  /\ seqOf' = [seqOf EXCEPT ![Head(buffers)] = sequence]
  /\ sequence' = sequence + 1
  /\ framesMutex' = "free"
  /\ thread' = "copy"
  /\ UNCHANGED <<vb2Vars, shouldStop, ioctl>>

(* takes the first buffer and numbers it                                   *)
ClockTake ==
  /\ thread = "locked"
  /\ buffers # << >>
  /\ held' = Head(buffers)
  /\ buffers' = Tail(buffers)
  /\ seqOf' = [seqOf EXCEPT ![Head(buffers)] = sequence]
  /\ sequence' = IF sequence + 1 = SeqModulus THEN 0 ELSE sequence + 1
  /\ framesMutex' = "free"
  /\ thread' = "copy"
  /\ UNCHANGED <<vb2Vars, shouldStop, ioctl>>

(* copies the planes with no lock held and completes the buffer            *)
ClockComplete ==
  /\ thread = "copy"
  /\ vb' = [vb EXCEPT ![held] = "DONE"]
  /\ doneList' = Append(doneList, held)
  /\ held' = NoBuffer
  /\ thread' = "sleep"
  /\ UNCHANGED <<waiting, streaming, startCalled, buffers, framesMutex,
                 sequence, seqOf, shouldStop, ioctl>>

(* msleep_interruptible or schedule returns                                *)
ClockWake ==
  /\ thread = "sleep"
  /\ thread' = "loop"
  /\ UNCHANGED <<vb2Vars, listVars, shouldStop, ioctl>>

-----------------------------------------------------------------------------
Process ==
  \/ \E S \in SUBSET Buffers : ReqBufs(S)
  \/ \E b \in Buffers : QBufWaits(b)
  \/ \E b \in Buffers : QBufStarts(b)
  \/ \E b \in Buffers : QBufRunning(b)
  \/ BufferQueue
  \/ BufferQueueInterrupted
  \/ DQBuf
  \/ StreamOn
  \/ StreamOffIdle
  \/ StreamOffRunning
  \/ StopStreaming
  \/ CancelQueue

Clock ==
  \/ ClockExit
  \/ ClockLock
  \/ ClockFindsNone
  \/ ClockTake
  \/ ClockComplete
  \/ ClockWake

Next == Process \/ Clock

Spec == Init /\ [][Next]_vars

(* The scheduler runs a runnable kernel thread sooner or later, and an     *)
(* ioctl that has begun runs on whatever the process does next; a kernel   *)
(* mutex that is released over and over goes to its waiter in the end.     *)
(* Nothing makes the process issue another ioctl.                          *)
FairSpec ==
  /\ Spec
  /\ WF_vars(Clock)
  /\ SF_vars(BufferQueue)
  /\ WF_vars(StopStreaming)
  /\ WF_vars(CancelQueue)

=============================================================================
