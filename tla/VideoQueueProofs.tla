-------------------------- MODULE VideoQueueProofs --------------------------
(***************************************************************************)
(* Proofs about the buffer queue, for every set of buffers, every minimum  *)
(* and every width of the frame counter.                                   *)
(*                                                                         *)
(* TypeOK holds of the queue as it is.  Ownership and NothingOutlivesStream*)
(* hold of a queue whose start never fails: a failed start is exactly what *)
(* breaks them (see StartFailureReturnsBuffers).  Neither is inductive: a  *)
(* step keeps them because of where the ioctl and the thread stand, which  *)
(* Phases says, and because a buffer is in one of videobuf2's lists only   *)
(* in the state that goes with the list, which Places says.                *)
(***************************************************************************)
EXTENDS VideoQueueProperties, SequenceLemmas, SequenceTheorems, TLAPS

(* Where a buffer is listed agrees with videobuf2's state of it.           *)
Places ==
  /\ \A b \in Range(waiting) : vb[b] = "QUEUED"
  /\ \A b \in Range(doneList) : vb[b] \in {"DONE", "ERROR"}
  /\ IsInjective(waiting)
  /\ IsInjective(doneList)

(* How far the ioctl has come agrees with how far the thread has.          *)
Phases ==
  /\ startCalled => streaming
  /\ startCalled /\ ioctl # "handover" => waiting = << >>
  /\ ioctl = "handover" => startCalled /\ Len(waiting) = 1
  /\ ioctl = "joining" => startCalled
  /\ held # NoBuffer <=> thread = "copy"
  /\ framesMutex = "clock" <=> thread = "locked"
  /\ ~startCalled \/ ioctl = "cancelling" =>
       thread = "none" /\ buffers = << >>

(* What TypeOK rests on: the thread copies a buffer, and a buffer is being *)
(* handed over.                                                            *)
TypeInv ==
  /\ TypeOK
  /\ thread = "copy" => held # NoBuffer
  /\ ioctl = "handover" => waiting # << >>

QueueInv == Ownership /\ Places /\ Phases

-----------------------------------------------------------------------------
(* The lists of buffers.                                                   *)

(* list_add_tail of entries that are not linked is concatenation.          *)
LEMMA AddTailFresh ==
  ASSUME NEW list, NEW s, Range(list) \cap Range(s) = {}
  PROVE  AddTail(list, s) = list \o s
<1>1. {i \in DOMAIN list : list[i] \in Range(s)} = {}
  BY DEF Range
<1> QED
  BY <1>1 DEF AddTail

(* list_add_tail links nothing but what was linked and what is added, also *)
(* when an entry is linked twice.                                          *)
LEMMA AddTailType ==
  ASSUME NEW S, NEW list \in Seq(S), NEW s \in Seq(S)
  PROVE  AddTail(list, s) \in Seq(S)
<1> DEFINE again == {i \in DOMAIN list : list[i] \in Range(s)}
           first == CHOOSE i \in again : \A j \in again : i <= j
           cut   == CHOOSE i \in DOMAIN s : s[i] = list[first]
<1>1. CASE again = {}
  BY <1>1 DEF AddTail
<1>2. CASE again # {}
  <2>1. \E i \in again : \A j \in again : i <= j
    <3>1. again \in SUBSET Nat
      OBVIOUS
    <3> HIDE DEF again
    <3> QED
      BY <1>2, <3>1, LeastIndex
  <2>2. first \in 1 .. Len(list) /\ list[first] \in Range(s)
    BY <2>1
  <2>3. cut \in DOMAIN s
    BY <2>2 DEF Range
  <2>4. AddTail(list, s) = SubSeq(list, 1, first) \o SubSeq(s, cut + 1, Len(s))
    BY <1>2 DEF AddTail
  <2> HIDE DEF first, cut
  <2>5. SubSeq(list, 1, first) \in Seq(S)
    BY <2>2
  <2>6. SubSeq(s, cut + 1, Len(s)) \in Seq(S)
    BY <2>3
  <2> QED
    BY <2>4, <2>5, <2>6
<1> QED
  BY <1>1, <1>2

-----------------------------------------------------------------------------
(* Types.                                                                  *)

(* Every step keeps the types, a failed start included.                    *)
LEMMA TypeStep ==
  TypeInv /\ [Next]_vars => TypeInv'
<1> SUFFICES ASSUME TypeInv, [Next]_vars
             PROVE  TypeInv'
  OBVIOUS
<1> USE DEF TypeInv, TypeOK, VbStates, ThreadStates, IoctlStates, threadVars,
            listVars, vb2Vars
<1>m. \A st \in VbStates : \A s : Moved(s, st) \in [Buffers -> VbStates]
  BY DEF Moved
<1>1. ASSUME NEW S \in SUBSET Buffers, ReqBufs(S) PROVE TypeInv'
  BY <1>1 DEF ReqBufs
<1>2. ASSUME NEW b \in Buffers, QBufWaits(b) PROVE TypeInv'
  BY <1>2 DEF QBufWaits
<1>3. ASSUME NEW queued \in Seq(Buffers), ioctl = "idle", StartStreaming(queued),
             streaming' \in BOOLEAN
      PROVE  TypeInv'
  <2>1. buffers' \in Seq(Buffers)
    BY <1>3, AddTailType DEF StartStreaming
  <2>2. vb' \in [Buffers -> VbStates]
    BY <1>3, <1>m DEF StartStreaming
  <2>3. waiting' \in Seq(Buffers) /\ doneList' \in Seq(Buffers)
    BY <1>3, VideoQueueAssumption DEF StartStreaming
  <2>4. streaming' \in BOOLEAN /\ startCalled' \in BOOLEAN /\ shouldStop' \in BOOLEAN
    BY <1>3, VideoQueueAssumption DEF StartStreaming
  <2>5. /\ seqOf' \in [Buffers -> 0 .. SeqModulus - 1]
        /\ sequence' \in 0 .. SeqModulus - 1
        /\ held' \in Buffers \cup {NoBuffer}
        /\ framesMutex' \in {"free", "clock"}
    BY <1>3, VideoQueueAssumption DEF StartStreaming
  <2>6. /\ thread' \in ThreadStates /\ thread' # "copy"
        /\ ioctl' \in IoctlStates /\ ioctl' # "handover"
    BY <1>3 DEF StartStreaming
  <2> HIDE DEF VbStates, ThreadStates, IoctlStates
  <2> QED
    BY <2>1, <2>2, <2>3, <2>4, <2>5, <2>6, Zenon
<1>4. ASSUME NEW queued \in Seq(Buffers), ioctl = "idle", StartFails(queued),
             UNCHANGED <<vb, waiting>>
      PROVE  TypeInv'
  <2>1. buffers' \in Seq(Buffers)
    BY <1>4, AddTailType DEF StartFails
  <2>2. 0 \in 0 .. SeqModulus - 1
    BY VideoQueueAssumption
  <2> QED
    BY <1>4, <2>1, <2>2 DEF StartFails
<1>5. ASSUME NEW b \in Buffers, QBufStarts(b) PROVE TypeInv'
  <2>1. Append(waiting, b) \in Seq(Buffers)
    OBVIOUS
  <2> QED
    BY <1>3, <1>4, <1>5, <2>1 DEF QBufStarts
<1>6. ASSUME NEW b \in Buffers, QBufRunning(b) PROVE TypeInv'
  BY <1>6 DEF QBufRunning
<1>7. CASE BufferQueue
  <2>1. buffers' \in Seq(Buffers)
    BY <1>7, AddTailType DEF BufferQueue
  <2> QED
    BY <1>7, <2>1 DEF BufferQueue
<1>8. CASE BufferQueueInterrupted
  <2>1. Head(waiting) \in Buffers
    BY <1>8 DEF BufferQueueInterrupted
  <2>2. doneList' \in Seq(Buffers) /\ vb' \in [Buffers -> VbStates]
    BY <1>8, <2>1 DEF BufferQueueInterrupted
  <2> QED
    BY <1>8, <2>2 DEF BufferQueueInterrupted
<1>9. CASE DQBuf
  BY <1>9 DEF DQBuf
<1>10. CASE StreamOn
  BY <1>3, <1>4, <1>10 DEF StreamOn
<1>11. CASE StreamOffIdle
  BY <1>11 DEF StreamOffIdle
<1>12. CASE StreamOffRunning
  BY <1>12 DEF StreamOffRunning
<1>13. CASE StopStreaming
  BY <1>13, <1>m DEF StopStreaming
<1>14. CASE CancelQueue
  <2>1. vb' \in [Buffers -> VbStates] /\ buffers' \in Seq(Buffers)
    BY <1>14 DEF CancelQueue
  <2>2. waiting' \in Seq(Buffers) /\ doneList' \in Seq(Buffers)
    BY <1>14 DEF CancelQueue
  <2>3. streaming' \in BOOLEAN /\ startCalled' \in BOOLEAN /\ shouldStop' \in BOOLEAN
    BY <1>14 DEF CancelQueue
  <2>4. /\ seqOf' \in [Buffers -> 0 .. SeqModulus - 1]
        /\ sequence' \in 0 .. SeqModulus - 1
        /\ held' \in Buffers \cup {NoBuffer}
        /\ framesMutex' \in {"free", "clock"}
    BY <1>14 DEF CancelQueue
  <2>5. /\ thread' \in ThreadStates /\ (thread' = "copy" => held' # NoBuffer)
        /\ ioctl' \in IoctlStates /\ ioctl' # "handover"
    BY <1>14 DEF CancelQueue
  <2> HIDE DEF VbStates, ThreadStates, IoctlStates
  <2> QED
    BY <2>1, <2>2, <2>3, <2>4, <2>5, Zenon
<1>15. CASE ClockExit
  BY <1>15 DEF ClockExit
<1>16. CASE ClockLock
  BY <1>16 DEF ClockLock
<1>17. CASE ClockFindsNone
  BY <1>17 DEF ClockFindsNone
<1>18. CASE ClockTake
  <2>1. sequence' \in 0 .. SeqModulus - 1
    BY <1>18, VideoQueueAssumption DEF ClockTake
  <2>2. Head(buffers) \in Buffers /\ Tail(buffers) \in Seq(Buffers)
    BY <1>18 DEF ClockTake
  <2>3. Head(buffers) # NoBuffer
    BY <2>2, VideoQueueAssumption
  <2> QED
    BY <1>18, <2>1, <2>2, <2>3 DEF ClockTake
<1>19. CASE ClockComplete
  BY <1>19 DEF ClockComplete
<1>20. CASE ClockWake
  BY <1>20 DEF ClockWake
<1>21. CASE UNCHANGED vars
  BY <1>21 DEF vars
<1> QED
  BY <1>1, <1>2, <1>5, <1>6, <1>7, <1>8, <1>9, <1>10, <1>11, <1>12, <1>13,
     <1>14, <1>15, <1>16, <1>17, <1>18, <1>19, <1>20, <1>21
     DEF Next, Process, Clock

LEMMA TypeInvariant == Spec => []TypeInv
<1>1. Init => TypeInv
  <2>1. 0 \in 0 .. SeqModulus - 1
    BY VideoQueueAssumption
  <2>2. << >> \in Seq(Buffers)
    OBVIOUS
  <2> QED
    BY <2>1, <2>2
       DEF Init, TypeInv, TypeOK, VbStates, ThreadStates, IoctlStates
<1> QED
  BY <1>1, TypeStep, PTL DEF Spec

(* Every variable keeps its type: the frame counter stays within its width *)
(* and the lists hold buffers only, however starts fail.                   *)
THEOREM TypeCorrect == Spec => []TypeOK
<1>1. TypeInv => TypeOK
  BY DEF TypeInv
<1> QED
  BY <1>1, TypeInvariant, PTL

-----------------------------------------------------------------------------
(* Safety of a queue whose start never fails.                              *)

(* The ioctl and the thread stay in step.                                  *)
LEMMA PhasesStep ==
  ASSUME StartMayFail = FALSE, TypeInv, QueueInv, [Next]_vars
  PROVE  Phases'
<1> USE DEF TypeInv, TypeOK, QueueInv, Phases, threadVars, listVars, vb2Vars
<1>1. ASSUME NEW S \in SUBSET Buffers, ReqBufs(S) PROVE Phases'
  BY <1>1 DEF ReqBufs
<1>2. ASSUME NEW b \in Buffers, QBufWaits(b) PROVE Phases'
  BY <1>2 DEF QBufWaits
<1>3. ASSUME NEW b \in Buffers, QBufStarts(b) PROVE Phases'
  BY <1>3 DEF QBufStarts, StartStreaming, StartFails
<1>4. ASSUME NEW b \in Buffers, QBufRunning(b) PROVE Phases'
  BY <1>4 DEF QBufRunning
<1>5. CASE BufferQueue
  BY <1>5 DEF BufferQueue
<1>6. CASE BufferQueueInterrupted
  BY <1>6 DEF BufferQueueInterrupted
<1>7. CASE DQBuf
  BY <1>7 DEF DQBuf
<1>8. CASE StreamOn
  BY <1>8 DEF StreamOn, StartStreaming, StartFails
<1>9. CASE StreamOffIdle
  BY <1>9 DEF StreamOffIdle
<1>10. CASE StreamOffRunning
  BY <1>10 DEF StreamOffRunning
<1>11. CASE StopStreaming
  BY <1>11 DEF StopStreaming
<1>12. CASE CancelQueue
  BY <1>12 DEF CancelQueue
<1>13. CASE ClockExit
  BY <1>13 DEF ClockExit
<1>14. CASE ClockLock
  BY <1>14 DEF ClockLock
<1>15. CASE ClockFindsNone
  BY <1>15 DEF ClockFindsNone
<1>16. CASE ClockTake
  <2>1. Head(buffers) \in Buffers
    BY <1>16 DEF ClockTake
  <2>2. Head(buffers) # NoBuffer
    BY <2>1, VideoQueueAssumption
  <2> QED
    BY <1>16, <2>2 DEF ClockTake
<1>17. CASE ClockComplete
  BY <1>17 DEF ClockComplete
<1>18. CASE ClockWake
  BY <1>18 DEF ClockWake
<1>19. CASE UNCHANGED vars
  BY <1>19 DEF vars
<1> QED
  BY <1>1, <1>2, <1>3, <1>4, <1>5, <1>6, <1>7, <1>8, <1>9, <1>10, <1>11,
     <1>12, <1>13, <1>14, <1>15, <1>16, <1>17, <1>18, <1>19
     DEF Next, Process, Clock

LEMMA LinkedIsInRange == \A b : Linked(b) <=> b \in Range(buffers)
BY DEF Linked, Range

(* A start takes every waiting buffer off videobuf2's lists.               *)
LEMMA StartKeepsPlaces ==
  ASSUME TypeInv, QueueInv, NEW queued \in Seq(Buffers),
         \A b \in Range(queued) : vb[b] \in {"QUEUED", "DEQUEUED"},
         StartStreaming(queued)
  PROVE  Places'
<1>1. waiting' = << >> /\ UNCHANGED doneList /\ vb' = Moved(queued, "ACTIVE")
  BY DEF StartStreaming
<1>2. doneList \in Seq(Buffers)
  BY DEF TypeInv, TypeOK
<1>3. \A b \in Range(doneList) : b \in Buffers /\ b \notin Range(queued)
  BY <1>2, RangeOfSeq DEF QueueInv, Places
<1>4. \A b \in Range(doneList) : vb'[b] = vb[b]
  BY <1>1, <1>3 DEF Moved
<1> QED
  BY <1>1, <1>4, EmptyDistinct DEF QueueInv, Places

(* videobuf2's lists and states stay in step.                              *)
LEMMA PlacesStep ==
  ASSUME StartMayFail = FALSE, TypeInv, QueueInv, [Next]_vars
  PROVE  Places'
<1>t. /\ vb \in [Buffers -> VbStates]
      /\ waiting \in Seq(Buffers) /\ Range(waiting) \subseteq Buffers
      /\ doneList \in Seq(Buffers) /\ Range(doneList) \subseteq Buffers
      /\ buffers \in Seq(Buffers) /\ Range(buffers) \subseteq Buffers
  BY RangeOfSeq DEF TypeInv, TypeOK
<1>1. ASSUME NEW S \in SUBSET Buffers, ReqBufs(S) PROVE Places'
  BY <1>1, EmptyDistinct DEF ReqBufs, Places
<1>2. ASSUME NEW b \in Buffers, QBufWaits(b) PROVE Places'
  <2>1. b \notin Range(waiting) /\ b \notin Range(doneList)
    BY <1>2 DEF QBufWaits, QueueInv, Places
  <2>2. Range(waiting') = Range(waiting) \cup {b} /\ IsInjective(waiting')
    BY <1>2, <1>t, <2>1, AppendDistinct DEF QBufWaits, QueueInv, Places
  <2> QED
    BY <1>2, <1>t, <2>1, <2>2 DEF QBufWaits, QueueInv, Places
<1>3. ASSUME NEW b \in Buffers, QBufStarts(b) PROVE Places'
  <2>1. StartStreaming(Append(waiting, b)) /\ vb[b] = "DEQUEUED"
    BY <1>3 DEF QBufStarts, StartFails
  <2>2. /\ Append(waiting, b) \in Seq(Buffers)
        /\ Range(Append(waiting, b)) = Range(waiting) \cup {b}
    BY <1>t, AppendDistinct
  <2> QED
    BY <2>1, <2>2, StartKeepsPlaces DEF QueueInv, Places
<1>4. ASSUME NEW b \in Buffers, QBufRunning(b) PROVE Places'
  <2>1. b \notin Range(doneList)
    BY <1>4 DEF QBufRunning, QueueInv, Places
  <2>2. Range(waiting') = {b} /\ IsInjective(waiting')
    BY <1>4 DEF QBufRunning, Range, IsInjective
  <2> QED
    BY <1>4, <1>t, <2>1, <2>2 DEF QBufRunning, QueueInv, Places
<1>5. ASSUME ioctl = "handover"
      PROVE  Head(waiting) \in Range(waiting)
  BY <1>5, <1>t, TailDistinct DEF TypeInv
<1>6. CASE BufferQueue
  <2>1. Head(waiting) \notin Range(doneList)
    BY <1>5, <1>6 DEF BufferQueue, QueueInv, Places
  <2> QED
    BY <1>6, <1>t, <2>1, EmptyDistinct DEF BufferQueue, QueueInv, Places
<1>7. CASE BufferQueueInterrupted
  <2>1. Head(waiting) \notin Range(doneList) /\ Head(waiting) \in Buffers
    BY <1>5, <1>7, <1>t DEF BufferQueueInterrupted, QueueInv, Places
  <2>2. /\ Range(doneList') = Range(doneList) \cup {Head(waiting)}
        /\ IsInjective(doneList')
    BY <1>7, <1>t, <2>1, AppendDistinct DEF BufferQueueInterrupted, QueueInv, Places
  <2> QED
    BY <1>7, <1>t, <2>1, <2>2, EmptyDistinct
       DEF BufferQueueInterrupted, QueueInv, Places
<1>8. CASE DQBuf
  <2>1. /\ Range(doneList) = Range(doneList') \cup {Head(doneList)}
        /\ IsInjective(doneList') /\ Head(doneList) \notin Range(doneList')
        /\ Head(doneList) \in Range(doneList)
    BY <1>8, <1>t, TailDistinct DEF DQBuf, QueueInv, Places
  <2>2. Head(doneList) \notin Range(waiting)
    BY <2>1 DEF QueueInv, Places
  <2> QED
    BY <1>8, <1>t, <2>1, <2>2 DEF DQBuf, QueueInv, Places
<1>9. CASE StreamOn
  <2>1. CASE StartStreaming(waiting)
    BY <1>t, <2>1, StartKeepsPlaces DEF QueueInv, Places
  <2>2. CASE UNCHANGED <<vb, waiting, doneList>>
    BY <2>2 DEF QueueInv, Places
  <2> QED
    BY <1>9, <2>1, <2>2 DEF StreamOn, StartFails
<1>10. CASE StopStreaming
  <2>1. vb' = Moved(buffers, "ERROR") /\ doneList' = doneList \o buffers /\ UNCHANGED waiting
    BY <1>10 DEF StopStreaming
  <2>2. \A b \in Range(buffers) : vb[b] = "ACTIVE"
    BY <1>t, LinkedIsInRange DEF QueueInv, Ownership
  <2>3. /\ Range(doneList') = Range(doneList) \cup Range(buffers)
        /\ IsInjective(doneList')
    <3>1. Range(doneList) \cap Range(buffers) = {}
      BY <2>2 DEF QueueInv, Places
    <3> QED
      BY <1>t, <2>1, <3>1, ConcatDistinct DEF QueueInv, Places, Ownership
  <2>4. \A b \in Buffers : vb'[b] = IF b \in Range(buffers) THEN "ERROR" ELSE vb[b]
    BY <2>1 DEF Moved
  <2>5. Range(waiting) \cap Range(buffers) = {}
    BY <2>2 DEF QueueInv, Places
  <2> QED
    BY <1>t, <2>1, <2>3, <2>4, <2>5 DEF QueueInv, Places
<1>11. CASE CancelQueue
  BY <1>11, EmptyDistinct DEF CancelQueue, Places
<1>12. CASE ClockComplete
  <2>1. held \in Buffers /\ vb[held] = "ACTIVE"
    BY <1>12 DEF ClockComplete, TypeInv, TypeOK, QueueInv, Ownership
  <2>2. held \notin Range(doneList) /\ held \notin Range(waiting)
    BY <2>1 DEF QueueInv, Places
  <2>3. Range(doneList') = Range(doneList) \cup {held} /\ IsInjective(doneList')
    BY <1>12, <1>t, <2>1, <2>2, AppendDistinct DEF ClockComplete, QueueInv, Places
  <2> QED
    BY <1>12, <1>t, <2>1, <2>2, <2>3 DEF ClockComplete, QueueInv, Places
<1>13. CASE UNCHANGED <<vb, waiting, doneList>>
  BY <1>13 DEF QueueInv, Places
<1> QED
  BY <1>1, <1>2, <1>3, <1>4, <1>6, <1>7, <1>8, <1>9, <1>10, <1>11, <1>12, <1>13
     DEF Next, Process, Clock, vars, vb2Vars, StreamOffIdle, StreamOffRunning,
         ClockExit, ClockLock, ClockFindsNone, ClockTake, ClockWake

(* A start hands the driver, which holds nothing, the buffers queued.      *)
LEMMA StartKeepsOwnership ==
  ASSUME TypeInv, QueueInv, ~startCalled, NEW queued \in Seq(Buffers),
         IsInjective(queued), StartStreaming(queued)
  PROVE  Ownership'
<1>1. buffers = << >> /\ held = NoBuffer
  BY DEF QueueInv, Phases
<1>2. buffers' = queued
  <2>1. Range(buffers) \cap Range(queued) = {}
    BY <1>1, EmptyDistinct
  <2>2. buffers' = buffers \o queued
    BY <2>1, AddTailFresh DEF StartStreaming
  <2> QED
    BY <1>1, <2>2, ConcatEmptySeq
<1>3. \A b \in Buffers : vb[b] # "ACTIVE"
  <2>1. \A b \in Buffers : ~Linked(b) /\ held # b
    BY <1>1, VideoQueueAssumption, LinkedIsInRange, EmptyDistinct
  <2> QED
    BY <2>1 DEF QueueInv, Ownership
<1>4. \A b \in Buffers : vb'[b] = "ACTIVE" <=> b \in Range(queued)
  BY <1>3 DEF StartStreaming, Moved
<1>5. \A b : Linked(b)' <=> b \in Range(queued)
  BY <1>2 DEF Linked, Range
<1>6. held' = NoBuffer /\ NoBuffer \notin Range(queued)
  BY <1>1, VideoQueueAssumption, RangeOfSeq DEF StartStreaming
<1> QED
  BY <1>2, <1>4, <1>5, <1>6, VideoQueueAssumption DEF Ownership

(* The driver keeps exactly what videobuf2 believes it holds.              *)
LEMMA OwnershipStep ==
  ASSUME StartMayFail = FALSE, TypeInv, QueueInv, [Next]_vars
  PROVE  Ownership'
<1>t. /\ vb \in [Buffers -> VbStates] /\ held \in Buffers \cup {NoBuffer}
      /\ waiting \in Seq(Buffers) /\ Range(waiting) \subseteq Buffers
      /\ doneList \in Seq(Buffers) /\ Range(doneList) \subseteq Buffers
      /\ buffers \in Seq(Buffers) /\ Range(buffers) \subseteq Buffers
  BY RangeOfSeq DEF TypeInv, TypeOK
<1>o. /\ \A b \in Buffers : vb[b] = "ACTIVE" <=> b \in Range(buffers) \/ held = b
      /\ IsInjective(buffers)
      /\ held \notin Range(buffers)
  BY LinkedIsInRange DEF QueueInv, Ownership
<1>p. (\A b : Linked(b)' <=> b \in Range(buffers'))
  BY DEF Linked, Range
<1>q. ASSUME /\ \A b \in Buffers : vb'[b] = "ACTIVE" <=> b \in Range(buffers') \/ held' = b
             /\ IsInjective(buffers')
             /\ held' \notin Range(buffers')
      PROVE  Ownership'
  BY <1>p, <1>q DEF Ownership
<1>1. ASSUME NEW S \in SUBSET Buffers, ReqBufs(S) PROVE Ownership'
  <2>1. buffers = << >> /\ held = NoBuffer
    BY <1>1 DEF ReqBufs, QueueInv, Phases
  <2>2. buffers' = << >> /\ held' = NoBuffer
    BY <1>1, <2>1 DEF ReqBufs, listVars
  <2> QED
    BY <1>1, <1>q, <2>2, EmptyDistinct, VideoQueueAssumption DEF ReqBufs
<1>2. ASSUME NEW b \in Buffers, QBufWaits(b) PROVE Ownership'
  BY <1>2, <1>t, <1>o, <1>q DEF QBufWaits, listVars
<1>3. ASSUME NEW b \in Buffers, QBufStarts(b) PROVE Ownership'
  <2>1. StartStreaming(Append(waiting, b)) /\ vb[b] = "DEQUEUED" /\ ~startCalled
    BY <1>3 DEF QBufStarts, StartFails
  <2>2. b \notin Range(waiting)
    BY <2>1 DEF QueueInv, Places
  <2>3. Append(waiting, b) \in Seq(Buffers) /\ IsInjective(Append(waiting, b))
    BY <1>t, <2>2, AppendDistinct DEF QueueInv, Places
  <2> QED
    BY <2>1, <2>3, StartKeepsOwnership
<1>4. ASSUME NEW b \in Buffers, QBufRunning(b) PROVE Ownership'
  BY <1>4, <1>t, <1>o, <1>q DEF QBufRunning, listVars
<1>5. CASE BufferQueue
  <2>1. Len(waiting) = 1 /\ waiting # << >>
    BY <1>5 DEF BufferQueue, QueueInv, Phases, TypeInv
  <2>2. Range(waiting) = {Head(waiting)} /\ Head(waiting) \in Buffers
    BY <1>t, <2>1 DEF Range
  <2>3. vb[Head(waiting)] = "QUEUED"
    BY <2>2 DEF QueueInv, Places
  <2>4. Head(waiting) \notin Range(buffers) /\ Head(waiting) # held
    BY <1>o, <2>2, <2>3
  <2>5. /\ Range(buffers') = Range(buffers) \cup {Head(waiting)}
        /\ IsInjective(buffers')
    <3>1. buffers' = buffers \o waiting
      BY <1>5, <2>2, <2>4, AddTailFresh DEF BufferQueue
    <3> QED
      BY <1>t, <1>o, <2>2, <2>4, <3>1, ConcatDistinct DEF QueueInv, Places
  <2> QED
    BY <1>5, <1>t, <1>o, <1>q, <2>2, <2>4, <2>5 DEF BufferQueue
<1>6. CASE BufferQueueInterrupted
  <2>1. Head(waiting) \in Range(waiting)
    BY <1>6, <1>t, TailDistinct DEF BufferQueueInterrupted, TypeInv
  <2>2. vb[Head(waiting)] = "QUEUED"
    BY <2>1 DEF QueueInv, Places
  <2> QED
    BY <1>6, <1>t, <1>o, <1>q, <2>1, <2>2 DEF BufferQueueInterrupted, listVars
<1>7. CASE DQBuf
  <2>1. Head(doneList) \in Range(doneList)
    BY <1>7, <1>t, TailDistinct DEF DQBuf
  <2>2. vb[Head(doneList)] # "ACTIVE"
    BY <2>1 DEF QueueInv, Places
  <2> QED
    BY <1>7, <1>t, <1>o, <1>q, <2>1, <2>2 DEF DQBuf, listVars
<1>8. CASE StreamOn
  <2>1. CASE StartStreaming(waiting) /\ ~startCalled
    BY <1>t, <2>1, StartKeepsOwnership DEF QueueInv, Places
  <2>2. CASE UNCHANGED <<vb, buffers, held>>
    BY <2>2, <1>o, <1>q
  <2>3. ~startCalled
    BY <1>8 DEF StreamOn, QueueInv, Phases
  <2> QED
    BY <1>8, <2>1, <2>2, <2>3 DEF StreamOn, StartFails, listVars
<1>9. CASE StopStreaming
  <2>1. held = NoBuffer
    BY <1>9 DEF StopStreaming, QueueInv, Phases
  <2>2. \A b \in Buffers : vb'[b] # "ACTIVE"
    BY <1>9, <1>t, <1>o, <2>1, VideoQueueAssumption DEF StopStreaming, Moved
  <2> QED
    BY <1>9, <1>q, <2>1, <2>2, EmptyDistinct, VideoQueueAssumption
       DEF StopStreaming
<1>10. CASE CancelQueue
  <2>1. buffers = << >> /\ held = NoBuffer
    BY <1>10 DEF CancelQueue, QueueInv, Phases
  <2>2. buffers' = << >> /\ held' = NoBuffer
    BY <1>10, <2>1 DEF CancelQueue, listVars
  <2> QED
    BY <1>10, <1>q, <2>2, EmptyDistinct, VideoQueueAssumption DEF CancelQueue
<1>11. CASE ClockTake
  <2>1. held = NoBuffer
    BY <1>11 DEF ClockTake, QueueInv, Phases
  <2>2. /\ Range(buffers) = Range(Tail(buffers)) \cup {Head(buffers)}
        /\ Head(buffers) \notin Range(Tail(buffers))
        /\ IsInjective(Tail(buffers))
    BY <1>11, <1>t, <1>o, TailDistinct DEF ClockTake
  <2> QED
    BY <1>11, <1>t, <1>o, <1>q, <2>1, <2>2, VideoQueueAssumption
       DEF ClockTake, vb2Vars
<1>12. CASE ClockComplete
  <2>1. held \in Buffers
    BY <1>12, <1>t DEF ClockComplete, TypeInv
  <2> QED
    BY <1>12, <1>t, <1>o, <1>q, <2>1, VideoQueueAssumption DEF ClockComplete
<1>13. CASE UNCHANGED <<vb, buffers, held>>
  BY <1>13, <1>o, <1>q
<1> QED
  BY <1>1, <1>2, <1>3, <1>4, <1>5, <1>6, <1>7, <1>8, <1>9, <1>10, <1>11,
     <1>12, <1>13
     DEF Next, Process, Clock, vars, vb2Vars, listVars, StreamOffIdle,
         StreamOffRunning, ClockExit, ClockLock, ClockFindsNone, ClockWake

-----------------------------------------------------------------------------
(* What the step lemmas amount to.                                         *)

LEMMA QueueInvariant == ASSUME StartMayFail = FALSE PROVE Spec => []QueueInv
<1>1. Init => QueueInv
  <2>1. Init => Ownership
    <3>1. Init => \A b \in Buffers : vb[b] # "ACTIVE" /\ ~Linked(b) /\ held # b
      BY VideoQueueAssumption DEF Init, Linked
    <3>2. Init => IsInjective(buffers) /\ ~Linked(held)
      BY EmptyDistinct DEF Init, Linked
    <3> QED
      BY <3>1, <3>2 DEF Ownership
  <2>2. Init => Places
    BY EmptyDistinct DEF Init, Places
  <2>3. Init => Phases
    BY DEF Init, Phases
  <2> QED
    BY <2>1, <2>2, <2>3 DEF QueueInv
<1>2. TypeInv /\ QueueInv /\ [Next]_vars => QueueInv'
  BY OwnershipStep, PlacesStep, PhasesStep DEF QueueInv
<1> QED
  BY <1>1, <1>2, TypeInvariant, PTL DEF Spec

(* While starts succeed, videobuf2 and the driver agree about every buffer *)
(* at every moment: whichever way the ioctls, a signal and the clock       *)
(* thread interleave, a buffer is linked once, or held, or neither.        *)
THEOREM OwnershipHolds == ASSUME StartMayFail = FALSE PROVE Spec => []Ownership
<1>1. QueueInv => Ownership
  BY DEF QueueInv
<1> QED
  BY <1>1, QueueInvariant, PTL

(* While starts succeed, no buffer and no clock thread outlives the stream.*)
THEOREM NothingOutlivesStreamHolds ==
  ASSUME StartMayFail = FALSE PROVE Spec => []NothingOutlivesStream
<1>1. TypeInv /\ QueueInv => NothingOutlivesStream
  <2> SUFFICES ASSUME TypeInv, QueueInv, ~startCalled \/ ioctl = "cancelling"
               PROVE  /\ thread = "none" /\ held = NoBuffer /\ buffers = << >>
                      /\ \A b \in Buffers : vb[b] # "ACTIVE"
    BY DEF NothingOutlivesStream
  <2>1. thread = "none" /\ held = NoBuffer /\ buffers = << >>
    BY DEF QueueInv, Phases
  <2>2. \A b \in Buffers : ~Linked(b) /\ held # b
    BY <2>1, LinkedIsInRange, EmptyDistinct, VideoQueueAssumption
  <2> QED
    BY <2>1, <2>2 DEF QueueInv, Ownership
<1> QED
  BY <1>1, TypeInvariant, QueueInvariant, PTL


-----------------------------------------------------------------------------
(***************************************************************************)
(* Proofs that the buffer queue numbers what the process collects without  *)
(* gaps, and that it keeps the promise of BufferLoan, for every set of     *)
(* buffers, every minimum and every width of the frame counter.            *)
(*                                                                         *)
(* The refinement needs the numbers: when the thread completes the buffer  *)
(* it holds, the counter, which ran on when the buffer was taken, has to   *)
(* stand at the number after the buffer's.  The numbers need Unstarted:    *)
(* a start counts from 0 again, whatever is still to be collected.         *)
(***************************************************************************)

(* Nothing is left to be collected when a stream starts.                   *)
Unstarted == ~startCalled => doneList = << >>

NumberInv == CollectedInOrder /\ Unstarted

-----------------------------------------------------------------------------
(* Numbers along a list.                                                   *)

(* Only what the list shows of the buffers matters.                        *)
LEMMA SameFrames ==
  ASSUME NEW list, NEW st, NEW st2, NEW num, NEW num2, NEW n,
         InOrder(list, st, num, n),
         \A i \in DOMAIN list : /\ st2[list[i]] = "ERROR" <=> st[list[i]] = "ERROR"
                                /\ num2[list[i]] = num[list[i]]
  PROVE  InOrder(list, st2, num2, n)
<1>1. {i \in DOMAIN list : st2[list[i]] # "ERROR"}
        = {i \in DOMAIN list : st[list[i]] # "ERROR"}
  OBVIOUS
<1> QED
  BY <1>1 DEF InOrder

(* A frame that gets the next number goes to the end.                      *)
LEMMA FrameAppended ==
  ASSUME NEW S, NEW list \in Seq(S), NEW x \in S,
         NEW st, NEW num, NEW num2, NEW n,
         InOrder(list, st, num, n),
         st[x] # "ERROR", num2[x] = n,
         \A i \in DOMAIN list : num2[list[i]] = num[list[i]]
  PROVE  InOrder(Append(list, x), st, num2, Successor(n))
<1> DEFINE more == Append(list, x)
           old  == {i \in DOMAIN list : st[list[i]] # "ERROR"}
           new  == {i \in DOMAIN more : st[more[i]] # "ERROR"}
           last == Len(list) + 1
<1>1. /\ DOMAIN more = 1 .. last /\ DOMAIN list = 1 .. Len(list)
      /\ \A i \in 1 .. Len(list) : more[i] = list[i]
      /\ more[last] = x
      /\ Len(list) \in Nat
  OBVIOUS
<1>2. new = old \cup {last} /\ old \subseteq 1 .. Len(list)
  BY <1>1
<1>3. \A i, j \in old :
        i < j /\ (\A k \in old : k <= i \/ j <= k) =>
          num[list[j]] = Successor(num[list[i]])
  BY DEF InOrder
<1>4. \A i \in old : (\A k \in old : k <= i) => n = Successor(num[list[i]])
  BY DEF InOrder
<1>5. \A i \in old : more[i] = list[i] /\ num2[more[i]] = num[list[i]]
  BY <1>1, <1>2
<1> HIDE DEF more, old, new, last
<1>6. ASSUME NEW i \in new, NEW j \in new, i < j,
             \A k \in new : k <= i \/ j <= k
      PROVE  num2[more[j]] = Successor(num2[more[i]])
  <2>1. i \in old
    <3>1. i <= Len(list) \/ i = last
      BY <1>1, <1>2
    <3>2. j <= Len(list) \/ j = last
      BY <1>1, <1>2
    <3>3. i # last
      BY <1>1, <1>2, <1>6, <3>1, <3>2 DEF last
    <3> QED
      BY <1>2, <3>3
  <2>2. CASE j \in old
    BY <1>2, <1>3, <1>5, <1>6, <2>1, <2>2
  <2>3. CASE j = last
    <3>1. \A k \in old : k <= i
      BY <1>2, <1>6, <2>3 DEF last
    <3> QED
      BY <1>1, <1>4, <1>5, <2>1, <2>3, <3>1
  <2> QED
    BY <1>2, <2>2, <2>3
<1>7. ASSUME NEW i \in new, \A k \in new : k <= i
      PROVE  Successor(n) = Successor(num2[more[i]])
  <2>1. i = last
    BY <1>1, <1>2, <1>7 DEF last
  <2> QED
    BY <1>1, <2>1
<1> QED
  BY <1>6, <1>7 DEF InOrder, new, more

(* Buffers without a frame go to the end.                                  *)
LEMMA ErrorsAppended ==
  ASSUME NEW S, NEW list \in Seq(S), NEW t \in Seq(S),
         NEW st, NEW st2, NEW num, NEW n,
         InOrder(list, st, num, n),
         \A i \in DOMAIN list : st2[list[i]] = st[list[i]],
         \A i \in DOMAIN t : st2[t[i]] = "ERROR"
  PROVE  InOrder(list \o t, st2, num, n)
<1> DEFINE more == list \o t
           old  == {i \in DOMAIN list : st[list[i]] # "ERROR"}
           new  == {i \in DOMAIN more : st2[more[i]] # "ERROR"}
<1>1. /\ DOMAIN more = 1 .. Len(list) + Len(t)
      /\ DOMAIN list = 1 .. Len(list) /\ DOMAIN t = 1 .. Len(t)
      /\ Len(list) \in Nat /\ Len(t) \in Nat
      /\ \A i \in 1 .. Len(list) + Len(t) :
           more[i] = IF i <= Len(list) THEN list[i] ELSE t[i - Len(list)]
  BY ConcatProperties
<1>2. new = old /\ \A i \in old : more[i] = list[i]
  <2>1. ASSUME NEW i \in DOMAIN more, i > Len(list)
        PROVE  st2[more[i]] = "ERROR"
    <3>1. i - Len(list) \in DOMAIN t /\ more[i] = t[i - Len(list)]
      BY <1>1, <2>1
    <3> QED
      BY <3>1
  <2>2. ASSUME NEW i \in DOMAIN list
        PROVE  i \in DOMAIN more /\ more[i] = list[i] /\ st2[more[i]] = st[list[i]]
    BY <1>1
  <2> HIDE DEF more
  <2> QED
    BY <1>1, <2>1, <2>2
<1>3. \A i, j \in old :
        i < j /\ (\A k \in old : k <= i \/ j <= k) =>
          num[list[j]] = Successor(num[list[i]])
  BY DEF InOrder
<1>4. \A i \in old : (\A k \in old : k <= i) => n = Successor(num[list[i]])
  BY DEF InOrder
<1> HIDE DEF more, old, new
<1>5. \A i, j \in new :
        i < j /\ (\A k \in new : k <= i \/ j <= k) =>
          num[more[j]] = Successor(num[more[i]])
  BY <1>2, <1>3
<1>6. \A i \in new : (\A k \in new : k <= i) => n = Successor(num[more[i]])
  BY <1>2, <1>4
<1> QED
  BY <1>5, <1>6 DEF InOrder, new, more

(* The oldest entry goes.                                                  *)
LEMMA OldestCollected ==
  ASSUME NEW S, NEW list \in Seq(S), list # << >>,
         NEW st, NEW num, NEW n,
         InOrder(list, st, num, n)
  PROVE  InOrder(Tail(list), st, num, n)
<1> DEFINE less == Tail(list)
           old  == {i \in DOMAIN list : st[list[i]] # "ERROR"}
           new  == {i \in DOMAIN less : st[less[i]] # "ERROR"}
<1>1. /\ DOMAIN list = 1 .. Len(list) /\ DOMAIN less = 1 .. Len(list) - 1
      /\ Len(list) \in Nat \ {0}
      /\ \A i \in 1 .. Len(list) - 1 : less[i] = list[i + 1]
  OBVIOUS
<1>2. \A i \in new : i + 1 \in old /\ less[i] = list[i + 1] /\ i \in Nat
  BY <1>1
<1>3. \A k \in old : k \in Nat /\ (k = 1 \/ k - 1 \in new)
  <2> TAKE k \in old
  <2>1. k \in 1 .. Len(list)
    BY <1>1
  <2>2. k # 1 => k - 1 \in 1 .. Len(list) - 1 /\ less[k - 1] = list[k]
    BY <1>1, <2>1
  <2> QED
    BY <1>1, <2>1, <2>2
<1>4. \A i, j \in old :
        i < j /\ (\A k \in old : k <= i \/ j <= k) =>
          num[list[j]] = Successor(num[list[i]])
  BY DEF InOrder
<1>5. \A i \in old : (\A k \in old : k <= i) => n = Successor(num[list[i]])
  BY DEF InOrder
<1> HIDE DEF less, old, new
<1>6. ASSUME NEW i \in new, NEW j \in new, i < j,
             \A k \in new : k <= i \/ j <= k
      PROVE  num[less[j]] = Successor(num[less[i]])
  <2>1. \A k \in old : k <= i + 1 \/ j + 1 <= k
    <3> SUFFICES ASSUME NEW k \in old, k # 1
                 PROVE  k <= i + 1 \/ j + 1 <= k
      BY <1>2
    <3>1. k - 1 <= i \/ j <= k - 1
      BY <1>3, <1>6
    <3> QED
      BY <1>2, <1>3, <3>1
  <2>2. i + 1 < j + 1
    BY <1>2, <1>6
  <2> QED
    BY <1>2, <1>4, <2>1, <2>2
<1>7. ASSUME NEW i \in new, \A k \in new : k <= i
      PROVE  n = Successor(num[less[i]])
  <2>1. \A k \in old : k <= i + 1
    <3> SUFFICES ASSUME NEW k \in old, k # 1
                 PROVE  k <= i + 1
      BY <1>2
    <3>1. k - 1 <= i
      BY <1>3, <1>7
    <3> QED
      BY <1>2, <1>3, <3>1
  <2> QED
    BY <1>2, <1>5, <2>1
<1> QED
  BY <1>6, <1>7 DEF InOrder, new, less

(* An empty list is in order, wherever the counter stands.                 *)
LEMMA NoneInOrder == \A st, num, n : InOrder(<< >>, st, num, n)
BY DEF InOrder

-----------------------------------------------------------------------------
(* Numbers in the queue.                                                   *)

(* What the lists of the driver and of videobuf2 hold.                     *)
LEMMA ListedBuffers ==
  ASSUME TypeInv, QueueInv
  PROVE  /\ vb \in [Buffers -> VbStates] /\ seqOf \in [Buffers -> 0 .. SeqModulus - 1]
         /\ waiting \in Seq(Buffers) /\ Range(waiting) \subseteq Buffers
         /\ doneList \in Seq(Buffers) /\ Range(doneList) \subseteq Buffers
         /\ buffers \in Seq(Buffers) /\ Range(buffers) \subseteq Buffers
         /\ \A b \in Range(waiting) : vb[b] = "QUEUED"
         /\ \A b \in Range(doneList) : vb[b] \in {"DONE", "ERROR"}
         /\ \A b \in Range(buffers) : vb[b] = "ACTIVE" /\ b # held
         /\ held # NoBuffer => held \in Buffers /\ vb[held] = "ACTIVE"
<1>1. /\ vb \in [Buffers -> VbStates] /\ seqOf \in [Buffers -> 0 .. SeqModulus - 1]
      /\ waiting \in Seq(Buffers) /\ Range(waiting) \subseteq Buffers
      /\ doneList \in Seq(Buffers) /\ Range(doneList) \subseteq Buffers
      /\ buffers \in Seq(Buffers) /\ Range(buffers) \subseteq Buffers
      /\ held \in Buffers \cup {NoBuffer}
  BY RangeOfSeq DEF TypeInv, TypeOK
<1> QED
  BY <1>1, LinkedIsInRange DEF QueueInv, Places, Ownership

(* What the process has yet to collect is a sequence of buffers, each of   *)
(* them completed or about to be.                                          *)
LEMMA TakenBuffers ==
  ASSUME TypeInv, QueueInv
  PROVE  /\ Taken \in Seq(Buffers)
         /\ \A i \in DOMAIN Taken :
              /\ Taken[i] \in Range(doneList) \/ (Taken[i] = held /\ held # NoBuffer)
              /\ Taken[i] \in Buffers
              /\ vb[Taken[i]] \in {"DONE", "ERROR", "ACTIVE"}
<1>1. CASE held = NoBuffer
  <2>1. Taken = doneList /\ doneList \in Seq(Buffers)
    BY <1>1, ListedBuffers DEF Taken
  <2>2. \A i \in DOMAIN doneList : doneList[i] \in Range(doneList)
    BY DEF Range
  <2>3. \A b \in Range(doneList) : b \in Buffers /\ vb[b] \in {"DONE", "ERROR"}
    BY ListedBuffers
  <2> QED
    BY ONLY <2>1, <2>2, <2>3
<1>2. CASE held # NoBuffer
  <2>1. /\ Taken \in Seq(Buffers) /\ DOMAIN Taken = 1 .. Len(doneList) + 1
        /\ DOMAIN doneList = 1 .. Len(doneList) /\ Len(doneList) \in Nat
        /\ \A i \in 1 .. Len(doneList) : Taken[i] = doneList[i]
        /\ Taken[Len(doneList) + 1] = held
    BY <1>2, ListedBuffers DEF Taken
  <2>2. \A i \in 1 .. Len(doneList) : doneList[i] \in Range(doneList)
    BY <2>1 DEF Range
  <2>3. \A i \in DOMAIN Taken : Taken[i] \in Range(doneList) \/ Taken[i] = held
    BY <2>1, <2>2
  <2> QED
    BY <1>2, <2>1, <2>3, ListedBuffers
<1> QED
  BY <1>1, <1>2

(* A step that leaves the lists and the completed buffers alone.           *)
LEMMA OthersKeepOrder ==
  ASSUME TypeInv, QueueInv, CollectedInOrder,
         UNCHANGED <<doneList, held, seqOf, sequence>>,
         \A b \in Buffers : vb[b] \in {"DONE", "ERROR", "ACTIVE"} => vb'[b] = vb[b]
  PROVE  CollectedInOrder'
<1>1. Taken' = Taken
  BY DEF Taken
<1>2. \A i \in DOMAIN Taken : vb'[Taken[i]] = vb[Taken[i]]
  BY TakenBuffers
<1>3. InOrder(Taken, vb', seqOf, sequence)
  BY <1>2, SameFrames DEF CollectedInOrder
<1> QED
  BY <1>1, <1>3 DEF CollectedInOrder

(* A step that leaves nothing to collect.                                  *)
LEMMA NoneKeepsOrder ==
  ASSUME doneList' = << >>, held' = NoBuffer
  PROVE  CollectedInOrder'
<1>1. Taken' = << >>
  BY DEF Taken
<1> QED
  BY <1>1, NoneInOrder DEF CollectedInOrder

LEMMA NumberStep ==
  ASSUME StartMayFail = FALSE, TypeInv, QueueInv, NumberInv, [Next]_vars
  PROVE  CollectedInOrder'
<1>t. /\ waiting \in Seq(Buffers) /\ doneList \in Seq(Buffers)
      /\ buffers \in Seq(Buffers) /\ vb \in [Buffers -> VbStates]
      /\ seqOf \in [Buffers -> 0 .. SeqModulus - 1]
  BY ListedBuffers
<1>n. CollectedInOrder
  BY DEF NumberInv
<1>e. ASSUME NEW queued, ~startCalled, StartStreaming(queued) PROVE CollectedInOrder'
  <2>1. doneList' = << >> /\ held' = NoBuffer
    BY <1>e DEF StartStreaming, NumberInv, Unstarted, QueueInv, Phases
  <2> QED
    BY <2>1, NoneKeepsOrder
<1>1. ASSUME NEW S \in SUBSET Buffers, ReqBufs(S) PROVE CollectedInOrder'
  <2>1. doneList' = << >> /\ held' = NoBuffer
    BY <1>1 DEF ReqBufs, listVars, QueueInv, Phases
  <2> QED
    BY <2>1, NoneKeepsOrder
<1>2. ASSUME NEW b \in Buffers, QBufWaits(b) PROVE CollectedInOrder'
  BY <1>2, <1>t, <1>n, OthersKeepOrder DEF QBufWaits, listVars
<1>3. ASSUME NEW b \in Buffers, QBufStarts(b) PROVE CollectedInOrder'
  BY <1>3, <1>e DEF QBufStarts, StartFails
<1>4. ASSUME NEW b \in Buffers, QBufRunning(b) PROVE CollectedInOrder'
  BY <1>4, <1>t, <1>n, OthersKeepOrder DEF QBufRunning, listVars
<1>5. CASE BufferQueue
  <2>1. vb[Head(waiting)] = "QUEUED"
    BY <1>5, <1>t, TailDistinct, ListedBuffers DEF BufferQueue, TypeInv
  <2> QED
    BY <1>5, <1>t, <1>n, <2>1, OthersKeepOrder DEF BufferQueue
<1>6. CASE BufferQueueInterrupted
  <2> DEFINE w == Head(waiting)
  <2>1. held = NoBuffer /\ held' = NoBuffer
    BY <1>6 DEF BufferQueueInterrupted, QueueInv, Phases, listVars
  <2>2. w \in Buffers /\ vb[w] = "QUEUED"
    BY <1>6, <1>t, TailDistinct, ListedBuffers
       DEF BufferQueueInterrupted, TypeInv
  <2>3. Taken = doneList /\ Taken' = Append(doneList, w)
    BY <1>6, <2>1 DEF BufferQueueInterrupted, Taken
  <2>4. vb' = [vb EXCEPT ![w] = "ERROR"] /\ seqOf' = seqOf /\ sequence' = sequence
    BY <1>6 DEF BufferQueueInterrupted, listVars
  <2>5. \A i \in DOMAIN doneList : vb'[doneList[i]] = vb[doneList[i]]
    BY <1>t, <2>2, <2>3, <2>4, TakenBuffers
  <2> DEFINE one == << w >>
  <2>6. one \in Seq(Buffers) /\ Append(doneList, w) = doneList \o one
    BY ONLY <1>t, <2>2, AppendAsConcat
  <2>7. \A i \in DOMAIN one : vb'[one[i]] = "ERROR"
    BY <1>t, <2>2, <2>4
  <2>8. InOrder(doneList, vb, seqOf, sequence)
    BY <1>n, <2>3 DEF CollectedInOrder
  <2> HIDE DEF w, one
  <2>9. InOrder(doneList \o one, vb', seqOf, sequence)
    BY ONLY <1>t, <2>5, <2>6, <2>7, <2>8, ErrorsAppended, SMTT(90)
  <2> QED
    BY <2>3, <2>4, <2>6, <2>9 DEF CollectedInOrder
<1>7. CASE DQBuf
  <2> DEFINE d == Head(doneList)
  <2>1. /\ doneList # << >> /\ d \in Range(doneList) /\ d \notin Range(Tail(doneList))
        /\ d \in Buffers /\ d # held
    <3>1. doneList # << >> /\ IsInjective(doneList)
      BY <1>7 DEF DQBuf, QueueInv, Places
    <3>2. d \in Range(doneList) /\ d \notin Range(Tail(doneList)) /\ d \in Buffers
      BY <1>t, <3>1, TailDistinct
    <3>3. d # held
      BY <3>2, ListedBuffers, VideoQueueAssumption
    <3> QED
      BY <3>1, <3>2, <3>3
  <2>2. /\ doneList' = Tail(doneList) /\ vb' = [vb EXCEPT ![d] = "DEQUEUED"]
        /\ UNCHANGED <<held, seqOf, sequence>>
    BY <1>7 DEF DQBuf, listVars
  <2> HIDE DEF d
  <2>3. Taken # << >> /\ Taken \in Seq(Buffers) /\ Taken' = Tail(Taken)
    <3>1. CASE held = NoBuffer
      BY <1>t, <2>1, <2>2, <3>1 DEF Taken
    <3>2. CASE held # NoBuffer
      <4>1. held \in Buffers
        BY <3>2, ListedBuffers
      <4>2. Tail(Append(doneList, held)) = Append(Tail(doneList), held)
        BY <1>t, <2>1, <4>1
      <4>3. Append(doneList, held) # << >> /\ Append(doneList, held) \in Seq(Buffers)
        <5>1. Append(doneList, held) \in Seq(Buffers) /\ Len(Append(doneList, held)) = Len(doneList) + 1
              /\ Len(doneList) \in Nat
          BY <1>t, <4>1
        <5> QED
          BY <5>1
      <4> QED
        BY <2>2, <3>2, <4>2, <4>3 DEF Taken
    <3> QED
      BY <3>1, <3>2
  <2>4. InOrder(Tail(Taken), vb, seqOf, sequence)
    BY <1>n, <2>3, OldestCollected DEF CollectedInOrder
  <2>5. \A i \in DOMAIN Tail(Taken) : vb'[Tail(Taken)[i]] = vb[Tail(Taken)[i]]
    <3>1. \A i \in DOMAIN Tail(Taken) :
            Tail(Taken)[i] \in Range(Tail(doneList)) \/ Tail(Taken)[i] = held
      <4>1. CASE held = NoBuffer
        BY <4>1 DEF Taken, Range
      <4>2. CASE held # NoBuffer
        <5>1. held \in Buffers /\ Tail(doneList) \in Seq(Buffers)
          BY <1>t, <2>1, <4>2, ListedBuffers
        <5>2. Taken' = Append(Tail(doneList), held)
          BY <2>2, <4>2 DEF Taken
        <5>3. Range(Taken') = Range(Tail(doneList)) \cup {held}
          <6> DEFINE rest == Tail(doneList)
          <6>1. rest \in Seq(Buffers) /\ held \in Buffers /\ Taken' = Append(rest, held)
            BY ONLY <5>1, <5>2
          <6> HIDE DEF rest
          <6>2. Range(Append(rest, held)) = Range(rest) \cup {held}
            BY ONLY <6>1, AppendDistinct
          <6> QED
            BY ONLY <6>1, <6>2 DEF rest
        <5> QED
          BY <2>3, <5>3 DEF Range
      <4> QED
        BY <4>1, <4>2
    <3> QED
      BY <1>t, <2>1, <2>2, <3>1
  <2>6. InOrder(Tail(Taken), vb', seqOf, sequence)
    BY <2>4, <2>5, SameFrames
  <2> QED
    BY <2>2, <2>3, <2>6 DEF CollectedInOrder
<1>8. CASE StreamOn
  <2>1. ~startCalled
    BY <1>8 DEF StreamOn, QueueInv, Phases
  <2>2. CASE UNCHANGED <<vb, doneList, listVars>>
    BY <1>n, <2>2, OthersKeepOrder DEF listVars
  <2> QED
    BY <1>8, <1>e, <2>1, <2>2 DEF StreamOn, StartFails
<1>9. CASE StopStreaming
  <2>1. held = NoBuffer
    BY <1>9 DEF StopStreaming, QueueInv, Phases
  <2>2. Taken = doneList /\ Taken' = doneList \o buffers
    BY <1>9, <2>1 DEF StopStreaming, Taken
  <2>3. \A i \in DOMAIN doneList : vb'[doneList[i]] = vb[doneList[i]]
    <3>1. \A i \in DOMAIN doneList :
            doneList[i] \in Buffers /\ doneList[i] \notin Range(buffers)
      BY ListedBuffers DEF Range
    <3> QED
      BY <1>9, <3>1 DEF StopStreaming, Moved
  <2>4. \A i \in DOMAIN buffers : vb'[buffers[i]] = "ERROR"
    <3>1. \A i \in DOMAIN buffers :
            buffers[i] \in Buffers /\ buffers[i] \in Range(buffers)
      BY ListedBuffers DEF Range
    <3> QED
      BY <1>9, <3>1 DEF StopStreaming, Moved
  <2>5. InOrder(doneList \o buffers, vb', seqOf, sequence)
    <3>1. InOrder(doneList, vb, seqOf, sequence)
      BY <1>n, <2>2 DEF CollectedInOrder
    <3> QED
      BY ONLY <1>t, <2>3, <2>4, <3>1, ErrorsAppended, SMTT(90)
  <2> QED
    BY <1>9, <2>2, <2>5 DEF StopStreaming, CollectedInOrder
<1>10. CASE CancelQueue
  <2>1. doneList' = << >> /\ held' = NoBuffer
    BY <1>10 DEF CancelQueue, listVars, QueueInv, Phases
  <2> QED
    BY <2>1, NoneKeepsOrder
<1>11. CASE ClockTake
  <2> DEFINE h == Head(buffers)
  <2>1. held = NoBuffer /\ h \in Range(buffers) /\ h \in Buffers /\ vb[h] = "ACTIVE"
        /\ h # NoBuffer
    BY <1>11, <1>t, TailDistinct, ListedBuffers, VideoQueueAssumption
       DEF ClockTake, QueueInv, Phases
  <2>2. /\ held' = h /\ UNCHANGED <<vb, doneList>>
        /\ seqOf' = [seqOf EXCEPT ![h] = sequence]
        /\ sequence' = IF sequence + 1 = SeqModulus THEN 0 ELSE sequence + 1
    BY <1>11 DEF ClockTake, vb2Vars
  <2> HIDE DEF h
  <2>3. sequence' = Successor(sequence)
    <3>1. sequence \in 0 .. SeqModulus - 1 /\ SeqModulus \in Nat \ {0}
      BY VideoQueueAssumption DEF TypeInv, TypeOK
    <3> QED
      BY <2>2, <3>1 DEF Successor
  <2>4. Taken = doneList /\ Taken' = Append(doneList, h)
    BY <2>1, <2>2 DEF Taken
  <2>5. \A i \in DOMAIN doneList : seqOf'[doneList[i]] = seqOf[doneList[i]]
    <3>1. \A i \in DOMAIN doneList :
            doneList[i] \in Buffers /\ vb[doneList[i]] # "ACTIVE"
      BY ListedBuffers DEF Range
    <3> QED
      BY <1>t, <2>1, <2>2, <3>1
  <2>6. seqOf'[h] = sequence
    BY <1>t, <2>1, <2>2
  <2>7. InOrder(Append(doneList, h), vb, seqOf', Successor(sequence))
    BY <1>t, <1>n, <2>1, <2>4, <2>5, <2>6, FrameAppended DEF CollectedInOrder
  <2> QED
    BY <2>2, <2>3, <2>4, <2>7 DEF CollectedInOrder
<1>12. CASE ClockComplete
  <2>1. held \in Buffers /\ held # NoBuffer /\ vb[held] = "ACTIVE"
    BY <1>12, ListedBuffers DEF ClockComplete, TypeInv
  <2>2. Taken' = Taken
    BY <1>12, <2>1 DEF ClockComplete, Taken
  <2>3. vb' = [vb EXCEPT ![held] = "DONE"] /\ UNCHANGED <<seqOf, sequence>>
    BY <1>12 DEF ClockComplete
  <2>4. \A i \in DOMAIN Taken : vb'[Taken[i]] = "ERROR" <=> vb[Taken[i]] = "ERROR"
    BY <1>t, <2>1, <2>3, TakenBuffers
  <2>5. InOrder(Taken, vb', seqOf, sequence)
    BY <1>n, <2>4, SameFrames DEF CollectedInOrder
  <2> QED
    BY <2>2, <2>3, <2>5 DEF CollectedInOrder
<1>13. CASE UNCHANGED <<vb, doneList, held, seqOf, sequence>>
  BY <1>13, <1>n, OthersKeepOrder
<1> QED
  BY <1>1, <1>2, <1>3, <1>4, <1>5, <1>6, <1>7, <1>8, <1>9, <1>10, <1>11,
     <1>12, <1>13
     DEF Next, Process, Clock, vars, vb2Vars, listVars, StreamOffIdle,
         StreamOffRunning, ClockExit, ClockLock, ClockFindsNone, ClockWake

LEMMA UnstartedStep ==
  ASSUME StartMayFail = FALSE, TypeInv, QueueInv, NumberInv, [Next]_vars
  PROVE  Unstarted'
<1> USE DEF NumberInv, Unstarted, QueueInv, Phases, vb2Vars
<1>1. ASSUME NEW b \in Buffers, QBufStarts(b) PROVE Unstarted'
  BY <1>1 DEF QBufStarts, StartStreaming, StartFails
<1>2. CASE StreamOn
  BY <1>2 DEF StreamOn, StartStreaming, StartFails
<1>3. CASE BufferQueueInterrupted \/ StopStreaming \/ ClockComplete
  BY <1>3 DEF BufferQueueInterrupted, StopStreaming, ClockComplete
<1>4. CASE DQBuf
  BY <1>4 DEF DQBuf
<1>5. CASE doneList' = << >>
  BY <1>5
<1>6. CASE UNCHANGED <<doneList, startCalled>>
  BY <1>6
<1> QED
  BY <1>1, <1>2, <1>3, <1>4, <1>5, <1>6
     DEF Next, Process, Clock, vars, ReqBufs, QBufWaits, QBufRunning, BufferQueue,
         StreamOffIdle, StreamOffRunning, CancelQueue, ClockExit, ClockLock,
         ClockFindsNone, ClockTake, ClockWake

LEMMA NumberInvariant == ASSUME StartMayFail = FALSE PROVE Spec => []NumberInv
<1>1. Init => NumberInv
  BY NoneInOrder DEF Init, NumberInv, CollectedInOrder, Taken, Unstarted
<1>2. TypeInv /\ QueueInv /\ NumberInv /\ [Next]_vars => NumberInv'
  BY NumberStep, UnstartedStep DEF NumberInv
<1> QED
  BY <1>1, <1>2, TypeInvariant, QueueInvariant, PTL DEF Spec

(* While starts succeed, the process collects frames with consecutive      *)
(* numbers, whatever interrupted QBUFs put between them and wherever the   *)
(* counter wraps, although a number is given under frames_mutex and the    *)
(* buffer completed after it was released.                                 *)
THEOREM CollectedInOrderHolds ==
  ASSUME StartMayFail = FALSE PROVE Spec => []CollectedInOrder
<1>1. NumberInv => CollectedInOrder
  BY DEF NumberInv
<1> QED
  BY <1>1, NumberInvariant, PTL

-----------------------------------------------------------------------------
(* The queue implements BufferLoan.                                        *)

Entries == [buffer : Buffers, ok : BOOLEAN, number : 0 .. SeqModulus - 1]

(* The entries of a list of buffers, by what is done to the list.          *)
LEMMA EntriesAreListed ==
  ASSUME NEW list \in Seq(Buffers), NEW st, NEW num \in [Buffers -> 0 .. SeqModulus - 1]
  PROVE  /\ EntriesOf(list, st, num) \in Seq(Entries)
         /\ Len(EntriesOf(list, st, num)) = Len(list)
         /\ \A i \in 1 .. Len(list) :
              EntriesOf(list, st, num)[i] = Entry(list[i], st, num)
         /\ \A b \in Buffers : Entry(b, st, num) \in Entries
<1>1. \A b \in Buffers : Entry(b, st, num) \in Entries
  BY VideoQueueAssumption DEF Entry, Entries
<1>2. DOMAIN list = 1 .. Len(list) /\ Len(list) \in Nat
  OBVIOUS
<1>3. \A i \in DOMAIN list : list[i] \in Buffers
  OBVIOUS
<1> HIDE DEF Entries
<1> QED
  BY <1>1, <1>2, <1>3 DEF EntriesOf

LEMMA EntriesKept ==
  ASSUME NEW list, NEW st, NEW num, NEW st2, NEW num2,
         \A b \in Range(list) : st2[b] = st[b] /\ num2[b] = num[b]
  PROVE  EntriesOf(list, st2, num2) = EntriesOf(list, st, num)
<1>1. \A i \in DOMAIN list : Entry(list[i], st2, num2) = Entry(list[i], st, num)
  BY DEF Entry, Range
<1> QED
  BY <1>1 DEF EntriesOf

LEMMA EntriesConcat ==
  ASSUME NEW list \in Seq(Buffers), NEW t \in Seq(Buffers), NEW st,
         NEW num \in [Buffers -> 0 .. SeqModulus - 1]
  PROVE  EntriesOf(list \o t, st, num)
           = EntriesOf(list, st, num) \o EntriesOf(t, st, num)
<1> DEFINE more == list \o t
           E    == EntriesOf(list, st, num)
           F    == EntriesOf(t, st, num)
           G    == EntriesOf(more, st, num)
<1>1. /\ more \in Seq(Buffers) /\ Len(more) = Len(list) + Len(t)
      /\ \A i \in 1 .. Len(list) + Len(t) :
           more[i] = IF i <= Len(list) THEN list[i] ELSE t[i - Len(list)]
      /\ Len(list) \in Nat /\ Len(t) \in Nat
  BY ConcatProperties
<1> HIDE DEF more
<1>2. /\ E \in Seq(Entries) /\ Len(E) = Len(list)
      /\ \A i \in 1 .. Len(list) : E[i] = Entry(list[i], st, num)
  BY EntriesAreListed
<1>3. /\ F \in Seq(Entries) /\ Len(F) = Len(t)
      /\ \A i \in 1 .. Len(t) : F[i] = Entry(t[i], st, num)
  BY EntriesAreListed
<1>4. /\ G \in Seq(Entries) /\ Len(G) = Len(more)
      /\ \A i \in 1 .. Len(more) : G[i] = Entry(more[i], st, num)
  BY <1>1, EntriesAreListed
<1> HIDE DEF E, F, G
<1>5. /\ E \o F \in Seq(Entries) /\ Len(E \o F) = Len(E) + Len(F)
      /\ \A i \in 1 .. Len(E) + Len(F) :
           (E \o F)[i] = IF i <= Len(E) THEN E[i] ELSE F[i - Len(E)]
  <2>1. E \in Seq(Entries) /\ F \in Seq(Entries)
    BY <1>2, <1>3
  <2> QED
    BY ONLY <2>1, ConcatProperties
<1>6. ASSUME NEW i \in 1 .. Len(G) PROVE G[i] = (E \o F)[i]
  <2>1. CASE i <= Len(list)
    <3>1. i \in 1 .. Len(list) /\ i \in 1 .. Len(E) + Len(F)
      BY <1>1, <1>2, <1>3, <1>4, <1>6, <2>1
    <3>2. more[i] = list[i] /\ G[i] = Entry(more[i], st, num)
      BY <1>1, <1>4, <1>6, <3>1
    <3>3. (E \o F)[i] = E[i] /\ E[i] = Entry(list[i], st, num)
      BY <1>2, <1>5, <2>1, <3>1
    <3> QED
      BY <3>2, <3>3
  <2>2. CASE ~ (i <= Len(list))
    <3>1. i - Len(list) \in 1 .. Len(t)
      BY <1>1, <1>4, <1>6, <2>2
    <3> QED
      BY <1>1, <1>2, <1>3, <1>4, <1>5, <1>6, <2>2, <3>1
  <2> QED
    BY <2>1, <2>2
<1>7. G = E \o F
  BY <1>1, <1>2, <1>3, <1>4, <1>5, <1>6, SeqEqual
<1> QED
  BY <1>7 DEF E, F, G, more

LEMMA EntriesAppend ==
  ASSUME NEW list \in Seq(Buffers), NEW b \in Buffers, NEW st,
         NEW num \in [Buffers -> 0 .. SeqModulus - 1]
  PROVE  EntriesOf(Append(list, b), st, num)
           = Append(EntriesOf(list, st, num), Entry(b, st, num))
<1> DEFINE one == << b >>
           F   == EntriesOf(one, st, num)
           E   == EntriesOf(list, st, num)
           e   == Entry(b, st, num)
<1>1. one \in Seq(Buffers) /\ Append(list, b) = list \o one
  BY AppendAsConcat
<1>2. Len(one) = 1 /\ one[1] = b
  OBVIOUS
<1> HIDE DEF one
<1>3. EntriesOf(Append(list, b), st, num) = E \o F
  BY <1>1, EntriesConcat
<1>4. E \in Seq(Entries) /\ F \in Seq(Entries) /\ Len(F) = 1 /\ F[1] = e /\ e \in Entries
  BY <1>1, <1>2, EntriesAreListed
<1> HIDE DEF E, F, e
<1>5. F = << e >>
  <2> DEFINE g == << e >>
  <2>1. g \in Seq(Entries) /\ Len(g) = 1 /\ g[1] = e
    BY <1>4
  <2> HIDE DEF g
  <2>2. F = g
    BY <1>4, <2>1, SeqEqual
  <2> QED
    BY <2>2 DEF g
<1>6. Append(E, e) = E \o << e >>
  BY <1>4, AppendAsConcat
<1> QED
  BY <1>3, <1>5, <1>6 DEF E, e

LEMMA EntriesTail ==
  ASSUME NEW list \in Seq(Buffers), list # << >>, NEW st,
         NEW num \in [Buffers -> 0 .. SeqModulus - 1]
  PROVE  /\ EntriesOf(list, st, num) # << >>
         /\ EntriesOf(Tail(list), st, num) = Tail(EntriesOf(list, st, num))
<1> DEFINE less == Tail(list)
           E    == EntriesOf(list, st, num)
           F    == EntriesOf(less, st, num)
<1>1. /\ less \in Seq(Buffers) /\ Len(list) \in Nat \ {0} /\ Len(less) = Len(list) - 1
      /\ \A i \in 1 .. Len(list) - 1 : less[i] = list[i + 1]
  OBVIOUS
<1> HIDE DEF less
<1>2. /\ E \in Seq(Entries) /\ Len(E) = Len(list)
      /\ \A i \in 1 .. Len(list) : E[i] = Entry(list[i], st, num)
  BY EntriesAreListed
<1>3. /\ F \in Seq(Entries) /\ Len(F) = Len(less)
      /\ \A i \in 1 .. Len(less) : F[i] = Entry(less[i], st, num)
  BY <1>1, EntriesAreListed
<1> HIDE DEF E, F, Entries
<1>4. E # << >>
  BY <1>1, <1>2
<1>5. /\ Tail(E) \in Seq(Entries) /\ Len(Tail(E)) = Len(E) - 1
      /\ \A i \in 1 .. Len(E) - 1 : Tail(E)[i] = E[i + 1]
  BY <1>2, <1>4
<1>6. ASSUME NEW i \in 1 .. Len(F) PROVE F[i] = Tail(E)[i]
  <2>1. i \in 1 .. Len(list) - 1 /\ i + 1 \in 1 .. Len(list)
    BY <1>1, <1>3, <1>6
  <2>2. F[i] = Entry(list[i + 1], st, num)
    BY <1>1, <1>3, <2>1
  <2>3. Tail(E)[i] = Entry(list[i + 1], st, num)
    BY <1>2, <1>5, <2>1
  <2> QED
    BY <2>2, <2>3
<1>7. F = Tail(E)
  BY <1>1, <1>2, <1>3, <1>5, <1>6, SeqEqual
<1> QED
  BY <1>4, <1>7 DEF E, F, less

(* What is pending and ready in a state of the queue.                      *)
LEMMA MappedLists ==
  ASSUME TypeInv, QueueInv
  PROVE  /\ InHand \in Seq(Buffers) /\ buffers \in Seq(Buffers)
         /\ waiting \in Seq(Buffers) /\ Pending \in Seq(Buffers)
         /\ Range(Pending) = Range(InHand) \cup Range(buffers) \cup Range(waiting)
         /\ \A b \in Range(Pending) : vb[b] \in {"ACTIVE", "QUEUED"}
         /\ Ready \in Seq(Entries) /\ Len(Ready) = Len(doneList)
         /\ doneList \in Seq(Buffers)
<1>1. InHand \in Seq(Buffers) /\ \A b \in Range(InHand) : b = held /\ held # NoBuffer
  BY ListedBuffers DEF InHand, Range
<1>2. /\ buffers \in Seq(Buffers) /\ waiting \in Seq(Buffers)
      /\ doneList \in Seq(Buffers) /\ Range(doneList) \subseteq Buffers
      /\ seqOf \in [Buffers -> 0 .. SeqModulus - 1]
  BY ListedBuffers
<1>3. /\ InHand \o buffers \in Seq(Buffers)
      /\ Range(InHand \o buffers) = Range(InHand) \cup Range(buffers)
  BY <1>1, <1>2, ConcatDistinct
<1>4. /\ Pending \in Seq(Buffers)
      /\ Range(Pending) = Range(InHand) \cup Range(buffers) \cup Range(waiting)
  <2> DEFINE front == InHand \o buffers
  <2>1. front \in Seq(Buffers) /\ Pending = front \o waiting
    BY <1>3 DEF Pending
  <2> HIDE DEF front
  <2>2. front \o waiting \in Seq(Buffers) /\ Range(front \o waiting) = Range(front) \cup Range(waiting)
    BY <1>2, <2>1, ConcatDistinct
  <2> QED
    BY ONLY <1>3, <2>1, <2>2 DEF front
<1>5. \A b \in Range(Pending) : vb[b] \in {"ACTIVE", "QUEUED"}
  BY <1>1, <1>4, ListedBuffers
<1>6. Ready \in Seq(Entries) /\ Len(Ready) = Len(doneList)
  BY <1>2, EntriesAreListed DEF Ready
<1> QED
  BY <1>1, <1>2, <1>4, <1>5, <1>6

(* What is ready does not change with the buffers that are not.            *)
LEMMA ReadyKept ==
  ASSUME UNCHANGED doneList,
         \A b \in Range(doneList) : vb'[b] = vb[b] /\ seqOf'[b] = seqOf[b]
  PROVE  UNCHANGED Ready
BY EntriesKept DEF Ready

LEMMA ConcatAppend ==
  ASSUME NEW S, NEW s \in Seq(S), NEW t \in Seq(S), NEW e \in S
  PROVE  s \o Append(t, e) = Append(s \o t, e)
<1> DEFINE one == << e >>
<1>1. one \in Seq(S) /\ Append(t, e) = t \o one /\ s \o t \in Seq(S)
  BY AppendAsConcat, ConcatProperties
<1>2. Append(s \o t, e) = (s \o t) \o one
  BY <1>1, AppendAsConcat
<1> HIDE DEF one
<1> QED
  BY <1>1, <1>2, ConcatAssociative, SMTT(20)

(* A buffer the process owns is not lent.                                  *)
LEMMA NotLent ==
  ASSUME TypeInv, QueueInv, NEW b \in Buffers, vb[b] = "DEQUEUED"
  PROVE  b \notin Loan!Lent
<1>1. b \notin Range(Pending)
  BY MappedLists
<1>2. \A i \in DOMAIN Ready : Ready[i].buffer \in Range(doneList)
  BY DEF Ready, EntriesOf, Entry, Range
<1>3. b \notin Range(doneList)
  BY ListedBuffers
<1> QED
  BY <1>1, <1>2, <1>3 DEF Loan!Lent, Loan!Range, Range

(* QBUF without a start.                                                   *)
LEMMA QBufLends ==
  ASSUME TypeInv, QueueInv, NEW b \in Buffers, vb[b] = "DEQUEUED",
         vb' = [vb EXCEPT ![b] = "QUEUED"], waiting' = Append(waiting, b),
         UNCHANGED <<doneList, listVars>>
  PROVE  Loan!Lend(b)
<1>1. Pending' = Append(Pending, b)
  <2>1. Pending' = (InHand \o buffers) \o Append(waiting, b)
    BY DEF Pending, InHand, listVars
  <2>2. InHand \o buffers \in Seq(Buffers) /\ waiting \in Seq(Buffers)
    BY MappedLists, ConcatProperties
  <2> QED
    BY <2>1, <2>2, ConcatAppend, SMTT(20) DEF Pending
<1>2. UNCHANGED Ready
  <2>1. \A c \in Range(doneList) : c \in Buffers /\ c # b
    BY ListedBuffers
  <2> QED
    BY <2>1, ListedBuffers, ReadyKept DEF listVars
<1>3. UNCHANGED NextNumber
  BY DEF NextNumber, listVars
<1> QED
  BY <1>1, <1>2, <1>3, NotLent DEF Loan!Lend

(* A start changes what is pending from queued to listed only.             *)
LEMMA StartLists ==
  ASSUME TypeInv, QueueInv, Unstarted, ~startCalled, NEW queued \in Seq(Buffers),
         StartStreaming(queued)
  PROVE  /\ Pending = waiting /\ Pending' = queued
         /\ Ready = << >> /\ Ready' = << >>
         /\ NextNumber' = 0
<1>1. buffers = << >> /\ held = NoBuffer /\ doneList = << >>
  BY DEF QueueInv, Phases, Unstarted
<1>2. InHand = << >> /\ InHand' = << >>
  BY <1>1 DEF InHand, StartStreaming
<1>3. buffers' = queued
  <2>1. Range(buffers) \cap Range(queued) = {}
    BY <1>1, EmptyDistinct
  <2>2. buffers' = buffers \o queued
    BY <2>1, AddTailFresh DEF StartStreaming
  <2> QED
    BY <1>1, <2>2, ConcatEmptySeq
<1>4. << >> \in Seq(Buffers) /\ waiting \in Seq(Buffers)
  BY ListedBuffers
<1>5. Pending = waiting
  BY <1>1, <1>2, <1>4, ConcatEmptySeq DEF Pending
<1>6. Pending' = queued
  BY <1>2, <1>3, <1>4, ConcatEmptySeq DEF Pending, StartStreaming
<1>7. Ready = << >> /\ Ready' = << >>
  BY <1>1 DEF Ready, EntriesOf, StartStreaming
<1>8. NextNumber' = 0
  BY <1>1 DEF NextNumber, StartStreaming
<1> QED
  BY <1>5, <1>6, <1>7, <1>8

(* Every step of the queue is a step of the loan or changes nothing of it. *)
LEMMA LoanStep ==
  ASSUME StartMayFail = FALSE, TypeInv, QueueInv, NumberInv, [Next]_vars,
         TypeInv'
  PROVE  [Loan!LoanNext]_(Loan!loanVars)
<1> DEFINE Step == [Loan!LoanNext]_(Loan!loanVars)
<1>t. /\ InHand \in Seq(Buffers) /\ buffers \in Seq(Buffers)
      /\ waiting \in Seq(Buffers) /\ doneList \in Seq(Buffers)
      /\ Pending \in Seq(Buffers) /\ Ready \in Seq(Entries)
      /\ Len(Ready) = Len(doneList)
      /\ vb \in [Buffers -> VbStates] /\ seqOf \in [Buffers -> 0 .. SeqModulus - 1]
  BY MappedLists, ListedBuffers
<1>s. ASSUME UNCHANGED <<Pending, Ready, NextNumber>> PROVE Step
  BY <1>s DEF Loan!loanVars
<1>r. ASSUME Pending' = << >>, Ready' = << >>, UNCHANGED NextNumber PROVE Step
  BY <1>r DEF Loan!ReturnAll, Loan!LoanNext
<1>l. ASSUME NEW b \in Buffers, Loan!Lend(b) PROVE Step
  BY <1>l DEF Loan!LoanNext
<1>1. ASSUME NEW S \in SUBSET Buffers, ReqBufs(S) PROVE Step
  <2>1. held = NoBuffer /\ buffers = << >>
    BY <1>1 DEF ReqBufs, QueueInv, Phases
  <2>2. Pending' = << >> /\ Ready' = << >> /\ UNCHANGED NextNumber
    BY <1>1, <2>1, EmptySeq, ConcatEmptySeq
       DEF ReqBufs, listVars, Pending, InHand, Ready, EntriesOf, NextNumber
  <2> QED
    BY <1>r, <2>2
<1>2. ASSUME NEW b \in Buffers, QBufWaits(b) PROVE Step
  BY <1>2, <1>l, QBufLends DEF QBufWaits
<1>3. ASSUME NEW b \in Buffers, QBufStarts(b) PROVE Step
  <2>1. StartStreaming(Append(waiting, b)) /\ vb[b] = "DEQUEUED" /\ ~startCalled
    BY <1>3 DEF QBufStarts, StartFails
  <2>2. Append(waiting, b) \in Seq(Buffers)
    BY <1>t
  <2>3. /\ Pending' = Append(Pending, b)
        /\ Ready = << >> /\ Ready' = << >> /\ NextNumber' = 0
    BY <2>1, <2>2, StartLists DEF NumberInv
  <2> QED
    BY <2>1, <2>3, NotLent DEF Loan!LendAndStart, Loan!LoanNext
<1>4. ASSUME NEW b \in Buffers, QBufRunning(b) PROVE Step
  <2>1. waiting = << >> /\ waiting' = Append(waiting, b)
    BY <1>4 DEF QBufRunning, QueueInv, Phases
  <2> QED
    BY <1>4, <1>l, <2>1, QBufLends DEF QBufRunning
<1>5. ASSUME ioctl = "handover"
      PROVE  /\ waiting = << Head(waiting) >>
             /\ Head(waiting) \in Buffers /\ vb[Head(waiting)] = "QUEUED"
             /\ Head(waiting) \notin Range(doneList)
  <2>1. Len(waiting) = 1
    BY <1>5 DEF QueueInv, Phases
  <2>2. waiting = << Head(waiting) >> /\ waiting # << >>
    <3> DEFINE one == << Head(waiting) >>
    <3>1. waiting # << >> /\ waiting[1] = Head(waiting) /\ Head(waiting) \in Buffers
      <4>1. waiting \in Seq(Buffers) /\ Len(waiting) = 1
        BY <1>t, <2>1
      <4> QED
        BY ONLY <4>1
    <3>2. one \in Seq(Buffers) /\ Len(one) = 1 /\ one[1] = Head(waiting)
      BY <3>1
    <3> HIDE DEF one
    <3>3. waiting = one
      BY <1>t, <2>1, <3>1, <3>2, SeqEqual
    <3> QED
      BY <3>1, <3>3 DEF one
  <2>3. Head(waiting) \in Range(waiting)
    BY <1>t, <2>2, TailDistinct
  <2> QED
    BY <2>2, <2>3, ListedBuffers
<1>6. CASE BufferQueue
  <2>1. buffers' = buffers \o waiting /\ waiting' = << >>
    <3>1. Range(buffers) \cap Range(waiting) = {}
      BY ListedBuffers
    <3> QED
      BY <1>6, <3>1, AddTailFresh DEF BufferQueue
  <2>2. UNCHANGED <<InHand, NextNumber>>
    BY <1>6 DEF BufferQueue, InHand, NextNumber
  <2>3. UNCHANGED Pending
    <3>1. Pending = InHand \o (buffers \o waiting)
      <4>1. InHand \in Seq(Buffers) /\ buffers \in Seq(Buffers) /\ waiting \in Seq(Buffers)
        BY <1>t
      <4> QED
        BY ONLY <4>1, ConcatAssociative DEF Pending
    <3>2. Pending' = InHand \o (buffers \o waiting) \o << >>
      BY <2>1, <2>2 DEF Pending
    <3> QED
      BY ONLY <1>t, <3>1, <3>2, ConcatEmptySeq
  <2>4. UNCHANGED Ready
    BY <1>6, <1>t, <1>5, ListedBuffers, ReadyKept DEF BufferQueue
  <2> QED
    BY <1>s, <2>2, <2>3, <2>4
<1>7. CASE BufferQueueInterrupted
  <2> DEFINE w == Head(waiting)
  <2>1. ioctl = "handover" /\ held = NoBuffer /\ held' = NoBuffer
    BY <1>7 DEF BufferQueueInterrupted, QueueInv, Phases, listVars
  <2>2. /\ w \in Buffers /\ w \notin Range(doneList)
        /\ buffers \o waiting = Append(buffers, w)
    BY <1>t, <1>5, <2>1, AppendAsConcat
  <2>3. /\ vb' = [vb EXCEPT ![w] = "ERROR"] /\ doneList' = Append(doneList, w)
        /\ waiting' = << >> /\ UNCHANGED <<buffers, seqOf, sequence>>
    BY <1>7 DEF BufferQueueInterrupted, listVars
  <2> HIDE DEF w
  <2>4. Pending = Append(buffers, w) /\ Pending' = buffers
    BY <1>t, <2>1, <2>2, <2>3, EmptySeq, ConcatEmptySeq DEF Pending, InHand
  <2>5. /\ Pending # << >> /\ Pending[Len(Pending)] = w
        /\ SubSeq(Pending, 1, Len(Pending) - 1) = buffers
    BY <1>t, <2>2, <2>4
  <2>6. Ready' = Append(Ready, Loan!Failed(w))
    <3>1. EntriesOf(doneList, vb', seqOf) = Ready
      <4>1. \A b \in Range(doneList) : vb'[b] = vb[b]
        BY <1>t, <2>2, <2>3, ListedBuffers
      <4> QED
        BY <4>1, EntriesKept DEF Ready
    <3>2. Ready' = Append(EntriesOf(doneList, vb', seqOf), Entry(w, vb', seqOf))
      <4>1. /\ doneList \in Seq(Buffers) /\ w \in Buffers
            /\ seqOf \in [Buffers -> 0 .. SeqModulus - 1]
        BY <1>t, <2>2
      <4>2. Ready' = EntriesOf(Append(doneList, w), vb', seqOf)
        BY ONLY <2>3 DEF Ready
      <4>3. EntriesOf(Append(doneList, w), vb', seqOf)
              = Append(EntriesOf(doneList, vb', seqOf), Entry(w, vb', seqOf))
        BY ONLY <4>1, EntriesAppend
      <4> QED
        BY ONLY <4>2, <4>3
    <3>3. Entry(w, vb', seqOf) = Loan!Failed(w)
      BY <1>t, <2>2, <2>3 DEF Entry, Loan!Failed
    <3> QED
      BY ONLY <3>1, <3>2, <3>3
  <2>7. UNCHANGED NextNumber
    BY <2>1, <2>3 DEF NextNumber
  <2> QED
    BY <2>4, <2>5, <2>6, <2>7 DEF Loan!Refuse, Loan!LoanNext
<1>8. CASE DQBuf
  <2> DEFINE d == Head(doneList)
             rest == Tail(doneList)
  <2>1. doneList # << >> /\ rest \in Seq(Buffers) /\ d \notin Range(rest)
        /\ Range(rest) \subseteq Buffers
    BY <1>8, <1>t, TailDistinct, RangeOfSeq DEF DQBuf, QueueInv, Places
  <2>2. /\ doneList' = rest /\ vb' = [vb EXCEPT ![d] = "DEQUEUED"]
        /\ UNCHANGED <<waiting, held, buffers, seqOf, sequence>>
    BY <1>8 DEF DQBuf, listVars
  <2>3. Ready # << >> /\ EntriesOf(rest, vb, seqOf) = Tail(Ready)
    BY <1>t, <2>1, EntriesTail DEF Ready
  <2> HIDE DEF d, rest
  <2>4. Ready' = EntriesOf(rest, vb, seqOf)
    <3>1. \A b \in Range(rest) : vb'[b] = vb[b]
      BY <1>t, <2>1, <2>2
    <3> QED
      <4>1. Ready' = EntriesOf(rest, vb', seqOf)
        BY <2>2 DEF Ready
      <4>2. EntriesOf(rest, vb', seqOf) = EntriesOf(rest, vb, seqOf)
        BY <3>1, EntriesKept
      <4> QED
        BY <4>1, <4>2
  <2>5. UNCHANGED <<Pending, NextNumber>>
    BY <2>2 DEF Pending, InHand, NextNumber
  <2> QED
    BY <2>3, <2>4, <2>5 DEF Loan!Collect, Loan!LoanNext
<1>9. CASE StreamOn
  <2>1. ~startCalled
    BY <1>9 DEF StreamOn, QueueInv, Phases
  <2>2. CASE StartStreaming(waiting)
    <3>1. UNCHANGED Pending /\ Ready = << >> /\ Ready' = << >> /\ NextNumber' = 0
      BY <1>t, <2>1, <2>2, StartLists DEF NumberInv
    <3> QED
      BY <3>1 DEF Loan!Start, Loan!LoanNext
  <2>3. CASE UNCHANGED <<vb, waiting, doneList, listVars>>
    BY <1>s, <2>3
       DEF listVars, Pending, InHand, Ready, NextNumber
  <2> QED
    BY <1>9, <2>2, <2>3 DEF StreamOn, StartFails
<1>10. CASE StopStreaming
  <2>1. /\ held = NoBuffer /\ waiting = << >>
        /\ doneList' = doneList \o buffers /\ vb' = Moved(buffers, "ERROR")
        /\ buffers' = << >> /\ UNCHANGED <<waiting, held, seqOf, sequence>>
    BY <1>10 DEF StopStreaming, QueueInv, Phases
  <2>2. Pending = buffers /\ Pending' = << >>
    BY <1>t, <2>1, EmptySeq, ConcatEmptySeq DEF Pending, InHand
  <2>3. EntriesOf(doneList, vb', seqOf) = Ready
    <3>1. \A b \in Range(doneList) : vb'[b] = vb[b]
      BY <2>1, ListedBuffers DEF Moved
    <3> QED
      BY <3>1, EntriesKept DEF Ready
  <2>4. EntriesOf(buffers, vb', seqOf) = [i \in DOMAIN buffers |-> Loan!Failed(buffers[i])]
    <3>1. \A i \in DOMAIN buffers : Entry(buffers[i], vb', seqOf) = Loan!Failed(buffers[i])
      <4>1. \A i \in DOMAIN buffers : buffers[i] \in Buffers /\ buffers[i] \in Range(buffers)
        BY ListedBuffers DEF Range
      <4>2. \A i \in DOMAIN buffers : vb'[buffers[i]] = "ERROR"
        BY <2>1, <4>1 DEF Moved
      <4> QED
        BY <4>2 DEF Entry, Loan!Failed
    <3> QED
      BY <3>1 DEF EntriesOf
  <2>5. Ready' = EntriesOf(doneList, vb', seqOf) \o EntriesOf(buffers, vb', seqOf)
    <3>1. Ready' = EntriesOf(doneList \o buffers, vb', seqOf)
      BY <2>1 DEF Ready
    <3>2. /\ doneList \in Seq(Buffers) /\ buffers \in Seq(Buffers)
          /\ seqOf \in [Buffers -> 0 .. SeqModulus - 1]
      BY <1>t
    <3> QED
      BY ONLY <3>1, <3>2, EntriesConcat, SMTT(20)
  <2>6. UNCHANGED NextNumber
    BY <2>1 DEF NextNumber
  <2> QED
    BY <2>2, <2>3, <2>4, <2>5, <2>6 DEF Loan!Abandon, Loan!LoanNext
<1>11. CASE CancelQueue
  <2>1. held = NoBuffer /\ buffers = << >>
    BY <1>11 DEF CancelQueue, QueueInv, Phases
  <2>2. Pending' = << >> /\ Ready' = << >> /\ UNCHANGED NextNumber
    BY <1>11, <2>1, EmptySeq, ConcatEmptySeq
       DEF CancelQueue, listVars, Pending, InHand, Ready, EntriesOf, NextNumber
  <2> QED
    BY <1>r, <2>2
<1>12. CASE ClockTake
  <2> DEFINE h == Head(buffers)
             rest == Tail(buffers)
  <2>1. /\ held = NoBuffer /\ h \in Range(buffers) /\ h \in Buffers
        /\ h # NoBuffer /\ rest \in Seq(Buffers) /\ << h >> \in Seq(Buffers)
        /\ << h >> \o rest = buffers
    <3>1. buffers # << >> /\ held = NoBuffer
      BY <1>12 DEF ClockTake, QueueInv, Phases
    <3>2. h \in Range(buffers) /\ h \in Buffers /\ rest \in Seq(Buffers)
      BY <1>t, <3>1, TailDistinct
    <3>3. << h >> \in Seq(Buffers) /\ << h >> \o rest = buffers
      BY <1>t, <3>1, HeadIsFirst
    <3> QED
      BY <3>1, <3>2, <3>3, VideoQueueAssumption
  <2>2. /\ held' = h /\ buffers' = rest /\ UNCHANGED <<vb, doneList, waiting>>
        /\ seqOf' = [seqOf EXCEPT ![h] = sequence]
    BY <1>12 DEF ClockTake, vb2Vars
  <2> HIDE DEF h, rest
  <2>3. Pending = buffers \o waiting /\ Pending' = << h >> \o rest \o waiting
    BY <1>t, <2>1, <2>2, ConcatEmptySeq DEF Pending, InHand
  <2>4. UNCHANGED Ready
    <3>1. \A b \in Range(doneList) : b \in Buffers /\ b # h
      BY <2>1, ListedBuffers
    <3> QED
      BY <1>t, <2>2, <3>1, ReadyKept
  <2>5. UNCHANGED NextNumber
    BY <1>t, <2>1, <2>2 DEF NextNumber
  <2> QED
    BY <1>s, <2>1, <2>3, <2>4, <2>5
<1>13. CASE ClockComplete
  <2>1. /\ held \in Buffers /\ held # NoBuffer /\ held \notin Range(doneList)
        /\ Range(doneList) \subseteq Buffers
    BY <1>13, ListedBuffers DEF ClockComplete, TypeInv
  <2>2. /\ vb' = [vb EXCEPT ![held] = "DONE"] /\ doneList' = Append(doneList, held)
        /\ held' = NoBuffer /\ UNCHANGED <<waiting, buffers, seqOf, sequence>>
    BY <1>13 DEF ClockComplete
  <2>3. /\ Pending # << >> /\ Head(Pending) = held
        /\ Tail(Pending) = buffers \o waiting
    <3> DEFINE one == << held >>
               behind == buffers \o waiting
    <3>1. one \in Seq(Buffers) /\ Len(one) = 1 /\ one[1] = held
      BY <2>1
    <3>2. behind \in Seq(Buffers)
      BY <1>t, ConcatProperties
    <3>3. Pending = one \o buffers \o waiting
      BY <2>1 DEF Pending, InHand
    <3> HIDE DEF one
    <3>4. Pending = one \o behind
      <4>1. one \in Seq(Buffers) /\ buffers \in Seq(Buffers) /\ waiting \in Seq(Buffers)
        BY <1>t, <3>1
      <4> QED
        BY ONLY <4>1, <3>3, ConcatAssociative DEF behind
    <3> HIDE DEF behind
    <3>5. /\ Len(Pending) = 1 + Len(behind) /\ Len(behind) \in Nat
          /\ Pending[1] = held
          /\ \A i \in 1 .. Len(behind) : Pending[i + 1] = behind[i]
      <4>1. /\ Len(one \o behind) = 1 + Len(behind) /\ Len(behind) \in Nat
            /\ \A i \in 1 .. 1 + Len(behind) :
                 (one \o behind)[i] = IF i <= 1 THEN one[i] ELSE behind[i - 1]
        <5>1. one \in Seq(Buffers) /\ behind \in Seq(Buffers) /\ Len(one) = 1
          BY <3>1, <3>2
        <5>2. Len(one \o behind) = Len(one) + Len(behind)
          BY ONLY <5>1, ConcatProperties
        <5>3. Len(behind) \in Nat
          BY ONLY <5>1
        <5>4. \A i \in 1 .. Len(one) + Len(behind) :
                (one \o behind)[i] = IF i <= Len(one) THEN one[i] ELSE behind[i - Len(one)]
          BY ONLY <5>1, ConcatProperties
        <5> QED
          BY ONLY <5>1, <5>2, <5>3, <5>4
      <4> QED
        BY <3>1, <3>4, <4>1
    <3>6. Pending # << >> /\ Head(Pending) = held
      BY <1>t, <3>5
    <3>7. /\ Tail(Pending) \in Seq(Buffers) /\ Len(Tail(Pending)) = Len(behind)
          /\ \A i \in 1 .. Len(behind) : Tail(Pending)[i] = behind[i]
      BY <1>t, <3>5, <3>6
    <3>8. Tail(Pending) = behind
      BY <3>2, <3>7, SeqEqual
    <3> QED
      BY <3>6, <3>8 DEF behind
  <2>4. Pending' = buffers \o waiting
    BY <1>t, <2>2, ConcatEmptySeq DEF Pending, InHand
  <2>5. NextNumber = seqOf[held] /\ NextNumber' = sequence
    BY <2>1, <2>2 DEF NextNumber
  <2>6. sequence = Successor(seqOf[held])
    <3>1. /\ Taken = Append(doneList, held) /\ Len(doneList) \in Nat
          /\ DOMAIN Taken = 1 .. Len(doneList) + 1
          /\ Taken[Len(doneList) + 1] = held
      BY <1>t, <2>1 DEF Taken
    <3>2. vb[held] # "ERROR"
      BY <2>1, ListedBuffers
    <3> QED
      BY <3>1, <3>2 DEF NumberInv, CollectedInOrder, InOrder
  <2>7. Ready' = Append(Ready, Loan!Ok(held, NextNumber))
    <3>1. EntriesOf(doneList, vb', seqOf) = Ready
      <4>1. \A b \in Range(doneList) : vb'[b] = vb[b]
        BY <1>t, <2>1, <2>2
      <4> QED
        BY <4>1, EntriesKept DEF Ready
    <3>2. Ready' = Append(EntriesOf(doneList, vb', seqOf), Entry(held, vb', seqOf))
      <4>1. /\ doneList \in Seq(Buffers) /\ held \in Buffers
            /\ seqOf \in [Buffers -> 0 .. SeqModulus - 1]
        BY <1>t, <2>1
      <4>2. Ready' = EntriesOf(Append(doneList, held), vb', seqOf)
        BY ONLY <2>2 DEF Ready
      <4>3. EntriesOf(Append(doneList, held), vb', seqOf)
              = Append(EntriesOf(doneList, vb', seqOf), Entry(held, vb', seqOf))
        BY ONLY <4>1, EntriesAppend
      <4> QED
        BY ONLY <4>2, <4>3
    <3>3. Entry(held, vb', seqOf) = Loan!Ok(held, NextNumber)
      BY <1>t, <2>1, <2>2, <2>5 DEF Entry, Loan!Ok
    <3> QED
      BY ONLY <3>1, <3>2, <3>3
  <2>8. Loan!Serve
    BY <2>3, <2>4, <2>5, <2>6, <2>7 DEF Loan!Serve, Successor
  <2> QED
    BY <2>8 DEF Loan!LoanNext
<1>14. CASE UNCHANGED <<vb, waiting, doneList, held, buffers, seqOf, sequence>>
  BY <1>s, <1>14 DEF Pending, InHand, Ready, NextNumber
<1> QED
  BY <1>1, <1>2, <1>3, <1>4, <1>6, <1>7, <1>8, <1>9, <1>10, <1>11,
     <1>12, <1>13, <1>14
     DEF Next, Process, Clock, vars, vb2Vars, listVars, StreamOffIdle,
         StreamOffRunning, ClockExit, ClockLock, ClockFindsNone, ClockWake

LEMMA LoanInitially == Init => Loan!LoanInit
<1>1. Init => Pending = << >>
  BY EmptySeq, ConcatEmptySeq DEF Init, Pending, InHand
<1>2. Init => Ready = << >> /\ NextNumber = 0
  BY DEF Init, Ready, EntriesOf, NextNumber
<1> QED
  BY <1>1, <1>2 DEF Loan!LoanInit

(* While starts succeed, the queue serves what it is lent in the order of  *)
(* lending, numbers it without a gap and gives every buffer back once,     *)
(* whichever way the ioctls, a signal and the clock thread interleave.     *)
THEOREM QueueImplementsLoan ==
  ASSUME StartMayFail = FALSE PROVE Spec => ImplementsLoan
<1>1. TypeInv /\ TypeInv' /\ QueueInv /\ NumberInv /\ [Next]_vars
        => [Loan!LoanNext]_(Loan!loanVars)
  BY LoanStep
<1> QED
  BY <1>1, LoanInitially, TypeInvariant, QueueInvariant, NumberInvariant, PTL
     DEF Spec, ImplementsLoan, Loan!LoanSpec

=============================================================================
