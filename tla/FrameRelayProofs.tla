-------------------------- MODULE FrameRelayProofs --------------------------
(***************************************************************************)
(* Proofs about FrameRelay, for any number of captures, frames and buffers.*)
(*                                                                         *)
(* Frames are numbered as they are written, so that everything rests on    *)
(* one order: what the captures were given comes before what the clock     *)
(* thread holds, that before what is queued, and that before what is       *)
(* written next.  Between the thread and a capture's reader lie two        *)
(* copies, current and capFrame, which never overtake each other.          *)
(***************************************************************************)
EXTENDS FrameRelay, SequenceTheorems, TLAPS

(* The thread holds a mutex only of a capture that exists.                 *)
StoringServes == outThread = "store" => outNext <= Len(Connected)

(* The frames on their way are in the order in which they were written.    *)
FramesOrdered ==
  /\ outFrame <= written
  /\ \A c \in Captures : received[c] <= written
  /\ \A i \in 1 .. Len(queued) :
       /\ queued[i] <= written
       /\ outFrame < queued[i]
       /\ \A c \in Captures : received[c] < queued[i]
  /\ \A i, j \in 1 .. Len(queued) : i < j => queued[i] < queued[j]

(* A reader is behind what its device was given; a frame on its way to the *)
(* reader lies in between.                                                 *)
ReaderBehind ==
  \A c \in Captures :
    /\ shown[c] <= received[c]
    /\ capThread[c] = "write" /\ capFrame[c] # Substitute =>
         /\ shown[c] <= capFrame[c]
         /\ capFrame[c] <= received[c]

(* A capture has the last frame it was given or none.                      *)
CurrentIsLatest ==
  \A c \in Captures : current[c] \in {NoFrame, received[c]}

(* A capture's thread has a copy of a frame only while it writes it, and   *)
(* none is left when the current frame is about to be deleted.             *)
JoinedFirst ==
  \A c \in Captures :
    /\ clearing[c] => capThread[c] = "none"
    /\ capThread[c] # "write" => capFrame[c] = NoFrame

ClearedBehind == \A c \in Captures : cleared[c] <= received[c]

TypeInv == TypeOK /\ StoringServes

RelayInv ==
  /\ TypeInv /\ FramesOrdered /\ FanOut /\ CurrentIsLatest /\ ReaderBehind
  /\ JoinedFirst /\ ClearedBehind /\ ClearedStaysGone

-----------------------------------------------------------------------------
(* The captures are the elements of Connected, each at one place.          *)
LEMMA ConnectedCaptures ==
  /\ Len(Connected) \in Nat
  /\ DOMAIN Connected = 1 .. Len(Connected)
  /\ \A i \in 1 .. Len(Connected) : Connected[i] \in Captures
  /\ \A c \in Captures : \E i \in 1 .. Len(Connected) : Connected[i] = c
  /\ \A i, j \in 1 .. Len(Connected) : Connected[i] = Connected[j] => i = j
BY FrameRelayAssumption DEF FrameRelayAssumption, Captures, Range, IsInjective

(* The frame numbers are told apart from the marks for none and for the    *)
(* substitute.                                                             *)
LEMMA FrameNumbers ==
  /\ NoFrame \notin Frames /\ Substitute \notin Frames /\ Substitute # NoFrame
  /\ Frames \subseteq Nat /\ NoFrame \in Nat /\ Substitute \in Nat
  /\ \A n \in Frames : NoFrame < n
BY FrameRelayAssumption
DEF FrameRelayAssumption, Frames, NoFrame, Substitute

(* Types and the index of the capture being served.                        *)
LEMMA TypeInvInit == Init => TypeInv
<1> SUFFICES ASSUME Init PROVE TypeInv
  OBVIOUS
<1>1. written \in 0 .. MaxFrames /\ queued \in Seq(Frames) /\ Len(queued) <= MaxQueued
  BY FrameRelayAssumption DEF Init, FrameRelayAssumption
<1>2. outNext \in 1 .. Len(Connected) + 1
  BY ConnectedCaptures DEF Init
<1> QED
  BY <1>1, <1>2 DEF Init, TypeInv, TypeOK, StoringServes

LEMMA TypeInvStep == TypeInv /\ [Next]_vars => TypeInv'
<1> SUFFICES ASSUME TypeInv, [Next]_vars PROVE TypeInv'
  OBVIOUS
<1> USE DEF TypeInv, TypeOK, StoringServes, outVars, slotVars, capVars
<1>1. CASE WriteFrame
  <2>1. written' \in 0 .. MaxFrames /\ written + 1 \in Frames
    BY <1>1, FrameRelayAssumption DEF WriteFrame, Frames, FrameRelayAssumption
  <2>2. queued' \in Seq(Frames) /\ Len(queued') = Len(queued) + 1
    BY <1>1, <2>1 DEF WriteFrame
  <2>3. Len(queued') <= MaxQueued
    BY <1>1, <2>2, FrameRelayAssumption DEF WriteFrame, FrameRelayAssumption
  <2> QED
    BY <1>1, <2>1, <2>2, <2>3 DEF WriteFrame
<1>2. CASE StartOutput
  <2>1. Head(queued) \in Frames
    BY <1>2, FrameRelayAssumption DEF StartOutput, FrameRelayAssumption
  <2> QED
    BY <1>2, <2>1 DEF StartOutput
<1>3. CASE StopOutput
  BY <1>3 DEF StopOutput
<1>4. CASE OutputStopped
  <2>1. << >> \in Seq(Frames) /\ Len(<< >>) <= MaxQueued
    BY FrameRelayAssumption DEF FrameRelayAssumption
  <2> QED
    BY <1>4, <2>1 DEF OutputStopped
<1>5. CASE OutputExits
  BY <1>5 DEF OutputExits
<1>6. CASE ReadFrame
  <2>1. Head(queued) \in Frames /\ Tail(queued) \in Seq(Frames)
        /\ Len(Tail(queued)) <= MaxQueued
    BY <1>6, FrameRelayAssumption DEF ReadFrame, FrameRelayAssumption
  <2>2. outNext' \in 1 .. Len(Connected) + 1
    BY <1>6, ConnectedCaptures DEF ReadFrame
  <2> QED
    BY <1>6, <2>1, <2>2 DEF ReadFrame
<1>7. CASE LockCapture
  BY <1>7, ConnectedCaptures DEF LockCapture
<1>8. CASE StoreFrame
  BY <1>8, ConnectedCaptures DEF StoreFrame
<1>9. CASE PublishDone
  BY <1>9 DEF PublishDone
<1>10. ASSUME NEW c \in Captures, StartCapture(c) PROVE TypeInv'
  BY <1>10 DEF StartCapture
<1>11. ASSUME NEW c \in Captures, StopCapture(c) PROVE TypeInv'
  BY <1>11 DEF StopCapture
<1>12. ASSUME NEW c \in Captures, CaptureJoined(c) PROVE TypeInv'
  BY <1>12 DEF CaptureJoined
<1>13. ASSUME NEW c \in Captures, ClearFrame(c) PROVE TypeInv'
  BY <1>13 DEF ClearFrame
<1>14. ASSUME NEW c \in Captures, ClearInterrupted(c) PROVE TypeInv'
  BY <1>14 DEF ClearInterrupted
<1>15. ASSUME NEW c \in Captures, CaptureExits(c) PROVE TypeInv'
  BY <1>15 DEF CaptureExits
<1>16. ASSUME NEW c \in Captures, SampleFrame(c) PROVE TypeInv'
  BY <1>16 DEF SampleFrame
<1>17. ASSUME NEW c \in Captures, DeliverFrame(c) PROVE TypeInv'
  BY <1>17 DEF DeliverFrame
<1>18. ASSUME NEW c \in Captures, DropFrame(c) PROVE TypeInv'
  BY <1>18 DEF DropFrame
<1>19. CASE UNCHANGED vars
  BY <1>19 DEF vars
<1> QED
  BY <1>1, <1>2, <1>3, <1>4, <1>5, <1>6, <1>7, <1>8, <1>9, <1>10, <1>11, <1>12,
     <1>13, <1>14, <1>15, <1>16, <1>17, <1>18, <1>19 DEF Next

(* Types, as the code declares them, and no index beyond the list.         *)
THEOREM TypesHold == Spec => []TypeOK
<1>1. Spec => []TypeInv
  BY TypeInvInit, TypeInvStep, PTL DEF Spec
<1>2. TypeInv => TypeOK
  BY DEF TypeInv
<1> QED
  BY <1>1, <1>2, PTL

-----------------------------------------------------------------------------
(* The order of the frames.                                                *)

(* What the types say about the numbers.                                   *)
LEMMA FramesAreNumbers ==
  ASSUME TypeInv
  PROVE  /\ written \in Nat /\ outFrame \in Nat
         /\ queued \in Seq(Nat) /\ Len(queued) \in Nat
         /\ \A i \in 1 .. Len(queued) : queued[i] \in Nat
         /\ received \in [Captures -> Nat]
         /\ outNext \in 1 .. Len(Connected) + 1
         /\ outThread = "store" => outNext <= Len(Connected)
<1>1. written \in Nat
  BY FrameRelayAssumption DEF TypeInv, TypeOK, FrameRelayAssumption
<1>2. queued \in Seq(Nat)
  <2>1. queued \in Seq(Frames)
    BY DEF TypeInv, TypeOK
  <2>2. Frames \subseteq Nat
    BY FrameNumbers
  <2> QED
    BY ONLY <2>1, <2>2, SeqMonotonic
<1>3. \A i \in 1 .. Len(queued) : queued[i] \in Nat
  BY <1>2
<1>4. /\ outFrame \in Frames \cup {NoFrame}
      /\ received \in [Captures -> Frames \cup {NoFrame}]
  BY DEF TypeInv, TypeOK
<1>5. outFrame \in Nat /\ received \in [Captures -> Nat]
  BY <1>4, FrameNumbers
<1> QED
  BY <1>1, <1>2, <1>3, <1>5 DEF TypeInv, TypeOK, StoringServes

LEMMA RelayInvInit == Init => RelayInv
<1> SUFFICES ASSUME Init PROVE RelayInv
  OBVIOUS
<1>1. TypeInv
  BY TypeInvInit
<1>2. FramesOrdered
  <2>1. 1 .. Len(queued) = {}
    BY DEF Init
  <2> QED
    BY <2>1 DEF Init, FramesOrdered, NoFrame
<1>3. ReaderBehind /\ CurrentIsLatest
  BY DEF Init, ReaderBehind, CurrentIsLatest, NoFrame
<1>4. FanOut
  BY DEF Init, FanOut
<1>5. JoinedFirst /\ ClearedBehind
  BY DEF Init, JoinedFirst, ClearedBehind, NoFrame
<1>6. ClearedStaysGone
  BY FrameNumbers DEF Init, ClearedStaysGone
<1> QED
  BY <1>1, <1>2, <1>3, <1>4, <1>5, <1>6 DEF RelayInv

(* What a step does to the order: only writing, reading, storing and       *)
(* giving back the buffers touch it.                                       *)
LEMMA FramesOrderedStep == RelayInv /\ [Next]_vars => FramesOrdered'
<1> SUFFICES ASSUME RelayInv, [Next]_vars PROVE FramesOrdered'
  OBVIOUS
<1>t. /\ written \in Nat
      /\ queued \in Seq(Nat) /\ Len(queued) \in Nat
      /\ \A i \in 1 .. Len(queued) : queued[i] \in Nat
      /\ outFrame \in Nat
      /\ received \in [Captures -> Nat]
  BY FramesAreNumbers DEF RelayInv
<1>o. FramesOrdered
  BY DEF RelayInv
<1>1. CASE WriteFrame
  <2>1. /\ written' = written + 1 /\ outFrame' = outFrame /\ received' = received
        /\ queued' = Append(queued, written + 1)
    BY <1>1 DEF WriteFrame, slotVars
  <2>2. /\ Len(queued') = Len(queued) + 1
        /\ \A i \in 1 .. Len(queued) : queued'[i] = queued[i]
        /\ queued'[Len(queued) + 1] = written + 1
    BY <1>t, <2>1
  <2>3. \A i \in 1 .. Len(queued') : i \in 1 .. Len(queued) \/ i = Len(queued) + 1
    BY <1>t, <2>2
  <2>4. /\ outFrame' <= written'
        /\ \A c \in Captures : received'[c] <= written'
    BY <1>o, <1>t, <2>1 DEF FramesOrdered
  <2>5. \A i \in 1 .. Len(queued') :
          /\ queued'[i] <= written'
          /\ outFrame' < queued'[i]
          /\ \A c \in Captures : received'[c] < queued'[i]
    BY <1>o, <1>t, <2>1, <2>2, <2>3 DEF FramesOrdered
  <2>6. \A i, j \in 1 .. Len(queued') : i < j => queued'[i] < queued'[j]
    BY <1>o, <1>t, <2>1, <2>2, <2>3 DEF FramesOrdered
  <2> QED
    BY <2>4, <2>5, <2>6 DEF FramesOrdered
<1>2. CASE OutputStopped
  BY <1>2, <1>o, <1>t DEF OutputStopped, FramesOrdered, slotVars
<1>3. CASE ReadFrame
  <2>1. /\ written' = written /\ received' = received /\ queued # << >>
        /\ queued' = Tail(queued) /\ outFrame' = Head(queued)
    BY <1>3 DEF ReadFrame, slotVars
  <2>2. /\ Len(queued) > 0 /\ Len(queued') = Len(queued) - 1
        /\ \A i \in 1 .. Len(queued') : queued'[i] = queued[i + 1]
        /\ outFrame' = queued[1]
    BY <1>t, <2>1
  <2>3. \A i \in 1 .. Len(queued') : i + 1 \in 1 .. Len(queued) /\ 1 < i + 1
    BY <1>t, <2>2
  <2>4. 1 \in 1 .. Len(queued)
    BY <1>t, <2>2
  <2>5. /\ outFrame' <= written'
        /\ \A c \in Captures : received'[c] <= written'
    BY <1>o, <1>t, <2>1, <2>2, <2>4 DEF FramesOrdered
  <2>6. \A i \in 1 .. Len(queued') :
          /\ queued'[i] <= written'
          /\ outFrame' < queued'[i]
          /\ \A c \in Captures : received'[c] < queued'[i]
    BY <1>o, <1>t, <2>1, <2>2, <2>3, <2>4 DEF FramesOrdered
  <2>7. \A i, j \in 1 .. Len(queued') : i < j => queued'[i] < queued'[j]
    <3> SUFFICES ASSUME NEW i \in 1 .. Len(queued'), NEW j \in 1 .. Len(queued'), i < j
                 PROVE  queued'[i] < queued'[j]
      OBVIOUS
    <3>1. i + 1 < j + 1
      BY <1>t, <2>2
    <3> QED
      BY <1>o, <1>t, <2>2, <2>3, <3>1 DEF FramesOrdered
  <2> QED
    BY <2>5, <2>6, <2>7 DEF FramesOrdered
<1>4. CASE StoreFrame
  <2>1. /\ written' = written /\ queued' = queued /\ outFrame' = outFrame
        /\ \A c \in Captures : received'[c] \in {received[c], outFrame}
    BY <1>4, <1>t DEF StoreFrame
  <2> QED
    BY <1>o, <1>t, <2>1 DEF FramesOrdered
<1>5. CASE PublishDone
  <2>1. /\ written' = written /\ queued' = queued /\ outFrame' = 0
        /\ received' = received
    BY <1>5 DEF PublishDone, slotVars, NoFrame
  <2>2. \A i \in 1 .. Len(queued) : 0 < queued[i]
    BY <1>o, <1>t DEF FramesOrdered
  <2> QED
    BY <1>o, <1>t, <2>1, <2>2 DEF FramesOrdered
<1>6. CASE UNCHANGED <<written, queued, outFrame, received>>
  BY <1>6, <1>o DEF FramesOrdered
<1>7. CASE UNCHANGED vars
  BY <1>6, <1>7 DEF vars, outVars, slotVars
<1>8. ASSUME NEW c \in Captures,
             \/ StartCapture(c) \/ StopCapture(c) \/ CaptureJoined(c)
             \/ ClearFrame(c) \/ ClearInterrupted(c) \/ CaptureExits(c)
             \/ SampleFrame(c) \/ DeliverFrame(c) \/ DropFrame(c)
      PROVE  FramesOrdered'
  BY <1>6, <1>8
  DEF StartCapture, StopCapture, CaptureJoined, ClearFrame, ClearInterrupted,
      CaptureExits, SampleFrame, DeliverFrame, DropFrame, outVars, slotVars
<1>9. CASE StartOutput \/ StopOutput \/ OutputExits \/ LockCapture
  BY <1>6, <1>9 DEF StartOutput, StopOutput, OutputExits, LockCapture, slotVars
<1> QED
  BY <1>1, <1>2, <1>3, <1>4, <1>5, <1>7, <1>8, <1>9 DEF Next

(* FanOut: a frame overtakes what every capture has when it is read, and   *)
(* is handed out along the list, once to each.                             *)
LEMMA FanOutStep == RelayInv /\ [Next]_vars => FanOut'
<1> SUFFICES ASSUME RelayInv, [Next]_vars PROVE FanOut'
  OBVIOUS
<1>t. /\ queued \in Seq(Nat) /\ Len(queued) \in Nat
      /\ \A i \in 1 .. Len(queued) : queued[i] \in Nat
      /\ outFrame \in Nat
      /\ outNext \in 1 .. Len(Connected) + 1
      /\ received \in [Captures -> Nat]
      /\ outThread = "store" => outNext <= Len(Connected)
  BY FramesAreNumbers DEF RelayInv
<1>f. FanOut /\ FramesOrdered
  BY DEF RelayInv
<1>1. CASE ReadFrame
  <2>1. /\ outThread' = "publish" /\ outNext' = 1 /\ received' = received
        /\ outFrame' = queued[1] /\ 1 \in 1 .. Len(queued)
    BY <1>1, <1>t DEF ReadFrame, slotVars
  <2>2. \A c \in Captures : received[c] < queued[1]
    BY <1>f, <2>1 DEF FramesOrdered
  <2> QED
    BY <2>1, <2>2, ConnectedCaptures DEF FanOut
<1>2. CASE StoreFrame
  <2>1. /\ outThread = "store" /\ outThread' = "publish" /\ outFrame' = outFrame
        /\ outNext' = outNext + 1 /\ outNext \in 1 .. Len(Connected)
        /\ received' = [received EXCEPT ![Connected[outNext]] = outFrame]
    BY <1>2, <1>t, ConnectedCaptures DEF StoreFrame
  <2>2. \A i \in 1 .. Len(Connected) :
          IF i < outNext THEN received[Connected[i]] = outFrame
                         ELSE received[Connected[i]] < outFrame
    BY <1>f, <2>1, ConnectedCaptures DEF FanOut
  <2>3. \A i \in 1 .. Len(Connected) :
          received'[Connected[i]] = IF i = outNext THEN outFrame
                                    ELSE received[Connected[i]]
    BY <1>t, <2>1, ConnectedCaptures
  <2>4. \A i \in 1 .. Len(Connected) :
          IF i < outNext' THEN received'[Connected[i]] = outFrame'
                          ELSE received'[Connected[i]] < outFrame'
    BY <2>1, <2>2, <2>3, ConnectedCaptures
  <2> QED
    BY <2>1, <2>4, ConnectedCaptures DEF FanOut
<1>3. CASE PublishDone
  <2>1. /\ outThread = "publish" /\ outThread' = "loop" /\ received' = received
        /\ outNext > Len(Connected)
    BY <1>3 DEF PublishDone, slotVars
  <2>2. \A i \in 1 .. Len(Connected) : received[Connected[i]] = outFrame
    BY <1>f, <1>t, <2>1, ConnectedCaptures DEF FanOut
  <2>3. \A c \in Captures : received[c] = outFrame
    BY <2>2, ConnectedCaptures
  <2> QED
    BY <2>1, <2>3 DEF FanOut
<1>4. CASE LockCapture
  BY <1>4, <1>f DEF LockCapture, FanOut
<1>5. CASE StartOutput \/ OutputStopped \/ OutputExits
  BY <1>5, <1>f DEF StartOutput, OutputStopped, OutputExits, FanOut, slotVars
<1>6. CASE UNCHANGED <<outThread, outNext, outFrame, received>>
  BY <1>6, <1>f DEF FanOut
<1>7. CASE WriteFrame \/ StopOutput \/ UNCHANGED vars
  BY <1>6, <1>7 DEF WriteFrame, StopOutput, vars, outVars, slotVars
<1>8. ASSUME NEW c \in Captures,
             \/ StartCapture(c) \/ StopCapture(c) \/ CaptureJoined(c)
             \/ ClearFrame(c) \/ ClearInterrupted(c) \/ CaptureExits(c)
             \/ SampleFrame(c) \/ DeliverFrame(c) \/ DropFrame(c)
      PROVE  FanOut'
  BY <1>6, <1>8
  DEF StartCapture, StopCapture, CaptureJoined, ClearFrame, ClearInterrupted,
      CaptureExits, SampleFrame, DeliverFrame, DropFrame, outVars, slotVars
<1> QED
  BY <1>1, <1>2, <1>3, <1>4, <1>5, <1>7, <1>8 DEF Next

(* The frames a capture is given only get newer.                           *)
LEMMA ReceivedRises ==
  RelayInv /\ [Next]_vars => \A c \in Captures : received[c] <= received'[c]
<1> SUFFICES ASSUME RelayInv, [Next]_vars, NEW c \in Captures
             PROVE  received[c] <= received'[c]
  OBVIOUS
<1>t. /\ outFrame \in Nat /\ outNext \in 1 .. Len(Connected) + 1
      /\ received \in [Captures -> Nat]
      /\ outThread = "store" => outNext <= Len(Connected)
  BY FramesAreNumbers DEF RelayInv
<1>1. CASE StoreFrame
  <2>1. outThread = "store" /\ outNext \in 1 .. Len(Connected)
    BY <1>1, <1>t, ConnectedCaptures DEF StoreFrame
  <2>2. received[Connected[outNext]] < outFrame
    BY <1>t, <2>1, ConnectedCaptures DEF RelayInv, FanOut
  <2> QED
    BY <1>1, <1>t, <2>1, <2>2, ConnectedCaptures DEF StoreFrame
<1>2. CASE UNCHANGED received
  BY <1>2, <1>t
<1>3. CASE \/ WriteFrame \/ StartOutput \/ StopOutput \/ OutputStopped
           \/ OutputExits \/ ReadFrame \/ LockCapture \/ PublishDone
           \/ UNCHANGED vars
  BY <1>2, <1>3
  DEF WriteFrame, StartOutput, StopOutput, OutputStopped, OutputExits, ReadFrame,
      LockCapture, PublishDone, vars, slotVars
<1>4. ASSUME NEW d \in Captures,
             \/ StartCapture(d) \/ StopCapture(d) \/ CaptureJoined(d)
             \/ ClearFrame(d) \/ ClearInterrupted(d) \/ CaptureExits(d)
             \/ SampleFrame(d) \/ DeliverFrame(d) \/ DropFrame(d)
      PROVE  received[c] <= received'[c]
  BY <1>2, <1>4
  DEF StartCapture, StopCapture, CaptureJoined, ClearFrame, ClearInterrupted,
      CaptureExits, SampleFrame, DeliverFrame, DropFrame, slotVars
<1> QED
  BY <1>1, <1>3, <1>4 DEF Next

(* The current frame is set and deleted, never put back.                   *)
LEMMA CurrentIsLatestStep == RelayInv /\ [Next]_vars => CurrentIsLatest'
<1> SUFFICES ASSUME RelayInv, [Next]_vars PROVE CurrentIsLatest'
  OBVIOUS
<1>t. /\ current \in [Captures -> Frames \cup {NoFrame}]
      /\ received \in [Captures -> Frames \cup {NoFrame}]
      /\ CurrentIsLatest
  BY DEF RelayInv, TypeInv, TypeOK
<1>1. CASE StoreFrame
  BY <1>1, <1>t DEF StoreFrame, CurrentIsLatest
<1>2. ASSUME NEW c \in Captures, ClearFrame(c) PROVE CurrentIsLatest'
  BY <1>2, <1>t DEF ClearFrame, CurrentIsLatest
<1>3. CASE UNCHANGED <<current, received>>
  BY <1>3, <1>t DEF CurrentIsLatest
<1>4. CASE \/ WriteFrame \/ StartOutput \/ StopOutput \/ OutputStopped
           \/ OutputExits \/ ReadFrame \/ LockCapture \/ PublishDone
           \/ UNCHANGED vars
  BY <1>3, <1>4
  DEF WriteFrame, StartOutput, StopOutput, OutputStopped, OutputExits, ReadFrame,
      LockCapture, PublishDone, vars, slotVars
<1>5. ASSUME NEW d \in Captures,
             \/ StartCapture(d) \/ StopCapture(d) \/ CaptureJoined(d)
             \/ ClearInterrupted(d) \/ CaptureExits(d) \/ SampleFrame(d)
             \/ DeliverFrame(d) \/ DropFrame(d)
      PROVE  CurrentIsLatest'
  BY <1>3, <1>5
  DEF StartCapture, StopCapture, CaptureJoined, ClearInterrupted, CaptureExits,
      SampleFrame, DeliverFrame, DropFrame, slotVars
<1> QED
  BY <1>1, <1>2, <1>4, <1>5 DEF Next

(* A reader stays behind: what it is shown next is between what it was     *)
(* shown and what its device was given.                                    *)
LEMMA ReaderBehindStep == RelayInv /\ [Next]_vars => ReaderBehind'
<1> SUFFICES ASSUME RelayInv, [Next]_vars, NEW c \in Captures
             PROVE  /\ shown'[c] <= received'[c]
                    /\ capThread'[c] = "write" /\ capFrame'[c] # Substitute =>
                         /\ shown'[c] <= capFrame'[c]
                         /\ capFrame'[c] <= received'[c]
  BY DEF ReaderBehind
<1>t. /\ received \in [Captures -> Nat] /\ received' \in [Captures -> Nat]
      /\ shown \in [Captures -> Nat] /\ capFrame \in [Captures -> Nat]
      /\ capThread \in [Captures -> {"none", "loop", "write", "exited"}]
      /\ current \in [Captures -> Nat]
  <2>1. TypeInv /\ TypeInv'
    BY TypeInvStep DEF RelayInv
  <2>2. /\ received \in [Captures -> Frames \cup {NoFrame}]
        /\ received' \in [Captures -> Frames \cup {NoFrame}]
    BY <2>1 DEF TypeInv, TypeOK
  <2>3. /\ shown \in [Captures -> Frames \cup {NoFrame}]
        /\ capFrame \in [Captures -> Frames \cup {NoFrame, Substitute}]
        /\ current \in [Captures -> Frames \cup {NoFrame}]
        /\ capThread \in [Captures -> {"none", "loop", "write", "exited"}]
    BY <2>1 DEF TypeInv, TypeOK
  <2>4. Frames \cup {NoFrame} \subseteq Nat /\ Frames \cup {NoFrame, Substitute} \subseteq Nat
    BY FrameNumbers
  <2>5. received \in [Captures -> Nat] /\ received' \in [Captures -> Nat]
    BY <2>2, <2>4
  <2> QED
    BY <2>3, <2>4, <2>5
<1>b. /\ received[c] <= received'[c]
      /\ shown[c] <= received[c]
      /\ capThread[c] = "write" /\ capFrame[c] # Substitute =>
           shown[c] <= capFrame[c] /\ capFrame[c] <= received[c]
  BY ReceivedRises DEF RelayInv, ReaderBehind
<1>1. ASSUME NEW d \in Captures, SampleFrame(d)
      PROVE  /\ received' = received /\ shown' = shown
             /\ capThread' = [capThread EXCEPT ![d] = "write"]
             /\ capFrame' = [capFrame EXCEPT ![d] = capFrame'[d]]
             /\ capFrame'[d] \in {received[d], Substitute}
  <2>1. current[d] \in {NoFrame, received[d]}
    BY DEF RelayInv, CurrentIsLatest
  <2> QED
    BY <1>1, <1>t, <2>1 DEF SampleFrame, slotVars
<1>2. ASSUME NEW d \in Captures, SampleFrame(d)
      PROVE  /\ shown'[c] <= received'[c]
             /\ capThread'[c] = "write" /\ capFrame'[c] # Substitute =>
                  shown'[c] <= capFrame'[c] /\ capFrame'[c] <= received'[c]
  BY <1>1, <1>2, <1>b, <1>t
<1>3. ASSUME NEW d \in Captures, DeliverFrame(d)
      PROVE  /\ shown'[c] <= received'[c]
             /\ capThread'[c] = "write" /\ capFrame'[c] # Substitute =>
                  shown'[c] <= capFrame'[c] /\ capFrame'[c] <= received'[c]
  BY <1>3, <1>b, <1>t DEF DeliverFrame, slotVars
<1>4. ASSUME NEW d \in Captures,
             DropFrame(d) \/ StartCapture(d) \/ CaptureJoined(d) \/ CaptureExits(d)
      PROVE  /\ shown'[c] <= received'[c]
             /\ capThread'[c] = "write" /\ capFrame'[c] # Substitute =>
                  shown'[c] <= capFrame'[c] /\ capFrame'[c] <= received'[c]
  BY <1>4, <1>b, <1>t
  DEF DropFrame, StartCapture, CaptureJoined, CaptureExits, slotVars
<1>5. CASE UNCHANGED <<shown, capThread, capFrame>>
  BY <1>5, <1>b, <1>t
<1>6. CASE \/ WriteFrame \/ StartOutput \/ StopOutput \/ OutputStopped
           \/ OutputExits \/ ReadFrame \/ LockCapture \/ StoreFrame
           \/ PublishDone \/ UNCHANGED vars
  BY <1>5, <1>6
  DEF WriteFrame, StartOutput, StopOutput, OutputStopped, OutputExits, ReadFrame,
      LockCapture, StoreFrame, PublishDone, vars, capVars
<1>7. ASSUME NEW d \in Captures,
             StopCapture(d) \/ ClearFrame(d) \/ ClearInterrupted(d)
      PROVE  UNCHANGED <<shown, capThread, capFrame>>
  BY <1>7 DEF StopCapture, ClearFrame, ClearInterrupted
<1> QED
  BY <1>2, <1>3, <1>4, <1>5, <1>6, <1>7 DEF Next

(* The thread of a capture gives up its copy before it can be joined.      *)
LEMMA JoinedFirstStep == RelayInv /\ [Next]_vars => JoinedFirst'
<1> SUFFICES ASSUME RelayInv, [Next]_vars PROVE JoinedFirst'
  OBVIOUS
<1>t. /\ capThread \in [Captures -> {"none", "loop", "write", "exited"}]
      /\ capFrame \in [Captures -> Frames \cup {NoFrame, Substitute}]
      /\ clearing \in [Captures -> BOOLEAN]
      /\ JoinedFirst
  BY DEF RelayInv, TypeInv, TypeOK
<1>1. ASSUME NEW c \in Captures, StartCapture(c) PROVE JoinedFirst'
  BY <1>1, <1>t DEF StartCapture, CaptureIdle, JoinedFirst
<1>2. ASSUME NEW c \in Captures, CaptureJoined(c) PROVE JoinedFirst'
  BY <1>2, <1>t DEF CaptureJoined, JoinedFirst
<1>3. ASSUME NEW c \in Captures, ClearFrame(c) \/ ClearInterrupted(c)
      PROVE  JoinedFirst'
  BY <1>3, <1>t DEF ClearFrame, ClearInterrupted, JoinedFirst
<1>4. ASSUME NEW c \in Captures, CaptureExits(c) PROVE JoinedFirst'
  BY <1>4, <1>t DEF CaptureExits, JoinedFirst
<1>5. ASSUME NEW c \in Captures, SampleFrame(c) PROVE JoinedFirst'
  BY <1>5, <1>t DEF SampleFrame, JoinedFirst
<1>6. ASSUME NEW c \in Captures, DeliverFrame(c) \/ DropFrame(c)
      PROVE  JoinedFirst'
  BY <1>6, <1>t DEF DeliverFrame, DropFrame, JoinedFirst
<1>7. CASE UNCHANGED <<capThread, capFrame, clearing>>
  BY <1>7, <1>t DEF JoinedFirst
<1>8. CASE \/ WriteFrame \/ StartOutput \/ StopOutput \/ OutputStopped
           \/ OutputExits \/ ReadFrame \/ LockCapture \/ StoreFrame
           \/ PublishDone \/ UNCHANGED vars
  BY <1>7, <1>8
  DEF WriteFrame, StartOutput, StopOutput, OutputStopped, OutputExits, ReadFrame,
      LockCapture, StoreFrame, PublishDone, vars, capVars
<1>9. ASSUME NEW c \in Captures, StopCapture(c) PROVE JoinedFirst'
  BY <1>7, <1>9 DEF StopCapture
<1> QED
  BY <1>1, <1>2, <1>3, <1>4, <1>5, <1>6, <1>8, <1>9 DEF Next

LEMMA ClearedBehindStep == RelayInv /\ [Next]_vars => ClearedBehind'
<1> SUFFICES ASSUME RelayInv, [Next]_vars, NEW c \in Captures
             PROVE  cleared'[c] <= received'[c]
  BY DEF ClearedBehind
<1>t. /\ received \in [Captures -> Nat] /\ received'[c] \in Nat
      /\ cleared \in [Captures -> Nat]
  <2>1. TypeInv /\ TypeInv'
    BY TypeInvStep DEF RelayInv
  <2>2. received'[c] \in Nat
    BY <2>1, FrameNumbers DEF TypeInv, TypeOK
  <2>3. TypeInv
    BY <2>1
  <2>4. received \in [Captures -> Nat] /\ cleared \in [Captures -> Nat]
    BY <2>3, FrameNumbers, ZenonT(30) DEF TypeInv, TypeOK
  <2> QED
    BY <2>2, <2>4
<1>b. cleared[c] <= received[c] /\ received[c] <= received'[c]
  BY ReceivedRises DEF RelayInv, ClearedBehind
<1>1. ASSUME NEW d \in Captures, ClearFrame(d) PROVE cleared'[c] <= received'[c]
  BY <1>1, <1>b, <1>t DEF ClearFrame
<1>2. CASE UNCHANGED cleared
  BY <1>2, <1>b, <1>t
<1>3. CASE \/ WriteFrame \/ StartOutput \/ StopOutput \/ OutputStopped
           \/ OutputExits \/ ReadFrame \/ LockCapture \/ StoreFrame
           \/ PublishDone \/ UNCHANGED vars
  BY <1>2, <1>3
  DEF WriteFrame, StartOutput, StopOutput, OutputStopped, OutputExits, ReadFrame,
      LockCapture, StoreFrame, PublishDone, vars, slotVars
<1>4. ASSUME NEW d \in Captures,
             \/ StartCapture(d) \/ StopCapture(d) \/ CaptureJoined(d)
             \/ ClearInterrupted(d) \/ CaptureExits(d) \/ SampleFrame(d)
             \/ DeliverFrame(d) \/ DropFrame(d)
      PROVE  cleared'[c] <= received'[c]
  BY <1>2, <1>4
  DEF StartCapture, StopCapture, CaptureJoined, ClearInterrupted, CaptureExits,
      SampleFrame, DeliverFrame, DropFrame, slotVars
<1> QED
  BY <1>1, <1>3, <1>4 DEF Next

(* What is stored is newer than what the capture had at any time, and what *)
(* is sampled was stored; deleting finds no copy.                          *)
LEMMA ClearedStaysGoneStep == RelayInv /\ [Next]_vars => ClearedStaysGone'
<1> SUFFICES ASSUME RelayInv, [Next]_vars, NEW c \in Captures
             PROVE  /\ current'[c] \in Frames => current'[c] > cleared'[c]
                    /\ capFrame'[c] \in Frames => capFrame'[c] > cleared'[c]
  BY DEF ClearedStaysGone
<1>t. /\ current \in [Captures -> Nat] /\ received \in [Captures -> Nat]
      /\ cleared \in [Captures -> Nat] /\ capFrame \in [Captures -> Nat]
      /\ clearing \in [Captures -> BOOLEAN]
      /\ capThread \in [Captures -> {"none", "loop", "write", "exited"}]
      /\ outFrame \in Nat /\ outNext \in 1 .. Len(Connected) + 1
      /\ outThread = "store" => outNext <= Len(Connected)
  <2>1. TypeInv
    BY DEF RelayInv
  <2>2. /\ current \in [Captures -> Nat] /\ received \in [Captures -> Nat]
        /\ cleared \in [Captures -> Nat] /\ capFrame \in [Captures -> Nat]
    BY <2>1, FrameNumbers, ZenonT(30) DEF TypeInv, TypeOK
  <2> QED
    BY <2>1, <2>2, FramesAreNumbers DEF TypeInv, TypeOK
<1>b. /\ current[c] \in Frames => current[c] > cleared[c]
      /\ capFrame[c] \in Frames => capFrame[c] > cleared[c]
      /\ cleared[c] <= received[c]
  BY DEF RelayInv, ClearedStaysGone, ClearedBehind
<1> DEFINE Goal == /\ current'[c] \in Frames => current'[c] > cleared'[c]
                   /\ capFrame'[c] \in Frames => capFrame'[c] > cleared'[c]
<1>1. CASE StoreFrame
  <2>1. outThread = "store" /\ outNext \in 1 .. Len(Connected)
    BY <1>1, <1>t, ConnectedCaptures DEF StoreFrame
  <2>2. received[Connected[outNext]] < outFrame
    BY <2>1, ConnectedCaptures DEF RelayInv, FanOut
  <2> QED
    BY <1>1, <1>b, <1>t, <2>1, <2>2, ConnectedCaptures DEF StoreFrame, capVars
<1>2. ASSUME NEW d \in Captures, ClearFrame(d) PROVE Goal
  <2>1. clearing[d] => capFrame[d] = NoFrame
    BY DEF RelayInv, JoinedFirst
  <2> QED
    BY <1>2, <1>b, <1>t, <2>1, FrameNumbers DEF ClearFrame
<1>3. ASSUME NEW d \in Captures, SampleFrame(d) PROVE Goal
  BY <1>3, <1>b, <1>t, FrameNumbers DEF SampleFrame, slotVars
<1>4. ASSUME NEW d \in Captures, DeliverFrame(d) \/ DropFrame(d) PROVE Goal
  BY <1>4, <1>b, <1>t, FrameNumbers DEF DeliverFrame, DropFrame, slotVars
<1>5. CASE UNCHANGED <<current, cleared, capFrame>>
  BY <1>5, <1>b
<1>6. CASE \/ WriteFrame \/ StartOutput \/ StopOutput \/ OutputStopped
           \/ OutputExits \/ ReadFrame \/ LockCapture \/ PublishDone
           \/ UNCHANGED vars
  BY <1>5, <1>6
  DEF WriteFrame, StartOutput, StopOutput, OutputStopped, OutputExits, ReadFrame,
      LockCapture, PublishDone, vars, slotVars, capVars
<1>7. ASSUME NEW d \in Captures,
             \/ StartCapture(d) \/ StopCapture(d) \/ CaptureJoined(d)
             \/ ClearInterrupted(d) \/ CaptureExits(d)
      PROVE  Goal
  BY <1>5, <1>7
  DEF StartCapture, StopCapture, CaptureJoined, ClearInterrupted, CaptureExits, slotVars
<1> QED
  BY <1>1, <1>2, <1>3, <1>4, <1>6, <1>7 DEF Next

LEMMA RelayInvStep == RelayInv /\ [Next]_vars => RelayInv'
<1>1. RelayInv => TypeInv
  BY DEF RelayInv
<1> QED
  BY <1>1, TypeInvStep, FramesOrderedStep, FanOutStep, CurrentIsLatestStep,
     ReaderBehindStep, JoinedFirstStep, ClearedBehindStep, ClearedStaysGoneStep
  DEF RelayInv

LEMMA RelayInvHolds == Spec => []RelayInv
BY RelayInvInit, RelayInvStep, PTL DEF Spec

-----------------------------------------------------------------------------
(* All captures of an output are given the same frames, in the order of    *)
(* the list, none twice (the loop of akvcam_device_clock_run_once).        *)
THEOREM FanOutHolds == Spec => []FanOut
<1>1. RelayInv => FanOut
  BY DEF RelayInv
<1> QED
  BY <1>1, RelayInvHolds, PTL

(* A frame deleted when a capture stops is gone for good, whatever the     *)
(* threads of the output and of the capture were doing at that moment      *)
(* (akvcam_device_stop_streaming, which joins the one and locks out the    *)
(* other, against akvcam_device_clock_run_once).                           *)
THEOREM ClearedStaysGoneHolds == Spec => []ClearedStaysGone
<1>1. RelayInv => ClearedStaysGone
  BY DEF RelayInv
<1> QED
  BY <1>1, RelayInvHolds, PTL

(* No reader ever goes back in time: what it is shown is older than what   *)
(* is on its way to it, through every stop and restart of both devices.    *)
THEOREM NeverBackwardsHolds == Spec => NeverBackwards
<1>1. RelayInv /\ [Next]_vars => [\A c \in Captures : shown'[c] >= shown[c]]_vars
  <2> SUFFICES ASSUME RelayInv, Next, NEW c \in Captures
               PROVE  shown'[c] >= shown[c]
    BY DEF vars
  <2>t. shown \in [Captures -> Nat] /\ capFrame \in [Captures -> Nat]
    BY FrameNumbers, ZenonT(30) DEF RelayInv, TypeInv, TypeOK
  <2>1. ASSUME NEW d \in Captures, DeliverFrame(d) PROVE shown'[c] >= shown[c]
    <3>1. capFrame[d] # Substitute => shown[d] <= capFrame[d]
      BY <2>1 DEF RelayInv, ReaderBehind, DeliverFrame
    <3> QED
      BY <2>1, <2>t, <3>1 DEF DeliverFrame
  <2>2. CASE UNCHANGED shown
    BY <2>2, <2>t
  <2>3. CASE \/ WriteFrame \/ StartOutput \/ StopOutput \/ OutputStopped
             \/ OutputExits \/ ReadFrame \/ LockCapture \/ StoreFrame
             \/ PublishDone
    BY <2>2, <2>3
    DEF WriteFrame, StartOutput, StopOutput, OutputStopped, OutputExits, ReadFrame,
        LockCapture, StoreFrame, PublishDone, capVars
  <2>4. ASSUME NEW d \in Captures,
               \/ StartCapture(d) \/ StopCapture(d) \/ CaptureJoined(d)
               \/ ClearFrame(d) \/ ClearInterrupted(d) \/ CaptureExits(d)
               \/ SampleFrame(d) \/ DropFrame(d)
        PROVE  UNCHANGED shown
    BY <2>4
    DEF StartCapture, StopCapture, CaptureJoined, ClearFrame, ClearInterrupted,
        CaptureExits, SampleFrame, DropFrame
  <2> QED
    BY <2>1, <2>2, <2>3, <2>4 DEF Next
<1> QED
  BY <1>1, RelayInvHolds, PTL DEF Spec, NeverBackwards

=============================================================================
