------------------------ MODULE VideoQueueProperties ------------------------
(***************************************************************************)
(* What must hold of the buffer queue of a device.                         *)
(***************************************************************************)
EXTENDS VideoQueue

(* A buffer is with the driver, in videobuf2's books, exactly when the     *)
(* driver can still reach it: once in self->buffers, or in the hands of    *)
(* the clock thread between list_del and vb2_buffer_done, never both.      *)
Ownership ==
  /\ \A b \in Buffers : vb[b] = "ACTIVE" <=> Linked(b) \/ held = b
  /\ IsInjective(buffers)
  /\ ~Linked(held)

(* No buffer outlives the stream: when akvcam_buffers_stop_streaming has   *)
(* returned, and while no stream runs, the driver holds none and no clock  *)
(* thread is left that could complete one.  videobuf2 warns otherwise.     *)
NothingOutlivesStream ==
  (~startCalled \/ ioctl = "cancelling") =>
    /\ thread = "none"
    /\ held = NoBuffer
    /\ buffers = << >>
    /\ \A b \in Buffers : vb[b] # "ACTIVE"

(* The frames in list carry consecutive numbers, whatever buffers without  *)
(* a frame, in state ERROR, lie between them, and n goes on from there.    *)
Successor(k) == (k + 1) % SeqModulus

InOrder(list, state, numberOf, n) ==
  LET frames == {i \in DOMAIN list : state[list[i]] # "ERROR"}
  IN  /\ \A i, j \in frames :
           i < j /\ (\A k \in frames : k <= i \/ j <= k) =>
             numberOf[list[j]] = Successor(numberOf[list[i]])
      /\ \A i \in frames :
           (\A k \in frames : k <= i) => n = Successor(numberOf[list[i]])

(* completed and not collected, then the one about to be completed *)
Taken == IF held = NoBuffer THEN doneList ELSE Append(doneList, held)

(* The buffers a process has yet to collect carry consecutive frame        *)
(* numbers in the order it collects them, and the counter goes on from     *)
(* there: akvcam_buffers_read_frame and write_frame number a buffer under  *)
(* frames_mutex and complete it later, without.                            *)
CollectedInOrder == InOrder(Taken, vb, seqOf, sequence)

(* The queue keeps the promise of BufferLoan: service in the order of      *)
(* lending, numbers without gaps, every buffer back once.  The number of a *)
(* buffer the thread holds has been given out but not been seen.           *)
InHand == IF held = NoBuffer THEN << >> ELSE << held >>

Pending == InHand \o buffers \o waiting

Entry(b, state, numberOf) ==
  [buffer |-> b,
   ok     |-> state[b] = "DONE",
   number |-> IF state[b] = "DONE" THEN numberOf[b] ELSE 0]

EntriesOf(list, state, numberOf) ==
  [i \in DOMAIN list |-> Entry(list[i], state, numberOf)]

Ready == EntriesOf(doneList, vb, seqOf)

NextNumber == IF held = NoBuffer THEN sequence ELSE seqOf[held]

Loan == INSTANCE BufferLoan WITH
          pending <- Pending, ready <- Ready, number <- NextNumber

ImplementsLoan == Loan!LoanSpec

(* STREAMOFF returns: kthread_stop waits for a thread that may be asleep,  *)
(* waiting for frames_mutex or in the middle of a copy.                    *)
StopReturns == ioctl = "joining" ~> ioctl = "idle"

(* A buffer given to the driver is completed, with data or with an error,  *)
(* without the process having to call again.                               *)
EveryBufferReturns ==
  \A b \in Buffers : vb[b] = "ACTIVE" ~> vb[b] # "ACTIVE"

(* A stream that fails to start leaves no buffer behind in the driver's    *)
(* list: one that videobuf2 has taken back may be freed and reused.        *)
StartFailureReturnsBuffers ==
  \A b \in Buffers : Linked(b) => vb[b] = "ACTIVE"

=============================================================================
