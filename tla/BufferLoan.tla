----------------------------- MODULE BufferLoan -----------------------------
(***************************************************************************)
(* What a streaming process may rely on, whatever the driver does inside:  *)
(* a buffer it lends is served in the order of lending, numbered from the  *)
(* last start on without a gap, and comes back once.  A buffer that cannot *)
(* be taken in comes back marked as failed; stopping marks the rest.       *)
(*                                                                         *)
(* VideoQueue implements this module (see MCVideoQueue).                   *)
(***************************************************************************)
EXTENDS Naturals, Sequences, Functions

CONSTANTS Buffers, SeqModulus

VARIABLES
  pending,  (* lent and not served, in the order of lending *)
  ready,    (* served or failed, in the order of collection *)
  number    (* the number of the next buffer served         *)

loanVars == <<pending, ready, number>>

Ok(b, n)  == [buffer |-> b, ok |-> TRUE, number |-> n]
Failed(b) == [buffer |-> b, ok |-> FALSE, number |-> 0]

Lent == Range(pending) \cup {ready[i].buffer : i \in DOMAIN ready}

LoanInit ==
  /\ pending = << >>
  /\ ready = << >>
  /\ number = 0

Lend(b) ==
  /\ b \notin Lent
  /\ pending' = Append(pending, b)
  /\ UNCHANGED <<ready, number>>

(* A start numbers from 0 again.  Nothing numbered before is left by then. *)
Start ==
  /\ ready = << >>
  /\ number' = 0
  /\ UNCHANGED <<pending, ready>>

(* lending the buffer that starts the stream *)
LendAndStart(b) ==
  /\ b \notin Lent
  /\ ready = << >>
  /\ pending' = Append(pending, b)
  /\ number' = 0
  /\ UNCHANGED ready

Serve ==
  /\ pending # << >>
  /\ pending' = Tail(pending)
  /\ ready' = Append(ready, Ok(Head(pending), number))
  /\ number' = (number + 1) % SeqModulus

(* Only the buffer being lent can be refused. *)
Refuse ==
  /\ pending # << >>
  /\ pending' = SubSeq(pending, 1, Len(pending) - 1)
  /\ ready' = Append(ready, Failed(pending[Len(pending)]))
  /\ UNCHANGED number

Collect ==
  /\ ready # << >>
  /\ ready' = Tail(ready)
  /\ UNCHANGED <<pending, number>>

(* Stopping fails what is pending, then returns everything. *)
Abandon ==
  /\ pending' = << >>
  /\ ready' = ready \o [i \in DOMAIN pending |-> Failed(pending[i])]
  /\ UNCHANGED number

ReturnAll ==
  /\ pending' = << >>
  /\ ready' = << >>
  /\ UNCHANGED number

LoanNext ==
  \/ \E b \in Buffers : Lend(b) \/ LendAndStart(b)
  \/ Start
  \/ Serve
  \/ Refuse
  \/ Collect
  \/ Abandon
  \/ ReturnAll

LoanSpec == LoanInit /\ [][LoanNext]_loanVars

=============================================================================
