--------------------------- MODULE TransferLedger ---------------------------
(***************************************************************************)
(* What the payment queue promises of a transfer to those who read it: the *)
(* balance mirror, the drift check and the archive.  A transfer settles in *)
(* the switch once and for all; only a settled transfer is posted, each    *)
(* side once, the debit first; when the queue is done with it (closed) it  *)
(* is settled and neither its row nor its postings change again.           *)
(* PaymentQueue implements this specification.                             *)
(***************************************************************************)
EXTENDS Naturals

CONSTANT Transfers

VARIABLES
  settled,  \* transfers the switch has settled
  debits,   \* [Transfers -> Nat], postings to the debited account
  credits,  \* [Transfers -> Nat], postings to the credited account
  closed    \* transfers the queue reports as committed for good

ledger == <<settled, debits, credits, closed>>

Init ==
  /\ settled = {}
  /\ debits = [t \in Transfers |-> 0]
  /\ credits = [t \in Transfers |-> 0]
  /\ closed = {}

Open(t) == t \in settled /\ t \notin closed

Settle(t) ==
  /\ t \notin settled
  /\ settled' = settled \cup {t}
  /\ UNCHANGED <<debits, credits, closed>>

Debit(t) ==
  /\ Open(t)
  /\ debits[t] = 0
  /\ debits' = [debits EXCEPT ![t] = 1]
  /\ UNCHANGED <<settled, credits, closed>>

\* The second posting is the last thing the queue does for a transfer.
Credit(t) ==
  /\ Open(t)
  /\ debits[t] = 1 /\ credits[t] = 0
  /\ credits' = [credits EXCEPT ![t] = 1]
  /\ closed' = closed \cup {t}
  /\ UNCHANGED <<settled, debits>>

\* A posting that fails is not retried: the mirror stays behind.
CloseShort(t) ==
  /\ Open(t)
  /\ closed' = closed \cup {t}
  /\ UNCHANGED <<settled, debits, credits>>

Next == \E t \in Transfers : Settle(t) \/ Debit(t) \/ Credit(t) \/ CloseShort(t)

Spec == Init /\ [][Next]_ledger
=============================================================================
