---------------------------- MODULE OutboxDelivery ----------------------------
(***************************************************************************)
(* What the transactional outbox of services/go/payment-service promises   *)
(* those who read payment.confirmed.  An event is recorded only for a      *)
(* payment that is settled; it is closed once and for all, published with a*)
(* message on its topic or failed with its budget of attempts used up.  Its*)
(* messages are sent while it is pending.  A replica may lose the event in *)
(* the middle of a send, and that one message may come at any time, also   *)
(* after the event was closed; nothing else is sent of a closed event.     *)
(* DutySettlement implements this.                                         *)
(***************************************************************************)
EXTENDS Naturals

CONSTANTS
  Payments,
  Rows,        \* ids of events
  Replicas,    \* those that send
  MaxAttempts  \* attempts an event is given

VARIABLES
  settled,    \* payments the switch committed and the ledger has
  rowsOf,     \* [Payments -> SUBSET Rows], the events of a payment
  event,      \* [Rows -> "none", "pending", "published" or "failed"]
  attempts,   \* [Rows -> Nat], attempts counted
  sent,       \* [Rows -> Nat], messages on the topic
  late        \* [Rows -> SUBSET Replicas], with a message that may still come

outboxVars == <<settled, rowsOf, event, attempts, sent, late>>

Init ==
  /\ settled = {}
  /\ rowsOf = [p \in Payments |-> {}]
  /\ event = [r \in Rows |-> "none"]
  /\ attempts = [r \in Rows |-> 0]
  /\ sent = [r \in Rows |-> 0]
  /\ late = [r \in Rows |-> {}]

Settle(p) ==
  /\ settled' = settled \cup {p}
  /\ UNCHANGED <<rowsOf, event, attempts, sent, late>>

Record(p, r) ==
  /\ p \in settled
  /\ event[r] = "none"
  /\ event' = [event EXCEPT ![r] = "pending"]
  /\ rowsOf' = [rowsOf EXCEPT ![p] = @ \cup {r}]
  /\ UNCHANGED <<settled, attempts, sent, late>>

Deliver(r) ==
  /\ event[r] = "pending"
  /\ sent' = [sent EXCEPT ![r] = @ + 1]
  /\ UNCHANGED <<settled, rowsOf, event, attempts, late>>

\* The replica loses the event it is sending, and has no other send to lose.
Lose(x, r) ==
  /\ event[r] = "pending"
  /\ \A q \in Rows : x \notin late[q]
  /\ late' = [late EXCEPT ![r] = @ \cup {x}]
  /\ UNCHANGED <<settled, rowsOf, event, attempts, sent>>

\* Its message comes after all, or never.
Arrive(x, r) ==
  /\ x \in late[r]
  /\ late' = [late EXCEPT ![r] = @ \ {x}]
  /\ sent' = sent \/ sent' = [sent EXCEPT ![r] = @ + 1]
  /\ UNCHANGED <<settled, rowsOf, event, attempts>>

\* The replicas die with their sends.
Stop ==
  /\ late' = [r \in Rows |-> {}]
  /\ UNCHANGED <<settled, rowsOf, event, attempts, sent>>

\* A batch has been attempted: each event of it is closed or waits for its next
\* attempt.
Attempt(batch) ==
  /\ \A r \in batch : event[r] = "pending"
  /\ attempts' = [r \in Rows |-> IF r \in batch THEN attempts[r] + 1 ELSE attempts[r]]
  /\ event' \in [Rows -> {"none", "pending", "published", "failed"}]
  /\ \A r \in Rows \ batch : event'[r] = event[r]
  /\ \A r \in batch :
       \/ event'[r] = "published" /\ sent[r] > 0 /\ attempts'[r] <= MaxAttempts
       \/ event'[r] = "failed" /\ attempts'[r] = MaxAttempts
       \/ event'[r] = "pending" /\ attempts'[r] < MaxAttempts
  /\ UNCHANGED <<settled, rowsOf, sent, late>>

Next ==
  \/ \E p \in Payments : Settle(p) \/ \E r \in Rows : Record(p, r)
  \/ \E r \in Rows : Deliver(r) \/ \E x \in Replicas : Lose(x, r) \/ Arrive(x, r)
  \/ \E batch \in SUBSET Rows : Attempt(batch)
  \/ Stop

Spec == Init /\ [][Next]_outboxVars
=============================================================================
