---------------------------- MODULE DutySettlement ----------------------------
(***************************************************************************)
(* services/go/payment-service: a duty payment sent to the Mojaloop switch,*)
(* the switch's settlement callback (main.go), and the transactional outbox*)
(* that takes payment.confirmed to Kafka (outbox.go).                      *)
(*                                                                         *)
(* A database statement or transaction is an action, and so is a call of   *)
(* the switch, the ledger bridge or Kafka, which may be refused, or take   *)
(* effect and lose its answer.  A callback answered with an error changes  *)
(* nothing here; the switch delivers it again, also after a success.       *)
(***************************************************************************)
EXTENDS Integers, FiniteSets

CONSTANTS
  Payments,     \* payments made by createPayment
  Handlers,     \* deliveries of a payment's callback that may overlap
  Drainers,     \* replicas of the service, each with its drainer
  Rows,         \* ids of payment_outbox
  MaxAttempts,  \* maxOutboxAttempts
  MaxFaults     \* bound on crashes, failed statements and rolled back drains

ASSUME SettlementAssumption == MaxAttempts \in Nat \ {0} /\ MaxFaults \in Nat

VARIABLES
  status,    \* [Payments -> Status], payments.status
  known,     \* payments whose mojaloop_tx_id is stored
  creating,  \* [Payments -> Creating], where createPayment is
  hub,       \* [Payments -> Hub], the switch
  at,        \* [Handlers -> [Payments -> At]], where handleMojaloopWebhook is
  postings,  \* [Payments -> Nat], its postings in the ledger
  acked,     \* payments whose callback was answered with success
  event,     \* [Rows -> Event], published_at and failed_at of the row
  rowsOf,    \* [Payments -> SUBSET Rows], the rows with its event key
  attempts,  \* [Rows -> Nat]
  work,      \* [Drainers -> [Rows -> Work]], the open transaction of Drain
  late,      \* [Rows -> SUBSET Drainers], replicas still sending the row although
             \* the transaction that locked it is gone
  sent,      \* [Rows -> Nat], messages of the row on its Kafka topic
  dlq,       \* rows with an envelope on the topic's .dlq
  faults

vars == <<status, known, creating, hub, at, postings, acked, event, rowsOf,
          attempts, work, late, sent, dlq, faults>>

payment == <<status, known, creating, hub>>
callback == <<at, postings, acked>>
outbox == <<event, rowsOf, attempts>>
kafka == <<work, late, sent, dlq>>

Status == {"absent", "pending", "processing", "completed", "failed",
           "ledger_unavailable"}
Creating == {"none", "send", "sent", "refused", "done"}
Hub == {"none", "prepared", "committed", "aborted"}
At == {"idle", "resolved", "posted", "refused"}
Event == {"none", "pending", "published", "failed"}
\* "out": not in the batch; else locked, and "todo" or what the row becomes.
Work == {"out", "todo", "published", "retry", "failed"}

TypeOK ==
  /\ status \in [Payments -> Status]
  /\ known \in SUBSET Payments
  /\ creating \in [Payments -> Creating]
  /\ hub \in [Payments -> Hub]
  /\ at \in [Handlers -> [Payments -> At]]
  /\ postings \in [Payments -> Nat]
  /\ acked \in SUBSET Payments
  /\ event \in [Rows -> Event]
  /\ rowsOf \in [Payments -> SUBSET Rows]
  /\ attempts \in [Rows -> 0..MaxAttempts]
  /\ work \in [Drainers -> [Rows -> Work]]
  /\ late \in [Rows -> SUBSET Drainers]
  /\ sent \in [Rows -> Nat]
  /\ dlq \in SUBSET Rows
  /\ faults \in 0..MaxFaults

Init ==
  /\ status = [p \in Payments |-> "absent"]
  /\ known = {}
  /\ creating = [p \in Payments |-> "none"]
  /\ hub = [p \in Payments |-> "none"]
  /\ at = [h \in Handlers |-> [p \in Payments |-> "idle"]]
  /\ postings = [p \in Payments |-> 0]
  /\ acked = {}
  /\ event = [r \in Rows |-> "none"]
  /\ rowsOf = [p \in Payments |-> {}]
  /\ attempts = [r \in Rows |-> 0]
  /\ work = [d \in Drainers |-> [r \in Rows |-> "out"]]
  /\ late = [r \in Rows |-> {}]
  /\ sent = [r \in Rows |-> 0]
  /\ dlq = {}
  /\ faults = 0

Fault == faults < MaxFaults /\ faults' = faults + 1

-----------------------------------------------------------------------------
(* createPayment.                                                          *)

CreatePayment(p) ==
  /\ creating[p] = "none"
  /\ creating' = [creating EXCEPT ![p] = "send"]
  /\ status' = [status EXCEPT ![p] = "pending"]
  /\ UNCHANGED <<known, hub, callback, outbox, kafka, faults>>

\* The switch may have the transfer although the call fails.
InitiateTransfer(p) ==
  /\ creating[p] = "send"
  /\ \/ /\ creating' = [creating EXCEPT ![p] = "sent"]
        /\ hub' = [hub EXCEPT ![p] = "prepared"]
     \/ /\ creating' = [creating EXCEPT ![p] = "refused"]
        /\ hub' = hub \/ hub' = [hub EXCEPT ![p] = "prepared"]
  /\ UNCHANGED <<status, known, callback, outbox, kafka, faults>>

\* The statement that marks the payment failed may fail: nobody looks.
MarkRefused(p) ==
  /\ creating[p] = "refused"
  /\ creating' = [creating EXCEPT ![p] = "done"]
  /\ \/ status' = [status EXCEPT ![p] = "failed"] /\ UNCHANGED faults
     \/ Fault /\ UNCHANGED status
  /\ UNCHANGED <<known, hub, callback, outbox, kafka>>

\* The transfer id and the status are one statement.
StoreTransferId(p) ==
  /\ creating[p] = "sent"
  /\ creating' = [creating EXCEPT ![p] = "done"]
  /\ \/ /\ status' = [status EXCEPT ![p] = "processing"]
        /\ known' = known \cup {p}
        /\ UNCHANGED faults
     \/ Fault /\ UNCHANGED <<status, known>>
  /\ UNCHANGED <<hub, callback, outbox, kafka>>

Create(p) ==
  CreatePayment(p) \/ InitiateTransfer(p) \/ MarkRefused(p) \/ StoreTransferId(p)

HubDecides(p, verdict) ==
  /\ hub[p] = "prepared"
  /\ hub' = [hub EXCEPT ![p] = verdict]
  /\ UNCHANGED <<status, known, creating, callback, outbox, kafka, faults>>

-----------------------------------------------------------------------------
(* handleMojaloopWebhook.  An unknown transfer is a 404, a status that is  *)
(* neither completed nor in flight a 409.                                  *)

\* Mutant: one of the two statuses is forgotten.
InFlightPending == {"pending"}

InFlight == {"processing", "pending"}

Answered(p) == acked' = acked \cup {p}

Move(h, p, s) == at' = [at EXCEPT ![h][p] = s]

\* already_completed.
Replay(h, p) ==
  /\ at[h][p] = "idle" /\ hub[p] \in {"committed", "aborted"} /\ p \in known
  /\ status[p] = "completed"
  /\ Answered(p)
  /\ UNCHANGED <<payment, at, postings, outbox, kafka, faults>>

Resolve(h, p) ==
  /\ at[h][p] = "idle" /\ hub[p] \in {"committed", "aborted"} /\ p \in known
  /\ status[p] \in InFlight
  /\ Move(h, p, "resolved")
  /\ UNCHANGED <<payment, postings, acked, outbox, kafka, faults>>

\* Mutant: the payment is completed whatever the ledger says.
PostAnyway(h, p) ==
  /\ at[h][p] = "resolved" /\ hub[p] = "committed"
  /\ Move(h, p, "posted")
  /\ postings' = postings \/ postings' = [postings EXCEPT ![p] = @ + 1]
  /\ UNCHANGED <<payment, acked, outbox, kafka, faults>>

\* postSettlementToLedger: each call is a transfer of its own in the bridge.
PostSettlementToLedger(h, p) ==
  /\ at[h][p] = "resolved" /\ hub[p] = "committed"
  /\ \/ Move(h, p, "posted") /\ postings' = [postings EXCEPT ![p] = @ + 1]
     \/ Move(h, p, "refused") /\ postings' = [postings EXCEPT ![p] = @ + 1]
     \/ Move(h, p, "refused") /\ UNCHANGED postings
  /\ UNCHANGED <<payment, acked, outbox, kafka, faults>>

\* 503, also when the statement fails.
LedgerUnavailable(h, p) ==
  /\ at[h][p] = "refused"
  /\ Move(h, p, "idle")
  /\ \/ status' = [status EXCEPT ![p] = "ledger_unavailable"] /\ UNCHANGED faults
     \/ Fault /\ UNCHANGED status
  /\ UNCHANGED <<known, creating, hub, postings, acked, outbox, kafka>>

\* Mutant: the event is not part of the transaction, and may be missed.
CompleteThenEnqueue(h, p) ==
  /\ at[h][p] = "posted"
  /\ Move(h, p, "idle")
  /\ status' = [status EXCEPT ![p] = "completed"]
  /\ \/ /\ \E r \in Rows :
             /\ event[r] = "none"
             /\ event' = [event EXCEPT ![r] = "pending"]
             /\ rowsOf' = [rowsOf EXCEPT ![p] = @ \cup {r}]
        /\ Answered(p)
        /\ UNCHANGED faults
     \/ Fault /\ UNCHANGED <<event, rowsOf, acked>>
  /\ UNCHANGED <<known, creating, hub, postings, attempts, kafka>>

\* completePaymentWithOutbox: one transaction, which may fail as a whole, or be
\* committed and lose its answer.
CompletePaymentWithOutbox(h, p) ==
  /\ at[h][p] = "posted"
  /\ Move(h, p, "idle")
  /\ \/ /\ status' = [status EXCEPT ![p] = "completed"]
        /\ \E r \in Rows :
             /\ event[r] = "none"
             /\ event' = [event EXCEPT ![r] = "pending"]
             /\ rowsOf' = [rowsOf EXCEPT ![p] = @ \cup {r}]
        /\ (Answered(p) /\ UNCHANGED faults) \/ (Fault /\ UNCHANGED acked)
     \/ Fault /\ UNCHANGED <<status, event, rowsOf, acked>>
  /\ UNCHANGED <<known, creating, hub, postings, attempts, kafka>>

\* ABORTED is acknowledged also when the statement fails.
AbortPayment(h, p) ==
  /\ at[h][p] = "resolved" /\ hub[p] = "aborted"
  /\ Move(h, p, "idle")
  /\ \/ status' = [status EXCEPT ![p] = "failed"] /\ UNCHANGED faults
     \/ Fault /\ UNCHANGED status
  /\ Answered(p)
  /\ UNCHANGED <<known, creating, hub, postings, outbox, kafka>>

HandleMojaloopWebhook(h, p) ==
  \/ Replay(h, p) \/ Resolve(h, p) \/ PostSettlementToLedger(h, p)
  \/ LedgerUnavailable(h, p) \/ CompletePaymentWithOutbox(h, p) \/ AbortPayment(h, p)

-----------------------------------------------------------------------------
(* Drain: one transaction that locks a batch, sends it row by row and marks*)
(* each; the marks are lost when it rolls back, the messages are not.      *)
(* SendMessage is not told of the drain's half minute: database/sql rolls  *)
(* back and frees the rows while it goes on, and its message may still     *)
(* arrive.  Drain comes back only with it, and then fails at its mark.     *)

Locked(r) == \E d \in Drainers : work[d][r] # "out"

\* The loop of a replica is one goroutine, busy until its send returns.
Idle(d) == \A r \in Rows : work[d][r] = "out" /\ d \notin late[r]

\* Mutant: the rows are not locked.
SelectUnlocked(d) ==
  /\ Idle(d)
  /\ \E r \in Rows : event[r] = "pending"
  /\ work' = [work EXCEPT ![d] =
       [r \in Rows |-> IF event[r] = "pending" THEN "todo" ELSE "out"]]
  /\ UNCHANGED <<payment, callback, outbox, late, sent, dlq, faults>>

\* Mutant: a row is selected only before its first attempt.
SelectFresh(d) ==
  /\ Idle(d)
  /\ \E r \in Rows : event[r] = "pending" /\ ~Locked(r) /\ attempts[r] = 0
  /\ work' = [work EXCEPT ![d] = [r \in Rows |->
       IF event[r] = "pending" /\ ~Locked(r) /\ attempts[r] = 0 THEN "todo" ELSE "out"]]
  /\ UNCHANGED <<payment, callback, outbox, late, sent, dlq, faults>>

\* FOR UPDATE SKIP LOCKED; the batch takes all the rows of an instance.
Select(d) ==
  /\ Idle(d)
  /\ \E r \in Rows : event[r] = "pending" /\ ~Locked(r)
  /\ work' = [work EXCEPT ![d] = [r \in Rows |->
       IF event[r] = "pending" /\ ~Locked(r) THEN "todo" ELSE "out"]]
  /\ UNCHANGED <<payment, callback, outbox, late, sent, dlq, faults>>

Mark(d, r, w) == work' = [work EXCEPT ![d][r] = w]

\* Mutant: the row is marked before it is sent.
PublishMarks(d, r) ==
  /\ work[d][r] = "todo"
  /\ Mark(d, r, "published")
  /\ sent' = sent \/ sent' = [sent EXCEPT ![r] = @ + 1]
  /\ UNCHANGED <<payment, callback, outbox, late, dlq, faults>>

Publish(d, r) ==
  /\ work[d][r] = "todo"
  /\ Mark(d, r, "published")
  /\ sent' = [sent EXCEPT ![r] = @ + 1]
  /\ UNCHANGED <<payment, callback, outbox, late, dlq, faults>>

\* Mutant: the budget is spent one attempt late.
PublishFailsLate(d, r) ==
  /\ work[d][r] = "todo"
  /\ sent' = sent \/ sent' = [sent EXCEPT ![r] = @ + 1]
  /\ IF attempts[r] >= MaxAttempts
     THEN Mark(d, r, "failed") /\ (dlq' = dlq \/ dlq' = dlq \cup {r})
     ELSE Mark(d, r, "retry") /\ UNCHANGED dlq
  /\ UNCHANGED <<payment, callback, outbox, late, faults>>

\* The broker may have the message.  An error of publishDLQ is only logged.
PublishFails(d, r) ==
  /\ work[d][r] = "todo"
  /\ sent' = sent \/ sent' = [sent EXCEPT ![r] = @ + 1]
  /\ IF attempts[r] + 1 >= MaxAttempts
     THEN Mark(d, r, "failed") /\ (dlq' = dlq \/ dlq' = dlq \cup {r})
     ELSE Mark(d, r, "retry") /\ UNCHANGED dlq
  /\ UNCHANGED <<payment, callback, outbox, late, faults>>

Release(d) == work' = [work EXCEPT ![d] = [r \in Rows |-> "out"]]

Commit(d) ==
  /\ \E r \in Rows : work[d][r] # "out"
  /\ \A r \in Rows : work[d][r] # "todo"
  /\ event' = [r \in Rows |-> IF work[d][r] \in {"published", "failed"} THEN work[d][r] ELSE event[r]]
  /\ attempts' = [r \in Rows |-> IF work[d][r] = "out" THEN attempts[r] ELSE attempts[r] + 1]
  /\ Release(d)
  /\ UNCHANGED <<payment, callback, rowsOf, late, sent, dlq, faults>>

\* The send of a drain that was rolled back returns: the message has arrived or
\* not, and an envelope may follow if the attempt was the row's last (the count
\* the drain had read is at most the one of now).  There is nothing to mark.
SendReturns(d, r) ==
  /\ d \in late[r]
  /\ late' = [late EXCEPT ![r] = @ \ {d}]
  /\ sent' = sent \/ sent' = [sent EXCEPT ![r] = @ + 1]
  /\ \/ UNCHANGED dlq
     \/ attempts[r] + 1 >= MaxAttempts /\ dlq' = dlq \cup {r}
  /\ UNCHANGED <<payment, callback, outbox, work, faults>>

Drain(d) ==
  \/ Select(d) \/ Commit(d)
  \/ \E r \in Rows : Publish(d, r) \/ PublishFails(d, r) \/ SendReturns(d, r)

\* A statement of Drain fails.
Rollback(d) ==
  /\ \E r \in Rows : work[d][r] # "out"
  /\ Release(d)
  /\ Fault
  /\ UNCHANGED <<payment, callback, outbox, late, sent, dlq>>

\* The half minute of the drain is over, or its connection is lost, while it
\* sends the row.
Expire(d, r) ==
  /\ work[d][r] = "todo"
  /\ Release(d)
  /\ late' = [late EXCEPT ![r] = @ \cup {d}]
  /\ Fault
  /\ UNCHANGED <<payment, callback, outbox, sent, dlq>>

-----------------------------------------------------------------------------
\* The replicas die: requests and sends are gone, transactions roll back.
Crash ==
  /\ Fault
  /\ creating' = [p \in Payments |-> IF creating[p] = "none" THEN "none" ELSE "done"]
  /\ at' = [h \in Handlers |-> [p \in Payments |-> "idle"]]
  /\ work' = [d \in Drainers |-> [r \in Rows |-> "out"]]
  /\ late' = [r \in Rows |-> {}]
  /\ UNCHANGED <<status, known, hub, postings, acked, outbox, sent, dlq>>

Next ==
  \/ Crash
  \/ \E p \in Payments :
       \/ Create(p)
       \/ \E verdict \in {"committed", "aborted"} : HubDecides(p, verdict)
       \/ \E h \in Handlers : HandleMojaloopWebhook(h, p)
  \/ \E d \in Drainers :
       Drain(d) \/ Rollback(d) \/ \E r \in Rows : Expire(d, r)

Spec == Init /\ [][Next]_vars

\* The ticker calls Drain, and a send returns after its retries; requests run on;
\* COMMITTED is delivered until it is acknowledged.
Fairness ==
  /\ \A d \in Drainers : WF_vars(Drain(d))
  /\ \A h \in Handlers, p \in Payments :
       WF_vars(p \notin acked /\ HandleMojaloopWebhook(h, p))

FairSpec == Spec /\ Fairness

-----------------------------------------------------------------------------
(* Properties.                                                             *)

\* payment.confirmed, once it is in the outbox or on Kafka, stands for a
\* transfer the switch committed and the ledger has, though the callbacks
\* overlap and the status may be overwritten later.
EventsAreBacked ==
  /\ \A p \in Payments :
       rowsOf[p] # {} => hub[p] = "committed" /\ postings[p] > 0
  /\ \A r \in Rows : sent[r] > 0 => \E p \in Payments : r \in rowsOf[p]

\* Neither a completed payment nor an acknowledged COMMITTED is without its
\* event and its posting, whatever crashes: the outbox row and the status are
\* one transaction, and the switch stops calling only after it.
CompletedHasEvent ==
  \A p \in Payments :
    (status[p] = "completed" \/ (p \in acked /\ hub[p] = "committed")) =>
      postings[p] > 0 /\ rowsOf[p] # {}

\* A row is never marked published without a message on the topic, and is given
\* up only after its whole budget of attempts.
OutcomeIsEarned ==
  \A r \in Rows :
    /\ event[r] = "published" => sent[r] > 0
    /\ event[r] = "failed" => attempts[r] = MaxAttempts
    /\ event[r] \in {"none", "pending"} => attempts[r] < MaxAttempts

\* The messages of an event, those still on their way included, are its counted
\* attempts, one of the drain that holds its row, and at most one for every
\* drain that was rolled back: replicas send a row side by side only when the
\* time of one ran out in the middle of its send.
SendsAreCounted ==
  \A r \in Rows :
    sent[r] + Cardinality(late[r]) <= attempts[r] + faults + (IF Locked(r) THEN 1 ELSE 0)

\* The ledger may hold a payment more than once, since every call posts anew,
\* and its event may be recorded more than once, but neither without end: an
\* event has a posting of its own, and postings are paid for by callbacks that
\* overlap and by faults, however often the switch delivers.
PostingsAreAccounted ==
  \A p \in Payments :
    /\ Cardinality(rowsOf[p]) <= postings[p]
    /\ postings[p] <= Cardinality(Handlers) * (faults + 1)

Settled == {p \in Payments : hub[p] = "committed" /\ postings[p] > 0}

Outbox == INSTANCE OutboxDelivery WITH settled <- Settled, Replicas <- Drainers

\* To those who read payment.confirmed the replicas are one outbox: an event is
\* of a settled payment, is closed once, with a message or after its whole
\* budget, and is sent only while it is pending, but for the one message each
\* replica may have on its way when it loses the row; although drains overlap,
\* run out of time, roll back and die with their messages sent.
ImplementsOutbox == Outbox!Spec

\* What a reader might expect and the outbox does not give: no message of an
\* event arrives after it was closed.
ClosedEventsAreQuiet ==
  [][\A r \in Rows : event[r] \in {"published", "failed"} => sent'[r] = sent[r]]_vars

\* Every event leaves the outbox, published or given up, once faults end.
EventsLeaveOutbox ==
  \A r \in Rows : event[r] = "pending" ~> event[r] \in {"published", "failed"}

\* A transfer the switch committed does not stay in flight: whatever fails and
\* is delivered again, the payment ends completed or waiting for its ledger.
CommittedLeavesFlight ==
  \A p \in Payments :
    (p \in known /\ hub[p] = "committed") ~>
      status[p] \in {"completed", "ledger_unavailable"}

\* Claimed by the comment on handleMojaloopWebhook: after a 503 the switch's
\* retry completes the payment.
RetrySettles ==
  \A p \in Payments :
    (p \in known /\ hub[p] = "committed") ~> status[p] = "completed"
=============================================================================
