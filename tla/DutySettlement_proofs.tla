------------------------- MODULE DutySettlement_proofs -------------------------
(***************************************************************************)
(* What DutySettlement keeps for every number of payments, overlapping     *)
(* callbacks, replicas, outbox rows and faults: its types and its safety   *)
(* properties, that it implements OutboxDelivery, and what its postings    *)
(* and events add up to.                                                   *)
(*                                                                         *)
(* The inductive invariant has a part for each payment, what a handler past*)
(* the ledger has seen, and a part for each row, what the open transaction *)
(* of a drainer has done to it and what of earlier ones is still on its    *)
(* way; Combine frames both.                                               *)
(***************************************************************************)
EXTENDS DutySettlement, TLAPS, FiniteSetTheorems

Decided == {"committed", "aborted"}

PaymentOK(p) ==
  /\ creating[p] \in {"none", "send"} => hub[p] = "none"
  /\ \A h \in Handlers :
       /\ at[h][p] # "idle" => hub[p] \in Decided
       /\ at[h][p] \in {"posted", "refused"} => hub[p] = "committed"
       /\ at[h][p] = "posted" => postings[p] > 0
  /\ p \in acked => hub[p] \in Decided
  /\ rowsOf[p] # {} => hub[p] = "committed" /\ postings[p] > 0
  /\ status[p] = "completed" \/ (p \in acked /\ hub[p] = "committed") => rowsOf[p] # {}

\* A drainer has tried to send the row in a transaction that is still open.
Tried(r) == \E d \in Drainers : work[d][r] \in {"published", "retry", "failed"}

Owned(r) ==
  event[r] # "none" \/ sent[r] > 0 \/ late[r] # {} => \E p \in Payments : r \in rowsOf[p]

Exclusive(r) ==
  /\ \A d \in Drainers : work[d][r] # "out" => event[r] = "pending"
  /\ \A d, e \in Drainers : work[d][r] # "out" /\ work[e][r] # "out" => d = e

Earned(r) ==
  /\ event[r] = "published" => sent[r] > 0
  /\ event[r] = "failed" => attempts[r] = MaxAttempts
  /\ event[r] \in {"none", "pending"} => attempts[r] < MaxAttempts
  /\ \A d \in Drainers :
       /\ work[d][r] = "published" => sent[r] > 0
       /\ work[d][r] = "failed" => attempts[r] + 1 = MaxAttempts
       /\ work[d][r] = "retry" => attempts[r] + 1 < MaxAttempts

\* What is on the topic and what may still come.
Sends(r) == sent[r] + Cardinality(late[r])

Counted(r) ==
  /\ IsFiniteSet(late[r])
  /\ Sends(r) <= attempts[r] + faults + (IF Tried(r) THEN 1 ELSE 0)

RowOK(r) == Owned(r) /\ Exclusive(r) /\ Earned(r) /\ Counted(r)

\* A replica with a batch has no send left from an earlier one.
OneSend == \A d \in Drainers, r, q \in Rows : work[d][r] # "out" => d \notin late[q]

Inv ==
  /\ TypeOK
  /\ \A p \in Payments : PaymentOK(p)
  /\ \A r \in Rows : RowOK(r)
  /\ OneSend

-----------------------------------------------------------------------------
(* Frames.                                                                 *)

SamePayment(p) ==
  /\ creating'[p] = creating[p] /\ hub'[p] = hub[p] /\ postings'[p] = postings[p]
  /\ rowsOf'[p] = rowsOf[p]
  /\ status'[p] = "completed" => status[p] = "completed"
  /\ p \in acked' <=> p \in acked
  /\ \A h \in Handlers : at'[h][p] = at[h][p]

SameRow(r) ==
  /\ event'[r] = event[r] /\ sent'[r] = sent[r] /\ attempts'[r] = attempts[r]
  /\ late'[r] = late[r]
  /\ \A d \in Drainers : work'[d][r] = work[d][r]

\* Payments only gain rows, and faults only grow.
Grows == faults' >= faults /\ \A p \in Payments : rowsOf[p] \subseteq rowsOf'[p]

LEMMA PaymentFrame ==
  ASSUME NEW p \in Payments, PaymentOK(p), SamePayment(p)
  PROVE  PaymentOK(p)'
  BY DEF PaymentOK, SamePayment

LEMMA RowNumbers ==
  ASSUME TypeOK, NEW r \in Rows
  PROVE  /\ sent[r] \in Nat /\ attempts[r] \in Nat /\ faults \in Nat /\ MaxAttempts \in Nat
         /\ RowOK(r) => Sends(r) \in Nat /\ Cardinality(late[r]) \in Nat
<1>1. sent[r] \in Nat /\ attempts[r] \in Nat /\ faults \in Nat /\ MaxAttempts \in Nat
  BY SettlementAssumption DEF TypeOK
<1>2. RowOK(r) => Cardinality(late[r]) \in Nat
  BY FS_CardinalityType DEF RowOK, Counted
<1>3. QED
  BY <1>1, <1>2 DEF Sends

LEMMA RowFrame ==
  ASSUME TypeOK, TypeOK', NEW r \in Rows, RowOK(r), SameRow(r), Grows
  PROVE  RowOK(r)'
<1>1. Owned(r)'
  BY DEF RowOK, Owned, SameRow, Grows
<1>2. Exclusive(r)'
  BY DEF RowOK, Exclusive, SameRow
<1>3. Earned(r)'
  BY DEF RowOK, Earned, SameRow
<1>4. Tried(r)' <=> Tried(r)
  BY DEF Tried, SameRow
<1>5. /\ Sends(r) \in Nat /\ attempts[r] \in Nat /\ faults \in Nat /\ faults' \in Nat
  BY RowNumbers, SettlementAssumption DEF TypeOK
<1>6. Sends(r)' = Sends(r) /\ IsFiniteSet(late[r])'
  BY DEF RowOK, Counted, SameRow, Sends
<1>7. Counted(r)'
  BY <1>4, <1>5, <1>6 DEF RowOK, Counted, SameRow, Grows
<1>8. QED
  BY <1>1, <1>2, <1>3, <1>7 DEF RowOK

LEMMA Combine ==
  ASSUME Inv, TypeOK', Grows, OneSend' \/ UNCHANGED <<work, late>>,
         \A p \in Payments : PaymentOK(p)' \/ SamePayment(p),
         \A r \in Rows : RowOK(r)' \/ SameRow(r)
  PROVE  Inv'
<1>1. ASSUME NEW p \in Payments PROVE PaymentOK(p)'
  BY PaymentFrame DEF Inv
<1>2. ASSUME NEW r \in Rows PROVE RowOK(r)'
  BY RowFrame DEF Inv
<1>3. OneSend'
  BY DEF Inv, OneSend
<1>4. QED
  BY <1>1, <1>2, <1>3 DEF Inv

\* An action that leaves the outbox and the drainers alone.
LEMMA OnePayment ==
  ASSUME Inv, TypeOK', NEW p \in Payments, PaymentOK(p)',
         \A q \in Payments : q # p => SamePayment(q),
         UNCHANGED <<outbox, kafka>>, faults' >= faults
  PROVE  Inv'
<1>1. Grows /\ \A r \in Rows : SameRow(r)
  BY DEF Grows, SameRow, outbox, kafka
<1>2. QED
  BY <1>1, Combine DEF kafka

LEMMA FaultFacts ==
  ASSUME TypeOK, Fault \/ UNCHANGED faults
  PROVE  faults' \in 0..MaxFaults /\ faults' >= faults
  BY SettlementAssumption DEF TypeOK, Fault

LEMMA MoveFacts ==
  ASSUME TypeOK, NEW h \in Handlers, NEW p \in Payments, NEW s \in At, Move(h, p, s)
  PROVE  /\ at' \in [Handlers -> [Payments -> At]]
         /\ at'[h][p] = s
         /\ \A q \in Payments : q # p => \A g \in Handlers : at'[g][q] = at[g][q]
         /\ \A g \in Handlers : g # h => at'[g] = at[g]
<1> DEFINE f == at[h]
<1>1. f \in [Payments -> At] /\ at \in [Handlers -> [Payments -> At]]
  BY DEF TypeOK
<1>2. at' = [at EXCEPT ![h] = [f EXCEPT ![p] = s]]
  BY DEF Move
<1>3. [f EXCEPT ![p] = s] \in [Payments -> At]
  BY <1>1
<1>4. at'[h] = [f EXCEPT ![p] = s] /\ \A g \in Handlers : g # h => at'[g] = at[g]
  BY <1>1, <1>2
<1>5. at' \in [Handlers -> [Payments -> At]]
  BY <1>1, <1>2, <1>3
<1>6. at'[h][p] = s /\ \A q \in Payments : q # p => at'[h][q] = at[h][q]
  BY <1>1, <1>4
<1>7. QED
  BY <1>4, <1>5, <1>6

-----------------------------------------------------------------------------
(* createPayment and the switch.                                           *)

LEMMA InitInv == ASSUME Init PROVE Inv
<1>1. TypeOK
  BY SettlementAssumption DEF Init, TypeOK, Status, Creating, Hub, At, Event, Work
<1>2. ASSUME NEW p \in Payments PROVE PaymentOK(p)
  BY DEF Init, PaymentOK
<1>3. ASSUME NEW r \in Rows PROVE RowOK(r)
  <2>1. late[r] = {} /\ sent[r] = 0 /\ attempts[r] = 0 /\ faults = 0 /\ ~Tried(r)
    BY DEF Init, Tried
  <2>2. Counted(r)
    BY <2>1, FS_EmptySet DEF Counted, Sends
  <2>3. Owned(r) /\ Exclusive(r) /\ Earned(r)
    BY SettlementAssumption DEF Init, Owned, Exclusive, Earned
  <2>4. QED
    BY <2>2, <2>3 DEF RowOK
<1>4. OneSend
  BY DEF Init, OneSend
<1>5. QED
  BY <1>1, <1>2, <1>3, <1>4 DEF Inv

LEMMA CreateInv ==
  ASSUME Inv, NEW p \in Payments, Create(p)
  PROVE  Inv'
<1>1. /\ TypeOK /\ PaymentOK(p)
      /\ UNCHANGED <<callback, outbox, kafka>>
      /\ Fault \/ UNCHANGED faults
  BY DEF Inv, Create, CreatePayment, InitiateTransfer, MarkRefused, StoreTransferId
<1>2. faults' \in 0..MaxFaults /\ faults' >= faults
  BY <1>1, FaultFacts
<1>3. /\ status' \in [Payments -> Status] /\ known' \in SUBSET Payments
      /\ creating' \in [Payments -> Creating] /\ hub' \in [Payments -> Hub]
  BY <1>1 DEF TypeOK, Create, CreatePayment, InitiateTransfer, MarkRefused,
              StoreTransferId, Status, Creating, Hub
<1>4. /\ creating'[p] = "send" => creating[p] = "none"
      /\ creating'[p] # "none"
      /\ hub'[p] = hub[p] \/ (hub'[p] = "prepared" /\ creating[p] = "send" /\ creating'[p] # "send")
      /\ status'[p] = "completed" => status[p] = "completed"
      /\ \A q \in Payments : q # p =>
           status'[q] = status[q] /\ creating'[q] = creating[q] /\ hub'[q] = hub[q]
  BY <1>1 DEF TypeOK, Create, CreatePayment, InitiateTransfer, MarkRefused, StoreTransferId
<1>5. TypeOK'
  BY <1>1, <1>2, <1>3 DEF TypeOK, callback, outbox, kafka
<1>6. PaymentOK(p)'
  BY <1>1, <1>4 DEF PaymentOK, callback, outbox, Decided
<1>7. \A q \in Payments : q # p => SamePayment(q)
  BY <1>1, <1>4 DEF SamePayment, callback, outbox
<1>8. QED
  BY <1>1, <1>2, <1>5, <1>6, <1>7, OnePayment

LEMMA HubInv ==
  ASSUME Inv, NEW p \in Payments, NEW v \in Decided, HubDecides(p, v)
  PROVE  Inv'
<1>1. /\ TypeOK /\ PaymentOK(p) /\ v \in Hub /\ hub[p] = "prepared"
      /\ hub' = [hub EXCEPT ![p] = v]
      /\ UNCHANGED <<status, known, creating, callback, outbox, kafka, faults>>
  BY DEF Inv, HubDecides, Hub, Decided
<1>2. TypeOK'
  BY <1>1 DEF TypeOK, callback, outbox, kafka
<1>3. PaymentOK(p)'
  BY <1>1 DEF TypeOK, PaymentOK, callback, outbox, Decided
<1>4. \A q \in Payments : q # p => SamePayment(q)
  BY <1>1 DEF TypeOK, SamePayment, callback, outbox
<1>5. QED
  BY <1>1, <1>2, <1>3, <1>4, FaultFacts, OnePayment

-----------------------------------------------------------------------------
(* handleMojaloopWebhook.                                                  *)

\* The steps of a callback other than the completion leave the outbox alone.
LEMMA CallbackInv ==
  ASSUME Inv, NEW h \in Handlers, NEW p \in Payments,
         \/ Replay(h, p) \/ Resolve(h, p) \/ PostSettlementToLedger(h, p)
         \/ LedgerUnavailable(h, p) \/ AbortPayment(h, p)
  PROVE  Inv'
<1>1. /\ TypeOK /\ PaymentOK(p)
      /\ UNCHANGED <<known, creating, hub, outbox, kafka>>
      /\ Fault \/ UNCHANGED faults
  BY DEF Inv, payment, Replay, Resolve, PostSettlementToLedger, LedgerUnavailable, AbortPayment
<1>2. faults' \in 0..MaxFaults /\ faults' >= faults
  BY <1>1, FaultFacts
<1>3. PICK s \in At : \/ s = at[h][p] /\ UNCHANGED at
                     \/ Move(h, p, s)
  BY <1>1 DEF TypeOK, At, Replay, Resolve, PostSettlementToLedger, LedgerUnavailable, AbortPayment
<1>4. /\ at' \in [Handlers -> [Payments -> At]]
      /\ at'[h][p] = s
      /\ \A q \in Payments : q # p => \A g \in Handlers : at'[g][q] = at[g][q]
      /\ \A g \in Handlers : g # h => at'[g] = at[g]
  <2>1. CASE UNCHANGED at /\ s = at[h][p]
    BY <1>1, <2>1 DEF TypeOK
  <2>2. CASE Move(h, p, s)
    BY <1>1, <2>2, MoveFacts
  <2>3. QED
    BY <1>3, <2>1, <2>2
<1>5. /\ status' \in [Payments -> Status] /\ postings' \in [Payments -> Nat]
      /\ acked' \in SUBSET Payments
      /\ \A q \in Payments : q # p =>
           status'[q] = status[q] /\ postings'[q] = postings[q] /\ (q \in acked' <=> q \in acked)
      /\ postings[p] > 0 => postings'[p] > 0
      /\ status'[p] = "completed" => status[p] = "completed"
      /\ p \in acked' => p \in acked \/ status[p] = "completed" \/ hub[p] = "aborted"
      /\ p \in acked' => p \in acked \/ hub[p] \in Decided
  <2>1. CASE Replay(h, p)
    BY <1>1, <2>1 DEF TypeOK, payment, Answered, Decided, Replay
  <2>2. CASE Resolve(h, p)
    BY <1>1, <2>2 DEF TypeOK, payment, Resolve
  <2>3. CASE PostSettlementToLedger(h, p)
    <3>1. /\ status \in [Payments -> Status] /\ acked \in SUBSET Payments
          /\ postings \in [Payments -> Nat] /\ postings[p] + 1 \in Nat
      BY <1>1 DEF TypeOK
    <3>2. UNCHANGED <<status, acked>>
      BY <2>3 DEF payment, PostSettlementToLedger
    <3>3. postings' = postings \/ postings' = [postings EXCEPT ![p] = @ + 1]
      BY <2>3 DEF PostSettlementToLedger
    <3>4. /\ postings' \in [Payments -> Nat]
          /\ \A q \in Payments : q # p => postings'[q] = postings[q]
          /\ postings[p] > 0 => postings'[p] > 0
      BY <3>1, <3>3
    <3>5. QED
      BY <3>1, <3>2, <3>4
  <2>4. CASE LedgerUnavailable(h, p)
    BY <1>1, <2>4 DEF TypeOK, Status, LedgerUnavailable
  <2>5. CASE AbortPayment(h, p)
    BY <1>1, <2>5 DEF TypeOK, Status, Answered, Decided, AbortPayment
  <2>6. QED
    BY <2>1, <2>2, <2>3, <2>4, <2>5
<1>6. TypeOK'
  BY <1>1, <1>2, <1>4, <1>5 DEF TypeOK, outbox, kafka
<1>7. /\ s # "idle" => hub[p] \in Decided
      /\ s \in {"posted", "refused"} => hub[p] = "committed"
      /\ s = "posted" => postings'[p] > 0
  <2>1. CASE UNCHANGED at /\ s = at[h][p]
    BY <1>1, <1>5, <2>1 DEF PaymentOK, TypeOK
  <2>2. CASE Move(h, p, s)
    <3>1. CASE Resolve(h, p)
      <4>1. s = "resolved"
        BY <1>1, <1>4, <3>1, MoveFacts DEF Resolve, At
      <4>2. QED
        BY <3>1, <4>1 DEF Resolve, Decided
    <3>2. CASE PostSettlementToLedger(h, p)
      <4>1. /\ s = "posted" \/ s = "refused"
            /\ s = "posted" => postings' = [postings EXCEPT ![p] = @ + 1]
        BY <1>1, <1>4, <3>2, MoveFacts DEF PostSettlementToLedger, At
      <4>2. QED
        BY <1>1, <3>2, <4>1 DEF PostSettlementToLedger, TypeOK, Decided
    <3>3. CASE LedgerUnavailable(h, p)
      BY <1>1, <1>4, <3>3, MoveFacts DEF LedgerUnavailable, At
    <3>4. CASE AbortPayment(h, p)
      BY <1>1, <1>4, <3>4, MoveFacts DEF AbortPayment, At
    <3>5. CASE Replay(h, p)
      BY <1>1, <1>4, <3>5 DEF Replay, PaymentOK, TypeOK
    <3>6. QED
      BY <3>1, <3>2, <3>3, <3>4, <3>5
  <2>3. QED
    BY <1>3, <2>1, <2>2
<1>8. PaymentOK(p)'
  <2>1. ASSUME NEW g \in Handlers
        PROVE  /\ at'[g][p] # "idle" => hub[p] \in Decided
               /\ at'[g][p] \in {"posted", "refused"} => hub[p] = "committed"
               /\ at'[g][p] = "posted" => postings'[p] > 0
    <3>1. CASE g = h
      BY <1>4, <1>7, <3>1
    <3>2. CASE g # h
      BY <1>1, <1>4, <1>5, <3>2 DEF PaymentOK, TypeOK
    <3>3. QED
      BY <3>1, <3>2
  <2>2. rowsOf'[p] = rowsOf[p] /\ hub' = hub /\ creating' = creating
    BY <1>1 DEF outbox
  <2>3. QED
    BY <1>1, <1>5, <2>1, <2>2 DEF PaymentOK, Decided
<1>9. \A q \in Payments : q # p => SamePayment(q)
  BY <1>1, <1>4, <1>5 DEF SamePayment, outbox
<1>10. QED
  BY <1>1, <1>2, <1>6, <1>8, <1>9, OnePayment

\* The completion changes one payment, and at most one row.
LEMMA CompleteInv ==
  ASSUME Inv, NEW h \in Handlers, NEW p \in Payments, CompletePaymentWithOutbox(h, p)
  PROVE  Inv'
<1>1. /\ TypeOK /\ PaymentOK(p) /\ at[h][p] = "posted" /\ Move(h, p, "idle")
      /\ UNCHANGED <<known, creating, hub, postings, attempts, kafka>>
      /\ Fault \/ UNCHANGED faults
  BY DEF Inv, CompletePaymentWithOutbox
<1>2. faults' \in 0..MaxFaults /\ faults' >= faults
  BY <1>1, FaultFacts
<1>3. /\ at' \in [Handlers -> [Payments -> At]]
      /\ at'[h][p] = "idle"
      /\ \A q \in Payments : q # p => \A g \in Handlers : at'[g][q] = at[g][q]
      /\ \A g \in Handlers : g # h => at'[g] = at[g]
  BY <1>1, MoveFacts DEF At
<1>4. hub[p] = "committed" /\ postings[p] > 0
  BY <1>1 DEF PaymentOK
<1>5. CASE UNCHANGED <<status, event, rowsOf, acked>>
  <2>1. TypeOK'
    BY <1>1, <1>2, <1>3, <1>5 DEF TypeOK, kafka
  <2>2. PaymentOK(p)'
    BY <1>1, <1>3, <1>5 DEF PaymentOK
  <2>3. \A q \in Payments : q # p => SamePayment(q)
    BY <1>1, <1>3, <1>5 DEF SamePayment
  <2>4. QED
    BY <1>1, <1>2, <1>5, <2>1, <2>2, <2>3, OnePayment DEF outbox
<1>6. CASE ~ UNCHANGED <<status, event, rowsOf, acked>>
  <2>1. PICK r \in Rows : /\ event[r] = "none"
                         /\ event' = [event EXCEPT ![r] = "pending"]
                         /\ rowsOf' = [rowsOf EXCEPT ![p] = @ \cup {r}]
    BY <1>6 DEF CompletePaymentWithOutbox
  <2>2. status' = [status EXCEPT ![p] = "completed"] /\ (acked' = acked \cup {p} \/ acked' = acked)
    BY <1>6 DEF CompletePaymentWithOutbox, Answered
  <2>3. TypeOK'
    BY <1>1, <1>2, <1>3, <2>1, <2>2 DEF TypeOK, kafka, Status, Event
  <2>4. Grows /\ r \in rowsOf'[p]
    BY <1>1, <1>2, <2>1 DEF Grows, TypeOK
  <2>5. PaymentOK(p)'
    BY <1>1, <1>3, <1>4, <2>2, <2>4 DEF PaymentOK, Decided
  <2>6. \A q \in Payments : q # p => SamePayment(q)
    BY <1>1, <1>3, <2>1, <2>2 DEF SamePayment, TypeOK
  <2>7. RowOK(r)'
    <3>1. RowOK(r)
      BY DEF Inv
    <3>2. Owned(r)'
      BY <2>4 DEF Owned
    <3>3. event'[r] = "pending"
      BY <1>1, <2>1 DEF TypeOK
    <3>4. work' = work /\ late' = late /\ sent' = sent /\ attempts' = attempts
      BY <1>1 DEF kafka
    <3>5. \A d \in Drainers : work[d][r] = "out"
      BY <2>1, <3>1 DEF RowOK, Exclusive
    <3>6. Exclusive(r)'
      BY <3>3, <3>4, <3>5 DEF Exclusive
    <3>7. Earned(r)'
      BY <2>1, <3>1, <3>3, <3>4, <3>5 DEF Earned, RowOK
    <3>8. Tried(r)' <=> Tried(r)
      BY <3>4 DEF Tried
    <3>9. Sends(r) \in Nat /\ attempts[r] \in Nat /\ faults \in Nat /\ faults' \in Nat
      BY <1>1, <1>2, <3>1, RowNumbers
    <3>10. Counted(r)'
      <4>1. Sends(r)' = Sends(r) /\ IsFiniteSet(late[r])'
        BY <3>1, <3>4 DEF RowOK, Counted, Sends
      <4>2. QED
        BY <1>2, <3>1, <3>4, <3>8, <3>9, <4>1 DEF RowOK, Counted
    <3>11. QED
      BY <3>2, <3>6, <3>7, <3>10 DEF RowOK
  <2>8. \A x \in Rows : x # r => SameRow(x)
    BY <1>1, <2>1 DEF SameRow, TypeOK, kafka
  <2>9. QED
    BY <1>1, <2>3, <2>4, <2>5, <2>6, <2>7, <2>8, Combine DEF kafka
<1>7. QED
  BY <1>5, <1>6

-----------------------------------------------------------------------------
(* The drainers.                                                           *)

\* An action of a drainer leaves the payments and the callbacks alone.
LEMMA OutboxStep ==
  ASSUME Inv, TypeOK', UNCHANGED <<payment, callback, rowsOf>>, faults' >= faults,
         OneSend' \/ UNCHANGED <<work, late>>,
         \A r \in Rows : RowOK(r)' \/ SameRow(r)
  PROVE  Inv'
<1>1. Grows /\ \A p \in Payments : SamePayment(p)
  BY DEF Grows, SamePayment, payment, callback
<1>2. QED
  BY <1>1, Combine

LEMMA OwnedFrame ==
  ASSUME NEW r \in Rows, RowOK(r), UNCHANGED rowsOf,
         event'[r] # "none" \/ sent'[r] > 0 \/ late'[r] # {} =>
           event[r] # "none" \/ sent[r] > 0 \/ late[r] # {}
  PROVE  Owned(r)'
  BY DEF RowOK, Owned

LEMMA SelectInv ==
  ASSUME Inv, NEW d \in Drainers, Select(d)
  PROVE  Inv'
<1> DEFINE batch == [r \in Rows |-> IF event[r] = "pending" /\ ~Locked(r) THEN "todo" ELSE "out"]
<1>1. /\ TypeOK /\ \A r \in Rows : work[d][r] = "out" /\ d \notin late[r]
      /\ work' = [work EXCEPT ![d] = batch]
      /\ UNCHANGED <<payment, callback, outbox, late, sent, dlq, faults>>
  BY DEF Inv, Select, Idle
<1>2. batch \in [Rows -> Work]
  BY DEF Work
<1>3. /\ work' \in [Drainers -> [Rows -> Work]] /\ work'[d] = batch
      /\ \A e \in Drainers : e # d => work'[e] = work[e]
  BY <1>1, <1>2 DEF TypeOK
<1>4. TypeOK'
  BY <1>1, <1>3 DEF TypeOK, payment, callback, outbox
<1>5. ASSUME NEW r \in Rows PROVE RowOK(r)'
  <2>1. /\ RowOK(r) /\ event' = event /\ attempts' = attempts
        /\ sent' = sent /\ late' = late /\ faults' = faults
    BY <1>1 DEF Inv, outbox
  <2>2. /\ work'[d][r] \in {"todo", "out"}
        /\ work'[d][r] = "todo" => event[r] = "pending" /\ \A e \in Drainers : work[e][r] = "out"
        /\ \A e \in Drainers : e # d => work'[e][r] = work[e][r]
    BY <1>3 DEF Locked
  <2>3. Owned(r)'
    BY <1>1, <2>1, OwnedFrame DEF outbox
  <2>4. Exclusive(r)'
    BY <2>1, <2>2 DEF RowOK, Exclusive
  <2>5. Earned(r)'
    BY <2>1, <2>2 DEF RowOK, Earned
  <2>6. Tried(r)' <=> Tried(r)
    BY <1>1, <2>2 DEF Tried
  <2>7. Counted(r)'
    BY <2>1, <2>6 DEF RowOK, Counted, Sends
  <2>8. QED
    BY <2>3, <2>4, <2>5, <2>7 DEF RowOK
<1>6. faults' >= faults
  BY <1>1, FaultFacts
<1>7. OneSend'
  BY <1>1, <1>3 DEF Inv, OneSend
<1>8. QED
  BY <1>1, <1>4, <1>5, <1>6, <1>7, OutboxStep DEF outbox

\* A row a drainer is about to send is tried once, by nobody else.
LEMMA SendInv ==
  ASSUME Inv, NEW d \in Drainers, NEW r \in Rows, Publish(d, r) \/ PublishFails(d, r)
  PROVE  Inv'
<1>1. PICK w \in {"published", "retry", "failed"} :
        /\ TypeOK /\ RowOK(r) /\ work[d][r] = "todo"
        /\ Mark(d, r, w)
        /\ w = "failed" => attempts[r] + 1 >= MaxAttempts
        /\ w = "retry" => ~ (attempts[r] + 1 >= MaxAttempts)
        /\ w = "published" => sent' = [sent EXCEPT ![r] = @ + 1]
        /\ sent' = sent \/ sent' = [sent EXCEPT ![r] = @ + 1]
        /\ dlq' = dlq \/ dlq' = dlq \cup {r}
        /\ UNCHANGED <<payment, callback, outbox, late, faults>>
  BY DEF Inv, Publish, PublishFails
<1> DEFINE row == work[d]
<1>2. row \in [Rows -> Work] /\ [row EXCEPT ![r] = w] \in [Rows -> Work]
  BY <1>1 DEF TypeOK, Work
<1>3. work' = [work EXCEPT ![d] = [row EXCEPT ![r] = w]]
  BY <1>1 DEF Mark
<1>4. /\ work' \in [Drainers -> [Rows -> Work]] /\ work'[d] = [row EXCEPT ![r] = w]
      /\ \A e \in Drainers : e # d => work'[e] = work[e]
  BY <1>1, <1>2, <1>3 DEF TypeOK
<1>5. /\ work'[d][r] = w
      /\ \A x \in Rows : x # r => \A e \in Drainers : work'[e][x] = work[e][x]
      /\ \A e \in Drainers : e # d => work'[e][r] = work[e][r]
  BY <1>2, <1>4
<1>6. sent' \in [Rows -> Nat] /\ \A x \in Rows : x # r => sent'[x] = sent[x]
  <2>1. sent \in [Rows -> Nat] /\ sent[r] + 1 \in Nat
    BY <1>1 DEF TypeOK
  <2>2. CASE sent' = sent
    BY <2>1, <2>2
  <2>3. CASE sent' = [sent EXCEPT ![r] = @ + 1]
    BY <2>1, <2>3
  <2>4. QED
    BY <1>1, <2>2, <2>3
<1>7. TypeOK'
  BY <1>1, <1>4, <1>6 DEF TypeOK, payment, callback, outbox
<1>8. /\ sent'[r] = sent[r] \/ sent'[r] = sent[r] + 1
      /\ w = "published" => sent'[r] = sent[r] + 1
  BY <1>1 DEF TypeOK
<1>9. \A e \in Drainers : e # d => work[e][r] = "out"
  BY <1>1 DEF RowOK, Exclusive
<1>10. event[r] = "pending" /\ event' = event /\ attempts' = attempts /\ faults' = faults
  BY <1>1 DEF RowOK, Exclusive, outbox
<1>11. /\ sent[r] \in Nat /\ attempts[r] \in Nat /\ faults \in Nat /\ MaxAttempts \in Nat
       /\ Sends(r) \in Nat /\ Cardinality(late[r]) \in Nat
  BY <1>1, RowNumbers
<1>12. RowOK(r)'
  <2>1. Owned(r)'
    BY <1>1, <1>10, OwnedFrame DEF outbox
  <2>2. Exclusive(r)'
    BY <1>5, <1>9, <1>10 DEF Exclusive
  <2>3. attempts[r] < MaxAttempts
    BY <1>1, <1>10 DEF RowOK, Earned
  <2>4. w = "published" => sent'[r] > 0
    BY <1>8, <1>11
  <2>5. /\ w = "failed" => attempts[r] + 1 = MaxAttempts
        /\ w = "retry" => attempts[r] + 1 < MaxAttempts
    BY <1>1, <1>11, <2>3
  <2>6. Earned(r)'
    BY <1>5, <1>9, <1>10, <2>3, <2>4, <2>5 DEF Earned
  <2>7. ~Tried(r)
    BY <1>1, <1>9 DEF Tried
  <2>8. Tried(r)'
    BY <1>5 DEF Tried
  <2>9. IsFiniteSet(late[r]) /\ Sends(r) <= attempts[r] + faults
    BY <1>1, <1>11, <2>7 DEF RowOK, Counted
  <2>10. Sends(r)' <= Sends(r) + 1
    BY <1>1, <1>8, <1>11 DEF Sends
  <2>11. Counted(r)'
    <3>1. Sends(r)' \in Nat
      BY <1>1, <1>8, <1>11 DEF Sends
    <3>2. QED
      BY <1>1, <1>10, <1>11, <2>8, <2>9, <2>10, <3>1 DEF Counted
  <2>12. QED
    BY <2>1, <2>2, <2>6, <2>11 DEF RowOK
<1>13. \A x \in Rows : x # r => SameRow(x)
  BY <1>1, <1>5, <1>6, <1>10 DEF SameRow
<1>14. OneSend'
  BY <1>1, <1>5 DEF Inv, OneSend
<1>15. QED
  BY <1>1, <1>7, <1>10, <1>11, <1>12, <1>13, <1>14, OutboxStep DEF outbox

LEMMA ReleaseFacts ==
  ASSUME TypeOK, NEW d \in Drainers, Release(d)
  PROVE  /\ work' \in [Drainers -> [Rows -> Work]]
         /\ \A r \in Rows : work'[d][r] = "out"
         /\ \A e \in Drainers : e # d => work'[e] = work[e]
<1>1. [r \in Rows |-> "out"] \in [Rows -> Work]
  BY DEF Work
<1>2. QED
  BY <1>1 DEF TypeOK, Release

\* What is committed was tried in this transaction, which then counts it.
LEMMA CommitInv ==
  ASSUME Inv, NEW d \in Drainers, Commit(d)
  PROVE  Inv'
<1>1. /\ TypeOK /\ Release(d)
      /\ \A r \in Rows : work[d][r] # "todo" /\ work[d][r] \in Work
      /\ UNCHANGED <<payment, callback, rowsOf, late, sent, dlq, faults>>
  BY DEF Inv, Commit, TypeOK
<1>2. \A r \in Rows :
        /\ event'[r] = IF work[d][r] \in {"published", "failed"} THEN work[d][r] ELSE event[r]
        /\ attempts'[r] = IF work[d][r] = "out" THEN attempts[r] ELSE attempts[r] + 1
  BY DEF Commit
<1>3. /\ work' \in [Drainers -> [Rows -> Work]]
      /\ \A r \in Rows : work'[d][r] = "out"
      /\ \A e \in Drainers : e # d => work'[e] = work[e]
  BY <1>1, ReleaseFacts
<1>4. ASSUME NEW r \in Rows, work[d][r] # "out"
      PROVE  RowOK(r)' /\ attempts'[r] \in 0..MaxAttempts
  <2>1. RowOK(r) /\ work[d][r] \in {"published", "retry", "failed"}
    BY <1>1, <1>4 DEF Inv, Work
  <2>2. \A e \in Drainers : work'[e][r] = "out"
    BY <1>3, <1>4, <2>1 DEF RowOK, Exclusive
  <2>3. event[r] = "pending"
    BY <1>4, <2>1 DEF RowOK, Exclusive
  <2>4. /\ sent[r] \in Nat /\ attempts[r] \in Nat /\ faults \in Nat /\ MaxAttempts \in Nat
        /\ Sends(r) \in Nat
    BY <1>1, <2>1, RowNumbers
  <2>5. /\ attempts'[r] = attempts[r] + 1 /\ sent'[r] = sent[r] /\ faults' = faults
        /\ Sends(r)' = Sends(r) /\ late' = late
    BY <1>1, <1>2, <1>4 DEF Sends
  <2>6. attempts[r] < MaxAttempts
    BY <2>1, <2>3 DEF RowOK, Earned
  <2>7. Owned(r)'
    BY <1>1, <2>1, <2>3, OwnedFrame
  <2>8. Exclusive(r)'
    BY <2>2 DEF Exclusive
  <2>9. /\ event'[r] = "published" => sent'[r] > 0
        /\ event'[r] = "failed" => attempts'[r] = MaxAttempts
        /\ event'[r] \in {"none", "pending"} => attempts'[r] < MaxAttempts
    BY <1>2, <2>1, <2>3, <2>5 DEF RowOK, Earned
  <2>10. Earned(r)'
    BY <2>2, <2>9 DEF Earned
  <2>11. Tried(r) /\ ~Tried(r)'
    BY <2>1, <2>2 DEF Tried
  <2>12. IsFiniteSet(late[r]) /\ Sends(r) <= attempts[r] + faults + 1
    BY <2>1, <2>11 DEF RowOK, Counted
  <2>13. Sends(r)' <= attempts'[r] + faults'
    BY <2>4, <2>5, <2>12
  <2>14. Counted(r)'
    BY <2>4, <2>5, <2>11, <2>12, <2>13 DEF Counted
  <2>15. QED
    BY <2>4, <2>5, <2>6, <2>7, <2>8, <2>10, <2>14 DEF RowOK
<1>5. ASSUME NEW r \in Rows, work[d][r] = "out"
      PROVE  SameRow(r) /\ attempts'[r] \in 0..MaxAttempts
  BY <1>1, <1>2, <1>3, <1>5 DEF SameRow, TypeOK
<1>6. event' \in [Rows -> Event] /\ attempts' \in [Rows -> 0..MaxAttempts]
  <2>1. event' \in [Rows -> Event]
    BY <1>1 DEF Commit, TypeOK, Event
  <2>2. \A r \in Rows : attempts'[r] \in 0..MaxAttempts
    BY <1>4, <1>5
  <2>3. QED
    BY <2>1, <2>2 DEF Commit
<1>7. TypeOK'
  BY <1>1, <1>3, <1>6 DEF TypeOK, payment, callback
<1>8. faults' >= faults
  BY <1>1, FaultFacts
<1>9. OneSend'
  BY <1>1, <1>3 DEF Inv, OneSend
<1>10. QED
  BY <1>1, <1>4, <1>5, <1>7, <1>8, <1>9, OutboxStep

\* A transaction that ends without effect: a fault pays for its message.
LEMMA RowDropped ==
  ASSUME Inv, NEW r \in Rows, Fault, UNCHANGED <<outbox, sent>>, late'[r] \subseteq late[r],
         \A d \in Drainers : work'[d][r] = work[d][r] \/ work'[d][r] = "out"
  PROVE  RowOK(r)'
<1>1. TypeOK /\ RowOK(r) /\ faults' = faults + 1
  BY DEF Inv, Fault
<1>2. event' = event /\ sent' = sent /\ attempts' = attempts
  BY DEF outbox
<1>3. Owned(r)'
  BY <1>1, <1>2, OwnedFrame DEF outbox
<1>4. Exclusive(r)'
  BY <1>1, <1>2 DEF RowOK, Exclusive
<1>5. Earned(r)'
  BY <1>1, <1>2 DEF RowOK, Earned
<1>6. /\ sent[r] \in Nat /\ attempts[r] \in Nat /\ faults \in Nat
      /\ Sends(r) \in Nat /\ Cardinality(late[r]) \in Nat
  BY <1>1, RowNumbers
<1>7. Sends(r) <= attempts[r] + faults + 1
  BY <1>1, <1>6 DEF RowOK, Counted
<1>8. /\ IsFiniteSet(late'[r]) /\ Cardinality(late'[r]) \in Nat
      /\ Cardinality(late'[r]) <= Cardinality(late[r])
  BY <1>1, FS_Subset, FS_CardinalityType DEF RowOK, Counted
<1>9. Sends(r)' \in Nat /\ Sends(r)' <= Sends(r)
  BY <1>2, <1>6, <1>8 DEF Sends
<1>10. Sends(r)' <= attempts'[r] + faults'
  BY <1>1, <1>2, <1>6, <1>7, <1>9
<1>11. Counted(r)'
  BY <1>1, <1>2, <1>6, <1>8, <1>9, <1>10 DEF Counted
<1>12. QED
  BY <1>3, <1>4, <1>5, <1>11 DEF RowOK

LEMMA RollbackInv ==
  ASSUME Inv, NEW d \in Drainers, Rollback(d)
  PROVE  Inv'
<1>1. /\ TypeOK /\ Release(d) /\ Fault
      /\ UNCHANGED <<payment, callback, outbox, late, sent, dlq>>
  BY DEF Inv, Rollback
<1>2. faults' \in 0..MaxFaults /\ faults' >= faults
  BY <1>1, FaultFacts
<1>3. /\ work' \in [Drainers -> [Rows -> Work]]
      /\ \A r \in Rows : work'[d][r] = "out"
      /\ \A e \in Drainers : e # d => work'[e] = work[e]
  BY <1>1, ReleaseFacts
<1>4. TypeOK'
  BY <1>1, <1>2, <1>3 DEF TypeOK, payment, callback, outbox
<1>5. \A r \in Rows : RowOK(r)'
  <2>1. ASSUME NEW r \in Rows, NEW e \in Drainers
        PROVE  work'[e][r] = work[e][r] \/ work'[e][r] = "out"
    BY <1>3
  <2>2. QED
    BY <1>1, <2>1, RowDropped
<1>6. OneSend'
  BY <1>1, <1>3 DEF Inv, OneSend
<1>7. QED
  BY <1>1, <1>2, <1>4, <1>5, <1>6, OutboxStep DEF outbox

\* The row was locked and not yet tried: the fault pays for the message that may
\* still come.
LEMMA ExpireInv ==
  ASSUME Inv, NEW d \in Drainers, NEW r \in Rows, Expire(d, r)
  PROVE  Inv'
<1>1. /\ TypeOK /\ RowOK(r) /\ OneSend /\ Release(d) /\ Fault /\ faults' = faults + 1
      /\ work[d][r] = "todo"
      /\ late' = [late EXCEPT ![r] = @ \cup {d}]
      /\ UNCHANGED <<payment, callback, outbox, sent, dlq>>
  BY DEF Inv, Expire, Fault
<1>2. faults' \in 0..MaxFaults /\ faults' >= faults
  BY <1>1, FaultFacts
<1>3. /\ work' \in [Drainers -> [Rows -> Work]]
      /\ \A x \in Rows : work'[d][x] = "out"
      /\ \A e \in Drainers : e # d => work'[e] = work[e]
  BY <1>1, ReleaseFacts
<1>4. /\ late' \in [Rows -> SUBSET Drainers] /\ late'[r] = late[r] \cup {d}
      /\ \A x \in Rows : x # r => late'[x] = late[x]
  BY <1>1 DEF TypeOK
<1>5. TypeOK'
  BY <1>1, <1>2, <1>3, <1>4 DEF TypeOK, payment, callback, outbox
<1>6. ASSUME NEW x \in Rows, x # r PROVE RowOK(x)'
  <2>1. ASSUME NEW e \in Drainers PROVE work'[e][x] = work[e][x] \/ work'[e][x] = "out"
    BY <1>3
  <2>2. QED
    BY <1>1, <1>4, <1>6, <2>1, RowDropped
<1>7. RowOK(r)'
  <2>1. /\ event' = event /\ attempts' = attempts /\ sent' = sent
        /\ event[r] = "pending"
        /\ \A e \in Drainers : e # d => work[e][r] = "out"
    BY <1>1 DEF outbox, RowOK, Exclusive
  <2>2. \A e \in Drainers : work'[e][r] = "out"
    BY <1>3, <2>1
  <2>3. Owned(r)'
    BY <1>1, <2>1, OwnedFrame DEF outbox
  <2>4. Exclusive(r)'
    BY <2>2 DEF Exclusive
  <2>5. Earned(r)'
    BY <1>1, <2>1, <2>2 DEF RowOK, Earned
  <2>6. ~Tried(r) /\ ~Tried(r)'
    BY <1>1, <2>1, <2>2 DEF Tried
  <2>7. /\ sent[r] \in Nat /\ attempts[r] \in Nat /\ faults \in Nat
        /\ Sends(r) \in Nat /\ Cardinality(late[r]) \in Nat
    BY <1>1, RowNumbers
  <2>8. IsFiniteSet(late[r]) /\ Sends(r) <= attempts[r] + faults
    BY <1>1, <2>6, <2>7 DEF RowOK, Counted
  <2>9. d \notin late[r]
    BY <1>1 DEF OneSend
  <2>10. IsFiniteSet(late'[r]) /\ Cardinality(late'[r]) = Cardinality(late[r]) + 1
    <3> DEFINE S == late[r]
    <3>1. IsFiniteSet(S) /\ d \notin S
      BY <2>8, <2>9
    <3>2. IsFiniteSet(S \cup {d}) /\ Cardinality(S \cup {d}) = Cardinality(S) + 1
      BY <3>1, FS_AddElement
    <3>3. QED
      BY <1>4, <3>2
  <2>11. Sends(r)' = Sends(r) + 1
    BY <2>1, <2>7, <2>10 DEF Sends
  <2>12. Counted(r)'
    BY <1>1, <2>1, <2>6, <2>7, <2>8, <2>10, <2>11 DEF Counted
  <2>13. QED
    BY <2>3, <2>4, <2>5, <2>12 DEF RowOK
<1>8. OneSend'
  BY <1>1, <1>3, <1>4 DEF OneSend
<1>9. QED
  BY <1>1, <1>2, <1>5, <1>6, <1>7, <1>8, OutboxStep DEF outbox

\* A message that was still to come has come, or never will.
LEMMA ReturnInv ==
  ASSUME Inv, NEW d \in Drainers, NEW r \in Rows, SendReturns(d, r)
  PROVE  Inv'
<1>1. /\ TypeOK /\ RowOK(r) /\ OneSend /\ d \in late[r]
      /\ late' = [late EXCEPT ![r] = @ \ {d}]
      /\ sent' = sent \/ sent' = [sent EXCEPT ![r] = @ + 1]
      /\ dlq' = dlq \/ dlq' = dlq \cup {r}
      /\ UNCHANGED <<payment, callback, outbox, work, faults>>
  BY DEF Inv, SendReturns
<1>2. /\ sent[r] \in Nat /\ attempts[r] \in Nat /\ faults \in Nat
      /\ Sends(r) \in Nat /\ Cardinality(late[r]) \in Nat
  BY <1>1, RowNumbers
<1>3. /\ late' \in [Rows -> SUBSET Drainers] /\ late'[r] = late[r] \ {d}
      /\ \A x \in Rows : x # r => late'[x] = late[x]
  BY <1>1 DEF TypeOK
<1>4. /\ sent' \in [Rows -> Nat] /\ sent'[r] \in Nat
      /\ sent[r] <= sent'[r] /\ sent'[r] <= sent[r] + 1
      /\ \A x \in Rows : x # r => sent'[x] = sent[x]
  <2>1. CASE sent' = sent
    BY <1>1, <1>2, <2>1 DEF TypeOK
  <2>2. CASE sent' = [sent EXCEPT ![r] = @ + 1]
    BY <1>1, <1>2, <2>2 DEF TypeOK
  <2>3. QED
    BY <1>1, <2>1, <2>2
<1>5. TypeOK'
  BY <1>1, <1>3, <1>4 DEF TypeOK, payment, callback, outbox
<1>6. RowOK(r)'
  <2>1. event' = event /\ attempts' = attempts /\ faults' = faults /\ work' = work
    BY <1>1 DEF outbox
  <2>2. Owned(r)'
    BY <1>1, <2>1, OwnedFrame DEF outbox
  <2>3. Exclusive(r)'
    BY <1>1, <2>1 DEF RowOK, Exclusive
  <2>4. sent[r] > 0 => sent'[r] > 0
    BY <1>2, <1>4
  <2>5. Earned(r)'
    BY <1>1, <2>1, <2>4 DEF RowOK, Earned
  <2>6. Tried(r)' <=> Tried(r)
    BY <2>1 DEF Tried
  <2>7. IsFiniteSet(late[r]) /\ Sends(r) <= attempts[r] + faults + (IF Tried(r) THEN 1 ELSE 0)
    BY <1>1 DEF RowOK, Counted
  <2>8. IsFiniteSet(late'[r]) /\ Cardinality(late'[r]) = Cardinality(late[r]) - 1
    BY <1>1, <1>3, <2>7, FS_RemoveElement
  <2>9. Cardinality(late'[r]) \in Nat
    BY <2>8, FS_CardinalityType
  <2>10. Sends(r)' \in Nat /\ Sends(r)' <= Sends(r)
    BY <1>2, <1>4, <2>8, <2>9 DEF Sends
  <2>11. Counted(r)'
    BY <1>2, <2>1, <2>6, <2>7, <2>8, <2>10 DEF Counted
  <2>12. QED
    BY <2>2, <2>3, <2>5, <2>11 DEF RowOK
<1>7. \A x \in Rows : x # r => SameRow(x)
  BY <1>1, <1>3, <1>4 DEF SameRow, outbox
<1>8. OneSend'
  BY <1>1, <1>3 DEF OneSend
<1>9. faults' >= faults
  BY <1>1, <1>2
<1>10. QED
  BY <1>1, <1>5, <1>6, <1>7, <1>8, <1>9, OutboxStep DEF outbox

LEMMA CrashInv ==
  ASSUME Inv, Crash
  PROVE  Inv'
<1>1. /\ TypeOK /\ Fault
      /\ creating' = [p \in Payments |-> IF creating[p] = "none" THEN "none" ELSE "done"]
      /\ at' = [h \in Handlers |-> [p \in Payments |-> "idle"]]
      /\ work' = [d \in Drainers |-> [r \in Rows |-> "out"]]
      /\ late' = [r \in Rows |-> {}]
      /\ UNCHANGED <<status, known, hub, postings, acked, outbox, sent, dlq>>
  BY DEF Inv, Crash
<1>2. faults' \in 0..MaxFaults /\ faults' >= faults
  BY <1>1, FaultFacts
<1>3. TypeOK'
  BY <1>1, <1>2 DEF TypeOK, outbox, Creating, At, Work
<1>4. ASSUME NEW p \in Payments PROVE PaymentOK(p)'
  BY <1>1 DEF Inv, PaymentOK, outbox
<1>5. ASSUME NEW r \in Rows PROVE RowOK(r)'
  BY <1>1, RowDropped
<1>6. OneSend'
  BY <1>1 DEF OneSend
<1>7. QED
  BY <1>3, <1>4, <1>5, <1>6 DEF Inv

LEMMA NextInv ==
  ASSUME Inv, [Next]_vars
  PROVE  Inv'
<1>1. CASE Crash
  BY <1>1, CrashInv
<1>2. ASSUME NEW p \in Payments, Create(p) PROVE Inv'
  BY <1>2, CreateInv
<1>3. ASSUME NEW p \in Payments, NEW v \in {"committed", "aborted"}, HubDecides(p, v)
      PROVE  Inv'
  BY <1>3, HubInv DEF Decided
<1>4. ASSUME NEW p \in Payments, NEW h \in Handlers, HandleMojaloopWebhook(h, p) PROVE Inv'
  BY <1>4, CallbackInv, CompleteInv DEF HandleMojaloopWebhook
<1>5. ASSUME NEW d \in Drainers, Drain(d) PROVE Inv'
  BY <1>5, SelectInv, SendInv, CommitInv, ReturnInv DEF Drain
<1>6. ASSUME NEW d \in Drainers, Rollback(d) \/ \E r \in Rows : Expire(d, r) PROVE Inv'
  BY <1>6, RollbackInv, ExpireInv
<1>7. CASE UNCHANGED vars
  <2>1. TypeOK'
    BY <1>7 DEF vars, Inv, TypeOK
  <2>2. faults' \in Nat /\ faults' >= faults
    BY <1>7, SettlementAssumption DEF vars, Inv, TypeOK
  <2>3. QED
    BY <1>7, <2>1, <2>2, OutboxStep DEF vars, payment, callback, SameRow
<1>8. QED
  BY <1>1, <1>2, <1>3, <1>4, <1>5, <1>6, <1>7 DEF Next

LEMMA Always == Spec => []Inv
<1>1. Init => Inv
  BY InitInv
<1>2. Inv /\ [Next]_vars => Inv'
  BY NextInv
<1>3. QED
  BY <1>1, <1>2, PTL DEF Spec

-----------------------------------------------------------------------------
(* The theorems.                                                           *)

\* Every reachable state is well typed: the attempts of a row never exceed
\* maxOutboxAttempts, and the faults their bound.
THEOREM TypeCorrect == Spec => []TypeOK
<1>1. Inv => TypeOK
  BY DEF Inv
<1>2. QED
  BY <1>1, Always, PTL

\* payment.confirmed, in the outbox or on Kafka, stands for a transfer the
\* switch committed and the ledger has, however many callbacks overlap.
THEOREM EventsBacked == Spec => []EventsAreBacked
<1>1. Inv => EventsAreBacked
  BY DEF Inv, PaymentOK, RowOK, Owned, EventsAreBacked
<1>2. QED
  BY <1>1, Always, PTL

\* A completed payment and an acknowledged COMMITTED have their event and their
\* posting, whatever the replicas' crashes leave undone.
THEOREM CompletedEvents == Spec => []CompletedHasEvent
<1>1. Inv => CompletedHasEvent
  BY DEF Inv, PaymentOK, CompletedHasEvent
<1>2. QED
  BY <1>1, Always, PTL

\* A row is marked published only with a message on its topic, and given up only
\* after all its attempts, for any number of replicas.
THEOREM OutcomesEarned == Spec => []OutcomeIsEarned
<1>1. Inv => OutcomeIsEarned
  BY DEF Inv, RowOK, Earned, OutcomeIsEarned
<1>2. QED
  BY <1>1, Always, PTL

\* The messages of a row, those that may still come included, are its counted
\* attempts, one of the drain that holds it, and one for each drain that was
\* rolled back, for any number of replicas; nothing else makes two of them send
\* it side by side.
THEOREM SendsCounted == Spec => []SendsAreCounted
<1>1. ASSUME Inv, NEW r \in Rows
      PROVE  sent[r] + Cardinality(late[r]) <=
               attempts[r] + faults + (IF Locked(r) THEN 1 ELSE 0)
  <2>1. RowOK(r) /\ Counted(r) /\ TypeOK
    BY <1>1 DEF Inv, RowOK
  <2>2. Tried(r) => Locked(r)
    BY DEF Tried, Locked
  <2>3. Sends(r) \in Nat /\ attempts[r] \in Nat /\ faults \in Nat
    BY <2>1, RowNumbers
  <2>4. Sends(r) <= attempts[r] + faults + (IF Locked(r) THEN 1 ELSE 0)
    BY <2>1, <2>2, <2>3 DEF Counted
  <2>5. QED
    BY <2>4 DEF Sends
<1>2. Inv => SendsAreCounted
  BY <1>1 DEF SendsAreCounted
<1>3. QED
  BY <1>2, Always, PTL

-----------------------------------------------------------------------------
(* The refinement of OutboxDelivery: the replicas are one outbox.          *)

LEMMA OutboxInitial == Init => Outbox!Init
  BY DEF Init, Outbox!Init, Settled

\* A payment's own steps settle it, or change nothing a reader sees.
LEMMA SettleStep ==
  ASSUME Inv, NEW p \in Payments, UNCHANGED <<outbox, sent, late>>,
         \A q \in Payments : q # p => hub'[q] = hub[q] /\ postings'[q] = postings[q],
         p \in Settled => p \in Settled'
  PROVE  [Outbox!Next]_(Outbox!outboxVars)
<1>1. Settled' = Settled \/ Settled' = Settled \cup {p}
  BY DEF Settled
<1>2. UNCHANGED <<rowsOf, event, attempts, sent, late>>
  BY DEF outbox
<1>3. CASE Settled' = Settled
  BY <1>2, <1>3 DEF Outbox!outboxVars
<1>4. CASE Settled' = Settled \cup {p}
  <2>1. Outbox!Settle(p)
    BY <1>2, <1>4 DEF Outbox!Settle
  <2>2. QED
    BY <2>1 DEF Outbox!Next
<1>5. QED
  BY <1>1, <1>3, <1>4

LEMMA UnseenStep ==
  ASSUME UNCHANGED <<hub, postings, outbox, sent, late>>
  PROVE  [Outbox!Next]_(Outbox!outboxVars)
<1>1. UNCHANGED Settled
  BY DEF Settled
<1>2. QED
  BY <1>1 DEF outbox, Outbox!outboxVars

LEMMA PaymentStep ==
  ASSUME Inv, NEW p \in Payments,
         \/ Create(p)
         \/ \E v \in Decided : HubDecides(p, v)
         \/ \E h \in Handlers : HandleMojaloopWebhook(h, p)
  PROVE  [Outbox!Next]_(Outbox!outboxVars)
<1>1. TypeOK /\ PaymentOK(p)
  BY DEF Inv
<1>2. CASE Create(p)
  <2>1. /\ UNCHANGED <<outbox, sent, late, postings>>
        /\ \A q \in Payments : q # p => hub'[q] = hub[q]
        /\ hub'[p] = hub[p] \/ hub[p] = "none"
    BY <1>1, <1>2 DEF Create, CreatePayment, InitiateTransfer, MarkRefused, StoreTransferId,
                      callback, kafka, TypeOK, PaymentOK
  <2>2. p \in Settled => p \in Settled'
    BY <2>1 DEF Settled
  <2>3. QED
    BY <2>1, <2>2, SettleStep
<1>3. ASSUME NEW v \in Decided, HubDecides(p, v)
      PROVE  [Outbox!Next]_(Outbox!outboxVars)
  <2>1. /\ UNCHANGED <<outbox, sent, late, postings>>
        /\ \A q \in Payments : q # p => hub'[q] = hub[q]
        /\ hub[p] = "prepared"
    BY <1>1, <1>3 DEF HubDecides, callback, kafka, TypeOK
  <2>2. p \in Settled => p \in Settled'
    BY <2>1 DEF Settled
  <2>3. QED
    BY <2>1, <2>2, SettleStep
<1>4. ASSUME NEW h \in Handlers, PostSettlementToLedger(h, p)
      PROVE  [Outbox!Next]_(Outbox!outboxVars)
  <2>1. /\ UNCHANGED <<outbox, sent, late, hub>>
        /\ postings' = postings \/ postings' = [postings EXCEPT ![p] = @ + 1]
    BY <1>4 DEF PostSettlementToLedger, payment, kafka
  <2>2. /\ \A q \in Payments : q # p => postings'[q] = postings[q]
        /\ postings[p] > 0 => postings'[p] > 0
    BY <1>1, <2>1 DEF TypeOK
  <2>3. p \in Settled => p \in Settled'
    BY <2>1, <2>2 DEF Settled
  <2>4. QED
    BY <2>1, <2>2, <2>3, SettleStep
<1>5. ASSUME NEW h \in Handlers, CompletePaymentWithOutbox(h, p)
      PROVE  [Outbox!Next]_(Outbox!outboxVars)
  <2>1. UNCHANGED <<hub, postings, attempts, sent, late>> /\ at[h][p] = "posted"
    BY <1>5 DEF CompletePaymentWithOutbox, kafka
  <2>2. UNCHANGED Settled /\ p \in Settled
    BY <1>1, <2>1 DEF Settled, PaymentOK
  <2>3. CASE UNCHANGED <<event, rowsOf>>
    BY <2>1, <2>3, UnseenStep DEF outbox
  <2>4. ASSUME NEW r \in Rows, event[r] = "none",
               event' = [event EXCEPT ![r] = "pending"],
               rowsOf' = [rowsOf EXCEPT ![p] = @ \cup {r}]
        PROVE  [Outbox!Next]_(Outbox!outboxVars)
    <3>1. Outbox!Record(p, r)
      BY <2>1, <2>2, <2>4 DEF Outbox!Record
    <3>2. QED
      BY <3>1 DEF Outbox!Next
  <2>5. QED
    BY <1>5, <2>3, <2>4 DEF CompletePaymentWithOutbox
<1>6. ASSUME NEW h \in Handlers,
             Replay(h, p) \/ Resolve(h, p) \/ LedgerUnavailable(h, p) \/ AbortPayment(h, p)
      PROVE  [Outbox!Next]_(Outbox!outboxVars)
  <2>1. UNCHANGED <<hub, postings, outbox, sent, late>>
    BY <1>6 DEF Replay, Resolve, LedgerUnavailable, AbortPayment, payment, kafka
  <2>2. QED
    BY <2>1, UnseenStep
<1>7. QED
  BY <1>2, <1>3, <1>4, <1>5, <1>6 DEF HandleMojaloopWebhook

\* A row is locked by one drainer, and so still pending, when it is sent and
\* when what became of it is committed.
LEMMA DrainStep ==
  ASSUME Inv, NEW d \in Drainers, Drain(d)
  PROVE  [Outbox!Next]_(Outbox!outboxVars)
<1>1. TypeOK /\ \A r \in Rows : RowOK(r)
  BY DEF Inv
<1>2. CASE Select(d)
  BY <1>2, UnseenStep DEF Select, payment, callback
<1>3. ASSUME NEW r \in Rows, Publish(d, r) \/ PublishFails(d, r)
      PROVE  [Outbox!Next]_(Outbox!outboxVars)
  <2>1. /\ work[d][r] = "todo"
        /\ sent' = sent \/ sent' = [sent EXCEPT ![r] = @ + 1]
        /\ UNCHANGED <<hub, postings, outbox, late>>
    BY <1>3 DEF Publish, PublishFails, payment, callback
  <2>2. event[r] = "pending"
    BY <1>1, <2>1 DEF RowOK, Exclusive
  <2>3. CASE sent' = sent
    BY <2>1, <2>3, UnseenStep
  <2>4. CASE sent' = [sent EXCEPT ![r] = @ + 1]
    <3>1. UNCHANGED <<Settled, rowsOf, event, attempts>>
      BY <2>1 DEF outbox, Settled
    <3>2. Outbox!Deliver(r)
      BY <2>1, <2>2, <2>4, <3>1 DEF Outbox!Deliver
    <3>3. QED
      BY <3>2 DEF Outbox!Next
  <2>5. QED
    BY <2>1, <2>3, <2>4
<1>4. CASE Commit(d)
  <2> DEFINE batch == {r \in Rows : work[d][r] # "out"}
  <2>1. UNCHANGED <<hub, postings, rowsOf, sent, late>>
    BY <1>4 DEF Commit, payment, callback
  <2>2. UNCHANGED <<Settled, rowsOf, sent, late>>
    BY <2>1 DEF Settled
  <2>3. /\ event' = [r \in Rows |->
              IF work[d][r] \in {"published", "failed"} THEN work[d][r] ELSE event[r]]
        /\ attempts' = [r \in Rows |-> IF work[d][r] = "out" THEN attempts[r] ELSE attempts[r] + 1]
        /\ \A r \in Rows : work[d][r] # "todo"
    BY <1>4 DEF Commit
  <2>4. attempts' = [r \in Rows |-> IF r \in batch THEN attempts[r] + 1 ELSE attempts[r]]
    BY <2>3
  <2>5. event' \in [Rows -> {"none", "pending", "published", "failed"}]
    BY <1>1, <2>3 DEF TypeOK, Event
  <2>6. \A r \in Rows \ batch : event'[r] = event[r]
    BY <2>3
  <2>7. ASSUME NEW r \in batch
        PROVE  /\ event[r] = "pending"
               /\ \/ event'[r] = "published" /\ sent[r] > 0 /\ attempts'[r] <= MaxAttempts
                  \/ event'[r] = "failed" /\ attempts'[r] = MaxAttempts
                  \/ event'[r] = "pending" /\ attempts'[r] < MaxAttempts
    <3>1. RowOK(r) /\ work[d][r] \in {"published", "retry", "failed"}
      BY <1>1, <2>3 DEF TypeOK, Work
    <3>2. event[r] = "pending" /\ attempts[r] < MaxAttempts
      BY <3>1 DEF RowOK, Exclusive, Earned
    <3>3. attempts[r] \in Nat /\ MaxAttempts \in Nat /\ attempts'[r] = attempts[r] + 1
      BY <1>1, <2>3, <3>1, RowNumbers
    <3>4. attempts'[r] <= MaxAttempts
      BY <3>2, <3>3
    <3>5. CASE work[d][r] = "published"
      BY <2>3, <3>1, <3>2, <3>4, <3>5 DEF RowOK, Earned
    <3>6. CASE work[d][r] = "retry"
      BY <2>3, <3>1, <3>2, <3>3, <3>6 DEF RowOK, Earned
    <3>7. CASE work[d][r] = "failed"
      BY <2>3, <3>1, <3>2, <3>3, <3>7 DEF RowOK, Earned
    <3>8. QED
      BY <3>1, <3>5, <3>6, <3>7
  <2>8. batch \in SUBSET Rows
    OBVIOUS
  <2> HIDE DEF batch
  <2>9. Outbox!Attempt(batch)
    BY <2>2, <2>4, <2>5, <2>6, <2>7 DEF Outbox!Attempt
  <2>10. QED
    BY <2>8, <2>9 DEF Outbox!Next
<1>5. ASSUME NEW r \in Rows, SendReturns(d, r)
      PROVE  [Outbox!Next]_(Outbox!outboxVars)
  <2>1. UNCHANGED <<Settled, rowsOf, event, attempts>>
    BY <1>5 DEF SendReturns, payment, callback, outbox, Settled
  <2>2. Outbox!Arrive(d, r)
    BY <1>5, <2>1 DEF SendReturns, Outbox!Arrive
  <2>3. QED
    BY <2>2 DEF Outbox!Next
<1>6. QED
  BY <1>2, <1>3, <1>4, <1>5 DEF Drain

\* A replica that loses its row was sending a pending event, and nothing else.
LEMMA LoseStep ==
  ASSUME Inv, NEW d \in Drainers, NEW r \in Rows, Expire(d, r)
  PROVE  [Outbox!Next]_(Outbox!outboxVars)
<1>1. RowOK(r) /\ OneSend /\ work[d][r] = "todo"
  BY DEF Inv, Expire
<1>2. event[r] = "pending" /\ \A q \in Rows : d \notin late[q]
  BY <1>1 DEF RowOK, Exclusive, OneSend
<1>3. UNCHANGED <<Settled, rowsOf, event, attempts, sent>>
  BY DEF Expire, payment, callback, outbox, Settled
<1>4. Outbox!Lose(d, r)
  BY <1>2, <1>3 DEF Expire, Outbox!Lose
<1>5. QED
  BY <1>4 DEF Outbox!Next

LEMMA OutboxNextStep ==
  ASSUME Inv, [Next]_vars
  PROVE  [Outbox!Next]_(Outbox!outboxVars)
<1>1. ASSUME NEW d \in Drainers, Rollback(d) \/ \E r \in Rows : Expire(d, r)
      PROVE  [Outbox!Next]_(Outbox!outboxVars)
  <2>1. Rollback(d) => UNCHANGED <<hub, postings, outbox, sent, late>>
    BY DEF Rollback, payment, callback
  <2>2. QED
    BY <1>1, <2>1, UnseenStep, LoseStep
<1>2. CASE UNCHANGED vars
  BY <1>2, UnseenStep DEF vars, outbox
<1>3. ASSUME NEW p \in Payments,
             \/ Create(p)
             \/ \E v \in {"committed", "aborted"} : HubDecides(p, v)
             \/ \E h \in Handlers : HandleMojaloopWebhook(h, p)
      PROVE  [Outbox!Next]_(Outbox!outboxVars)
  BY <1>3, PaymentStep DEF Decided
<1>4. ASSUME NEW d \in Drainers, Drain(d)
      PROVE  [Outbox!Next]_(Outbox!outboxVars)
  BY <1>4, DrainStep
<1>5. CASE Crash
  <2>1. /\ UNCHANGED <<Settled, rowsOf, event, attempts, sent>>
        /\ late' = [r \in Rows |-> {}]
    BY <1>5 DEF Crash, outbox, Settled
  <2>2. Outbox!Stop
    BY <2>1 DEF Outbox!Stop
  <2>3. QED
    BY <2>2 DEF Outbox!Next
<1>6. QED
  BY <1>1, <1>2, <1>3, <1>4, <1>5 DEF Next

\* Whoever reads payment.confirmed may take the replicas for OutboxDelivery:
\* an event of a settled payment, closed once, with a message or after its
\* whole budget, and sent only while it is pending, but for the one message a
\* replica has on its way when its drain is rolled back.
THEOREM SettlementImplementsOutbox == Spec => ImplementsOutbox
<1>1. Init => Outbox!Init
  BY OutboxInitial
<1>2. Inv /\ [Next]_vars => [Outbox!Next]_(Outbox!outboxVars)
  BY OutboxNextStep
<1>3. QED
  BY <1>1, <1>2, Always, PTL DEF Spec, ImplementsOutbox, Outbox!Spec

-----------------------------------------------------------------------------
(* How often a payment may be posted, and its event recorded.  A handler   *)
(* that has asked the ledger is charged with one posting until the payment *)
(* is in flight no more; then no handler can start to post, and each is    *)
(* charged but those that still will.  A fault excuses every handler.      *)

Charged(p) ==
  {h \in Handlers : IF status[p] \in InFlight THEN at[h][p] \in {"posted", "refused"}
                                              ELSE at[h][p] # "resolved"}

Posted(p) == {h \in Handlers : at[h][p] = "posted"}

\* Before createPayment is over no callback finds the payment.
Unanswered(p) ==
  /\ creating[p] # "done" =>
       p \notin known /\ postings[p] = 0 /\ \A h \in Handlers : at[h][p] = "idle"
  /\ \A h \in Handlers : at[h][p] # "idle" => p \in known

Recorded(p) ==
  /\ IsFiniteSet(rowsOf[p])
  /\ Cardinality(rowsOf[p]) + Cardinality(Posted(p)) <= postings[p]

Charge(p) == postings[p] <= Cardinality(Handlers) * faults + Cardinality(Charged(p))

AccountOK(p) == Unanswered(p) /\ Recorded(p) /\ Charge(p)

AccountInv == \A p \in Payments : AccountOK(p)

LEMMA Product ==
  ASSUME NEW k \in Nat, NEW f \in Nat
  PROVE  k * f \in Nat /\ k * (f + 1) = k * f + k
  OBVIOUS

\* x postings, y after the step; b of them paid by faults, c by handlers.
LEMMA Sums ==
  ASSUME NEW x \in Nat, NEW y \in Nat, NEW b \in Nat, NEW b1 \in Nat,
         NEW c \in Nat, NEW c1 \in Nat, NEW k \in Nat, c <= k, x <= b + c,
         \/ y = x /\ b1 = b /\ c <= c1
         \/ y = x /\ b1 = b + k
         \/ y = x + 1 /\ b1 = b /\ c + 1 <= c1
  PROVE  y <= b1 + c1
  OBVIOUS

LEMMA CountFacts ==
  ASSUME IsFiniteSet(Handlers), NEW p \in Payments
  PROVE  /\ IsFiniteSet(Charged(p)) /\ IsFiniteSet(Posted(p))
         /\ IsFiniteSet(Charged(p)') /\ IsFiniteSet(Posted(p)')
         /\ Cardinality(Charged(p)) <= Cardinality(Handlers)
         /\ Cardinality(Handlers) \in Nat
         /\ Cardinality(Charged(p)) \in Nat /\ Cardinality(Charged(p)') \in Nat
         /\ Cardinality(Posted(p)) \in Nat /\ Cardinality(Posted(p)') \in Nat
<1>1. /\ Charged(p) \subseteq Handlers /\ Posted(p) \subseteq Handlers
      /\ Charged(p)' \subseteq Handlers /\ Posted(p)' \subseteq Handlers
  BY DEF Charged, Posted
<1>2. /\ IsFiniteSet(Charged(p)) /\ IsFiniteSet(Posted(p))
      /\ IsFiniteSet(Charged(p)') /\ IsFiniteSet(Posted(p)')
      /\ Cardinality(Charged(p)) <= Cardinality(Handlers)
  BY <1>1, FS_Subset
<1>3. QED
  BY <1>2, FS_CardinalityType

\* The three things a step does to the postings of a payment and those charged.
LEMMA ChargeStep ==
  ASSUME IsFiniteSet(Handlers), TypeOK, TypeOK', NEW p \in Payments, Charge(p), NEW h,
         \/ postings'[p] = postings[p] /\ faults' = faults /\ Charged(p) \subseteq Charged(p)'
         \/ postings'[p] = postings[p] /\ faults' = faults + 1
         \/ /\ postings'[p] = postings[p] + 1 /\ faults' = faults
            /\ Charged(p) \cup {h} \subseteq Charged(p)' /\ h \notin Charged(p)
  PROVE  Charge(p)'
<1> DEFINE k == Cardinality(Handlers)
           c == Cardinality(Charged(p))
           c1 == Cardinality(Charged(p)')
<1>1. /\ IsFiniteSet(Charged(p)) /\ IsFiniteSet(Charged(p)')
      /\ k \in Nat /\ c \in Nat /\ c1 \in Nat /\ c <= k
  BY CountFacts
<1>2. /\ postings[p] \in Nat /\ postings'[p] \in Nat /\ faults \in Nat /\ faults' \in Nat
  BY SettlementAssumption DEF TypeOK
<1>3. Charged(p) \subseteq Charged(p)' => c <= c1
  BY <1>1, FS_Subset
<1>4. Charged(p) \cup {h} \subseteq Charged(p)' /\ h \notin Charged(p) => c + 1 <= c1
  <2>1. h \notin Charged(p) => Cardinality(Charged(p) \cup {h}) = c + 1
    BY <1>1, FS_AddElement
  <2>2. Charged(p) \cup {h} \subseteq Charged(p)' => Cardinality(Charged(p) \cup {h}) <= c1
    BY <1>1, FS_Subset
  <2>3. QED
    BY <2>1, <2>2
<1>5. k * faults \in Nat /\ k * faults' \in Nat /\ k * (faults + 1) = k * faults + k
  BY <1>1, <1>2, Product
<1>6. postings[p] <= k * faults + c
  BY DEF Charge
<1> HIDE DEF k, c, c1
<1>7. CASE postings'[p] = postings[p] /\ faults' = faults /\ Charged(p) \subseteq Charged(p)'
  <2>1. c <= c1 /\ k * faults' = k * faults
    BY <1>3, <1>7
  <2>2. postings'[p] <= k * faults' + c1
    BY <1>1, <1>2, <1>5, <1>6, <1>7, <2>1, Sums
  <2>3. QED
    BY <2>2 DEF Charge, k, c1
<1>8. CASE postings'[p] = postings[p] /\ faults' = faults + 1
  <2>1. k * faults' = k * faults + k
    BY <1>5, <1>8
  <2>2. postings'[p] <= k * faults' + c1
    BY <1>1, <1>2, <1>5, <1>6, <1>8, <2>1, Sums
  <2>3. QED
    BY <2>2 DEF Charge, k, c1
<1>9. CASE /\ postings'[p] = postings[p] + 1 /\ faults' = faults
           /\ Charged(p) \cup {h} \subseteq Charged(p)' /\ h \notin Charged(p)
  <2>1. c + 1 <= c1 /\ k * faults' = k * faults
    BY <1>4, <1>9
  <2>2. postings'[p] <= k * faults' + c1
    BY <1>1, <1>2, <1>5, <1>6, <1>9, <2>1, Sums
  <2>3. QED
    BY <2>2 DEF Charge, k, c1
<1>10. QED
  BY <1>7, <1>8, <1>9

\* What a step does to the events of a payment and the handlers about to record
\* one.
LEMMA RecordStep ==
  ASSUME IsFiniteSet(Handlers), TypeOK, TypeOK', NEW p \in Payments, Recorded(p),
         NEW h \in Handlers, NEW r,
         \/ /\ rowsOf'[p] = rowsOf[p] /\ postings'[p] >= postings[p]
            /\ Posted(p)' \subseteq Posted(p)
         \/ /\ rowsOf'[p] = rowsOf[p] /\ postings'[p] = postings[p] + 1
            /\ Posted(p)' \subseteq Posted(p) \cup {h}
         \/ /\ rowsOf'[p] = rowsOf[p] \cup {r} /\ postings'[p] = postings[p]
            /\ h \in Posted(p) /\ Posted(p)' \subseteq Posted(p) \ {h}
  PROVE  Recorded(p)'
<1> DEFINE n == Cardinality(rowsOf[p])
           m == Cardinality(Posted(p))
           m1 == Cardinality(Posted(p)')
<1>1. IsFiniteSet(Posted(p)) /\ IsFiniteSet(Posted(p)') /\ m \in Nat /\ m1 \in Nat
  BY CountFacts
<1>2. /\ IsFiniteSet(rowsOf[p]) /\ n \in Nat
      /\ n + m <= postings[p] /\ postings[p] \in Nat /\ postings'[p] \in Nat
  BY FS_CardinalityType DEF Recorded, TypeOK
<1>3. CASE /\ rowsOf'[p] = rowsOf[p] /\ postings'[p] >= postings[p]
           /\ Posted(p)' \subseteq Posted(p)
  <2>1. m1 <= m
    BY <1>1, <1>3, FS_Subset
  <2> HIDE DEF n, m, m1
  <2>2. n + m1 <= postings'[p]
    BY <1>1, <1>2, <1>3, <2>1
  <2>3. QED
    BY <1>2, <1>3, <2>2 DEF Recorded, n, m1
<1>4. CASE /\ rowsOf'[p] = rowsOf[p] /\ postings'[p] = postings[p] + 1
           /\ Posted(p)' \subseteq Posted(p) \cup {h}
  <2>1. /\ IsFiniteSet(Posted(p) \cup {h})
        /\ Cardinality(Posted(p) \cup {h}) = m \/ Cardinality(Posted(p) \cup {h}) = m + 1
    BY <1>1, FS_AddElement
  <2>2. m1 <= Cardinality(Posted(p) \cup {h})
    BY <1>4, <2>1, FS_Subset
  <2> HIDE DEF n, m, m1
  <2>3. n + m1 <= postings'[p]
    BY <1>1, <1>2, <1>4, <2>1, <2>2
  <2>4. QED
    BY <1>2, <1>4, <2>3 DEF Recorded, n, m1
<1>5. CASE /\ rowsOf'[p] = rowsOf[p] \cup {r} /\ postings'[p] = postings[p]
           /\ h \in Posted(p) /\ Posted(p)' \subseteq Posted(p) \ {h}
  <2> DEFINE n1 == Cardinality(rowsOf'[p])
  <2>1. IsFiniteSet(rowsOf'[p]) /\ n1 \in Nat /\ (n1 = n \/ n1 = n + 1)
    <3>1. IsFiniteSet(rowsOf[p] \cup {r}) /\ (r \in rowsOf[p] => rowsOf[p] \cup {r} = rowsOf[p])
      BY <1>2, FS_AddElement
    <3>2. r \notin rowsOf[p] => Cardinality(rowsOf[p] \cup {r}) = n + 1
      BY <1>2, FS_AddElement
    <3>3. Cardinality(rowsOf[p] \cup {r}) \in Nat
      BY <3>1, FS_CardinalityType
    <3>4. QED
      BY <1>5, <3>1, <3>2, <3>3
  <2>2. IsFiniteSet(Posted(p) \ {h}) /\ Cardinality(Posted(p) \ {h}) = m - 1
    BY <1>1, <1>5, FS_RemoveElement
  <2>3. m1 <= m - 1
    BY <1>5, <2>2, FS_Subset
  <2> HIDE DEF n, m, m1, n1
  <2>4. n1 + m1 <= postings'[p]
    BY <1>1, <1>2, <1>5, <2>1, <2>3
  <2>5. QED
    BY <2>1, <2>4 DEF Recorded, m1, n1
<1>6. QED
  BY <1>3, <1>4, <1>5

SameAccount(p) ==
  /\ SamePayment(p)
  /\ status'[p] = status[p]
  /\ p \in known' <=> p \in known
  /\ faults' = faults \/ faults' = faults + 1

LEMMA AccountFrame ==
  ASSUME IsFiniteSet(Handlers), TypeOK, TypeOK', NEW p \in Payments, AccountOK(p), SameAccount(p)
  PROVE  AccountOK(p)'
<1>1. Unanswered(p)'
  BY DEF AccountOK, Unanswered, SameAccount, SamePayment
<1>2. Charged(p)' = Charged(p) /\ Posted(p)' = Posted(p)
  BY DEF Charged, Posted, SameAccount, SamePayment
<1>3. Recorded(p)'
  BY <1>2 DEF AccountOK, Recorded, SameAccount, SamePayment
<1>4. Charge(p)'
  BY <1>2, ChargeStep DEF AccountOK, SameAccount, SamePayment
<1>5. QED
  BY <1>1, <1>3, <1>4 DEF AccountOK

\* The steps of one payment: the others' accounts are framed.
LEMMA OneAccount ==
  ASSUME IsFiniteSet(Handlers), Inv, Inv', AccountInv, NEW p \in Payments, AccountOK(p)',
         \A q \in Payments : q # p => SameAccount(q)
  PROVE  AccountInv'
<1>1. ASSUME NEW q \in Payments, q # p PROVE AccountOK(q)'
  BY <1>1, AccountFrame DEF Inv, AccountInv
<1>2. QED
  BY <1>1 DEF AccountInv

LEMMA CreateAccount ==
  ASSUME IsFiniteSet(Handlers), Inv, Inv', AccountInv, NEW p \in Payments, Create(p)
  PROVE  AccountInv'
<1>1. /\ TypeOK /\ TypeOK' /\ AccountOK(p)
      /\ UNCHANGED <<callback, outbox, kafka>>
      /\ faults' = faults \/ faults' = faults + 1
      /\ creating[p] # "done"
  BY DEF Inv, AccountInv, Create, CreatePayment, InitiateTransfer, MarkRefused, StoreTransferId,
         Fault
<1>2. /\ creating'[p] = "done" \/ known' = known
      /\ \A q \in Payments : q # p =>
           /\ status'[q] = status[q] /\ creating'[q] = creating[q] /\ hub'[q] = hub[q]
           /\ q \in known' <=> q \in known
  BY <1>1 DEF TypeOK, Create, CreatePayment, InitiateTransfer, MarkRefused, StoreTransferId
<1>3. UNCHANGED <<at, postings, acked, rowsOf>>
  BY <1>1 DEF callback, outbox
<1>4. postings[p] = 0 /\ p \notin known /\ \A h \in Handlers : at[h][p] = "idle"
  BY <1>1 DEF AccountOK, Unanswered
<1>5. Unanswered(p)'
  BY <1>2, <1>3, <1>4 DEF Unanswered
<1>6. Recorded(p)'
  BY <1>1, <1>3 DEF AccountOK, Recorded, Posted
<1>7. Charge(p)'
  <2>1. /\ Cardinality(Charged(p)') \in Nat /\ Cardinality(Handlers) \in Nat
    BY CountFacts
  <2>2. Cardinality(Handlers) * faults' \in Nat
    BY <1>1, <2>1, SettlementAssumption, Product DEF TypeOK
  <2>3. QED
    BY <1>3, <1>4, <2>1, <2>2 DEF Charge
<1>8. \A q \in Payments : q # p => SameAccount(q)
  BY <1>1, <1>2, <1>3 DEF SameAccount, SamePayment
<1>9. QED
  BY <1>5, <1>6, <1>7, <1>8, OneAccount DEF AccountOK

\* What a step of the callback of h does to the account of p.
LEMMA CallbackAccount ==
  ASSUME IsFiniteSet(Handlers), Inv, Inv', AccountInv, NEW p \in Payments, NEW h \in Handlers,
         HandleMojaloopWebhook(h, p)
  PROVE  AccountInv'
<1>1. /\ TypeOK /\ TypeOK' /\ AccountOK(p) /\ PaymentOK(p)
      /\ UNCHANGED <<known, creating, hub>>
      /\ faults' = faults \/ faults' = faults + 1
  BY DEF Inv, AccountInv, HandleMojaloopWebhook, Replay, Resolve, PostSettlementToLedger,
         LedgerUnavailable, CompletePaymentWithOutbox, AbortPayment, payment, Fault
<1>2. p \in known
  BY <1>1 DEF AccountOK, Unanswered, HandleMojaloopWebhook, Replay, Resolve,
              PostSettlementToLedger, LedgerUnavailable, CompletePaymentWithOutbox, AbortPayment
<1>same. postings[p] >= postings[p]
  BY <1>1 DEF TypeOK
<1>3. PICK s \in At : \/ s = at[h][p] /\ UNCHANGED at /\ Replay(h, p)
                     \/ Move(h, p, s)
  BY <1>1 DEF HandleMojaloopWebhook, TypeOK, At, Replay, Resolve, PostSettlementToLedger,
              LedgerUnavailable, CompletePaymentWithOutbox, AbortPayment
<1>4. /\ at'[h][p] = s
      /\ \A q \in Payments : q # p => \A g \in Handlers : at'[g][q] = at[g][q]
      /\ \A g \in Handlers : g # h => at'[g][p] = at[g][p]
  BY <1>1, <1>3, MoveFacts
<1>5. /\ \A q \in Payments : q # p =>
           /\ status'[q] = status[q] /\ postings'[q] = postings[q] /\ rowsOf'[q] = rowsOf[q]
           /\ (q \in acked' <=> q \in acked)
  BY <1>1 DEF TypeOK, HandleMojaloopWebhook, Replay, Resolve, PostSettlementToLedger,
              LedgerUnavailable, CompletePaymentWithOutbox, AbortPayment, payment, outbox, Answered
<1>6. \A q \in Payments : q # p => SameAccount(q)
  BY <1>1, <1>4, <1>5 DEF SameAccount, SamePayment
<1>7. Unanswered(p)'
  BY <1>1, <1>2 DEF AccountOK, Unanswered
<1>8. CASE Replay(h, p)
  <2>1. UNCHANGED <<status, at, postings, rowsOf, faults>>
    BY <1>8 DEF Replay, payment, outbox
  <2>2. Charged(p)' = Charged(p) /\ Posted(p)' = Posted(p)
    BY <2>1 DEF Charged, Posted
  <2>3. Recorded(p)' /\ Charge(p)'
    BY <1>1, <2>1, <2>2 DEF AccountOK, Recorded, Charge
  <2>4. QED
    BY <1>6, <1>7, <2>3, OneAccount DEF AccountOK
<1>9. CASE Resolve(h, p)
  <2>1. /\ UNCHANGED <<status, postings, rowsOf, faults>> /\ status[p] \in InFlight
        /\ at[h][p] = "idle" /\ Move(h, p, "resolved")
    BY <1>9 DEF Resolve, payment, outbox
  <2>2. at'[h][p] = "resolved"
    BY <1>1, <2>1, MoveFacts DEF At
  <2>3. Charged(p) \subseteq Charged(p)' /\ Posted(p)' \subseteq Posted(p)
    BY <1>4, <2>1, <2>2 DEF Charged, Posted
  <2>4. Charge(p)'
    BY <1>1, <2>1, <2>3, ChargeStep DEF AccountOK
  <2>5. Recorded(p)'
    BY <1>1, <1>same, <2>1, <2>3, RecordStep DEF AccountOK
  <2>6. QED
    BY <1>6, <1>7, <2>4, <2>5, OneAccount DEF AccountOK
<1>10. CASE PostSettlementToLedger(h, p)
  <2>1. /\ UNCHANGED <<status, rowsOf, faults>> /\ at[h][p] = "resolved"
        /\ s \in {"posted", "refused"}
    <3>1. UNCHANGED <<status, rowsOf, faults>> /\ at[h][p] = "resolved"
      BY <1>10 DEF PostSettlementToLedger, payment, outbox
    <3>2. at'[h][p] \in {"posted", "refused"}
      BY <1>1, <1>10, MoveFacts DEF PostSettlementToLedger, At
    <3>3. QED
      BY <1>4, <3>1, <3>2
  <2>2. Charged(p) \cup {h} \subseteq Charged(p)' /\ h \notin Charged(p)
    BY <1>4, <2>1 DEF Charged
  <2>3. Posted(p)' \subseteq Posted(p) \cup {h}
    BY <1>4 DEF Posted
  <2>4. CASE postings' = [postings EXCEPT ![p] = @ + 1]
    <3>1. postings'[p] = postings[p] + 1
      BY <1>1, <2>4 DEF TypeOK
    <3>2. Charge(p)' /\ Recorded(p)'
      BY <1>1, <2>1, <2>2, <2>3, <3>1, ChargeStep, RecordStep DEF AccountOK
    <3>3. QED
      BY <1>6, <1>7, <3>2, OneAccount DEF AccountOK
  <2>5. CASE UNCHANGED postings /\ Move(h, p, "refused")
    <3>1. at'[h][p] = "refused"
      BY <1>1, <2>5, MoveFacts DEF At
    <3>2. Posted(p)' \subseteq Posted(p)
      BY <1>4, <3>1 DEF Posted
    <3>3. Charge(p)' /\ Recorded(p)'
      BY <1>1, <1>same, <2>1, <2>2, <2>5, <3>2, ChargeStep, RecordStep DEF AccountOK
    <3>4. QED
      BY <1>6, <1>7, <3>3, OneAccount DEF AccountOK
  <2>6. QED
    BY <1>10, <2>4, <2>5 DEF PostSettlementToLedger
<1>11. CASE LedgerUnavailable(h, p) \/ AbortPayment(h, p)
  <2>1. /\ UNCHANGED <<postings, rowsOf>> /\ at[h][p] \in {"refused", "resolved"}
        /\ Move(h, p, "idle")
        /\ \/ status'[p] \in {"ledger_unavailable", "failed"} /\ faults' = faults
           \/ faults' = faults + 1
    BY <1>1, <1>11 DEF LedgerUnavailable, AbortPayment, outbox, Fault, TypeOK
  <2>2. at'[h][p] = "idle"
    BY <1>1, <2>1, MoveFacts DEF At
  <2>3. Posted(p)' \subseteq Posted(p)
    BY <1>4, <2>2 DEF Posted
  <2>4. Recorded(p)'
    BY <1>1, <1>same, <2>1, <2>3, RecordStep DEF AccountOK
  <2>5. status'[p] \in {"ledger_unavailable", "failed"} => Charged(p) \subseteq Charged(p)'
    BY <1>4, <2>2 DEF Charged, InFlight
  <2>6. Charge(p)'
    BY <1>1, <2>1, <2>5, ChargeStep DEF AccountOK
  <2>7. QED
    BY <1>6, <1>7, <2>4, <2>6, OneAccount DEF AccountOK
<1>12. CASE CompletePaymentWithOutbox(h, p)
  <2>1. UNCHANGED postings /\ at[h][p] = "posted" /\ Move(h, p, "idle")
    BY <1>12 DEF CompletePaymentWithOutbox
  <2>2. at'[h][p] = "idle"
    BY <1>1, <2>1, MoveFacts DEF At
  <2>3. h \in Posted(p) /\ Posted(p)' \subseteq Posted(p) \ {h}
    BY <1>4, <2>1, <2>2 DEF Posted
  <2>4. CASE UNCHANGED <<status, rowsOf>> /\ faults' = faults + 1
    <3>1. Charge(p)' /\ Recorded(p)'
      BY <1>1, <1>same, <2>1, <2>3, <2>4, ChargeStep, RecordStep DEF AccountOK
    <3>2. QED
      BY <1>6, <1>7, <3>1, OneAccount DEF AccountOK
  <2>5. ASSUME NEW r \in Rows, status' = [status EXCEPT ![p] = "completed"],
               rowsOf' = [rowsOf EXCEPT ![p] = @ \cup {r}]
        PROVE  AccountInv'
    <3>1. status'[p] = "completed" /\ rowsOf'[p] = rowsOf[p] \cup {r}
      BY <1>1, <2>5 DEF TypeOK
    <3>2. Charged(p) \subseteq Charged(p)'
      BY <1>4, <2>2, <3>1 DEF Charged, InFlight
    <3>3. Charge(p)'
      BY <1>1, <2>1, <3>2, ChargeStep DEF AccountOK
    <3>4. Recorded(p)'
      BY <1>1, <2>1, <2>3, <3>1, RecordStep DEF AccountOK
    <3>5. QED
      BY <1>6, <1>7, <3>3, <3>4, OneAccount DEF AccountOK
  <2>6. QED
    BY <1>12, <2>4, <2>5 DEF CompletePaymentWithOutbox, Fault
<1>13. QED
  BY <1>8, <1>9, <1>10, <1>11, <1>12 DEF HandleMojaloopWebhook

LEMMA CrashAccount ==
  ASSUME IsFiniteSet(Handlers), Inv, Inv', AccountInv, Crash
  PROVE  AccountInv'
<1>1. /\ TypeOK /\ TypeOK' /\ faults' = faults + 1
      /\ creating' = [p \in Payments |-> IF creating[p] = "none" THEN "none" ELSE "done"]
      /\ at' = [h \in Handlers |-> [p \in Payments |-> "idle"]]
      /\ UNCHANGED <<known, postings, rowsOf>>
  BY DEF Inv, Crash, Fault, outbox
<1>2. ASSUME NEW p \in Payments PROVE AccountOK(p)'
  <2>1. AccountOK(p)
    BY DEF AccountInv
  <2>2. Unanswered(p)'
    BY <1>1, <2>1 DEF AccountOK, Unanswered
  <2>3. Posted(p)' = {}
    BY <1>1 DEF Posted
  <2>4. Recorded(p)'
    <3>1. Cardinality(Posted(p)) \in Nat /\ Cardinality(rowsOf[p]) \in Nat
      BY <2>1, CountFacts, FS_CardinalityType DEF AccountOK, Recorded
    <3>2. Cardinality(Posted(p)') = 0
      BY <2>3, FS_EmptySet
    <3>3. postings[p] \in Nat
      BY <1>1 DEF TypeOK
    <3>4. QED
      BY <1>1, <2>1, <3>1, <3>2, <3>3 DEF AccountOK, Recorded
  <2>5. Charge(p)'
    BY <1>1, <2>1, ChargeStep DEF AccountOK
  <2>6. QED
    BY <2>2, <2>4, <2>5 DEF AccountOK
<1>3. QED
  BY <1>2 DEF AccountInv

LEMMA AccountNext ==
  ASSUME IsFiniteSet(Handlers), Inv, Inv', AccountInv, [Next]_vars
  PROVE  AccountInv'
<1>1. ASSUME \A p \in Payments : SameAccount(p) PROVE AccountInv'
  BY <1>1, AccountFrame DEF Inv, AccountInv
<1>2. ASSUME NEW p \in Payments, Create(p) PROVE AccountInv'
  BY <1>2, CreateAccount
<1>3. ASSUME NEW p \in Payments, NEW v \in {"committed", "aborted"}, HubDecides(p, v)
      PROVE  AccountInv'
  <2>1. /\ AccountOK(p) /\ TypeOK /\ TypeOK'
        /\ UNCHANGED <<status, known, creating, callback, outbox, faults>>
        /\ \A q \in Payments : q # p => hub'[q] = hub[q]
    BY <1>3 DEF HubDecides, Inv, AccountInv, TypeOK
  <2>2. Charged(p)' = Charged(p) /\ Posted(p)' = Posted(p)
    BY <2>1 DEF callback, Charged, Posted
  <2>3. AccountOK(p)'
    BY <2>1, <2>2 DEF callback, outbox, AccountOK, Unanswered, Recorded, Charge
  <2>4. \A q \in Payments : q # p => SameAccount(q)
    BY <2>1 DEF callback, outbox, SameAccount, SamePayment
  <2>5. QED
    BY <2>3, <2>4, OneAccount
<1>4. ASSUME NEW p \in Payments, NEW h \in Handlers, HandleMojaloopWebhook(h, p)
      PROVE  AccountInv'
  BY <1>4, CallbackAccount
<1>5. ASSUME NEW d \in Drainers,
             Drain(d) \/ Rollback(d) \/ \E r \in Rows : Expire(d, r)
      PROVE  AccountInv'
  <2>1. /\ UNCHANGED <<payment, callback, rowsOf>>
        /\ faults' = faults \/ faults' = faults + 1
    BY <1>5 DEF Drain, Select, Publish, PublishFails, Commit, SendReturns, Rollback, Expire,
                Fault, outbox
  <2>2. \A p \in Payments : SameAccount(p)
    BY <2>1 DEF payment, callback, SameAccount, SamePayment
  <2>3. QED
    BY <1>1, <2>2
<1>6. CASE UNCHANGED vars
  BY <1>1, <1>6 DEF vars, SameAccount, SamePayment
<1>7. QED
  BY <1>2, <1>3, <1>4, <1>5, <1>6, CrashAccount DEF Next

LEMMA AccountInit ==
  ASSUME IsFiniteSet(Handlers), Init
  PROVE  AccountInv
<1> SUFFICES ASSUME NEW p \in Payments PROVE AccountOK(p)
  BY DEF AccountInv
<1>1. Unanswered(p) /\ Posted(p) = {} /\ rowsOf[p] = {} /\ postings[p] = 0 /\ faults = 0
  BY DEF Init, Unanswered, Posted
<1>2. Recorded(p)
  BY <1>1, FS_EmptySet DEF Recorded
<1>3. Cardinality(Charged(p)) \in Nat /\ Cardinality(Handlers) * 0 = 0
  <2>1. Cardinality(Charged(p)) \in Nat /\ Cardinality(Handlers) \in Nat
    BY CountFacts
  <2>2. QED
    BY <2>1
<1>4. QED
  BY <1>1, <1>2, <1>3 DEF AccountOK, Charge

\* The ledger holds a payment, and Kafka its event, a bounded number of times:
\* each event has a posting of its own, and postings are paid for by callbacks
\* that overlap and by faults, for any number of replicas and deliveries.
THEOREM PostingsAccounted ==
  ASSUME IsFiniteSet(Handlers)
  PROVE  Spec => []PostingsAreAccounted
<1>1. Init => AccountInv
  BY AccountInit
<1>2. Inv /\ Inv' /\ AccountInv /\ [Next]_vars => AccountInv'
  BY AccountNext
<1>3. Inv /\ AccountInv => PostingsAreAccounted
  <2> SUFFICES ASSUME Inv, AccountInv, NEW p \in Payments
               PROVE  /\ Cardinality(rowsOf[p]) <= postings[p]
                      /\ postings[p] <= Cardinality(Handlers) * (faults + 1)
    BY DEF PostingsAreAccounted
  <2> DEFINE k == Cardinality(Handlers)
             c == Cardinality(Charged(p))
             n == Cardinality(rowsOf[p])
             m == Cardinality(Posted(p))
  <2>1. AccountOK(p) /\ postings[p] \in Nat /\ faults \in Nat
    BY SettlementAssumption DEF AccountInv, Inv, TypeOK
  <2>2. /\ k \in Nat /\ c \in Nat /\ m \in Nat /\ n \in Nat /\ c <= k
    BY <2>1, CountFacts, FS_CardinalityType DEF AccountOK, Recorded
  <2>3. n + m <= postings[p] /\ postings[p] <= k * faults + c
    BY <2>1 DEF AccountOK, Recorded, Charge
  <2> HIDE DEF k, c, n, m
  <2>4. k * faults \in Nat /\ k * (faults + 1) = k * faults + k
    BY <2>1, <2>2, Product
  <2>5. n <= postings[p] /\ postings[p] <= k * (faults + 1)
    BY <2>1, <2>2, <2>3, <2>4
  <2>6. QED
    BY <2>5 DEF k, n
<1>4. QED
  BY <1>1, <1>2, <1>3, Always, PTL DEF Spec
=============================================================================
