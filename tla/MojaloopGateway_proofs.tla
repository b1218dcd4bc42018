------------------------ MODULE MojaloopGateway_proofs ------------------------
(***************************************************************************)
(* What MojaloopGateway keeps for every set of payments and any number of  *)
(* restarts: its types, what a confirmation rests on, that a wait has its  *)
(* waiter; and, with careful officers, the books of the bridge and that it *)
(* implements TwoPhaseSettlement.                                          *)
(*                                                                         *)
(* The argument is PaymentOK, an invariant of one payment: what the step   *)
(* the pipeline is at says of the switch, of its waiters and of the bridge,*)
(* and (Tidy) of the books, which careless officers may bring out of order.*)
(* An action changes the fields of one payment; Frame keeps the others.    *)
(***************************************************************************)
EXTENDS MojaloopGateway, TLAPS

Before == {"none", "duty", "quote", "quoteAnswer", "transfer"}

\* What the pipeline's position implies.
Position(p) ==
  /\ step[p] \in Before => hub[p] \in {"none", "quoting"}
  /\ step[p] \in Before \cup {"sent", "reserve"} => reserve[p] = "none"
  /\ step[p] \in {"fulfilment", "post"} => reserve[p] # "none"
  /\ step[p] \in {"post", "publish", "confirm"} => hub[p] = "committed"
  /\ step[p] \in {"publish", "confirm"} => posted[p] > 0
  /\ step[p] = "confirm" => <<p, "confirmed">> \in events

Waiting(p) ==
  /\ step[p] = "quoteAnswer" => waiter[p]["quote"] # "none"
  /\ step[p] \in {"sent", "reserve", "fulfilment"} => waiter[p]["transfer"] # "none"

\* Only a committed transfer is answered well.
Committed(p) ==
  /\ waiter[p]["transfer"] = "good" => hub[p] = "committed"
  /\ p \in handling => hub[p] = "committed"

\* What is posted is never taken back.
Confirmed(p) ==
  /\ posted[p] >= 0
  /\ <<p, "confirmed">> \in events => hub[p] = "committed" /\ posted[p] > 0
  /\ "CONFIRMED" \in {status[p], row[p]} => <<p, "confirmed">> \in events

Books(p) ==
  /\ held[p] = (IF reserve[p] = "pending" THEN 1 ELSE 0)
  /\ posted[p] = (IF reserve[p] = "posted" THEN 1 ELSE 0)

\* The bridge's side of it, unless officers close what is not theirs to close.
Tidy(p) ==
  /\ Books(p)
  /\ step[p] \in {"fulfilment", "post"} => reserve[p] = "pending"
  /\ step[p] \in {"publish", "confirm"} => reserve[p] = "posted"
  /\ reserve[p] = "posted" => hub[p] = "committed"
  /\ <<p, "confirmed">> \in events => reserve[p] = "posted"

PaymentOK(p) ==
  Position(p) /\ Waiting(p) /\ Committed(p) /\ Confirmed(p) /\ (Careful => Tidy(p))

Inv == TypeOK /\ \A p \in Payments : PaymentOK(p)

\* Nothing that PaymentOK(p) mentions changes, except that a handler may end.
Same(p) ==
  /\ step'[p] = step[p] /\ status'[p] = status[p] /\ row'[p] = row[p]
  /\ waiter'[p] = waiter[p]
  /\ hub'[p] = hub[p]
  /\ p \in handling' => p \in handling
  /\ reserve'[p] = reserve[p] /\ held'[p] = held[p] /\ posted'[p] = posted[p]
  /\ <<p, "confirmed">> \in events' <=> <<p, "confirmed">> \in events

\* A payment none of whose fields changes keeps what held of it.
LEMMA Frame ==
  ASSUME NEW p \in Payments, PaymentOK(p), Same(p)
  PROVE  PaymentOK(p)'
  BY DEF PaymentOK, Position, Waiting, Committed, Tidy, Books, Confirmed, Same, Before

\* An action of one payment.
LEMMA OnePayment ==
  ASSUME Inv, TypeOK', NEW p \in Payments, PaymentOK(p)',
         \A q \in Payments : q # p => Same(q)
  PROVE  Inv'
<1>1. ASSUME NEW q \in Payments PROVE PaymentOK(q)'
  <2>1. CASE q = p
    BY <2>1
  <2>2. CASE q # p
    BY <2>2, Frame DEF Inv
  <2>3. QED
    BY <2>1, <2>2
<1>2. QED
  BY <1>1 DEF Inv

\* What advancing the pipeline of one payment does to the record.
LEMMA AdvanceFacts ==
  ASSUME TypeOK, NEW p \in Payments, NEW n \in Step, NEW s \in Status, Advance(p, n, s)
  PROVE  /\ step' \in [Payments -> Step] /\ status' \in [Payments -> Status]
         /\ row' \in [Payments -> Status]
         /\ step'[p] = n /\ status'[p] = s /\ row'[p] \in {row[p], s}
         /\ \A q \in Payments : q # p =>
              step'[q] = step[q] /\ status'[q] = status[q] /\ row'[q] = row[q]
  BY DEF TypeOK, Advance, Persisted

LEMMA AwaitFacts ==
  ASSUME TypeOK, NEW p \in Payments, NEW k \in Kinds, NEW w \in Wait, Await(p, k, w)
  PROVE  /\ waiter' \in [Payments -> [Kinds -> Wait]]
         /\ waiter'[p][k] = w
         /\ \A j \in Kinds : j # k => waiter'[p][j] = waiter[p][j]
         /\ \A q \in Payments : q # p => waiter'[q] = waiter[q]
<1> DEFINE f == waiter[p]
<1>1. f \in [Kinds -> Wait]
  BY DEF TypeOK
<1>2. waiter' = [waiter EXCEPT ![p] = [f EXCEPT ![k] = w]]
  BY DEF Await
<1>3. [f EXCEPT ![k] = w] \in [Kinds -> Wait]
  BY <1>1
<1>4. waiter'[p] = [f EXCEPT ![k] = w]
  BY <1>2 DEF TypeOK
<1>5. waiter' \in [Payments -> [Kinds -> Wait]]
  BY <1>2, <1>3 DEF TypeOK
<1>6. \A q \in Payments : q # p => waiter'[q] = waiter[q]
  BY <1>2 DEF TypeOK
<1>7. QED
  BY <1>1, <1>4, <1>5, <1>6

\* A callback's outcome, or a cancelled context, reaches one waiter or none.
LEMMA ResolveFacts ==
  ASSUME TypeOK, NEW p \in Payments, NEW k \in Kinds, NEW w \in Wait,
         Resolve(p, k, w) \/ (w = "expired" /\ Cancel(p, k))
  PROVE  /\ waiter' \in [Payments -> [Kinds -> Wait]]
         /\ waiter'[p][k] \in {waiter[p][k], w}
         /\ \A j \in Kinds : j # k => waiter'[p][j] = waiter[p][j]
         /\ \A q \in Payments : q # p => waiter'[q] = waiter[q]
<1>1. CASE Await(p, k, w)
  BY <1>1, AwaitFacts
<1>2. CASE UNCHANGED waiter
  BY <1>2 DEF TypeOK
<1>3. QED
  BY <1>1, <1>2 DEF Resolve, Cancel

LEMMA EnteredFacts ==
  ASSUME TypeOK, NEW p \in Payments, NEW s \in Reserve, NEW h \in Int, NEW q \in Int,
         Entered(p, s, h, q)
  PROVE  /\ reserve' \in [Payments -> Reserve] /\ held' \in [Payments -> Int]
         /\ posted' \in [Payments -> Int]
         /\ reserve'[p] = s /\ held'[p] = held[p] + h /\ posted'[p] = posted[p] + q
         /\ \A r \in Payments : r # p =>
              reserve'[r] = reserve[r] /\ held'[r] = held[r] /\ posted'[r] = posted[r]
  BY DEF TypeOK, Entered

\* The id of a transfer names no pending transfer of the bridge.
LEMMA NotNamed ==
  ASSUME NEW p \in Payments
  PROVE  /\ PostPending(TransferId(p)) => UNCHANGED books
         /\ VoidPending(TransferId(p)) => UNCHANGED books
<1>1. Named(TransferId(p)) = {}
  BY DEF Named, TransferId, PendingId
<1>2. QED
  BY <1>1 DEF PostPending, VoidPending

\* The id of a pending transfer names its payment.
LEMMA NamedOne ==
  ASSUME NEW p \in Payments, reserve[p] # "none"
  PROVE  /\ PostPending(PendingId(p)) => Entered(p, "posted", -1, 1)
         /\ VoidPending(PendingId(p)) => Entered(p, "voided", -1, 0)
<1>1. Named(PendingId(p)) = {p}
  BY DEF Named, PendingId
<1>2. QED
  BY <1>1 DEF PostPending, VoidPending

-----------------------------------------------------------------------------
(* The invariant holds initially and every action keeps it.                *)

LEMMA InitInv == ASSUME Init PROVE Inv
<1>1. TypeOK
  BY GatewayAssumption
     DEF Init, TypeOK, Step, Status, Kinds, Wait, Hub, Reserve
<1>2. ASSUME NEW p \in Payments PROVE PaymentOK(p)
  BY DEF Init, PaymentOK, Position, Waiting, Committed, Tidy,
         Books, Confirmed, Before, Kinds
<1>3. QED
  BY <1>1, <1>2 DEF Inv

LEMMA InitiateInv ==
  ASSUME Inv, NEW p \in Payments, InitiatePayment(p)
  PROVE  Inv'
<1>1. TypeOK'
  BY DEF Inv, TypeOK, InitiatePayment, books, Step, Status
<1>2. PaymentOK(p)'
  BY DEF Inv, TypeOK, InitiatePayment, books, PaymentOK, Position, Waiting, Committed, Tidy,
         Books, Confirmed, Before
<1>3. \A q \in Payments : q # p => Same(q)
  BY DEF Inv, TypeOK, InitiatePayment, books, Same
<1>4. QED
  BY <1>1, <1>2, <1>3, OnePayment

\* The steps of the pipeline that change the record alone.
LEMMA DutyInv ==
  ASSUME Inv, NEW p \in Payments, DutyAssessment(p)
  PROVE  Inv'
<1>1. PICK n \in {"quote", "end"}, s \in {"INITIATED", "FAILED"} : Advance(p, n, s)
  BY DEF DutyAssessment, Fail
<1>2. /\ n \in Step /\ s \in Status /\ TypeOK
      /\ UNCHANGED <<waiter, conditions, hub, handling, books, events, restarts>>
  BY DEF Step, Status, Inv, DutyAssessment
<1>3. TypeOK'
  BY <1>1, <1>2, AdvanceFacts DEF TypeOK, books
<1>4. PaymentOK(p)'
  BY <1>1, <1>2, AdvanceFacts
     DEF Inv, DutyAssessment, books, PaymentOK, Position, Waiting, Committed, Tidy,
         Books, Confirmed, Before
<1>5. \A q \in Payments : q # p => Same(q)
  BY <1>1, <1>2, AdvanceFacts DEF books, Same
<1>6. QED
  BY <1>3, <1>4, <1>5, OnePayment

LEMMA ReceiveQuoteInv ==
  ASSUME Inv, NEW p \in Payments, ReceiveQuote(p)
  PROVE  Inv'
<1>1. PICK n \in {"transfer", "end"}, s \in {"QUOTE_RECEIVED", "FAILED"} : Advance(p, n, s)
  BY DEF ReceiveQuote, Fail
<1>2. /\ n \in Step /\ s \in Status /\ TypeOK
      /\ UNCHANGED <<waiter, conditions, hub, handling, books, events, restarts>>
  BY DEF Step, Status, Inv, ReceiveQuote
<1>3. TypeOK'
  BY <1>1, <1>2, AdvanceFacts DEF TypeOK, books
<1>4. PaymentOK(p)'
  BY <1>1, <1>2, AdvanceFacts
     DEF Inv, ReceiveQuote, books, PaymentOK, Position, Waiting, Committed, Tidy,
         Books, Confirmed, Before
<1>5. \A q \in Payments : q # p => Same(q)
  BY <1>1, <1>2, AdvanceFacts DEF books, Same
<1>6. QED
  BY <1>3, <1>4, <1>5, OnePayment

\* Going on to the post takes a waiter that was answered well.
LEMMA ReceiveFulfilmentInv ==
  ASSUME Inv, NEW p \in Payments, ReceiveFulfilment(p)
  PROVE  Inv'
<1>1. /\ TypeOK /\ step[p] = "fulfilment" /\ PaymentOK(p)
      /\ UNCHANGED <<waiter, conditions, hub, handling, books, events, restarts>>
  BY DEF Inv, ReceiveFulfilment
<1>2. PICK n \in {"post", "end"}, s \in {"TRANSFER_FULFILLED", "FAILED"} :
        Advance(p, n, s) /\ (n = "post" => waiter[p]["transfer"] = "good")
  BY DEF ReceiveFulfilment, Fail
<1>3. n \in Step /\ s \in Status
  BY DEF Step, Status
<1>4. TypeOK'
  BY <1>1, <1>2, <1>3, AdvanceFacts DEF TypeOK, books
<1>5. PaymentOK(p)'
  BY <1>1, <1>2, <1>3, AdvanceFacts
     DEF books, PaymentOK, Position, Waiting, Committed, Tidy,
         Books, Confirmed, Before
<1>6. \A q \in Payments : q # p => Same(q)
  BY <1>1, <1>2, <1>3, AdvanceFacts DEF books, Same
<1>7. QED
  BY <1>4, <1>5, <1>6, OnePayment

LEMMA ConfirmInv ==
  ASSUME Inv, NEW p \in Payments, Confirm(p)
  PROVE  Inv'
<1>1. /\ TypeOK /\ step[p] = "confirm" /\ PaymentOK(p)
      /\ UNCHANGED <<waiter, conditions, hub, handling, books, events, restarts>>
      /\ Advance(p, "end", "CONFIRMED")
  BY DEF Inv, Confirm
<1>2. "end" \in Step /\ "CONFIRMED" \in Status
  BY DEF Step, Status
<1>3. TypeOK'
  BY <1>1, <1>2, AdvanceFacts DEF TypeOK, books
<1>4. PaymentOK(p)'
  BY <1>1, <1>2, AdvanceFacts
     DEF books, PaymentOK, Position, Waiting, Committed, Tidy,
         Books, Confirmed, Before
<1>5. \A q \in Payments : q # p => Same(q)
  BY <1>1, <1>2, AdvanceFacts DEF books, Same
<1>6. QED
  BY <1>3, <1>4, <1>5, OnePayment

\* The steps that call the switch.
LEMMA RequestQuoteInv ==
  ASSUME Inv, NEW p \in Payments, RequestQuote(p)
  PROVE  Inv'
<1>1. /\ TypeOK /\ step[p] = "quote" /\ PaymentOK(p)
      /\ UNCHANGED <<conditions, handling, books, events, restarts>>
  BY DEF Inv, RequestQuote
<1>2. PICK n \in {"quoteAnswer", "end"}, s \in {"INITIATED", "FAILED"} : Advance(p, n, s)
  BY DEF RequestQuote, Fail
<1>3. PICK w \in {"starting", "expired"} : Await(p, "quote", w)
  BY DEF RequestQuote
<1>4. /\ n \in Step /\ s \in Status /\ w \in Wait
      /\ "quote" \in Kinds /\ "transfer" \in Kinds /\ "quoting" \in Hub
  BY DEF Step, Status, Wait, Kinds, Hub
<1>5. hub' \in {hub, [hub EXCEPT ![p] = "quoting"]}
  BY DEF RequestQuote
<1>6. /\ hub' \in [Payments -> Hub] /\ hub'[p] \in {hub[p], "quoting"}
      /\ \A q \in Payments : q # p => hub'[q] = hub[q]
  BY <1>1, <1>4, <1>5 DEF TypeOK
<1>7. /\ waiter' \in [Payments -> [Kinds -> Wait]]
      /\ waiter'[p]["transfer"] = waiter[p]["transfer"]
      /\ waiter'[p]["quote"] # "none"
      /\ \A q \in Payments : q # p => waiter'[q] = waiter[q]
  BY <1>1, <1>3, <1>4, AwaitFacts
<1>8. TypeOK'
  BY <1>1, <1>2, <1>4, <1>6, <1>7, AdvanceFacts DEF TypeOK, books
<1>9. PaymentOK(p)'
  BY <1>1, <1>2, <1>4, <1>6, <1>7, AdvanceFacts
     DEF books, PaymentOK, Position, Waiting, Committed, Tidy,
         Books, Confirmed, Before
<1>10. \A q \in Payments : q # p => Same(q)
  BY <1>1, <1>2, <1>4, <1>6, <1>7, AdvanceFacts DEF books, Same
<1>11. QED
  BY <1>8, <1>9, <1>10, OnePayment

LEMMA SendTransferInv ==
  ASSUME Inv, NEW p \in Payments, SendTransfer(p)
  PROVE  Inv'
<1>1. /\ TypeOK /\ step[p] = "transfer" /\ PaymentOK(p)
      /\ step' = [step EXCEPT ![p] = "sent"]
      /\ Await(p, "transfer", "starting")
      /\ UNCHANGED <<status, row, conditions, handling, books, events, restarts>>
  BY DEF Inv, SendTransfer
<1>2. "starting" \in Wait /\ "transfer" \in Kinds /\ "prepared" \in Hub /\ "sent" \in Step
  BY DEF Wait, Kinds, Hub, Step
<1>3. hub' \in {hub, [hub EXCEPT ![p] = "prepared"]}
  BY DEF SendTransfer
<1>4. /\ hub' \in [Payments -> Hub] /\ hub'[p] \in {hub[p], "prepared"}
      /\ \A q \in Payments : q # p => hub'[q] = hub[q]
  BY <1>1, <1>2, <1>3 DEF TypeOK
<1>5. /\ waiter' \in [Payments -> [Kinds -> Wait]]
      /\ waiter'[p]["transfer"] = "starting"
      /\ \A q \in Payments : q # p => waiter'[q] = waiter[q]
  BY <1>1, <1>2, AwaitFacts
<1>6. TypeOK'
  BY <1>1, <1>2, <1>4, <1>5 DEF TypeOK, books
<1>7. PaymentOK(p)'
  BY <1>1, <1>2, <1>4, <1>5
     DEF TypeOK, books, PaymentOK, Position, Waiting, Committed, Tidy,
         Books, Confirmed, Before
<1>8. \A q \in Payments : q # p => Same(q)
  BY <1>1, <1>4, <1>5 DEF TypeOK, books, Same
<1>9. QED
  BY <1>6, <1>7, <1>8, OnePayment

LEMMA TransferSentInv ==
  ASSUME Inv, NEW p \in Payments, TransferSent(p)
  PROVE  Inv'
<1>1. /\ TypeOK /\ step[p] = "sent" /\ PaymentOK(p)
      /\ conditions' = conditions \cup {p}
      /\ Advance(p, "reserve", "TRANSFER_REQUESTED")
      /\ UNCHANGED <<waiter, hub, handling, books, events, restarts>>
  BY DEF Inv, TransferSent
<1>2. "reserve" \in Step /\ "TRANSFER_REQUESTED" \in Status
  BY DEF Step, Status
<1>3. TypeOK'
  BY <1>1, <1>2, AdvanceFacts DEF TypeOK, books
<1>4. PaymentOK(p)'
  BY <1>1, <1>2, AdvanceFacts
     DEF books, PaymentOK, Position, Waiting, Committed, Tidy,
         Books, Confirmed, Before
<1>5. \A q \in Payments : q # p => Same(q)
  BY <1>1, <1>2, AdvanceFacts DEF books, Same
<1>6. QED
  BY <1>3, <1>4, <1>5, OnePayment

LEMMA TransferUnsentInv ==
  ASSUME Inv, NEW p \in Payments, TransferUnsent(p)
  PROVE  Inv'
<1>1. /\ TypeOK /\ step[p] = "sent" /\ PaymentOK(p)
      /\ Cancel(p, "transfer") /\ Advance(p, "end", "FAILED")
      /\ UNCHANGED <<conditions, hub, handling, books, events, restarts>>
  BY DEF Inv, TransferUnsent, Fail
<1>2. "end" \in Step /\ "FAILED" \in Status /\ "transfer" \in Kinds /\ "expired" \in Wait
  BY DEF Step, Status, Kinds, Wait
<1>3. /\ waiter' \in [Payments -> [Kinds -> Wait]]
      /\ waiter'[p]["transfer"] \in {waiter[p]["transfer"], "expired"}
      /\ \A q \in Payments : q # p => waiter'[q] = waiter[q]
  BY <1>1, <1>2, ResolveFacts
<1>4. TypeOK'
  BY <1>1, <1>2, <1>3, AdvanceFacts DEF TypeOK, books
<1>5. PaymentOK(p)'
  BY <1>1, <1>2, <1>3, AdvanceFacts
     DEF books, PaymentOK, Position, Waiting, Committed, Tidy,
         Books, Confirmed, Before
<1>6. \A q \in Payments : q # p => Same(q)
  BY <1>1, <1>2, <1>3, AdvanceFacts DEF books, Same
<1>7. QED
  BY <1>4, <1>5, <1>6, OnePayment

\* The steps that call the bridge.  An answer that is lost leaves the reserve
\* entered and the pipeline failed.
LEMMA ReserveInv ==
  ASSUME Inv, NEW p \in Payments, TigerBeetleReserve(p)
  PROVE  Inv'
<1>1. /\ TypeOK /\ step[p] = "reserve" /\ PaymentOK(p)
      /\ UNCHANGED <<waiter, conditions, hub, handling, events, restarts>>
  BY DEF Inv, TigerBeetleReserve
<1>2. PICK n \in {"fulfilment", "end"}, s \in {"TIGERBEETLE_RESERVED", "FAILED"} :
        /\ Advance(p, n, s)
        /\ \/ Entered(p, "pending", 1, 0)
           \/ UNCHANGED books /\ n = "end"
  BY DEF TigerBeetleReserve, Fail, PendingTransfer
<1>3. n \in Step /\ s \in Status /\ "pending" \in Reserve
  BY DEF Step, Status, Reserve
<1>4. CASE Entered(p, "pending", 1, 0)
  <2>1. TypeOK'
    BY <1>1, <1>2, <1>3, <1>4, AdvanceFacts, EnteredFacts DEF TypeOK
  <2>a. /\ reserve[p] = "none" /\ reserve'[p] = "pending"
        /\ held'[p] = held[p] + 1 /\ posted'[p] = posted[p] /\ posted[p] >= 0
        /\ held[p] \in Int /\ posted[p] \in Int
    BY <1>1, <1>3, <1>4, EnteredFacts DEF PaymentOK, Position, Confirmed, TypeOK
  <2>b. step'[p] = n /\ status'[p] = s /\ row'[p] \in {row[p], s}
    BY <1>1, <1>2, <1>3, AdvanceFacts
  <2>c. Position(p)' /\ Waiting(p)' /\ Committed(p)' /\ Confirmed(p)'
    BY <1>1, <2>a, <2>b DEF PaymentOK, Position, Waiting, Committed, Confirmed, Before
  <2>d. ASSUME Careful PROVE Tidy(p)'
    BY <1>1, <2>a, <2>b, <2>d DEF PaymentOK, Tidy, Books
  <2>2. PaymentOK(p)'
    BY <2>c, <2>d DEF PaymentOK
  <2>3. \A q \in Payments : q # p => Same(q)
    <3>1. \A q \in Payments : q # p =>
            step'[q] = step[q] /\ status'[q] = status[q] /\ row'[q] = row[q]
      BY <1>1, <1>2, <1>3, AdvanceFacts
    <3>2. \A q \in Payments : q # p =>
            reserve'[q] = reserve[q] /\ held'[q] = held[q] /\ posted'[q] = posted[q]
      BY <1>1, <1>3, <1>4, EnteredFacts
    <3>3. QED
      BY <1>1, <3>1, <3>2 DEF Same
  <2>4. QED
    BY <2>1, <2>2, <2>3, OnePayment
<1>5. CASE UNCHANGED books /\ n = "end"
  <2>1. TypeOK'
    BY <1>1, <1>2, <1>3, <1>5, AdvanceFacts DEF TypeOK, books
  <2>2. PaymentOK(p)'
    BY <1>1, <1>2, <1>3, <1>5, AdvanceFacts
       DEF books, PaymentOK, Position, Waiting, Committed, Tidy,
         Books, Confirmed, Before
  <2>3. \A q \in Payments : q # p => Same(q)
    BY <1>1, <1>2, <1>3, <1>5, AdvanceFacts DEF books, Same
  <2>4. QED
    BY <2>1, <2>2, <2>3, OnePayment
<1>6. QED
  BY <1>2, <1>4, <1>5

LEMMA PostInv ==
  ASSUME Inv, NEW p \in Payments, TigerBeetlePost(p)
  PROVE  Inv'
<1>1. /\ TypeOK /\ step[p] = "post" /\ PaymentOK(p) /\ reserve[p] # "none"
      /\ UNCHANGED <<waiter, conditions, hub, handling, events, restarts>>
  BY DEF Inv, TigerBeetlePost, PaymentOK, Position
<1>2. PICK n \in {"publish", "end"}, s \in {"TIGERBEETLE_POSTED", "FAILED"} :
        /\ Advance(p, n, s)
        /\ \/ PostPending(PendingId(p))
           \/ UNCHANGED books /\ n = "end"
  BY DEF TigerBeetlePost, Fail
<1>3. n \in Step /\ s \in Status /\ "posted" \in Reserve
  BY DEF Step, Status, Reserve
<1>4. CASE PostPending(PendingId(p))
  <2>1. Entered(p, "posted", -1, 1)
    BY <1>1, <1>4, NamedOne
  <2>2. TypeOK'
    BY <1>1, <1>2, <1>3, <2>1, AdvanceFacts, EnteredFacts DEF TypeOK
  <2>a. /\ reserve'[p] = "posted" /\ held'[p] = held[p] - 1 /\ posted'[p] = posted[p] + 1
        /\ held[p] \in Int /\ posted[p] \in Int /\ posted[p] >= 0 /\ hub[p] = "committed"
    BY <1>1, <1>3, <2>1, EnteredFacts DEF PaymentOK, Position, Confirmed, TypeOK
  <2>b. step'[p] = n /\ status'[p] = s /\ row'[p] \in {row[p], s}
    BY <1>1, <1>2, <1>3, AdvanceFacts
  <2>c. Position(p)' /\ Waiting(p)' /\ Committed(p)' /\ Confirmed(p)'
    BY <1>1, <2>a, <2>b DEF PaymentOK, Position, Waiting, Committed, Confirmed, Before
  <2>d. ASSUME Careful PROVE Tidy(p)'
    BY <1>1, <2>a, <2>b, <2>d DEF PaymentOK, Tidy, Books
  <2>3. PaymentOK(p)'
    BY <2>c, <2>d DEF PaymentOK
  <2>4. \A q \in Payments : q # p => Same(q)
    <3>1. \A q \in Payments : q # p =>
            step'[q] = step[q] /\ status'[q] = status[q] /\ row'[q] = row[q]
      BY <1>1, <1>2, <1>3, AdvanceFacts
    <3>2. \A q \in Payments : q # p =>
            reserve'[q] = reserve[q] /\ held'[q] = held[q] /\ posted'[q] = posted[q]
      BY <1>1, <1>3, <2>1, EnteredFacts
    <3>3. QED
      BY <1>1, <3>1, <3>2 DEF Same
  <2>5. QED
    BY <2>2, <2>3, <2>4, OnePayment
<1>5. CASE UNCHANGED books /\ n = "end"
  <2>1. TypeOK'
    BY <1>1, <1>2, <1>3, <1>5, AdvanceFacts DEF TypeOK, books
  <2>2. PaymentOK(p)'
    BY <1>1, <1>2, <1>3, <1>5, AdvanceFacts
       DEF books, PaymentOK, Position, Waiting, Committed, Tidy,
         Books, Confirmed, Before
  <2>3. \A q \in Payments : q # p => Same(q)
    BY <1>1, <1>2, <1>3, <1>5, AdvanceFacts DEF books, Same
  <2>4. QED
    BY <2>1, <2>2, <2>3, OnePayment
<1>6. QED
  BY <1>2, <1>4, <1>5

LEMMA PublishInv ==
  ASSUME Inv, NEW p \in Payments, PublishConfirmation(p)
  PROVE  Inv'
<1>1. /\ TypeOK /\ step[p] = "publish" /\ PaymentOK(p)
      /\ UNCHANGED <<waiter, conditions, hub, handling, books, restarts>>
  BY DEF Inv, PublishConfirmation
<1>2. PICK n \in {"confirm", "end"}, s \in {"TIGERBEETLE_POSTED", "FAILED"} :
        /\ Advance(p, n, s)
        /\ \/ events' = events \cup {<<p, "confirmed">>}
           \/ UNCHANGED events /\ n = "end"
  BY DEF PublishConfirmation, Fail
<1>3. n \in Step /\ s \in Status
  BY DEF Step, Status
<1>4. /\ events' \in SUBSET Event
      /\ n = "confirm" => <<p, "confirmed">> \in events'
      /\ <<p, "confirmed">> \in events => <<p, "confirmed">> \in events'
      /\ \A q \in Payments : q # p =>
           (<<q, "confirmed">> \in events' <=> <<q, "confirmed">> \in events)
  BY <1>1, <1>2 DEF TypeOK, Event
<1>5. TypeOK'
  BY <1>1, <1>2, <1>3, <1>4, AdvanceFacts DEF TypeOK, books
<1>6. PaymentOK(p)'
  BY <1>1, <1>2, <1>3, <1>4, AdvanceFacts
     DEF books, PaymentOK, Position, Waiting, Committed, Tidy,
         Books, Confirmed, Before
<1>7. \A q \in Payments : q # p => Same(q)
  BY <1>1, <1>2, <1>3, <1>4, AdvanceFacts DEF books, Same
<1>8. QED
  BY <1>5, <1>6, <1>7, OnePayment

-----------------------------------------------------------------------------
\* The waiters' goroutines: none of them answers.
LEMMA WaiterInv ==
  ASSUME Inv, NEW p \in Payments, NEW k \in Kinds, Register(p, k) \/ Expire(p, k)
  PROVE  Inv'
<1>1. PICK w \in {"open", "expired"} : Await(p, k, w)
  BY DEF Register, Expire
<1>2. /\ TypeOK /\ PaymentOK(p) /\ w \in Wait /\ "transfer" \in Kinds /\ "quote" \in Kinds
      /\ UNCHANGED <<record, conditions, hub, handling, books, events, restarts>>
  BY DEF Inv, Register, Expire, Wait, Kinds
<1>3. /\ waiter' \in [Payments -> [Kinds -> Wait]]
      /\ \A j \in Kinds : waiter'[p][j] \in {waiter[p][j], w}
      /\ \A q \in Payments : q # p => waiter'[q] = waiter[q]
  BY <1>1, <1>2, AwaitFacts
<1>4. TypeOK'
  BY <1>2, <1>3 DEF TypeOK, record, books
<1>5. PaymentOK(p)'
  BY <1>2, <1>3
     DEF record, books, PaymentOK, Position, Waiting, Committed, Tidy,
         Books, Confirmed, Before
<1>6. \A q \in Payments : q # p => Same(q)
  BY <1>2, <1>3 DEF record, books, Same
<1>7. QED
  BY <1>4, <1>5, <1>6, OnePayment

LEMMA HubInv ==
  ASSUME Inv, NEW p \in Payments, NEW v \in {"committed", "aborted"}, HubDecides(p, v)
  PROVE  Inv'
<1>1. /\ TypeOK /\ PaymentOK(p) /\ hub[p] = "prepared" /\ v \in Hub
      /\ hub' = [hub EXCEPT ![p] = v]
      /\ UNCHANGED <<record, waiter, conditions, handling, books, events, restarts>>
  BY DEF Inv, HubDecides, Hub
<1>2. TypeOK'
  BY <1>1 DEF TypeOK, record, books
<1>3. PaymentOK(p)'
  BY <1>1 DEF TypeOK, record, books, PaymentOK, Position, Waiting, Committed, Tidy,
         Books, Confirmed, Before
<1>4. \A q \in Payments : q # p => Same(q)
  BY <1>1 DEF TypeOK, record, books, Same
<1>5. QED
  BY <1>2, <1>3, <1>4, OnePayment

\* A callback moves no money: the id it names is not the bridge's.
LEMMA QuoteCallbackInv ==
  ASSUME Inv, NEW p \in Payments, NEW a \in {"good", "bad"}, HandleQuoteCallback(p, a)
  PROVE  Inv'
<1>1. /\ TypeOK /\ PaymentOK(p) /\ Resolve(p, "quote", a) /\ a \in Wait
      /\ "quote" \in Kinds /\ "transfer" \in Kinds
      /\ UNCHANGED <<record, conditions, hub, handling, books, events, restarts>>
  BY DEF Inv, HandleQuoteCallback, Wait, Kinds
<1>2. /\ waiter' \in [Payments -> [Kinds -> Wait]]
      /\ waiter'[p]["transfer"] = waiter[p]["transfer"]
      /\ waiter'[p]["quote"] \in {waiter[p]["quote"], a}
      /\ \A q \in Payments : q # p => waiter'[q] = waiter[q]
  BY <1>1, ResolveFacts
<1>3. TypeOK'
  BY <1>1, <1>2 DEF TypeOK, record, books
<1>4. PaymentOK(p)'
  BY <1>1, <1>2
     DEF record, books, PaymentOK, Position, Waiting, Committed, Tidy,
         Books, Confirmed, Before
<1>5. \A q \in Payments : q # p => Same(q)
  BY <1>1, <1>2 DEF record, books, Same
<1>6. QED
  BY <1>3, <1>4, <1>5, OnePayment

\* The fulfilment is checked: the switch has committed the transfer.
LEMMA CommittedArrivesInv ==
  ASSUME Inv, NEW p \in Payments, NEW f \in Fulfilments, CommittedArrives(p, f)
  PROVE  Inv'
<1>1. /\ TypeOK /\ PaymentOK(p) /\ hub[p] = "committed"
      /\ "bad" \in Wait /\ "transfer" \in Kinds /\ "quote" \in Kinds
      /\ UNCHANGED <<record, hub, books, events, restarts>>
  BY DEF Inv, CommittedArrives, Wait, Kinds
<1>2. CASE Resolve(p, "transfer", "bad") /\ UNCHANGED <<conditions, handling>>
  <2>1. /\ waiter' \in [Payments -> [Kinds -> Wait]]
        /\ waiter'[p]["transfer"] \in {waiter[p]["transfer"], "bad"}
        /\ waiter'[p]["quote"] = waiter[p]["quote"]
        /\ \A q \in Payments : q # p => waiter'[q] = waiter[q]
    BY <1>1, <1>2, ResolveFacts
  <2>2. TypeOK'
    BY <1>1, <1>2, <2>1 DEF TypeOK, record, books
  <2>3. PaymentOK(p)'
    BY <1>1, <1>2, <2>1
       DEF record, books, PaymentOK, Position, Waiting, Committed, Tidy,
         Books, Confirmed, Before
  <2>4. \A q \in Payments : q # p => Same(q)
    BY <1>1, <1>2, <2>1 DEF record, books, Same
  <2>5. QED
    BY <2>2, <2>3, <2>4, OnePayment
<1>3. CASE /\ conditions' = conditions \ {p}
           /\ handling' = handling \cup {p}
           /\ UNCHANGED waiter
  <2>1. TypeOK'
    BY <1>1, <1>3 DEF TypeOK, record, books
  <2>2. PaymentOK(p)'
    BY <1>1, <1>3
       DEF record, books, PaymentOK, Position, Waiting, Committed, Tidy,
         Books, Confirmed, Before
  <2>3. \A q \in Payments : q # p => Same(q)
    BY <1>1, <1>3 DEF record, books, Same
  <2>4. QED
    BY <2>1, <2>2, <2>3, OnePayment
<1>4. QED
  BY <1>2, <1>3 DEF CommittedArrives

LEMMA CommittedInv ==
  ASSUME Inv, NEW p \in Payments, HandleTransferCommitted(p)
  PROVE  Inv'
<1>1. /\ TypeOK /\ PaymentOK(p) /\ hub[p] = "committed"
      /\ "good" \in Wait /\ "transfer" \in Kinds /\ "quote" \in Kinds
      /\ handling' = handling \ {p} /\ Resolve(p, "transfer", "good")
      /\ UNCHANGED <<record, conditions, hub, restarts>>
  BY DEF Inv, HandleTransferCommitted, Wait, Kinds, PaymentOK, Committed
<1>2. UNCHANGED books
  BY NotNamed DEF HandleTransferCommitted
<1>3. /\ waiter' \in [Payments -> [Kinds -> Wait]]
      /\ waiter'[p]["transfer"] \in {waiter[p]["transfer"], "good"}
      /\ waiter'[p]["quote"] = waiter[p]["quote"]
      /\ \A q \in Payments : q # p => waiter'[q] = waiter[q]
  BY <1>1, ResolveFacts
<1>4. /\ events' \in SUBSET Event
      /\ \A q \in Payments : <<q, "confirmed">> \in events' <=> <<q, "confirmed">> \in events
  BY <1>1 DEF HandleTransferCommitted, TypeOK, Event
<1>5. TypeOK'
  BY <1>1, <1>2, <1>3, <1>4 DEF TypeOK, record, books
<1>6. PaymentOK(p)'
  BY <1>1, <1>2, <1>3, <1>4
     DEF record, books, PaymentOK, Position, Waiting, Committed, Tidy,
         Books, Confirmed, Before
<1>7. \A q \in Payments : q # p => Same(q)
  BY <1>1, <1>2, <1>3, <1>4 DEF record, books, Same
<1>8. QED
  BY <1>5, <1>6, <1>7, OnePayment

LEMMA AbortedInv ==
  ASSUME Inv, NEW p \in Payments, HandleTransferAborted(p) \/ HandleTransferError(p)
  PROVE  Inv'
<1>1. /\ TypeOK /\ PaymentOK(p)
      /\ "bad" \in Wait /\ "transfer" \in Kinds /\ "quote" \in Kinds
      /\ Resolve(p, "transfer", "bad")
      /\ conditions' \in SUBSET Payments
      /\ UNCHANGED <<record, hub, handling, restarts>>
  BY DEF Inv, TypeOK, HandleTransferAborted, HandleTransferError, Wait, Kinds
<1>2. UNCHANGED books
  BY NotNamed DEF HandleTransferAborted, HandleTransferError
<1>3. /\ waiter' \in [Payments -> [Kinds -> Wait]]
      /\ waiter'[p]["transfer"] \in {waiter[p]["transfer"], "bad"}
      /\ waiter'[p]["quote"] = waiter[p]["quote"]
      /\ \A q \in Payments : q # p => waiter'[q] = waiter[q]
  BY <1>1, ResolveFacts
<1>4. /\ events' \in SUBSET Event
      /\ \A q \in Payments : <<q, "confirmed">> \in events' <=> <<q, "confirmed">> \in events
  BY <1>1 DEF HandleTransferAborted, HandleTransferError, TypeOK, Event
<1>5. TypeOK'
  BY <1>1, <1>2, <1>3, <1>4 DEF TypeOK, record, books
<1>6. PaymentOK(p)'
  BY <1>1, <1>2, <1>3, <1>4
     DEF record, books, PaymentOK, Position, Waiting, Committed, Tidy,
         Books, Confirmed, Before
<1>7. \A q \in Payments : q # p => Same(q)
  BY <1>1, <1>2, <1>3, <1>4 DEF record, books, Same
<1>8. QED
  BY <1>5, <1>6, <1>7, OnePayment

\* What an officer posts is added, and what one voids takes nothing away.
LEMMA OfficerInv ==
  ASSUME Inv, NEW p \in Payments, OfficerPosts(p) \/ OfficerVoids(p)
  PROVE  Inv'
<1>1. /\ TypeOK /\ PaymentOK(p) /\ reserve[p] # "none"
      /\ UNCHANGED <<record, waiter, conditions, hub, handling, events, restarts>>
  BY DEF Inv, OfficerPosts, OfficerVoids
<1>2. PICK s \in {"posted", "voided"}, q \in {0, 1} :
        /\ Entered(p, s, -1, q)
        /\ q = (IF s = "posted" THEN 1 ELSE 0)
        /\ Careful => /\ reserve[p] = "pending" /\ step[p] \in {"end", "lost"}
                      /\ s = "posted" => hub[p] = "committed"
  BY <1>1, NamedOne DEF OfficerPosts, OfficerVoids
<1>3. s \in Reserve /\ -1 \in Int /\ q \in Int
  BY DEF Reserve
<1>4. TypeOK'
  BY <1>1, <1>2, <1>3, EnteredFacts DEF TypeOK, record
<1>5. /\ reserve'[p] = s /\ held'[p] = held[p] - 1 /\ posted'[p] = posted[p] + q
      /\ held[p] \in Int /\ posted[p] \in Int /\ posted[p] >= 0
  BY <1>1, <1>2, <1>3, EnteredFacts DEF TypeOK, PaymentOK, Confirmed
<1>6. posted'[p] >= posted[p] /\ reserve'[p] # "none"
  BY <1>2, <1>5
<1>7. Position(p)' /\ Waiting(p)' /\ Committed(p)' /\ Confirmed(p)'
  BY <1>1, <1>5, <1>6
     DEF record, PaymentOK, Position, Waiting, Committed, Confirmed, Before
<1>8. ASSUME Careful PROVE Tidy(p)'
  <2>1. <<p, "confirmed">> \notin events
    BY <1>1, <1>2, <1>8 DEF PaymentOK, Tidy
  <2>2. QED
    BY <1>1, <1>2, <1>5, <1>8, <2>1 DEF record, PaymentOK, Tidy, Books
<1>9. PaymentOK(p)'
  BY <1>7, <1>8 DEF PaymentOK
<1>10. \A r \in Payments : r # p => Same(r)
  BY <1>1, <1>2, <1>3, EnteredFacts DEF record, Same
<1>11. QED
  BY <1>4, <1>9, <1>10, OnePayment

\* A restart forgets where a pipeline was, never what it had done.
LEMMA RestartInv ==
  ASSUME Inv, Restart
  PROVE  Inv'
<1>1. TypeOK'
  BY GatewayAssumption
     DEF Inv, TypeOK, Restart, books, Step, Wait
<1>2. ASSUME NEW p \in Payments PROVE PaymentOK(p)'
  <2>1. /\ (step'[p] = step[p] /\ step[p] \in {"none", "end"}) \/ step'[p] = "lost"
        /\ status'[p] = row[p] /\ row' = row /\ hub' = hub /\ UNCHANGED books
        /\ waiter'[p]["transfer"] = "none" /\ handling' = {} /\ events' = events
    BY DEF Restart, Kinds
  <2>2. QED
    BY <2>1 DEF Inv, books, PaymentOK, Position, Waiting, Committed, Tidy,
         Books, Confirmed, Before
<1>3. QED
  BY <1>1, <1>2 DEF Inv

LEMMA NextInv ==
  ASSUME Inv, [Next]_vars
  PROVE  Inv'
<1>1. CASE Next
  <2>1. CASE Restart
    BY <2>1, RestartInv
  <2>2. ASSUME NEW p \in Payments, Pipeline(p) PROVE Inv'
    BY <2>2, DutyInv, RequestQuoteInv, ReceiveQuoteInv, SendTransferInv,
       TransferSentInv, TransferUnsentInv, ReserveInv, ReceiveFulfilmentInv,
       PostInv, PublishInv, ConfirmInv DEF Pipeline
  <2>3. ASSUME NEW p \in Payments, Callback(p) PROVE Inv'
    BY <2>3, QuoteCallbackInv, CommittedArrivesInv, CommittedInv, AbortedInv
       DEF Callback
  <2>4. QED
    BY <1>1, <2>1, <2>2, <2>3, InitiateInv, WaiterInv, HubInv, OfficerInv DEF Next
<1>2. CASE UNCHANGED vars
  BY <1>2 DEF vars, record, books, Inv, TypeOK, PaymentOK, Position, Waiting, Committed, Tidy,
         Books, Confirmed, Before
<1>3. QED
  BY <1>1, <1>2

-----------------------------------------------------------------------------
\* Every reachable state.
LEMMA Always == Spec => []Inv
<1>1. Init => Inv
  BY InitInv
<1>2. Inv /\ [Next]_vars => Inv'
  BY NextInv
<1>3. QED
  BY <1>1, <1>2, PTL DEF Spec

\* The gateway's state keeps its types.
THEOREM TypeCorrect == Spec => []TypeOK
<1>1. Inv => TypeOK
  BY DEF Inv
<1>2. QED
  BY <1>1, Always, PTL

\* What the pipeline announces or reports CONFIRMED was committed by the switch
\* (main.go 862-992) and posted by the bridge, also when the finance procedures
\* of ledger.ts post or void the reserve under it, as often as they like.
THEOREM ConfirmationsArePaid == Spec => []ConfirmedIsPaid
<1>1. Inv => ConfirmedIsPaid
  BY DEF Inv, PaymentOK, Confirmed, ConfirmedIsPaid
<1>2. QED
  BY <1>1, Always, PTL

\* A pipeline never waits for an answer nobody can give: the safety half of
\* PipelineEnds.
THEOREM WaitsAreAttended == Spec => []WaitsHaveWaiters
<1>1. Inv => WaitsHaveWaiters
  BY DEF Inv, PaymentOK, Waiting, WaitsHaveWaiters
<1>2. QED
  BY <1>1, Always, PTL

\* The bridge's totals are those of its pending transfers (main.go 251-344,
\* backend_sim.go 89-154), whatever answers the gateway loses.
THEOREM BooksMatch ==
  ASSUME Careful
  PROVE  Spec => []BooksMatchReserves
<1>1. Inv => BooksMatchReserves
  BY DEF Inv, PaymentOK, Tidy, Books, BooksMatchReserves
<1>2. QED
  BY <1>1, Always, PTL

\* payment.confirmed of the pipeline stands for money that is posted.
THEOREM ConfirmationsAreBacked ==
  ASSUME Careful
  PROVE  Spec => []ConfirmationIsBacked
<1>1. Inv => ConfirmationIsBacked
  BY DEF Inv, PaymentOK, Tidy, Books, ConfirmationIsBacked
<1>2. QED
  BY <1>1, Always, PTL

\* A payment reported CONFIRMED is committed, posted and published.
THEOREM ConfirmedAreSettled ==
  ASSUME Careful
  PROVE  Spec => []ConfirmedIsSettled
<1>1. Inv => ConfirmedIsSettled
  BY DEF Inv, PaymentOK, Tidy, Confirmed, ConfirmedIsSettled
<1>2. QED
  BY <1>1, Always, PTL

-----------------------------------------------------------------------------
(* The refinement.                                                         *)

Abstract == <<Verdict, Money>>

\* A step that decides nothing and moves no money is a stutter.
LEMMA Stutters ==
  ASSUME hub' = hub, reserve' = reserve
  PROVE  UNCHANGED Abstract
  BY DEF Abstract, Verdict, Money

\* Until the switch has the transfer, its verdict is open.
LEMMA StillOpen ==
  ASSUME TypeOK, NEW p \in Payments, hub[p] \notin {"committed", "aborted"},
         reserve' = reserve,
         hub' = hub \/ \E h \in {"quoting", "prepared"} : hub' = [hub EXCEPT ![p] = h]
  PROVE  UNCHANGED Abstract
<1>1. \A q \in Payments :
        \/ hub'[q] = hub[q]
        \/ hub'[q] \notin {"committed", "aborted"} /\ hub[q] \notin {"committed", "aborted"}
  BY DEF TypeOK
<1>2. Verdict' = Verdict
  BY <1>1 DEF Verdict
<1>3. Money' = Money
  BY DEF Money
<1>4. QED
  BY <1>2, <1>3 DEF Abstract

LEMMA Decides ==
  ASSUME TypeOK, NEW p \in Payments, NEW v \in {"committed", "aborted"}, HubDecides(p, v)
  PROVE  Settlement!Next
<1>1. /\ hub[p] = "prepared" /\ reserve' = reserve
      /\ hub' = [hub EXCEPT ![p] = v] /\ hub \in [Payments -> Hub]
  BY DEF HubDecides, books, TypeOK
<1>2. Verdict[p] = "open"
  BY <1>1 DEF Verdict
<1>3. Verdict' = [Verdict EXCEPT ![p] = v]
  BY <1>1 DEF Verdict
<1>4. Money' = Money
  BY <1>1 DEF Money
<1>5. QED
  BY <1>2, <1>3, <1>4 DEF Settlement!Next, Settlement!Decide

LEMMA MoneyMoves ==
  ASSUME NEW p \in Payments, NEW s, reserve \in [Payments -> Reserve],
         reserve' = [reserve EXCEPT ![p] = s]
  PROVE  Money' = [Money EXCEPT ![p] = Place[s]]
  BY DEF Money

\* Entering or closing a pending transfer moves the abstract money.
LEMMA Moves ==
  ASSUME TypeOK, NEW p \in Payments, NEW s \in Reserve \ {"none"},
         NEW h \in Int, NEW q \in Int, Entered(p, s, h, q), hub' = hub,
         \/ s = "pending" /\ reserve[p] = "none"
         \/ s = "posted" /\ reserve[p] = "pending" /\ hub[p] = "committed"
         \/ s = "voided" /\ reserve[p] = "pending" /\ hub[p] = "aborted"
  PROVE  Settlement!Next
<1>1. reserve' = [reserve EXCEPT ![p] = s] /\ reserve \in [Payments -> Reserve]
  BY DEF Entered, TypeOK
<1>2. Verdict' = Verdict
  BY DEF Verdict
<1>a. Money[p] = Place[reserve[p]]
  BY DEF Money
<1>b. /\ Place["none"] = "free" /\ Place["pending"] = "reserved"
      /\ Place["posted"] = "settled" /\ Place["voided"] = "released"
  BY DEF Place
<1>c. Money' = [Money EXCEPT ![p] = Place[s]]
  BY <1>1, MoneyMoves
<1>3. CASE s = "pending" /\ reserve[p] = "none"
  <2>1. Money[p] = "free" /\ Money' = [Money EXCEPT ![p] = "reserved"]
    BY <1>1, <1>3, <1>a, <1>b, <1>c
  <2>2. QED
    BY <1>2, <2>1 DEF Settlement!Next, Settlement!Reserve
<1>4. CASE s = "posted" /\ reserve[p] = "pending" /\ hub[p] = "committed"
  <2>1. Money[p] = "reserved" /\ Money' = [Money EXCEPT ![p] = "settled"]
    BY <1>1, <1>4, <1>a, <1>b, <1>c
  <2>2. Verdict[p] = "committed"
    BY <1>4 DEF Verdict
  <2>3. QED
    BY <1>2, <2>1, <2>2 DEF Settlement!Next, Settlement!Settle
<1>5. CASE s = "voided" /\ reserve[p] = "pending" /\ hub[p] = "aborted"
  <2>1. Money[p] = "reserved" /\ Money' = [Money EXCEPT ![p] = "released"]
    BY <1>1, <1>5, <1>a, <1>b, <1>c
  <2>2. Verdict[p] # "committed"
    BY <1>5 DEF Verdict
  <2>3. QED
    BY <1>2, <2>1, <2>2 DEF Settlement!Next, Settlement!Release
<1>6. QED
  BY <1>3, <1>4, <1>5

LEMMA PipelineSteps ==
  ASSUME Careful, Inv, NEW p \in Payments, Pipeline(p)
  PROVE  Settlement!Next \/ UNCHANGED Abstract
<1> USE DEF Inv
<1>1. CASE RequestQuote(p) \/ SendTransfer(p)
  <2>1. /\ hub[p] \notin {"committed", "aborted"} /\ reserve' = reserve
        /\ \/ hub' = hub
           \/ \E h \in {"quoting", "prepared"} : hub' = [hub EXCEPT ![p] = h]
    BY <1>1 DEF RequestQuote, SendTransfer, books, PaymentOK, Position, Before
  <2>2. QED
    BY <2>1, StillOpen
<1>2. CASE TigerBeetleReserve(p)
  <2>1. hub' = hub /\ reserve[p] = "none" /\ (Entered(p, "pending", 1, 0) \/ UNCHANGED books)
    BY <1>2 DEF TigerBeetleReserve, PendingTransfer, PaymentOK, Position, Before
  <2>2. "pending" \in Reserve \ {"none"}
    BY DEF Reserve
  <2>3. QED
    BY <2>1, <2>2, Moves, Stutters DEF books
<1>3. CASE TigerBeetlePost(p)
  <2>1. hub' = hub /\ reserve[p] = "pending" /\ hub[p] = "committed"
    BY <1>3 DEF TigerBeetlePost, PaymentOK, Position, Tidy
  <2>2. Entered(p, "posted", -1, 1) \/ UNCHANGED books
    BY <1>3, <2>1, NamedOne DEF TigerBeetlePost
  <2>3. "posted" \in Reserve \ {"none"} /\ -1 \in Int
    BY DEF Reserve
  <2>4. QED
    BY <2>1, <2>2, <2>3, Moves, Stutters DEF books
<1>4. CASE \/ DutyAssessment(p) \/ ReceiveQuote(p) \/ TransferSent(p) \/ TransferUnsent(p)
           \/ ReceiveFulfilment(p) \/ PublishConfirmation(p) \/ Confirm(p)
  <2>1. hub' = hub /\ reserve' = reserve
    BY <1>4 DEF DutyAssessment, ReceiveQuote, TransferSent, TransferUnsent,
                ReceiveFulfilment, PublishConfirmation, Confirm, books
  <2>2. QED
    BY <2>1, Stutters
<1>5. QED
  BY <1>1, <1>2, <1>3, <1>4 DEF Pipeline

LEMMA CallbackSteps ==
  ASSUME NEW p \in Payments, Callback(p)
  PROVE  UNCHANGED Abstract
<1>1. hub' = hub
  BY DEF Callback, HandleQuoteCallback, CommittedArrives, HandleTransferCommitted,
         HandleTransferAborted, HandleTransferError
<1>2. UNCHANGED books
  BY NotNamed DEF Callback, HandleQuoteCallback, CommittedArrives,
         HandleTransferCommitted, HandleTransferAborted, HandleTransferError
<1>3. QED
  BY <1>1, <1>2, Stutters DEF books

LEMMA OfficerSteps ==
  ASSUME Inv, Careful, NEW p \in Payments, OfficerPosts(p) \/ OfficerVoids(p)
  PROVE  Settlement!Next
<1>1. TypeOK /\ hub' = hub /\ reserve[p] = "pending" /\ -1 \in Int
  BY DEF Inv, OfficerPosts, OfficerVoids
<1>2. "posted" \in Reserve \ {"none"} /\ "voided" \in Reserve \ {"none"}
  BY DEF Reserve
<1>3. \/ hub[p] = "committed" /\ Entered(p, "posted", -1, 1)
      \/ hub[p] = "aborted" /\ Entered(p, "voided", -1, 0)
  BY <1>1, NamedOne DEF OfficerPosts, OfficerVoids
<1>4. QED
  BY <1>1, <1>2, <1>3, Moves

LEMMA Simulates ==
  ASSUME Careful, Inv, [Next]_vars
  PROVE  [Settlement!Next]_Abstract
<1>1. CASE Next
  <2>1. CASE Restart
    BY <2>1, Stutters DEF Restart, books
  <2>2. ASSUME NEW p \in Payments,
               InitiatePayment(p) \/ \E k \in Kinds : Register(p, k) \/ Expire(p, k)
        PROVE  UNCHANGED Abstract
    BY <2>2, Stutters DEF InitiatePayment, Register, Expire, books
  <2>3. QED
    BY <1>1, <2>1, <2>2, PipelineSteps, CallbackSteps, OfficerSteps, Decides
       DEF Next, Inv
<1>2. CASE UNCHANGED vars
  BY <1>2, Stutters DEF vars, books
<1>3. QED
  BY <1>1, <1>2

\* The gateway, with its lost answers, late callbacks and restarts, implements
\* TwoPhaseSettlement for every set of payments.
THEOREM GatewayImplementsSettlement ==
  ASSUME Careful
  PROVE  Spec => ImplementsSettlement
<1>1. Init => Settlement!Init
  BY DEF Init, Settlement!Init, Verdict, Money, Place
<1>2. Inv /\ [Next]_vars => [Settlement!Next]_<<Verdict, Money>>
  BY Simulates DEF Abstract
<1>3. QED
  BY <1>1, <1>2, Always, PTL
     DEF Spec, ImplementsSettlement, Settlement!Spec, Settlement!settlement
=============================================================================
