--------------------------- MODULE MojaloopGateway ---------------------------
(***************************************************************************)
(* A duty payment through the Mojaloop switch: the pipeline goroutine of   *)
(* services/go/mojaloop-gateway (cmd/main.go), the handlers of the switch's*)
(* callbacks (internal/dfsp/callbacks.go), the in-memory waiters between   *)
(* the two, and the pending transfers of services/go/tigerbeetle-bridge,   *)
(* which the finance procedures of server/routers/ledger.ts close by hand. *)
(*                                                                         *)
(* A step of the pipeline is an action; sending POST /transfers is two, as *)
(* callbacks may come before the answer.  A call may be refused, or take   *)
(* effect and lose its answer.  Amounts are one unit per payment.          *)
(***************************************************************************)
EXTENDS Integers

CONSTANTS
  Payments,     \* payments started by InitiatePayment
  MaxRestarts,  \* bound on restarts of the gateway
  Careful       \* officers close a reserve once, and as the switch decided

ASSUME GatewayAssumption == MaxRestarts \in Nat /\ Careful \in BOOLEAN

VARIABLES
  step,        \* [Payments -> Step], where the goroutine of executePipeline is
  status,      \* [Payments -> Status], the record in memory
  row,         \* [Payments -> Status], its row of mojaloop_payments
  waiter,      \* [Payments -> [Kinds -> Wait]], quoteWaiters, transferWaiters
  conditions,  \* pendingILP: transfers whose condition is stored
  hub,         \* [Payments -> Hub], the switch
  handling,    \* COMMITTED callbacks past the check of the fulfilment
  reserve,     \* [Payments -> Reserve], the bridge's pending transfer
  held,        \* [Payments -> Int], its share of the accounts' pending totals
  posted,      \* [Payments -> Int], its share of their posted totals
  events,      \* payment.confirmed and payment.failed on Kafka
  restarts

vars == <<step, status, row, waiter, conditions, hub, handling, reserve,
          held, posted, events, restarts>>

record == <<step, status, row>>
books == <<reserve, held, posted>>

Step == {"none", "duty", "quote", "quoteAnswer", "transfer", "sent", "reserve",
         "fulfilment", "post", "publish", "confirm", "end", "lost"}
Status == {"absent", "INITIATED", "QUOTE_RECEIVED", "TRANSFER_REQUESTED",
           "TIGERBEETLE_RESERVED", "TRANSFER_FULFILLED", "TIGERBEETLE_POSTED",
           "CONFIRMED", "FAILED"}
Kinds == {"quote", "transfer"}
\* "starting": the goroutine that registers the waiter has not run yet.
Wait == {"none", "starting", "open", "good", "bad", "expired"}
Hub == {"none", "quoting", "prepared", "committed", "aborted"}
Reserve == {"none", "pending", "posted", "voided"}

\* Who says so: the last step of the pipeline, or a callback.
Event == Payments \X {"confirmed", "committed", "aborted"}

TypeOK ==
  /\ step \in [Payments -> Step]
  /\ status \in [Payments -> Status]
  /\ row \in [Payments -> Status]
  /\ waiter \in [Payments -> [Kinds -> Wait]]
  /\ conditions \in SUBSET Payments
  /\ hub \in [Payments -> Hub]
  /\ handling \in SUBSET Payments
  /\ reserve \in [Payments -> Reserve]
  /\ held \in [Payments -> Int]
  /\ posted \in [Payments -> Int]
  /\ events \in SUBSET Event
  /\ restarts \in 0..MaxRestarts

Init ==
  /\ step = [p \in Payments |-> "none"]
  /\ status = [p \in Payments |-> "absent"]
  /\ row = [p \in Payments |-> "absent"]
  /\ waiter = [p \in Payments |-> [k \in Kinds |-> "none"]]
  /\ conditions = {}
  /\ hub = [p \in Payments |-> "none"]
  /\ handling = {}
  /\ reserve = [p \in Payments |-> "none"]
  /\ held = [p \in Payments |-> 0]
  /\ posted = [p \in Payments |-> 0]
  /\ events = {}
  /\ restarts = 0

-----------------------------------------------------------------------------
(* The record.                                                             *)

\* Mutant: the row gets the name of the step.
PersistedStep(p, s) == row' = row \/ row' = [row EXCEPT ![p] = step[p]]

\* persistPayment: after a step an error of it is only logged.
Persisted(p, s) == row' = row \/ row' = [row EXCEPT ![p] = s]

Advance(p, next, s) ==
  /\ step' = [step EXCEPT ![p] = next]
  /\ status' = [status EXCEPT ![p] = s]
  /\ Persisted(p, s)

\* A step that fails ends the pipeline; nothing done before is undone.
Fail(p) == Advance(p, "end", "FAILED")

-----------------------------------------------------------------------------
(* The waiters.                                                            *)

Await(p, k, w) == waiter' = [waiter EXCEPT ![p][k] = w]

\* The goroutine of AwaitQuote or AwaitTransfer enters the map.
Register(p, k) ==
  /\ waiter[p][k] = "starting"
  /\ Await(p, k, "open")
  /\ UNCHANGED <<record, conditions, hub, handling, books, events, restarts>>

\* Mutant: a waiter that has no deadline.
ExpireNever(p, k) ==
  /\ waiter[p][k] = "open"
  /\ restarts > MaxRestarts
  /\ Await(p, k, "expired")
  /\ UNCHANGED <<record, conditions, hub, handling, books, events, restarts>>

\* The context's deadline: callbackWait, a minute.
Expire(p, k) ==
  /\ waiter[p][k] = "open"
  /\ Await(p, k, "expired")
  /\ UNCHANGED <<record, conditions, hub, handling, books, events, restarts>>

\* An outcome for which nobody waits, or not yet, or no more, is dropped.
Resolve(p, k, w) ==
  IF waiter[p][k] = "open" THEN Await(p, k, w) ELSE UNCHANGED waiter

\* cancel(): the waiter's context is done.
Cancel(p, k) ==
  IF waiter[p][k] \in {"starting", "open"} THEN Await(p, k, "expired")
  ELSE UNCHANGED waiter

-----------------------------------------------------------------------------
(* The bridge.  Its transfers have ids of their own, and post and void are *)
(* asked for by id; neither looks at the status of the pending transfer.   *)

TransferId(p) == <<"transfer", p>>
PendingId(p) == <<"pending", p>>

Entered(p, s, h, q) ==
  /\ reserve' = [reserve EXCEPT ![p] = s]
  /\ held' = [held EXCEPT ![p] = @ + h]
  /\ posted' = [posted EXCEPT ![p] = @ + q]

PendingTransfer(p) == Entered(p, "pending", 1, 0)

\* The payments whose pending transfer the id names; for none it is a 404.
Named(id) == {p \in Payments : id = PendingId(p) /\ reserve[p] # "none"}

\* Mutant: the pending totals are left as they were.
PostPendingKeepsHold(id) ==
  IF Named(id) = {} THEN UNCHANGED books
  ELSE \E p \in Named(id) : Entered(p, "posted", 0, 1)

PostPending(id) ==
  IF Named(id) = {} THEN UNCHANGED books
  ELSE \E p \in Named(id) : Entered(p, "posted", -1, 1)

VoidPending(id) ==
  IF Named(id) = {} THEN UNCHANGED books
  ELSE \E p \in Named(id) : Entered(p, "voided", -1, 0)

\* postPending and voidPending of ledger.ts take any pending id.
OfficerPosts(p) ==
  /\ reserve[p] # "none"
  /\ Careful => /\ reserve[p] = "pending" /\ hub[p] = "committed"
                /\ step[p] \in {"end", "lost"}
  /\ PostPending(PendingId(p))
  /\ UNCHANGED <<record, waiter, conditions, hub, handling, events, restarts>>

OfficerVoids(p) ==
  /\ reserve[p] # "none"
  /\ Careful => /\ reserve[p] = "pending" /\ hub[p] = "aborted"
                /\ step[p] \in {"end", "lost"}
  /\ VoidPending(PendingId(p))
  /\ UNCHANGED <<record, waiter, conditions, hub, handling, events, restarts>>

-----------------------------------------------------------------------------
(* The pipeline.                                                           *)

\* InitiatePayment: no row, no payment.
InitiatePayment(p) ==
  /\ step[p] = "none"
  /\ step' = [step EXCEPT ![p] = "duty"]
  /\ status' = [status EXCEPT ![p] = "INITIATED"]
  /\ row' = [row EXCEPT ![p] = "INITIATED"]
  /\ UNCHANGED <<waiter, conditions, hub, handling, books, events, restarts>>

DutyAssessment(p) ==
  /\ step[p] = "duty"
  /\ Advance(p, "quote", "INITIATED") \/ Fail(p)
  /\ UNCHANGED <<waiter, conditions, hub, handling, books, events, restarts>>

\* The request may reach the switch although it fails here.
RequestQuote(p) ==
  /\ step[p] = "quote"
  /\ \/ /\ Advance(p, "quoteAnswer", "INITIATED")
        /\ Await(p, "quote", "starting")
        /\ hub' = [hub EXCEPT ![p] = "quoting"]
     \/ /\ Fail(p)
        /\ Await(p, "quote", "expired")
        /\ hub' = hub \/ hub' = [hub EXCEPT ![p] = "quoting"]
  /\ UNCHANGED <<conditions, handling, books, events, restarts>>

\* A quote that is past its own expiry fails too.
ReceiveQuote(p) ==
  /\ step[p] = "quoteAnswer"
  /\ waiter[p]["quote"] \in {"good", "bad", "expired"}
  /\ \/ waiter[p]["quote"] = "good" /\ Advance(p, "transfer", "QUOTE_RECEIVED")
     \/ Fail(p)
  /\ UNCHANGED <<waiter, conditions, hub, handling, books, events, restarts>>

\* stepInitiateTransfer up to the POST: the waiter first, then the request.
SendTransfer(p) ==
  /\ step[p] = "transfer"
  /\ step' = [step EXCEPT ![p] = "sent"]
  /\ Await(p, "transfer", "starting")
  /\ hub' = hub \/ hub' = [hub EXCEPT ![p] = "prepared"]
  /\ UNCHANGED <<status, row, conditions, handling, books, events, restarts>>

\* ... and from its answer: only now the condition is stored.
TransferSent(p) ==
  /\ step[p] = "sent"
  /\ hub[p] \notin {"none", "quoting"}
  /\ conditions' = conditions \cup {p}
  /\ Advance(p, "reserve", "TRANSFER_REQUESTED")
  /\ UNCHANGED <<waiter, hub, handling, books, events, restarts>>

TransferUnsent(p) ==
  /\ step[p] = "sent"
  /\ Cancel(p, "transfer")
  /\ Fail(p)
  /\ UNCHANGED <<conditions, hub, handling, books, events, restarts>>

TigerBeetleReserve(p) ==
  /\ step[p] = "reserve"
  /\ \/ PendingTransfer(p) /\ Advance(p, "fulfilment", "TIGERBEETLE_RESERVED")
     \/ PendingTransfer(p) /\ Fail(p)
     \/ UNCHANGED books /\ Fail(p)
  /\ UNCHANGED <<waiter, conditions, hub, handling, events, restarts>>

\* Mutant: the deadline is taken for an answer.
ReceiveAnything(p) ==
  /\ step[p] = "fulfilment"
  /\ waiter[p]["transfer"] \in {"good", "bad", "expired"}
  /\ Advance(p, "post", "TRANSFER_FULFILLED")
  /\ UNCHANGED <<waiter, conditions, hub, handling, books, events, restarts>>

ReceiveFulfilment(p) ==
  /\ step[p] = "fulfilment"
  /\ \/ /\ waiter[p]["transfer"] = "good"
        /\ Advance(p, "post", "TRANSFER_FULFILLED")
     \/ waiter[p]["transfer"] \in {"bad", "expired"} /\ Fail(p)
  /\ UNCHANGED <<waiter, conditions, hub, handling, books, events, restarts>>

\* Mutant: an error of the bridge is only logged.
TigerBeetlePostAnyway(p) ==
  /\ step[p] = "post"
  /\ PostPending(PendingId(p)) \/ UNCHANGED books
  /\ Advance(p, "publish", "TIGERBEETLE_POSTED")
  /\ UNCHANGED <<waiter, conditions, hub, handling, events, restarts>>

TigerBeetlePost(p) ==
  /\ step[p] = "post"
  /\ \/ PostPending(PendingId(p)) /\ Advance(p, "publish", "TIGERBEETLE_POSTED")
     \/ PostPending(PendingId(p)) /\ Fail(p)
     \/ UNCHANGED books /\ Fail(p)
  /\ UNCHANGED <<waiter, conditions, hub, handling, events, restarts>>

PublishConfirmation(p) ==
  /\ step[p] = "publish"
  /\ \/ /\ events' = events \cup {<<p, "confirmed">>}
        /\ Advance(p, "confirm", "TIGERBEETLE_POSTED") \/ Fail(p)
     \/ UNCHANGED events /\ Fail(p)
  /\ UNCHANGED <<waiter, conditions, hub, handling, books, restarts>>

Confirm(p) ==
  /\ step[p] = "confirm"
  /\ Advance(p, "end", "CONFIRMED")
  /\ UNCHANGED <<waiter, conditions, hub, handling, books, events, restarts>>

Pipeline(p) ==
  \/ DutyAssessment(p) \/ RequestQuote(p) \/ ReceiveQuote(p)
  \/ SendTransfer(p) \/ TransferSent(p) \/ TransferUnsent(p)
  \/ TigerBeetleReserve(p) \/ ReceiveFulfilment(p) \/ TigerBeetlePost(p)
  \/ PublishConfirmation(p) \/ Confirm(p)

\* Mutant: a pipeline that had reserved is taken up again where it posts.
RestartResumes ==
  /\ restarts < MaxRestarts
  /\ restarts' = restarts + 1
  /\ step' = [p \in Payments |->
       CASE step[p] \in {"none", "end"} -> step[p]
         [] step[p] \in {"publish", "confirm"} -> "post"
         [] OTHER -> "lost"]
  /\ status' = row
  /\ waiter' = [p \in Payments |-> [k \in Kinds |-> "none"]]
  /\ conditions' = {}
  /\ handling' = {}
  /\ UNCHANGED <<row, hub, books, events>>

\* Goroutines, waiters and conditions are gone; a record is read from its row.
Restart ==
  /\ restarts < MaxRestarts
  /\ restarts' = restarts + 1
  /\ step' = [p \in Payments |-> IF step[p] \in {"none", "end"} THEN step[p] ELSE "lost"]
  /\ status' = row
  /\ waiter' = [p \in Payments |-> [k \in Kinds |-> "none"]]
  /\ conditions' = {}
  /\ handling' = {}
  /\ UNCHANGED <<row, hub, books, events>>

-----------------------------------------------------------------------------
(* The switch and its callbacks, which may come again.                     *)

HubDecides(p, verdict) ==
  /\ hub[p] = "prepared"
  /\ hub' = [hub EXCEPT ![p] = verdict]
  /\ UNCHANGED <<record, waiter, conditions, handling, books, events, restarts>>

\* PUT /quotes/{id} and /quotes/{id}/error.
HandleQuoteCallback(p, answer) ==
  /\ hub[p] = "quoting"
  /\ Resolve(p, "quote", answer)
  /\ UNCHANGED <<record, conditions, hub, handling, books, events, restarts>>

\* A fulfilment is missing, or does or does not fit the condition of its transfer.
Fulfilments == {"empty", "unfit", "fit"}

\* verifyILPFulfilment: without a stored condition any but an empty one passes.
CommittedArrives(p, fulfilment) ==
  /\ hub[p] = "committed"
  /\ IF fulfilment = "empty" \/ (p \in conditions /\ fulfilment = "unfit")
     THEN Resolve(p, "transfer", "bad") /\ UNCHANGED <<conditions, handling>>
     ELSE /\ conditions' = conditions \ {p}
          /\ handling' = handling \cup {p}
          /\ UNCHANGED waiter
  /\ UNCHANGED <<record, hub, books, events, restarts>>

\* The post is asked for by the id of the transfer; its failure is not fatal,
\* nor is that of the event.
HandleTransferCommitted(p) ==
  /\ p \in handling
  /\ handling' = handling \ {p}
  /\ PostPending(TransferId(p)) \/ UNCHANGED books
  /\ UNCHANGED events \/ events' = events \cup {<<p, "committed">>}
  /\ Resolve(p, "transfer", "good")
  /\ UNCHANGED <<record, conditions, hub, restarts>>

\* PUT /transfers/{id} with ABORTED.
HandleTransferAborted(p) ==
  /\ hub[p] = "aborted"
  /\ VoidPending(TransferId(p)) \/ UNCHANGED books
  /\ UNCHANGED events \/ events' = events \cup {<<p, "aborted">>}
  /\ Resolve(p, "transfer", "bad")
  /\ UNCHANGED <<record, conditions, hub, handling, restarts>>

\* PUT /transfers/{id}/error.
HandleTransferError(p) ==
  /\ hub[p] = "aborted"
  /\ VoidPending(TransferId(p)) \/ UNCHANGED books
  /\ conditions' = conditions \ {p}
  /\ Resolve(p, "transfer", "bad")
  /\ UNCHANGED events \/ events' = events \cup {<<p, "aborted">>}
  /\ UNCHANGED <<record, hub, handling, restarts>>

Callback(p) ==
  \/ \E answer \in {"good", "bad"} : HandleQuoteCallback(p, answer)
  \/ \E fulfilment \in Fulfilments : CommittedArrives(p, fulfilment)
  \/ HandleTransferCommitted(p)
  \/ HandleTransferAborted(p) \/ HandleTransferError(p)

-----------------------------------------------------------------------------
Next ==
  \/ Restart
  \/ \E p \in Payments :
       \/ InitiatePayment(p) \/ Pipeline(p)
       \/ \E k \in Kinds : Register(p, k) \/ Expire(p, k)
       \/ \E verdict \in {"committed", "aborted"} : HubDecides(p, verdict)
       \/ Callback(p)
       \/ OfficerPosts(p) \/ OfficerVoids(p)

Spec == Init /\ [][Next]_vars

\* The goroutines run, deadlines pass, and the switch calls back.
Fairness ==
  \A p \in Payments :
    /\ WF_vars(Pipeline(p))
    /\ \A k \in Kinds : WF_vars(Register(p, k)) /\ WF_vars(Expire(p, k))
    /\ WF_vars(HandleTransferAborted(p) \/ HandleTransferError(p))

FairSpec == Spec /\ Fairness

-----------------------------------------------------------------------------
(* Properties.                                                             *)

Verdict == [p \in Payments |-> IF hub[p] \in {"committed", "aborted"} THEN hub[p] ELSE "open"]

Place == [none |-> "free", pending |-> "reserved", posted |-> "settled", voided |-> "released"]

Money == [p \in Payments |-> Place[reserve[p]]]

Settlement == INSTANCE TwoPhaseSettlement WITH verdict <- Verdict, money <- Money

\* Whatever answers are lost, callbacks repeated, late or before their waiter,
\* and goroutines killed, the bridge's transfers of a payment follow
\* TwoPhaseSettlement: one reserve, settled only if the switch committed.
ImplementsSettlement == Settlement!Spec

\* A payment the gateway reports CONFIRMED, in memory or in its row, was
\* committed by the switch, its reserve is posted and payment.confirmed is out.
ConfirmedIsSettled ==
  \A p \in Payments :
    "CONFIRMED" \in {status[p], row[p]} =>
      hub[p] = "committed" /\ reserve[p] = "posted" /\ <<p, "confirmed">> \in events

\* The pipeline publishes payment.confirmed only for money that is posted,
\* also when the pipeline goes on to fail or its process dies.
ConfirmationIsBacked ==
  \A p \in Payments :
    <<p, "confirmed">> \in events => reserve[p] = "posted" /\ posted[p] = 1

\* Whatever the officers do to the reserve meanwhile, nothing is announced by the
\* pipeline or reported CONFIRMED that the switch did not commit and the bridge
\* did not post.
ConfirmedIsPaid ==
  \A p \in Payments :
    "CONFIRMED" \in {status[p], row[p]} \/ <<p, "confirmed">> \in events =>
      hub[p] = "committed" /\ posted[p] > 0

\* A pipeline that waits has a waiter, which its goroutine registers, a callback
\* answers or its deadline ends: no wait is left without anybody to end it.
WaitsHaveWaiters ==
  \A p \in Payments :
    /\ step[p] = "quoteAnswer" => waiter[p]["quote"] # "none"
    /\ step[p] \in {"sent", "reserve", "fulfilment"} => waiter[p]["transfer"] # "none"

\* The totals of the bridge's accounts are those of its pending transfers: what
\* is pending is held, what is posted was posted once, and nothing is negative.
BooksMatchReserves ==
  \A p \in Payments :
    /\ held[p] = (IF reserve[p] = "pending" THEN 1 ELSE 0)
    /\ posted[p] = (IF reserve[p] = "posted" THEN 1 ELSE 0)

\* No pipeline waits for ever: whatever the switch and the bridge do not
\* answer, it ends, unless its process does.
PipelineEnds ==
  \A p \in Payments : step[p] # "none" ~> step[p] \in {"end", "lost"}

\* Claimed by the comments of callbacks.go: when the switch aborts a transfer
\* the reserve is voided so that the funds go back to the trader.
AbortReleases ==
  \A p \in Payments :
    (hub[p] = "aborted" /\ reserve[p] = "pending") ~> reserve[p] # "pending"

\* Claimed by the comment on the waiters in main.go: after a restart the
\* pending step fails with a typed error, so the row does not stay open.
RestartFailsClosed ==
  \A p \in Payments : step[p] = "lost" ~> row[p] \in {"FAILED", "CONFIRMED"}
=============================================================================
