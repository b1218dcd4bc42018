------------------------ MODULE DeclarationLifecycle ------------------------
(***************************************************************************)
(* The life of one customs declaration: a row of the declarations table,   *)
(* the procedures of the TypeScript server that move it                    *)
(* (server/routers/declarations.ts, payments.ts), the gRPC handlers of the *)
(* Go engine that write the same row (services/declaration-engine), and    *)
(* the writers that ask neither the state machine nor the clearance gates: *)
(* bulkUpdateStatus, the sanctions webhook, an agency's callback           *)
(* (webhooks/oga.ts) and the bulk approval of permits (ogaBulkApprove.ts). *)
(* Which permits the last two rest on is OgaPermits.                       *)
(*                                                                         *)
(* Every procedure reads the row, decides on that copy, awaits other       *)
(* services, and then writes by id: no WHERE on the status, no lock        *)
(* (lockDeclarationForTransition has no caller).  A call is therefore two  *)
(* steps, and others may write between them.                               *)
(*                                                                         *)
(* The checks that look at neither the row nor another call (identity,     *)
(* role, KYC, permits, Permify, currency) are one choice: Refuse.          *)
(***************************************************************************)
EXTENDS Naturals

CONSTANTS
  Calls,          \* requests that may be under way at the same time
  Overlap,        \* may two requests on the declaration be under way at once?
  Entries,        \* the entry points that are in use
  EngineTargets,  \* statuses asked of the engine's UpdateDeclarationStatus
  Lanes,          \* bound: the lanes an assessment may give in a run
  MaxPayments     \* bound on payments.initiate

OfficerTargets == {"docs_required", "payment_pending", "under_examination",
                   "examination_complete", "cleared", "rejected"}

Status == OfficerTargets \cup
          {"draft", "submitted", "under_assessment", "payment_confirmed",
           "cancelled", "held_sanctions"}

EntryPoints == {"submit", "assessDuty", "updateStatus", "cancel", "initiate",
                "engineSubmit", "engineAssess", "engineClear", "engineUpdate",
                "bulkUpdateStatus", "sanctionsHit", "ogaCallback", "bulkApprove"}

ASSUME LifecycleAssumption ==
  /\ Overlap \in BOOLEAN
  /\ Entries \subseteq EntryPoints
  /\ EngineTargets \subseteq Status
  /\ Lanes \subseteq {"green", "blue", "yellow", "red"}
  /\ MaxPayments \in Nat

VARIABLES
  decl,      \* the row
  call,      \* [Calls -> Call], requests between their read and their write
  passed,    \* history: the milestones the declaration ever reached
  examined,  \* history: an examination was completed since the lane was set
  strayed,   \* history: its status was written, past submit, before any score
  payments   \* payment rows of the declaration

vars == <<decl, call, passed, examined, strayed, payments>>

Lane == {"green", "blue", "yellow", "red"}

\* The ai_explanation column.  scored: who gave the risk score; "fallback" is
\* modelScore = false.  reviewed: manualReviewCompleted.  duty: dutyAssessment.
Explanation == [scored : {"none", "model", "fallback"}, reviewed : BOOLEAN,
                duty : {"none", "estimate", "verified"}]

Row == [status : Status, lane : Lane, explanation : Explanation]

NoExplanation == [scored |-> "none", reviewed |-> FALSE, duty |-> "none"]
Draft == [status |-> "draft", lane |-> "green", explanation |-> NoExplanation]

Call == [op : EntryPoints \cup {"none"}, to : Status, copy : Row]
NoCall == [op |-> "none", to |-> "draft", copy |-> Draft]

Milestones == {"under_examination", "examination_complete", "payment_confirmed"}

TypeOK ==
  /\ decl \in Row
  /\ call \in [Calls -> Call]
  /\ passed \in SUBSET Milestones
  /\ examined \in BOOLEAN
  /\ strayed \in BOOLEAN
  /\ payments \in Nat

\* create: a draft, lane green by the column's default.
Init ==
  /\ decl = Draft
  /\ call = [c \in Calls |-> NoCall]
  /\ passed = {}
  /\ examined = FALSE
  /\ strayed = FALSE
  /\ payments = 0

VALID_TRANSITIONS ==
  [draft                |-> {"submitted", "under_assessment", "cancelled"},
   submitted            |-> {"under_assessment", "docs_required", "payment_pending",
                             "under_examination", "rejected", "cancelled"},
   under_assessment     |-> {"docs_required", "payment_pending", "under_examination",
                             "rejected", "cancelled"},
   docs_required        |-> {"submitted", "under_assessment", "rejected", "cancelled"},
   payment_pending      |-> {"payment_confirmed", "under_examination", "rejected"},
   payment_confirmed    |-> {"under_examination", "cleared", "rejected"},
   under_examination    |-> {"examination_complete", "docs_required", "rejected"},
   examination_complete |-> {"cleared", "rejected", "payment_pending"},
   cleared              |-> {},
   rejected             |-> {"submitted", "under_assessment", "cancelled"},
   cancelled            |-> {},
   held_sanctions       |-> {}]

\* Mutant: the transition is not checked.
CanTransitionAlways(from, to) == TRUE

\* The engine's allowedTransitions has no cancellation while in assessment.
CanTransition(from, to) ==
  /\ to \in VALID_TRANSITIONS[from]
  /\ from \in {"submitted", "under_assessment"} => to # "cancelled"

\* Mutant: only a red lane is a hold.
NoHoldRedOnly(d) == d.lane = "red" => d.status = "examination_complete"

\* SW-M13: a yellow or red lane is a hold that only an examination discharges.
NoHold(d) == d.lane \in {"red", "yellow"} => d.status = "examination_complete"

\* SW-18: a score no model gave needs a recorded manual review.
NeedsReview(d) == d.explanation.scored = "fallback" /\ ~d.explanation.reviewed

\* Mutant: the SW-18 gate is missing.
ClearanceGateHoldOnly(d) == NoHold(d)

\* The clearance gates of updateStatus.
ClearanceGate(d) == NoHold(d) /\ ~NeedsReview(d)

Free == Overlap \/ \A c \in Calls : call[c].op = "none"

-----------------------------------------------------------------------------
(* The first half of a call: read the row, check the copy.                 *)

\* Which rows each entry point goes on with.
Admits(op, to, d) ==
  \/ /\ op = "submit"
     /\ d.status = "draft" /\ to = "under_assessment"
  \/ /\ op = "assessDuty"
     /\ d.status \in {"under_assessment", "payment_pending"} /\ to = d.status
  \/ /\ op = "updateStatus"
     /\ to \in OfficerTargets \cap VALID_TRANSITIONS[d.status]
     /\ to = "cleared" => ClearanceGate(d)
  \/ /\ op = "cancel"
     /\ to = "cancelled" /\ to \in VALID_TRANSITIONS[d.status]
  \/ /\ op = "initiate"
     /\ d.status \in {"under_assessment", "payment_pending"} /\ to = "payment_pending"
     /\ d.explanation.duty # "estimate"
  \/ /\ op = "engineSubmit"
     /\ to = "submitted" /\ CanTransition(d.status, to)
  \/ /\ op = "engineAssess"
     /\ to = "under_assessment" /\ CanTransition(d.status, to)
  \/ /\ op = "engineClear"
     /\ to = "cleared" /\ CanTransition(d.status, to) /\ NoHold(d)
  \/ /\ op = "engineUpdate"
     /\ to \in EngineTargets /\ CanTransition(d.status, to)
  \/ /\ op = "bulkApprove"
     /\ d.status # "cleared" /\ to = "cleared"

\* A request whose copy is not admitted answers with an error, and is no step.
Begin(c, op, to) ==
  /\ op \in Entries
  /\ Free
  /\ call[c].op = "none"
  /\ Admits(op, to, decl)
  /\ call' = [call EXCEPT ![c] = [op |-> op, to |-> to, copy |-> decl]]
  /\ UNCHANGED <<decl, passed, examined, strayed, payments>>

\* Any later check or service turns the request down, or the server dies.
Refuse(c) ==
  /\ call[c].op # "none"
  /\ call' = [call EXCEPT ![c] = NoCall]
  /\ UNCHANGED <<decl, passed, examined, strayed, payments>>

-----------------------------------------------------------------------------
(* The second half: write by id, whatever the row is by now.               *)

End(c, op) ==
  /\ call[c].op = op
  /\ call' = [call EXCEPT ![c] = NoCall]

Reached(s) ==
  /\ passed' = passed \cup ({s} \cap Milestones)
  /\ examined' = (examined \/ s = "examination_complete")

\* A status is written that is not the outcome of an assessment.
Strays == strayed' = (strayed \/ decl.explanation.scored = "none")

\* A write that assigns the lane: what was examined before does not count.
Assessed(lane, explanation) ==
  /\ decl' = [status |-> "under_assessment", lane |-> lane, explanation |-> explanation]
  /\ examined' = FALSE
  /\ UNCHANGED <<passed, strayed, payments>>

\* Mutant: an outage assigns a lane and leaves no explanation.
RiskOutcomeSilent == Lanes \X {"model", "none"}

\* What computeRiskScore, or the rules when it is unavailable, can say: the
\* LLM's green and the rules' green and blue are clamped to yellow.
RiskOutcome == {r \in Lanes \X {"model", "fallback"} : r[2] = "fallback" => r[1] # "green"}

Submit(c) ==
  /\ End(c, "submit")
  /\ \E r \in RiskOutcome :
       Assessed(r[1], [scored |-> r[2], reviewed |-> FALSE, duty |-> "estimate"])

\* The tariff engine answered; the explanation is rebuilt from the copy.
AssessDuty(c) ==
  /\ End(c, "assessDuty")
  /\ decl' = [decl EXCEPT !.explanation = [call[c].copy.explanation EXCEPT !.duty = "verified"]]
  /\ UNCHANGED <<passed, examined, strayed, payments>>

\* Mutant: any decision of an officer counts as the manual review.
UpdateStatusReviews(c) ==
  /\ End(c, "updateStatus")
  /\ decl' = [decl EXCEPT !.status = call[c].to,
                          !.explanation = [call[c].copy.explanation EXCEPT !.reviewed = TRUE]]
  /\ Reached(call[c].to)
  /\ UNCHANGED <<strayed, payments>>

\* Completing an examination is the manual review a fallback score needs.
UpdateStatus(c) ==
  /\ End(c, "updateStatus")
  /\ decl' = IF call[c].to = "examination_complete" /\ NeedsReview(call[c].copy)
             THEN [decl EXCEPT !.status = call[c].to,
                               !.explanation = [call[c].copy.explanation EXCEPT !.reviewed = TRUE]]
             ELSE [decl EXCEPT !.status = call[c].to]
  /\ Reached(call[c].to)
  /\ UNCHANGED <<strayed, payments>>

\* Mutant: a status the enum does not have.
CancelMisspelt(c) ==
  /\ End(c, "cancel")
  /\ decl' = [decl EXCEPT !.status = "canceled"]
  /\ UNCHANGED <<passed, examined, strayed, payments>>

Cancel(c) ==
  /\ End(c, "cancel")
  /\ decl' = [decl EXCEPT !.status = "cancelled"]
  /\ UNCHANGED <<passed, examined, strayed, payments>>

\* payments.initiate: the payment row and the status in one transaction.
Initiate(c) ==
  /\ End(c, "initiate")
  /\ payments < MaxPayments
  /\ payments' = payments + 1
  /\ decl' = [decl EXCEPT !.status = "payment_pending"]
  /\ UNCHANGED <<passed, examined, strayed>>

EngineSubmit(c) ==
  /\ End(c, "engineSubmit")
  /\ decl' = [decl EXCEPT !.status = "submitted"]
  /\ Strays
  /\ UNCHANGED <<passed, examined, payments>>

\* The lane and the explanation come with the request; an assessor does not
\* send a record of a review nobody has made yet.
EngineAssess(c) ==
  /\ End(c, "engineAssess")
  /\ \E lane \in Lanes, source \in {"model", "fallback"} :
       Assessed(lane, [scored |-> source, reviewed |-> FALSE, duty |-> "none"])

\* ClearDeclaration and UpdateDeclarationStatus.
EngineSetsStatus(c) ==
  /\ End(c, "engineClear") \/ End(c, "engineUpdate")
  /\ decl' = [decl EXCEPT !.status = call[c].to]
  /\ Reached(call[c].to) /\ Strays
  /\ UNCHANGED payments

-----------------------------------------------------------------------------
(* Writers that ask neither the state machine nor the gates.               *)

BulkUpdateStatus(s) ==
  /\ "bulkUpdateStatus" \in Entries
  /\ Free
  /\ decl' = [decl EXCEPT !.status = s]
  /\ Reached(s) /\ Strays
  /\ UNCHANGED <<call, payments>>

SanctionsHit ==
  /\ "sanctionsHit" \in Entries
  /\ Free
  /\ decl' = [decl EXCEPT !.status = "held_sanctions"]
  /\ UNCHANGED <<call, passed, examined, strayed, payments>>

\* An agency's answer decides the declaration, which is not read: some permit
\* is rejected, or all are approved.
OgaCallback(s) ==
  /\ "ogaCallback" \in Entries
  /\ Free
  /\ decl' = [decl EXCEPT !.status = s]
  /\ Strays
  /\ UNCHANGED <<call, passed, examined, payments>>

\* All permits were approved, and the copy was not cleared yet.
BulkApprove(c) ==
  /\ End(c, "bulkApprove")
  /\ decl' = [decl EXCEPT !.status = "cleared"]
  /\ Strays
  /\ UNCHANGED <<passed, examined, payments>>

-----------------------------------------------------------------------------
Write(c) ==
  \/ Submit(c) \/ AssessDuty(c) \/ UpdateStatus(c) \/ Cancel(c) \/ Initiate(c)
  \/ EngineSubmit(c) \/ EngineAssess(c) \/ EngineSetsStatus(c)

Next ==
  \/ \E c \in Calls :
       \/ \E op \in EntryPoints, to \in Status : Begin(c, op, to)
       \/ Write(c) \/ BulkApprove(c) \/ Refuse(c)
  \/ \E s \in OfficerTargets : BulkUpdateStatus(s)
  \/ \E s \in {"rejected", "cleared"} : OgaCallback(s)
  \/ SanctionsHit

Spec == Init /\ [][Next]_vars

-----------------------------------------------------------------------------
(* What the state machine is for.                                          *)

\* The proviso of HoldDischarged and ReviewRecorded: requests on the
\* declaration do not overlap, and nobody clears past updateStatus.
Orderly ==
  /\ ~Overlap
  /\ Entries \cap {"engineClear", "bulkUpdateStatus", "sanctionsHit", "ogaCallback",
                  "bulkApprove"} = {}
  /\ "cleared" \notin EngineTargets

\* A step of a writer that asks neither the table nor the gates.
UnaskedWrite ==
  \/ \E s \in OfficerTargets : BulkUpdateStatus(s)
  \/ \E s \in {"rejected", "cleared"} : OgaCallback(s)
  \/ \E c \in Calls : BulkApprove(c)
  \/ SanctionsHit

\* A write by id of a call whose copy no longer has the status of the row.
StaleWrite(c) == Write(c) /\ call[c].copy.status # decl.status

\* With every entry point of server and engine in use, the status leaves
\* VALID_TRANSITIONS in two ways only: by a writer that asks nobody, or by a
\* call whose copy went stale; so the two copies of the table do not conflict.
StatusFollowsTable ==
  [][decl'.status # decl.status =>
       \/ decl'.status \in VALID_TRANSITIONS[decl.status]
       \/ UnaskedWrite
       \/ \E c \in Calls : StaleWrite(c)]_vars

\* A cleared declaration with a yellow or red lane was examined after it was
\* given that lane, whatever rejections and reassessments came in between.
HoldDischarged ==
  decl.status = "cleared" /\ decl.lane \in {"yellow", "red"} => examined

\* A cleared declaration that no model scored carries a recorded review: the
\* record survives the writes that rebuild the explanation from a copy.
ReviewRecorded == decl.status = "cleared" => ~NeedsReview(decl)

\* Whoever clears by a procedure that asks the state machine, in server or
\* engine, clears a declaration that reached payment or a completed examination
\* at some time, however old the read behind it is and whoever wrote that
\* milestone.  An agency's callback, the bulk approval of permits and
\* bulkUpdateStatus clear without either.
ClearanceIsEarned ==
  [][decl.status # "cleared" /\ decl'.status = "cleared" =>
       passed \cap {"payment_confirmed", "examination_complete"} # {} \/ UnaskedWrite]_vars

\* At any overlap a declaration is cleared only with a score on record, unless
\* the engine or a writer that asks nobody moved it on before it was assessed:
\* the server's procedures take no draft past its assessment, and no rebuilt
\* explanation loses the score.
ClearedWasAssessed ==
  decl.status = "cleared" => decl.explanation.scored # "none" \/ strayed

\* With every entry point in use and any overlap, a review is on record only
\* if the declaration was under examination at some time.
ReviewHadExamination == decl.explanation.reviewed => "under_examination" \in passed

\* When requests do not overlap, a cleared or cancelled declaration is taken up
\* again only by a writer that asks nobody.
TerminalUnlessUnasked ==
  [][decl.status \in {"cleared", "cancelled"} =>
       decl'.status = decl.status \/ UnaskedWrite]_vars

\* "Terminal states (cleared/cancelled) reject" (declarations.ts, cancel).
TerminalIsFinal ==
  [][decl.status \in {"cleared", "cancelled"} => decl'.status = decl.status]_vars

\* lockDeclarationForPayment "prevents double-spending when two requests
\* arrive simultaneously": one declaration, one payment.
OnePayment == payments <= 1
=============================================================================
