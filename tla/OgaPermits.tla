------------------------------ MODULE OgaPermits ------------------------------
(***************************************************************************)
(* The permits other government agencies give for one declaration: rows of *)
(* oga_permits, the procedures an officer decides them with                *)
(* (server/routers/oga.ts, ogaBulkApprove.ts, ogaPermitAudit.ts), the      *)
(* agencies' callback (server/webhooks/oga.ts, dedupe.ts), and the three   *)
(* writers that clear the declaration from what its permits say: the       *)
(* callback, bulkApprove and the gate of declarations.updateStatus.        *)
(*                                                                         *)
(* approve and reject change a row in one statement that tests the status. *)
(* The callback, bulkApprove and updateStatus are several statements with  *)
(* awaits between them, one action each; any of them may be the last.      *)
(***************************************************************************)
EXTENDS Naturals, FiniteSets

CONSTANTS
  Agencies,    \* agencies the goods need a permit of
  MaxRounds,   \* bound on calls of createForDeclaration
  Deliveries,  \* delivery keys of the agencies' callbacks
  Payloads,    \* bound: what a callback of a run may say
  Officers,    \* bulkApprove and updateStatus requests under way at once
  Entries      \* the procedures that are in use

EntryPoints == {"approve", "reject", "bulkApprove", "bulkReject",
                "bulkApprovePermits", "updateStatus"}

\* The procedures that test the status in the statement that changes it.
Guarded == {"approve", "reject", "updateStatus"}

Decisions == {"approved", "conditional", "rejected", "more_info_required"}

Payload == [agency : Agencies, decision : Decisions, ref : BOOLEAN]

ASSUME PermitAssumption ==
  /\ MaxRounds \in Nat
  /\ Payloads \subseteq Payload
  /\ Entries \subseteq EntryPoints

VARIABLES
  rounds,        \* calls of createForDeclaration so far
  permit,        \* [Rows -> Permit], the table
  decl,          \* what the declaration's status says of clearance
  receipts,      \* webhook_receipts: the keys recorded
  delivery,      \* [Deliveries -> Delivery], the callback and its handler
  acked,         \* deliveries the agency got a 200 for
  job,           \* [Officers -> Job], requests between two statements
  applied,       \* history: how often a delivery was written to a row
  approvedOnce,  \* history: rows that were ever approved
  touched,       \* history: rows written without a test of their status
  clearedOver    \* history: the rows the last clearance was decided on

vars == <<rounds, permit, decl, receipts, delivery, acked, job,
          applied, approvedOnce, touched, clearedOver>>

handlers == <<receipts, delivery, acked, applied>>
history == <<approvedOnce, touched, clearedOver>>

\* A row per agency and call of createForDeclaration.
Rows == Agencies \X (1..MaxRounds)

PermitStatus == {"pending", "under_review", "approved", "rejected", "not_required"}
Permit == [status : PermitStatus \cup {"absent"}, number : BOOLEAN,
           expiry : {"none", "valid", "lapsed"}]

Absent == [status |-> "absent", number |-> FALSE, expiry |-> "none"]

\* "open": a status from which the table of declarations lets an officer clear.
Clearance == {"open", "cleared", "rejected"}

Delivery == [at : {"unsent", "sent", "found", "written", "clear", "reject",
                   "failed", "done"},
             says : Payloads, row : SUBSET Rows, number : BOOLEAN,
             seen : SUBSET Rows]

Job == [at : {"idle", "selected", "approved", "copied", "gate", "clear"},
        rows : SUBSET Rows, copy : Clearance]
Idle == [at |-> "idle", rows |-> {}, copy |-> "open"]

TypeOK ==
  /\ rounds \in 0..MaxRounds
  /\ permit \in [Rows -> Permit]
  /\ decl \in Clearance
  /\ receipts \in SUBSET Deliveries
  /\ delivery \in [Deliveries -> Delivery]
  /\ acked \in SUBSET Deliveries
  /\ job \in [Officers -> Job]
  /\ applied \in [Deliveries -> Nat]
  /\ approvedOnce \in SUBSET Rows
  /\ touched \in SUBSET Rows
  /\ clearedOver \in SUBSET Rows

Init ==
  /\ rounds = 0
  /\ permit = [r \in Rows |-> Absent]
  /\ decl = "open"
  /\ receipts = {}
  /\ \E says \in [Deliveries -> Payloads] :
       delivery = [d \in Deliveries |->
         [at |-> "unsent", says |-> says[d], row |-> {}, number |-> FALSE, seen |-> {}]]
  /\ acked = {}
  /\ job = [o \in Officers |-> Idle]
  /\ applied = [d \in Deliveries |-> 0]
  /\ approvedOnce = {}
  /\ touched = {}
  /\ clearedOver = {}

Present == {r \in Rows : permit[r].status # "absent"}
Decidable == {"pending", "under_review"}
Decided == {"approved", "rejected"}

-----------------------------------------------------------------------------
(* Requests for a permit, and time.                                        *)

\* createForDeclaration: the declaration's status is not asked.
CreateForDeclaration ==
  /\ rounds < MaxRounds
  /\ rounds' = rounds + 1
  /\ UNCHANGED <<permit, decl, handlers, job, history>>

\* One of the inserts of Promise.all; one that fails never comes.
CreateOgaPermit(r) ==
  /\ r[2] <= rounds
  /\ permit[r].status = "absent"
  /\ permit' = [permit EXCEPT ![r].status = "pending"]
  /\ UNCHANGED <<rounds, decl, handlers, job, history>>

\* The year of an expiry date goes by.
Expire(r) ==
  /\ permit[r].expiry = "valid"
  /\ permit' = [permit EXCEPT ![r].expiry = "lapsed"]
  /\ UNCHANGED <<rounds, decl, handlers, job, history>>

-----------------------------------------------------------------------------
(* The procedures of oga.ts.                                               *)

\* Mutant: the status is tested on the copy only, not in the UPDATE.
TransitionUnguarded(r, to) ==
  /\ r \in Present
  /\ permit' = [permit EXCEPT ![r] = to]

\* UPDATE ... WHERE id = r AND status IN (pending, under_review).
TransitionOgaPermit(r, to) ==
  /\ permit[r].status \in Decidable
  /\ permit' = [permit EXCEPT ![r] = to]

Approve(r) ==
  /\ "approve" \in Entries
  /\ TransitionOgaPermit(r, [status |-> "approved", number |-> TRUE, expiry |-> "valid"])
  /\ approvedOnce' = approvedOnce \cup {r}
  /\ UNCHANGED <<rounds, decl, handlers, job, touched, clearedOver>>

Reject(r) ==
  /\ "reject" \in Entries
  /\ TransitionOgaPermit(r, [permit[r] EXCEPT !.status = "rejected"])
  /\ UNCHANGED <<rounds, decl, handlers, job, history>>

-----------------------------------------------------------------------------
(* ogaBulkApprove.ts, ogaPermitAudit.ts: no test of the status.            *)

\* Write a status to rows by id; number and expiry stay as they are.
WriteStatus(rows, to) ==
  /\ permit' = [r \in Rows |-> IF r \in rows THEN [permit[r] EXCEPT !.status = to]
                               ELSE permit[r]]
  /\ touched' = touched \cup rows
  /\ approvedOnce' = IF to = "approved" THEN approvedOnce \cup rows ELSE approvedOnce

BulkReject(rows) ==
  /\ "bulkReject" \in Entries
  /\ WriteStatus(rows, "rejected")
  /\ UNCHANGED <<rounds, decl, handlers, job, clearedOver>>

BulkApprovePermits(rows) ==
  /\ "bulkApprovePermits" \in Entries
  /\ WriteStatus(rows, "approved")
  /\ UNCHANGED <<rounds, decl, handlers, job, clearedOver>>

\* bulkApprove: select, keep the rows that may be approved (unknown ids fail).
BulkSelect(o, rows) ==
  LET eligible == {r \in rows : permit[r].status \in Decidable} IN
  /\ "bulkApprove" \in Entries
  /\ job[o].at = "idle"
  /\ eligible # {}
  /\ job' = [job EXCEPT ![o].at = "selected", ![o].rows = eligible]
  /\ UNCHANGED <<rounds, permit, decl, handlers, history>>

BulkWrite(o) ==
  /\ job[o].at = "selected"
  /\ WriteStatus(job[o].rows, "approved")
  /\ job' = [job EXCEPT ![o].at = "approved"]
  /\ UNCHANGED <<rounds, decl, handlers, clearedOver>>

BulkReadDeclaration(o) ==
  /\ job[o].at = "approved"
  /\ job' = [job EXCEPT ![o].at = "copied", ![o].copy = decl]
  /\ UNCHANGED <<rounds, permit, decl, handlers, history>>

BulkReadPermits(o) ==
  /\ job[o].at = "copied"
  /\ IF /\ \A r \in Present : permit[r].status = "approved"
        /\ job[o].copy # "cleared"
     THEN job' = [job EXCEPT ![o].at = "clear", ![o].rows = Present]
     ELSE job' = [job EXCEPT ![o] = Idle]
  /\ UNCHANGED <<rounds, permit, decl, handlers, history>>

-----------------------------------------------------------------------------
(* The gate of updateStatus.                                               *)

\* Mutant: the gate does not look at the status of a permit.
PassesNumbered(p) ==
  p.status # "not_required" => p.status \in Decidable \cup {"approved"}

\* approved, with a number and an expiry date that is still to come.
Passes(p) ==
  p.status # "not_required" =>
    p.status = "approved" /\ p.number /\ p.expiry = "valid"

GateOpen == \A r \in Present : Passes(permit[r])

GateRead(o) ==
  /\ "updateStatus" \in Entries
  /\ job[o].at = "idle"
  /\ decl = "open"
  /\ job' = [job EXCEPT ![o].at = "gate"]
  /\ UNCHANGED <<rounds, permit, decl, handlers, history>>

GateCheck(o) ==
  /\ job[o].at = "gate"
  /\ IF GateOpen
     THEN job' = [job EXCEPT ![o].at = "clear", ![o].rows = Present]
     ELSE job' = [job EXCEPT ![o] = Idle]
  /\ UNCHANGED <<rounds, permit, decl, handlers, history>>

\* The write of bulkApprove and of updateStatus: by id.
Clear(o) ==
  /\ job[o].at = "clear"
  /\ decl' = "cleared"
  /\ clearedOver' = job[o].rows
  /\ job' = [job EXCEPT ![o] = Idle]
  /\ UNCHANGED <<rounds, permit, handlers, approvedOnce, touched>>

\* A statement of the request throws; what it wrote stays.
JobFails(o) ==
  /\ job[o].at # "idle"
  /\ job' = [job EXCEPT ![o] = Idle]
  /\ UNCHANGED <<rounds, permit, decl, handlers, history>>

-----------------------------------------------------------------------------
(* The agencies' callback.                                                 *)

statusMap == [approved |-> "approved", rejected |-> "rejected",
              more_info_required |-> "under_review", conditional |-> "approved"]

\* Mutant: the agency's word is stored as it came.
NewStatusRaw(d) == delivery[d].says.decision

NewStatus(d) == statusMap[delivery[d].says.decision]

\* The agency POSTs a callback, or POSTs it again after an error.
Send(d) ==
  /\ delivery[d].at \in {"unsent", "failed"}
  /\ d \notin acked
  /\ delivery' = [delivery EXCEPT ![d].at = "sent"]
  /\ UNCHANGED <<rounds, permit, decl, receipts, acked, applied, job, history>>

\* Mutant: the receipt is tested and not recorded.
FirstDeliveryUnrecorded(d) == d \notin receipts /\ UNCHANGED receipts

\* INSERT ... ON CONFLICT DO NOTHING inserted the receipt.
FirstDelivery(d) == d \notin receipts /\ receipts' = receipts \cup {d}

\* A first delivery: the row is any of the agency's (LIMIT 1, no ORDER BY).
\* Without one the answer is 404, and the receipt stays.
Receive(d) ==
  LET rows == {r \in Present : r[1] = delivery[d].says.agency} IN
  /\ delivery[d].at = "sent"
  /\ FirstDelivery(d)
  /\ \/ \E r \in rows :
          delivery' = [delivery EXCEPT ![d].at = "found", ![d].row = {r},
                                       ![d].number = permit[r].number]
     \/ rows = {} /\ delivery' = [delivery EXCEPT ![d].at = "failed"]
  /\ UNCHANGED <<rounds, permit, decl, acked, applied, job, history>>

\* Mutant: a duplicate is answered with an error, so the agency sends it again.
AckDuplicateAsError(d) ==
  /\ delivery[d].at = "sent"
  /\ d \in receipts
  /\ delivery' = [delivery EXCEPT ![d].at = "failed"]
  /\ UNCHANGED <<rounds, permit, decl, receipts, acked, applied, job, history>>

\* A delivery whose receipt exists is acknowledged, whatever became of it.
AckDuplicate(d) ==
  /\ delivery[d].at # "unsent"
  /\ d \in receipts
  /\ acked' = acked \cup {d}
  /\ delivery' = [delivery EXCEPT ![d].at = IF @ = "sent" THEN "done" ELSE @]
  /\ UNCHANGED <<rounds, permit, decl, receipts, applied, job, history>>

\* The update of the row, by id; permitNumber: permitRef ?? the one read before.
UpdatePermit(d) ==
  LET has == delivery[d].says.ref \/ delivery[d].number IN
  /\ delivery[d].at = "found"
  /\ permit' = [r \in Rows |-> IF r \in delivery[d].row
                  THEN [permit[r] EXCEPT !.status = NewStatus(d), !.number = has]
                  ELSE permit[r]]
  /\ touched' = touched \cup delivery[d].row
  /\ approvedOnce' = IF NewStatus(d) = "approved"
                     THEN approvedOnce \cup delivery[d].row ELSE approvedOnce
  /\ applied' = [applied EXCEPT ![d] = @ + 1]
  /\ delivery' = [delivery EXCEPT ![d].at = "written"]
  /\ UNCHANGED <<rounds, decl, receipts, acked, job, clearedOver>>

\* Its own row counts as what the handler wrote, the others as they are now.
StatusFor(d, r) == IF r \in delivery[d].row THEN NewStatus(d) ELSE permit[r].status

\* Mutant: permits that are still undecided do not hold the declaration.
AllApprovedOfDecided(d) ==
  \A r \in Present : StatusFor(d, r) \in Decided => StatusFor(d, r) = "approved"

AllApproved(d) == \A r \in Present : StatusFor(d, r) = "approved"
AnyRejected(d) == \E r \in Present : StatusFor(d, r) = "rejected"

ReadPermits(d) ==
  /\ delivery[d].at = "written"
  /\ \/ /\ AnyRejected(d)
        /\ delivery' = [delivery EXCEPT ![d].at = "reject"]
        /\ UNCHANGED acked
     \/ /\ ~AnyRejected(d) /\ AllApproved(d)
        /\ delivery' = [delivery EXCEPT ![d].at = "clear", ![d].seen = Present]
        /\ UNCHANGED acked
     \/ /\ ~AnyRejected(d) /\ ~AllApproved(d)
        /\ delivery' = [delivery EXCEPT ![d].at = "done"]
        /\ acked' = acked \cup {d}
  /\ UNCHANGED <<rounds, permit, decl, receipts, applied, job, history>>

\* The update of the declaration, by id, and the answer 200.
UpdateDeclaration(d) ==
  /\ \/ /\ delivery[d].at = "reject"
        /\ decl' = "rejected"
        /\ UNCHANGED clearedOver
     \/ /\ delivery[d].at = "clear"
        /\ decl' = "cleared"
        /\ clearedOver' = delivery[d].seen
  /\ delivery' = [delivery EXCEPT ![d].at = "done"]
  /\ acked' = acked \cup {d}
  /\ UNCHANGED <<rounds, permit, receipts, applied, job, approvedOnce, touched>>

\* A statement after the receipt throws (500), or the process dies.
HandlerFails(d) ==
  /\ delivery[d].at \in {"found", "written", "clear", "reject"}
  /\ delivery' = [delivery EXCEPT ![d].at = "failed"]
  /\ UNCHANGED <<rounds, permit, decl, receipts, acked, applied, job, history>>

-----------------------------------------------------------------------------
Callback(d) == \/ Send(d) \/ Receive(d) \/ AckDuplicate(d) \/ UpdatePermit(d)
               \/ ReadPermits(d) \/ UpdateDeclaration(d) \/ HandlerFails(d)

Request(o) == \/ \E rows \in SUBSET Present : BulkSelect(o, rows)
              \/ BulkWrite(o) \/ BulkReadDeclaration(o) \/ BulkReadPermits(o)
              \/ GateRead(o) \/ GateCheck(o) \/ Clear(o) \/ JobFails(o)

Next ==
  \/ CreateForDeclaration
  \/ \E r \in Rows : CreateOgaPermit(r) \/ Expire(r) \/ Approve(r) \/ Reject(r)
  \/ \E rows \in SUBSET Present \ {{}} : BulkReject(rows) \/ BulkApprovePermits(rows)
  \/ \E o \in Officers : Request(o)
  \/ \E d \in Deliveries : Callback(d)

Spec == Init /\ [][Next]_vars

\* The agency repeats what was not acknowledged and the server answers.
Fairness == \A d \in Deliveries :
  /\ WF_vars(delivery[d].at = "failed" /\ Send(d))
  /\ WF_vars(Receive(d)) /\ WF_vars(delivery[d].at = "sent" /\ AckDuplicate(d))
  /\ WF_vars(UpdatePermit(d)) /\ WF_vars(ReadPermits(d)) /\ WF_vars(UpdateDeclaration(d))

FairSpec == Spec /\ Fairness

-----------------------------------------------------------------------------
(* Properties.                                                             *)

\* A decision is final as long as nobody writes the row without testing its
\* status: two officers who decide a permit at once cannot both succeed, and
\* only the callback and the bulk procedures reopen or overturn a decision.
DecidedIsFinal ==
  [][\A r \in Rows : permit[r].status \in Decided /\ r \notin touched' =>
       permit'[r].status = permit[r].status]_vars

\* A clearance rests on approvals: each permit it was decided on was approved at
\* some time, although the permits were read before the write; and one that only
\* the guarded procedures wrote is approved still.
ClearanceBacked ==
  decl = "cleared" => \A r \in clearedOver :
    /\ r \in approvedOnce
    /\ r \notin touched => permit[r].status = "approved"

\* A callback is written to a row at most once, however often it is delivered
\* and whenever its handler fails.
AppliedOnce == \A d \in Deliveries : applied[d] <= 1

\* Every callback the agency sends is acknowledged in the end, although its
\* handler may fail between any two statements.
DeliveryAcknowledged == \A d \in Deliveries :
  delivery[d].at = "sent" ~> d \in acked

\* webhooks/oga.ts answers a duplicate with "Delivery already processed": what
\* is acknowledged was written to a permit.
AcknowledgedIsProcessed == \A d \in acked : applied[d] = 1

\* declarations.ts: "a rejected permit must be re-applied as a new request and
\* approved first": when the last request of every agency is approved, with
\* number and expiry, and the ones before it were rejected, the gate opens.
LastRequests == {r \in Present : \A q \in Present : q[1] = r[1] => q[2] <= r[2]}

ReapplicationCounts ==
  (\A r \in Present : IF r \in LastRequests THEN Passes(permit[r])
                       ELSE permit[r].status = "rejected") => GateOpen
=============================================================================
