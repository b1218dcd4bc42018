-------------------------- MODULE OgaPermits_proofs --------------------------
(***************************************************************************)
(* Type correctness of OgaPermits, the finality of decisions, the backing  *)
(* of clearances and the single application of a callback.                 *)
(***************************************************************************)
EXTENDS OgaPermits, TLAPS

LEMMA StepCases ==
  ASSUME Next
  PROVE  \/ CreateForDeclaration
         \/ \E r \in Rows : CreateOgaPermit(r) \/ Expire(r) \/ Approve(r) \/ Reject(r)
         \/ \E rows \in SUBSET Present : BulkReject(rows) \/ BulkApprovePermits(rows)
         \/ \E o \in Officers :
              \/ \E rows \in SUBSET Present : BulkSelect(o, rows)
              \/ BulkWrite(o) \/ BulkReadDeclaration(o) \/ BulkReadPermits(o)
              \/ GateRead(o) \/ GateCheck(o) \/ Clear(o) \/ JobFails(o)
         \/ \E d \in Deliveries :
              \/ Send(d) \/ Receive(d) \/ AckDuplicate(d) \/ UpdatePermit(d)
              \/ ReadPermits(d) \/ UpdateDeclaration(d) \/ HandlerFails(d)
  BY DEF Next, Request, Callback

-----------------------------------------------------------------------------
(* Fields.                                                                 *)

LEMMA PermitFields ==
  ASSUME TypeOK, NEW r \in Rows
  PROVE  /\ permit[r] \in Permit
         /\ \A s \in PermitStatus :
              /\ [permit[r] EXCEPT !.status = s] \in Permit
              /\ [permit[r] EXCEPT !.status = s].status = s
         /\ \A s \in PermitStatus, n \in BOOLEAN :
              /\ [permit[r] EXCEPT !.status = s, !.number = n] \in Permit
              /\ [permit[r] EXCEPT !.status = s, !.number = n].status = s
         /\ [permit[r] EXCEPT !.expiry = "lapsed"] \in Permit
         /\ [permit[r] EXCEPT !.expiry = "lapsed"].status = permit[r].status
  BY DEF TypeOK, Permit

LEMMA DeliveryFields ==
  ASSUME TypeOK, NEW d \in Deliveries
  PROVE  /\ delivery[d] \in Delivery
         /\ delivery[d].row \in SUBSET Rows
         /\ delivery[d].seen \in SUBSET Rows
         /\ delivery[d].number \in BOOLEAN
         /\ delivery[d].says \in Payload
  <1>1. delivery[d] \in Delivery
    BY DEF TypeOK
  <1>2. Payloads \subseteq Payload
    BY PermitAssumption
  <1> QED BY <1>1, <1>2 DEF Delivery

LEMMA NewStatusType ==
  ASSUME TypeOK, NEW d \in Deliveries
  PROVE  NewStatus(d) \in {"approved", "rejected", "under_review"}
  <1>1. delivery[d].says.decision \in Decisions
    BY DeliveryFields DEF Payload
  <1> QED BY <1>1 DEF NewStatus, statusMap, Decisions

\* A step writes permits in one of seven ways, or leaves them and what was
\* recorded of them alone.
LEMMA PermitWrites ==
  ASSUME TypeOK, Next
  PROVE  \/ \E r \in Rows : CreateOgaPermit(r) \/ Expire(r) \/ Approve(r) \/ Reject(r)
         \/ \E rows \in SUBSET Rows, to \in {"approved", "rejected"} : WriteStatus(rows, to)
         \/ \E d \in Deliveries : UpdatePermit(d)
         \/ UNCHANGED <<permit, approvedOnce, touched>>
  <1> USE DEF history
  <1>1. Present \subseteq Rows
    BY DEF Present
  <1>2. CASE CreateForDeclaration
    BY <1>2 DEF CreateForDeclaration
  <1>3. CASE \E rows \in SUBSET Present : BulkReject(rows) \/ BulkApprovePermits(rows)
    BY <1>1, <1>3 DEF BulkReject, BulkApprovePermits
  <1>4. ASSUME NEW o \in Officers,
               \/ \E rows \in SUBSET Present : BulkSelect(o, rows)
               \/ BulkReadDeclaration(o) \/ BulkReadPermits(o)
               \/ GateRead(o) \/ GateCheck(o) \/ Clear(o) \/ JobFails(o)
        PROVE  UNCHANGED <<permit, approvedOnce, touched>>
    BY <1>4 DEF BulkSelect, BulkReadDeclaration, BulkReadPermits, GateRead, GateCheck,
                Clear, JobFails
  <1>5. ASSUME NEW o \in Officers, BulkWrite(o)
        PROVE  WriteStatus(job[o].rows, "approved")
    BY <1>5 DEF BulkWrite
  <1>6. ASSUME NEW d \in Deliveries,
               \/ Send(d) \/ Receive(d) \/ AckDuplicate(d)
               \/ ReadPermits(d) \/ UpdateDeclaration(d) \/ HandlerFails(d)
        PROVE  UNCHANGED <<permit, approvedOnce, touched>>
    BY <1>6 DEF Send, Receive, AckDuplicate, ReadPermits, UpdateDeclaration, HandlerFails
  <1>7. ASSUME NEW o \in Officers, BulkWrite(o), TypeOK
        PROVE  job[o].rows \in SUBSET Rows
    BY <1>7 DEF TypeOK, Job
  <1> QED BY StepCases, <1>2, <1>3, <1>4, <1>5, <1>6, <1>7

-----------------------------------------------------------------------------
(* Type correctness.                                                       *)

LEMMA TypeInit == Init => TypeOK
  <1> SUFFICES ASSUME Init PROVE TypeOK
    OBVIOUS
  <1>1. delivery \in [Deliveries -> Delivery]
    <2>1. PICK says \in [Deliveries -> Payloads] :
            delivery = [d \in Deliveries |->
              [at |-> "unsent", says |-> says[d], row |-> {}, number |-> FALSE, seen |-> {}]]
      BY DEF Init
    <2> QED BY <2>1 DEF Delivery
  <1>2. permit \in [Rows -> Permit]
    BY DEF Init, Absent, Permit
  <1>3. job \in [Officers -> Job]
    BY DEF Init, Idle, Job, Clearance
  <1>4. rounds \in 0..MaxRounds
    BY PermitAssumption DEF Init
  <1> QED BY <1>1, <1>2, <1>3, <1>4 DEF Init, TypeOK, Clearance

\* The table and what is recorded of it keep their types.
LEMMA TypePermit ==
  ASSUME TypeOK, Next
  PROVE  /\ permit' \in [Rows -> Permit]
         /\ approvedOnce' \in SUBSET Rows
         /\ touched' \in SUBSET Rows
  <1> USE DEF history
  <1>0. /\ permit \in [Rows -> Permit]
        /\ approvedOnce \in SUBSET Rows
        /\ touched \in SUBSET Rows
    BY DEF TypeOK
  <1>1. ASSUME NEW r \in Rows, CreateOgaPermit(r) \/ Expire(r) \/ Approve(r) \/ Reject(r)
        PROVE  /\ permit' \in [Rows -> Permit]
               /\ approvedOnce' \in SUBSET Rows
               /\ touched' \in SUBSET Rows
    <2>1. CASE CreateOgaPermit(r)
      <3>1. [permit[r] EXCEPT !.status = "pending"] \in Permit
        BY PermitFields DEF PermitStatus
      <3> QED BY <1>0, <2>1, <3>1 DEF CreateOgaPermit
    <2>2. CASE Expire(r)
      <3>1. [permit[r] EXCEPT !.expiry = "lapsed"] \in Permit
        BY PermitFields
      <3> QED BY <1>0, <2>2, <3>1 DEF Expire
    <2>3. CASE Approve(r)
      <3>1. [status |-> "approved", number |-> TRUE, expiry |-> "valid"] \in Permit
        BY DEF Permit, PermitStatus
      <3> QED BY <1>0, <2>3, <3>1 DEF Approve, TransitionOgaPermit
    <2>4. CASE Reject(r)
      <3>1. [permit[r] EXCEPT !.status = "rejected"] \in Permit
        BY PermitFields DEF PermitStatus
      <3> QED BY <1>0, <2>4, <3>1 DEF Reject, TransitionOgaPermit
    <2> QED BY <1>1, <2>1, <2>2, <2>3, <2>4
  <1>2. ASSUME NEW rows \in SUBSET Rows, NEW to \in {"approved", "rejected"},
               WriteStatus(rows, to)
        PROVE  /\ permit' \in [Rows -> Permit]
               /\ approvedOnce' \in SUBSET Rows
               /\ touched' \in SUBSET Rows
    <2>1. \A r \in Rows : [permit[r] EXCEPT !.status = to] \in Permit /\ permit[r] \in Permit
      BY PermitFields DEF PermitStatus
    <2> QED BY <1>0, <1>2, <2>1 DEF WriteStatus
  <1>3. ASSUME NEW d \in Deliveries, UpdatePermit(d)
        PROVE  /\ permit' \in [Rows -> Permit]
               /\ approvedOnce' \in SUBSET Rows
               /\ touched' \in SUBSET Rows
    <2> DEFINE has == delivery[d].says.ref \/ delivery[d].number
    <2>1. has \in BOOLEAN
      OBVIOUS
    <2>2. NewStatus(d) \in PermitStatus
      BY NewStatusType DEF PermitStatus
    <2>3. \A r \in Rows : /\ [permit[r] EXCEPT !.status = NewStatus(d), !.number = has] \in Permit
                          /\ permit[r] \in Permit
      BY <2>1, <2>2, PermitFields
    <2>4. delivery[d].row \in SUBSET Rows
      BY DeliveryFields
    <2>5. permit' = [r \in Rows |-> IF r \in delivery[d].row
                       THEN [permit[r] EXCEPT !.status = NewStatus(d), !.number = has]
                       ELSE permit[r]]
      BY <1>3 DEF UpdatePermit
    <2> HIDE DEF has
    <2>6. permit' \in [Rows -> Permit]
      BY <2>3, <2>5
    <2>7. approvedOnce' \in SUBSET Rows /\ touched' \in SUBSET Rows
      BY <1>0, <1>3, <2>4 DEF UpdatePermit
    <2> QED BY <2>6, <2>7
  <1> QED BY PermitWrites, <1>0, <1>1, <1>2, <1>3

\* A request between two statements keeps its type.
LEMMA TypeJob ==
  ASSUME TypeOK, Next
  PROVE  job' \in [Officers -> Job]
  <1>0. job \in [Officers -> Job] /\ Present \subseteq Rows /\ decl \in Clearance
    BY DEF TypeOK, Present
  <1>1. Idle \in Job
    BY DEF Idle, Job, Clearance
  <1>2. CASE job' = job
    BY <1>0, <1>2
  <1>3. ASSUME NEW o \in Officers,
               \/ \E rows \in SUBSET Present : BulkSelect(o, rows)
               \/ BulkWrite(o) \/ BulkReadDeclaration(o) \/ BulkReadPermits(o)
               \/ GateRead(o) \/ GateCheck(o) \/ Clear(o) \/ JobFails(o)
        PROVE  job' \in [Officers -> Job]
    <2>1. job[o] \in Job
      BY <1>0
    <2>2. \A a \in {"idle", "selected", "approved", "copied", "gate", "clear"},
             rows \in SUBSET Rows, c \in Clearance :
            /\ [job[o] EXCEPT !.at = a, !.rows = rows] \in Job
            /\ [job[o] EXCEPT !.at = a, !.copy = c] \in Job
            /\ [job[o] EXCEPT !.at = a] \in Job
      BY <2>1 DEF Job
    <2>3. CASE \E rows \in SUBSET Present : BulkSelect(o, rows)
      <3>1. PICK rows \in SUBSET Present : BulkSelect(o, rows)
        BY <2>3
      <3> DEFINE eligible == {r \in rows : permit[r].status \in Decidable}
      <3>2. eligible \in SUBSET Rows
        BY <1>0
      <3>3. job' = [job EXCEPT ![o].at = "selected", ![o].rows = eligible]
        BY <3>1 DEF BulkSelect
      <3> HIDE DEF eligible
      <3>4. job' = [job EXCEPT ![o] = [job[o] EXCEPT !.at = "selected", !.rows = eligible]]
        BY <1>0, <3>3
      <3> QED BY <1>0, <2>2, <3>2, <3>4
    <2>4. CASE BulkWrite(o)
      <3>1. job' = [job EXCEPT ![o] = [job[o] EXCEPT !.at = "approved"]]
        BY <1>0, <2>4 DEF BulkWrite
      <3> QED BY <1>0, <2>2, <3>1
    <2>5. CASE BulkReadDeclaration(o)
      <3>1. job' = [job EXCEPT ![o] = [job[o] EXCEPT !.at = "copied", !.copy = decl]]
        BY <1>0, <2>5 DEF BulkReadDeclaration
      <3> QED BY <1>0, <2>2, <3>1
    <2>6. CASE BulkReadPermits(o) \/ GateCheck(o)
      <3>1. \/ job' = [job EXCEPT ![o] = [job[o] EXCEPT !.at = "clear", !.rows = Present]]
            \/ job' = [job EXCEPT ![o] = Idle]
        BY <1>0, <2>6 DEF BulkReadPermits, GateCheck
      <3>2. [job[o] EXCEPT !.at = "clear", !.rows = Present] \in Job
        BY <1>0, <2>2
      <3>3. CASE job' = [job EXCEPT ![o] = [job[o] EXCEPT !.at = "clear", !.rows = Present]]
        <4> DEFINE j == [job[o] EXCEPT !.at = "clear", !.rows = Present]
        <4>1. j \in Job /\ job' = [job EXCEPT ![o] = j]
          BY <3>2, <3>3
        <4> HIDE DEF j
        <4> QED BY <1>0, <4>1
      <3>4. CASE job' = [job EXCEPT ![o] = Idle]
        BY <1>0, <1>1, <3>4
      <3> QED BY <3>1, <3>3, <3>4
    <2>7. CASE GateRead(o)
      <3>1. job' = [job EXCEPT ![o] = [job[o] EXCEPT !.at = "gate"]]
        BY <1>0, <2>7 DEF GateRead
      <3> QED BY <1>0, <2>2, <3>1
    <2>8. CASE Clear(o) \/ JobFails(o)
      <3>1. job' = [job EXCEPT ![o] = Idle]
        BY <2>8 DEF Clear, JobFails
      <3> QED BY <1>0, <1>1, <3>1
    <2> QED BY <1>3, <2>3, <2>4, <2>5, <2>6, <2>7, <2>8
  <1>4. ASSUME NEW d \in Deliveries,
               \/ Send(d) \/ Receive(d) \/ AckDuplicate(d) \/ UpdatePermit(d)
               \/ ReadPermits(d) \/ UpdateDeclaration(d) \/ HandlerFails(d)
        PROVE  job' = job
    BY <1>4 DEF Send, Receive, AckDuplicate, UpdatePermit, ReadPermits,
                UpdateDeclaration, HandlerFails
  <1>5. ASSUME NEW r \in Rows, CreateOgaPermit(r) \/ Expire(r) \/ Approve(r) \/ Reject(r)
        PROVE  job' = job
    BY <1>5 DEF CreateOgaPermit, Expire, Approve, Reject
  <1>6. ASSUME NEW rows, BulkReject(rows) \/ BulkApprovePermits(rows)
        PROVE  job' = job
    BY <1>6 DEF BulkReject, BulkApprovePermits
  <1>7. CASE CreateForDeclaration
    BY <1>0, <1>7 DEF CreateForDeclaration
  <1> QED BY StepCases, <1>2, <1>3, <1>4, <1>5, <1>6, <1>7

At == {"unsent", "sent", "found", "written", "clear", "reject", "failed", "done"}

\* What one statement of a callback's handler does to the handler.
HandlerStep(d) ==
  \E a \in At, row \in SUBSET Rows, n \in BOOLEAN, seen \in SUBSET Rows :
    delivery' = [delivery EXCEPT ![d] =
      [delivery[d] EXCEPT !.at = a, !.row = row, !.number = n, !.seen = seen]]

LEMMA HandlerSteps ==
  ASSUME TypeOK, NEW d \in Deliveries,
         \/ Send(d) \/ Receive(d) \/ AckDuplicate(d) \/ UpdatePermit(d)
         \/ ReadPermits(d) \/ UpdateDeclaration(d) \/ HandlerFails(d)
  PROVE  HandlerStep(d)
  <1>0. /\ delivery \in [Deliveries -> Delivery] /\ delivery[d] \in Delivery
        /\ Present \in SUBSET Rows
    BY DEF TypeOK, Present
  <1>1. /\ delivery[d].at \in At /\ delivery[d].row \in SUBSET Rows
        /\ delivery[d].number \in BOOLEAN /\ delivery[d].seen \in SUBSET Rows
    BY <1>0 DEF Delivery, At
  <1>2. ASSUME NEW a \in At, delivery' = [delivery EXCEPT ![d].at = a]
        PROVE  HandlerStep(d)
    <2>1. delivery' = [delivery EXCEPT ![d] =
            [delivery[d] EXCEPT !.at = a, !.row = delivery[d].row,
                                !.number = delivery[d].number, !.seen = delivery[d].seen]]
      BY <1>0, <1>2 DEF Delivery
    <2> QED BY <1>1, <2>1 DEF HandlerStep
  <1>3. CASE Send(d) \/ UpdatePermit(d) \/ UpdateDeclaration(d) \/ HandlerFails(d)
    BY <1>2, <1>3 DEF Send, UpdatePermit, UpdateDeclaration, HandlerFails, At
  <1>4. CASE AckDuplicate(d)
    <2>1. PICK a \in {delivery[d].at, "done"} : delivery' = [delivery EXCEPT ![d].at = a]
      BY <1>0, <1>4 DEF AckDuplicate
    <2> QED BY <1>1, <1>2, <2>1 DEF At
  <1>5. CASE Receive(d)
    <2>1. CASE delivery' = [delivery EXCEPT ![d].at = "failed"]
      BY <1>2, <2>1 DEF At
    <2>2. CASE \E r \in Rows : delivery' = [delivery EXCEPT ![d].at = "found",
                                      ![d].row = {r}, ![d].number = permit[r].number]
      <3>1. PICK r \in Rows : delivery' = [delivery EXCEPT ![d].at = "found",
                                     ![d].row = {r}, ![d].number = permit[r].number]
        BY <2>2
      <3>2. delivery' = [delivery EXCEPT ![d] =
              [delivery[d] EXCEPT !.at = "found", !.row = {r},
                                  !.number = permit[r].number, !.seen = delivery[d].seen]]
        BY <1>0, <3>1 DEF Delivery
      <3>3. permit[r].number \in BOOLEAN /\ {r} \in SUBSET Rows /\ "found" \in At
        BY DEF TypeOK, Permit, At
      <3> QED BY <1>1, <3>2, <3>3 DEF HandlerStep
    <2> QED BY <1>0, <1>5, <2>1, <2>2 DEF Receive
  <1>6. CASE ReadPermits(d)
    <2>1. CASE delivery' = [delivery EXCEPT ![d].at = "clear", ![d].seen = Present]
      <3>1. delivery' = [delivery EXCEPT ![d] =
              [delivery[d] EXCEPT !.at = "clear", !.row = delivery[d].row,
                                  !.number = delivery[d].number, !.seen = Present]]
        BY <1>0, <2>1 DEF Delivery
      <3>2. "clear" \in At
        BY DEF At
      <3> QED BY <1>0, <1>1, <3>1, <3>2 DEF HandlerStep
    <2>2. CASE \/ delivery' = [delivery EXCEPT ![d].at = "reject"]
               \/ delivery' = [delivery EXCEPT ![d].at = "done"]
      BY <1>2, <2>2 DEF At
    <2> QED BY <1>6, <2>1, <2>2 DEF ReadPermits
  <1> QED BY <1>3, <1>4, <1>5, <1>6

LEMMA TypeDelivery ==
  ASSUME TypeOK, Next
  PROVE  /\ delivery' \in [Deliveries -> Delivery]
         /\ receipts' \in SUBSET Deliveries
         /\ acked' \in SUBSET Deliveries
         /\ applied' \in [Deliveries -> Nat]
  <1> USE DEF handlers
  <1>0. /\ delivery \in [Deliveries -> Delivery] /\ receipts \in SUBSET Deliveries
        /\ acked \in SUBSET Deliveries /\ applied \in [Deliveries -> Nat]
    BY DEF TypeOK
  <1>1. CASE UNCHANGED handlers
    BY <1>0, <1>1
  <1>2. ASSUME NEW d \in Deliveries,
               \/ Send(d) \/ Receive(d) \/ AckDuplicate(d) \/ UpdatePermit(d)
               \/ ReadPermits(d) \/ UpdateDeclaration(d) \/ HandlerFails(d)
        PROVE  /\ delivery' \in [Deliveries -> Delivery]
               /\ receipts' \in SUBSET Deliveries
               /\ acked' \in SUBSET Deliveries
               /\ applied' \in [Deliveries -> Nat]
    <2>1. HandlerStep(d)
      BY <1>2, HandlerSteps
    <2>2. PICK a \in At, row \in SUBSET Rows, n \in BOOLEAN, seen \in SUBSET Rows :
            delivery' = [delivery EXCEPT ![d] =
              [delivery[d] EXCEPT !.at = a, !.row = row, !.number = n, !.seen = seen]]
      BY <2>1 DEF HandlerStep
    <2>3. [delivery[d] EXCEPT !.at = a, !.row = row, !.number = n, !.seen = seen] \in Delivery
      BY <1>0 DEF Delivery, At
    <2>4. delivery' \in [Deliveries -> Delivery]
      BY <1>0, <2>2, <2>3
    <2>5. receipts' \in SUBSET Deliveries /\ acked' \in SUBSET Deliveries
      BY <1>0, <1>2 DEF Send, Receive, AckDuplicate, UpdatePermit, ReadPermits,
                        UpdateDeclaration, HandlerFails, FirstDelivery
    <2>6. applied' = applied \/ applied' = [applied EXCEPT ![d] = applied[d] + 1]
      BY <1>2 DEF Send, Receive, AckDuplicate, UpdatePermit, ReadPermits,
                  UpdateDeclaration, HandlerFails
    <2>7. applied' \in [Deliveries -> Nat]
      BY <1>0, <2>6
    <2> QED BY <2>4, <2>5, <2>7
  <1>3. ASSUME NEW o \in Officers,
               \/ \E rows \in SUBSET Present : BulkSelect(o, rows)
               \/ BulkWrite(o) \/ BulkReadDeclaration(o) \/ BulkReadPermits(o)
               \/ GateRead(o) \/ GateCheck(o) \/ Clear(o) \/ JobFails(o)
        PROVE  UNCHANGED handlers
    BY <1>3 DEF BulkSelect, BulkWrite, BulkReadDeclaration, BulkReadPermits, GateRead,
                GateCheck, Clear, JobFails
  <1>4. ASSUME NEW r \in Rows, CreateOgaPermit(r) \/ Expire(r) \/ Approve(r) \/ Reject(r)
        PROVE  UNCHANGED handlers
    BY <1>4 DEF CreateOgaPermit, Expire, Approve, Reject
  <1>5. ASSUME NEW rows, BulkReject(rows) \/ BulkApprovePermits(rows)
        PROVE  UNCHANGED handlers
    BY <1>5 DEF BulkReject, BulkApprovePermits
  <1>6. CASE CreateForDeclaration
    BY <1>1, <1>6 DEF CreateForDeclaration
  <1> QED BY StepCases, <1>1, <1>2, <1>3, <1>4, <1>5, <1>6

LEMMA TypeDeclaration ==
  ASSUME TypeOK, Next
  PROVE  /\ rounds' \in 0..MaxRounds
         /\ decl' \in Clearance
         /\ clearedOver' \in SUBSET Rows
  <1> USE DEF history
  <1>0. /\ rounds \in 0..MaxRounds /\ decl \in Clearance /\ clearedOver \in SUBSET Rows
    BY DEF TypeOK
  <1>1. CASE UNCHANGED <<rounds, decl, clearedOver>>
    BY <1>0, <1>1
  <1>2. CASE CreateForDeclaration
    BY <1>0, <1>2, PermitAssumption DEF CreateForDeclaration
  <1>3. ASSUME NEW r \in Rows, CreateOgaPermit(r) \/ Expire(r) \/ Approve(r) \/ Reject(r)
        PROVE  UNCHANGED <<rounds, decl, clearedOver>>
    BY <1>3 DEF CreateOgaPermit, Expire, Approve, Reject
  <1>4. ASSUME NEW rows, BulkReject(rows) \/ BulkApprovePermits(rows)
        PROVE  UNCHANGED <<rounds, decl, clearedOver>>
    BY <1>4 DEF BulkReject, BulkApprovePermits
  <1>5. ASSUME NEW o \in Officers,
               \/ \E rows \in SUBSET Present : BulkSelect(o, rows)
               \/ BulkWrite(o) \/ BulkReadDeclaration(o) \/ BulkReadPermits(o)
               \/ GateRead(o) \/ GateCheck(o) \/ JobFails(o)
        PROVE  UNCHANGED <<rounds, decl, clearedOver>>
    BY <1>5 DEF BulkSelect, BulkWrite, BulkReadDeclaration, BulkReadPermits, GateRead,
                GateCheck, JobFails
  <1>6. ASSUME NEW o \in Officers, Clear(o)
        PROVE  rounds' = rounds /\ decl' \in Clearance /\ clearedOver' \in SUBSET Rows
    BY <1>6 DEF Clear, TypeOK, Job, Clearance
  <1>7. ASSUME NEW d \in Deliveries,
               \/ Send(d) \/ Receive(d) \/ AckDuplicate(d) \/ UpdatePermit(d)
               \/ ReadPermits(d) \/ HandlerFails(d)
        PROVE  UNCHANGED <<rounds, decl, clearedOver>>
    BY <1>7 DEF Send, Receive, AckDuplicate, UpdatePermit, ReadPermits, HandlerFails
  <1>8. ASSUME NEW d \in Deliveries, UpdateDeclaration(d)
        PROVE  rounds' = rounds /\ decl' \in Clearance /\ clearedOver' \in SUBSET Rows
    BY <1>0, <1>8, DeliveryFields DEF UpdateDeclaration, Clearance
  <1> QED BY StepCases, <1>0, <1>1, <1>2, <1>3, <1>4, <1>5, <1>6, <1>7, <1>8

LEMMA TypeStep == TypeOK /\ [Next]_vars => TypeOK'
  <1>1. ASSUME TypeOK, Next PROVE TypeOK'
    BY <1>1, TypePermit, TypeJob, TypeDelivery, TypeDeclaration DEF TypeOK
  <1>2. ASSUME TypeOK, UNCHANGED vars PROVE TypeOK'
    BY <1>2 DEF TypeOK, vars
  <1> QED BY <1>1, <1>2

\* Every state of the table, the declaration, the handlers and the requests is
\* of its type, for any agencies, deliveries and officers.
THEOREM TypeCorrect == Spec => []TypeOK
  <1> QED BY TypeInit, TypeStep, PTL DEF Spec

-----------------------------------------------------------------------------
(* Decisions.                                                              *)

FinalStep == \A r \in Rows :
  permit[r].status \in Decided /\ r \notin touched' => permit'[r].status = permit[r].status

LEMMA FinalNext ==
  ASSUME TypeOK, Next
  PROVE  FinalStep /\ touched \subseteq touched' /\ approvedOnce \subseteq approvedOnce'
  <1> USE DEF history
  <1>0. permit \in [Rows -> Permit]
    BY DEF TypeOK
  <1>1. ASSUME NEW q \in Rows, CreateOgaPermit(q) \/ Expire(q) \/ Approve(q) \/ Reject(q)
        PROVE  FinalStep /\ touched \subseteq touched' /\ approvedOnce \subseteq approvedOnce'
    <2>1. touched \subseteq touched' /\ approvedOnce \subseteq approvedOnce'
      BY <1>1 DEF CreateOgaPermit, Expire, Approve, Reject
    <2>2. CASE CreateOgaPermit(q)
      BY <1>0, <2>2 DEF CreateOgaPermit, FinalStep, Decided
    <2>3. CASE Expire(q)
      <3>1. [permit[q] EXCEPT !.expiry = "lapsed"].status = permit[q].status
        BY PermitFields
      <3>2. permit' = [permit EXCEPT ![q] = [permit[q] EXCEPT !.expiry = "lapsed"]]
        BY <1>0, <2>3 DEF Expire
      <3> QED BY <1>0, <2>1, <3>1, <3>2 DEF FinalStep
    <2>4. CASE Approve(q) \/ Reject(q)
      <3>1. /\ permit[q].status \notin Decided
            /\ \E p : permit' = [permit EXCEPT ![q] = p]
        BY <2>4 DEF Approve, Reject, TransitionOgaPermit, Decidable, Decided
      <3> QED BY <1>0, <2>1, <3>1 DEF FinalStep
    <2> QED BY <1>1, <2>1, <2>2, <2>3, <2>4
  <1>2. ASSUME NEW rows \in SUBSET Rows, NEW to \in {"approved", "rejected"},
               WriteStatus(rows, to)
        PROVE  FinalStep /\ touched \subseteq touched' /\ approvedOnce \subseteq approvedOnce'
    BY <1>0, <1>2 DEF WriteStatus, FinalStep
  <1>3. ASSUME NEW d \in Deliveries, UpdatePermit(d)
        PROVE  FinalStep /\ touched \subseteq touched' /\ approvedOnce \subseteq approvedOnce'
    BY <1>0, <1>3 DEF UpdatePermit, FinalStep
  <1>4. CASE UNCHANGED <<permit, approvedOnce, touched>>
    BY <1>4 DEF FinalStep
  <1> QED BY PermitWrites, <1>1, <1>2, <1>3, <1>4

\* The decision of a permit changes only by a writer that does not test the
\* status: for any number of officers and agencies, approve and reject cannot
\* both succeed on one row.
THEOREM DecisionsAreFinal == Spec => DecidedIsFinal
  <1>1. TypeOK /\ [Next]_vars => [FinalStep]_vars
    BY FinalNext
  <1>2. [FinalStep]_vars => [\A r \in Rows :
          permit[r].status \in Decided /\ r \notin touched' =>
            permit'[r].status = permit[r].status]_vars
    BY DEF FinalStep
  <1> QED BY TypeCorrect, <1>1, <1>2, PTL DEF Spec, DecidedIsFinal

-----------------------------------------------------------------------------
(* Clearances.                                                             *)

\* No writer waives a permit, and an approved one was recorded as such.
Recorded == \A r \in Rows :
  /\ permit[r].status # "not_required"
  /\ permit[r].status = "approved" => r \in approvedOnce

\* What a clearance may be decided on.
Backed(r) == r \in approvedOnce /\ (r \notin touched => permit[r].status = "approved")

OwnBacked == \A d \in Deliveries :
  delivery[d].at = "written" /\ NewStatus(d) = "approved" =>
    delivery[d].row \subseteq approvedOnce \cap touched

PendingBacked ==
  /\ \A d \in Deliveries : delivery[d].at = "clear" => \A r \in delivery[d].seen : Backed(r)
  /\ \A o \in Officers : job[o].at = "clear" => \A r \in job[o].rows : Backed(r)

ClearanceInv == Recorded /\ OwnBacked /\ PendingBacked /\ ClearanceBacked

LEMMA RecordedStep ==
  ASSUME TypeOK, Recorded, Next
  PROVE  Recorded'
  <1> USE DEF history
  <1>0. permit \in [Rows -> Permit]
    BY DEF TypeOK
  <1>1. ASSUME NEW q \in Rows, CreateOgaPermit(q) \/ Expire(q) \/ Approve(q) \/ Reject(q)
        PROVE  Recorded'
    <2>1. CASE CreateOgaPermit(q)
      <3>1. [permit[q] EXCEPT !.status = "pending"].status = "pending"
        BY PermitFields DEF PermitStatus
      <3>2. permit' = [permit EXCEPT ![q] = [permit[q] EXCEPT !.status = "pending"]]
        BY <1>0, <2>1 DEF CreateOgaPermit
      <3>3. approvedOnce' = approvedOnce
        BY <2>1 DEF CreateOgaPermit
      <3> QED BY <1>0, <3>1, <3>2, <3>3 DEF Recorded
    <2>2. CASE Expire(q)
      <3>1. [permit[q] EXCEPT !.expiry = "lapsed"].status = permit[q].status
        BY PermitFields
      <3>2. permit' = [permit EXCEPT ![q] = [permit[q] EXCEPT !.expiry = "lapsed"]]
        BY <1>0, <2>2 DEF Expire
      <3>3. approvedOnce' = approvedOnce
        BY <2>2 DEF Expire
      <3> QED BY <1>0, <3>1, <3>2, <3>3 DEF Recorded
    <2>3. CASE Approve(q)
      <3>1. permit' = [permit EXCEPT ![q] =
              [status |-> "approved", number |-> TRUE, expiry |-> "valid"]]
        BY <2>3 DEF Approve, TransitionOgaPermit
      <3>2. approvedOnce' = approvedOnce \cup {q}
        BY <2>3 DEF Approve
      <3> QED BY <1>0, <3>1, <3>2 DEF Recorded
    <2>4. CASE Reject(q)
      <3>1. [permit[q] EXCEPT !.status = "rejected"].status = "rejected"
        BY PermitFields DEF PermitStatus
      <3>2. permit' = [permit EXCEPT ![q] = [permit[q] EXCEPT !.status = "rejected"]]
        BY <2>4 DEF Reject, TransitionOgaPermit
      <3>3. approvedOnce' = approvedOnce
        BY <2>4 DEF Reject
      <3> QED BY <1>0, <3>1, <3>2, <3>3 DEF Recorded
    <2> QED BY <1>1, <2>1, <2>2, <2>3, <2>4
  <1>2. ASSUME NEW rows \in SUBSET Rows, NEW to \in {"approved", "rejected"},
               WriteStatus(rows, to)
        PROVE  Recorded'
    <2>1. to \in PermitStatus
      BY DEF PermitStatus
    <2>2. \A r \in Rows : [permit[r] EXCEPT !.status = to].status = to
      BY <2>1, PermitFields
    <2> QED BY <1>0, <1>2, <2>2 DEF WriteStatus, Recorded
  <1>3. ASSUME NEW d \in Deliveries, UpdatePermit(d)
        PROVE  Recorded'
    <2> DEFINE has == delivery[d].says.ref \/ delivery[d].number
               s == NewStatus(d)
    <2>1. s \in {"approved", "rejected", "under_review"} /\ s \in PermitStatus
      BY NewStatusType DEF PermitStatus
    <2>2. has \in BOOLEAN
      OBVIOUS
    <2>3. permit' = [r \in Rows |-> IF r \in delivery[d].row
                       THEN [permit[r] EXCEPT !.status = s, !.number = has] ELSE permit[r]]
      BY <1>3 DEF UpdatePermit
    <2>4. approvedOnce' = IF s = "approved" THEN approvedOnce \cup delivery[d].row
                          ELSE approvedOnce
      BY <1>3 DEF UpdatePermit
    <2> HIDE DEF has, s
    <2>5. \A r \in Rows : [permit[r] EXCEPT !.status = s, !.number = has].status = s
      <3>1. \A r \in Rows : permit[r] \in Permit
        BY PermitFields
      <3>2. \A x \in Permit : [x EXCEPT !.status = s, !.number = has].status = s
        BY DEF Permit
      <3> QED BY <3>1, <3>2
    <2>6. \A r \in Rows : \/ r \in delivery[d].row /\ permit'[r].status = s
                          \/ r \notin delivery[d].row /\ permit'[r] = permit[r]
      BY <2>3, <2>5
    <2> HIDE <2>3
    <2> QED BY <1>0, <2>1, <2>4, <2>6 DEF Recorded
  <1>4. CASE UNCHANGED <<permit, approvedOnce, touched>>
    BY <1>4 DEF Recorded
  <1> QED BY PermitWrites, <1>1, <1>2, <1>3, <1>4

LEMMA BackedStep ==
  ASSUME TypeOK, Next, NEW r \in Rows, Backed(r)
  PROVE  Backed(r)'
  BY FinalNext DEF Backed, FinalStep, Decided

CallbackStep(d) ==
  \/ Send(d) \/ Receive(d) \/ AckDuplicate(d) \/ UpdatePermit(d)
  \/ ReadPermits(d) \/ UpdateDeclaration(d) \/ HandlerFails(d)

\* When a handler holds a row it has written, or a clearance it will write.
LEMMA HandlerEffect ==
  ASSUME TypeOK, NEW d \in Deliveries, CallbackStep(d)
  PROVE  /\ \A e \in Deliveries : e # d => delivery'[e] = delivery[e]
         /\ delivery'[d].says = delivery[d].says
         /\ delivery'[d].at = "written" =>
              /\ delivery'[d].row = delivery[d].row
              /\ delivery[d].at = "written" \/ UpdatePermit(d)
         /\ delivery'[d].at = "clear" =>
              \/ delivery[d].at = "clear" /\ delivery'[d].seen = delivery[d].seen
              \/ /\ delivery[d].at = "written"
                 /\ AllApproved(d)
                 /\ delivery'[d].seen = Present
                 /\ UNCHANGED <<permit, approvedOnce, touched>>
  <1>0. delivery \in [Deliveries -> Delivery] /\ delivery[d] \in Delivery
    BY DEF TypeOK
  <1>1. CASE Send(d)
    BY <1>0, <1>1 DEF Send, Delivery
  <1>2. CASE Receive(d)
    <2>1. CASE delivery' = [delivery EXCEPT ![d].at = "failed"]
      BY <1>0, <2>1 DEF Delivery
    <2>2. CASE \E r \in Rows : delivery' = [delivery EXCEPT ![d].at = "found",
                                      ![d].row = {r}, ![d].number = permit[r].number]
      <3>1. PICK r \in Rows : delivery' = [delivery EXCEPT ![d].at = "found",
                                     ![d].row = {r}, ![d].number = permit[r].number]
        BY <2>2
      <3>2. delivery'[d].at = "found" /\ delivery'[d].says = delivery[d].says
        BY <1>0, <3>1 DEF Delivery
      <3> QED BY <1>0, <3>1, <3>2
    <2>3. Present \subseteq Rows
      BY DEF Present
    <2> QED BY <1>2, <2>1, <2>2, <2>3 DEF Receive
  <1>3. CASE AckDuplicate(d)
    BY <1>0, <1>3 DEF AckDuplicate, Delivery
  <1>4. CASE UpdatePermit(d)
    <2>1. delivery' = [delivery EXCEPT ![d].at = "written"]
      BY <1>4 DEF UpdatePermit
    <2> QED BY <1>0, <1>4, <2>1 DEF Delivery
  <1>5. CASE ReadPermits(d)
    <2>1. UNCHANGED <<permit, approvedOnce, touched>> /\ delivery[d].at = "written"
      BY <1>5 DEF ReadPermits, history
    <2>2. \/ delivery' = [delivery EXCEPT ![d].at = "reject"]
          \/ /\ AllApproved(d)
             /\ delivery' = [delivery EXCEPT ![d].at = "clear", ![d].seen = Present]
          \/ delivery' = [delivery EXCEPT ![d].at = "done"]
      BY <1>5 DEF ReadPermits
    <2>3. CASE /\ AllApproved(d)
               /\ delivery' = [delivery EXCEPT ![d].at = "clear", ![d].seen = Present]
      <3>1. delivery'[d].at = "clear" /\ delivery'[d].seen = Present
            /\ delivery'[d].says = delivery[d].says
        BY <1>0, <2>3 DEF Delivery
      <3> QED BY <1>0, <2>1, <2>3, <3>1
    <2>4. CASE \/ delivery' = [delivery EXCEPT ![d].at = "reject"]
               \/ delivery' = [delivery EXCEPT ![d].at = "done"]
      BY <1>0, <2>4 DEF Delivery
    <2> QED BY <2>2, <2>3, <2>4
  <1>6. CASE UpdateDeclaration(d)
    BY <1>0, <1>6 DEF UpdateDeclaration, Delivery
  <1>7. CASE HandlerFails(d)
    BY <1>0, <1>7 DEF HandlerFails, Delivery
  <1> QED BY <1>1, <1>2, <1>3, <1>4, <1>5, <1>6, <1>7 DEF CallbackStep

\* The steps that are not a callback's leave the handlers as they are.
LEMMA HandlersKept ==
  ASSUME Next
  PROVE  UNCHANGED <<delivery, receipts, applied>> \/ \E d \in Deliveries : CallbackStep(d)
  <1> USE DEF handlers
  <1>1. ASSUME NEW o \in Officers,
               \/ \E rows \in SUBSET Present : BulkSelect(o, rows)
               \/ BulkWrite(o) \/ BulkReadDeclaration(o) \/ BulkReadPermits(o)
               \/ GateRead(o) \/ GateCheck(o) \/ Clear(o) \/ JobFails(o)
        PROVE  UNCHANGED handlers
    BY <1>1 DEF BulkSelect, BulkWrite, BulkReadDeclaration, BulkReadPermits, GateRead,
                GateCheck, Clear, JobFails
  <1>2. ASSUME NEW r \in Rows, CreateOgaPermit(r) \/ Expire(r) \/ Approve(r) \/ Reject(r)
        PROVE  UNCHANGED handlers
    BY <1>2 DEF CreateOgaPermit, Expire, Approve, Reject
  <1>3. ASSUME NEW rows, BulkReject(rows) \/ BulkApprovePermits(rows)
        PROVE  UNCHANGED handlers
    BY <1>3 DEF BulkReject, BulkApprovePermits
  <1>4. CASE CreateForDeclaration
    BY <1>4 DEF CreateForDeclaration
  <1> QED BY StepCases, <1>1, <1>2, <1>3, <1>4 DEF CallbackStep

LEMMA OwnBackedStep ==
  ASSUME TypeOK, OwnBacked, Next
  PROVE  OwnBacked'
  <1>1. touched \subseteq touched' /\ approvedOnce \subseteq approvedOnce'
    BY FinalNext
  <1>2. CASE delivery' = delivery
    BY <1>1, <1>2 DEF OwnBacked, NewStatus
  <1>3. ASSUME NEW d \in Deliveries, CallbackStep(d)
        PROVE  OwnBacked'
    <2> SUFFICES ASSUME NEW e \in Deliveries, delivery'[e].at = "written",
                        NewStatus(e)' = "approved"
                 PROVE  delivery'[e].row \subseteq approvedOnce' \cap touched'
      BY DEF OwnBacked
    <2>1. delivery'[e].says = delivery[e].says
      BY <1>3, HandlerEffect
    <2>2. NewStatus(e) = "approved"
      BY <2>1 DEF NewStatus
    <2>3. CASE e # d
      <3>1. delivery'[e] = delivery[e]
        BY <1>3, <2>3, HandlerEffect
      <3> QED BY <1>1, <2>2, <3>1 DEF OwnBacked
    <2>4. CASE e = d
      <3>1. /\ delivery'[d].row = delivery[d].row
            /\ delivery[d].at = "written" \/ UpdatePermit(d)
        BY <1>3, <2>4, HandlerEffect
      <3>2. CASE delivery[d].at = "written"
        BY <1>1, <2>2, <2>4, <3>1, <3>2 DEF OwnBacked
      <3>3. CASE UpdatePermit(d)
        <4>1. /\ touched' = touched \cup delivery[d].row
              /\ approvedOnce' = approvedOnce \cup delivery[d].row
          BY <2>2, <2>4, <3>3 DEF UpdatePermit
        <4> QED BY <2>4, <3>1, <4>1
      <3> QED BY <3>1, <3>2, <3>3
    <2> QED BY <2>3, <2>4
  <1> QED BY HandlersKept, <1>2, <1>3

LEMMA HandlersBackedStep ==
  ASSUME TypeOK, ClearanceInv, Next, NEW d \in Deliveries, delivery'[d].at = "clear",
         NEW r \in delivery'[d].seen
  PROVE  Backed(r)'
  <1>1. CASE delivery[d].at = "clear" /\ delivery'[d].seen = delivery[d].seen
    <2>1. r \in Rows /\ Backed(r)
      BY <1>1, DeliveryFields DEF ClearanceInv, PendingBacked
    <2> QED BY <2>1, BackedStep
  <1>2. CASE /\ delivery[d].at = "written" /\ AllApproved(d)
             /\ delivery'[d].seen = Present
             /\ UNCHANGED <<permit, approvedOnce, touched>>
    <2>1. r \in Rows /\ StatusFor(d, r) = "approved"
      BY <1>2 DEF AllApproved, Present
    <2>2. CASE r \in delivery[d].row
      BY <1>2, <2>1, <2>2 DEF StatusFor, Backed, ClearanceInv, OwnBacked
    <2>3. CASE r \notin delivery[d].row
      BY <1>2, <2>1, <2>3 DEF StatusFor, Backed, ClearanceInv, Recorded
    <2> QED BY <2>2, <2>3
  <1>3. CASE delivery' = delivery
    BY <1>1, <1>3
  <1>4. ASSUME NEW e \in Deliveries, CallbackStep(e)
        PROVE  \/ delivery[d].at = "clear" /\ delivery'[d].seen = delivery[d].seen
               \/ /\ delivery[d].at = "written" /\ AllApproved(d)
                  /\ delivery'[d].seen = Present
                  /\ UNCHANGED <<permit, approvedOnce, touched>>
    <2>1. CASE e = d
      BY <1>4, <2>1, HandlerEffect
    <2>2. CASE e # d
      <3>1. delivery'[d] = delivery[d]
        BY <1>4, <2>2, HandlerEffect
      <3> QED BY <3>1
    <2> QED BY <2>1, <2>2
  <1> QED BY HandlersKept, <1>1, <1>2, <1>3, <1>4

LEMMA RequestsBackedStep ==
  ASSUME TypeOK, ClearanceInv, Next, NEW o \in Officers, job'[o].at = "clear",
         NEW r \in job'[o].rows
  PROVE  Backed(r)'
  <1> USE DEF history
  <1>0. job \in [Officers -> Job] /\ Present \subseteq Rows
    BY DEF TypeOK, Present
  <1>1. CASE job[o].at = "clear" /\ job'[o].rows = job[o].rows
    <2>1. r \in Rows /\ Backed(r)
      BY <1>0, <1>1 DEF ClearanceInv, PendingBacked, Job
    <2> QED BY <2>1, BackedStep
  <1>2. ASSUME GateCheck(o)
        PROVE  Backed(r)'
    <2>1. CASE GateOpen /\ job' = [job EXCEPT ![o].at = "clear", ![o].rows = Present]
      <3>1. r \in Present
        BY <1>0, <2>1 DEF Job
      <3>2. permit[r].status = "approved" /\ r \in Rows
        BY <1>0, <2>1, <3>1 DEF GateOpen, Passes, ClearanceInv, Recorded
      <3>3. UNCHANGED <<permit, approvedOnce, touched>>
        BY <1>2 DEF GateCheck
      <3> QED BY <3>2, <3>3 DEF Backed, ClearanceInv, Recorded
    <2>2. CASE job' = [job EXCEPT ![o] = Idle]
      BY <1>0, <2>2 DEF Idle
    <2> QED BY <1>2, <2>1, <2>2 DEF GateCheck
  <1>3. ASSUME BulkReadPermits(o)
        PROVE  Backed(r)'
    <2>1. CASE /\ \A q \in Present : permit[q].status = "approved"
               /\ job' = [job EXCEPT ![o].at = "clear", ![o].rows = Present]
      <3>1. r \in Present
        BY <1>0, <2>1 DEF Job
      <3>2. permit[r].status = "approved" /\ r \in Rows
        BY <1>0, <2>1, <3>1
      <3>3. UNCHANGED <<permit, approvedOnce, touched>>
        BY <1>3 DEF BulkReadPermits
      <3> QED BY <3>2, <3>3 DEF Backed, ClearanceInv, Recorded
    <2>2. CASE job' = [job EXCEPT ![o] = Idle]
      BY <1>0, <2>2 DEF Idle
    <2> QED BY <1>3, <2>1, <2>2 DEF BulkReadPermits
  <1>4. CASE job' = job
    BY <1>1, <1>4
  <1>5. ASSUME NEW p \in Officers, p # o,
               \/ \E rows \in SUBSET Present : BulkSelect(p, rows)
               \/ BulkWrite(p) \/ BulkReadDeclaration(p) \/ BulkReadPermits(p)
               \/ GateRead(p) \/ GateCheck(p) \/ Clear(p) \/ JobFails(p)
        PROVE  job'[o] = job[o]
    BY <1>0, <1>5 DEF BulkSelect, BulkWrite, BulkReadDeclaration, BulkReadPermits, GateRead,
                      GateCheck, Clear, JobFails
  <1>6. ASSUME \/ \E rows \in SUBSET Present : BulkSelect(o, rows)
               \/ BulkWrite(o) \/ BulkReadDeclaration(o)
               \/ GateRead(o) \/ Clear(o) \/ JobFails(o)
        PROVE  job'[o].at # "clear"
    <2>1. CASE \E rows \in SUBSET Present : BulkSelect(o, rows)
      BY <1>0, <2>1 DEF BulkSelect, Job
    <2>2. CASE BulkWrite(o)
      BY <1>0, <2>2 DEF BulkWrite, Job
    <2>3. CASE BulkReadDeclaration(o)
      BY <1>0, <2>3 DEF BulkReadDeclaration, Job
    <2>4. CASE GateRead(o)
      BY <1>0, <2>4 DEF GateRead, Job
    <2>5. CASE Clear(o) \/ JobFails(o)
      BY <1>0, <2>5 DEF Clear, JobFails, Idle
    <2> QED BY <1>6, <2>1, <2>2, <2>3, <2>4, <2>5
  <1>7. ASSUME NEW d \in Deliveries,
               \/ Send(d) \/ Receive(d) \/ AckDuplicate(d) \/ UpdatePermit(d)
               \/ ReadPermits(d) \/ UpdateDeclaration(d) \/ HandlerFails(d)
        PROVE  job' = job
    BY <1>7 DEF Send, Receive, AckDuplicate, UpdatePermit, ReadPermits,
                UpdateDeclaration, HandlerFails
  <1>8. ASSUME NEW q \in Rows, CreateOgaPermit(q) \/ Expire(q) \/ Approve(q) \/ Reject(q)
        PROVE  job' = job
    BY <1>8 DEF CreateOgaPermit, Expire, Approve, Reject
  <1>9. ASSUME NEW rows, BulkReject(rows) \/ BulkApprovePermits(rows)
        PROVE  job' = job
    BY <1>9 DEF BulkReject, BulkApprovePermits
  <1>10. CASE CreateForDeclaration
    BY <1>4, <1>10 DEF CreateForDeclaration
  <1>11. ASSUME job'[o] = job[o]
         PROVE  Backed(r)'
    BY <1>1, <1>11
  <1> QED BY StepCases, <1>2, <1>3, <1>4, <1>5, <1>6, <1>7, <1>8, <1>9, <1>10, <1>11

\* What the declaration's last clearance was decided on.
LEMMA ClearedEffect ==
  ASSUME Next
  PROVE  \/ decl' # "cleared"
         \/ UNCHANGED <<decl, clearedOver>>
         \/ \E o \in Officers : job[o].at = "clear" /\ clearedOver' = job[o].rows
         \/ \E d \in Deliveries : delivery[d].at = "clear" /\ clearedOver' = delivery[d].seen
  <1> USE DEF history
  <1>1. CASE CreateForDeclaration
    BY <1>1 DEF CreateForDeclaration
  <1>2. ASSUME NEW r \in Rows, CreateOgaPermit(r) \/ Expire(r) \/ Approve(r) \/ Reject(r)
        PROVE  UNCHANGED <<decl, clearedOver>>
    BY <1>2 DEF CreateOgaPermit, Expire, Approve, Reject
  <1>3. ASSUME NEW rows, BulkReject(rows) \/ BulkApprovePermits(rows)
        PROVE  UNCHANGED <<decl, clearedOver>>
    BY <1>3 DEF BulkReject, BulkApprovePermits
  <1>4. ASSUME NEW o \in Officers,
               \/ \E rows \in SUBSET Present : BulkSelect(o, rows)
               \/ BulkWrite(o) \/ BulkReadDeclaration(o) \/ BulkReadPermits(o)
               \/ GateRead(o) \/ GateCheck(o) \/ JobFails(o)
        PROVE  UNCHANGED <<decl, clearedOver>>
    BY <1>4 DEF BulkSelect, BulkWrite, BulkReadDeclaration, BulkReadPermits, GateRead,
                GateCheck, JobFails
  <1>5. ASSUME NEW o \in Officers, Clear(o)
        PROVE  job[o].at = "clear" /\ clearedOver' = job[o].rows
    BY <1>5 DEF Clear
  <1>6. ASSUME NEW d \in Deliveries,
               \/ Send(d) \/ Receive(d) \/ AckDuplicate(d) \/ UpdatePermit(d)
               \/ ReadPermits(d) \/ HandlerFails(d)
        PROVE  UNCHANGED <<decl, clearedOver>>
    BY <1>6 DEF Send, Receive, AckDuplicate, UpdatePermit, ReadPermits, HandlerFails
  <1>7. ASSUME NEW d \in Deliveries, UpdateDeclaration(d)
        PROVE  \/ decl' # "cleared"
               \/ delivery[d].at = "clear" /\ clearedOver' = delivery[d].seen
    BY <1>7 DEF UpdateDeclaration
  <1> QED BY StepCases, <1>1, <1>2, <1>3, <1>4, <1>5, <1>6, <1>7

LEMMA ClearanceBackedStep ==
  ASSUME TypeOK, ClearanceInv, Next
  PROVE  ClearanceBacked'
  <1> SUFFICES ASSUME decl' = "cleared", NEW r \in clearedOver'
               PROVE  Backed(r)'
    BY DEF ClearanceBacked, Backed
  <1>1. r \in Rows /\ Backed(r)
    <2>1. CASE UNCHANGED <<decl, clearedOver>>
      BY <2>1 DEF ClearanceInv, ClearanceBacked, Backed, TypeOK
    <2>2. ASSUME NEW o \in Officers, job[o].at = "clear", clearedOver' = job[o].rows
          PROVE  r \in Rows /\ Backed(r)
      BY <2>2 DEF ClearanceInv, PendingBacked, TypeOK, Job
    <2>3. ASSUME NEW d \in Deliveries, delivery[d].at = "clear",
                 clearedOver' = delivery[d].seen
          PROVE  r \in Rows /\ Backed(r)
      BY <2>3, DeliveryFields DEF ClearanceInv, PendingBacked
    <2> QED BY ClearedEffect, <2>1, <2>2, <2>3
  <1> QED BY <1>1, BackedStep

LEMMA ClearanceInit == Init => ClearanceInv
  <1> SUFFICES ASSUME Init PROVE ClearanceInv
    OBVIOUS
  <1>1. \A d \in Deliveries : delivery[d].at = "unsent"
    <2>1. PICK says \in [Deliveries -> Payloads] :
            delivery = [d \in Deliveries |->
              [at |-> "unsent", says |-> says[d], row |-> {}, number |-> FALSE, seen |-> {}]]
      BY DEF Init
    <2> QED BY <2>1
  <1>2. Recorded
    BY DEF Init, Absent, Recorded
  <1>3. OwnBacked
    BY <1>1 DEF OwnBacked
  <1>4. PendingBacked
    BY <1>1 DEF Init, PendingBacked, Idle
  <1>5. ClearanceBacked
    BY DEF Init, ClearanceBacked
  <1> QED BY <1>2, <1>3, <1>4, <1>5 DEF ClearanceInv

LEMMA ClearanceStep == TypeOK /\ ClearanceInv /\ [Next]_vars => ClearanceInv'
  <1>1. ASSUME TypeOK, ClearanceInv, Next PROVE ClearanceInv'
    <2>1. Recorded'
      BY <1>1, RecordedStep DEF ClearanceInv
    <2>2. OwnBacked'
      BY <1>1, OwnBackedStep DEF ClearanceInv
    <2>3. PendingBacked'
      <3>1. \A d \in Deliveries : delivery'[d].at = "clear" =>
              \A r \in delivery'[d].seen : Backed(r)'
        BY <1>1, HandlersBackedStep
      <3>2. \A o \in Officers : job'[o].at = "clear" => \A r \in job'[o].rows : Backed(r)'
        BY <1>1, RequestsBackedStep
      <3> QED BY <3>1, <3>2 DEF PendingBacked
    <2>4. ClearanceBacked'
      BY <1>1, ClearanceBackedStep
    <2> QED BY <2>1, <2>2, <2>3, <2>4 DEF ClearanceInv
  <1>2. ASSUME ClearanceInv, UNCHANGED vars PROVE ClearanceInv'
    BY <1>2 DEF vars, ClearanceInv, Recorded, OwnBacked, PendingBacked, ClearanceBacked,
                Backed, NewStatus
  <1> QED BY <1>1, <1>2

\* Whatever the interleaving, each permit a clearance was decided on had been
\* approved, and one that only the guarded procedures wrote is approved still.
THEOREM ClearancesAreBacked == Spec => []ClearanceBacked
  <1>1. ClearanceInv => ClearanceBacked
    BY DEF ClearanceInv
  <1> QED BY TypeCorrect, ClearanceInit, ClearanceStep, <1>1, PTL DEF Spec

-----------------------------------------------------------------------------
(* Callbacks.                                                              *)

\* A handler that has yet to write holds its receipt and has not written.
ReceiptInv == \A d \in Deliveries :
  /\ applied[d] <= 1
  /\ delivery[d].at = "found" => applied[d] = 0
  /\ d \notin receipts => applied[d] = 0 /\ delivery[d].at # "found"

LEMMA ReceiptStep == TypeOK /\ ReceiptInv /\ [Next]_vars => ReceiptInv'
  <1> SUFFICES ASSUME TypeOK, ReceiptInv, [Next]_vars
               PROVE  ReceiptInv'
    OBVIOUS
  <1>0. /\ delivery \in [Deliveries -> Delivery] /\ applied \in [Deliveries -> Nat]
        /\ receipts \in SUBSET Deliveries
    BY DEF TypeOK
  <1>1. CASE UNCHANGED <<delivery, receipts, applied>>
    BY <1>1 DEF ReceiptInv
  <1>2. ASSUME NEW d \in Deliveries, CallbackStep(d)
        PROVE  ReceiptInv'
    <2> SUFFICES ASSUME NEW e \in Deliveries
                 PROVE  /\ applied'[e] <= 1
                        /\ delivery'[e].at = "found" => applied'[e] = 0
                        /\ e \notin receipts' => applied'[e] = 0 /\ delivery'[e].at # "found"
      BY DEF ReceiptInv
    <2>0. delivery[d] \in Delivery
      BY <1>0
    <2>1. CASE Send(d)
      BY <1>0, <2>0, <2>1 DEF Send, ReceiptInv, Delivery
    <2>2. CASE Receive(d)
      <3>1. applied' = applied /\ applied[d] = 0 /\ receipts' = receipts \cup {d}
        BY <2>2 DEF Receive, FirstDelivery, ReceiptInv
      <3>2. e # d => delivery'[e] = delivery[e]
        BY <1>2, HandlerEffect
      <3>3. e # d => (e \in receipts <=> e \in receipts')
        BY <3>1
      <3>4. e = d => applied'[e] = 0 /\ e \in receipts'
        BY <3>1
      <3> QED BY <3>1, <3>2, <3>3, <3>4 DEF ReceiptInv
    <2>3. CASE AckDuplicate(d)
      BY <1>0, <2>0, <2>3 DEF AckDuplicate, ReceiptInv, Delivery
    <2>4. CASE UpdatePermit(d)
      <3>1. /\ applied' = [applied EXCEPT ![d] = applied[d] + 1]
            /\ receipts' = receipts /\ delivery[d].at = "found"
            /\ delivery' = [delivery EXCEPT ![d].at = "written"]
        BY <2>4 DEF UpdatePermit
      <3>2. applied[d] = 0 /\ d \in receipts
        BY <3>1 DEF ReceiptInv
      <3>3. delivery'[d].at = "written" /\ applied'[d] = 1
        BY <1>0, <2>0, <3>1, <3>2 DEF Delivery
      <3>4. e # d => delivery'[e] = delivery[e] /\ applied'[e] = applied[e]
        BY <1>0, <3>1
      <3> QED BY <3>1, <3>2, <3>3, <3>4 DEF ReceiptInv
    <2>5. CASE ReadPermits(d)
      <3>1. UNCHANGED <<applied, receipts>> /\ delivery[d].at = "written"
        BY <2>5 DEF ReadPermits
      <3>2. delivery'[d].at # "found"
        <4>1. CASE delivery' = [delivery EXCEPT ![d].at = "clear", ![d].seen = Present]
          BY <1>0, <4>1 DEF Delivery
        <4>2. CASE \/ delivery' = [delivery EXCEPT ![d].at = "reject"]
                   \/ delivery' = [delivery EXCEPT ![d].at = "done"]
          BY <1>0, <4>2 DEF Delivery
        <4> QED BY <2>5, <4>1, <4>2 DEF ReadPermits
      <3>3. e # d => delivery'[e] = delivery[e]
        BY <1>2, HandlerEffect
      <3> QED BY <3>1, <3>2, <3>3 DEF ReceiptInv
    <2>6. CASE UpdateDeclaration(d)
      BY <1>0, <2>0, <2>6 DEF UpdateDeclaration, ReceiptInv, Delivery
    <2>7. CASE HandlerFails(d)
      BY <1>0, <2>0, <2>7 DEF HandlerFails, ReceiptInv, Delivery
    <2> QED BY <1>2, <2>1, <2>2, <2>3, <2>4, <2>5, <2>6, <2>7 DEF CallbackStep
  <1>3. CASE UNCHANGED vars
    BY <1>1, <1>3 DEF vars
  <1> QED BY HandlersKept, <1>1, <1>2, <1>3

LEMMA ReceiptInit == Init => ReceiptInv
  <1> SUFFICES ASSUME Init PROVE ReceiptInv
    OBVIOUS
  <1>1. PICK says \in [Deliveries -> Payloads] :
          delivery = [d \in Deliveries |->
            [at |-> "unsent", says |-> says[d], row |-> {}, number |-> FALSE, seen |-> {}]]
    BY DEF Init
  <1>2. \A d \in Deliveries : delivery[d].at = "unsent"
    BY <1>1
  <1> QED BY <1>2 DEF Init, ReceiptInv

\* However often a callback is delivered and its handler fails, it is written to
\* a permit at most once.
THEOREM CallbacksApplyOnce == Spec => []AppliedOnce
  <1>1. ReceiptInv => AppliedOnce
    BY DEF ReceiptInv, AppliedOnce
  <1> QED BY TypeCorrect, ReceiptInit, ReceiptStep, <1>1, PTL DEF Spec
=============================================================================
