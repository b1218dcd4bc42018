--------------------- MODULE DeclarationLifecycle_proofs ---------------------
(***************************************************************************)
(* Type correctness of DeclarationLifecycle; what holds with every entry   *)
(* point in use and however requests overlap (ClearanceIsEarned,           *)
(* ClearedWasAssessed, ReviewHadExamination, StatusFollowsTable); and what *)
(* holds when they do not: TerminalUnlessUnasked and, when Orderly,        *)
(* HoldDischarged and ReviewRecorded.                                      *)
(***************************************************************************)
EXTENDS DeclarationLifecycle, TLAPS

\* A step of one request, or of a writer that asks nobody.
LEMMA StepCases ==
  ASSUME Next
  PROVE  \/ \E c \in Calls :
              \/ \E op \in EntryPoints, to \in Status : Begin(c, op, to)
              \/ Refuse(c)
              \/ Submit(c) \/ AssessDuty(c) \/ UpdateStatus(c) \/ Cancel(c) \/ Initiate(c)
              \/ EngineSubmit(c) \/ EngineAssess(c) \/ EngineSetsStatus(c)
              \/ BulkApprove(c)
         \/ \E s \in OfficerTargets : BulkUpdateStatus(s)
         \/ \E s \in {"rejected", "cleared"} : OgaCallback(s)
         \/ SanctionsHit
  BY DEF Next, Write

-----------------------------------------------------------------------------
(* What one write does to the row, field by field.                         *)

LEMMA RowFields ==
  ASSUME TypeOK, NEW s \in Status, NEW e \in Explanation
  PROVE  /\ [decl EXCEPT !.status = s] \in Row
         /\ [decl EXCEPT !.status = s].status = s
         /\ [decl EXCEPT !.status = s].lane = decl.lane
         /\ [decl EXCEPT !.status = s].explanation = decl.explanation
         /\ [decl EXCEPT !.explanation = e] \in Row
         /\ [decl EXCEPT !.explanation = e].status = decl.status
         /\ [decl EXCEPT !.explanation = e].lane = decl.lane
         /\ [decl EXCEPT !.explanation = e].explanation = e
         /\ [decl EXCEPT !.status = s, !.explanation = e] \in Row
         /\ [decl EXCEPT !.status = s, !.explanation = e].status = s
         /\ [decl EXCEPT !.status = s, !.explanation = e].lane = decl.lane
         /\ [decl EXCEPT !.status = s, !.explanation = e].explanation = e
  BY DEF TypeOK, Row

LEMMA CopyFields ==
  ASSUME TypeOK, NEW c \in Calls
  PROVE  /\ call[c] \in Call
         /\ call[c].to \in Status
         /\ call[c].copy \in Row
         /\ call[c].copy.explanation \in Explanation
         /\ [call[c].copy.explanation EXCEPT !.duty = "verified"] \in Explanation
         /\ [call[c].copy.explanation EXCEPT !.duty = "verified"].scored
              = call[c].copy.explanation.scored
         /\ [call[c].copy.explanation EXCEPT !.duty = "verified"].reviewed
              = call[c].copy.explanation.reviewed
         /\ [call[c].copy.explanation EXCEPT !.reviewed = TRUE] \in Explanation
         /\ [call[c].copy.explanation EXCEPT !.reviewed = TRUE].scored
              = call[c].copy.explanation.scored
         /\ [call[c].copy.explanation EXCEPT !.reviewed = TRUE].reviewed = TRUE
  <1>1. call[c] \in Call
    BY DEF TypeOK
  <1>2. call[c].to \in Status /\ call[c].copy \in Row
    BY <1>1 DEF Call
  <1>3. call[c].copy.explanation \in Explanation
    BY <1>2 DEF Row
  <1> QED BY <1>1, <1>2, <1>3 DEF Explanation

\* A write that assigns status and history: the row's other fields stay.
SetsStatus(s) ==
  /\ decl'.status = s
  /\ decl'.lane = decl.lane
  /\ decl'.explanation = decl.explanation

\* A write that assigns the lane.
SetsLane ==
  /\ decl'.status = "under_assessment"
  /\ decl'.explanation.scored \in {"model", "fallback"}
  /\ decl'.explanation.reviewed = FALSE
  /\ examined' = FALSE
  /\ passed' = passed

\* A call ends: it is idle after, and the others are as before.
Ended(c) ==
  /\ call'[c].op = "none"
  /\ \A d \in Calls : d # c => call'[d] = call[d]

LEMMA EndEffect ==
  ASSUME TypeOK, NEW c \in Calls, call' = [call EXCEPT ![c] = NoCall]
  PROVE  Ended(c) /\ call' \in [Calls -> Call]
  <1>1. NoCall \in Call /\ NoCall.op = "none"
    BY DEF NoCall, Call, Draft, Row, NoExplanation, Explanation, Status, Lane
  <1> QED BY <1>1 DEF TypeOK, Ended

LEMMA SubmitEffect ==
  ASSUME TypeOK, NEW c \in Calls, Submit(c)
  PROVE  SetsLane /\ decl' \in Row /\ Ended(c) /\ call' \in [Calls -> Call]
  <1>1. PICK r \in RiskOutcome :
          Assessed(r[1], [scored |-> r[2], reviewed |-> FALSE, duty |-> "estimate"])
    BY DEF Submit
  <1>2. r[1] \in Lane /\ r[2] \in {"model", "fallback"}
    BY LifecycleAssumption DEF RiskOutcome, Lane
  <1>3. SetsLane /\ decl' \in Row
    BY <1>1, <1>2 DEF Assessed, SetsLane, Row, Explanation, Status
  <1> QED BY <1>3, EndEffect DEF Submit, End

LEMMA EngineAssessEffect ==
  ASSUME TypeOK, NEW c \in Calls, EngineAssess(c)
  PROVE  SetsLane /\ decl' \in Row /\ Ended(c) /\ call' \in [Calls -> Call]
  <1>1. PICK lane \in Lanes, source \in {"model", "fallback"} :
          Assessed(lane, [scored |-> source, reviewed |-> FALSE, duty |-> "none"])
    BY DEF EngineAssess
  <1>2. lane \in Lane
    BY LifecycleAssumption DEF Lane
  <1>3. SetsLane /\ decl' \in Row
    BY <1>1, <1>2 DEF Assessed, SetsLane, Row, Explanation, Status
  <1> QED BY <1>3, EndEffect DEF EngineAssess, End

LEMMA AssessDutyEffect ==
  ASSUME TypeOK, NEW c \in Calls, AssessDuty(c)
  PROVE  /\ decl'.status = decl.status /\ decl'.lane = decl.lane
         /\ decl'.explanation.scored = call[c].copy.explanation.scored
         /\ decl'.explanation.reviewed = call[c].copy.explanation.reviewed
         /\ passed' = passed /\ examined' = examined
         /\ decl' \in Row /\ Ended(c) /\ call' \in [Calls -> Call]
  <1>1. decl' = [decl EXCEPT !.explanation = [call[c].copy.explanation EXCEPT !.duty = "verified"]]
    BY DEF AssessDuty
  <1>2. decl.status \in Status
    BY DEF TypeOK, Row
  <1>3. /\ decl' \in Row /\ decl'.status = decl.status /\ decl'.lane = decl.lane
        /\ decl'.explanation = [call[c].copy.explanation EXCEPT !.duty = "verified"]
    BY <1>1, <1>2, CopyFields, RowFields
  <1>4. /\ decl'.explanation.scored = call[c].copy.explanation.scored
        /\ decl'.explanation.reviewed = call[c].copy.explanation.reviewed
    BY <1>3, CopyFields
  <1> QED BY <1>3, <1>4, EndEffect DEF AssessDuty, End

LEMMA UpdateStatusEffect ==
  ASSUME TypeOK, NEW c \in Calls, UpdateStatus(c)
  PROVE  /\ decl'.status = call[c].to /\ decl'.lane = decl.lane
         /\ Reached(call[c].to)
         /\ \/ decl'.explanation = decl.explanation
            \/ /\ call[c].to = "examination_complete"
               /\ decl'.explanation.scored = call[c].copy.explanation.scored
               /\ decl'.explanation.reviewed = TRUE
         /\ decl' \in Row /\ Ended(c) /\ call' \in [Calls -> Call]
  <1> DEFINE mark == [call[c].copy.explanation EXCEPT !.reviewed = TRUE]
  <1>0. /\ call[c].to \in Status /\ mark \in Explanation /\ mark.reviewed = TRUE
        /\ mark.scored = call[c].copy.explanation.scored
    BY CopyFields
  <1>1. CASE call[c].to = "examination_complete" /\ NeedsReview(call[c].copy)
    <2>1. decl' = [decl EXCEPT !.status = call[c].to, !.explanation = mark]
      BY <1>1 DEF UpdateStatus
    <2> HIDE DEF mark
    <2>2. decl' \in Row /\ decl'.status = call[c].to /\ decl'.lane = decl.lane
          /\ decl'.explanation = mark
      BY <1>0, <2>1, RowFields
    <2>3. decl'.explanation.scored = call[c].copy.explanation.scored
          /\ decl'.explanation.reviewed = TRUE
      BY <1>0, <2>2
    <2> QED BY <1>1, <2>2, <2>3, EndEffect DEF UpdateStatus, End
  <1>2. CASE ~(call[c].to = "examination_complete" /\ NeedsReview(call[c].copy))
    <2>1. decl' = [decl EXCEPT !.status = call[c].to]
      BY <1>2 DEF UpdateStatus
    <2>3. decl.explanation \in Explanation
      BY DEF TypeOK, Row
    <2>4. decl' \in Row /\ decl'.status = call[c].to /\ decl'.lane = decl.lane
          /\ decl'.explanation = decl.explanation
      BY <1>0, <2>1, <2>3, RowFields
    <2> QED BY <2>4, EndEffect DEF UpdateStatus, End
  <1> QED BY <1>1, <1>2

\* Cancel, Initiate, EngineSubmit, BulkApprove: a fixed status, no milestone.
LEMMA FixedStatusEffect ==
  ASSUME TypeOK, NEW c \in Calls, NEW s \in Status,
         decl' = [decl EXCEPT !.status = s], call' = [call EXCEPT ![c] = NoCall]
  PROVE  SetsStatus(s) /\ decl' \in Row /\ Ended(c) /\ call' \in [Calls -> Call]
  <1>1. decl.explanation \in Explanation
    BY DEF TypeOK, Row
  <1> QED BY <1>1, RowFields, EndEffect DEF SetsStatus

LEMMA EngineSetsStatusEffect ==
  ASSUME TypeOK, NEW c \in Calls, EngineSetsStatus(c)
  PROVE  /\ SetsStatus(call[c].to) /\ Reached(call[c].to)
         /\ decl' \in Row /\ Ended(c) /\ call' \in [Calls -> Call]
  <1>1. call[c].to \in Status
    BY CopyFields
  <1> QED BY <1>1, FixedStatusEffect DEF EngineSetsStatus, End

\* A writer that reads nothing.
LEMMA UnreadEffect ==
  ASSUME TypeOK, NEW s \in Status, decl' = [decl EXCEPT !.status = s]
  PROVE  SetsStatus(s) /\ decl' \in Row
  <1>1. decl.explanation \in Explanation
    BY DEF TypeOK, Row
  <1> QED BY <1>1, RowFields DEF SetsStatus

\* A call begins: its copy is the row.
LEMMA BeginEffect ==
  ASSUME TypeOK, NEW c \in Calls, NEW op \in EntryPoints, NEW to \in Status, Begin(c, op, to)
  PROVE  /\ call'[c].op = op /\ call'[c].to = to /\ call'[c].copy = decl
         /\ \A d \in Calls : d # c => call'[d] = call[d]
         /\ call' \in [Calls -> Call]
  BY DEF Begin, TypeOK, Call

\* A milestone that was reached stays reached.
LEMMA ReachedEffect ==
  ASSUME TypeOK, NEW s \in Status, Reached(s)
  PROVE  /\ passed' \in SUBSET Milestones /\ examined' \in BOOLEAN
         /\ passed \subseteq passed'
         /\ s \in Milestones => s \in passed'
         /\ examined => examined'
         /\ s = "examination_complete" => examined'
  BY DEF Reached, TypeOK

LEMMA StraysEffect ==
  ASSUME TypeOK, Strays
  PROVE  strayed' \in BOOLEAN /\ (strayed => strayed')
  BY DEF Strays, TypeOK

-----------------------------------------------------------------------------
(* Types.                                                                  *)

LEMMA TypeInit == Init => TypeOK
  <1>1. Draft \in Row
    BY DEF Draft, NoExplanation, Row, Explanation, Status, Lane
  <1>2. NoCall \in Call
    BY <1>1 DEF NoCall, Call, Status
  <1>3. Init => decl \in Row /\ call \in [Calls -> Call]
    BY <1>1, <1>2 DEF Init
  <1>4. Init => passed \in SUBSET Milestones /\ payments \in Nat
    BY SMT DEF Init
  <1>5. Init => examined \in BOOLEAN /\ strayed \in BOOLEAN
    BY Zenon DEF Init
  <1> QED BY <1>3, <1>4, <1>5 DEF TypeOK

LEMMA TypeStep == TypeOK /\ [Next]_vars => TypeOK'
  <1> SUFFICES ASSUME TypeOK, [Next]_vars PROVE TypeOK'
    OBVIOUS
  <1>1. ASSUME NEW c \in Calls, NEW op \in EntryPoints, NEW to \in Status, Begin(c, op, to)
        PROVE TypeOK'
    BY <1>1, BeginEffect DEF Begin, TypeOK
  <1>2. ASSUME NEW c \in Calls, Refuse(c) PROVE TypeOK'
    BY <1>2, EndEffect DEF Refuse, TypeOK
  <1>3. ASSUME NEW c \in Calls, Submit(c) PROVE TypeOK'
    <2>1. decl' \in Row /\ call' \in [Calls -> Call] /\ examined' = FALSE /\ passed' = passed
      BY <1>3, SubmitEffect DEF SetsLane
    <2>2. payments' = payments /\ strayed' = strayed
      BY <1>3 DEF Submit, Assessed
    <2> QED BY <2>1, <2>2 DEF TypeOK
  <1>4. ASSUME NEW c \in Calls, AssessDuty(c) PROVE TypeOK'
    BY <1>4, AssessDutyEffect DEF AssessDuty, TypeOK
  <1>5. ASSUME NEW c \in Calls, UpdateStatus(c) PROVE TypeOK'
    <2>1. decl' \in Row /\ call' \in [Calls -> Call] /\ Reached(call[c].to)
      BY <1>5, UpdateStatusEffect
    <2>2. call[c].to \in Status
      BY CopyFields
    <2>3. passed' \in SUBSET Milestones /\ examined' \in BOOLEAN
      BY <2>1, <2>2, ReachedEffect
    <2> QED BY <1>5, <2>1, <2>3 DEF UpdateStatus, TypeOK
  <1>6. ASSUME NEW c \in Calls, Cancel(c) PROVE TypeOK'
    <2>1. "cancelled" \in Status
      BY DEF Status
    <2> QED BY <1>6, <2>1, FixedStatusEffect DEF Cancel, End, TypeOK
  <1>7. ASSUME NEW c \in Calls, Initiate(c) PROVE TypeOK'
    <2>1. "payment_pending" \in Status
      BY DEF Status, OfficerTargets
    <2>2. decl' \in Row /\ call' \in [Calls -> Call]
      BY <1>7, <2>1, FixedStatusEffect DEF Initiate, End
    <2>3. payments' \in Nat
      BY <1>7 DEF Initiate, TypeOK
    <2>4. UNCHANGED <<passed, examined, strayed>>
      BY <1>7 DEF Initiate
    <2> QED BY <2>2, <2>3, <2>4 DEF TypeOK
  <1>8. ASSUME NEW c \in Calls, EngineSubmit(c) PROVE TypeOK'
    <2>1. "submitted" \in Status
      BY DEF Status
    <2>2. decl' \in Row /\ call' \in [Calls -> Call]
      BY <1>8, <2>1, FixedStatusEffect DEF EngineSubmit, End
    <2>3. strayed' \in BOOLEAN
      BY <1>8, StraysEffect DEF EngineSubmit
    <2>4. UNCHANGED <<passed, examined, payments>>
      BY <1>8 DEF EngineSubmit
    <2> QED BY <2>2, <2>3, <2>4 DEF TypeOK
  <1>9. ASSUME NEW c \in Calls, EngineAssess(c) PROVE TypeOK'
    <2>1. decl' \in Row /\ call' \in [Calls -> Call] /\ examined' = FALSE /\ passed' = passed
      BY <1>9, EngineAssessEffect DEF SetsLane
    <2>2. payments' = payments /\ strayed' = strayed
      BY <1>9 DEF EngineAssess, Assessed
    <2> QED BY <2>1, <2>2 DEF TypeOK
  <1>10. ASSUME NEW c \in Calls, EngineSetsStatus(c) PROVE TypeOK'
    <2>1. decl' \in Row /\ call' \in [Calls -> Call] /\ Reached(call[c].to)
      BY <1>10, EngineSetsStatusEffect
    <2>2. call[c].to \in Status
      BY CopyFields
    <2>3. passed' \in SUBSET Milestones /\ examined' \in BOOLEAN
      BY <2>1, <2>2, ReachedEffect
    <2>4. strayed' \in BOOLEAN /\ payments' = payments
      BY <1>10, StraysEffect DEF EngineSetsStatus
    <2> QED BY <2>1, <2>3, <2>4 DEF TypeOK
  <1>11. ASSUME NEW s \in OfficerTargets, BulkUpdateStatus(s) PROVE TypeOK'
    <2>1. s \in Status
      BY DEF Status
    <2>2. decl' \in Row
      BY <1>11, <2>1, UnreadEffect DEF BulkUpdateStatus
    <2>3. passed' \in SUBSET Milestones /\ examined' \in BOOLEAN
      BY <1>11, <2>1, ReachedEffect DEF BulkUpdateStatus
    <2>4. strayed' \in BOOLEAN /\ UNCHANGED <<call, payments>>
      BY <1>11, StraysEffect DEF BulkUpdateStatus
    <2> QED BY <2>2, <2>3, <2>4 DEF TypeOK
  <1>12. ASSUME SanctionsHit PROVE TypeOK'
    BY <1>12, UnreadEffect DEF SanctionsHit, Status, TypeOK
  <1>13. ASSUME NEW s \in {"rejected", "cleared"}, OgaCallback(s) PROVE TypeOK'
    <2>1. s \in Status
      BY DEF Status, OfficerTargets
    <2>2. decl' \in Row
      BY <1>13, <2>1, UnreadEffect DEF OgaCallback
    <2>3. strayed' \in BOOLEAN /\ UNCHANGED <<call, passed, examined, payments>>
      BY <1>13, StraysEffect DEF OgaCallback
    <2> QED BY <2>2, <2>3 DEF TypeOK
  <1>14. ASSUME NEW c \in Calls, BulkApprove(c) PROVE TypeOK'
    <2>1. "cleared" \in Status
      BY DEF Status, OfficerTargets
    <2>2. decl' \in Row /\ call' \in [Calls -> Call]
      BY <1>14, <2>1, FixedStatusEffect DEF BulkApprove, End
    <2>3. strayed' \in BOOLEAN /\ UNCHANGED <<passed, examined, payments>>
      BY <1>14, StraysEffect DEF BulkApprove
    <2> QED BY <2>2, <2>3 DEF TypeOK
  <1>15. CASE UNCHANGED vars
    BY <1>15 DEF vars, TypeOK
  <1> QED
    BY <1>1, <1>2, <1>3, <1>4, <1>5, <1>6, <1>7, <1>8, <1>9, <1>10, <1>11, <1>12, <1>13,
       <1>14, <1>15, StepCases

\* Row, calls and history stay in their types, whatever overlaps.
THEOREM TypeCorrect == Spec => []TypeOK
  BY TypeInit, TypeStep, PTL DEF Spec

-----------------------------------------------------------------------------
(* However requests overlap: a clearance is earned.                        *)

Earned == passed \cap {"payment_confirmed", "examination_complete"} # {}

\* A clearance in flight, other than a bulk approval, was decided on a status
\* that is a milestone, and a milestone once reached stays on record.
EarnedInv ==
  /\ decl.status \in {"payment_confirmed", "examination_complete"} => Earned
  /\ \A c \in Calls : call[c].op \notin {"none", "bulkApprove"} /\ call[c].to = "cleared"
       => Earned

\* What the step of EarnedInv needs of any write.
LEMMA EarnedWrite ==
  ASSUME EarnedInv, NEW c \in Calls, Ended(c), passed \subseteq passed',
         decl'.status \in {"payment_confirmed", "examination_complete"} => Earned'
  PROVE  EarnedInv'
  <1>1. Earned => Earned'
    BY DEF Earned
  <1>2. ASSUME NEW d \in Calls, call'[d].op \notin {"none", "bulkApprove"},
               call'[d].to = "cleared"
        PROVE  Earned'
    BY <1>1, <1>2 DEF EarnedInv, Ended
  <1> QED BY <1>2 DEF EarnedInv

\* A status that is set along with its milestone.
LEMMA EarnedReached ==
  ASSUME TypeOK, NEW s \in Status, Reached(s)
  PROVE  s \in {"payment_confirmed", "examination_complete"} => Earned'
  <1>1. passed \subseteq passed' /\ (s \in Milestones => s \in passed')
    BY ReachedEffect
  <1> QED BY <1>1 DEF Earned, Milestones

LEMMA EarnedStep ==
  ASSUME TypeOK, EarnedInv, [Next]_vars
  PROVE  EarnedInv'
  <1>1. ASSUME NEW c \in Calls, NEW op \in EntryPoints, NEW to \in Status, Begin(c, op, to)
        PROVE EarnedInv'
    <2>1. UNCHANGED <<decl, passed>> /\ Admits(op, to, decl)
      BY <1>1 DEF Begin
    <2>2. op # "bulkApprove" /\ to = "cleared"
            => decl.status \in {"payment_confirmed", "examination_complete"}
      <3>1. decl.status \in Status
        BY DEF TypeOK, Row
      <3> QED BY <2>1, <3>1 DEF Admits, CanTransition, VALID_TRANSITIONS, Status, OfficerTargets
    <2>3. \A d \in Calls : call'[d].op \notin {"none", "bulkApprove"} /\ call'[d].to = "cleared"
            => Earned
      <3>1. op # "bulkApprove" /\ to = "cleared" => Earned
        BY <2>2 DEF EarnedInv
      <3>2. call'[c].to = to /\ call'[c].op = op
        BY <1>1, BeginEffect
      <3>3. \A d \in Calls : d # c => call'[d] = call[d]
        BY <1>1, BeginEffect
      <3> QED BY <3>1, <3>2, <3>3 DEF EarnedInv
    <2> QED BY <2>1, <2>3 DEF EarnedInv, Earned
  <1>2. ASSUME NEW c \in Calls, Refuse(c) PROVE EarnedInv'
    <2>1. Ended(c) /\ UNCHANGED <<decl, passed>>
      BY <1>2, EndEffect DEF Refuse
    <2> QED BY <2>1, EarnedWrite DEF EarnedInv, Earned
  <1>3. ASSUME NEW c \in Calls, Submit(c) \/ EngineAssess(c) PROVE EarnedInv'
    <2>1. Ended(c) /\ SetsLane
      BY <1>3, SubmitEffect, EngineAssessEffect
    <2> QED BY <2>1, EarnedWrite DEF SetsLane
  <1>4. ASSUME NEW c \in Calls, AssessDuty(c) PROVE EarnedInv'
    <2>1. Ended(c) /\ decl'.status = decl.status /\ passed' = passed
      BY <1>4, AssessDutyEffect
    <2> QED BY <2>1, EarnedWrite DEF EarnedInv, Earned
  <1>5. ASSUME NEW c \in Calls, UpdateStatus(c) \/ EngineSetsStatus(c) PROVE EarnedInv'
    <2>1. Ended(c) /\ decl'.status = call[c].to /\ Reached(call[c].to)
      BY <1>5, UpdateStatusEffect, EngineSetsStatusEffect DEF SetsStatus
    <2>2. call[c].to \in Status /\ call[c].op # "none"
      BY <1>5, CopyFields DEF UpdateStatus, EngineSetsStatus, End
    <2>3. passed \subseteq passed'
      BY <2>1, <2>2, ReachedEffect
    <2>4. decl'.status \in {"payment_confirmed", "examination_complete"} => Earned'
      BY <2>1, <2>2, EarnedReached
    <2> QED BY <2>1, <2>3, <2>4, EarnedWrite
  <1>6. ASSUME NEW c \in Calls, Cancel(c) \/ Initiate(c) \/ EngineSubmit(c) PROVE EarnedInv'
    <2>1. \E s \in {"cancelled", "payment_pending", "submitted"} :
             decl' = [decl EXCEPT !.status = s]
      BY <1>6 DEF Cancel, Initiate, EngineSubmit
    <2>2. call' = [call EXCEPT ![c] = NoCall] /\ passed' = passed
      BY <1>6 DEF Cancel, Initiate, EngineSubmit, End
    <2>3. Ended(c) /\ decl'.status \in {"cancelled", "payment_pending", "submitted"}
      BY <2>1, <2>2, FixedStatusEffect DEF Status, OfficerTargets, SetsStatus
    <2> QED BY <2>2, <2>3, EarnedWrite
  <1>7. ASSUME NEW s \in OfficerTargets, BulkUpdateStatus(s) PROVE EarnedInv'
    <2>1. s \in Status /\ decl'.status = s /\ call' = call
      BY <1>7, UnreadEffect DEF BulkUpdateStatus, Status, SetsStatus
    <2>2. passed \subseteq passed'
      BY <1>7, <2>1, ReachedEffect DEF BulkUpdateStatus
    <2>3. decl'.status \in {"payment_confirmed", "examination_complete"} => Earned'
      BY <1>7, <2>1, EarnedReached DEF BulkUpdateStatus
    <2>4. Earned => Earned'
      BY <2>2 DEF Earned
    <2> QED BY <2>1, <2>3, <2>4 DEF EarnedInv
  <1>8. ASSUME SanctionsHit \/ \E s \in {"rejected", "cleared"} : OgaCallback(s)
        PROVE  EarnedInv'
    <2>1. decl'.status \in {"held_sanctions", "rejected", "cleared"} /\ UNCHANGED <<call, passed>>
      BY <1>8, UnreadEffect DEF SanctionsHit, OgaCallback, Status, OfficerTargets, SetsStatus
    <2> QED BY <2>1 DEF EarnedInv, Earned
  <1>9. ASSUME NEW c \in Calls, BulkApprove(c) PROVE EarnedInv'
    <2>1. Ended(c) /\ decl'.status = "cleared" /\ passed' = passed
      BY <1>9, FixedStatusEffect DEF BulkApprove, End, Status, OfficerTargets, SetsStatus
    <2> QED BY <2>1, EarnedWrite
  <1>10. CASE UNCHANGED vars
    BY <1>10 DEF vars, EarnedInv, Earned
  <1> QED
    BY <1>1, <1>2, <1>3, <1>4, <1>5, <1>6, <1>7, <1>8, <1>9, <1>10, StepCases

\* Which steps clear: those of a request that asked for it, and the writers that
\* ask nobody.
LEMMA ClearingStep ==
  ASSUME TypeOK, [Next]_vars, decl.status # "cleared", decl'.status = "cleared", ~UnaskedWrite
  PROVE  \E c \in Calls : call[c].op \in {"updateStatus", "engineClear", "engineUpdate"}
                        /\ call[c].to = "cleared"
  <1>1. ASSUME NEW c \in Calls, UpdateStatus(c) \/ EngineSetsStatus(c)
        PROVE  call[c].op \in {"updateStatus", "engineClear", "engineUpdate"}
                 /\ call[c].to = "cleared"
    BY <1>1, UpdateStatusEffect, EngineSetsStatusEffect
       DEF UpdateStatus, EngineSetsStatus, End, SetsStatus
  <1>2. ASSUME NEW c \in Calls, Submit(c) \/ EngineAssess(c) PROVE FALSE
    BY <1>2, SubmitEffect, EngineAssessEffect DEF SetsLane
  <1>3. ASSUME NEW c \in Calls, AssessDuty(c) PROVE FALSE
    BY <1>3, AssessDutyEffect
  <1>4. ASSUME NEW c \in Calls, Cancel(c) \/ Initiate(c) \/ EngineSubmit(c) PROVE FALSE
    <2>1. \E s \in {"cancelled", "payment_pending", "submitted"} :
             decl' = [decl EXCEPT !.status = s]
      BY <1>4 DEF Cancel, Initiate, EngineSubmit
    <2> QED BY <2>1, UnreadEffect DEF Status, OfficerTargets, SetsStatus
  <1>5. decl' # decl
    OBVIOUS
  <1> QED BY <1>1, <1>2, <1>3, <1>4, <1>5, StepCases DEF vars, Begin, Refuse, UnaskedWrite

\* Only a writer that asks nobody clears a declaration that reached neither
\* payment nor a completed examination: for every entry point and any overlap.
THEOREM ClearancesAreEarned == Spec => ClearanceIsEarned
  <1>1. Init => EarnedInv
    BY DEF Init, EarnedInv, Draft, NoCall
  <1>2. TypeOK /\ EarnedInv /\ [Next]_vars => EarnedInv'
    BY EarnedStep
  <1>3. TypeOK /\ EarnedInv /\ [Next]_vars =>
          [decl.status # "cleared" /\ decl'.status = "cleared" =>
             passed \cap {"payment_confirmed", "examination_complete"} # {} \/ UnaskedWrite]_vars
    BY ClearingStep DEF EarnedInv, Earned
  <1> QED BY <1>1, <1>2, <1>3, TypeInit, TypeStep, PTL DEF Spec, ClearanceIsEarned

-----------------------------------------------------------------------------
(* However requests overlap, and whoever writes: a review had an           *)
(* examination.                                                            *)

Inspected == "under_examination" \in passed

\* A request that will record a review read the row under examination, and a
\* copy that carries a review carries one that was recorded.
ReviewInv ==
  /\ decl.status = "under_examination" => Inspected
  /\ decl.explanation.reviewed => Inspected
  /\ \A c \in Calls : call[c].op # "none" =>
       /\ call[c].copy.explanation.reviewed => Inspected
       /\ call[c].op = "updateStatus" /\ call[c].to = "examination_complete" => Inspected

LEMMA ReviewWrite ==
  ASSUME ReviewInv, NEW c \in Calls, Ended(c), passed \subseteq passed',
         decl'.status = "under_examination" => Inspected',
         decl'.explanation.reviewed => Inspected'
  PROVE  ReviewInv'
  <1>1. Inspected => Inspected'
    BY DEF Inspected
  <1>2. ASSUME NEW d \in Calls, call'[d].op # "none"
        PROVE  /\ call'[d].copy.explanation.reviewed => Inspected'
               /\ call'[d].op = "updateStatus" /\ call'[d].to = "examination_complete"
                    => Inspected'
    <2>1. call'[d] = call[d] /\ call[d].op # "none"
      BY <1>2 DEF Ended
    <2> QED BY <1>1, <2>1 DEF ReviewInv
  <1> QED BY <1>2 DEF ReviewInv

LEMMA ReviewStep == TypeOK /\ ReviewInv /\ [Next]_vars => ReviewInv'
  <1> SUFFICES ASSUME TypeOK, ReviewInv, [Next]_vars PROVE ReviewInv'
    OBVIOUS
  <1>1. ASSUME NEW c \in Calls, NEW op \in EntryPoints, NEW to \in Status, Begin(c, op, to)
        PROVE ReviewInv'
    <2>1. UNCHANGED <<decl, passed>> /\ Admits(op, to, decl)
      BY <1>1 DEF Begin
    <2>2. op = "updateStatus" /\ to = "examination_complete" => Inspected
      <3>1. decl.status \in Status
        BY DEF TypeOK, Row
      <3>2. op = "updateStatus" => to \in VALID_TRANSITIONS[decl.status]
        BY <2>1 DEF Admits
      <3>3. to = "examination_complete" /\ to \in VALID_TRANSITIONS[decl.status]
              => decl.status = "under_examination"
        BY <3>1 DEF VALID_TRANSITIONS, Status, OfficerTargets
      <3> QED BY <3>2, <3>3 DEF ReviewInv
    <2>3. /\ call'[c].copy = decl /\ call'[c].op = op /\ call'[c].to = to
          /\ \A d \in Calls : d # c => call'[d] = call[d]
      BY <1>1, BeginEffect
    <2>4. \A d \in Calls : call'[d].op # "none" =>
            /\ call'[d].copy.explanation.reviewed => Inspected
            /\ call'[d].op = "updateStatus" /\ call'[d].to = "examination_complete" => Inspected
      BY <2>2, <2>3 DEF ReviewInv
    <2> QED BY <2>1, <2>4 DEF ReviewInv, Inspected
  <1>2. ASSUME NEW c \in Calls, Refuse(c) PROVE ReviewInv'
    <2>1. Ended(c) /\ UNCHANGED <<decl, passed>>
      BY <1>2, EndEffect DEF Refuse
    <2> QED BY <2>1, ReviewWrite DEF ReviewInv, Inspected
  <1>3. ASSUME NEW c \in Calls, Submit(c) \/ EngineAssess(c) PROVE ReviewInv'
    <2>1. Ended(c) /\ SetsLane
      BY <1>3, SubmitEffect, EngineAssessEffect
    <2>2. decl'.status # "under_examination" /\ decl'.explanation.reviewed = FALSE
          /\ passed' = passed
      BY <2>1 DEF SetsLane
    <2> QED BY <2>1, <2>2, ReviewWrite
  <1>4. ASSUME NEW c \in Calls, AssessDuty(c) PROVE ReviewInv'
    <2>1. /\ Ended(c) /\ decl'.status = decl.status /\ passed' = passed
          /\ decl'.explanation.reviewed = call[c].copy.explanation.reviewed
      BY <1>4, AssessDutyEffect
    <2>2. call[c].op # "none"
      BY <1>4 DEF AssessDuty, End
    <2> QED BY <2>1, <2>2, ReviewWrite DEF ReviewInv, Inspected
  <1>5. ASSUME NEW c \in Calls, UpdateStatus(c) PROVE ReviewInv'
    <2>1. /\ Ended(c) /\ decl'.status = call[c].to /\ Reached(call[c].to)
          /\ \/ decl'.explanation = decl.explanation
             \/ call[c].to = "examination_complete"
      BY <1>5, UpdateStatusEffect
    <2>2. call[c].to \in Status /\ call[c].op = "updateStatus"
      BY <1>5, CopyFields DEF UpdateStatus, End
    <2>3. passed \subseteq passed'
          /\ (call[c].to = "under_examination" => "under_examination" \in passed')
      BY <2>1, <2>2, ReachedEffect DEF Milestones
    <2>4. decl'.explanation.reviewed => Inspected'
      BY <2>1, <2>2, <2>3 DEF ReviewInv, Inspected
    <2> QED BY <2>1, <2>3, <2>4, ReviewWrite DEF Inspected
  <1>6. ASSUME NEW c \in Calls, EngineSetsStatus(c) PROVE ReviewInv'
    <2>1. Ended(c) /\ SetsStatus(call[c].to) /\ Reached(call[c].to) /\ call[c].to \in Status
      BY <1>6, EngineSetsStatusEffect, CopyFields
    <2>2. passed \subseteq passed'
          /\ (call[c].to = "under_examination" => "under_examination" \in passed')
      BY <2>1, ReachedEffect DEF Milestones
    <2> QED BY <2>1, <2>2, ReviewWrite DEF SetsStatus, ReviewInv, Inspected
  <1>7. ASSUME NEW c \in Calls, Cancel(c) \/ Initiate(c) \/ EngineSubmit(c) PROVE ReviewInv'
    <2>1. \E s \in {"cancelled", "payment_pending", "submitted"} :
             decl' = [decl EXCEPT !.status = s]
      BY <1>7 DEF Cancel, Initiate, EngineSubmit
    <2>2. call' = [call EXCEPT ![c] = NoCall] /\ passed' = passed
      BY <1>7 DEF Cancel, Initiate, EngineSubmit, End
    <2>3. /\ Ended(c) /\ decl'.status \in {"cancelled", "payment_pending", "submitted"}
          /\ decl'.explanation = decl.explanation
      BY <2>1, <2>2, FixedStatusEffect DEF Status, OfficerTargets, SetsStatus
    <2> QED BY <2>2, <2>3, ReviewWrite DEF ReviewInv, Inspected
  <1>8. ASSUME NEW s \in OfficerTargets, BulkUpdateStatus(s) PROVE ReviewInv'
    <2>1. s \in Status
      BY DEF Status
    <2>2. SetsStatus(s) /\ call' = call
      BY <1>8, <2>1, UnreadEffect DEF BulkUpdateStatus
    <2>3. passed \subseteq passed'
          /\ (s = "under_examination" => "under_examination" \in passed')
      BY <1>8, <2>1, ReachedEffect DEF BulkUpdateStatus, Milestones
    <2> QED BY <2>2, <2>3 DEF ReviewInv, Inspected, SetsStatus
  <1>9. ASSUME SanctionsHit PROVE ReviewInv'
    <2>1. SetsStatus("held_sanctions") /\ UNCHANGED <<call, passed>>
      BY <1>9, UnreadEffect DEF SanctionsHit, Status
    <2> QED BY <2>1 DEF ReviewInv, Inspected, SetsStatus
  <1>10. ASSUME NEW s \in {"rejected", "cleared"}, OgaCallback(s) PROVE ReviewInv'
    <2>1. SetsStatus(s) /\ UNCHANGED <<call, passed>>
      BY <1>10, UnreadEffect DEF OgaCallback, Status, OfficerTargets
    <2> QED BY <2>1 DEF ReviewInv, Inspected, SetsStatus
  <1>11. ASSUME NEW c \in Calls, BulkApprove(c) PROVE ReviewInv'
    <2>1. Ended(c) /\ SetsStatus("cleared") /\ passed' = passed
      BY <1>11, FixedStatusEffect DEF BulkApprove, End, Status, OfficerTargets
    <2> QED BY <2>1, ReviewWrite DEF SetsStatus, ReviewInv, Inspected
  <1>12. CASE UNCHANGED vars
    BY <1>12 DEF vars, ReviewInv, Inspected
  <1> QED
    BY <1>1, <1>2, <1>3, <1>4, <1>5, <1>6, <1>7, <1>8, <1>9, <1>10, <1>11, <1>12, StepCases

\* A manual review is on record only if the declaration was under examination
\* at some time: for every entry point, every overlap, no proviso at all.
THEOREM ReviewsHadExamination == Spec => []ReviewHadExamination
  <1>1. Init => ReviewInv
    BY DEF Init, ReviewInv, Draft, NoCall, NoExplanation
  <1>2. ReviewInv => ReviewHadExamination
    BY DEF ReviewInv, Inspected, ReviewHadExamination
  <1> QED BY <1>1, <1>2, ReviewStep, TypeInit, TypeStep, PTL DEF Spec

-----------------------------------------------------------------------------
(* However requests overlap: a clearance follows an assessment, unless the *)
(* declaration was moved on before it was assessed.                        *)

Unassessed == {"draft", "cancelled", "held_sanctions"}
Scored(d) == d.explanation.scored # "none"

\* The procedures that take a row past its assessment read one that has it.
AssessedInv ==
  /\ decl.status \notin Unassessed => Scored(decl) \/ strayed
  /\ \A c \in Calls : call[c].op \in {"assessDuty", "updateStatus", "initiate"} =>
       (Scored(call[c].copy) /\ Scored(decl)) \/ strayed

\* What the step of AssessedInv needs of any write of a call.
LEMMA AssessedWrite ==
  ASSUME AssessedInv, NEW c \in Calls, Ended(c),
         decl'.status \in Unassessed \/ Scored(decl') \/ strayed',
         Scored(decl) => Scored(decl') \/ strayed',
         strayed => strayed'
  PROVE  AssessedInv'
  <1>1. ASSUME NEW d \in Calls, call'[d].op \in {"assessDuty", "updateStatus", "initiate"}
        PROVE  (Scored(call'[d].copy) /\ Scored(decl')) \/ strayed'
    <2>1. call'[d] = call[d]
      BY <1>1 DEF Ended
    <2> QED BY <1>1, <2>1 DEF AssessedInv
  <1> QED BY <1>1 DEF AssessedInv

\* A write of the status alone, counted as straying when no score is there.
LEMMA StraysWrite ==
  ASSUME TypeOK, Strays, decl'.explanation = decl.explanation
  PROVE  /\ Scored(decl') \/ strayed'
         /\ Scored(decl) => Scored(decl')
         /\ strayed => strayed'
  BY DEF Strays, Scored, TypeOK

LEMMA AssessedStep ==
  ASSUME TypeOK, AssessedInv, [Next]_vars
  PROVE  AssessedInv'
  <1>1. ASSUME NEW c \in Calls, NEW op \in EntryPoints, NEW to \in Status, Begin(c, op, to)
        PROVE AssessedInv'
    <2>1. UNCHANGED <<decl, strayed>> /\ Admits(op, to, decl)
      BY <1>1 DEF Begin
    <2>2. op \in {"assessDuty", "updateStatus", "initiate"} => Scored(decl) \/ strayed
      <3>1. decl.status \in Status
        BY DEF TypeOK, Row
      <3>2. op \in {"assessDuty", "updateStatus", "initiate"} => decl.status \notin Unassessed
        BY <2>1, <3>1 DEF Admits, VALID_TRANSITIONS, Status, OfficerTargets, Unassessed
      <3> QED BY <3>2 DEF AssessedInv
    <2>3. /\ call'[c].copy = decl /\ call'[c].op = op
          /\ \A d \in Calls : d # c => call'[d] = call[d]
      BY <1>1, BeginEffect
    <2>4. ASSUME NEW d \in Calls, call'[d].op \in {"assessDuty", "updateStatus", "initiate"}
          PROVE  (Scored(call'[d].copy) /\ Scored(decl)) \/ strayed
      <3>1. CASE d = c
        BY <2>2, <2>3, <2>4, <3>1
      <3>2. CASE d # c
        BY <2>3, <2>4, <3>2 DEF AssessedInv
      <3> QED BY <3>1, <3>2
    <2> QED BY <2>1, <2>4 DEF AssessedInv, Scored
  <1>2. ASSUME NEW c \in Calls, Refuse(c) PROVE AssessedInv'
    <2>1. Ended(c) /\ UNCHANGED <<decl, strayed>>
      BY <1>2, EndEffect DEF Refuse
    <2>2. decl'.status \in Unassessed \/ Scored(decl') \/ strayed'
      BY <2>1 DEF AssessedInv, Scored
    <2> QED BY <2>1, <2>2, AssessedWrite DEF Scored
  <1>3. ASSUME NEW c \in Calls, Submit(c) \/ EngineAssess(c) PROVE AssessedInv'
    <2>1. Ended(c) /\ SetsLane
      BY <1>3, SubmitEffect, EngineAssessEffect
    <2>2. Scored(decl') /\ strayed' = strayed
      BY <1>3, <2>1 DEF SetsLane, Scored, Submit, EngineAssess, Assessed
    <2> QED BY <2>1, <2>2, AssessedWrite
  <1>4. ASSUME NEW c \in Calls, AssessDuty(c) PROVE AssessedInv'
    <2>1. /\ Ended(c) /\ decl'.status = decl.status
          /\ decl'.explanation.scored = call[c].copy.explanation.scored
      BY <1>4, AssessDutyEffect
    <2>2. call[c].op = "assessDuty" /\ strayed' = strayed
      BY <1>4 DEF AssessDuty, End
    <2>3. Scored(decl') \/ strayed'
      BY <2>1, <2>2 DEF AssessedInv, Scored
    <2> QED BY <2>1, <2>2, <2>3, AssessedWrite
  <1>5. ASSUME NEW c \in Calls, UpdateStatus(c) PROVE AssessedInv'
    <2>1. /\ Ended(c)
          /\ \/ decl'.explanation = decl.explanation
             \/ decl'.explanation.scored = call[c].copy.explanation.scored
      BY <1>5, UpdateStatusEffect
    <2>2. call[c].op = "updateStatus" /\ strayed' = strayed
      BY <1>5 DEF UpdateStatus, End
    <2>3. (Scored(call[c].copy) /\ Scored(decl)) \/ strayed
      BY <2>2 DEF AssessedInv
    <2>4. Scored(decl') \/ strayed'
      BY <2>1, <2>2, <2>3 DEF Scored
    <2> QED BY <2>1, <2>2, <2>4, AssessedWrite
  <1>6. ASSUME NEW c \in Calls, EngineSubmit(c) \/ EngineSetsStatus(c) \/ BulkApprove(c)
        PROVE  AssessedInv'
    <2>1. Ended(c) /\ decl'.explanation = decl.explanation
      <3>1. CASE EngineSubmit(c) \/ BulkApprove(c)
        BY <3>1, FixedStatusEffect
           DEF EngineSubmit, BulkApprove, End, Status, OfficerTargets, SetsStatus
      <3>2. CASE EngineSetsStatus(c)
        BY <3>2, EngineSetsStatusEffect DEF SetsStatus
      <3> QED BY <1>6, <3>1, <3>2
    <2>2. Strays
      BY <1>6 DEF EngineSubmit, EngineSetsStatus, BulkApprove
    <2> QED BY <2>1, <2>2, StraysWrite, AssessedWrite
  <1>7. ASSUME NEW c \in Calls, Cancel(c) PROVE AssessedInv'
    <2>1. Ended(c) /\ SetsStatus("cancelled") /\ strayed' = strayed
      BY <1>7, FixedStatusEffect DEF Cancel, End, Status
    <2> QED BY <2>1, AssessedWrite DEF SetsStatus, Unassessed, Scored
  <1>8. ASSUME NEW c \in Calls, Initiate(c) PROVE AssessedInv'
    <2>1. Ended(c) /\ SetsStatus("payment_pending") /\ strayed' = strayed
      BY <1>8, FixedStatusEffect DEF Initiate, End, Status, OfficerTargets
    <2>2. call[c].op = "initiate"
      BY <1>8 DEF Initiate, End
    <2>3. Scored(decl') \/ strayed'
      BY <2>1, <2>2 DEF AssessedInv, SetsStatus, Scored
    <2> QED BY <2>1, <2>3, AssessedWrite
  <1>9. ASSUME SanctionsHit PROVE AssessedInv'
    <2>1. SetsStatus("held_sanctions") /\ UNCHANGED <<call, strayed>>
      BY <1>9, UnreadEffect DEF SanctionsHit, Status
    <2> QED BY <2>1 DEF AssessedInv, SetsStatus, Scored, Unassessed
  <1>10. ASSUME \/ \E s \in OfficerTargets : BulkUpdateStatus(s)
                \/ \E s \in {"rejected", "cleared"} : OgaCallback(s)
         PROVE  AssessedInv'
    <2>1. PICK s \in OfficerTargets : decl' = [decl EXCEPT !.status = s]
      BY <1>10 DEF BulkUpdateStatus, OgaCallback, OfficerTargets
    <2>2. decl'.explanation = decl.explanation
      BY <2>1, UnreadEffect DEF Status, SetsStatus
    <2>3. Strays /\ call' = call
      BY <1>10 DEF BulkUpdateStatus, OgaCallback
    <2> QED BY <2>2, <2>3, StraysWrite DEF AssessedInv
  <1>11. CASE UNCHANGED vars
    BY <1>11 DEF vars, AssessedInv, Scored
  <1> QED
    BY <1>1, <1>2, <1>3, <1>4, <1>5, <1>6, <1>7, <1>8, <1>9, <1>10, <1>11, StepCases

\* With every entry point in use and any overlap, a cleared declaration has a
\* score on record unless it was moved on before it was assessed.
THEOREM ClearancesWereAssessed == Spec => []ClearedWasAssessed
  <1>1. Init => AssessedInv
    BY DEF Init, AssessedInv, Draft, NoCall, Unassessed
  <1>2. TypeOK /\ AssessedInv /\ [Next]_vars => AssessedInv'
    BY AssessedStep
  <1>3. AssessedInv => ClearedWasAssessed
    BY DEF AssessedInv, Scored, Unassessed, ClearedWasAssessed
  <1> QED BY <1>1, <1>2, <1>3, TypeInit, TypeStep, PTL DEF Spec

-----------------------------------------------------------------------------
(* When Orderly: clearance keeps its gates.                                *)

\* One request is under way at most, and its copy is the row.
OrderInv ==
  /\ \A c, d \in Calls : call[c].op # "none" /\ call[d].op # "none" => c = d
  /\ \A c \in Calls : call[c].op # "none" =>
       /\ call[c].op \in Entries
       /\ call[c].copy = decl
       /\ Admits(call[c].op, call[c].to, decl)
  /\ decl.status = "examination_complete" => examined
  /\ HoldDischarged
  /\ ReviewRecorded

\* What a write has to show: the row's own part of OrderInv.
RowInv ==
  /\ decl.status = "examination_complete" => examined
  /\ HoldDischarged
  /\ ReviewRecorded

LEMMA OrderWrite ==
  ASSUME OrderInv, NEW c \in Calls, call[c].op # "none", Ended(c), RowInv'
  PROVE  OrderInv'
  <1>1. \A d \in Calls : call'[d].op = "none"
    BY DEF OrderInv, Ended
  <1> QED BY <1>1 DEF OrderInv, RowInv

\* How a write that moves the status may leave the row.
LEMMA StatusWrite ==
  ASSUME Orderly, TypeOK, OrderInv, NEW c \in Calls, NEW s \in Status,
         call[c].op \in {"updateStatus", "engineClear", "engineUpdate"}, call[c].to = s,
         decl'.status = s, decl'.lane = decl.lane, Reached(s),
         \/ decl'.explanation = decl.explanation
         \/ s = "examination_complete"
  PROVE  RowInv'
  <1>1. call[c].op \in Entries /\ Admits(call[c].op, s, decl)
    BY DEF OrderInv
  <1>3. s = "cleared" => ClearanceGate(decl)
    BY <1>1 DEF Admits, Orderly
  <1>4. examined => examined'
    BY ReachedEffect
  <1>5. s = "examination_complete" => examined'
    BY ReachedEffect
  <1>6. s = "cleared" => HoldDischarged' /\ ReviewRecorded'
    <2> SUFFICES ASSUME s = "cleared" PROVE HoldDischarged' /\ ReviewRecorded'
      OBVIOUS
    <2>1. NoHold(decl) /\ ~NeedsReview(decl) /\ decl'.explanation = decl.explanation
      BY <1>3 DEF ClearanceGate
    <2>2. decl.lane \in {"yellow", "red"} => examined
      BY <2>1 DEF NoHold, OrderInv
    <2> QED BY <1>4, <2>1, <2>2 DEF HoldDischarged, ReviewRecorded, NeedsReview
  <1>7. s # "cleared" => HoldDischarged' /\ ReviewRecorded'
    BY DEF HoldDischarged, ReviewRecorded
  <1> QED BY <1>5, <1>6, <1>7 DEF RowInv

LEMMA OrderStep ==
  ASSUME Orderly, TypeOK, OrderInv, [Next]_vars
  PROVE  OrderInv'
  <1>1. ASSUME NEW c \in Calls, NEW op \in EntryPoints, NEW to \in Status, Begin(c, op, to)
        PROVE OrderInv'
    <2>1. /\ UNCHANGED <<decl, examined>> /\ Admits(op, to, decl) /\ op \in Entries
          /\ \A d \in Calls : call[d].op = "none"
      BY <1>1 DEF Begin, Free, Orderly
    <2>2. /\ call'[c].copy = decl /\ call'[c].op = op /\ call'[c].to = to
          /\ \A d \in Calls : d # c => call'[d] = call[d]
      BY <1>1, BeginEffect
    <2>3. \A d \in Calls : call'[d].op # "none" => d = c
      BY <2>1, <2>2
    <2>4. RowInv'
      BY <2>1 DEF RowInv, OrderInv, HoldDischarged, ReviewRecorded, NeedsReview
    <2>5. /\ call'[c].op \in Entries /\ call'[c].copy = decl'
          /\ Admits(call'[c].op, call'[c].to, decl')
      BY <2>1, <2>2
    <2>6. \A d \in Calls : call'[d].op # "none" =>
            /\ call'[d].op \in Entries /\ call'[d].copy = decl'
            /\ Admits(call'[d].op, call'[d].to, decl')
      BY <2>3, <2>5
    <2> QED BY <2>1, <2>3, <2>4, <2>6 DEF OrderInv, RowInv
  <1>2. ASSUME NEW c \in Calls, Refuse(c) PROVE OrderInv'
    <2>1. Ended(c) /\ UNCHANGED <<decl, examined>> /\ call[c].op # "none"
      BY <1>2, EndEffect DEF Refuse
    <2>2. RowInv'
      BY <2>1 DEF RowInv, OrderInv, HoldDischarged, ReviewRecorded, NeedsReview
    <2> QED BY <2>1, <2>2, OrderWrite
  <1>3. ASSUME NEW c \in Calls, Submit(c) \/ EngineAssess(c) PROVE OrderInv'
    <2>1. Ended(c) /\ SetsLane
      BY <1>3, SubmitEffect, EngineAssessEffect
    <2>2. call[c].op \in {"submit", "engineAssess"}
      BY <1>3 DEF Submit, EngineAssess, End
    <2>3. RowInv'
      BY <2>1 DEF SetsLane, RowInv, HoldDischarged, ReviewRecorded
    <2> QED BY <2>1, <2>2, <2>3, OrderWrite
  <1>4. ASSUME NEW c \in Calls, AssessDuty(c) PROVE OrderInv'
    <2>1. /\ Ended(c) /\ decl'.status = decl.status /\ call[c].op = "assessDuty"
      BY <1>4, AssessDutyEffect DEF AssessDuty, End
    <2>2. decl.status \in {"under_assessment", "payment_pending"}
      BY <2>1 DEF OrderInv, Admits
    <2>3. RowInv'
      BY <2>1, <2>2 DEF RowInv, HoldDischarged, ReviewRecorded
    <2> QED BY <2>1, <2>3, OrderWrite
  <1>5. ASSUME NEW c \in Calls, UpdateStatus(c) \/ EngineSetsStatus(c) PROVE OrderInv'
    <2>1. /\ Ended(c) /\ decl'.status = call[c].to /\ decl'.lane = decl.lane
          /\ Reached(call[c].to)
          /\ \/ decl'.explanation = decl.explanation
             \/ call[c].to = "examination_complete"
      BY <1>5, UpdateStatusEffect, EngineSetsStatusEffect DEF SetsStatus
    <2>2. call[c].op \in {"updateStatus", "engineClear", "engineUpdate"} /\ call[c].to \in Status
      BY <1>5, CopyFields DEF UpdateStatus, EngineSetsStatus, End
    <2>3. RowInv'
      BY <2>1, <2>2, StatusWrite
    <2> QED BY <2>1, <2>2, <2>3, OrderWrite
  <1>6. ASSUME NEW c \in Calls, Cancel(c) \/ Initiate(c) \/ EngineSubmit(c) PROVE OrderInv'
    <2>1. \E s \in {"cancelled", "payment_pending", "submitted"} :
             decl' = [decl EXCEPT !.status = s] /\ s = call[c].to
      BY <1>6 DEF Cancel, Initiate, EngineSubmit, End, OrderInv, Admits
    <2>2. call' = [call EXCEPT ![c] = NoCall]
          /\ call[c].op \in {"cancel", "initiate", "engineSubmit"}
      BY <1>6 DEF Cancel, Initiate, EngineSubmit, End
    <2>3. /\ Ended(c) /\ decl'.status = call[c].to
          /\ decl'.status \in {"cancelled", "payment_pending", "submitted"}
      BY <2>1, <2>2, FixedStatusEffect DEF Status, OfficerTargets, SetsStatus
    <2>4. RowInv'
      BY <2>3 DEF RowInv, HoldDischarged, ReviewRecorded
    <2> QED BY <2>2, <2>3, <2>4, OrderWrite
  <1>7. ASSUME NEW s \in OfficerTargets, BulkUpdateStatus(s) PROVE OrderInv'
    BY <1>7 DEF BulkUpdateStatus, Orderly
  <1>8. ASSUME SanctionsHit PROVE OrderInv'
    BY <1>8 DEF SanctionsHit, Orderly
  <1>9. ASSUME NEW s \in {"rejected", "cleared"}, OgaCallback(s) PROVE OrderInv'
    BY <1>9 DEF OgaCallback, Orderly
  <1>10. ASSUME NEW c \in Calls, BulkApprove(c) PROVE OrderInv'
    <2>1. call[c].op = "bulkApprove" /\ call[c].op \in Entries
      BY <1>10 DEF BulkApprove, End, OrderInv
    <2> QED BY <2>1 DEF Orderly
  <1>11. CASE UNCHANGED vars
    BY <1>11 DEF vars, OrderInv, HoldDischarged, ReviewRecorded, NeedsReview
  <1> QED
    BY <1>1, <1>2, <1>3, <1>4, <1>5, <1>6, <1>7, <1>8, <1>9, <1>10, <1>11, StepCases

LEMMA OrderInit == Init => OrderInv
  BY DEF Init, OrderInv, HoldDischarged, ReviewRecorded, Draft, NoCall

LEMMA OrderInvariant ==
  ASSUME Orderly
  PROVE  Spec => [](TypeOK /\ OrderInv)
  <1>1. TypeOK /\ OrderInv /\ [Next]_vars => OrderInv'
    BY OrderStep
  <1> QED BY <1>1, OrderInit, TypeInit, TypeStep, PTL DEF Spec

\* A cleared declaration in a yellow or red lane was examined since it got
\* that lane.
THEOREM HoldsAreDischarged ==
  ASSUME Orderly
  PROVE  Spec => []HoldDischarged
  <1>1. OrderInv => HoldDischarged
    BY DEF OrderInv
  <1> QED BY <1>1, OrderInvariant, PTL

\* A cleared declaration that no model scored carries a recorded review.
THEOREM ReviewsAreRecorded ==
  ASSUME Orderly
  PROVE  Spec => []ReviewRecorded
  <1>1. OrderInv => ReviewRecorded
    BY DEF OrderInv
  <1> QED BY <1>1, OrderInvariant, PTL

-----------------------------------------------------------------------------
(* The table: what a call writes was admitted for the copy it read.        *)

AdmittedInv ==
  \A c \in Calls : call[c].op # "none" => Admits(call[c].op, call[c].to, call[c].copy)

LEMMA AdmittedStep == TypeOK /\ AdmittedInv /\ [Next]_vars => AdmittedInv'
  <1> SUFFICES ASSUME TypeOK, AdmittedInv, [Next]_vars PROVE AdmittedInv'
    OBVIOUS
  <1>1. ASSUME NEW c \in Calls, NEW op \in EntryPoints, NEW to \in Status, Begin(c, op, to)
        PROVE AdmittedInv'
    <2>1. /\ call'[c].op = op /\ call'[c].to = to /\ call'[c].copy = decl
          /\ \A d \in Calls : d # c => call'[d] = call[d]
      BY <1>1, BeginEffect
    <2>2. Admits(call'[c].op, call'[c].to, call'[c].copy)
      BY <1>1, <2>1 DEF Begin
    <2> QED BY <2>1, <2>2 DEF AdmittedInv
  <1>2. ASSUME NEW c \in Calls, call' = [call EXCEPT ![c] = NoCall] PROVE AdmittedInv'
    BY <1>2, EndEffect DEF Ended, AdmittedInv
  <1>3. ASSUME UNCHANGED call PROVE AdmittedInv'
    BY <1>3 DEF AdmittedInv
  <1> QED
    BY <1>1, <1>2, <1>3, StepCases
       DEF Refuse, Submit, AssessDuty, UpdateStatus, Cancel, Initiate, EngineSubmit,
           EngineAssess, EngineSetsStatus, BulkApprove, End, BulkUpdateStatus, OgaCallback,
           SanctionsHit, vars

\* A call that asks the state machine leaves the status, or moves it along the
\* table from the status of its copy.
LEMMA AskedWrite ==
  ASSUME TypeOK, AdmittedInv, NEW c \in Calls, Write(c)
  PROVE  \/ decl'.status = decl.status
         \/ decl'.status \in VALID_TRANSITIONS[call[c].copy.status]
         \/ decl'.status = call[c].copy.status
  <1>1. ASSUME call[c].op # "none" PROVE Admits(call[c].op, call[c].to, call[c].copy)
    BY <1>1 DEF AdmittedInv
  <1>2. CASE Submit(c) \/ EngineAssess(c)
    <2>1. decl'.status = "under_assessment" /\ call[c].op \in {"submit", "engineAssess"}
      BY <1>2, SubmitEffect, EngineAssessEffect DEF SetsLane, Submit, EngineAssess, End
    <2> QED BY <1>1, <2>1 DEF Admits, CanTransition, VALID_TRANSITIONS
  <1>3. CASE AssessDuty(c)
    BY <1>3, AssessDutyEffect
  <1>4. CASE UpdateStatus(c) \/ EngineSetsStatus(c)
    <2>1. /\ decl'.status = call[c].to
          /\ call[c].op \in {"updateStatus", "engineClear", "engineUpdate"}
      BY <1>4, UpdateStatusEffect, EngineSetsStatusEffect
         DEF UpdateStatus, EngineSetsStatus, End, SetsStatus
    <2> QED BY <1>1, <2>1 DEF Admits, CanTransition
  <1>5. CASE Cancel(c) \/ Initiate(c) \/ EngineSubmit(c)
    <2>1. call[c].op \in {"cancel", "initiate", "engineSubmit"}
      BY <1>5 DEF Cancel, Initiate, EngineSubmit, End
    <2>2. \E s \in {"cancelled", "payment_pending", "submitted"} :
             decl' = [decl EXCEPT !.status = s] /\ s = call[c].to
      BY <1>1, <1>5, <2>1 DEF Cancel, Initiate, EngineSubmit, End, Admits
    <2>3. decl'.status = call[c].to
      BY <2>2, UnreadEffect DEF Status, OfficerTargets, SetsStatus
    <2> QED BY <1>1, <2>1, <2>3 DEF Admits, CanTransition, VALID_TRANSITIONS
  <1> QED BY <1>2, <1>3, <1>4, <1>5 DEF Write

LEMMA TableStep ==
  ASSUME TypeOK, AdmittedInv, [Next]_vars, decl'.status # decl.status
  PROVE  \/ decl'.status \in VALID_TRANSITIONS[decl.status]
         \/ UnaskedWrite
         \/ \E c \in Calls : StaleWrite(c)
  <1>1. ASSUME NEW c \in Calls, Write(c)
        PROVE  decl'.status \in VALID_TRANSITIONS[decl.status] \/ StaleWrite(c)
    BY <1>1, AskedWrite DEF StaleWrite
  <1>2. (\E c \in Calls : Write(c)) \/ UnaskedWrite
    BY DEF Next, vars, Begin, Refuse, UnaskedWrite
  <1> QED BY <1>1, <1>2

\* The status leaves VALID_TRANSITIONS only by a writer that asks nobody or by a
\* call whose copy went stale, for every entry point and any overlap.
THEOREM TableIsFollowed == Spec => StatusFollowsTable
  <1>1. Init => AdmittedInv
    BY DEF Init, AdmittedInv, NoCall
  <1>2. TypeOK /\ AdmittedInv /\ [Next]_vars =>
          [decl'.status # decl.status =>
             \/ decl'.status \in VALID_TRANSITIONS[decl.status]
             \/ UnaskedWrite
             \/ \E c \in Calls : StaleWrite(c)]_vars
    BY TableStep
  <1> QED BY <1>1, <1>2, AdmittedStep, TypeInit, TypeStep, PTL DEF Spec, StatusFollowsTable

-----------------------------------------------------------------------------
(* When requests do not overlap, no copy goes stale.                       *)

FreshInv ==
  /\ \A c, d \in Calls : call[c].op # "none" /\ call[d].op # "none" => c = d
  /\ \A c \in Calls : call[c].op # "none" => call[c].copy = decl

LEMMA FreshStep ==
  ASSUME ~Overlap, TypeOK, FreshInv, [Next]_vars
  PROVE  FreshInv'
  <1>1. ASSUME NEW c \in Calls, NEW op \in EntryPoints, NEW to \in Status, Begin(c, op, to)
        PROVE FreshInv'
    <2>1. decl' = decl /\ \A d \in Calls : call[d].op = "none"
      BY <1>1 DEF Begin, Free
    <2>2. call'[c].copy = decl /\ \A d \in Calls : d # c => call'[d] = call[d]
      BY <1>1, BeginEffect
    <2> QED BY <2>1, <2>2 DEF FreshInv
  <1>2. ASSUME NEW c \in Calls, call[c].op # "none", call' = [call EXCEPT ![c] = NoCall]
        PROVE  FreshInv'
    <2>1. Ended(c)
      BY <1>2, EndEffect
    <2>2. \A d \in Calls : call'[d].op = "none"
      BY <1>2, <2>1 DEF FreshInv, Ended
    <2> QED BY <2>2 DEF FreshInv
  <1>3. ASSUME Free, UNCHANGED call PROVE FreshInv'
    BY <1>3 DEF Free, FreshInv
  <1>4. CASE UNCHANGED vars
    BY <1>4 DEF vars, FreshInv
  <1> QED
    BY <1>1, <1>2, <1>3, <1>4, StepCases
       DEF Refuse, Submit, AssessDuty, UpdateStatus, Cancel, Initiate, EngineSubmit,
           EngineAssess, EngineSetsStatus, BulkApprove, End, BulkUpdateStatus, OgaCallback,
           SanctionsHit

\* While no two requests overlap, only a writer that asks nobody takes a
\* declaration out of "cleared" or "cancelled": every entry point is in use.
THEOREM TerminalStatesAreFinal ==
  ASSUME ~Overlap
  PROVE  Spec => TerminalUnlessUnasked
  <1>1. VALID_TRANSITIONS["cleared"] = {} /\ VALID_TRANSITIONS["cancelled"] = {}
    BY DEF VALID_TRANSITIONS
  <1>2. Init => AdmittedInv /\ FreshInv
    BY DEF Init, AdmittedInv, FreshInv, NoCall
  <1>3. ASSUME FreshInv, NEW c \in Calls, StaleWrite(c) PROVE FALSE
    <2>1. call[c].op # "none"
      BY <1>3 DEF StaleWrite, Write, Submit, AssessDuty, UpdateStatus, Cancel, Initiate,
         EngineSubmit, EngineAssess, EngineSetsStatus, End
    <2> QED BY <1>3, <2>1 DEF StaleWrite, FreshInv
  <1>4. TypeOK /\ AdmittedInv /\ FreshInv /\ [Next]_vars =>
          [decl.status \in {"cleared", "cancelled"} =>
             decl'.status = decl.status \/ UnaskedWrite]_vars
    BY <1>1, <1>3, TableStep
  <1>5. TypeOK /\ FreshInv /\ [Next]_vars => FreshInv'
    BY FreshStep
  <1> QED
    BY <1>2, <1>4, <1>5, AdmittedStep, TypeInit, TypeStep, PTL DEF Spec, TerminalUnlessUnasked
=============================================================================
