------------------------ MODULE PaymentQueue_proofs ------------------------
(***************************************************************************)
(* What PaymentQueue keeps for every value of its constants: its types,    *)
(* that credits follow debits, how alone two cycles come to share a row    *)
(* and, where the switch settles before it answers, that committed rows    *)
(* are settled.  And what it keeps when no row outlasts the heartbeat      *)
(* timeout in a live cycle and a single administrator retries dead letters *)
(* (Timely): the other safety properties, what a dead letter costs, and    *)
(* that the queue implements TransferLedger.                               *)
(***************************************************************************)
EXTENDS PaymentQueueClaims, FiniteSetTheorems, TLAPS

(* A cycle holds rows only while it works, and then has one of them in hand. *)
HandsInv ==
  \A c \in Cycles :
    /\ pc[c] \in {"idle", "claim"} => todo[c] = {}
    /\ pc[c] \in Working => item[c] \in todo[c]
    /\ pc[c] \notin Working => item[c] = None

\* The status of a row that a cycle holds says how far the cycle got with it.
StatusInv ==
  \A c \in Cycles : \A i \in todo[c] :
    /\ ~row[i].aged
    /\ item[c] # i => row[i].status = "processing"
    /\ item[c] = i =>
         /\ pc[c] \in {"prepare", "fulfil", "commit", "fail"} => row[i].status = "processing"
         /\ pc[c] \in {"debit", "credit"} => row[i].status = "committed"
         /\ pc[c] = "requeue" =>
              row[i].status \in {"processing", "committed", "failed", "dead_letter"}

\* The administrator's selection is stale only in rows that nobody touches.
SelectedInv ==
  \A a \in Admins : \A i \in selected[a] :
    row[i].status = "dead_letter" /\ ~Held(i)

\* The copy of a row agrees with the row on the preimage, and every condition
\* that reached the switch is the one of the preimage stored in the row.
PreimageInv ==
  /\ \A c \in Cycles : \A i \in todo[c] :
       /\ item[c] # i => snap[c][i].preimage = row[i].preimage
       /\ item[c] = i /\ pc[c] \in {"prepare", "fulfil"} =>
            snap[c][i].preimage = row[i].preimage /\ row[i].preimage # 0
  /\ \A i \in Items : \A p \in prepared[i] : p = row[i].preimage /\ p # 0

\* A row that is not committed, or whose cycle has yet to post, has no posting.
PostingInv ==
  /\ \A i \in Items :
       /\ row[i].status # "committed" => mirror[i].debit = 0
       /\ mirror[i].credit <= mirror[i].debit
       /\ mirror[i].debit <= 1
  /\ \A c \in Cycles :
       /\ pc[c] \in {"debit", "requeue"} => mirror[item[c]].debit = 0
       /\ pc[c] = "credit" => mirror[item[c]].debit = 1 /\ mirror[item[c]].credit = 0

\* With a switch that settles at once, a success it reported is settled.
SettledInv ==
  ~AsyncSwitch =>
    /\ \A i \in Items : row[i].status = "committed" => switch[i].state = "committed"
    /\ \A c \in Cycles : pc[c] = "commit" => switch[item[c]].state = "committed"

QueueInv ==
  /\ TypeOK
  /\ HandsInv
  /\ ExclusiveClaim
  /\ StatusInv
  /\ SelectedInv
  /\ PreimageInv
  /\ PostingInv
  /\ SettledInv

-----------------------------------------------------------------------------
LEMMA TypeInit == Init => TypeOK
  BY QueueAssumption DEF Init, TypeOK, Row, Status, Stage, Working, Copy, NoCopy,
     Transfer, Posting

\* Going to the next row keeps the types of a cycle's four variables.
LEMMA NextItemType ==
  ASSUME TypeOK, NEW c \in Cycles, item[c] \in Items, NextItem(c)
  PROVE  /\ pc' \in [Cycles -> Stage]
         /\ todo' \in [Cycles -> SUBSET Items]
         /\ item' \in [Cycles -> Items \cup {None}]
         /\ snap' \in [Cycles -> [Items -> Copy]]
  BY DEF NextItem, TypeOK, Stage, Working, Copy, NoCopy

\* The fields that the steps overwrite keep a row a row.
LEMMA RowType ==
  ASSUME NEW r \in Row, NEW s \in Status, NEW d \in {"null", "later", "now"}, NEW b \in BOOLEAN
  PROVE  /\ [r EXCEPT !.status = s] \in Row
         /\ [r EXCEPT !.due = d] \in Row
         /\ [r EXCEPT !.aged = b] \in Row
         /\ [r EXCEPT !.status = s, !.due = d] \in Row
         /\ [r EXCEPT !.status = s, !.aged = b] \in Row
         /\ [r EXCEPT !.status = s, !.due = d, !.aged = b] \in Row
         /\ [r EXCEPT !.status = s, !.attempt = 0, !.due = d, !.aged = b] \in Row
  BY DEF Row

\* The three row updates of a cycle.
LEMMA UpdateType ==
  ASSUME TypeOK, NEW c \in Cycles, NEW i \in Items
  PROVE  /\ item[c] \in Items => Failed(c) \in [Items -> Row]
         /\ Committed(i) \in [Items -> Row]
         /\ Stored(i) \in [Items -> Row]
  <1>1. ASSUME NEW r \in Row, NEW n \in Nat  PROVE AfterFailure(r, n) \in Row
    <2>1. CASE n >= MaxAttempts
      BY <2>1 DEF AfterFailure, Row, Status
    <2>2. CASE ~(n >= MaxAttempts)
      BY <2>2 DEF AfterFailure, Row, Status
    <2> QED BY <2>1, <2>2
  <1>2. item[c] \in Items => Failed(c) \in [Items -> Row]
    <2> SUFFICES ASSUME item[c] \in Items PROVE Failed(c) \in [Items -> Row]
      OBVIOUS
    <2>1. row[item[c]] \in Row /\ snap[c][item[c]].attempt + 1 \in Nat
      BY DEF TypeOK, Copy
    <2>2. AfterFailure(row[item[c]], snap[c][item[c]].attempt + 1) \in Row
      BY <1>1, <2>1
    <2> QED BY <2>2 DEF Failed, TypeOK
  <1>3. Committed(i) \in [Items -> Row]
    <2>1. row[i] \in Row /\ "committed" \in Status
      BY DEF TypeOK, Status
    <2>2. [row[i] EXCEPT !.status = "committed", !.aged = FALSE] \in Row
      BY <2>1, RowType
    <2> QED BY <2>2 DEF Committed, TypeOK
  <1>4. Stored(i) \in [Items -> Row]
    <2>1. drawn[i] + 1 \in Nat /\ row[i] \in Row
      BY DEF TypeOK
    <2>2. [row[i] EXCEPT !.preimage = drawn[i] + 1, !.aged = FALSE] \in Row
      BY <2>1 DEF Row
    <2> QED BY <2>2 DEF Stored, TypeOK
  <1> QED BY <1>2, <1>3, <1>4

LEMMA TypeStep ==
  ASSUME TypeOK, HandsInv, [Next]_vars
  PROVE  TypeOK'
  <1>1. ASSUME NEW i \in Items, Enqueue(i) \/ EnqueueInitiated(i)  PROVE TypeOK'
    <2>1. row[i] \in Row /\ "queued" \in Status
      BY DEF TypeOK, Status
    <2>2. row' \in [Items -> Row]
      <3>1. /\ [row[i] EXCEPT !.status = "queued", !.due = "now"] \in Row
            /\ [row[i] EXCEPT !.status = "queued"] \in Row
        BY <2>1, RowType
      <3> QED BY <1>1, <3>1 DEF TypeOK, Enqueue, EnqueueInitiated
    <2> QED BY <1>1, <2>2 DEF TypeOK, Enqueue, EnqueueInitiated, cycleVars, switchVars
  <1>2. ASSUME NEW c \in Cycles, Start(c)  PROVE TypeOK'
    <2>1. ASSUME NEW i \in Items
          PROVE  [row[i] EXCEPT !.status = "queued", !.due = "now", !.aged = FALSE] \in Row
      <3>1. row[i] \in Row /\ "queued" \in Status
        BY DEF TypeOK, Status
      <3> QED BY <3>1, RowType
    <2>2. row' \in [Items -> Row]
      BY <1>2, <2>1 DEF TypeOK, Start
    <2> QED BY <1>2, <2>2 DEF TypeOK, Start, Stage, switchVars
  <1>3. ASSUME NEW c \in Cycles, Claim(c)  PROVE TypeOK'
    <2>1. PICK S \in SUBSET Claimable :
            /\ row' = [i \in Items |-> IF i \in S
                                       THEN [row[i] EXCEPT !.status = "processing", !.aged = FALSE]
                                       ELSE row[i]]
            /\ todo' = [todo EXCEPT ![c] = S]
            /\ snap' = [snap EXCEPT ![c] =
                 [i \in Items |-> IF i \in S
                                  THEN [attempt |-> row[i].attempt, preimage |-> row[i].preimage]
                                  ELSE NoCopy]]
            /\ pc' = [pc EXCEPT ![c] = IF S = {} THEN "idle" ELSE "next"]
      BY <1>3 DEF Claim
    <2>2. ASSUME NEW i \in Items
          PROVE  /\ [row[i] EXCEPT !.status = "processing", !.aged = FALSE] \in Row
                 /\ [attempt |-> row[i].attempt, preimage |-> row[i].preimage] \in Copy
                 /\ NoCopy \in Copy
      <3>1. row[i] \in Row /\ "processing" \in Status
        BY DEF TypeOK, Status
      <3>2. [attempt |-> row[i].attempt, preimage |-> row[i].preimage] \in Copy
        BY <3>1 DEF Row, Copy
      <3>3. [row[i] EXCEPT !.status = "processing", !.aged = FALSE] \in Row
        BY <3>1, RowType
      <3> QED BY <3>2, <3>3 DEF Copy, NoCopy
    <2>3. row' \in [Items -> Row] /\ snap' \in [Cycles -> [Items -> Copy]]
      BY <2>1, <2>2 DEF TypeOK
    <2> QED BY <1>3, <2>1, <2>3 DEF TypeOK, Claim, Claimable, Stage, switchVars
  <1>4. ASSUME NEW c \in Cycles, NEW i \in Items, EnsurePreimage(c, i)  PROVE TypeOK'
    <2>1. row' \in [Items -> Row]
      BY <1>4, UpdateType DEF TypeOK, EnsurePreimage
    <2>2. snap' \in [Cycles -> [Items -> Copy]]
      <3>1. drawn[i] + 1 \in Nat /\ snap[c] \in [Items -> Copy]
        BY DEF TypeOK
      <3>2. [snap[c] EXCEPT ![i].preimage = drawn[i] + 1] \in [Items -> Copy]
        BY <3>1 DEF Copy
      <3>3. \/ snap' = snap
            \/ snap' = [snap EXCEPT ![c] = [snap[c] EXCEPT ![i].preimage = drawn[i] + 1]]
        BY <1>4 DEF EnsurePreimage
      <3> QED BY <3>2, <3>3 DEF TypeOK
    <2>3. drawn' \in [Items -> Nat]
      <3>1. drawn' = drawn \/ drawn' = [drawn EXCEPT ![i] = drawn[i] + 1]
        BY <1>4 DEF EnsurePreimage
      <3> QED BY <3>1 DEF TypeOK
    <2>4. item' \in [Cycles -> Items \cup {None}] /\ pc' \in [Cycles -> Stage]
      BY <1>4 DEF TypeOK, EnsurePreimage, Stage, Working
    <2> QED BY <1>4, <2>1, <2>2, <2>3, <2>4 DEF TypeOK, EnsurePreimage, switchVars
  <1>5. ASSUME NEW c \in Cycles, NEW i \in Items, EnsurePreimageFails(c, i)  PROVE TypeOK'
    <2>1. row' \in [Items -> Row]
      BY <1>5, UpdateType DEF TypeOK, EnsurePreimageFails
    <2> QED BY <1>5, <2>1 DEF TypeOK, EnsurePreimageFails, Fault, Stage, Working, switchVars
  <1>6. ASSUME NEW c \in Cycles, Prepare(c)  PROVE TypeOK'
    <2>1. item[c] \in Items
      BY <1>6 DEF Prepare, HandsInv, Working, TypeOK
    <2>2. snap[c][item[c]].preimage \in Nat
      BY <2>1 DEF TypeOK, Copy
    <2>3. switch' \in [Items -> Transfer] /\ prepared' \in [Items -> SUBSET Nat]
      BY <1>6, <2>1, <2>2 DEF Prepare, TypeOK, Transfer
    <2> QED BY <1>6, <2>3 DEF Prepare, TypeOK, Stage, Working
  <1>7. ASSUME NEW c \in Cycles, Fulfil(c)  PROVE TypeOK'
    <2>1. item[c] \in Items
      BY <1>7 DEF Fulfil, HandsInv, Working, TypeOK
    <2>2. snap[c][item[c]].preimage \in Nat
      BY <2>1 DEF TypeOK, Copy
    <2>3. switch' \in [Items -> Transfer]
      <3>1. [switch EXCEPT ![item[c]].state = "committed"] \in [Items -> Transfer]
        BY <2>1 DEF TypeOK, Transfer
      <3> QED BY <1>7, <3>1 DEF Fulfil, TypeOK
    <2>4. fulfilling' \in SUBSET (Items \X Nat)
      BY <1>7, <2>1, <2>2 DEF Fulfil, TypeOK
    <2>5. pc' \in [Cycles -> Stage]
      BY <1>7 DEF Fulfil, TypeOK, Stage, Working
    <2> QED BY <1>7, <2>3, <2>4, <2>5 DEF Fulfil, TypeOK
  <1>8. ASSUME NEW c \in Cycles, CallFails(c)  PROVE TypeOK'
    BY <1>8 DEF CallFails, TypeOK, Stage, Working, switchVars
  <1>9. ASSUME NEW c \in Cycles, Commit(c) \/ WriteFails(c)  PROVE TypeOK'
    <2>1. item[c] \in Items
      BY <1>9 DEF Commit, WriteFails, HandsInv, Working, TypeOK
    <2>2. row' \in [Items -> Row]
      BY <1>9, <2>1, UpdateType DEF Commit, WriteFails, TypeOK
    <2>3. pc' \in [Cycles -> Stage]
      BY <1>9 DEF Commit, WriteFails, TypeOK, Stage, Working
    <2> QED BY <1>9, <2>2, <2>3 DEF Commit, WriteFails, Fault, TypeOK, switchVars
  <1>10. ASSUME NEW c \in Cycles, Fail(c)  PROVE TypeOK'
    <2>1. item[c] \in Items
      BY <1>10 DEF Fail, HandsInv, Working, TypeOK
    <2> QED BY <1>10, <2>1, UpdateType, NextItemType DEF Fail, TypeOK, switchVars
  <1>11. ASSUME NEW c \in Cycles, PostDebit(c)  PROVE TypeOK'
    <2>1. item[c] \in Items
      BY <1>11 DEF PostDebit, HandsInv, Working, TypeOK
    <2>2. mirror' \in [Items -> Posting]
      BY <1>11, <2>1 DEF PostDebit, TypeOK, Posting
    <2> QED BY <1>11, <2>2 DEF PostDebit, TypeOK, Stage, Working, switchVars
  <1>12. ASSUME NEW c \in Cycles, PostCredit(c) \/ PostFails(c)  PROVE TypeOK'
    <2>1. item[c] \in Items
      BY <1>12 DEF PostCredit, PostFails, HandsInv, Working, TypeOK
    <2>2. mirror' \in [Items -> Posting]
      <3>1. mirror \in [Items -> Posting] /\ mirror[item[c]] \in Posting
        BY <2>1 DEF TypeOK
      <3>2. CASE PostFails(c)
        BY <3>1, <3>2 DEF PostFails
      <3>3. CASE PostCredit(c)
        <4>1. mirror' = [mirror EXCEPT ![item[c]].credit = mirror[item[c]].credit + 1]
          BY <3>3 DEF PostCredit
        <4>2. [mirror[item[c]] EXCEPT !.credit = mirror[item[c]].credit + 1] \in Posting
          BY <3>1 DEF Posting
        <4> QED BY <2>1, <3>1, <4>1, <4>2
      <3> QED BY <1>12, <3>2, <3>3
    <2>3. NextItem(c)
      BY <1>12 DEF PostCredit, PostFails
    <2> QED BY <1>12, <2>1, <2>2, <2>3, NextItemType DEF PostCredit, PostFails, Fault, TypeOK, switchVars
  <1>13. ASSUME NEW c \in Cycles, Requeue(c)  PROVE TypeOK'
    <2>1. item[c] \in Items
      BY <1>13 DEF Requeue, HandsInv, Working, TypeOK
    <2>2. row' \in [Items -> Row]
      <3>1. row[item[c]] \in Row /\ "queued" \in Status
        BY <2>1 DEF TypeOK, Status
      <3>2. [row[item[c]] EXCEPT !.status = "queued", !.due = "later", !.aged = FALSE] \in Row
        BY <3>1, RowType
      <3> QED BY <1>13, <2>1, <3>2 DEF Requeue, TypeOK
    <2> QED BY <1>13, <2>1, <2>2, NextItemType DEF Requeue, TypeOK, switchVars
  <1>14. ASSUME NEW c \in Cycles, Crash(c)  PROVE TypeOK'
    BY <1>14 DEF Crash, Fault, TypeOK, Stage, Copy, NoCopy, switchVars
  <1>15. ASSUME NEW a \in Admins, SelectDeadLetters(a) \/ RetrySelected(a)  PROVE TypeOK'
    <2>1. ASSUME NEW i \in Items
          PROVE  [row[i] EXCEPT !.status = "queued", !.attempt = 0, !.due = "now",
                                !.aged = FALSE] \in Row
      <3>1. row[i] \in Row /\ "queued" \in Status
        BY DEF TypeOK, Status
      <3> QED BY <3>1, RowType
    <2>2. row' \in [Items -> Row]
      <3>1. CASE SelectDeadLetters(a)
        BY <3>1 DEF SelectDeadLetters, TypeOK
      <3>2. CASE RetrySelected(a)
        BY <3>2, <2>1 DEF RetrySelected, TypeOK
      <3> QED BY <1>15, <3>1, <3>2
    <2>3. selected' \in [Admins -> SUBSET Items]
      <3>1. CASE SelectDeadLetters(a)
        BY <3>1 DEF SelectDeadLetters, TypeOK
      <3>2. CASE RetrySelected(a)
        BY <3>2 DEF RetrySelected, TypeOK
      <3> QED BY <1>15, <3>1, <3>2
    <2>4. UNCHANGED <<pc, todo, item, snap, switch, fulfilling, prepared, drawn, mirror, faults>>
      BY <1>15 DEF SelectDeadLetters, RetrySelected, cycleVars, switchVars
    <2> QED BY <2>2, <2>3, <2>4 DEF TypeOK
  <1>16. ASSUME NEW i \in Items, BackoffElapses(i) \/ Age(i) \/ SwitchExpires(i)
         PROVE  TypeOK'
    <2>1. row' \in [Items -> Row]
      <3>1. row[i] \in Row
        BY DEF TypeOK
      <3>2. [row[i] EXCEPT !.due = "now"] \in Row /\ [row[i] EXCEPT !.aged = TRUE] \in Row
        BY <3>1 DEF Row
      <3> QED BY <1>16, <3>2 DEF BackoffElapses, Age, SwitchExpires, TypeOK
    <2>2. switch' \in [Items -> Transfer]
      BY <1>16 DEF BackoffElapses, Age, SwitchExpires, TypeOK, Transfer, switchVars
    <2> QED BY <1>16, <2>1, <2>2 DEF BackoffElapses, Age, SwitchExpires, TypeOK, cycleVars, switchVars
  <1>17. ASSUME NEW i \in Items, NEW p \in Nat, SwitchDecides(i, p)  PROVE TypeOK'
    BY <1>17 DEF SwitchDecides, TypeOK, Transfer, cycleVars
  <1>18. ASSUME UNCHANGED vars  PROVE TypeOK'
    BY <1>18 DEF vars, cycleVars, switchVars, TypeOK
  <1>19. \A f \in fulfilling : f[1] \in Items /\ f[2] \in Nat
    BY DEF TypeOK
  <1> QED
    BY <1>1, <1>2, <1>3, <1>4, <1>5, <1>6, <1>7, <1>8, <1>9, <1>10, <1>11, <1>12, <1>13,
       <1>14, <1>15, <1>16, <1>17, <1>18, <1>19
    DEF Next, CycleStep, CycleFault

\* A cycle that works has one of its rows in hand, and no other cycle has.
LEMMA HandsStep ==
  ASSUME TypeOK, HandsInv, [Next]_vars
  PROVE  HandsInv'
  <1> USE DEF TypeOK, HandsInv, Working
  <1>1. ASSUME NEW i \in Items, Enqueue(i) \/ EnqueueInitiated(i)  PROVE HandsInv'
    BY <1>1 DEF Enqueue, EnqueueInitiated, cycleVars
  <1>2. ASSUME NEW c \in Cycles, Start(c)  PROVE HandsInv'
    BY <1>2 DEF Start
  <1>3. ASSUME NEW c \in Cycles, Claim(c)  PROVE HandsInv'
    BY <1>3 DEF Claim
  <1>4. ASSUME NEW c \in Cycles, NEW i \in Items,
               EnsurePreimage(c, i) \/ EnsurePreimageFails(c, i)
        PROVE  HandsInv'
    BY <1>4 DEF EnsurePreimage, EnsurePreimageFails
  <1>5. ASSUME NEW c \in Cycles, Prepare(c) \/ Fulfil(c) \/ CallFails(c)  PROVE HandsInv'
    BY <1>5 DEF Prepare, Fulfil, CallFails
  <1>6. ASSUME NEW c \in Cycles, Commit(c) \/ WriteFails(c) \/ PostDebit(c)  PROVE HandsInv'
    BY <1>6 DEF Commit, WriteFails, PostDebit
  <1>7. ASSUME NEW c \in Cycles, NextItem(c)  PROVE HandsInv'
    BY <1>7 DEF NextItem
  <1>8. ASSUME NEW c \in Cycles, Fail(c) \/ PostCredit(c) \/ PostFails(c) \/ Requeue(c)
        PROVE  HandsInv'
    BY <1>7, <1>8 DEF Fail, PostCredit, PostFails, Requeue
  <1>9. ASSUME NEW c \in Cycles, Crash(c)  PROVE HandsInv'
    BY <1>9 DEF Crash
  <1>10. ASSUME UNCHANGED cycleVars  PROVE HandsInv'
    BY <1>10 DEF cycleVars
  <1> QED
    BY <1>1, <1>2, <1>3, <1>4, <1>5, <1>6, <1>8, <1>9, <1>10
    DEF Next, CycleStep, CycleFault, SelectDeadLetters, RetrySelected, BackoffElapses, Age,
        SwitchExpires, SwitchDecides, vars, cycleVars

\* The type invariant of the run, for every value of the constants: the worker
\* never writes a status, a stage or a count outside its domain.
THEOREM TypeCorrect == Spec => []TypeOK
  <1>1. Init => TypeOK /\ HandsInv
    BY TypeInit DEF Init, HandsInv, Working
  <1>2. TypeOK /\ HandsInv /\ [Next]_vars => TypeOK' /\ HandsInv'
    BY TypeStep, HandsStep
  <1> QED BY <1>1, <1>2, PTL DEF Spec

-----------------------------------------------------------------------------
\* What the invariant says of a row that a cycle holds, whatever its stage.
LEMMA HeldRow ==
  ASSUME QueueInv, NEW c \in Cycles, NEW i \in todo[c]
  PROVE  /\ i \in Items
         /\ row[i].status \in {"processing", "committed", "failed", "dead_letter"}
         /\ ~row[i].aged
         /\ item[c] = i => pc[c] \in Working
  <1>1. i \in Items /\ pc[c] \in Stage
    BY DEF QueueInv, TypeOK
  <1>2. item[c] = i => pc[c] \in Working
    BY <1>1, QueueAssumption DEF QueueInv, HandsInv
  <1>3. CASE item[c] = i
    BY <1>1, <1>2, <1>3 DEF QueueInv, StatusInv, Working
  <1>4. CASE item[c] # i
    BY <1>1, <1>4 DEF QueueInv, StatusInv
  <1> QED BY <1>1, <1>2, <1>3, <1>4

\* A row that one cycle has claimed is in processing, or the cycle has it in
\* hand; either way it is neither queued nor dead-lettered long ago, so that
\* no claim, no recovery and no retry touches it.
LEMMA ClaimStep ==
  ASSUME QueueInv, TypeOK', [Next]_vars
  PROVE  ExclusiveClaim'
  <1> USE DEF TypeOK, ExclusiveClaim
  <1>1. ASSUME NEW c \in Cycles, Claim(c)  PROVE ExclusiveClaim'
    <2>1. ASSUME NEW d \in Cycles, NEW i \in todo[d]  PROVE i \notin Claimable
      <3>1. row[i].status # "queued"
        BY HeldRow
      <3> QED BY <3>1 DEF Claimable
    <2>2. \E S \in SUBSET Claimable : todo' = [todo EXCEPT ![c] = S]
      BY <1>1 DEF Claim
    <2>3. todo[c] = {}
      BY <1>1 DEF Claim, QueueInv, HandsInv
    <2> QED BY <2>1, <2>2, <2>3 DEF QueueInv
  <1>2. ASSUME \A c \in Cycles : todo'[c] \subseteq todo[c]  PROVE ExclusiveClaim'
    BY <1>2 DEF QueueInv
  <1>3. ASSUME NEW c \in Cycles, CycleStep(c) \/ CycleFault(c), ~Claim(c)
        PROVE  \A d \in Cycles : todo'[d] \subseteq todo[d]
    <2>1. CASE NextItem(c)
      BY <2>1 DEF QueueInv, NextItem
    <2>2. CASE Crash(c)
      BY <2>2 DEF QueueInv, Crash
    <2>3. NextItem(c) \/ Crash(c) \/ UNCHANGED todo
      BY <1>3 DEF CycleStep, CycleFault, Start, EnsurePreimage, EnsurePreimageFails, Prepare,
         Fulfil, CallFails, Commit, WriteFails, PostDebit, PostCredit, PostFails, Fail, Requeue
    <2> QED BY <2>1, <2>2, <2>3
  <1>4. UNCHANGED todo => ExclusiveClaim'
    BY <1>2
  <1> QED
    BY <1>1, <1>2, <1>3, <1>4
    DEF Next, Enqueue, EnqueueInitiated, SelectDeadLetters, RetrySelected, BackoffElapses, Age,
        SwitchExpires, SwitchDecides, vars, cycleVars

\* A cycle takes a row in hand: it held it already, and had none in hand.
LEMMA TakeInHand ==
  ASSUME TypeOK, HandsInv, NEW c \in Cycles, NEW j \in Items,
         EnsurePreimage(c, j) \/ EnsurePreimageFails(c, j)
  PROVE  /\ j \in todo[c] /\ \A i \in Items : item[c] # i
         /\ UNCHANGED <<todo, prepared, mirror>>
         /\ item'[c] = j
         /\ EnsurePreimage(c, j) => pc'[c] = "prepare"
         /\ EnsurePreimageFails(c, j) => pc'[c] = "requeue" /\ UNCHANGED snap
  <1>1. /\ pc[c] = "next" /\ j \in todo[c]
        /\ UNCHANGED <<todo, prepared, mirror>>
        /\ item' = [item EXCEPT ![c] = j]
    BY DEF EnsurePreimage, EnsurePreimageFails, switchVars
  <1>2. \A i \in Items : item[c] # i
    BY <1>1, QueueAssumption DEF HandsInv, Working
  <1>3. item'[c] = j
    BY <1>1 DEF TypeOK
  <1>4. ASSUME EnsurePreimage(c, j) PROVE pc'[c] = "prepare"
    BY <1>4 DEF EnsurePreimage, TypeOK
  <1>5. ASSUME EnsurePreimageFails(c, j) PROVE pc'[c] = "requeue" /\ UNCHANGED snap
    BY <1>5 DEF EnsurePreimageFails, TypeOK
  <1> QED BY <1>1, <1>2, <1>3, <1>4, <1>5

-----------------------------------------------------------------------------
\* What the updates of a cycle leave in the row they write.
LEMMA UpdateFields ==
  ASSUME TypeOK, NEW c \in Cycles, NEW i \in Items
  PROVE  /\ Committed(i)[i].status = "committed" /\ Committed(i)[i].aged = FALSE
         /\ Committed(i)[i].preimage = row[i].preimage
         /\ Stored(i)[i].status = row[i].status /\ Stored(i)[i].aged = FALSE
         /\ Stored(i)[i].preimage = drawn[i] + 1
         /\ item[c] = i =>
              /\ Failed(c)[i].status \in {"failed", "dead_letter"} /\ Failed(c)[i].aged = FALSE
              /\ Failed(c)[i].preimage = row[i].preimage
  <1>1. row[i] \in Row
    BY DEF TypeOK
  <1>2. ASSUME NEW n  PROVE /\ AfterFailure(row[i], n).status \in {"failed", "dead_letter"}
                            /\ AfterFailure(row[i], n).aged = FALSE
                            /\ AfterFailure(row[i], n).preimage = row[i].preimage
    BY <1>1 DEF AfterFailure, Row
  <1>3. Committed(i)[i] = [row[i] EXCEPT !.status = "committed", !.aged = FALSE]
    BY DEF Committed, TypeOK
  <1>4. Stored(i)[i] = [row[i] EXCEPT !.preimage = drawn[i] + 1, !.aged = FALSE]
    BY DEF Stored, TypeOK
  <1>5. item[c] = i => \E n : Failed(c)[i] = AfterFailure(row[i], n)
    BY DEF Failed, TypeOK
  <1>6. /\ Committed(i)[i].status = "committed" /\ Committed(i)[i].aged = FALSE
        /\ Committed(i)[i].preimage = row[i].preimage
    BY <1>1, <1>3 DEF Row
  <1>7. /\ Stored(i)[i].status = row[i].status /\ Stored(i)[i].aged = FALSE
        /\ Stored(i)[i].preimage = drawn[i] + 1
    BY <1>1, <1>4 DEF Row
  <1> QED BY <1>2, <1>5, <1>6, <1>7

-----------------------------------------------------------------------------
(* Frames: what the steps of a cycle leave alone.                          *)

\* The step of a cycle that is past its claim touches no row but the ones it
\* holds, and the switch and the mirror only for the row it has in hand.
LEMMA RowFrame ==
  ASSUME QueueInv, NEW c \in Cycles, CycleStep(c) \/ CycleFault(c), ~Start(c), ~Claim(c),
         NEW j \in Items, j \notin todo[c]
  PROVE  row'[j] = row[j] /\ switch'[j] = switch[j] /\ prepared'[j] = prepared[j]
         /\ mirror'[j] = mirror[j]
  <1> USE DEF TypeOK, switchVars
  <1> TypeOK
    BY DEF QueueInv
  <1>1. pc[c] \in Working => item[c] \in Items /\ item[c] # j
    BY DEF QueueInv, HandsInv
  <1>2. ASSUME NEW i \in Items, EnsurePreimage(c, i) \/ EnsurePreimageFails(c, i)
        PROVE  row'[j] = row[j] /\ UNCHANGED <<switch, prepared, mirror>>
    BY <1>2 DEF EnsurePreimage, EnsurePreimageFails, Stored
  <1>3. CASE Prepare(c) \/ Fulfil(c)
    BY <1>1, <1>3 DEF Prepare, Fulfil, Working
  <1>4. CASE CallFails(c) \/ Crash(c)
    BY <1>4 DEF CallFails, Crash
  <1>5. CASE Commit(c) \/ WriteFails(c) \/ Fail(c)
    BY <1>1, <1>5 DEF Commit, WriteFails, Fail, Committed, Failed, Working
  <1>6. CASE PostDebit(c) \/ PostCredit(c) \/ PostFails(c)
    BY <1>1, <1>6 DEF PostDebit, PostCredit, PostFails, Working
  <1>7. CASE Requeue(c)
    BY <1>1, <1>7 DEF Requeue, Working
  <1> QED BY <1>2, <1>3, <1>4, <1>5, <1>6, <1>7 DEF CycleStep, CycleFault

\* The recovery of stuck rows and the claim change no row that is held or dead-lettered.
LEMMA ClaimFrame ==
  ASSUME QueueInv, NEW c \in Cycles, Start(c) \/ Claim(c), NEW j \in Items,
         Held(j) \/ row[j].status \notin {"queued", "processing"}
  PROVE  row'[j] = row[j]
  <1>1. Held(j) => row[j].status # "queued" /\ ~row[j].aged
    BY HeldRow DEF Held
  <1>2. CASE Start(c)
    BY <1>1, <1>2 DEF Start
  <1>3. CASE Claim(c)
    <2>1. j \notin Claimable
      BY <1>1 DEF Claimable
    <2>2. \E S \in SUBSET Claimable :
             row' = [i \in Items |-> IF i \in S
                                    THEN [row[i] EXCEPT !.status = "processing", !.aged = FALSE]
                                    ELSE row[i]]
      BY <1>3 DEF Claim
    <2> QED BY <2>1, <2>2
  <1> QED BY <1>2, <1>3

\* The step of one cycle does not move another.
LEMMA OtherCycles ==
  ASSUME TypeOK, NEW c \in Cycles, CycleStep(c) \/ CycleFault(c),
         NEW d \in Cycles, c # d
  PROVE  pc'[d] = pc[d] /\ todo'[d] = todo[d] /\ item'[d] = item[d] /\ snap'[d] = snap[d]
  BY DEF TypeOK, CycleStep, CycleFault, Start, Claim, EnsurePreimage, EnsurePreimageFails,
     Prepare, Fulfil, CallFails, Commit, WriteFails, PostDebit, PostCredit, PostFails,
     Fail, Requeue, Crash, NextItem

\* One cycle's step is invisible to another cycle and to the rows it holds.
LEMMA CycleFrame ==
  ASSUME QueueInv, NEW c \in Cycles, CycleStep(c) \/ CycleFault(c),
         NEW d \in Cycles, c # d
  PROVE  /\ pc'[d] = pc[d] /\ todo'[d] = todo[d] /\ item'[d] = item[d] /\ snap'[d] = snap[d]
         /\ \A i \in todo[d] : /\ row'[i] = row[i] /\ switch'[i] = switch[i]
                               /\ prepared'[i] = prepared[i] /\ mirror'[i] = mirror[i]
  <1> TypeOK
    BY DEF QueueInv
  <1>1. pc'[d] = pc[d] /\ todo'[d] = todo[d] /\ item'[d] = item[d] /\ snap'[d] = snap[d]
    BY OtherCycles
  <1>2. ASSUME NEW i \in todo[d]
        PROVE  /\ row'[i] = row[i] /\ switch'[i] = switch[i]
               /\ prepared'[i] = prepared[i] /\ mirror'[i] = mirror[i]
    <2>1. i \in Items /\ Held(i) /\ i \notin todo[c]
      BY HeldRow DEF Held, QueueInv, ExclusiveClaim
    <2>2. CASE Start(c) \/ Claim(c)
      BY <2>1, <2>2, ClaimFrame DEF Start, Claim, switchVars
    <2> QED BY <2>1, <2>2, RowFrame
  <1> QED BY <1>1, <1>2

\* The last step for a row: the cycle lets go of it and keeps the others as they are.
LEMMA Release ==
  ASSUME QueueInv, NEW c \in Cycles,
         Fail(c) \/ PostCredit(c) \/ PostFails(c) \/ Requeue(c) \/ Crash(c)
  PROVE  /\ item'[c] = None /\ pc'[c] \in {"idle", "next"}
         /\ UNCHANGED <<selected, switch, prepared>>
         /\ \A i \in todo'[c] : /\ i \in todo[c] /\ item[c] # i
                                /\ row'[i] = row[i] /\ snap'[c][i] = snap[c][i]
  <1> TypeOK /\ (pc[c] \in Working => item[c] \in todo[c] /\ item[c] \in Items)
    BY DEF QueueInv, HandsInv, TypeOK
  <1>1. CASE Fail(c) \/ PostCredit(c) \/ PostFails(c) \/ Requeue(c)
    <2>1. NextItem(c) /\ pc[c] \in Working /\ UNCHANGED <<selected, switch, prepared>>
      BY <1>1 DEF Fail, PostCredit, PostFails, Requeue, Working, switchVars
    <2>2. /\ item'[c] = None /\ pc'[c] \in {"idle", "next"}
          /\ todo'[c] = todo[c] \ {item[c]}
      BY <2>1 DEF NextItem, TypeOK
    <2>3. ASSUME NEW i \in todo'[c]
          PROVE  i \in todo[c] /\ item[c] # i /\ row'[i] = row[i] /\ snap'[c][i] = snap[c][i]
      <3>1. i \in todo[c] /\ i \in Items /\ item[c] # i
        BY <2>2 DEF TypeOK
      <3>2. row'[i] = row[i]
        BY <1>1, <3>1, <2>1 DEF Fail, Failed, PostCredit, PostFails, Requeue, TypeOK
      <3> QED BY <2>1, <3>1, <3>2 DEF NextItem, TypeOK
    <2> QED BY <2>1, <2>2, <2>3
  <1>2. CASE Crash(c)
    BY <1>2 DEF Crash, TypeOK, switchVars
  <1> QED BY <1>1, <1>2

\* What is not a step of a cycle moves no cycle, changes no row that a cycle
\* holds, and neither makes nor unmakes a commitment, a preimage or a posting.
LEMMA OtherFrame ==
  ASSUME Timely, QueueInv, [Next]_vars
  PROVE  \/ \E c \in Cycles : CycleStep(c) \/ CycleFault(c)
         \/ /\ UNCHANGED <<cycleVars, prepared, mirror>>
            /\ \A i \in Items :
                 /\ Held(i) => row'[i] = row[i]
                 /\ row'[i].preimage = row[i].preimage
                 /\ row'[i].status = "committed" <=> row[i].status = "committed"
                 /\ switch[i].state = "committed" => switch'[i].state = "committed"
  <1> TypeOK
    BY DEF QueueInv
  <1> DEFINE Frame ==
        /\ UNCHANGED <<cycleVars, prepared, mirror>>
        /\ \A i \in Items :
             /\ Held(i) => row'[i] = row[i]
             /\ row'[i].preimage = row[i].preimage
             /\ row'[i].status = "committed" <=> row[i].status = "committed"
             /\ switch[i].state = "committed" => switch'[i].state = "committed"
  <1>0. ASSUME NEW i \in Items, Held(i)
        PROVE  row[i].status \in {"processing", "committed", "failed", "dead_letter"}
    BY <1>0, HeldRow DEF Held
  <1>1. ASSUME NEW i \in Items, Enqueue(i) \/ EnqueueInitiated(i)  PROVE Frame
    <2>1. row[i].status = "absent" /\ ~Held(i) /\ row[i] \in Row
      BY <1>0, <1>1 DEF Enqueue, EnqueueInitiated, TypeOK
    <2>2. row'[i].preimage = row[i].preimage /\ row'[i].status = "queued"
      <3>1. \/ row'[i] = [row[i] EXCEPT !.status = "queued", !.due = "now"]
            \/ row'[i] = [row[i] EXCEPT !.status = "queued"]
        BY <1>1 DEF Enqueue, EnqueueInitiated, TypeOK
      <3> QED BY <2>1, <3>1 DEF Row
    <2>3. \A j \in Items \ {i} : row'[j] = row[j]
      BY <1>1 DEF Enqueue, EnqueueInitiated, TypeOK
    <2> QED BY <1>1, <2>1, <2>2, <2>3 DEF Enqueue, EnqueueInitiated, switchVars
  <1>2. ASSUME NEW a \in Admins, SelectDeadLetters(a)  PROVE Frame
    BY <1>2 DEF SelectDeadLetters, switchVars
  <1>3. ASSUME NEW a \in Admins, RetrySelected(a)  PROVE Frame
    <2>1. ASSUME NEW i \in Items
          PROVE  /\ Held(i) => row'[i] = row[i]
                 /\ row'[i].preimage = row[i].preimage
                 /\ row'[i].status = "committed" <=> row[i].status = "committed"
      <3>1. CASE i \in selected[a]
        <4>1. row[i].status = "dead_letter" /\ ~Held(i)
          BY <3>1 DEF QueueInv, SelectedInv
        <4>2. row'[i] = [row[i] EXCEPT !.status = "queued", !.attempt = 0,
                                       !.due = "now", !.aged = FALSE]
          BY <1>3, <3>1 DEF RetrySelected
        <4>3. row[i] \in Row
          BY DEF QueueInv, TypeOK
        <4>4. row'[i].status = "queued" /\ row'[i].preimage = row[i].preimage
          BY <4>2, <4>3 DEF Row
        <4> QED BY <4>1, <4>4
      <3>2. CASE i \notin selected[a]
        BY <1>3, <3>2 DEF RetrySelected
      <3> QED BY <3>1, <3>2
    <2> QED BY <1>3, <2>1 DEF RetrySelected, switchVars
  <1>4. ASSUME NEW i \in Items, BackoffElapses(i)  PROVE Frame
    BY <1>0, <1>4 DEF BackoffElapses, TypeOK, Row, switchVars
  <1>5. ASSUME NEW i \in Items, Age(i)  PROVE Frame
    BY <1>5 DEF Age, Timely, TypeOK, Row, switchVars
  <1>6. ASSUME NEW i \in Items, SwitchExpires(i)  PROVE Frame
    BY <1>6 DEF SwitchExpires, TypeOK, Transfer
  <1>7. ASSUME NEW f \in fulfilling, SwitchDecides(f[1], f[2])  PROVE Frame
    <2>1. f[1] \in Items
      BY DEF TypeOK
    <2> QED BY <1>7, <2>1 DEF SwitchDecides, TypeOK, Transfer
  <1>8. ASSUME UNCHANGED vars  PROVE Frame
    BY <1>8 DEF vars, switchVars
  <1> QED
    BY <1>1, <1>2, <1>3, <1>4, <1>5, <1>6, <1>7, <1>8 DEF Next

-----------------------------------------------------------------------------
(* The other parts of the invariant, each step of a cycle on its own rows.  *)

LEMMA StatusStep ==
  ASSUME Timely, QueueInv, TypeOK', [Next]_vars
  PROVE  StatusInv'
  <1> TypeOK
    BY DEF QueueInv
  <1> DEFINE Good(c, i) ==
        /\ ~row[i].aged
        /\ item[c] # i => row[i].status = "processing"
        /\ item[c] = i =>
             /\ pc[c] \in {"prepare", "fulfil", "commit", "fail"} => row[i].status = "processing"
             /\ pc[c] \in {"debit", "credit"} => row[i].status = "committed"
             /\ pc[c] = "requeue" =>
                  row[i].status \in {"processing", "committed", "failed", "dead_letter"}
  <1>1. \A c \in Cycles : \A i \in todo[c] : Good(c, i)
    BY DEF QueueInv, StatusInv
  <1>2. ASSUME NEW c \in Cycles, CycleStep(c) \/ CycleFault(c), NEW i \in todo'[c]
        PROVE  Good(c, i)'
    <2> i \in Items
      BY DEF TypeOK
    <2>1. CASE Start(c)
      BY <2>1 DEF Start, QueueInv, HandsInv
    <2>2. CASE Claim(c)
      <3>1. item'[c] = None
        BY <2>2 DEF Claim, QueueInv, HandsInv, Working
      <3>2. row'[i].status = "processing" /\ row'[i].aged = FALSE
        <4>1. row'[i] = [row[i] EXCEPT !.status = "processing", !.aged = FALSE] /\ row[i] \in Row
          <5>1. PICK S \in SUBSET Claimable :
                  /\ row' = [k \in Items |-> IF k \in S
                              THEN [row[k] EXCEPT !.status = "processing", !.aged = FALSE]
                              ELSE row[k]]
                  /\ todo' = [todo EXCEPT ![c] = S]
            BY <2>2 DEF Claim
          <5>2. i \in S
            BY <5>1 DEF TypeOK
          <5> QED BY <5>1, <5>2 DEF TypeOK
        <4> QED BY <4>1 DEF Row
      <3> QED BY <3>1, <3>2, QueueAssumption
    <2>3. ASSUME NEW j \in Items, EnsurePreimage(c, j) \/ EnsurePreimageFails(c, j)
          PROVE  Good(c, i)'
      <3>1. item[c] = None /\ item[c] # i /\ i \in todo[c]
        BY <2>3, QueueAssumption DEF QueueInv, HandsInv, Working, EnsurePreimage, EnsurePreimageFails
      <3>2. row[i].status = "processing" /\ ~row[i].aged
        BY <1>1, <3>1
      <3>3. row'[i].status = "processing" /\ ~row'[i].aged
        <4>1. row' = row \/ row' = Stored(j)
          BY <2>3 DEF EnsurePreimage, EnsurePreimageFails
        <4>2. Stored(j)[i].status = "processing" /\ Stored(j)[i].aged = FALSE
          <5>1. row[i].aged = FALSE
            BY <3>2 DEF TypeOK, Row
          <5>2. CASE i = j
            BY <3>2, <5>2, UpdateFields
          <5>3. CASE i # j
            <6>1. Stored(j)[i] = row[i]
              BY <5>3 DEF Stored, TypeOK
            <6> QED BY <3>2, <5>1, <6>1
          <5> QED BY <5>2, <5>3
        <4> QED BY <3>2, <4>1, <4>2
      <3>4. pc'[c] \in {"prepare", "requeue"}
        BY <2>3 DEF EnsurePreimage, EnsurePreimageFails, TypeOK
      <3> QED BY <3>3, <3>4
    <2>4. CASE Prepare(c) \/ Fulfil(c) \/ CallFails(c)
      <3>1. /\ UNCHANGED <<row, todo, item>>
            /\ pc[c] \in {"prepare", "fulfil"} /\ pc'[c] \in {"fulfil", "commit", "fail"}
        BY <2>4 DEF Prepare, Fulfil, CallFails, TypeOK
      <3> QED BY <1>1, <3>1
    <2>5. CASE Commit(c) \/ WriteFails(c) \/ PostDebit(c)
      <3>1. UNCHANGED <<todo, item>> /\ item[c] \in Items
        BY <2>5 DEF Commit, WriteFails, PostDebit, QueueInv, HandsInv, Working, TypeOK
      <3>2. CASE item[c] # i
        <4>1. row'[i] = row[i]
          BY <2>5, <3>1, <3>2 DEF Commit, WriteFails, PostDebit, Committed, Failed, TypeOK
        <4> QED BY <1>1, <3>1, <3>2, <4>1
      <3>3. CASE item[c] = i /\ Commit(c)
        <4>1. pc'[c] = "debit" /\ row' = Committed(i)
          BY <3>3 DEF Commit, TypeOK
        <4>2. row'[i].status = "committed" /\ ~row'[i].aged
          BY <4>1, UpdateFields
        <4> QED BY <3>1, <3>3, <4>1, <4>2
      <3>4. CASE item[c] = i /\ WriteFails(c)
        <4>1. pc'[c] = "requeue" /\ row[i].status = "processing" /\ ~row[i].aged
          BY <1>1, <3>1, <3>4 DEF WriteFails, TypeOK
        <4>2. \/ row'[i] = row[i]
              \/ row'[i].status = "committed" /\ ~row'[i].aged
              \/ row'[i].status \in {"failed", "dead_letter"} /\ ~row'[i].aged
          BY <3>4, UpdateFields DEF WriteFails
        <4> QED BY <3>1, <3>4, <4>1, <4>2
      <3>5. CASE item[c] = i /\ PostDebit(c)
        <4>1. pc'[c] = "credit" /\ pc[c] = "debit" /\ row'[i] = row[i]
          BY <3>5 DEF PostDebit, TypeOK
        <4> QED BY <1>1, <3>1, <3>5, <4>1
      <3> QED BY <2>5, <3>2, <3>3, <3>4, <3>5
    <2>6. CASE Fail(c) \/ PostCredit(c) \/ PostFails(c) \/ Requeue(c) \/ Crash(c)
      <3>1. i \in todo[c] /\ item[c] # i /\ row'[i] = row[i] /\ item'[c] # i
        BY <2>6, Release, QueueAssumption
      <3> QED BY <1>1, <3>1
    <2> QED BY <1>2, <2>1, <2>2, <2>3, <2>4, <2>5, <2>6 DEF CycleStep, CycleFault
  <1>3. ASSUME NEW c \in Cycles, CycleStep(c) \/ CycleFault(c),
               NEW d \in Cycles, NEW i \in todo'[d]
        PROVE  Good(d, i)'
    <2>1. CASE c = d
      BY <1>2, <1>3, <2>1
    <2>2. CASE c # d
      BY <1>1, <1>3, <2>2, CycleFrame
    <2> QED BY <2>1, <2>2
  <1>4. ASSUME UNCHANGED cycleVars,
               \A i \in Items : Held(i) => row'[i] = row[i],
               NEW c \in Cycles, NEW i \in todo'[c]
        PROVE  Good(c, i)'
    BY <1>1, <1>4 DEF Held, TypeOK, cycleVars
  <1>5. ASSUME UNCHANGED cycleVars,
               \A i \in Items : Held(i) => row'[i] = row[i]
        PROVE  StatusInv'
    BY <1>4, <1>5 DEF StatusInv
  <1>6. ASSUME NEW c \in Cycles, CycleStep(c) \/ CycleFault(c)
        PROVE  StatusInv'
    BY <1>3, <1>6 DEF StatusInv
  <1> QED
    BY <1>5, <1>6, OtherFrame

LEMMA SelectedStep ==
  ASSUME Timely, QueueInv, TypeOK', [Next]_vars
  PROVE  SelectedInv'
  <1> TypeOK
    BY DEF QueueInv
  <1>1. \A a \in Admins : \A i \in selected[a] :
           i \in Items /\ row[i].status = "dead_letter" /\ ~Held(i)
    BY DEF QueueInv, SelectedInv, TypeOK
  <1>2. ASSUME NEW c \in Cycles, CycleStep(c) \/ CycleFault(c)  PROVE SelectedInv'
    <2>1. UNCHANGED selected
      BY <1>2 DEF CycleStep, CycleFault, Start, Claim, EnsurePreimage, EnsurePreimageFails,
         Prepare, Fulfil, CallFails, Commit, WriteFails, PostDebit, PostCredit, PostFails,
         Fail, Requeue, Crash
    <2>2. ASSUME NEW i \in Items, row[i].status = "dead_letter", ~Held(i)
          PROVE  row'[i] = row[i] /\ ~Held(i)'
      <3>1. CASE Start(c)
        BY <2>2, <3>1, ClaimFrame DEF Start, Held
      <3>2. CASE Claim(c)
        <4>1. row'[i] = row[i]
          BY <2>2, <3>2, ClaimFrame
        <4>2. i \notin Claimable
          BY <2>2 DEF Claimable
        <4>3. \E S \in SUBSET Claimable : todo' = [todo EXCEPT ![c] = S]
          BY <3>2 DEF Claim
        <4> QED BY <2>2, <4>1, <4>2, <4>3 DEF Held, TypeOK
      <3>3. CASE ~Start(c) /\ ~Claim(c)
        <4>1. row'[i] = row[i]
          BY <1>2, <2>2, <3>3, RowFrame DEF Held
        <4>2. NextItem(c) \/ Crash(c) \/ UNCHANGED todo
          BY <1>2, <3>3 DEF CycleStep, CycleFault, EnsurePreimage, EnsurePreimageFails, Prepare,
             Fulfil, CallFails, Commit, WriteFails, PostDebit, PostCredit, PostFails, Fail, Requeue
        <4>3. \A d \in Cycles : todo'[d] \subseteq todo[d]
          <5>1. CASE NextItem(c)
            <6>1. todo' = [todo EXCEPT ![c] = todo[c] \ {item[c]}]
              BY <5>1 DEF NextItem
            <6> QED BY <6>1 DEF TypeOK
          <5>2. CASE Crash(c)
            <6>1. todo' = [todo EXCEPT ![c] = {}]
              BY <5>2 DEF Crash
            <6> QED BY <6>1 DEF TypeOK
          <5> QED BY <4>2, <5>1, <5>2
        <4> QED BY <2>2, <4>1, <4>3 DEF Held
      <3> QED BY <3>1, <3>2, <3>3
    <2> QED BY <1>1, <2>1, <2>2 DEF SelectedInv
  <1>3. ASSUME NEW a \in Admins, SelectDeadLetters(a)  PROVE SelectedInv'
    <2>1. ASSUME NEW i \in Items, row[i].status = "dead_letter", row[i].aged  PROVE ~Held(i)
      BY <2>1, HeldRow DEF Held
    <2>2. UNCHANGED <<row, todo>>
      BY <1>3 DEF SelectDeadLetters, cycleVars
    <2>3. ASSUME NEW b \in Admins, NEW i \in selected'[b]
          PROVE  row[i].status = "dead_letter" /\ ~Held(i)
      BY <1>1, <1>3, <2>1 DEF SelectDeadLetters, TypeOK
    <2> QED BY <2>2, <2>3 DEF SelectedInv, Held
  <1>4. ASSUME NEW a \in Admins, RetrySelected(a)  PROVE SelectedInv'
    <2>1. \A b \in Admins : selected'[b] = {}
      BY <1>4 DEF RetrySelected, Timely, TypeOK
    <2> QED BY <2>1 DEF SelectedInv
  <1>5. ASSUME UNCHANGED <<cycleVars, selected>>,
               \A i \in Items : row[i].status = "dead_letter" => row'[i].status = "dead_letter"
        PROVE  SelectedInv'
    BY <1>1, <1>5 DEF SelectedInv, Held, cycleVars
  <1>6. ASSUME NEW j \in Items, Enqueue(j) \/ EnqueueInitiated(j) \/ BackoffElapses(j)
        PROVE  SelectedInv'
    <2>1. \A i \in Items : row[i].status = "dead_letter" => row'[i] = row[i]
      BY <1>6 DEF Enqueue, EnqueueInitiated, BackoffElapses, TypeOK
    <2> QED BY <1>5, <1>6, <2>1 DEF Enqueue, EnqueueInitiated, BackoffElapses
  <1>7. ASSUME NEW j \in Items, Age(j)  PROVE SelectedInv'
    <2>1. \A i \in Items : row'[i].status = row[i].status
      BY <1>7 DEF Age, TypeOK, Row
    <2> QED BY <1>5, <1>7, <2>1 DEF Age
  <1> QED
    BY <1>2, <1>3, <1>4, <1>5, <1>6, <1>7 DEF Next, SwitchExpires, SwitchDecides, vars

LEMMA PreimageStep ==
  ASSUME Timely, QueueInv, TypeOK', [Next]_vars
  PROVE  PreimageInv'
  <1> TypeOK
    BY DEF QueueInv
  <1> DEFINE Agrees(c, i) ==
        /\ item[c] # i => snap[c][i].preimage = row[i].preimage
        /\ item[c] = i /\ pc[c] \in {"prepare", "fulfil"} =>
             snap[c][i].preimage = row[i].preimage /\ row[i].preimage # 0
  <1> DEFINE Seen(i) == \A p \in prepared[i] : p = row[i].preimage /\ p # 0
  <1>1. /\ \A c \in Cycles : \A i \in todo[c] : Agrees(c, i)
        /\ \A i \in Items : Seen(i)
    BY DEF QueueInv, PreimageInv
  <1>2. ASSUME NEW c \in Cycles, CycleStep(c) \/ CycleFault(c)
        PROVE  /\ \A i \in todo'[c] : Agrees(c, i)'
               /\ \A i \in Items : Seen(i)'
    <2> DEFINE Goal == /\ \A i \in todo'[c] : Agrees(c, i)'
                       /\ \A i \in Items : Seen(i)'
    <2>1. CASE Start(c)
      <3>1. \A i \in Items : row'[i].preimage = row[i].preimage
        <4> SUFFICES ASSUME NEW i \in Items  PROVE row'[i].preimage = row[i].preimage
          OBVIOUS
        <4>1. /\ row[i] \in Row
              /\ \/ row'[i] = row[i]
                 \/ row'[i] = [row[i] EXCEPT !.status = "queued", !.due = "now", !.aged = FALSE]
          BY <2>1 DEF Start, TypeOK
        <4> QED BY <4>1 DEF Row
      <3>2. todo'[c] = {} /\ UNCHANGED prepared
        BY <2>1 DEF Start, QueueInv, HandsInv, switchVars
      <3> QED BY <1>1, <3>1, <3>2
    <2>2. CASE Claim(c)
      <3>1. PICK S \in SUBSET Claimable :
              /\ row' = [k \in Items |-> IF k \in S
                          THEN [row[k] EXCEPT !.status = "processing", !.aged = FALSE]
                          ELSE row[k]]
              /\ todo' = [todo EXCEPT ![c] = S]
              /\ snap' = [snap EXCEPT ![c] =
                   [k \in Items |-> IF k \in S
                                    THEN [attempt |-> row[k].attempt, preimage |-> row[k].preimage]
                                    ELSE NoCopy]]
        BY <2>2 DEF Claim
      <3>2. \A i \in Items : row'[i].preimage = row[i].preimage
        <4> SUFFICES ASSUME NEW i \in Items  PROVE row'[i].preimage = row[i].preimage
          OBVIOUS
        <4>1. /\ row[i] \in Row
              /\ \/ row'[i] = row[i]
                 \/ row'[i] = [row[i] EXCEPT !.status = "processing", !.aged = FALSE]
          BY <3>1 DEF TypeOK
        <4> QED BY <4>1 DEF Row
      <3>3. \A i \in todo'[c] : snap'[c][i].preimage = row[i].preimage /\ i \in Items
        BY <3>1 DEF TypeOK, Claimable
      <3>4. item'[c] = None /\ UNCHANGED prepared
        BY <2>2 DEF Claim, QueueInv, HandsInv, Working, switchVars
      <3> QED BY <1>1, <3>2, <3>3, <3>4, QueueAssumption
    <2>3. ASSUME NEW j \in Items, EnsurePreimage(c, j)  PROVE Goal
      <3>1. /\ \A i \in Items : item[c] # i
            /\ j \in todo[c] /\ UNCHANGED <<prepared, todo>> /\ item'[c] = j
        BY <2>3, TakeInHand DEF QueueInv
      <3>2. snap[c][j].preimage = row[j].preimage
        BY <1>1, <3>1
      <3>3. CASE snap[c][j].preimage # 0
        <4>1. UNCHANGED <<row, snap>>
          BY <2>3, <3>3 DEF EnsurePreimage
        <4> QED BY <1>1, <3>1, <3>2, <3>3, <4>1 DEF TypeOK
      <3>4. CASE snap[c][j].preimage = 0
        <4>1. row' = Stored(j) /\ snap' = [snap EXCEPT ![c][j].preimage = drawn[j] + 1]
          BY <2>3, <3>4 DEF EnsurePreimage
        <4>2. /\ row'[j].preimage = drawn[j] + 1 /\ drawn[j] + 1 # 0
              /\ \A i \in Items \ {j} : row'[i] = row[i]
          <5>1. drawn[j] \in Nat
            BY DEF TypeOK
          <5>2. row'[j].preimage = drawn[j] + 1
            BY <4>1, UpdateFields
          <5>3. \A i \in Items \ {j} : row'[i] = row[i]
            BY <4>1 DEF Stored, TypeOK
          <5> QED BY <5>1, <5>2, <5>3
        <4>3. /\ snap'[c][j].preimage = drawn[j] + 1
              /\ \A i \in Items \ {j} : snap'[c][i] = snap[c][i]
          BY <4>1 DEF TypeOK, Copy
        <4>4. prepared[j] = {}
          BY <1>1, <3>2, <3>4
        <4>5. \A i \in todo'[c] : Agrees(c, i)'
          <5> SUFFICES ASSUME NEW i \in todo'[c]  PROVE Agrees(c, i)'
            OBVIOUS
          <5>1. CASE i = j
            <6>1. snap'[c][j].preimage = row'[j].preimage /\ row'[j].preimage # 0
              BY <4>2, <4>3
            <6> QED BY <3>1, <5>1, <6>1
          <5>2. CASE i # j
            <6>1. i \in todo[c] /\ i \in Items \ {j} /\ item[c] # i
              BY <3>1, <5>2 DEF TypeOK
            <6>2. snap[c][i].preimage = row[i].preimage
              BY <1>1, <6>1
            <6>3. snap'[c][i] = snap[c][i] /\ row'[i] = row[i]
              BY <4>2, <4>3, <6>1
            <6> QED BY <3>1, <5>2, <6>2, <6>3
          <5> QED BY <5>1, <5>2
        <4>6. \A i \in Items : Seen(i)'
          BY <1>1, <3>1, <4>2, <4>4
        <4> QED BY <4>5, <4>6
      <3> QED BY <3>3, <3>4
    <2>4. ASSUME NEW j \in Items, EnsurePreimageFails(c, j)  PROVE Goal
      <3>1. /\ \A i \in Items : item[c] # i
            /\ j \in todo[c] /\ UNCHANGED <<prepared, todo, snap>>
            /\ item'[c] = j /\ pc'[c] = "requeue"
        BY <2>4, TakeInHand DEF QueueInv
      <3>2. prepared[j] = {}
        BY <1>1, <2>4, <3>1 DEF EnsurePreimageFails
      <3>3. \A i \in Items \ {j} : row'[i] = row[i]
        BY <2>4 DEF EnsurePreimageFails, Stored, TypeOK
      <3>4. \A i \in todo'[c] : Agrees(c, i)'
        <4> SUFFICES ASSUME NEW i \in todo'[c], i # j  PROVE Agrees(c, i)'
          BY <3>1
        <4>1. i \in todo[c] /\ i \in Items \ {j} /\ item[c] # i
          BY <3>1 DEF TypeOK
        <4>2. snap[c][i].preimage = row[i].preimage
          BY <1>1, <4>1
        <4>3. snap'[c][i] = snap[c][i] /\ row'[i] = row[i]
          BY <3>1, <3>3, <4>1
        <4> QED BY <3>1, <4>2, <4>3
      <3>5. \A i \in Items : Seen(i)'
        BY <1>1, <3>1, <3>2, <3>3
      <3> QED BY <3>4, <3>5
    <2>5. CASE Prepare(c)
      <3>1. /\ item[c] \in todo[c] /\ item[c] \in Items /\ UNCHANGED <<row, todo, item, snap>>
            /\ pc[c] = "prepare" /\ pc'[c] \in {"fulfil", "fail"}
        BY <2>5 DEF Prepare, QueueInv, HandsInv, Working, TypeOK
      <3>2. /\ snap[c][item[c]].preimage = row[item[c]].preimage
            /\ row[item[c]].preimage # 0
        BY <1>1, <3>1
      <3>3. prepared' = [prepared EXCEPT ![item[c]] = @ \cup {snap[c][item[c]].preimage}]
        BY <2>5 DEF Prepare
      <3>4. \A i \in Items : Seen(i)'
        BY <1>1, <3>1, <3>2, <3>3 DEF TypeOK
      <3> QED BY <1>1, <3>1, <3>2, <3>4
    <2>6. CASE Fulfil(c) \/ CallFails(c)
      <3>1. /\ UNCHANGED <<row, todo, item, snap, prepared>>
            /\ pc'[c] \in {"commit", "fail"}
        BY <2>6 DEF Fulfil, CallFails, TypeOK, switchVars
      <3> QED BY <1>1, <3>1
    <2>7. CASE Commit(c) \/ WriteFails(c) \/ PostDebit(c)
      <3>1. /\ UNCHANGED <<todo, item, snap, prepared>> /\ item[c] \in Items
            /\ pc'[c] \in {"debit", "credit", "requeue"}
        BY <2>7 DEF Commit, WriteFails, PostDebit, QueueInv, HandsInv, Working, TypeOK, switchVars
      <3>2. \A i \in Items : row'[i].preimage = row[i].preimage
        <4>1. row' = row \/ row' = Committed(item[c]) \/ row' = Failed(c)
          BY <2>7 DEF Commit, WriteFails, PostDebit
        <4>2. ASSUME NEW i \in Items
              PROVE  /\ Committed(item[c])[i].preimage = row[i].preimage
                     /\ Failed(c)[i].preimage = row[i].preimage
          <5>1. CASE i = item[c]
            BY <5>1, UpdateFields
          <5>2. CASE i # item[c]
            BY <3>1, <5>2 DEF Committed, Failed, TypeOK
          <5> QED BY <5>1, <5>2
        <4> QED BY <4>1, <4>2
      <3> QED BY <1>1, <3>1, <3>2 DEF TypeOK
    <2>8. CASE Fail(c) \/ PostCredit(c) \/ PostFails(c) \/ Requeue(c) \/ Crash(c)
      <3>1. \A i \in todo'[c] : Agrees(c, i)'
        BY <1>1, <2>8, Release, QueueAssumption DEF TypeOK
      <3>2. \A i \in Items : row'[i].preimage = row[i].preimage
        <4>1. CASE Crash(c) \/ PostCredit(c) \/ PostFails(c)
          BY <4>1 DEF Crash, PostCredit, PostFails
        <4>2. CASE Fail(c) \/ Requeue(c)
          <5>1. item[c] \in Items
            BY <4>2 DEF Fail, Requeue, QueueInv, HandsInv, Working, TypeOK
          <5>2. row'[item[c]].preimage = row[item[c]].preimage
            <6>1. CASE Fail(c)
              BY <5>1, <6>1, UpdateFields DEF Fail
            <6>2. CASE Requeue(c)
              BY <5>1, <6>2 DEF Requeue, TypeOK, Row
            <6> QED BY <4>2, <6>1, <6>2
          <5>3. \A i \in Items \ {item[c]} : row'[i] = row[i]
            BY <4>2, <5>1 DEF Fail, Requeue, Failed, TypeOK
          <5> QED BY <5>2, <5>3
        <4> QED BY <2>8, <4>1, <4>2
      <3> QED BY <1>1, <2>8, <3>1, <3>2, Release
    <2> QED BY <1>2, <2>1, <2>2, <2>3, <2>4, <2>5, <2>6, <2>7, <2>8 DEF CycleStep, CycleFault
  <1>3. ASSUME NEW c \in Cycles, CycleStep(c) \/ CycleFault(c)  PROVE PreimageInv'
    <2>1. ASSUME NEW d \in Cycles, NEW i \in todo'[d]  PROVE Agrees(d, i)'
      <3>1. CASE c = d
        BY <1>2, <1>3, <3>1
      <3>2. CASE c # d
        BY <1>1, <1>3, <3>2, CycleFrame
      <3> QED BY <3>1, <3>2
    <2> QED BY <1>2, <1>3, <2>1 DEF PreimageInv
  <1>4. ASSUME UNCHANGED <<cycleVars, prepared>>,
               \A i \in Items : row'[i].preimage = row[i].preimage
        PROVE  PreimageInv'
    <2>1. UNCHANGED <<todo, item, pc, snap, prepared>>
      BY <1>4 DEF cycleVars
    <2>2. \A c \in Cycles : todo[c] \subseteq Items
      BY DEF QueueInv, TypeOK
    <2>3. PreimageInv
      BY DEF QueueInv
    <2> HIDE DEF QueueInv
    <2> QED BY <1>4, <2>1, <2>2, <2>3 DEF PreimageInv
  <1> QED BY <1>3, <1>4, OtherFrame

\* For the postings, a cycle's step is one of these: a commitment, a posting
\* of one side, an uncommitted row written, or no change at all.
LEMMA PostingStep ==
  ASSUME Timely, QueueInv, TypeOK', HandsInv', [Next]_vars
  PROVE  PostingInv'
  <1> TypeOK
    BY DEF QueueInv
  <1> DEFINE Backed(i) ==
        /\ row[i].status # "committed" => mirror[i].debit = 0
        /\ mirror[i].credit <= mirror[i].debit
        /\ mirror[i].debit <= 1
  <1> DEFINE Posts(c) ==
        /\ pc[c] \in {"debit", "requeue"} => mirror[item[c]].debit = 0
        /\ pc[c] = "credit" => mirror[item[c]].debit = 1 /\ mirror[item[c]].credit = 0
  <1>1. /\ \A i \in Items : Backed(i) /\ mirror[i].debit \in Nat /\ mirror[i].credit \in Nat
        /\ \A c \in Cycles : Posts(c)
    BY DEF QueueInv, PostingInv, TypeOK, Posting
  <1>2. ASSUME NEW c \in Cycles, CycleStep(c) \/ CycleFault(c)
        PROVE  Posts(c)' /\ \A i \in Items : Backed(i)'
    <2> DEFINE Goal == Posts(c)' /\ \A i \in Items : Backed(i)'
    <2>0. pc[c] \in Working => item[c] \in todo[c] /\ item[c] \in Items
      BY DEF QueueInv, HandsInv, TypeOK
    <2>1. CASE Start(c) \/ Claim(c)
      <3>1. UNCHANGED mirror /\ pc'[c] \in {"idle", "next", "claim"}
        BY <2>1 DEF Start, Claim, TypeOK
      <3>2. \A i \in Items : row[i].status = "committed" => row'[i].status = "committed"
        BY <2>1, ClaimFrame
      <3> QED BY <1>1, <3>1, <3>2
    <2>2. ASSUME NEW j \in Items, EnsurePreimage(c, j) \/ EnsurePreimageFails(c, j)  PROVE Goal
      <3>1. /\ UNCHANGED mirror /\ pc'[c] \in {"prepare", "requeue"} /\ item'[c] = j
            /\ j \in todo[c] /\ item[c] # j
        BY <2>2, TakeInHand DEF QueueInv
      <3>2. row[j].status = "processing"
        BY <3>1 DEF QueueInv, StatusInv
      <3>3. \A i \in Items : row'[i].status = row[i].status
        <4>1. row' = row \/ row' = Stored(j)
          BY <2>2 DEF EnsurePreimage, EnsurePreimageFails
        <4>2. Stored(j)[j].status = row[j].status
          BY UpdateFields
        <4>3. \A i \in Items \ {j} : Stored(j)[i] = row[i]
          BY DEF Stored, TypeOK
        <4> QED BY <4>1, <4>2, <4>3
      <3>4. mirror[j].debit = 0
        BY <1>1, <3>2
      <3> QED BY <1>1, <3>1, <3>3, <3>4
    <2>3. CASE Prepare(c) \/ Fulfil(c) \/ CallFails(c)
      <3>1. UNCHANGED <<row, mirror>> /\ pc'[c] \in {"fulfil", "commit", "fail"}
        BY <2>3 DEF Prepare, Fulfil, CallFails, TypeOK
      <3> QED BY <1>1, <3>1
    <2>4. CASE Commit(c) \/ WriteFails(c)
      <3>1. /\ pc[c] \in {"commit", "fail"} /\ pc'[c] \in {"debit", "requeue"}
            /\ item[c] \in todo[c] /\ item[c] \in Items /\ UNCHANGED <<item, mirror>>
        BY <2>0, <2>4 DEF Commit, WriteFails, Working, TypeOK
      <3>2. row[item[c]].status = "processing"
        BY <3>1 DEF QueueInv, StatusInv
      <3>3. mirror[item[c]].debit = 0
        BY <1>1, <3>1, <3>2
      <3>4. \A i \in Items \ {item[c]} : row'[i] = row[i]
        BY <2>4, <3>1 DEF Commit, WriteFails, Committed, Failed, TypeOK
      <3> QED BY <1>1, <3>1, <3>3, <3>4
    <2>5. CASE Fail(c) \/ Requeue(c)
      <3>1. /\ item[c] \in todo[c] /\ item[c] \in Items /\ UNCHANGED mirror
            /\ pc'[c] \in {"idle", "next"} /\ pc[c] \in {"fail", "requeue"}
        BY <2>0, <2>5, Release DEF Fail, Requeue, Working
      <3>2. mirror[item[c]].debit = 0
        BY <1>1, <3>1 DEF QueueInv, StatusInv
      <3>3. \A i \in Items \ {item[c]} : row'[i] = row[i]
        BY <2>5, <3>1 DEF Fail, Requeue, Failed, TypeOK
      <3> QED BY <1>1, <3>1, <3>2, <3>3
    <2>6. CASE PostDebit(c)
      <3>1. /\ pc[c] = "debit" /\ pc'[c] = "credit" /\ UNCHANGED <<item, row>>
            /\ item[c] \in todo[c] /\ item[c] \in Items
            /\ mirror' = [mirror EXCEPT ![item[c]].debit = @ + 1]
        BY <2>0, <2>6 DEF PostDebit, Working, TypeOK
      <3>2. row[item[c]].status = "committed" /\ mirror[item[c]].debit = 0 /\ mirror[item[c]].credit = 0
        BY <1>1, <3>1 DEF QueueInv, StatusInv
      <3>3. mirror'[item[c]].debit = 1 /\ mirror'[item[c]].credit = 0
        BY <3>1, <3>2 DEF TypeOK, Posting
      <3>4. \A i \in Items \ {item[c]} : mirror'[i] = mirror[i]
        BY <3>1 DEF TypeOK
      <3> QED BY <1>1, <3>1, <3>2, <3>3, <3>4
    <2>7. CASE PostCredit(c)
      <3>1. /\ pc[c] = "credit" /\ pc'[c] \in {"idle", "next"} /\ UNCHANGED row
            /\ item[c] \in todo[c] /\ item[c] \in Items
            /\ mirror' = [mirror EXCEPT ![item[c]].credit = @ + 1]
        BY <2>0, <2>7, Release DEF PostCredit, Working
      <3>2. row[item[c]].status = "committed" /\ mirror[item[c]].debit = 1 /\ mirror[item[c]].credit = 0
        BY <1>1, <3>1 DEF QueueInv, StatusInv
      <3>3. mirror'[item[c]].debit = 1 /\ mirror'[item[c]].credit = 1
        BY <3>1, <3>2 DEF TypeOK, Posting
      <3>4. \A i \in Items \ {item[c]} : mirror'[i] = mirror[i]
        BY <3>1 DEF TypeOK
      <3> QED BY <1>1, <3>1, <3>2, <3>3, <3>4
    <2>8. CASE PostFails(c) \/ Crash(c)
      <3>1. UNCHANGED <<row, mirror>> /\ pc'[c] \in {"idle", "next"}
        BY <2>8, Release DEF PostFails, Crash
      <3> QED BY <1>1, <3>1
    <2> QED BY <1>2, <2>1, <2>2, <2>3, <2>4, <2>5, <2>6, <2>7, <2>8 DEF CycleStep, CycleFault
  <1>3. ASSUME NEW c \in Cycles, CycleStep(c) \/ CycleFault(c), NEW d \in Cycles  PROVE Posts(d)'
    <2>1. CASE c = d
      BY <1>2, <1>3, <2>1
    <2>2. CASE c # d
      <3>1. pc'[d] = pc[d] /\ item'[d] = item[d]
        BY <1>3, <2>2, CycleFrame
      <3>2. pc[d] \in Working => mirror'[item[d]] = mirror[item[d]]
        BY <1>3, <2>2, CycleFrame DEF QueueInv, HandsInv
      <3> QED BY <1>1, <3>1, <3>2 DEF Working
    <2> QED BY <2>1, <2>2
  <1>4. ASSUME UNCHANGED <<cycleVars, mirror>>,
               \A i \in Items : row'[i].status = "committed" <=> row[i].status = "committed"
        PROVE  PostingInv'
    BY <1>1, <1>4 DEF PostingInv, cycleVars
  <1>5. ASSUME NEW c \in Cycles, CycleStep(c) \/ CycleFault(c)  PROVE PostingInv'
    BY <1>2, <1>3, <1>5 DEF PostingInv
  <1> QED BY <1>4, <1>5, OtherFrame

\* A row is committed only after the switch said so, whoever writes it, and
\* the switch never takes a commitment back: rows that two cycles work on, or
\* that an administrator requeues under a cycle, make no difference.
LEMMA SettledStep ==
  ASSUME TypeOK, TypeOK', HandsInv, SettledInv, [Next]_vars
  PROVE  SettledInv'
  <1> SUFFICES ASSUME ~AsyncSwitch
               PROVE  /\ \A i \in Items : row'[i].status = "committed" => switch'[i].state = "committed"
                      /\ \A c \in Cycles : pc'[c] = "commit" => switch'[item'[c]].state = "committed"
    BY DEF SettledInv
  <1>1. /\ \A i \in Items : row[i].status = "committed" => switch[i].state = "committed"
        /\ \A c \in Cycles : pc[c] = "commit" => switch[item[c]].state = "committed"
    BY DEF SettledInv
  <1>2. ASSUME NEW c \in Cycles, CycleStep(c) \/ CycleFault(c)
        PROVE  /\ pc'[c] = "commit" => switch'[item'[c]].state = "committed"
               /\ \A i \in Items : /\ switch[i].state = "committed" => switch'[i].state = "committed"
                                   /\ row'[i].status = "committed" => \/ row[i].status = "committed"
                                                                     \/ switch[i].state = "committed"
    <2> DEFINE Goal ==
          /\ pc'[c] = "commit" => switch'[item'[c]].state = "committed"
          /\ \A i \in Items : /\ switch[i].state = "committed" => switch'[i].state = "committed"
                              /\ row'[i].status = "committed" => \/ row[i].status = "committed"
                                                                \/ switch[i].state = "committed"
    <2>0. pc[c] \in Working => item[c] \in todo[c] /\ item[c] \in Items
      BY DEF HandsInv, TypeOK
    <2>1. CASE Start(c)
      <3>1. \A i \in Items : row'[i].status = "committed" => row[i].status = "committed"
        <4> SUFFICES ASSUME NEW i \in Items  PROVE row'[i] = row[i] \/ row'[i].status = "queued"
          OBVIOUS
        <4>1. /\ row[i] \in Row
              /\ \/ row'[i] = row[i]
                 \/ row'[i] = [row[i] EXCEPT !.status = "queued", !.due = "now", !.aged = FALSE]
          BY <2>1 DEF Start, TypeOK
        <4> QED BY <4>1 DEF Row
      <3> QED BY <2>1, <3>1 DEF Start, switchVars, TypeOK
    <2>2. CASE Claim(c)
      <3>1. \A i \in Items : row'[i].status = "committed" => row[i].status = "committed"
        <4> SUFFICES ASSUME NEW i \in Items  PROVE row'[i] = row[i] \/ row'[i].status = "processing"
          OBVIOUS
        <4>1. \E S \in SUBSET Claimable :
                row' = [k \in Items |-> IF k \in S
                          THEN [row[k] EXCEPT !.status = "processing", !.aged = FALSE]
                          ELSE row[k]]
          BY <2>2 DEF Claim
        <4>2. /\ row[i] \in Row
              /\ \/ row'[i] = row[i]
                 \/ row'[i] = [row[i] EXCEPT !.status = "processing", !.aged = FALSE]
          BY <4>1 DEF TypeOK
        <4> QED BY <4>2 DEF Row
      <3>2. pc'[c] # "commit" /\ UNCHANGED switch
        BY <2>2 DEF Claim, switchVars, TypeOK
      <3> QED BY <3>1, <3>2
    <2>3. ASSUME NEW j \in Items, EnsurePreimage(c, j) \/ EnsurePreimageFails(c, j)  PROVE Goal
      <3>1. UNCHANGED switch /\ pc'[c] \in {"prepare", "requeue"}
        BY <2>3 DEF EnsurePreimage, EnsurePreimageFails, TypeOK, switchVars
      <3>2. \A i \in Items : row'[i].status = row[i].status
        <4>1. row' = row \/ row' = Stored(j)
          BY <2>3 DEF EnsurePreimage, EnsurePreimageFails
        <4>2. Stored(j)[j].status = row[j].status
          BY UpdateFields
        <4>3. \A i \in Items \ {j} : Stored(j)[i] = row[i]
          BY DEF Stored, TypeOK
        <4> QED BY <4>1, <4>2, <4>3
      <3> QED BY <3>1, <3>2
    <2>4. CASE Prepare(c)
      <3>1. UNCHANGED row /\ pc'[c] \in {"fulfil", "fail"}
        BY <2>4 DEF Prepare, TypeOK
      <3>2. \A i \in Items : switch[i].state = "committed" => switch'[i].state = "committed"
        BY <2>0, <2>4 DEF Prepare, TypeOK, Transfer, Working
      <3> QED BY <3>1, <3>2
    <2>5. CASE Fulfil(c)
      <3>1. /\ item[c] \in Items /\ UNCHANGED <<row, item>>
            /\ pc'[c] = "commit" => switch'[item[c]].state = "committed"
        BY <2>0, <2>5 DEF Fulfil, TypeOK, Working
      <3>2. switch' = switch \/ switch' = [switch EXCEPT ![item[c]].state = "committed"]
        BY <2>5 DEF Fulfil
      <3>3. ASSUME NEW i \in Items, switch[i].state = "committed"
            PROVE  switch'[i].state = "committed"
        <4>1. CASE i = item[c]
          BY <3>1, <3>2, <3>3, <4>1 DEF TypeOK, Transfer
        <4>2. CASE i # item[c]
          BY <3>1, <3>2, <3>3, <4>2 DEF TypeOK
        <4> QED BY <4>1, <4>2
      <3> QED BY <3>1, <3>3
    <2>6. CASE CallFails(c) \/ Crash(c)
      BY <2>6 DEF CallFails, Crash, switchVars, TypeOK
    <2>7. CASE Commit(c) \/ (WriteFails(c) /\ pc[c] = "commit")
      <3>1. /\ item[c] \in Items /\ switch[item[c]].state = "committed"
            /\ UNCHANGED switch /\ pc'[c] # "commit"
        BY <1>1, <2>0, <2>7 DEF Commit, WriteFails, Working, TypeOK, switchVars
      <3>2. \A i \in Items \ {item[c]} : row'[i] = row[i]
        BY <2>7, <3>1 DEF Commit, WriteFails, Committed, TypeOK
      <3> QED BY <3>1, <3>2
    <2>8. CASE Fail(c) \/ Requeue(c) \/ (WriteFails(c) /\ pc[c] = "fail")
      <3>1. /\ item[c] \in Items /\ UNCHANGED switch /\ pc'[c] # "commit"
        BY <2>0, <2>8 DEF Fail, Requeue, NextItem, WriteFails, Working, TypeOK, switchVars
      <3>2. \A i \in Items \ {item[c]} : row'[i] = row[i]
        BY <2>8, <3>1 DEF Fail, Requeue, WriteFails, Failed, TypeOK
      <3>3. row'[item[c]] = row[item[c]] \/ row'[item[c]].status \in {"failed", "dead_letter", "queued"}
        <4>1. CASE Requeue(c)
          <5>1. /\ row'[item[c]] = [row[item[c]] EXCEPT !.status = "queued", !.due = "later", !.aged = FALSE]
                /\ row[item[c]] \in Row
            BY <3>1, <4>1 DEF Requeue, TypeOK
          <5> QED BY <5>1 DEF Row
        <4>2. CASE Fail(c) \/ (WriteFails(c) /\ pc[c] = "fail")
          <5>1. row' = row \/ row' = Failed(c)
            BY <4>2 DEF Fail, WriteFails
          <5>2. Failed(c)[item[c]].status \in {"failed", "dead_letter"}
            BY <3>1, UpdateFields
          <5> QED BY <5>1, <5>2
        <4> QED BY <2>8, <4>1, <4>2
      <3> QED BY <3>1, <3>2, <3>3
    <2>9. CASE PostDebit(c) \/ PostCredit(c) \/ PostFails(c)
      <3>1. UNCHANGED <<row, switch>> /\ pc'[c] # "commit"
        <4>1. UNCHANGED <<row, switch>>
          BY <2>9 DEF PostDebit, PostCredit, PostFails, switchVars
        <4>2. CASE PostDebit(c)
          BY <4>1, <4>2 DEF PostDebit, TypeOK
        <4>3. CASE PostCredit(c) \/ PostFails(c)
          <5>1. pc'[c] \in {"idle", "next"}
            BY <4>3 DEF PostCredit, PostFails, NextItem, TypeOK
          <5> QED BY <4>1, <5>1
        <4> QED BY <2>9, <4>2, <4>3
      <3> QED BY <3>1
    <2>10. WriteFails(c) => pc[c] \in {"commit", "fail"}
      BY DEF WriteFails
    <2> QED
      BY <1>2, <2>1, <2>2, <2>3, <2>4, <2>5, <2>6, <2>7, <2>8, <2>9, <2>10
      DEF CycleStep, CycleFault
  <1>3. ASSUME NEW c \in Cycles, CycleStep(c) \/ CycleFault(c), NEW d \in Cycles
        PROVE  pc'[d] = "commit" => switch'[item'[d]].state = "committed"
    <2>1. CASE c = d
      BY <1>2, <1>3, <2>1
    <2>2. CASE c # d
      <3>1. pc'[d] = pc[d] /\ item'[d] = item[d]
        BY <1>3, <2>2, OtherCycles
      <3>2. pc[d] = "commit" => item[d] \in Items
        BY DEF HandsInv, Working, TypeOK
      <3> QED BY <1>1, <1>2, <1>3, <3>1, <3>2
    <2> QED BY <2>1, <2>2
  <1>4. CASE \E c \in Cycles : CycleStep(c) \/ CycleFault(c)
    BY <1>1, <1>2, <1>3, <1>4
  <1>5. ASSUME UNCHANGED <<pc, item>>,
               \A i \in Items : /\ row'[i].status = "committed" => row[i].status = "committed"
                                /\ switch[i].state = "committed" => switch'[i].state = "committed"
        PROVE  /\ \A i \in Items : row'[i].status = "committed" => switch'[i].state = "committed"
               /\ \A c \in Cycles : pc'[c] = "commit" => switch'[item'[c]].state = "committed"
    <2>1. \A c \in Cycles : pc[c] = "commit" => item[c] \in Items
      BY DEF HandsInv, Working, TypeOK
    <2>2. \A i \in Items : row'[i].status = "committed" => switch'[i].state = "committed"
      BY <1>1, <1>5
    <2>3. ASSUME NEW c \in Cycles, pc[c] = "commit"  PROVE switch'[item[c]].state = "committed"
      <3>1. item[c] \in Items /\ switch[item[c]].state = "committed"
        BY <1>1, <2>1, <2>3
      <3> QED BY <1>5, <3>1
    <2> QED BY <1>5, <2>2, <2>3
  <1> DEFINE Harmless ==
        /\ UNCHANGED <<pc, item>>
        /\ \A i \in Items : /\ row'[i].status = "committed" => row[i].status = "committed"
                            /\ switch[i].state = "committed" => switch'[i].state = "committed"
  <1>6. ASSUME NEW i \in Items, Enqueue(i) \/ EnqueueInitiated(i)  PROVE Harmless
    <2>1. row'[i].status = "queued"
      BY <1>6 DEF Enqueue, EnqueueInitiated, TypeOK, Row
    <2>2. \A j \in Items \ {i} : row'[j] = row[j]
      BY <1>6 DEF Enqueue, EnqueueInitiated, TypeOK
    <2> QED BY <1>6, <2>1, <2>2 DEF Enqueue, EnqueueInitiated, cycleVars, switchVars
  <1>7. ASSUME NEW a \in Admins, SelectDeadLetters(a) \/ RetrySelected(a)  PROVE Harmless
    <2>1. ASSUME NEW i \in Items  PROVE row'[i] = row[i] \/ row'[i].status = "queued"
      <3>1. CASE SelectDeadLetters(a)
        BY <3>1 DEF SelectDeadLetters
      <3>2. CASE RetrySelected(a)
        BY <3>2 DEF RetrySelected, TypeOK, Row
      <3> QED BY <1>7, <3>1, <3>2
    <2> QED BY <1>7, <2>1 DEF SelectDeadLetters, RetrySelected, cycleVars, switchVars
  <1>8. ASSUME NEW i \in Items, BackoffElapses(i) \/ Age(i)  PROVE Harmless
    BY <1>8 DEF BackoffElapses, Age, TypeOK, Row, cycleVars, switchVars
  <1>9. ASSUME NEW i \in Items, SwitchExpires(i)  PROVE Harmless
    BY <1>9 DEF SwitchExpires, TypeOK, Transfer, cycleVars
  <1>10. ASSUME NEW f \in fulfilling, SwitchDecides(f[1], f[2])  PROVE Harmless
    <2>1. f[1] \in Items
      BY DEF TypeOK
    <2> QED BY <1>10, <2>1 DEF SwitchDecides, TypeOK, Transfer, cycleVars
  <1>11. ASSUME UNCHANGED vars  PROVE Harmless
    BY <1>11 DEF vars, cycleVars, switchVars
  <1>12. CASE Harmless
    BY <1>5, <1>12
  <1>13. Harmless \/ \E c \in Cycles : CycleStep(c) \/ CycleFault(c)
    <2> HIDE DEF Harmless
    <2> QED BY <1>6, <1>7, <1>8, <1>9, <1>10, <1>11 DEF Next
  <1> QED
    <2> HIDE DEF Harmless
    <2> QED BY <1>4, <1>12, <1>13

-----------------------------------------------------------------------------
LEMMA QueueInit == Init => QueueInv
  <1> SUFFICES ASSUME Init PROVE QueueInv
    OBVIOUS
  <1>1. TypeOK
    BY TypeInit
  <1>2. HandsInv /\ ExclusiveClaim /\ StatusInv /\ SelectedInv
    BY DEF Init, HandsInv, Working, ExclusiveClaim, StatusInv, SelectedInv
  <1>3. PreimageInv /\ PostingInv /\ SettledInv
    BY DEF Init, PreimageInv, PostingInv, SettledInv
  <1> QED BY <1>1, <1>2, <1>3 DEF QueueInv

LEMMA QueueStep == Timely /\ QueueInv /\ [Next]_vars => QueueInv'
  <1> SUFFICES ASSUME Timely, QueueInv, [Next]_vars PROVE QueueInv'
    OBVIOUS
  <1>1. TypeOK' /\ HandsInv'
    BY TypeStep, HandsStep DEF QueueInv
  <1>2. ExclusiveClaim'
    BY <1>1, ClaimStep
  <1>3. StatusInv' /\ SelectedInv' /\ PreimageInv'
    BY <1>1, StatusStep, SelectedStep, PreimageStep
  <1>4. PostingInv' /\ SettledInv'
    BY <1>1, PostingStep, SettledStep DEF QueueInv
  <1> QED BY <1>1, <1>2, <1>3, <1>4 DEF QueueInv

LEMMA QueueInvariance == ASSUME Timely PROVE Spec => []QueueInv
  <1>1. QueueInv /\ [Next]_vars => QueueInv'
    BY QueueStep
  <1> QED BY QueueInit, <1>1, PTL DEF Spec

\* While a row in hand is in one cycle's hands, its last write is young and
\* nobody retries it, no step puts it back in the queue but its cycle's own,
\* which lets go of it.
LEMMA HandKeepsStatus ==
  ASSUME TypeOK, HandsInv, Next, NEW i \in Items, Held(i), Held(i)',
         \A c, d \in Cycles : i \in todo[c] /\ i \in todo[d] => c = d,
         ~row[i].aged, row[i].status \notin {"absent", "queued"},
         \A a \in Admins : i \in selected[a] => i \in selected'[a]
  PROVE  row'[i].status \notin {"absent", "queued"}
  <1>0. /\ row[i] \in Row /\ row \in [Items -> Row] /\ DOMAIN row = Items
        /\ row[i].aged = FALSE /\ row[i].status \in Status
    BY DEF TypeOK, Row
  <1>1. ASSUME NEW j \in Items, Enqueue(j) \/ EnqueueInitiated(j) \/ BackoffElapses(j)
        PROVE  row'[i] = row[i]
    BY <1>1 DEF Enqueue, EnqueueInitiated, BackoffElapses, TypeOK
  <1>2. ASSUME NEW j \in Items, Age(j)  PROVE row'[i].status = row[i].status
    BY <1>2 DEF Age, TypeOK, Row
  <1>3. ASSUME NEW c \in Cycles, Start(c)  PROVE row'[i] = row[i]
    <2>1. row'[i] = IF row[i].status = "processing" /\ row[i].aged
                    THEN [row[i] EXCEPT !.status = "queued", !.due = "now", !.aged = FALSE]
                    ELSE row[i]
      BY <1>3 DEF Start
    <2> QED BY <2>1
  <1>4. ASSUME NEW c \in Cycles, Claim(c)
        PROVE  row'[i].status \in {row[i].status, "processing"}
    <2>1. PICK S \in SUBSET Claimable :
            row' = [k \in Items |-> IF k \in S
                     THEN [row[k] EXCEPT !.status = "processing", !.aged = FALSE] ELSE row[k]]
      BY <1>4 DEF Claim
    <2>2. row'[i] \in {row[i], [row[i] EXCEPT !.status = "processing", !.aged = FALSE]}
      BY <2>1
    <2> QED BY <1>0, <2>2 DEF Row
  <1>5. ASSUME NEW c \in Cycles, NEW j \in Items, EnsurePreimage(c, j) \/ EnsurePreimageFails(c, j)
        PROVE  row'[i].status = row[i].status
    <2>1. row' \in {row, Stored(j)}
      BY <1>5 DEF EnsurePreimage, EnsurePreimageFails
    <2>2. Stored(j)[i].status = row[i].status
      BY <1>0 DEF Stored, Row
    <2> QED BY <2>1, <2>2
  <1>6. ASSUME NEW c \in Cycles, Commit(c) \/ Fail(c) \/ WriteFails(c)
        PROVE  row'[i].status \in {row[i].status, "committed", "failed", "dead_letter"}
    <2>1. row' \in {row, Committed(item[c]), Failed(c)}
      BY <1>6 DEF Commit, Fail, WriteFails
    <2>2. Committed(item[c])[i].status \in {row[i].status, "committed"}
      BY <1>0 DEF Committed, Row
    <2>3. Failed(c)[i].status \in {row[i].status, "failed", "dead_letter"}
      BY <1>0 DEF Failed, AfterFailure, Row
    <2> QED BY <2>1, <2>2, <2>3
  <1>7. ASSUME NEW c \in Cycles, Requeue(c)  PROVE row'[i] = row[i]
    <2>1. item[c] \in todo[c] /\ todo' = [todo EXCEPT ![c] = @ \ {item[c]}]
      BY <1>7 DEF Requeue, NextItem, HandsInv, Working
    <2>2. item[c] # i
      <3> SUFFICES ASSUME item[c] = i PROVE FALSE
        OBVIOUS
      <3>1. PICK d \in Cycles : i \in todo'[d]
        BY DEF Held
      <3>2. i \in todo[d] /\ d # c
        BY <2>1, <3>1 DEF TypeOK
      <3> QED BY <2>1, <3>2
    <2> QED BY <1>7, <2>2 DEF Requeue, TypeOK
  <1>8. ASSUME NEW a \in Admins, RetrySelected(a)  PROVE row'[i] = row[i]
    <2>1. selected'[a] = {}
      BY <1>8 DEF RetrySelected, TypeOK
    <2>2. i \notin selected[a]
      BY <2>1
    <2> QED BY <1>8, <2>2 DEF RetrySelected
  <1>9. ASSUME NEW c \in Cycles,
               \/ Prepare(c) \/ Fulfil(c) \/ CallFails(c) \/ PostDebit(c) \/ PostCredit(c)
               \/ PostFails(c) \/ Crash(c)
        PROVE  row' = row
    BY <1>9 DEF Prepare, Fulfil, CallFails, PostDebit, PostCredit, PostFails, Crash
  <1>10. ASSUME NEW a \in Admins, SelectDeadLetters(a)  PROVE row' = row
    BY <1>10 DEF SelectDeadLetters
  <1>11. ASSUME NEW j \in Items, SwitchExpires(j)  PROVE row' = row
    BY <1>11 DEF SwitchExpires
  <1>12. ASSUME NEW x \in fulfilling, SwitchDecides(x[1], x[2])  PROVE row' = row
    BY <1>12 DEF SwitchDecides
  <1> QED
    BY <1>1, <1>2, <1>3, <1>4, <1>5, <1>6, <1>7, <1>8, <1>9, <1>10, <1>11, <1>12
    DEF Next, CycleStep, CycleFault

\* Who may hold a row after a step: those who did, or one cycle that found it in
\* the queue.
LEMMA HandsGrow ==
  ASSUME TypeOK, HandsInv, Next, NEW i \in Items
  PROVE  \/ \A c \in Cycles : i \in todo'[c] => i \in todo[c]
         \/ /\ row[i].status = "queued" /\ row'[i].status = "processing" /\ ~row'[i].aged
            /\ \E c \in Cycles : \A d \in Cycles : d # c => todo'[d] = todo[d]
  <1>1. ASSUME NEW c \in Cycles, Claim(c)
        PROVE  \/ \A d \in Cycles : i \in todo'[d] => i \in todo[d]
               \/ /\ row[i].status = "queued"
                  /\ row'[i].status = "processing" /\ ~row'[i].aged
                  /\ \A d \in Cycles : d # c => todo'[d] = todo[d]
    <2>1. PICK S \in SUBSET Claimable :
            /\ row' = [k \in Items |-> IF k \in S
                         THEN [row[k] EXCEPT !.status = "processing", !.aged = FALSE] ELSE row[k]]
            /\ todo' = [todo EXCEPT ![c] = S]
      BY <1>1 DEF Claim
    <2>2. todo'[c] = S /\ \A d \in Cycles : d # c => todo'[d] = todo[d]
      BY <2>1 DEF TypeOK
    <2>3. CASE i \in S
      <3>1. row[i].status = "queued"
        BY <2>3 DEF Claimable
      <3>2. row'[i] = [row[i] EXCEPT !.status = "processing", !.aged = FALSE]
        BY <2>1, <2>3
      <3>3. row[i] \in Row
        BY DEF TypeOK
      <3>4. row'[i].status = "processing" /\ ~row'[i].aged
        BY <3>2, <3>3 DEF Row
      <3> QED BY <2>2, <3>1, <3>4
    <2>4. CASE i \notin S
      BY <2>2, <2>4
    <2> QED BY <2>3, <2>4
  <1>2. ASSUME NEW c \in Cycles, CycleStep(c) \/ CycleFault(c), ~Claim(c)
        PROVE  \A d \in Cycles : todo'[d] \subseteq todo[d]
    <2>1. CASE NextItem(c)
      BY <2>1 DEF TypeOK, NextItem
    <2>2. CASE Crash(c)
      BY <2>2 DEF TypeOK, Crash
    <2>3. NextItem(c) \/ Crash(c) \/ UNCHANGED todo
      BY <1>2 DEF CycleStep, CycleFault, Start, EnsurePreimage, EnsurePreimageFails, Prepare,
         Fulfil, CallFails, Commit, WriteFails, PostDebit, PostCredit, PostFails, Fail, Requeue
    <2> QED BY <2>1, <2>2, <2>3
  <1>3. (\A c \in Cycles : ~(CycleStep(c) \/ CycleFault(c))) => UNCHANGED todo
    BY DEF Next, Enqueue, EnqueueInitiated, SelectDeadLetters, RetrySelected, BackoffElapses, Age,
        SwitchExpires, SwitchDecides, vars, cycleVars
  <1> QED BY <1>1, <1>2, <1>3

\* A row in hand that was never lost from sight is in the hands of one cycle,
\* and nothing can take it: it is not queued, and its last write is young.
RowInHand(i) ==
  i \notin outrun =>
    /\ \A c, d \in Cycles : i \in todo[c] /\ i \in todo[d] => c = d
    /\ Held(i) => ~row[i].aged /\ row[i].status \notin {"absent", "queued"}

LEMMA HandStep ==
  ASSUME TypeOK, HandsInv, ClaimsNext, NEW i \in Items, RowInHand(i)
  PROVE  RowInHand(i)'
  <1> SUFFICES ASSUME i \notin outrun', Held(i)'
               PROVE  /\ \A c, d \in Cycles : i \in todo'[c] /\ i \in todo'[d] => c = d
                      /\ ~row'[i].aged /\ row'[i].status \notin {"absent", "queued"}
    BY DEF RowInHand, Held
  <1>1. Next /\ i \notin outrun /\ i \notin Outruns
    BY DEF ClaimsNext
  <1>2. CASE Held(i) /\ \A c \in Cycles : i \in todo'[c] => i \in todo[c]
    <2>1. ~row'[i].aged /\ \A a \in Admins : i \in selected[a] => i \in selected'[a]
      BY <1>1, <1>2 DEF Outruns
    <2>2. /\ \A c, d \in Cycles : i \in todo[c] /\ i \in todo[d] => c = d
          /\ ~row[i].aged /\ row[i].status \notin {"absent", "queued"}
      BY <1>1, <1>2 DEF RowInHand
    <2>3. row'[i].status \notin {"absent", "queued"}
      BY <1>1, <1>2, <2>1, <2>2, HandKeepsStatus
    <2> QED BY <1>2, <2>1, <2>2, <2>3
  <1>3. CASE row[i].status = "queued"
    <2>1. \A c \in Cycles : i \notin todo[c]
      BY <1>1, <1>3 DEF RowInHand, Held
    <2>2. ~ \A c \in Cycles : i \in todo'[c] => i \in todo[c]
      BY <2>1 DEF Held
    <2> QED BY <1>1, <2>1, <2>2, HandsGrow
  <1>4. Held(i) \/ row[i].status = "queued"
    BY <1>1, HandsGrow DEF Held
  <1> QED BY <1>1, <1>2, <1>3, <1>4, HandsGrow

\* In any number of replicas, with any number of crashes, failed statements and
\* administrators, and however slow the cycles are: two of them work on one row
\* only if it outlasted the heartbeat, or was retried as a dead letter, in the
\* hands of the first.
THEOREM ClaimsAreExclusive == ClaimsSpec => []ExclusiveUnlessOutrun
  <1> DEFINE HInv == TypeOK /\ HandsInv /\ \A i \in Items : RowInHand(i)
  <1>1. ClaimsInit => HInv
    <2>1. ClaimsInit => TypeOK /\ HandsInv
      BY TypeInit DEF ClaimsInit, Init, HandsInv, Working
    <2>2. ClaimsInit => \A i \in Items : RowInHand(i)
      BY DEF ClaimsInit, Init, RowInHand, Held
    <2> QED BY <2>1, <2>2
  <1>2. HInv /\ [ClaimsNext]_<<vars, outrun>> => HInv'
    <2> SUFFICES ASSUME HInv, [ClaimsNext]_<<vars, outrun>> PROVE HInv'
      OBVIOUS
    <2>1. TypeOK' /\ HandsInv'
      BY TypeStep, HandsStep DEF ClaimsNext
    <2>2. CASE ClaimsNext
      BY <2>1, <2>2, HandStep
    <2>3. CASE UNCHANGED <<vars, outrun>>
      BY <2>1, <2>3 DEF RowInHand, Held, vars, cycleVars
    <2> QED BY <2>2, <2>3
  <1>3. HInv => ExclusiveUnlessOutrun
    BY DEF ExclusiveUnlessOutrun, RowInHand, TypeOK
  <1> QED BY <1>1, <1>2, <1>3, PTL DEF ClaimsSpec

\* As long as no row outlasts the heartbeat timeout in a live cycle and one
\* administrator retries at a time, the switch sees each transfer under one
\* condition.
THEOREM ConditionsAgree == ASSUME Timely PROVE Spec => []OneCondition
  <1>1. QueueInv => OneCondition
    BY DEF QueueInv, PreimageInv, OneCondition
  <1> QED BY <1>1, QueueInvariance, PTL

\* Under the same proviso, the mirror is never ahead of the committed rows.
THEOREM MirrorIsBacked == ASSUME Timely PROVE Spec => []MirrorBacked
  <1>1. QueueInv => MirrorBacked
    BY DEF QueueInv, PostingInv, MirrorBacked, TypeOK, Posting
  <1> QED BY <1>1, QueueInvariance, PTL

\* With a switch that settles before it answers, committed rows are settled:
\* also when rows outlast the heartbeat and several administrators retry.
THEOREM CommittedRowsAreSettled ==
  ASSUME ~AsyncSwitch PROVE Spec => []CommittedIsSettled
  <1>1. Init => TypeOK /\ HandsInv /\ SettledInv
    BY TypeInit DEF Init, HandsInv, Working, SettledInv
  <1>2. TypeOK /\ HandsInv /\ SettledInv /\ [Next]_vars => TypeOK' /\ HandsInv' /\ SettledInv'
    BY TypeStep, HandsStep, SettledStep
  <1>3. SettledInv => CommittedIsSettled
    BY DEF SettledInv, CommittedIsSettled
  <1> QED BY <1>1, <1>2, <1>3, PTL DEF Spec

\* Under the same proviso, a committed row that no cycle holds stays committed.
THEOREM CommittedRowsAreFinal == ASSUME Timely PROVE Spec => CommittedIsFinal
  <1>1. QueueInv /\ [Next]_vars
          => [\A i \in Items : row[i].status = "committed" /\ ~Held(i)
                              => row'[i].status = "committed"]_vars
    <2> SUFFICES ASSUME QueueInv, [Next]_vars, NEW i \in Items,
                        row[i].status = "committed", ~Held(i)
                 PROVE  row'[i].status = "committed"
      OBVIOUS
    <2>1. ASSUME NEW c \in Cycles, CycleStep(c) \/ CycleFault(c)  PROVE row'[i] = row[i]
      <3>1. CASE Start(c) \/ Claim(c)
        BY <3>1, ClaimFrame
      <3>2. CASE ~Start(c) /\ ~Claim(c)
        BY <2>1, <3>2, RowFrame DEF Held
      <3> QED BY <3>1, <3>2
    <2> QED BY <2>1, OtherFrame
  <1> QED BY <1>1, QueueInvariance, PTL DEF CommittedIsFinal, Spec

-----------------------------------------------------------------------------
(* The two sides of the mirror, whatever the timing.                        *)

\* The cycles that have posted the debit of a transfer and owe its credit.
OwingCredit(i) == {c \in Cycles : pc[c] = "credit" /\ item[c] = i}

\* Each credit still owed stands for a debit that was posted.
OwedInv ==
  \A i \in Items :
    /\ IsFiniteSet(OwingCredit(i))
    /\ mirror[i].credit + Cardinality(OwingCredit(i)) <= mirror[i].debit

LEMMA FewerOwe ==
  ASSUME NEW S, IsFiniteSet(S), NEW T \in SUBSET S
  PROVE  IsFiniteSet(T) /\ Cardinality(T) <= Cardinality(S)
         /\ Cardinality(T) \in Nat /\ Cardinality(S) \in Nat
  BY FS_Subset, FS_CardinalityType

LEMMA NatLess ==
  ASSUME NEW n \in Nat, NEW k \in Nat, NEW m \in Nat, NEW d \in Nat, n + k <= d, m <= k
  PROVE  n + m <= d
  OBVIOUS

\* A step that posts nothing and brings no cycle to owe a credit.
LEMMA OwedFrame ==
  ASSUME TypeOK, OwedInv, UNCHANGED mirror,
         \A i \in Items : OwingCredit(i)' \subseteq OwingCredit(i)
  PROVE  OwedInv'
  <1> SUFFICES ASSUME NEW i \in Items
               PROVE  /\ IsFiniteSet(OwingCredit(i)')
                      /\ mirror'[i].credit + Cardinality(OwingCredit(i)') <= mirror'[i].debit
    BY DEF OwedInv
  <1>1. /\ IsFiniteSet(OwingCredit(i))
        /\ mirror[i].credit + Cardinality(OwingCredit(i)) <= mirror[i].debit
        /\ mirror[i].credit \in Nat /\ mirror[i].debit \in Nat
    BY DEF OwedInv, TypeOK, Posting
  <1>2. /\ IsFiniteSet(OwingCredit(i)')
        /\ Cardinality(OwingCredit(i)') <= Cardinality(OwingCredit(i))
        /\ Cardinality(OwingCredit(i)') \in Nat /\ Cardinality(OwingCredit(i)) \in Nat
    BY <1>1, FewerOwe
  <1>3. mirror[i].credit + Cardinality(OwingCredit(i)') <= mirror[i].debit
    BY <1>1, <1>2, NatLess
  <1> QED BY <1>2, <1>3

LEMMA OwedStep ==
  ASSUME TypeOK, HandsInv, OwedInv, [Next]_vars
  PROVE  OwedInv'
  <1>1. ASSUME NEW c \in Cycles, PostDebit(c) \/ PostCredit(c)  PROVE OwedInv'
    <2>1. /\ item[c] \in Items
          /\ \A i \in Items : /\ IsFiniteSet(OwingCredit(i))
                              /\ Cardinality(OwingCredit(i)) \in Nat
                              /\ mirror[i].credit \in Nat /\ mirror[i].debit \in Nat
                              /\ mirror[i].credit + Cardinality(OwingCredit(i)) <= mirror[i].debit
      BY <1>1, FS_CardinalityType
      DEF PostDebit, PostCredit, HandsInv, Working, TypeOK, OwedInv, Posting
    <2>2. ASSUME NEW i \in Items, i # item[c]
          PROVE  OwingCredit(i)' = OwingCredit(i) /\ mirror'[i] = mirror[i]
      <3>1. mirror'[i] = mirror[i]
        BY <1>1, <2>1, <2>2 DEF PostDebit, PostCredit, TypeOK
      <3>2. ASSUME NEW d \in Cycles
            PROVE  (pc'[d] = "credit" /\ item'[d] = i) <=> (pc[d] = "credit" /\ item[d] = i)
        BY <1>1, <2>2 DEF PostDebit, PostCredit, NextItem, TypeOK
      <3> QED BY <3>1, <3>2 DEF OwingCredit
    <2>3. CASE PostDebit(c)
      <3>1. /\ mirror'[item[c]].debit = mirror[item[c]].debit + 1
            /\ mirror'[item[c]].credit = mirror[item[c]].credit
        BY <2>1, <2>3 DEF PostDebit, TypeOK, Posting
      <3>2. c \notin OwingCredit(item[c]) /\ OwingCredit(item[c])' = OwingCredit(item[c]) \cup {c}
        BY <2>3 DEF PostDebit, OwingCredit, TypeOK
      <3>3. /\ IsFiniteSet(OwingCredit(item[c])')
            /\ Cardinality(OwingCredit(item[c])') = Cardinality(OwingCredit(item[c])) + 1
        BY <2>1, <3>2, FS_AddElement
      <3>4. mirror'[item[c]].credit + Cardinality(OwingCredit(item[c])') <= mirror'[item[c]].debit
        BY <2>1, <3>1, <3>3
      <3>5. UNCHANGED item
        BY <2>3 DEF PostDebit
      <3> QED BY <2>1, <2>2, <3>3, <3>4, <3>5 DEF OwedInv
    <2>4. CASE PostCredit(c)
      <3>1. /\ mirror'[item[c]].credit = mirror[item[c]].credit + 1
            /\ mirror'[item[c]].debit = mirror[item[c]].debit
        BY <2>1, <2>4 DEF PostCredit, TypeOK, Posting
      <3>2. /\ c \in OwingCredit(item[c])
            /\ \A d \in Cycles : (pc'[d] = "credit" /\ item'[d] = item[c])
                                  <=> (d # c /\ pc[d] = "credit" /\ item[d] = item[c])
        BY <2>1, <2>4 DEF PostCredit, NextItem, OwingCredit, TypeOK
      <3> DEFINE Left == {d \in Cycles : pc'[d] = "credit" /\ item'[d] = item[c]}
      <3>3. Left = OwingCredit(item[c]) \ {c}
        BY <3>2 DEF OwingCredit
      <3>4. /\ IsFiniteSet(Left)
            /\ Cardinality(Left) = Cardinality(OwingCredit(item[c])) - 1
        <4>1. IsFiniteSet(OwingCredit(item[c])) /\ c \in OwingCredit(item[c])
          BY <2>1, <3>2
        <4> HIDE DEF Left
        <4> QED BY <3>3, <4>1, FS_RemoveElement
      <3>5. mirror'[item[c]].credit + Cardinality(Left) <= mirror'[item[c]].debit
        BY <2>1, <3>1, <3>4
      <3>6. ASSUME NEW i \in Items
            PROVE  /\ IsFiniteSet(OwingCredit(i)')
                   /\ mirror'[i].credit + Cardinality(OwingCredit(i)') <= mirror'[i].debit
        <4>1. CASE i = item[c]
          <5>1. OwingCredit(i)' = Left
            BY <4>1 DEF OwingCredit
          <5> HIDE DEF Left
          <5> QED BY <3>4, <3>5, <4>1, <5>1
        <4>2. CASE i # item[c]
          BY <2>1, <2>2, <4>2
        <4> QED BY <4>1, <4>2
      <3> QED BY <3>6 DEF OwedInv
    <2> QED BY <1>1, <2>3, <2>4
  <1>2. ASSUME UNCHANGED mirror,
               \A d \in Cycles : pc'[d] = "credit" => pc[d] = "credit" /\ item'[d] = item[d]
        PROVE  OwedInv'
    <2>1. \A i \in Items : OwingCredit(i)' \subseteq OwingCredit(i)
      BY <1>2 DEF OwingCredit
    <2> QED BY <1>2, <2>1, OwedFrame
  <1>3. ASSUME NEW c \in Cycles, CycleStep(c) \/ CycleFault(c), ~PostDebit(c), ~PostCredit(c)
        PROVE  /\ UNCHANGED mirror
               /\ \A d \in Cycles : pc'[d] = "credit" => pc[d] = "credit" /\ item'[d] = item[d]
    <2>1. UNCHANGED mirror /\ pc'[c] # "credit"
      BY <1>3 DEF TypeOK, CycleStep, CycleFault, Start, Claim, EnsurePreimage, EnsurePreimageFails,
         Prepare, Fulfil, CallFails, Commit, WriteFails, PostFails, Fail, Requeue, Crash, NextItem
    <2> QED BY <1>3, <2>1, OtherCycles
  <1>4. \/ \E c \in Cycles : CycleStep(c) \/ CycleFault(c)
        \/ UNCHANGED <<mirror, pc, item>>
    BY DEF Next, Enqueue, EnqueueInitiated, SelectDeadLetters, RetrySelected, BackoffElapses, Age,
       SwitchExpires, SwitchDecides, vars, cycleVars
  <1> QED BY <1>1, <1>2, <1>3, <1>4

\* The credit side of the mirror never runs ahead of its debit side, for every
\* timing: cycles that work on one row may post it twice, and post twice in
\* this order.
THEOREM CreditsFollowDebits == Spec => []CreditFollowsDebit
  <1>1. Init => TypeOK /\ HandsInv /\ OwedInv
    <2> SUFFICES ASSUME Init PROVE OwedInv
      BY TypeInit DEF Init, HandsInv, Working
    <2>1. \A i \in Items : OwingCredit(i) = {} /\ mirror[i].credit = 0 /\ mirror[i].debit = 0
      BY DEF Init, OwingCredit
    <2> QED BY <2>1, FS_EmptySet DEF OwedInv
  <1>2. TypeOK /\ HandsInv /\ OwedInv /\ [Next]_vars => TypeOK' /\ HandsInv' /\ OwedInv'
    BY TypeStep, HandsStep, OwedStep
  <1>3. TypeOK /\ OwedInv => CreditFollowsDebit
    <2> SUFFICES ASSUME TypeOK, OwedInv, NEW i \in Items
                 PROVE  mirror[i].credit <= mirror[i].debit
      BY DEF CreditFollowsDebit
    <2>1. /\ Cardinality(OwingCredit(i)) \in Nat
          /\ mirror[i].credit + Cardinality(OwingCredit(i)) <= mirror[i].debit
          /\ mirror[i].credit \in Nat /\ mirror[i].debit \in Nat
      BY FS_CardinalityType DEF OwedInv, TypeOK, Posting
    <2> QED BY <2>1
  <1> QED BY <1>1, <1>2, <1>3, PTL DEF Spec

-----------------------------------------------------------------------------
(* What an attempt costs.                                                   *)

Untried == {"absent", "queued", "processing"}

\* A row that may still be tried, the copy of a row in a cycle and a row on its
\* way back to the queue have had at most as many attempts as there were faults.
AttemptInv ==
  /\ \A i \in Items :
       /\ row[i].attempt <= faults + 1
       /\ row[i].status \in Untried => row[i].attempt <= faults
       /\ row[i].status = "dead_letter" => row[i].attempt >= MaxAttempts
  /\ \A c \in Cycles : \A i \in todo[c] :
       /\ snap[c][i].attempt <= faults
       /\ item[c] = i /\ pc[c] = "requeue" => row[i].attempt <= faults

LEMMA FaultsGrow ==
  ASSUME TypeOK, [Next]_vars
  PROVE  faults' \in Nat /\ faults \in Nat /\ faults' >= faults
  <1>1. faults \in Nat /\ (faults' = faults \/ faults' = faults + 1)
    BY DEF TypeOK, vars, Next, CycleStep, CycleFault, Enqueue, EnqueueInitiated, Start, Claim,
       EnsurePreimage, EnsurePreimageFails, Prepare, Fulfil, CallFails, Commit, WriteFails,
       PostDebit, PostCredit, PostFails, Fail, Requeue, Crash, SelectDeadLetters, RetrySelected,
       BackoffElapses, Age, SwitchExpires, SwitchDecides, Fault
  <1> QED BY <1>1

\* What a step may do to the attempts of a row: nothing, start anew when the
\* administrator says so, or count the failure of a cycle's copy.
Counted(i) ==
  \/ /\ row'[i].attempt = row[i].attempt
     /\ row'[i].status \in Untried => row[i].status \in Untried \/ row[i].attempt <= faults
     /\ row'[i].status = "dead_letter" => row[i].status = "dead_letter"
  \/ row'[i].attempt = 0 /\ row'[i].status = "queued"
  \/ \E n \in 0..faults :
       /\ row'[i].attempt = n + 1
       /\ row'[i].status = IF n + 1 >= MaxAttempts THEN "dead_letter" ELSE "failed"

LEMMA CountedSame ==
  ASSUME NEW i \in Items, row'[i] = row[i]
  PROVE  Counted(i)
  BY DEF Counted

LEMMA FailureCounted ==
  ASSUME TypeOK, AttemptInv, NEW c \in Cycles, item[c] \in todo[c], row' = Failed(c)
  PROVE  \A i \in Items : Counted(i)
  <1>1. /\ item[c] \in Items /\ row[item[c]] \in Row
        /\ snap[c][item[c]].attempt \in Nat /\ faults \in Nat
        /\ snap[c][item[c]].attempt <= faults
    BY DEF TypeOK, AttemptInv, Copy
  <1>2. \A i \in Items \ {item[c]} : row'[i] = row[i]
    BY <1>1 DEF Failed, TypeOK
  <1> DEFINE n == snap[c][item[c]].attempt
  <1>3. row'[item[c]] = AfterFailure(row[item[c]], n + 1)
    BY <1>1 DEF Failed, TypeOK
  <1>4. /\ row'[item[c]].attempt = n + 1
        /\ row'[item[c]].status = IF n + 1 >= MaxAttempts THEN "dead_letter" ELSE "failed"
    BY <1>1, <1>3 DEF AfterFailure, Row
  <1>5. n \in 0..faults
    BY <1>1
  <1>6. Counted(item[c])
    BY <1>4, <1>5 DEF Counted
  <1> QED BY <1>2, <1>6, CountedSame

LEMMA RowsCounted ==
  ASSUME Timely, QueueInv, AttemptInv, [Next]_vars
  PROVE  \A i \in Items : Counted(i)
  <1> TypeOK
    BY DEF QueueInv
  <1> DEFINE All == \A i \in Items : Counted(i)
  <1>0. \A c \in Cycles : pc[c] \in Working => item[c] \in todo[c] /\ item[c] \in Items
    BY DEF QueueInv, HandsInv, TypeOK
  <1>1. ASSUME NEW i \in Items, Enqueue(i) \/ EnqueueInitiated(i)  PROVE All
    <2>1. row'[i].attempt = row[i].attempt /\ row'[i].status = "queued" /\ row[i].status = "absent"
      <3>1. /\ row[i] \in Row /\ row[i].status = "absent"
            /\ \/ row'[i] = [row[i] EXCEPT !.status = "queued", !.due = "now"]
               \/ row'[i] = [row[i] EXCEPT !.status = "queued"]
        BY <1>1 DEF Enqueue, EnqueueInitiated, TypeOK
      <3> QED BY <3>1 DEF Row
    <2>2. \A j \in Items \ {i} : row'[j] = row[j]
      BY <1>1 DEF Enqueue, EnqueueInitiated, TypeOK
    <2> QED BY <2>1, <2>2, CountedSame DEF Counted, Untried
  <1>2. ASSUME NEW c \in Cycles, Start(c)  PROVE All
    <2> SUFFICES ASSUME NEW i \in Items  PROVE Counted(i)
      OBVIOUS
    <2>1. \/ row'[i] = row[i]
          \/ /\ row[i].status = "processing"
             /\ row'[i] = [row[i] EXCEPT !.status = "queued", !.due = "now", !.aged = FALSE]
      BY <1>2 DEF Start
    <2>2. row[i] \in Row
      BY DEF TypeOK
    <2> QED BY <2>1, <2>2, CountedSame DEF Counted, Untried, Row
  <1>3. ASSUME NEW c \in Cycles, Claim(c)  PROVE All
    <2> SUFFICES ASSUME NEW i \in Items  PROVE Counted(i)
      OBVIOUS
    <2>1. PICK S \in SUBSET Claimable :
            row' = [k \in Items |-> IF k \in S
                      THEN [row[k] EXCEPT !.status = "processing", !.aged = FALSE]
                      ELSE row[k]]
      BY <1>3 DEF Claim
    <2>2. \/ row'[i] = row[i]
          \/ /\ row[i].status = "queued"
             /\ row'[i] = [row[i] EXCEPT !.status = "processing", !.aged = FALSE]
      BY <2>1 DEF Claimable
    <2>3. row[i] \in Row
      BY DEF TypeOK
    <2> QED BY <2>2, <2>3, CountedSame DEF Counted, Untried, Row
  <1>4. ASSUME NEW c \in Cycles, NEW j \in Items, EnsurePreimage(c, j) \/ EnsurePreimageFails(c, j)
        PROVE  All
    <2>1. row' = row \/ row' = Stored(j)
      BY <1>4 DEF EnsurePreimage, EnsurePreimageFails
    <2>2. Stored(j)[j].status = row[j].status /\ Stored(j)[j].attempt = row[j].attempt
      BY DEF Stored, TypeOK, Row
    <2>3. \A i \in Items \ {j} : Stored(j)[i] = row[i]
      BY DEF Stored, TypeOK
    <2> QED BY <2>1, <2>2, <2>3, CountedSame DEF Counted
  <1>5. ASSUME UNCHANGED row  PROVE All
    BY <1>5, CountedSame
  <1>6. ASSUME NEW c \in Cycles, pc[c] \in Working, row' = Committed(item[c])  PROVE All
    <2>1. /\ row'[item[c]].status = "committed"
          /\ row'[item[c]].attempt = row[item[c]].attempt
      BY <1>0, <1>6 DEF Committed, TypeOK, Row
    <2>2. \A i \in Items \ {item[c]} : row'[i] = row[i]
      BY <1>0, <1>6 DEF Committed, TypeOK
    <2>3. Counted(item[c])
      BY <2>1 DEF Counted, Untried
    <2> QED BY <2>2, <2>3, CountedSame
  <1>7. ASSUME NEW c \in Cycles, Commit(c) \/ Fail(c) \/ WriteFails(c)  PROVE All
    <2>1. pc[c] \in Working
      BY <1>7 DEF Commit, Fail, WriteFails, Working
    <2>2. row' = row \/ row' = Committed(item[c]) \/ row' = Failed(c)
      BY <1>7 DEF Commit, Fail, WriteFails
    <2> QED BY <1>0, <1>5, <1>6, <2>1, <2>2, FailureCounted
  <1>8. ASSUME NEW c \in Cycles, Requeue(c)  PROVE All
    <2>1. /\ item[c] \in Items /\ item[c] \in todo[c] /\ pc[c] = "requeue"
          /\ row' = [row EXCEPT ![item[c]] =
                       [@ EXCEPT !.status = "queued", !.due = "later", !.aged = FALSE]]
      BY <1>0, <1>8 DEF Requeue, Working
    <2>2. row[item[c]].attempt <= faults
      BY <2>1 DEF AttemptInv
    <2>3. row'[item[c]].status = "queued" /\ row'[item[c]].attempt = row[item[c]].attempt
      BY <2>1 DEF TypeOK, Row
    <2>4. \A i \in Items \ {item[c]} : row'[i] = row[i]
      BY <2>1 DEF TypeOK
    <2>5. Counted(item[c])
      BY <2>2, <2>3 DEF Counted, Untried
    <2> QED BY <2>4, <2>5, CountedSame
  <1>9. ASSUME NEW a \in Admins, RetrySelected(a)  PROVE All
    <2> SUFFICES ASSUME NEW i \in Items  PROVE Counted(i)
      OBVIOUS
    <2>1. row'[i] = row[i] \/ (row'[i].attempt = 0 /\ row'[i].status = "queued")
      <3>1. row'[i] = row[i] \/ row'[i] = [row[i] EXCEPT !.status = "queued", !.attempt = 0,
                                                        !.due = "now", !.aged = FALSE]
        BY <1>9 DEF RetrySelected
      <3>2. row[i] \in Row
        BY DEF TypeOK
      <3> QED BY <3>1, <3>2 DEF Row
    <2> QED BY <2>1, CountedSame DEF Counted
  <1>10. ASSUME NEW i \in Items, BackoffElapses(i) \/ Age(i)  PROVE All
    <2>1. row'[i].attempt = row[i].attempt /\ row'[i].status = row[i].status
      BY <1>10 DEF BackoffElapses, Age, TypeOK, Row
    <2>2. \A j \in Items \ {i} : row'[j] = row[j]
      BY <1>10 DEF BackoffElapses, Age, TypeOK
    <2>3. Counted(i)
      BY <2>1 DEF Counted
    <2> QED BY <2>2, <2>3, CountedSame
  <1>11. ASSUME NEW c \in Cycles, CycleStep(c) \/ CycleFault(c)  PROVE All
    <2>1. \/ UNCHANGED row
          \/ Start(c) \/ Claim(c) \/ Commit(c) \/ Fail(c) \/ WriteFails(c) \/ Requeue(c)
          \/ \E j \in Items : EnsurePreimage(c, j) \/ EnsurePreimageFails(c, j)
      BY <1>11 DEF CycleStep, CycleFault, Prepare, Fulfil, CallFails, PostDebit, PostCredit,
         PostFails, Crash
    <2> HIDE DEF All
    <2> QED BY <2>1, <1>2, <1>3, <1>4, <1>5, <1>7, <1>8
  <1>12. \/ UNCHANGED row
         \/ \E c \in Cycles : CycleStep(c) \/ CycleFault(c)
         \/ \E i \in Items : Enqueue(i) \/ EnqueueInitiated(i) \/ BackoffElapses(i) \/ Age(i)
         \/ \E a \in Admins : RetrySelected(a)
    BY DEF Next, vars, SelectDeadLetters, SwitchExpires, SwitchDecides
  <1> HIDE DEF All
  <1>13. All
    BY <1>1, <1>5, <1>9, <1>10, <1>11, <1>12
  <1> QED BY <1>13 DEF All

LEMMA CopiesStep ==
  ASSUME Timely, QueueInv, QueueInv', AttemptInv, [Next]_vars
  PROVE  \A c \in Cycles : \A i \in todo'[c] :
           /\ snap'[c][i].attempt <= faults'
           /\ item'[c] = i /\ pc'[c] = "requeue" => row'[i].attempt <= faults'
  <1> TypeOK /\ TypeOK'
    BY DEF QueueInv
  <1> DEFINE Paid(c, i) ==
        /\ snap[c][i].attempt <= faults
        /\ item[c] = i /\ pc[c] = "requeue" => row[i].attempt <= faults
  <1>0. /\ faults \in Nat /\ faults' \in Nat /\ faults' >= faults
        /\ \A i \in Items : row[i].attempt \in Nat /\ row'[i].attempt \in Nat
        /\ \A c \in Cycles, i \in Items : snap[c][i].attempt \in Nat /\ snap'[c][i].attempt \in Nat
    BY FaultsGrow DEF TypeOK, Row, Copy
  <1>1. \A c \in Cycles : \A i \in todo[c] : Paid(c, i) /\ i \in Items
    BY DEF AttemptInv, TypeOK
  <1>2. ASSUME NEW c \in Cycles, CycleStep(c) \/ CycleFault(c), NEW i \in todo'[c]
        PROVE  Paid(c, i)'
    <2>0. i \in Items /\ (pc[c] \in Working => item[c] \in todo[c] /\ item[c] \in Items)
      BY DEF QueueInv, HandsInv, TypeOK
    <2>1. CASE Start(c)
      BY <2>1 DEF Start, QueueInv, HandsInv
    <2>2. CASE Claim(c)
      <3>1. PICK S \in SUBSET Claimable :
              /\ todo' = [todo EXCEPT ![c] = S]
              /\ snap' = [snap EXCEPT ![c] =
                   [k \in Items |-> IF k \in S
                                    THEN [attempt |-> row[k].attempt, preimage |-> row[k].preimage]
                                    ELSE NoCopy]]
        BY <2>2 DEF Claim
      <3>2. i \in S /\ row[i].status = "queued"
        BY <3>1 DEF TypeOK, Claimable
      <3>3. snap'[c][i].attempt = row[i].attempt
        BY <2>0, <3>1, <3>2 DEF TypeOK
      <3>4. row[i].attempt <= faults
        BY <2>0, <3>2 DEF AttemptInv, Untried
      <3>5. pc'[c] # "requeue"
        BY <2>2 DEF Claim, TypeOK
      <3> QED BY <1>0, <2>0, <3>3, <3>4, <3>5
    <2>3. ASSUME NEW j \in Items, EnsurePreimage(c, j) \/ EnsurePreimageFails(c, j)
          PROVE  Paid(c, i)'
      <3>1. UNCHANGED todo /\ item'[c] = j /\ j \in todo[c] /\ item[c] # j
        BY <2>3, TakeInHand DEF QueueInv
      <3>2. snap'[c][i].attempt = snap[c][i].attempt
        <4>1. snap' = snap \/ snap' = [snap EXCEPT ![c][j].preimage = drawn[j] + 1]
          BY <2>3 DEF EnsurePreimage, EnsurePreimageFails
        <4>2. snap[c] \in [Items -> Copy] /\ snap \in [Cycles -> [Items -> Copy]]
          BY DEF TypeOK
        <4>3. [snap[c] EXCEPT ![j].preimage = drawn[j] + 1][i].attempt = snap[c][i].attempt
          BY <2>0, <4>2 DEF Copy
        <4> QED BY <4>1, <4>2, <4>3
      <3>3. row'[j].attempt <= faults
        <4>1. row[j].status = "processing"
          BY <3>1 DEF QueueInv, StatusInv
        <4>2. row' = row \/ row' = Stored(j)
          BY <2>3 DEF EnsurePreimage, EnsurePreimageFails
        <4>3. Stored(j)[j].attempt = row[j].attempt
          BY DEF Stored, TypeOK, Row
        <4> QED BY <4>1, <4>2, <4>3 DEF AttemptInv, Untried
      <3>4. snap[c][i].attempt <= faults
        BY <1>1, <3>1
      <3>5. snap'[c][i].attempt <= faults'
        BY <1>0, <2>0, <3>2, <3>4
      <3>6. row'[j].attempt <= faults'
        BY <1>0, <3>3
      <3> QED BY <3>1, <3>5, <3>6
    <2>4. CASE Prepare(c) \/ Fulfil(c) \/ CallFails(c) \/ Commit(c) \/ PostDebit(c)
      <3>1. UNCHANGED <<todo, snap>> /\ pc'[c] # "requeue"
        BY <2>4 DEF Prepare, Fulfil, CallFails, Commit, PostDebit, TypeOK
      <3>2. snap[c][i].attempt <= faults
        BY <1>1, <3>1
      <3> QED BY <1>0, <2>0, <3>1, <3>2
    <2>5. CASE WriteFails(c)
      <3>1. /\ UNCHANGED <<todo, item, snap>> /\ faults' = faults + 1
            /\ item[c] \in Items /\ item[c] \in todo[c] /\ pc[c] \in {"commit", "fail"}
        BY <2>0, <2>5 DEF WriteFails, Fault, Working
      <3>2. row[item[c]].attempt <= faults
        BY <3>1 DEF QueueInv, StatusInv, AttemptInv, Untried
      <3>3. snap[c][item[c]].attempt <= faults /\ snap[c][i].attempt <= faults
        BY <1>1, <3>1
      <3>4. \/ row' = row
            \/ row' = Committed(item[c])
            \/ row' = Failed(c)
        BY <2>5 DEF WriteFails
      <3>5. Committed(item[c])[item[c]].attempt = row[item[c]].attempt
        BY <3>1 DEF Committed, TypeOK, Row
      <3>6. Failed(c)[item[c]].attempt = snap[c][item[c]].attempt + 1
        <4>1. /\ Failed(c)[item[c]] = AfterFailure(row[item[c]], snap[c][item[c]].attempt + 1)
              /\ row[item[c]] \in Row
          BY <3>1 DEF Failed, TypeOK
        <4> QED BY <4>1 DEF AfterFailure, Row
      <3>7. row'[item[c]].attempt <= faults'
        BY <1>0, <3>1, <3>2, <3>3, <3>4, <3>5, <3>6
      <3>8. snap'[c][i].attempt <= faults'
        BY <1>0, <2>0, <3>1, <3>3
      <3> QED BY <3>1, <3>7, <3>8
    <2>6. CASE Fail(c) \/ PostCredit(c) \/ PostFails(c) \/ Requeue(c) \/ Crash(c)
      <3>1. i \in todo[c] /\ pc'[c] # "requeue" /\ snap'[c][i] = snap[c][i]
        BY <2>6, Release
      <3>2. snap[c][i].attempt <= faults
        BY <1>1, <3>1
      <3> QED BY <1>0, <2>0, <3>1, <3>2
    <2> HIDE DEF Paid
    <2> QED BY <1>2, <2>1, <2>2, <2>3, <2>4, <2>5, <2>6 DEF CycleStep, CycleFault
  <1>3. ASSUME NEW c \in Cycles, CycleStep(c) \/ CycleFault(c), NEW d \in Cycles, c # d,
               NEW i \in todo'[d]
        PROVE  Paid(d, i)'
    <2>1. /\ pc'[d] = pc[d] /\ item'[d] = item[d] /\ snap'[d] = snap[d]
          /\ i \in todo[d] /\ row'[i] = row[i]
      BY <1>3, CycleFrame
    <2>2. Paid(d, i) /\ i \in Items
      BY <1>1, <2>1
    <2> QED BY <1>0, <2>1, <2>2
  <1>4. ASSUME UNCHANGED cycleVars, \A i \in Items : Held(i) => row'[i] = row[i],
               NEW c \in Cycles, NEW i \in todo'[c]
        PROVE  Paid(c, i)'
    <2>1. /\ pc'[c] = pc[c] /\ item'[c] = item[c] /\ snap'[c] = snap[c] /\ i \in todo[c]
      BY <1>4 DEF cycleVars
    <2>2. Paid(c, i) /\ i \in Items /\ row'[i] = row[i]
      BY <1>1, <1>4, <2>1 DEF Held
    <2> QED BY <1>0, <2>1, <2>2
  <1>5. ASSUME NEW c \in Cycles, NEW i \in todo'[c]  PROVE Paid(c, i)'
    <2> HIDE DEF Paid
    <2>1. CASE \E d \in Cycles : CycleStep(d) \/ CycleFault(d)
      BY <1>2, <1>3, <1>5, <2>1
    <2> QED BY <1>4, <1>5, <2>1, OtherFrame
  <1> QED BY <1>5

LEMMA NothingBelow ==
  ASSUME NEW n \in Nat
  PROVE  0 <= n + 1 /\ 0 <= n
  OBVIOUS

LEMMA SuccessorBound ==
  ASSUME NEW n \in Nat, NEW f \in Nat, NEW g \in Nat, n <= f, g >= f
  PROVE  n + 1 <= g + 1
  OBVIOUS

LEMMA AttemptStep ==
  ASSUME Timely, QueueInv, QueueInv', AttemptInv, [Next]_vars
  PROVE  AttemptInv'
  <1>0. /\ faults \in Nat /\ faults' \in Nat /\ faults' >= faults /\ MaxAttempts \in Nat
        /\ \A i \in Items : row[i].attempt \in Nat /\ row'[i].attempt \in Nat
    BY FaultsGrow, QueueAssumption DEF QueueInv, TypeOK, Row
  <1>1. ASSUME NEW i \in Items
        PROVE  /\ row'[i].attempt <= faults' + 1
               /\ row'[i].status \in Untried => row'[i].attempt <= faults'
               /\ row'[i].status = "dead_letter" => row'[i].attempt >= MaxAttempts
    <2>1. /\ row[i].attempt <= faults + 1
          /\ row[i].status \in Untried => row[i].attempt <= faults
          /\ row[i].status = "dead_letter" => row[i].attempt >= MaxAttempts
      BY DEF AttemptInv
    <2>2. Counted(i)
      BY RowsCounted
    <2> DEFINE a == row'[i].attempt
               st == row'[i].status
    <2>0. /\ a \in Nat /\ row[i].attempt \in Nat
          /\ faults \in Nat /\ faults' \in Nat /\ faults' >= faults /\ MaxAttempts \in Nat
      BY <1>0
    <2>3. CASE /\ row'[i].attempt = row[i].attempt
               /\ row'[i].status \in Untried => row[i].status \in Untried \/ row[i].attempt <= faults
               /\ row'[i].status = "dead_letter" => row[i].status = "dead_letter"
      BY <1>0, <2>1, <2>3
    <2>4. CASE row'[i].attempt = 0 /\ row'[i].status = "queued"
      <3>1. a = 0 /\ st = "queued"
        BY <2>4
      <3> HIDE DEF a, st
      <3>2. a <= faults' + 1 /\ a <= faults'
        <4>1. faults' \in Nat
          BY <2>0
        <4>2. 0 <= faults' + 1 /\ 0 <= faults'
          BY <4>1, NothingBelow
        <4>3. a = 0
          BY <3>1
        <4> QED BY <4>2, <4>3, Zenon
      <3>3. st # "dead_letter"
        BY <3>1
      <3> QED BY <3>2, <3>3 DEF a, st
    <2>5. ASSUME NEW n \in Nat, n <= faults,
                 row'[i].attempt = n + 1,
                 row'[i].status = IF n + 1 >= MaxAttempts THEN "dead_letter" ELSE "failed"
          PROVE  /\ row'[i].attempt <= faults' + 1
                 /\ row'[i].status \notin Untried
                 /\ row'[i].status = "dead_letter" => row'[i].attempt >= MaxAttempts
      <3>1. a = n + 1 /\ st = IF n + 1 >= MaxAttempts THEN "dead_letter" ELSE "failed"
        BY <2>5
      <3> HIDE DEF a, st
      <3>2. a <= faults' + 1
        <4>1. n \in Nat /\ n <= faults
          BY <2>5
        <4>2. faults \in Nat /\ faults' \in Nat /\ faults' >= faults
          BY <1>0
        <4>3. n + 1 <= faults' + 1
          BY <4>1, <4>2, SuccessorBound
        <4>4. a = n + 1
          BY <3>1
        <4> QED BY <4>3, <4>4
      <3>3. st \in {"dead_letter", "failed"} /\ (st = "dead_letter" => n + 1 >= MaxAttempts)
        BY <3>1
      <3> QED BY <3>1, <3>2, <3>3 DEF a, st, Untried
    <2>6. \A n \in 0..faults : n \in Nat /\ n <= faults
      BY <2>0
    <2> QED BY <2>2, <2>3, <2>4, <2>5, <2>6 DEF Counted
  <1> QED BY <1>1, CopiesStep DEF AttemptInv

\* Retries are paid by faults: as long as no row outlasts the heartbeat and one
\* administrator retries, a switch that refuses or is down leaves rows failed,
\* and only lost statements and crashes bring one to its max_attempts.
THEOREM DeadLettersNeedFaults == ASSUME Timely PROVE Spec => []DeadLettersCostFaults
  <1>1. Init => AttemptInv
    BY QueueAssumption DEF Init, AttemptInv, Untried
  <1>2. QueueInv /\ QueueInv' /\ AttemptInv /\ [Next]_vars => AttemptInv'
    BY AttemptStep
  <1>3. QueueInv /\ AttemptInv => DeadLettersCostFaults
    <2> SUFFICES ASSUME QueueInv, AttemptInv, NEW i \in Items, row[i].status = "dead_letter"
                 PROVE  MaxAttempts <= faults + 1
      BY DEF DeadLettersCostFaults
    <2>1. /\ row[i].attempt \in Nat /\ faults \in Nat /\ MaxAttempts \in Nat
          /\ row[i].attempt <= faults + 1 /\ row[i].attempt >= MaxAttempts
      BY QueueAssumption DEF QueueInv, TypeOK, Row, AttemptInv
    <2> QED BY <2>1
  <1> QED BY <1>1, <1>2, <1>3, QueueInvariance, PTL DEF Spec

-----------------------------------------------------------------------------
(* The refinement of TransferLedger, in the terms of its mapping.           *)

Settled == {i \in Items : switch[i].state = "committed"}
Debits == [i \in Items |-> mirror[i].debit]
Credits == [i \in Items |-> mirror[i].credit]
Closed == {i \in Items : row[i].status = "committed" /\ ~Held(i)}

\* A cycle closes the rows it lets go of as committed, and opens none.
LEMMA ClosedByCycle ==
  ASSUME Timely, QueueInv, QueueInv', NEW c \in Cycles, CycleStep(c) \/ CycleFault(c),
         ~Start(c), ~Claim(c)
  PROVE  Closed' = Closed \cup {j \in todo[c] \ todo'[c] : row'[j].status = "committed"}
  <1> TypeOK /\ TypeOK'
    BY DEF QueueInv
  <1>1. \A d \in Cycles \ {c} : todo'[d] = todo[d]
    BY CycleFrame
  <1>2. todo'[c] \subseteq todo[c]
    <2>1. NextItem(c) \/ Crash(c) \/ UNCHANGED todo
      BY DEF CycleStep, CycleFault, EnsurePreimage, EnsurePreimageFails, Prepare,
         Fulfil, CallFails, Commit, WriteFails, PostDebit, PostCredit, PostFails, Fail, Requeue
    <2> QED BY <2>1 DEF NextItem, Crash, TypeOK
  <1>3. ASSUME NEW j \in Items, j \notin todo[c]
        PROVE  j \in Closed' <=> j \in Closed
    <2>1. row'[j] = row[j]
      BY <1>3, RowFrame
    <2>2. Held(j)' <=> Held(j)
      BY <1>1, <1>2, <1>3 DEF Held
    <2> QED BY <2>1, <2>2 DEF Closed
  <1>4. ASSUME NEW j \in todo[c]
        PROVE  /\ j \notin Closed /\ j \in Items
               /\ j \in Closed' <=> j \notin todo'[c] /\ row'[j].status = "committed"
    <2>1. j \in Items /\ Held(j)
      BY DEF Held, TypeOK
    <2>2. \A d \in Cycles \ {c} : j \notin todo'[d]
      BY <1>1 DEF QueueInv, ExclusiveClaim
    <2>3. Held(j)' <=> j \in todo'[c]
      BY <2>2 DEF Held
    <2> QED BY <2>1, <2>3 DEF Closed
  <1>5. Closed \subseteq Items /\ Closed' \subseteq Items
    BY DEF Closed
  <1> QED BY <1>3, <1>4, <1>5

LEMMA LedgerStep ==
  ASSUME Timely, ~AsyncSwitch, QueueInv, QueueInv', [Next]_vars
  PROVE  \/ UNCHANGED <<Settled, Debits, Credits, Closed>>
         \/ \E t \in Items :
              \/ /\ t \notin Settled /\ Settled' = Settled \cup {t}
                 /\ UNCHANGED <<Debits, Credits, Closed>>
              \/ /\ t \in Settled /\ t \notin Closed /\ Debits[t] = 0
                 /\ Debits' = [Debits EXCEPT ![t] = 1]
                 /\ UNCHANGED <<Settled, Credits, Closed>>
              \/ /\ t \in Settled /\ t \notin Closed /\ Debits[t] = 1 /\ Credits[t] = 0
                 /\ Credits' = [Credits EXCEPT ![t] = 1]
                 /\ Closed' = Closed \cup {t}
                 /\ UNCHANGED <<Settled, Debits>>
              \/ /\ t \in Settled /\ t \notin Closed
                 /\ Closed' = Closed \cup {t}
                 /\ UNCHANGED <<Settled, Debits, Credits>>
  <1> TypeOK /\ TypeOK'
    BY DEF QueueInv
  <1> DEFINE Stutter == UNCHANGED <<Settled, Debits, Credits, Closed>>
  <1> DEFINE Settle(t) == /\ t \notin Settled /\ Settled' = Settled \cup {t}
                          /\ UNCHANGED <<Debits, Credits, Closed>>
  <1> DEFINE Close(t) == /\ t \in Settled /\ t \notin Closed
                         /\ Closed' = Closed \cup {t}
                         /\ UNCHANGED <<Settled, Debits, Credits>>
  <1>1. /\ UNCHANGED mirror => UNCHANGED <<Debits, Credits>>
        /\ UNCHANGED switch => UNCHANGED Settled
    BY DEF Debits, Credits, Settled
  <1>2. ASSUME NEW t \in Items, UNCHANGED mirror, UNCHANGED Closed,
               \/ switch' = switch
               \/ switch' = [switch EXCEPT ![t].state = "committed"]
        PROVE  Stutter \/ Settle(t)
    <2>1. CASE switch' = switch
      BY <1>1, <1>2, <2>1
    <2>2. CASE switch' = [switch EXCEPT ![t].state = "committed"]
      <3>1. Settled' = Settled \cup {t}
        BY <2>2 DEF Settled, TypeOK, Transfer
      <3> QED BY <1>1, <1>2, <3>1
    <2> QED BY <1>2, <2>1, <2>2
  <1>3. ASSUME NEW c \in Cycles, Start(c) \/ Claim(c)  PROVE Stutter
    <2>1. UNCHANGED <<switch, mirror>>
      BY <1>3 DEF Start, Claim, switchVars
    <2>2. ASSUME NEW i \in Items
          PROVE  /\ row[i].status = "committed" => row'[i] = row[i]
                 /\ row'[i].status = "committed" => row[i].status = "committed"
      <3>1. row[i].status = "committed" => row'[i] = row[i]
        BY <1>3, ClaimFrame
      <3>2. /\ row[i] \in Row
            /\ \/ row'[i] = row[i]
               \/ row'[i] = [row[i] EXCEPT !.status = "queued", !.due = "now", !.aged = FALSE]
               \/ row'[i] = [row[i] EXCEPT !.status = "processing", !.aged = FALSE]
        <4>1. CASE Start(c)
          BY <4>1 DEF Start, TypeOK
        <4>2. CASE Claim(c)
          <5>1. \E S \in SUBSET Claimable :
                  row' = [k \in Items |-> IF k \in S
                            THEN [row[k] EXCEPT !.status = "processing", !.aged = FALSE]
                            ELSE row[k]]
            BY <4>2 DEF Claim
          <5> QED BY <5>1 DEF TypeOK
        <4> QED BY <1>3, <4>1, <4>2
      <3> QED BY <3>1, <3>2 DEF Row
    <2>3. ASSUME NEW i \in Items, row[i].status = "committed"  PROVE Held(i)' <=> Held(i)
      <3>1. CASE Start(c)
        BY <3>1 DEF Start, Held
      <3>2. CASE Claim(c)
        <4>1. i \notin Claimable /\ todo[c] = {}
          BY <2>3, <3>2 DEF Claimable, Claim, QueueInv, HandsInv
        <4>2. \E S \in SUBSET Claimable : todo' = [todo EXCEPT ![c] = S]
          BY <3>2 DEF Claim
        <4> QED BY <4>1, <4>2 DEF Held, TypeOK
      <3> QED BY <1>3, <3>1, <3>2
    <2>4. UNCHANGED Closed
      BY <2>2, <2>3 DEF Closed
    <2> QED BY <1>1, <2>1, <2>4
  <1>4. ASSUME NEW c \in Cycles, CycleStep(c) \/ CycleFault(c), ~Start(c), ~Claim(c), UNCHANGED todo
        PROVE  UNCHANGED Closed
    <2>1. Closed' = Closed \cup {j \in todo[c] \ todo'[c] : row'[j].status = "committed"}
      BY <1>4, ClosedByCycle
    <2> QED BY <1>4, <2>1
  <1>5. ASSUME NEW c \in Cycles, CycleStep(c) \/ CycleFault(c), ~Start(c), ~Claim(c),
               UNCHANGED <<todo, switch, mirror>>
        PROVE  Stutter
    BY <1>1, <1>4, <1>5
  <1>6. ASSUME NEW c \in Cycles, Prepare(c)  PROVE Stutter
    <2>1. /\ UNCHANGED <<todo, mirror>> /\ ~Start(c) /\ ~Claim(c) /\ CycleStep(c)
          /\ \/ switch' = switch
             \/ /\ switch[item[c]].state = "none"
                /\ switch' = [switch EXCEPT ![item[c]] =
                                [state |-> "reserved", condition |-> snap[c][item[c]].preimage]]
      BY <1>6 DEF Prepare, Start, Claim, CycleStep
    <2>2. Settled' = Settled
      <3>1. item[c] \in Items
        BY <1>6 DEF Prepare, QueueInv, HandsInv, Working, TypeOK
      <3>2. ASSUME NEW i \in Items
            PROVE  switch'[i].state = "committed" <=> switch[i].state = "committed"
        <4>1. CASE i # item[c]
          BY <2>1, <3>1, <4>1 DEF TypeOK
        <4>2. CASE i = item[c] /\ switch' # switch
          <5>1. switch[i].state = "none" /\ switch'[i].state = "reserved"
            BY <2>1, <3>1, <4>2 DEF TypeOK
          <5> QED BY <5>1
        <4> QED BY <4>1, <4>2
      <3> QED BY <3>2 DEF Settled
    <2> QED BY <1>1, <1>4, <2>1, <2>2
  <1>7. ASSUME NEW c \in Cycles, Fulfil(c)  PROVE \E t \in Items : Stutter \/ Settle(t)
    <2>1. /\ UNCHANGED <<todo, mirror>> /\ ~Start(c) /\ ~Claim(c) /\ CycleStep(c)
          /\ \/ switch' = switch
             \/ switch' = [switch EXCEPT ![item[c]].state = "committed"]
      BY <1>7 DEF Fulfil, Start, Claim, CycleStep
    <2>2. item[c] \in Items
      BY <1>7 DEF Fulfil, QueueInv, HandsInv, Working, TypeOK
    <2> QED BY <1>2, <1>4, <2>1, <2>2
  <1>8. ASSUME NEW c \in Cycles,
               \/ \E i \in Items : EnsurePreimage(c, i) \/ EnsurePreimageFails(c, i)
               \/ CallFails(c) \/ Commit(c) \/ WriteFails(c)
        PROVE  Stutter
    <2>1. UNCHANGED <<todo, switch, mirror>> /\ (CycleStep(c) \/ CycleFault(c))
      BY <1>8 DEF EnsurePreimage, EnsurePreimageFails, CallFails, Commit, WriteFails, CycleStep,
         CycleFault, switchVars
    <2>2. ~Start(c) /\ ~Claim(c)
      BY <1>8 DEF EnsurePreimage, EnsurePreimageFails, CallFails, Commit, WriteFails, Start, Claim
    <2> QED BY <1>5, <2>1, <2>2
  <1>9. ASSUME NEW c \in Cycles, PostDebit(c)
        PROVE  \E t \in Items :
                 /\ t \in Settled /\ t \notin Closed /\ Debits[t] = 0
                 /\ Debits' = [Debits EXCEPT ![t] = 1]
                 /\ UNCHANGED <<Settled, Credits, Closed>>
    <2>1. /\ UNCHANGED <<todo, switch>> /\ ~Start(c) /\ ~Claim(c) /\ CycleStep(c) /\ pc[c] = "debit"
          /\ mirror' = [mirror EXCEPT ![item[c]].debit = @ + 1]
      BY <1>9 DEF PostDebit, Start, Claim, CycleStep, switchVars
    <2>2. /\ item[c] \in Items /\ item[c] \in todo[c]
          /\ row[item[c]].status = "committed" /\ mirror[item[c]].debit = 0
      BY <2>1 DEF QueueInv, HandsInv, StatusInv, PostingInv, Working, TypeOK
    <2>3. item[c] \in Settled /\ item[c] \notin Closed
      BY <2>2 DEF QueueInv, SettledInv, Settled, Closed, Held
    <2>4. Debits[item[c]] = 0 /\ Debits' = [Debits EXCEPT ![item[c]] = 1]
      <3>1. mirror'[item[c]].debit = 1
        BY <2>1, <2>2 DEF TypeOK, Posting
      <3>2. \A i \in Items \ {item[c]} : mirror'[i] = mirror[i]
        BY <2>1 DEF TypeOK
      <3> QED BY <2>2, <3>1, <3>2 DEF Debits
    <2>5. UNCHANGED Credits
      BY <2>1, <2>2 DEF Credits, TypeOK, Posting
    <2> QED BY <1>1, <1>4, <2>1, <2>2, <2>3, <2>4, <2>5
  <1>10. ASSUME NEW c \in Cycles, Fail(c) \/ PostCredit(c) \/ PostFails(c) \/ Requeue(c)
         PROVE  /\ Closed' = Closed \cup {j \in {item[c]} : row'[j].status = "committed"}
                /\ item[c] \in Items /\ item[c] \in todo[c] /\ item[c] \notin Closed
                /\ UNCHANGED <<switch, Settled>>
    <2>1. ~Start(c) /\ ~Claim(c) /\ (CycleStep(c) \/ CycleFault(c)) /\ UNCHANGED switch
      BY <1>10 DEF Fail, PostCredit, PostFails, Requeue, Start, Claim, CycleStep, CycleFault,
         switchVars
    <2>2. item[c] \in todo[c] /\ item[c] \in Items
      BY <1>10 DEF Fail, PostCredit, PostFails, Requeue, QueueInv, HandsInv, Working, TypeOK
    <2>3. todo'[c] = todo[c] \ {item[c]}
      BY <1>10 DEF Fail, PostCredit, PostFails, Requeue, NextItem, TypeOK
    <2>4. Closed' = Closed \cup {j \in todo[c] \ todo'[c] : row'[j].status = "committed"}
      BY <2>1, ClosedByCycle
    <2>5. todo[c] \ todo'[c] = {item[c]}
      BY <2>2, <2>3
    <2>6. item[c] \notin Closed
      BY <2>2 DEF Closed, Held
    <2> QED BY <1>1, <2>1, <2>2, <2>4, <2>5, <2>6
  <1>11. ASSUME NEW c \in Cycles, Fail(c) \/ Requeue(c)  PROVE Stutter
    <2>1. row'[item[c]].status # "committed"
      <3>1. item[c] \in Items
        BY <1>10, <1>11
      <3>2. CASE Fail(c)
        BY <3>1, <3>2, UpdateFields DEF Fail
      <3>3. CASE Requeue(c)
        <4>1. /\ row'[item[c]] = [row[item[c]] EXCEPT !.status = "queued", !.due = "later", !.aged = FALSE]
              /\ row[item[c]] \in Row
          BY <3>1, <3>3 DEF Requeue, TypeOK
        <4> QED BY <4>1 DEF Row
      <3> QED BY <1>11, <3>2, <3>3
    <2>2. UNCHANGED mirror
      BY <1>11 DEF Fail, Requeue
    <2> QED BY <1>1, <1>10, <1>11, <2>1, <2>2
  <1>12. ASSUME NEW c \in Cycles, PostCredit(c) \/ PostFails(c)
         PROVE  /\ item[c] \in Items /\ item[c] \in Settled /\ item[c] \notin Closed
                /\ Closed' = Closed \cup {item[c]} /\ UNCHANGED Settled
    <2>1. UNCHANGED row /\ pc[c] \in {"debit", "credit"}
      BY <1>12 DEF PostCredit, PostFails
    <2>2. row[item[c]].status = "committed"
      BY <1>10, <1>12, <2>1 DEF QueueInv, StatusInv
    <2> QED BY <1>10, <1>12, <2>1, <2>2 DEF QueueInv, SettledInv, Settled
  <1>13. ASSUME NEW c \in Cycles, PostFails(c)  PROVE \E t \in Items : Close(t)
    BY <1>1, <1>12, <1>13 DEF PostFails
  <1>14. ASSUME NEW c \in Cycles, PostCredit(c)
         PROVE  \E t \in Items :
                  /\ t \in Settled /\ t \notin Closed /\ Debits[t] = 1 /\ Credits[t] = 0
                  /\ Credits' = [Credits EXCEPT ![t] = 1]
                  /\ Closed' = Closed \cup {t}
                  /\ UNCHANGED <<Settled, Debits>>
    <2>1. pc[c] = "credit" /\ mirror' = [mirror EXCEPT ![item[c]].credit = @ + 1]
      BY <1>14 DEF PostCredit
    <2>2. item[c] \in Items /\ mirror[item[c]].debit = 1 /\ mirror[item[c]].credit = 0
      BY <1>12, <1>14, <2>1 DEF QueueInv, PostingInv
    <2>3. /\ Debits[item[c]] = 1 /\ Credits[item[c]] = 0
          /\ Credits' = [Credits EXCEPT ![item[c]] = 1]
      <3>1. mirror'[item[c]].credit = 1
        BY <2>1, <2>2 DEF TypeOK, Posting
      <3>2. \A i \in Items \ {item[c]} : mirror'[i] = mirror[i]
        BY <2>1 DEF TypeOK
      <3> QED BY <2>2, <3>1, <3>2 DEF Debits, Credits
    <2>4. UNCHANGED Debits
      BY <2>1, <2>2 DEF Debits, TypeOK, Posting
    <2> QED BY <1>12, <1>14, <2>2, <2>3, <2>4
  <1>15. ASSUME NEW c \in Cycles, Crash(c)  PROVE Stutter \/ \E t \in Items : Close(t)
    <2>1. /\ ~Start(c) /\ ~Claim(c) /\ CycleFault(c) /\ UNCHANGED <<row, switch, mirror>>
          /\ todo'[c] = {}
      <3>1. CycleFault(c) /\ UNCHANGED <<row, switch, mirror>> /\ todo'[c] = {}
        BY <1>15 DEF Crash, CycleFault, switchVars, TypeOK
      <3>2. faults' # faults /\ pc[c] # "idle"
        BY <1>15 DEF Crash, Fault, TypeOK
      <3> QED BY <3>1, <3>2 DEF Start, Claim
    <2>2. Closed' = Closed \cup {j \in todo[c] : row[j].status = "committed"}
      <3>1. Closed' = Closed \cup {j \in todo[c] \ todo'[c] : row'[j].status = "committed"}
        BY <2>1, ClosedByCycle
      <3> QED BY <2>1, <3>1
    <2>3. \A j \in todo[c] : row[j].status = "committed" => j = item[c]
      BY DEF QueueInv, StatusInv
    <2>4. CASE item[c] \in todo[c] /\ row[item[c]].status = "committed"
      <3>1. Closed' = Closed \cup {item[c]}
        BY <2>2, <2>3, <2>4
      <3>2. item[c] \in Items /\ item[c] \in Settled /\ item[c] \notin Closed
        BY <2>4 DEF QueueInv, SettledInv, Settled, Closed, Held, TypeOK
      <3> QED BY <1>1, <2>1, <3>1, <3>2
    <2>5. CASE ~(item[c] \in todo[c] /\ row[item[c]].status = "committed")
      <3>1. Closed' = Closed
        BY <2>2, <2>3, <2>5
      <3> QED BY <1>1, <2>1, <3>1
    <2> QED BY <2>4, <2>5
  <1>16. CASE ~\E c \in Cycles : CycleStep(c) \/ CycleFault(c)
    <2>1. /\ UNCHANGED <<mirror, todo>>
          /\ \A i \in Items : row'[i].status = "committed" <=> row[i].status = "committed"
      BY <1>16, OtherFrame DEF cycleVars
    <2>2. UNCHANGED Closed
      BY <2>1 DEF Closed, Held
    <2>3. ASSUME NEW i \in Items, SwitchExpires(i)  PROVE Stutter
      <3>1. Settled' = Settled
        BY <2>3 DEF SwitchExpires, Settled, TypeOK, Transfer
      <3> QED BY <1>1, <2>1, <2>2, <3>1
    <2>4. ASSUME NEW f \in fulfilling, SwitchDecides(f[1], f[2])
          PROVE  \E t \in Items : Stutter \/ Settle(t)
      <3>1. f[1] \in Items
        BY DEF TypeOK
      <3>2. \/ switch' = switch
            \/ switch' = [switch EXCEPT ![f[1]].state = "committed"]
        BY <2>4 DEF SwitchDecides
      <3> QED BY <1>2, <2>1, <2>2, <3>1, <3>2
    <2>5. \/ UNCHANGED switch
          \/ \E i \in Items : SwitchExpires(i)
          \/ \E f \in fulfilling : SwitchDecides(f[1], f[2])
      BY <1>16 DEF Next, Enqueue, EnqueueInitiated, SelectDeadLetters, RetrySelected, BackoffElapses,
         Age, vars, switchVars
    <2> QED BY <1>1, <2>1, <2>2, <2>3, <2>4, <2>5
  <1>17. ASSUME NEW c \in Cycles, CycleStep(c) \/ CycleFault(c)
         PROVE  \/ Start(c) \/ Claim(c) \/ Prepare(c) \/ Fulfil(c) \/ PostDebit(c)
                \/ PostFails(c) \/ PostCredit(c) \/ Crash(c) \/ Fail(c) \/ Requeue(c)
                \/ \E i \in Items : EnsurePreimage(c, i) \/ EnsurePreimageFails(c, i)
                \/ CallFails(c) \/ Commit(c) \/ WriteFails(c)
    BY <1>17 DEF CycleStep, CycleFault
  <1> QED
    BY <1>3, <1>6, <1>7, <1>8, <1>9, <1>11, <1>13, <1>14, <1>15, <1>16, <1>17

\* The queue implements TransferLedger: what its readers see of a transfer is
\* settled once, posted once per side, and closed for good.
THEOREM QueueImplementsLedger ==
  ASSUME Timely, ~AsyncSwitch PROVE Spec => ImplementsLedger
  <1>1. Init => Ledger!Init
    BY DEF Init, Ledger!Init
  <1>2. QueueInv /\ QueueInv' /\ [Next]_vars => [Ledger!Next]_(Ledger!ledger)
    <2> SUFFICES ASSUME QueueInv, QueueInv', [Next]_vars
                 PROVE  Ledger!Next \/ UNCHANGED Ledger!ledger
      OBVIOUS
    <2> QED
      BY LedgerStep
      DEF Ledger!Next, Ledger!Settle, Ledger!Debit, Ledger!Credit, Ledger!CloseShort, Ledger!Open,
          Ledger!ledger, Settled, Debits, Credits, Closed
  <1> QED BY <1>1, <1>2, QueueInvariance, PTL DEF Spec, ImplementsLedger, Ledger!Spec
=============================================================================
