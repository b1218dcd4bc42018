---------------------------- MODULE PaymentQueue ----------------------------
(***************************************************************************)
(* The payment_queue table and the background worker that drains it        *)
(* (server/paymentWorker.ts), with the two procedures that insert rows and *)
(* the administrator's bulk retry (server/routers/batchPayments.ts,        *)
(* server/routers/payments.ts).                                            *)
(*                                                                         *)
(* A "cycle" is one call of runPaymentWorkerCycle.  setInterval starts one *)
(* every five seconds and never waits for the one before, in every replica *)
(* of the server, so that several are under way at once.  A cycle is a     *)
(* program counter, the rows it claimed and has not finished (todo), the   *)
(* one it works on (item), and the copy of each claimed row it took when   *)
(* it claimed it (snap): every later decision uses the copy.               *)
(*                                                                         *)
(* Every await of the code ends a step.  Amounts are abstracted: a posting *)
(* to the balance mirror is counted, per row and per side.                 *)
(***************************************************************************)
EXTENDS Naturals, FiniteSets

CONSTANTS
  Items,        \* transfer ids: payment_queue.transfer_id is UNIQUE
  Cycles,       \* worker cycles that may be under way at the same time
  Admins,       \* administrators who press "Retry Dead Letters"
  MaxAttempts,  \* payment_queue.max_attempts (5 unless a row says otherwise)
  BatchSize,    \* WORKER_BATCH_SIZE
  SlowCycles,   \* may a row outlast HEARTBEAT_TIMEOUT_MS in a live cycle?
  AsyncSwitch,  \* may the switch answer a fulfil 202 and decide later?
  MaxFaults,    \* bound on crashes and failed database statements
  None          \* no row in hand

ASSUME QueueAssumption ==
  /\ MaxAttempts \in Nat \ {0}
  /\ BatchSize \in Nat \ {0}
  /\ SlowCycles \in BOOLEAN
  /\ AsyncSwitch \in BOOLEAN
  /\ MaxFaults \in Nat
  /\ None \notin Items

VARIABLES
  row,         \* [Items -> Row], the payment_queue table
  pc,          \* [Cycles -> Stage]
  todo,        \* [Cycles -> SUBSET Items]
  item,        \* [Cycles -> Items \cup {None}]
  snap,        \* [Cycles -> [Items -> Copy]]
  selected,    \* [Admins -> SUBSET Items], ids between SELECT and UPDATE
  switch,      \* [Items -> Transfer], the Mojaloop switch's record
  fulfilling,  \* fulfilments the switch acknowledged and has not decided
  prepared,    \* [Items -> SUBSET Nat], history: preimages whose condition
               \* reached the switch in a prepare
  drawn,       \* [Items -> Nat], number of preimages drawn per row
  mirror,      \* [Items -> Posting], postings in payment_accounts
  faults       \* faults so far

cycleVars  == <<pc, todo, item, snap>>
switchVars == <<switch, fulfilling, prepared>>
vars == <<row, cycleVars, selected, switchVars, drawn, mirror, faults>>

Status == {"absent", "queued", "processing", "committed", "failed", "dead_letter"}

\* due abstracts next_retry_at: null, in the future, or not later than now.
\* aged abstracts updated_at (dead_lettered_at): the write is older than the
\* heartbeat timeout (than the hour an administrator has to wait).
\* preimage is metadata.ilpPreimage, 0 when the row has none.
Row == [status : Status, attempt : Nat, due : {"null", "later", "now"},
        aged : BOOLEAN, preimage : Nat]

Copy == [attempt : Nat, preimage : Nat]
NoCopy == [attempt |-> 0, preimage |-> 0]

Working == {"prepare", "fulfil", "commit", "debit", "credit", "fail", "requeue"}
Stage == {"idle", "claim", "next"} \cup Working

Transfer == [state : {"none", "reserved", "committed", "aborted"}, condition : Nat]
Posting  == [debit : Nat, credit : Nat]

TypeOK ==
  /\ row \in [Items -> Row]
  /\ pc \in [Cycles -> Stage]
  /\ todo \in [Cycles -> SUBSET Items]
  /\ item \in [Cycles -> Items \cup {None}]
  /\ snap \in [Cycles -> [Items -> Copy]]
  /\ selected \in [Admins -> SUBSET Items]
  /\ switch \in [Items -> Transfer]
  /\ fulfilling \in SUBSET (Items \X Nat)
  /\ prepared \in [Items -> SUBSET Nat]
  /\ drawn \in [Items -> Nat]
  /\ mirror \in [Items -> Posting]
  /\ faults \in Nat

Init ==
  /\ row = [i \in Items |-> [status |-> "absent", attempt |-> 0, due |-> "null",
                             aged |-> FALSE, preimage |-> 0]]
  /\ pc = [c \in Cycles |-> "idle"]
  /\ todo = [c \in Cycles |-> {}]
  /\ item = [c \in Cycles |-> None]
  /\ snap = [c \in Cycles |-> [i \in Items |-> NoCopy]]
  /\ selected = [a \in Admins |-> {}]
  /\ switch = [i \in Items |-> [state |-> "none", condition |-> 0]]
  /\ fulfilling = {}
  /\ prepared = [i \in Items |-> {}]
  /\ drawn = [i \in Items |-> 0]
  /\ mirror = [i \in Items |-> [debit |-> 0, credit |-> 0]]
  /\ faults = 0

Held(i) == \E c \in Cycles : i \in todo[c]

Fault == faults < MaxFaults /\ faults' = faults + 1

-----------------------------------------------------------------------------
(* Rows come in.                                                           *)

\* batchPayments.enqueue: the row may be claimed at once.  A transfer id
\* already in the table is answered from the idempotency key or refused by
\* the UNIQUE constraint; neither writes anything.
Enqueue(i) ==
  /\ row[i].status = "absent"
  /\ row' = [row EXCEPT ![i] = [@ EXCEPT !.status = "queued", !.due = "now"]]
  /\ UNCHANGED <<cycleVars, selected, switchVars, drawn, mirror, faults>>

\* payments.initiate: the insert names no next_retry_at, so it stays null.
EnqueueInitiated(i) ==
  /\ row[i].status = "absent"
  /\ row' = [row EXCEPT ![i].status = "queued"]
  /\ UNCHANGED <<cycleVars, selected, switchVars, drawn, mirror, faults>>

-----------------------------------------------------------------------------
(* One worker cycle.                                                       *)

\* recoverStuckItems: every row in processing whose last write is older than
\* the heartbeat timeout goes back to the queue, whoever holds it.
Start(c) ==
  /\ pc[c] = "idle"
  /\ row' = [i \in Items |->
               IF row[i].status = "processing" /\ row[i].aged
               THEN [row[i] EXCEPT !.status = "queued", !.due = "now", !.aged = FALSE]
               ELSE row[i]]
  /\ pc' = [pc EXCEPT ![c] = "claim"]
  /\ UNCHANGED <<todo, item, snap, selected, switchVars, drawn, mirror, faults>>

\* Mutants: the claim takes rows in processing too; it looks at the date only.
ClaimableStuck ==
  {i \in Items : row[i].status \in {"queued", "processing"} /\ row[i].due = "now"}
ClaimableByDate == {i \in Items : row[i].due = "now"}

\* null <= now is not true in SQL: a row without next_retry_at is never due.
Claimable == {i \in Items : row[i].status = "queued" /\ row[i].due = "now"}

\* The claiming UPDATE ... WHERE status = 'queued' ... RETURNING, one statement.
Claim(c) ==
  /\ pc[c] = "claim"
  /\ \E S \in SUBSET Claimable :
       /\ \/ S = Claimable /\ Cardinality(S) <= BatchSize
          \/ Cardinality(Claimable) > BatchSize /\ Cardinality(S) = BatchSize
       /\ row' = [i \in Items |-> IF i \in S
                                  THEN [row[i] EXCEPT !.status = "processing", !.aged = FALSE]
                                  ELSE row[i]]
       /\ todo' = [todo EXCEPT ![c] = S]
       /\ snap' = [snap EXCEPT ![c] =
                     [i \in Items |-> IF i \in S
                                      THEN [attempt |-> row[i].attempt, preimage |-> row[i].preimage]
                                      ELSE NoCopy]]
       /\ pc' = [pc EXCEPT ![c] = IF S = {} THEN "idle" ELSE "next"]
  /\ UNCHANGED <<item, selected, switchVars, drawn, mirror, faults>>

Stored(i) == [row EXCEPT ![i] = [@ EXCEPT !.preimage = drawn[i] + 1, !.aged = FALSE]]

\* Mutant: every attempt draws a new preimage.
EnsurePreimageAnew(c, i) ==
  /\ pc[c] = "next"
  /\ i \in todo[c]
  /\ drawn' = [drawn EXCEPT ![i] = @ + 1]
  /\ snap' = [snap EXCEPT ![c][i].preimage = drawn[i] + 1]
  /\ row' = Stored(i)
  /\ item' = [item EXCEPT ![c] = i]
  /\ pc' = [pc EXCEPT ![c] = "prepare"]
  /\ UNCHANGED <<todo, selected, switchVars, mirror, faults>>

\* ensureIlpPreimage: the copy decides whether the row has a preimage; a new
\* one is drawn and written into the row, over whatever the row has by now.
EnsurePreimage(c, i) ==
  /\ pc[c] = "next"
  /\ i \in todo[c]
  /\ \/ /\ snap[c][i].preimage # 0
        /\ UNCHANGED <<row, snap, drawn>>
     \/ /\ snap[c][i].preimage = 0
        /\ drawn' = [drawn EXCEPT ![i] = @ + 1]
        /\ snap' = [snap EXCEPT ![c][i].preimage = drawn[i] + 1]
        /\ row' = Stored(i)
  /\ item' = [item EXCEPT ![c] = i]
  /\ pc' = [pc EXCEPT ![c] = "prepare"]
  /\ UNCHANGED <<todo, selected, switchVars, mirror, faults>>

\* The statement that stores the new preimage raises; as for every statement
\* that raises, the database may have applied it before the connection broke.
EnsurePreimageFails(c, i) ==
  /\ pc[c] = "next"
  /\ i \in todo[c]
  /\ snap[c][i].preimage = 0
  /\ Fault
  /\ \/ UNCHANGED <<row, drawn>>
     \/ /\ drawn' = [drawn EXCEPT ![i] = @ + 1]
        /\ row' = Stored(i)
  /\ item' = [item EXCEPT ![c] = i]
  /\ pc' = [pc EXCEPT ![c] = "requeue"]
  /\ UNCHANGED <<todo, snap, selected, switchVars, mirror>>

\* The switch takes a first prepare, answers a repeated one under the same
\* condition as before, and refuses one under another condition.  An answer
\* that is lost or late is an error to the worker.
Prepare(c) ==
  LET i == item[c]
      p == snap[c][i].preimage
  IN  /\ pc[c] = "prepare"
      /\ prepared' = [prepared EXCEPT ![i] = @ \cup {p}]
      /\ switch' = IF switch[i].state = "none"
                   THEN [switch EXCEPT ![i] = [state |-> "reserved", condition |-> p]]
                   ELSE switch
      /\ \E answer \in {"fulfil", "fail"} :
           /\ answer = "fulfil" => switch'[i].condition = p
           /\ pc' = [pc EXCEPT ![c] = answer]
      /\ UNCHANGED <<row, todo, item, snap, selected, fulfilling, drawn, mirror, faults>>

\* The fulfil call.  A switch that settles at once answers when the transfer
\* is committed; one that answers 202 acknowledges first and decides later.
\* The worker takes both answers for success.
Fulfil(c) ==
  LET i == item[c]
      p == snap[c][i].preimage
  IN  /\ pc[c] = "fulfil"
      /\ \/ /\ ~AsyncSwitch
            /\ switch' = IF switch[i] = [state |-> "reserved", condition |-> p]
                         THEN [switch EXCEPT ![i].state = "committed"]
                         ELSE switch
            /\ UNCHANGED fulfilling
            /\ \E answer \in {"commit", "fail"} :
                 /\ answer = "commit" => switch'[i] = [state |-> "committed", condition |-> p]
                 /\ pc' = [pc EXCEPT ![c] = answer]
         \/ /\ AsyncSwitch
            /\ fulfilling' = fulfilling \cup {<<i, p>>}
            /\ UNCHANGED switch
            /\ \E answer \in {"commit", "fail"} : pc' = [pc EXCEPT ![c] = answer]
      /\ UNCHANGED <<row, todo, item, snap, selected, prepared, drawn, mirror, faults>>

\* Mutant: an outage of the switch is taken for a success.
CallFailsSimulated(c) ==
  /\ pc[c] \in {"prepare", "fulfil"}
  /\ pc' = [pc EXCEPT ![c] = "commit"]
  /\ UNCHANGED <<row, todo, item, snap, selected, switchVars, drawn, mirror, faults>>

\* The switch is down or unreachable, or refuses the call.
CallFails(c) ==
  /\ pc[c] \in {"prepare", "fulfil"}
  /\ pc' = [pc EXCEPT ![c] = "fail"]
  /\ UNCHANGED <<row, todo, item, snap, selected, switchVars, drawn, mirror, faults>>

\* The loop goes to the next claimed row, or the cycle returns.
NextItem(c) ==
  /\ todo' = [todo EXCEPT ![c] = @ \ {item[c]}]
  /\ snap' = [snap EXCEPT ![c][item[c]] = NoCopy]
  /\ item' = [item EXCEPT ![c] = None]
  /\ pc' = [pc EXCEPT ![c] = IF todo[c] = {item[c]} THEN "idle" ELSE "next"]

\* Success: the row is committed whatever its status is by now.
Committed(i) == [row EXCEPT ![i] = [@ EXCEPT !.status = "committed", !.aged = FALSE]]

Commit(c) ==
  /\ pc[c] = "commit"
  /\ row' = Committed(item[c])
  /\ pc' = [pc EXCEPT ![c] = "debit"]
  /\ UNCHANGED <<todo, item, snap, selected, switchVars, drawn, mirror, faults>>

\* Failure: the attempt is counted from the copy, the row overwritten.
AfterFailure(r, n) ==
  [r EXCEPT !.status = IF n >= MaxAttempts THEN "dead_letter" ELSE "failed",
            !.attempt = n,
            !.due = IF n >= MaxAttempts THEN "null" ELSE "later",
            !.aged = FALSE]

Failed(c) ==
  [row EXCEPT ![item[c]] = AfterFailure(row[item[c]], snap[c][item[c]].attempt + 1)]

Fail(c) ==
  /\ pc[c] = "fail"
  /\ row' = Failed(c)
  /\ NextItem(c)
  /\ UNCHANGED <<selected, switchVars, drawn, mirror, faults>>

\* The statement of Commit or of Fail raises.
WriteFails(c) ==
  /\ pc[c] \in {"commit", "fail"}
  /\ Fault
  /\ \/ UNCHANGED row
     \/ pc[c] = "commit" /\ row' = Committed(item[c])
     \/ pc[c] = "fail" /\ row' = Failed(c)
  /\ pc' = [pc EXCEPT ![c] = "requeue"]
  /\ UNCHANGED <<todo, item, snap, selected, switchVars, drawn, mirror>>

\* updateBalanceMirror, debit side and credit side: two statements.
PostDebit(c) ==
  /\ pc[c] = "debit"
  /\ mirror' = [mirror EXCEPT ![item[c]].debit = @ + 1]
  /\ pc' = [pc EXCEPT ![c] = "credit"]
  /\ UNCHANGED <<row, todo, item, snap, selected, switchVars, drawn, faults>>

PostCredit(c) ==
  /\ pc[c] = "credit"
  /\ mirror' = [mirror EXCEPT ![item[c]].credit = @ + 1]
  /\ NextItem(c)
  /\ UNCHANGED <<row, selected, switchVars, drawn, faults>>

\* Mutant: a failed mirror statement goes to the catch clause of the loop.
PostFailsRequeues(c) ==
  /\ pc[c] \in {"debit", "credit"}
  /\ Fault
  /\ pc' = [pc EXCEPT ![c] = "requeue"]
  /\ UNCHANGED <<row, todo, item, snap, selected, switchVars, drawn, mirror>>

\* A mirror statement fails: logged, "non-fatal", the row stays committed.
PostFails(c) ==
  /\ pc[c] \in {"debit", "credit"}
  /\ Fault
  /\ NextItem(c)
  /\ UNCHANGED <<row, selected, switchVars, drawn, mirror>>

\* Mutants: a status the column does not have; no next_retry_at.
RequeuePending(c) ==
  /\ pc[c] = "requeue"
  /\ row' = [row EXCEPT ![item[c]] =
               [@ EXCEPT !.status = "pending", !.due = "later", !.aged = FALSE]]
  /\ NextItem(c)
  /\ UNCHANGED <<selected, switchVars, drawn, mirror, faults>>
RequeueUndated(c) ==
  /\ pc[c] = "requeue"
  /\ row' = [row EXCEPT ![item[c]] =
               [@ EXCEPT !.status = "queued", !.due = "null", !.aged = FALSE]]
  /\ NextItem(c)
  /\ UNCHANGED <<selected, switchVars, drawn, mirror, faults>>

\* The catch clause of the loop: back to the queue, unconditionally.
Requeue(c) ==
  /\ pc[c] = "requeue"
  /\ row' = [row EXCEPT ![item[c]] =
               [@ EXCEPT !.status = "queued", !.due = "later", !.aged = FALSE]]
  /\ NextItem(c)
  /\ UNCHANGED <<selected, switchVars, drawn, mirror, faults>>

\* The server process dies; so does a cycle whose catch clause fails, which
\* leaves the rest of its batch in processing.
Crash(c) ==
  /\ pc[c] # "idle"
  /\ Fault
  /\ pc' = [pc EXCEPT ![c] = "idle"]
  /\ todo' = [todo EXCEPT ![c] = {}]
  /\ item' = [item EXCEPT ![c] = None]
  /\ snap' = [snap EXCEPT ![c] = [i \in Items |-> NoCopy]]
  /\ UNCHANGED <<row, selected, switchVars, drawn, mirror>>

-----------------------------------------------------------------------------
(* retryDeadLetters: SELECT the ids, then UPDATE by id.                    *)

SelectDeadLetters(a) ==
  /\ selected[a] = {}
  /\ \E S \in SUBSET {i \in Items : row[i].status = "dead_letter" /\ row[i].aged} :
       /\ S # {}
       /\ selected' = [selected EXCEPT ![a] = S]
  /\ UNCHANGED <<row, cycleVars, switchVars, drawn, mirror, faults>>

RetrySelected(a) ==
  /\ selected[a] # {}
  /\ row' = [i \in Items |->
               IF i \in selected[a]
               THEN [row[i] EXCEPT !.status = "queued", !.attempt = 0,
                                   !.due = "now", !.aged = FALSE]
               ELSE row[i]]
  /\ selected' = [selected EXCEPT ![a] = {}]
  /\ UNCHANGED <<cycleVars, switchVars, drawn, mirror, faults>>

-----------------------------------------------------------------------------
(* Time, and the switch on its own.                                        *)

BackoffElapses(i) ==
  /\ row[i].status = "queued"
  /\ row[i].due = "later"
  /\ row' = [row EXCEPT ![i].due = "now"]
  /\ UNCHANGED <<cycleVars, selected, switchVars, drawn, mirror, faults>>

Age(i) ==
  /\ row[i].status \in {"processing", "dead_letter"}
  /\ ~row[i].aged
  /\ SlowCycles \/ ~Held(i)
  /\ row' = [row EXCEPT ![i].aged = TRUE]
  /\ UNCHANGED <<cycleVars, selected, switchVars, drawn, mirror, faults>>

\* A reservation lapses at the expiration the prepare carries (30 s).
SwitchExpires(i) ==
  /\ switch[i].state = "reserved"
  /\ switch' = [switch EXCEPT ![i].state = "aborted"]
  /\ UNCHANGED <<row, cycleVars, selected, fulfilling, prepared, drawn, mirror, faults>>

SwitchDecides(i, p) ==
  /\ <<i, p>> \in fulfilling
  /\ fulfilling' = fulfilling \ {<<i, p>>}
  /\ switch' = IF switch[i] = [state |-> "reserved", condition |-> p]
               THEN [switch EXCEPT ![i].state = "committed"]
               ELSE switch
  /\ UNCHANGED <<row, cycleVars, selected, prepared, drawn, mirror, faults>>

-----------------------------------------------------------------------------
CycleStep(c) ==
  \/ Start(c) \/ Claim(c)
  \/ \E i \in Items : EnsurePreimage(c, i)
  \/ Prepare(c) \/ Fulfil(c) \/ CallFails(c)
  \/ Commit(c) \/ Fail(c) \/ PostDebit(c) \/ PostCredit(c) \/ Requeue(c)

CycleFault(c) ==
  \/ \E i \in Items : EnsurePreimageFails(c, i)
  \/ WriteFails(c) \/ PostFails(c) \/ Crash(c)

Next ==
  \/ \E i \in Items : Enqueue(i) \/ EnqueueInitiated(i)
  \/ \E c \in Cycles : CycleStep(c) \/ CycleFault(c)
  \/ \E a \in Admins : SelectDeadLetters(a) \/ RetrySelected(a)
  \/ \E i \in Items : BackoffElapses(i) \/ Age(i) \/ SwitchExpires(i)
  \/ \E f \in fulfilling : SwitchDecides(f[1], f[2])

Spec == Init /\ [][Next]_vars

\* setInterval keeps starting cycles and the runtime keeps resuming the ones
\* under way; clocks advance.  Nothing obliges anybody to enqueue, to retry,
\* to crash, or the switch to decide.
Fairness ==
  /\ \A c \in Cycles : WF_vars(CycleStep(c))
  /\ \A i \in Items : WF_vars(BackoffElapses(i)) /\ WF_vars(Age(i))

FairSpec == Spec /\ Fairness

-----------------------------------------------------------------------------
(* What the queue is for.                                                  *)

\* The proviso of the safety theorems: no row outlasts the heartbeat in a
\* live cycle, and one administrator at a time retries dead letters.
Timely == ~SlowCycles /\ \A a, b \in Admins : a = b

\* A row is in the hands of one cycle at most: the claim, the recovery of
\* stuck rows, the requeue of a failed write and the retry of dead letters
\* never give a row that one cycle still works on to another.
ExclusiveClaim ==
  \A c, d \in Cycles : c # d => todo[c] \cap todo[d] = {}

\* However often a transfer is retried, after a crash, a lost answer or a
\* failed statement, the switch sees it under one condition: the preimage is
\* stored before it is used and the stored one is used from then on.
OneCondition ==
  \A i \in Items : \A p, q \in prepared[i] : p = q

\* The balance mirror is never ahead of the committed rows it summarises
\* (drift over zero in balanceDrift.ts): a transfer is posted once per side
\* at most, debit side first, and only for a row that is committed.
MirrorBacked ==
  \A i \in Items :
    /\ mirror[i].credit <= mirror[i].debit
    /\ mirror[i].debit <= 1
    /\ mirror[i].debit = 1 => row[i].status = "committed"

\* Also when two cycles work on one row and post it twice, the credit side of
\* the mirror never runs ahead of the debit side.
CreditFollowsDebit ==
  \A i \in Items : mirror[i].credit <= mirror[i].debit

\* A failed row is never selected again, so that the attempts of a row beyond
\* the first are those that a failed statement or a crash sent back to the
\* queue: a switch that is down or refuses makes no dead letter by itself.
DeadLettersCostFaults ==
  \A i \in Items : row[i].status = "dead_letter" => MaxAttempts <= faults + 1

\* A committed row is a transfer the switch settled.
CommittedIsSettled ==
  \A i \in Items : row[i].status = "committed" => switch[i].state = "committed"

\* A committed row that no cycle works on stays committed: the archive and
\* the drift check sum over these rows.  The worker that wrote it may take it
\* back itself, when the answer to its write is lost.
CommittedIsFinal ==
  [][\A i \in Items : row[i].status = "committed" /\ ~Held(i)
                        => row'[i].status = "committed"]_vars

\* The queue implements the ledger its readers rely on.  A transfer is closed
\* when its row is committed and no cycle holds it.
Ledger == INSTANCE TransferLedger WITH
  Transfers <- Items,
  settled   <- {i \in Items : switch[i].state = "committed"},
  debits    <- [i \in Items |-> mirror[i].debit],
  credits   <- [i \in Items |-> mirror[i].credit],
  closed    <- {i \in Items : row[i].status = "committed" /\ ~Held(i)}

\* Settled for good, posted once per side and only when settled, closed for
\* good: whatever the worker, its retries, its crashes and the administrator
\* do, the readers of queue and mirror see a step of the ledger or nothing.
ImplementsLedger == Ledger!Spec

\* Every queued row that has a next_retry_at is decided: whatever crashes or
\* raises on the way, some cycle takes it up and brings it to a result.
QueuedIsDecided ==
  \A i \in Items :
    row[i].status \in {"queued", "processing"} /\ row[i].due # "null"
      ~> row[i].status \in {"committed", "failed", "dead_letter"}

\* 1b-payments-architecture.md, 3.4: a failed attempt sets next_retry_at, and
\* the row is retried until it commits or is dead-lettered.
FailedIsRetried ==
  \A i \in Items :
    row[i].status = "failed" ~> row[i].status \in {"processing", "dead_letter"}

\* payments.initiate "enqueues it via batchPayments for async Mojaloop
\* processing": a row in the queue is taken up by a worker.
InitiatedIsProcessed ==
  \A i \in Items : row[i].status = "queued" ~> row[i].status = "processing"
=============================================================================
