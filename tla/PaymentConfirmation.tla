-------------------------- MODULE PaymentConfirmation --------------------------
(***************************************************************************)
(* Confirming a payment, server/routers/payments.ts: confirm submits a     *)
(* Temporal workflow for a payment and the transfer that paid it, under a  *)
(* Redis lock of the payment (server/_core/distributedLock.ts) and behind  *)
(* an idempotency key in the same Redis; cancel takes no lock.             *)
(*                                                                         *)
(* The transfers are those of SwitchSettlement, which SwitchCallbacks      *)
(* implements.  The lock has a time to live of 30 s, less than three       *)
(* attempts of 10 s at the workflow and the waits between them, so it may  *)
(* run out under a request that is still at work.  Without Redis acquiring *)
(* fails, while the key reads as absent, is not stored, and the lock is    *)
(* left to run out.                                                        *)
(***************************************************************************)
EXTENDS SwitchSettlement

CONSTANTS
  Payments,  \* payments of the transfers' declaration
  Requests,  \* calls of confirm under way at once
  None       \* no request, no payment, no transfer

ASSUME ConfirmAssumption ==
  /\ None \notin Requests
  /\ None \notin Payments
  /\ None \notin Transfers

VARIABLES
  payment,    \* [Payments -> PaymentStatus]
  lock,       \* [Payments -> Requests or None]: whose token lock:payment:update:p is
  request,    \* [Requests -> Request]
  lapsed,     \* requests whose lock ran out under them
  cache,      \* idempotency keys stored: <<payment, transfer>>
  started,    \* workflows started: <<payment, transfer>>
  again,      \* history: workflows started a second time
  disturbed   \* history: pairs of a lock run out, a Redis or an answer lost

confirmVars == <<payment, lock, request, lapsed, cache, started, again, disturbed>>
vars == <<settlementVars, confirmVars>>

Pairs == Payments \X Transfers

\* No procedure turns a pending payment "confirmed": the workflow is to.
PaymentStatus == {"pending", "failed"}

At == {"idle", "cache", "payment", "transfer", "start", "store", "release"}
Request == [at : At, payment : Payments \cup {None}, transfer : Transfers \cup {None}]
Idle == [at |-> "idle", payment |-> None, transfer |-> None]

Pair(r) == <<request[r].payment, request[r].transfer>>

\* Between acquireLock and releaseLock.
InSection(r, p) == request[r].at # "idle" /\ request[r].payment = p

TypeOK ==
  /\ SettlementTypeOK
  /\ payment \in [Payments -> PaymentStatus]
  /\ lock \in [Payments -> Requests \cup {None}]
  /\ request \in [Requests -> Request]
  /\ \A r \in Requests : request[r].at # "idle" => Pair(r) \in Pairs
  /\ lapsed \subseteq Requests
  /\ cache \subseteq Pairs
  /\ started \subseteq Pairs
  /\ again \subseteq Pairs
  /\ disturbed \subseteq Pairs

Init ==
  /\ SettlementInit
  /\ payment = [p \in Payments |-> "pending"]
  /\ lock = [p \in Payments |-> None]
  /\ request = [r \in Requests |-> Idle]
  /\ lapsed = {}
  /\ cache = {}
  /\ started = {}
  /\ again = {}
  /\ disturbed = {}

GoTo(r, place) == request' = [request EXCEPT ![r].at = place]
Disturb(r) == disturbed' = disturbed \cup {Pair(r)}

\* A request is over: nothing is left of it but, perhaps, its lock.
End(r) ==
  /\ request' = [request EXCEPT ![r] = Idle]
  /\ lapsed' = lapsed \ {r}

-----------------------------------------------------------------------------
(* confirm.                                                                *)

\* SET NX PX; a lock that is held is a CONFLICT at once.
AcquireLock(r, p, t) ==
  /\ request[r].at = "idle"
  /\ lock[p] = None
  /\ lock' = [lock EXCEPT ![p] = r]
  /\ request' = [request EXCEPT ![r] = [at |-> "cache", payment |-> p, transfer |-> t]]
  /\ UNCHANGED <<payment, lapsed, cache, started, again, disturbed>>

GetIdempotencyKey(r) ==
  /\ request[r].at = "cache"
  /\ \/ /\ GoTo(r, IF Pair(r) \in cache THEN "release" ELSE "payment")
        /\ UNCHANGED disturbed
     \/ GoTo(r, "payment") /\ Disturb(r)
  /\ UNCHANGED <<payment, lock, lapsed, cache, started, again>>

ReadPayment(r) ==
  /\ request[r].at = "payment"
  /\ GoTo(r, IF payment[request[r].payment] = "pending" THEN "transfer" ELSE "release")
  /\ UNCHANGED <<payment, lock, lapsed, cache, started, again, disturbed>>

\* Mutant: a transfer on its way is good enough.
ReadTransferSent(r) ==
  /\ request[r].at = "transfer"
  /\ GoTo(r, IF tx[request[r].transfer] \in {"PENDING", "COMMITTED"} THEN "start" ELSE "release")
  /\ UNCHANGED <<payment, lock, lapsed, cache, started, again, disturbed>>

ReadTransfer(r) ==
  /\ request[r].at = "transfer"
  /\ GoTo(r, IF tx[request[r].transfer] = "COMMITTED" THEN "start" ELSE "release")
  /\ UNCHANGED <<payment, lock, lapsed, cache, started, again, disturbed>>

\* Temporal may have started the workflow although the call fails, and may
\* not; a workflow that has ended may be started again under its id.
StartWorkflow(r) ==
  /\ request[r].at = "start"
  /\ \/ /\ GoTo(r, "store")
        /\ started' = started \cup {Pair(r)}
        /\ again' = again \cup ({Pair(r)} \cap started)
        /\ UNCHANGED disturbed
     \/ /\ GoTo(r, "release")
        /\ started' = started \cup {Pair(r)}
        /\ again' = again \cup ({Pair(r)} \cap started)
        /\ Disturb(r)
     \/ GoTo(r, "release") /\ UNCHANGED <<started, again, disturbed>>
  /\ UNCHANGED <<payment, lock, lapsed, cache>>

SetIdempotencyKey(r) ==
  /\ request[r].at = "store"
  /\ GoTo(r, "release")
  /\ \/ cache' = cache \cup {Pair(r)} /\ UNCHANGED disturbed
     \/ Disturb(r) /\ UNCHANGED cache
  /\ UNCHANGED <<payment, lock, lapsed, started, again>>

\* A statement or Redis throws; the finally clause still releases.
FailStatement(r) ==
  /\ request[r].at \in {"cache", "payment", "transfer", "store"}
  /\ GoTo(r, "release")
  /\ IF request[r].at = "store" THEN Disturb(r) ELSE UNCHANGED disturbed
  /\ UNCHANGED <<payment, lock, lapsed, cache, started, again>>

\* Mutant: whatever lock is there is deleted.
AnyLockDeleted(r) == lock' = [lock EXCEPT ![request[r].payment] = None]

\* Deleted only if the token is still the request's own.
OwnLockDeleted(r) ==
  lock' = [lock EXCEPT ![request[r].payment] = IF @ = r THEN None ELSE @]

\* In the finally clause, so after an error too; a no-op without Redis.
ReleaseLock(r) ==
  /\ request[r].at = "release"
  /\ lock' = lock \/ OwnLockDeleted(r)
  /\ End(r)
  /\ UNCHANGED <<payment, cache, started, again, disturbed>>

\* The server stops, and with it the request: the lock stays.
Crash(r) ==
  /\ request[r].at # "idle"
  /\ End(r)
  /\ Disturb(r)
  /\ UNCHANGED <<payment, lock, cache, started, again>>

Confirm(r) ==
  \/ \E p \in Payments, t \in Transfers : AcquireLock(r, p, t)
  \/ GetIdempotencyKey(r) \/ ReadPayment(r) \/ ReadTransfer(r) \/ StartWorkflow(r)
  \/ SetIdempotencyKey(r) \/ FailStatement(r) \/ ReleaseLock(r) \/ Crash(r)

-----------------------------------------------------------------------------
(* Time, and cancel.                                                       *)

LockExpires(p) ==
  LET holders == {r \in Requests : lock[p] = r /\ InSection(r, p)} IN
  /\ lock[p] # None
  /\ lock' = [lock EXCEPT ![p] = None]
  /\ lapsed' = lapsed \cup holders
  /\ disturbed' = disturbed \cup {Pair(r) : r \in holders}
  /\ UNCHANGED <<payment, request, cache, started, again>>

\* After a day.
KeyExpires(pair) ==
  /\ pair \in cache
  /\ cache' = cache \ {pair}
  /\ disturbed' = disturbed \cup {pair}
  /\ UNCHANGED <<payment, lock, request, lapsed, started, again>>

\* Mutant: a status the column does not have.
CancelAsCancelled(p) ==
  /\ payment[p] = "pending"
  /\ payment' = [payment EXCEPT ![p] = "cancelled"]
  /\ UNCHANGED <<lock, request, lapsed, cache, started, again, disturbed>>

CancelPayment(p) ==
  /\ payment[p] = "pending"
  /\ payment' = [payment EXCEPT ![p] = "failed"]
  /\ UNCHANGED <<lock, request, lapsed, cache, started, again, disturbed>>

ConfirmNext ==
  \/ \E r \in Requests : Confirm(r)
  \/ \E p \in Payments : LockExpires(p) \/ CancelPayment(p)
  \/ \E pair \in cache : KeyExpires(pair)

Next ==
  \/ SettlementNext /\ UNCHANGED confirmVars
  \/ ConfirmNext /\ UNCHANGED settlementVars

Spec == Init /\ [][Next]_vars

-----------------------------------------------------------------------------
(* Properties.                                                             *)

\* Two requests are inside the section of a payment only after the lock ran
\* out under one of them; no request ever deletes another's lock.
LocksExclude ==
  \A r, s \in Requests, p \in Payments :
    InSection(r, p) /\ InSection(s, p) /\ r # s => r \in lapsed \/ s \in lapsed

\* The workflow of a payment and a transfer is started twice only if, for that
\* very pair, a lock ran out, Redis or an answer was lost, a server stopped or
\* a day passed: lock and key together do what neither does alone.
SubmittedOnce == again \subseteq disturbed

\* A confirmation is submitted only for a transfer that is, and stays,
\* COMMITTED and on the ledger, whatever became of the row since it was read,
\* and a stored answer stands for a workflow that was started.
SubmissionBacked ==
  /\ \A pair \in started : tx[pair[2]] = "COMMITTED" /\ pair[2] \in posted
  /\ cache \subseteq started

\* What a reader of confirm expects of cancel, which takes no lock: no workflow
\* is started for a payment that was cancelled.
CancelledNotSubmitted ==
  [][\A pair \in started' \ started : payment[pair[1]] = "pending"]_vars
=============================================================================
