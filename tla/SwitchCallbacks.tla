---------------------------- MODULE SwitchCallbacks ----------------------------
(***************************************************************************)
(* Duty payments through the Mojaloop switch, server/routers/mojaloop.ts:  *)
(* initiatePayment inserts a row of mojaloop_transactions and forwards it, *)
(* webhookCallback posts to the TigerBeetle bridge and settles the row.    *)
(*                                                                         *)
(* Both are sequences of statements and calls with an await after each, so *)
(* submissions of the same payment overlap, and so do deliveries of the    *)
(* same callback.  The switch delivers until it is answered 200; a request *)
(* that stops half-way has no transaction to roll back.                    *)
(*                                                                         *)
(* The switch and the bridge are external.  A callback whose signature or  *)
(* whose fulfilment does not verify is answered 401 or 400 and changes     *)
(* nothing: callbacks here are the switch's own.                           *)
(***************************************************************************)
EXTENDS Naturals, Sequences, FiniteSets

CONSTANTS
  Transfers,   \* calls of initiatePayment, each with a transfer id of its own
  KeyOf,       \* [Transfers -> key]: the hash of user, declaration, FSP, account
  Deliveries,  \* callback requests under way at once
  TransferOf,  \* [Deliveries -> Transfers]: the transfer a request is about
  MaxFaults    \* bound on failed statements, lost answers and stops of handlers

ASSUME SwitchAssumption ==
  /\ TransferOf \in [Deliveries -> Transfers]
  /\ MaxFaults \in Nat

VARIABLES
  tx,        \* [Transfers -> TxStatus], status of the row
  keyed,     \* keys stored in payment_idempotency_keys
  asking,    \* [Transfers -> Asking], how far initiatePayment got
  hub,       \* [Transfers -> Hub], the switch's own state
  handler,   \* [Deliveries -> Handler], a request of webhookCallback
  seen,      \* event ids recorded: <<transfer, state>>
  acked,     \* transfers whose outcome the switch was answered 200 for
  ledger,    \* the bridge's transfers, in the order posted
  mirrored,  \* rows of tigerbeetle_ledger_entries
  faults     \* faults so far

asked == <<keyed, asking>>
callbacks == <<handler, seen, acked>>
books == <<ledger, mirrored>>
switchVars == <<tx, asked, hub, callbacks, books, faults>>

\* Mutant: the column is widened to what the switch may say.
StatusWithReserved == {"PENDING", "PROCESSING", "RESERVED", "COMMITTED", "ABORTED", "EXPIRED"}

\* The values the column takes; the callback may say more than these.
MojaloopTransferStatus == {"PENDING", "PROCESSING", "COMMITTED", "ABORTED", "EXPIRED"}
TxStatus == {"none"} \cup MojaloopTransferStatus

Outcomes == {"COMMITTED", "ABORTED"}
TransferState == {"RESERVED"} \cup Outcomes  \* RECEIVED is handled as RESERVED is

Asking == {"new", "checked", "created", "keyed", "done", "refused"}
Hub == {"unsent", "prepared"} \cup TransferState
At == {"idle", "lookup", "post", "mirror", "update", "record"}

\* id is the tbTransferId of the bridge's answer, an index of ledger.
Handler == [at : At, says : TransferState, withId : BOOLEAN, id : Nat]
Idle == [at |-> "idle", says |-> "RESERVED", withId |-> FALSE, id |-> 0]

Entry == [id : Nat, transfer : Transfers]

SwitchTypeOK ==
  /\ tx \in [Transfers -> TxStatus]
  /\ keyed \subseteq {KeyOf[t] : t \in Transfers}
  /\ asking \in [Transfers -> Asking]
  /\ hub \in [Transfers -> Hub]
  /\ handler \in [Deliveries -> Handler]
  /\ seen \subseteq Transfers \X Outcomes
  /\ acked \subseteq Transfers
  /\ ledger \in Seq(Transfers)
  /\ mirrored \subseteq Entry
  /\ faults \in 0..MaxFaults

SwitchInit ==
  /\ tx = [t \in Transfers |-> "none"]
  /\ keyed = {}
  /\ asking = [t \in Transfers |-> "new"]
  /\ hub = [t \in Transfers |-> "unsent"]
  /\ handler = [d \in Deliveries |-> Idle]
  /\ seen = {}
  /\ acked = {}
  /\ ledger = <<>>
  /\ mirrored = {}
  /\ faults = 0

Fault == faults < MaxFaults /\ faults' = faults + 1

-----------------------------------------------------------------------------
(* initiatePayment.  A request that dies between two statements takes no   *)
(* further step; nothing resends a transfer that was not forwarded.        *)

\* The key is looked up in one statement and stored two statements later.
CheckKey(t) ==
  /\ asking[t] = "new"
  /\ asking' = [asking EXCEPT ![t] = IF KeyOf[t] \in keyed THEN "refused" ELSE "checked"]
  /\ UNCHANGED <<tx, keyed, hub, callbacks, books, faults>>

CreateTransaction(t) ==
  /\ asking[t] = "checked"
  /\ asking' = [asking EXCEPT ![t] = "created"]
  /\ tx' = [tx EXCEPT ![t] = "PENDING"]
  /\ UNCHANGED <<keyed, hub, callbacks, books, faults>>

StoreKey(t) ==
  /\ asking[t] = "created"
  /\ asking' = [asking EXCEPT ![t] = "keyed"]
  /\ keyed' = keyed \cup {KeyOf[t]}
  /\ UNCHANGED <<tx, hub, callbacks, books, faults>>

\* The switch may have the transfer although the call fails, and may not.
ForwardToSwitch(t) ==
  /\ asking[t] = "keyed"
  /\ asking' = [asking EXCEPT ![t] = "done"]
  /\ \/ hub' = hub
     \/ hub' = [hub EXCEPT ![t] = "prepared"]
  /\ UNCHANGED <<tx, keyed, callbacks, books, faults>>

InitiatePayment(t) ==
  CheckKey(t) \/ CreateTransaction(t) \/ StoreKey(t) \/ ForwardToSwitch(t)

\* The switch commits only what it reserved.
SwitchDecides(t) ==
  /\ \/ /\ hub[t] = "prepared"
        /\ \E s \in {"RESERVED", "ABORTED"} : hub' = [hub EXCEPT ![t] = s]
     \/ /\ hub[t] = "RESERVED"
        /\ \E s \in Outcomes : hub' = [hub EXCEPT ![t] = s]
  /\ UNCHANGED <<tx, asked, callbacks, books, faults>>

-----------------------------------------------------------------------------
(* webhookCallback.                                                        *)

GoTo(d, place) == handler' = [handler EXCEPT ![d].at = place]
Finish(d) == handler' = [handler EXCEPT ![d] = Idle]
Acknowledge(t, says) == acked' = IF says \in Outcomes THEN acked \cup {t} ELSE acked

\* The switch sends its state, with or without an event id, and the id is
\* looked up.
Receive(d) ==
  LET t == TransferOf[d] IN
  /\ handler[d].at = "idle"
  /\ hub[t] \in TransferState
  /\ \E withId \in BOOLEAN :
       IF withId /\ <<t, hub[t]>> \in seen
         THEN Acknowledge(t, hub[t]) /\ UNCHANGED handler
         ELSE /\ handler' = [handler EXCEPT ![d] =
                   [at |-> "lookup", says |-> hub[t], withId |-> withId, id |-> 0]]
              /\ UNCHANGED acked
  /\ UNCHANGED <<tx, asked, hub, seen, books, faults>>

\* Mutant: a row is settled only if it says PROCESSING, which nothing writes.
LookUpProcessing(d) ==
  LET t == TransferOf[d] IN
  /\ handler[d].at = "lookup"
  /\ IF tx[t] = "COMMITTED" /\ handler[d].says = "COMMITTED"
       THEN Finish(d) /\ Acknowledge(t, "COMMITTED")
       ELSE /\ UNCHANGED acked
            /\ IF tx[t] # "PROCESSING"
                 THEN Finish(d)
                 ELSE GoTo(d, IF handler[d].says = "COMMITTED" THEN "post" ELSE "update")
  /\ UNCHANGED <<tx, asked, hub, seen, books, faults>>

\* The row is read and decided on: without one it is a 404, a terminal row is
\* a 409 unless COMMITTED is said again.
LookUp(d) ==
  LET t == TransferOf[d] IN
  /\ handler[d].at = "lookup"
  /\ IF tx[t] = "COMMITTED" /\ handler[d].says = "COMMITTED"
       THEN Finish(d) /\ Acknowledge(t, "COMMITTED")
       ELSE /\ UNCHANGED acked
            /\ IF tx[t] \in {"none", "COMMITTED", "ABORTED"}
                 THEN Finish(d)
                 ELSE GoTo(d, IF handler[d].says = "COMMITTED" THEN "post" ELSE "update")
  /\ UNCHANGED <<tx, asked, hub, seen, books, faults>>

\* Mutant: a bridge that does not answer is only logged.
PostOrNot(d) ==
  /\ handler[d].at = "post"
  /\ \/ /\ ledger' = Append(ledger, TransferOf[d])
        /\ handler' = [handler EXCEPT ![d].at = "mirror", ![d].id = Len(ledger')]
        /\ UNCHANGED faults
     \/ Fault /\ GoTo(d, "update") /\ UNCHANGED ledger
  /\ UNCHANGED <<tx, asked, hub, seen, acked, mirrored>>

\* Every request to the bridge is a transfer of its own; an unanswered one is
\* sent again, or given up by Stop, with the transfer made or not.
PostToBridge(d) ==
  /\ handler[d].at = "post"
  /\ ledger' = Append(ledger, TransferOf[d])
  /\ \/ /\ handler' = [handler EXCEPT ![d].at = "mirror", ![d].id = Len(ledger')]
        /\ UNCHANGED faults
     \/ Fault /\ UNCHANGED handler
  /\ UNCHANGED <<tx, asked, hub, seen, acked, mirrored>>

\* A mirror row that cannot be inserted is only logged.
MirrorEntry(d) ==
  /\ handler[d].at = "mirror"
  /\ GoTo(d, "update")
  /\ \/ /\ mirrored' = mirrored \cup {[id |-> handler[d].id, transfer |-> TransferOf[d]]}
        /\ UNCHANGED faults
     \/ Fault /\ UNCHANGED mirrored
  /\ UNCHANGED <<tx, asked, hub, seen, acked, ledger>>

\* Mutant: the column is text, and takes whatever the switch says.
UpdateUnchecked(d) ==
  /\ handler[d].at = "update"
  /\ tx' = [tx EXCEPT ![TransferOf[d]] = handler[d].says]
  /\ GoTo(d, "record")
  /\ UNCHANGED <<asked, hub, seen, acked, books, faults>>

\* By transfer id, whatever the row says by now.  The column refuses a state
\* that is not of its type and the request fails.
UpdateTransaction(d) ==
  LET t == TransferOf[d] IN
  /\ handler[d].at = "update"
  /\ IF handler[d].says \in MojaloopTransferStatus
       THEN tx' = [tx EXCEPT ![t] = handler[d].says] /\ GoTo(d, "record")
       ELSE Finish(d) /\ UNCHANGED tx
  /\ UNCHANGED <<asked, hub, seen, acked, books, faults>>

\* The event id is recorded last, then the switch is answered.
RecordEvent(d) ==
  LET t == TransferOf[d] IN
  /\ handler[d].at = "record"
  /\ seen' = IF handler[d].withId THEN seen \cup {<<t, handler[d].says>>} ELSE seen
  /\ Acknowledge(t, handler[d].says)
  /\ Finish(d)
  /\ UNCHANGED <<tx, asked, hub, books, faults>>

\* A statement, the audit's or the bridge fails, or the server stops.
Stop(d) ==
  /\ handler[d].at # "idle"
  /\ Fault
  /\ Finish(d)
  /\ UNCHANGED <<tx, asked, hub, seen, acked, books>>

Proceed(d) ==
  LookUp(d) \/ PostToBridge(d) \/ MirrorEntry(d) \/ UpdateTransaction(d) \/ RecordEvent(d)

SwitchNext ==
  \/ \E t \in Transfers : InitiatePayment(t) \/ SwitchDecides(t)
  \/ \E d \in Deliveries : Receive(d) \/ Proceed(d) \/ Stop(d)

SwitchSpec == SwitchInit /\ [][SwitchNext]_switchVars

\* The switch delivers COMMITTED until it is answered 200, and a handler that
\* has started goes on until it ends; nothing makes the switch decide.
Redeliver(d) ==
  /\ TransferOf[d] \notin acked
  /\ hub[TransferOf[d]] = "COMMITTED"
  /\ Receive(d)

Fairness ==
  \A d \in Deliveries : WF_switchVars(Redeliver(d)) /\ WF_switchVars(Proceed(d))

SwitchFairSpec == SwitchSpec /\ Fairness

-----------------------------------------------------------------------------
(* Properties.                                                             *)

\* What the row, the ledger and its mirror say is what the switch decided,
\* although callbacks overlap and statements fail: a row is COMMITTED only
\* with a transfer of its own on the bridge, a mirror row names a transfer
\* the bridge really made for it, and the switch is answered 200, or its event
\* recorded, only after the outcome is in the row.
SettlementIsBacked ==
  /\ \A t \in Transfers :
       /\ tx[t] \in Outcomes => hub[t] = tx[t]
       /\ tx[t] = "COMMITTED" => \E i \in DOMAIN ledger : ledger[i] = t
       /\ t \in acked => tx[t] \in Outcomes
  /\ \A e \in mirrored :
       e.id \in DOMAIN ledger /\ ledger[e.id] = e.transfer /\ hub[e.transfer] = "COMMITTED"
  /\ \A e \in seen : tx[e[1]] = e[2]

Posted == {ledger[i] : i \in DOMAIN ledger}

Settlement == INSTANCE SwitchSettlement WITH posted <- Posted

\* The rows are what other procedures take them for: settled once, after the
\* bridge, and never changed again, though handlers that read a row PENDING
\* write it later, and the switch says RESERVED before it says COMMITTED.
ImplementsSettlement == Settlement!SettlementSpec

\* The bridge may hold a transfer more than once (see OneLedgerEntry), but no
\* more often than callbacks about it overlap and faults happen: a handler that
\* found the row PENDING posts it once, and once more for each answer it lost,
\* and a row that is COMMITTED is not posted again, however often the switch
\* delivers.
EntriesOf(t) == {i \in DOMAIN ledger : ledger[i] = t}

EntriesAreAccounted ==
  \A t \in Transfers :
    Cardinality(EntriesOf(t)) <= Cardinality({d \in Deliveries : TransferOf[d] = t}) + faults

\* A payment the switch committed ends COMMITTED once the failures end.
CommittedIsRecorded ==
  \A t \in Transfers : hub[t] = "COMMITTED" ~> tx[t] = "COMMITTED"

\* Claimed by the comment on webhookCallback: replays never mint a second
\* ledger entry.
OneLedgerEntry ==
  \A d, e \in mirrored : d.transfer = e.transfer => d = e

\* Claimed by the comment at the key in initiatePayment: duplicate submissions
\* are rejected.
DuplicateRejected ==
  \A t, u \in Transfers :
    KeyOf[t] = KeyOf[u] /\ tx[t] # "none" /\ tx[u] # "none" => t = u
=============================================================================
