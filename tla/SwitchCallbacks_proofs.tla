------------------------ MODULE SwitchCallbacks_proofs ------------------------
(***************************************************************************)
(* What SwitchCallbacks keeps for every number of transfers, overlapping   *)
(* deliveries and faults, that its rows implement SwitchSettlement, and    *)
(* what pays for the entries of the ledger.                                *)
(*                                                                         *)
(* A handler acts on a row it read some steps ago.  That is sound because  *)
(* the switch decides once: HandlerOK ties what a handler was told to the  *)
(* switch's own state, TransferOK ties the row and the ledger to it, and   *)
(* so two handlers can only write the same thing.                          *)
(***************************************************************************)
EXTENDS SwitchCallbacks, TLAPS, SequenceTheorems, FiniteSetTheorems

TransferOK(t) ==
  /\ tx[t] \in {"none", "PENDING", "COMMITTED", "ABORTED"}
  /\ asking[t] \in {"new", "checked", "refused"} <=> tx[t] = "none"
  /\ asking[t] # "done" => hub[t] = "unsent"
  /\ tx[t] \in Outcomes => hub[t] = tx[t]
  /\ tx[t] = "COMMITTED" => t \in Posted
  /\ t \in Posted => hub[t] = "COMMITTED"
  /\ t \in acked => tx[t] \in Outcomes

Told(h, t) == h.says \in Outcomes => hub[t] = h.says

HandlerOK(d) ==
  LET t == TransferOf[d]
      h == handler[d] IN
  h.at # "idle" =>
    /\ hub[t] \in TransferState
    /\ Told(h, t)
    /\ h.at \in {"post", "mirror"} => h.says = "COMMITTED"
    /\ h.at = "mirror" => h.id \in DOMAIN ledger /\ ledger[h.id] = t
    /\ h.at \in {"update", "record"} /\ h.says = "COMMITTED" => t \in Posted
    /\ h.at = "record" => h.says \in Outcomes /\ tx[t] = h.says

RecordsOK ==
  /\ \A e \in mirrored : e.id \in DOMAIN ledger /\ ledger[e.id] = e.transfer
  /\ \A e \in seen : tx[e[1]] = e[2]

Inv ==
  /\ SwitchTypeOK
  /\ \A t \in Transfers : TransferOK(t)
  /\ \A d \in Deliveries : HandlerOK(d)
  /\ RecordsOK

-----------------------------------------------------------------------------
(* Lemmas.                                                                 *)

LEMMA PostedFacts ==
  ASSUME ledger \in Seq(Transfers)
  PROVE  Posted \subseteq Transfers /\ \A i \in DOMAIN ledger : ledger[i] \in Posted
  BY DEF Posted

LEMMA AppendFacts ==
  ASSUME ledger \in Seq(Transfers), NEW t \in Transfers, ledger' = Append(ledger, t)
  PROVE  /\ ledger' \in Seq(Transfers)
         /\ DOMAIN ledger \subseteq DOMAIN ledger'
         /\ \A i \in DOMAIN ledger : ledger'[i] = ledger[i]
         /\ Len(ledger') \in DOMAIN ledger' /\ Len(ledger') \in Nat
         /\ ledger'[Len(ledger')] = t
         /\ Posted' = Posted \cup {t}
<1>1. /\ ledger' \in Seq(Transfers)
      /\ Len(ledger') = Len(ledger) + 1
      /\ DOMAIN ledger = 1..Len(ledger) /\ DOMAIN ledger' = 1..Len(ledger')
      /\ Len(ledger) \in Nat
      /\ \A i \in 1..Len(ledger) : ledger'[i] = ledger[i]
      /\ ledger'[Len(ledger')] = t
  BY AppendProperties, LenProperties
<1>2. Posted' = Posted \cup {t}
  BY <1>1 DEF Posted
<1>3. QED
  BY <1>1, <1>2

LEMMA HandlerFacts ==
  ASSUME SwitchTypeOK, NEW d \in Deliveries, NEW h \in Handler,
         handler' = [handler EXCEPT ![d] = h]
  PROVE  /\ handler' \in [Deliveries -> Handler]
         /\ handler'[d] = h
         /\ \A e \in Deliveries : e # d => handler'[e] = handler[e]
  BY DEF SwitchTypeOK

LEMMA GoToFacts ==
  ASSUME SwitchTypeOK, NEW d \in Deliveries, NEW a \in At, GoTo(d, a)
  PROVE  /\ handler' \in [Deliveries -> Handler]
         /\ handler'[d].at = a
         /\ handler'[d].says = handler[d].says
         /\ handler'[d].id = handler[d].id
         /\ \A e \in Deliveries : e # d => handler'[e] = handler[e]
<1> DEFINE h == [handler[d] EXCEPT !.at = a]
<1>1. handler[d] \in Handler
  BY DEF SwitchTypeOK
<1>2. /\ h \in Handler
      /\ h.at = a /\ h.says = handler[d].says /\ h.id = handler[d].id
  BY <1>1 DEF Handler
<1>3. handler' = [handler EXCEPT ![d] = h]
  BY DEF GoTo
<1> HIDE DEF h
<1>4. QED
  BY <1>2, <1>3, HandlerFacts

LEMMA FinishFacts ==
  ASSUME SwitchTypeOK, NEW d \in Deliveries, Finish(d)
  PROVE  /\ handler' \in [Deliveries -> Handler]
         /\ handler'[d].at = "idle"
         /\ \A e \in Deliveries : e # d => handler'[e] = handler[e]
<1>1. Idle \in Handler /\ Idle.at = "idle"
  BY DEF Idle, Handler, At, TransferState
<1>2. QED
  BY <1>1, HandlerFacts DEF Finish

LEMMA FaultFacts ==
  ASSUME SwitchTypeOK, Fault \/ UNCHANGED faults
  PROVE  faults' \in 0..MaxFaults
  BY SwitchAssumption DEF SwitchTypeOK, Fault

LEMMA AboutFacts ==
  ASSUME Inv, NEW d \in Deliveries
  PROVE  TransferOf[d] \in Transfers /\ TransferOK(TransferOf[d]) /\ HandlerOK(d)
  BY SwitchAssumption DEF Inv

\* A step of one handler that leaves rows and books alone.
LEMMA QuietStep ==
  ASSUME Inv, NEW d \in Deliveries, UNCHANGED <<tx, asked, hub, seen, books>>,
         Fault \/ UNCHANGED faults,
         handler' \in [Deliveries -> Handler],
         \A e \in Deliveries : e # d => handler'[e] = handler[e],
         HandlerOK(d)',
         acked' \subseteq acked \cup {TransferOf[d]},
         acked' # acked => tx[TransferOf[d]] \in Outcomes
  PROVE  Inv'
<1>1. Posted' = Posted /\ UNCHANGED <<tx, keyed, asking, hub, seen, ledger, mirrored>>
  BY DEF Posted, books, asked
<1>2. SwitchTypeOK'
  BY <1>1, FaultFacts, AboutFacts DEF Inv, SwitchTypeOK
<1>3. ASSUME NEW t \in Transfers PROVE TransferOK(t)'
  BY <1>1 DEF Inv, TransferOK
<1>4. ASSUME NEW e \in Deliveries, e # d PROVE HandlerOK(e)'
  BY <1>1, <1>4 DEF Inv, HandlerOK, Told
<1>5. RecordsOK'
  BY <1>1 DEF Inv, RecordsOK
<1>6. QED
  BY <1>2, <1>3, <1>4, <1>5 DEF Inv

-----------------------------------------------------------------------------
(* The inductive step, one lemma per action.                               *)

LEMMA InitInv == SwitchInit => Inv
<1> SUFFICES ASSUME SwitchInit PROVE Inv
  OBVIOUS
<1>1. Posted = {}
  BY DEF SwitchInit, Posted
<1>2. Idle \in Handler /\ Idle.at = "idle"
  BY DEF Idle, Handler, At, TransferState
<1>3. SwitchTypeOK
  BY <1>2, SwitchAssumption DEF SwitchInit, SwitchTypeOK, TxStatus, Asking, Hub
<1>4. \A d \in Deliveries : HandlerOK(d)
  BY <1>2 DEF SwitchInit, HandlerOK
<1>5. \A t \in Transfers : TransferOK(t)
  BY <1>1 DEF SwitchInit, TransferOK, Outcomes
<1>6. QED
  BY <1>3, <1>4, <1>5 DEF Inv, RecordsOK, SwitchInit

LEMMA InitiateInv ==
  ASSUME Inv, NEW t \in Transfers, InitiatePayment(t)
  PROVE  Inv'
<1>1. /\ UNCHANGED <<handler, seen, acked, ledger, mirrored, faults>>
      /\ Posted' = Posted
  BY DEF InitiatePayment, CheckKey, CreateTransaction, StoreKey, ForwardToSwitch, callbacks,
         books, Posted
<1>2. /\ asking' \in [Transfers -> Asking]
      /\ \A u \in Transfers : u # t => asking'[u] = asking[u]
      /\ tx' \in [Transfers -> TxStatus]
      /\ \A u \in Transfers : u # t => tx'[u] = tx[u]
      /\ hub' \in [Transfers -> Hub]
      /\ \A u \in Transfers : u # t => hub'[u] = hub[u]
      /\ keyed' \subseteq {KeyOf[u] : u \in Transfers}
  BY DEF Inv, SwitchTypeOK, InitiatePayment, CheckKey, CreateTransaction, StoreKey,
         ForwardToSwitch, Asking, TxStatus, MojaloopTransferStatus, Hub
<1>3. SwitchTypeOK'
  BY <1>1, <1>2 DEF Inv, SwitchTypeOK
\* The switch has not heard of the transfer, so nobody has settled it.
<1>4. hub[t] = "unsent" /\ tx[t] \notin Outcomes /\ t \notin Posted /\ t \notin acked
  BY DEF Inv, TransferOK, Outcomes, InitiatePayment, CheckKey, CreateTransaction, StoreKey,
         ForwardToSwitch
<1>5. TransferOK(t)'
  BY <1>1, <1>4 DEF Inv, SwitchTypeOK, TransferOK, Outcomes, InitiatePayment, CheckKey,
                    CreateTransaction, StoreKey, ForwardToSwitch
<1>6. ASSUME NEW u \in Transfers, u # t PROVE TransferOK(u)'
  BY <1>1, <1>2, <1>6 DEF Inv, TransferOK
<1>7. ASSUME NEW d \in Deliveries PROVE HandlerOK(d)'
  <2>1. handler[d].at # "idle" => TransferOf[d] # t
    BY <1>4 DEF Inv, HandlerOK, TransferState, Outcomes
  <2>2. QED
    BY <1>1, <1>2, <2>1, AboutFacts DEF HandlerOK, Told
<1>8. RecordsOK'
  <2>1. ASSUME NEW e \in seen PROVE tx'[e[1]] = e[2]
    <3>1. e[1] \in Transfers /\ e[2] \in Outcomes /\ tx[e[1]] = e[2]
      BY DEF Inv, SwitchTypeOK, RecordsOK
    <3>2. QED
      BY <1>2, <1>4, <3>1
  <2>2. QED
    BY <1>1, <2>1 DEF Inv, RecordsOK
<1>9. QED
  BY <1>3, <1>5, <1>6, <1>7, <1>8 DEF Inv

LEMMA SwitchInv ==
  ASSUME Inv, NEW t \in Transfers, SwitchDecides(t)
  PROVE  Inv'
<1>1. /\ UNCHANGED <<tx, keyed, asking, handler, seen, acked, ledger, mirrored, faults>>
      /\ Posted' = Posted
  BY DEF SwitchDecides, asked, callbacks, books, Posted
<1>2. /\ hub' \in [Transfers -> Hub] /\ hub'[t] \in TransferState
      /\ \A u \in Transfers : u # t => hub'[u] = hub[u]
      /\ hub[t] \in {"prepared", "RESERVED"}
  BY DEF Inv, SwitchTypeOK, SwitchDecides, Hub, TransferState, Outcomes
<1>3. SwitchTypeOK'
  BY <1>1, <1>2 DEF Inv, SwitchTypeOK
<1>4. ASSUME NEW u \in Transfers PROVE TransferOK(u)'
  <2>1. CASE u = t
    BY <1>1, <1>2, <2>1 DEF Inv, TransferOK, Outcomes
  <2>2. CASE u # t
    BY <1>1, <1>2, <2>2 DEF Inv, TransferOK
  <2>3. QED
    BY <2>1, <2>2
<1>5. ASSUME NEW d \in Deliveries PROVE HandlerOK(d)'
  <2>1. CASE TransferOf[d] = t
    BY <1>1, <1>2, <2>1 DEF Inv, HandlerOK, Told, Outcomes
  <2>2. CASE TransferOf[d] # t
    BY <1>1, <1>2, <2>2, AboutFacts DEF HandlerOK, Told
  <2>3. QED
    BY <2>1, <2>2
<1>6. QED
  BY <1>1, <1>3, <1>4, <1>5 DEF Inv, RecordsOK

LEMMA ReceiveInv ==
  ASSUME Inv, NEW d \in Deliveries, Receive(d)
  PROVE  Inv'
<1> DEFINE t == TransferOf[d]
<1>1. /\ hub[t] \in TransferState
      /\ UNCHANGED <<tx, asked, hub, seen, books, faults>>
  BY DEF Receive
<1>2. CASE <<t, hub[t]>> \in seen /\ Acknowledge(t, hub[t]) /\ UNCHANGED handler
  <2>1. tx[t] = hub[t]
    BY <1>2 DEF Inv, RecordsOK
  <2>2. /\ acked' \subseteq acked \cup {t}
        /\ acked' # acked => tx[t] \in Outcomes
    BY <1>2, <2>1 DEF Acknowledge
  <2>3. HandlerOK(d)'
    BY <1>1, <1>2 DEF Inv, HandlerOK, Told, books, Posted
  <2>4. handler' \in [Deliveries -> Handler]
    BY <1>2 DEF Inv, SwitchTypeOK
  <2>5. QED
    BY <1>1, <1>2, <2>2, <2>3, <2>4, QuietStep
<1>3. ASSUME NEW withId \in BOOLEAN, UNCHANGED acked,
             handler' = [handler EXCEPT ![d] =
               [at |-> "lookup", says |-> hub[t], withId |-> withId, id |-> 0]]
      PROVE  Inv'
  <2> DEFINE h == [at |-> "lookup", says |-> hub[t], withId |-> withId, id |-> 0]
  <2>1. h \in Handler
    BY <1>1 DEF Handler, At
  <2>2. /\ handler' \in [Deliveries -> Handler]
        /\ handler'[d] = h
        /\ \A e \in Deliveries : e # d => handler'[e] = handler[e]
    BY <1>3, <2>1, HandlerFacts DEF Inv
  <2>3. HandlerOK(d)'
    BY <1>1, <2>2 DEF HandlerOK, Told
  <2>4. QED
    BY <1>1, <1>3, <2>2, <2>3, QuietStep
<1>4. QED
  BY <1>2, <1>3 DEF Receive

\* A handler that ends acknowledges, if at all, what is in the row.
LEMMA FinishInv ==
  ASSUME Inv, NEW d \in Deliveries, Finish(d), UNCHANGED <<tx, asked, hub, seen, books>>,
         Fault \/ UNCHANGED faults,
         acked' \subseteq acked \cup {TransferOf[d]},
         acked' # acked => tx[TransferOf[d]] \in Outcomes
  PROVE  Inv'
<1>1. /\ handler' \in [Deliveries -> Handler]
      /\ handler'[d].at = "idle"
      /\ \A e \in Deliveries : e # d => handler'[e] = handler[e]
  BY FinishFacts DEF Inv
<1>2. HandlerOK(d)'
  BY <1>1 DEF HandlerOK
<1>3. QED
  BY <1>1, <1>2, QuietStep

LEMMA LookUpInv ==
  ASSUME Inv, NEW d \in Deliveries, LookUp(d)
  PROVE  Inv'
<1> DEFINE t == TransferOf[d]
<1>1. /\ handler[d].at = "lookup"
      /\ UNCHANGED <<tx, asked, hub, seen, books, faults>>
  BY DEF LookUp
<1>2. CASE tx[t] = "COMMITTED" /\ Finish(d) /\ Acknowledge(t, "COMMITTED")
  BY <1>1, <1>2, FinishInv DEF Acknowledge, Outcomes
<1>3. CASE Finish(d) /\ UNCHANGED acked
  BY <1>1, <1>3, FinishInv
<1>4. ASSUME NEW a \in {"post", "update"}, GoTo(d, a), UNCHANGED acked,
             a = "post" <=> handler[d].says = "COMMITTED"
      PROVE  Inv'
  <2>1. a \in At
    BY DEF At
  <2>2. /\ handler' \in [Deliveries -> Handler]
        /\ handler'[d].at = a
        /\ handler'[d].says = handler[d].says
        /\ \A e \in Deliveries : e # d => handler'[e] = handler[e]
    BY <1>4, <2>1, GoToFacts DEF Inv
  <2>3. HandlerOK(d)'
    BY <1>1, <1>4, <2>2, AboutFacts DEF HandlerOK, Told
  <2>4. QED
    BY <1>1, <1>4, <2>2, <2>3, QuietStep
<1>5. QED
  BY <1>2, <1>3, <1>4 DEF LookUp

LEMMA PostInv ==
  ASSUME Inv, NEW d \in Deliveries, PostToBridge(d)
  PROVE  Inv'
<1> DEFINE t == TransferOf[d]
<1>1. /\ handler[d].at = "post"
      /\ ledger' = Append(ledger, t)
      /\ UNCHANGED <<tx, keyed, asking, hub, seen, acked, mirrored>>
      /\ Fault \/ UNCHANGED faults
  BY DEF PostToBridge, asked
<1>2. t \in Transfers /\ ledger \in Seq(Transfers) /\ hub[t] = "COMMITTED"
  BY <1>1, AboutFacts DEF Inv, SwitchTypeOK, HandlerOK, Told, Outcomes
<1>3. /\ ledger' \in Seq(Transfers)
      /\ DOMAIN ledger \subseteq DOMAIN ledger'
      /\ \A i \in DOMAIN ledger : ledger'[i] = ledger[i]
      /\ Len(ledger') \in DOMAIN ledger' /\ Len(ledger') \in Nat
      /\ ledger'[Len(ledger')] = t
      /\ Posted' = Posted \cup {t}
  BY <1>1, <1>2, AppendFacts
<1>4. /\ handler' \in [Deliveries -> Handler]
      /\ \A e \in Deliveries : e # d => handler'[e] = handler[e]
      /\ HandlerOK(d)'
  <2>1. CASE handler' = [handler EXCEPT ![d].at = "mirror", ![d].id = Len(ledger')]
    <3> DEFINE h == [handler[d] EXCEPT !.at = "mirror", !.id = Len(ledger')]
    <3>1. handler[d] \in Handler
      BY DEF Inv, SwitchTypeOK
    <3>2. h \in Handler /\ h.at = "mirror" /\ h.says = handler[d].says /\ h.id = Len(ledger')
      BY <1>3, <3>1 DEF Handler, At
    <3>3. handler' = [handler EXCEPT ![d] = h]
      BY <2>1, <3>1 DEF Inv, SwitchTypeOK
    <3> HIDE DEF h
    <3>4. /\ handler' \in [Deliveries -> Handler]
          /\ handler'[d] = h
          /\ \A e \in Deliveries : e # d => handler'[e] = handler[e]
      BY <3>2, <3>3, HandlerFacts DEF Inv
    <3>5. HandlerOK(d)'
      BY <1>1, <1>3, <3>2, <3>4, AboutFacts DEF HandlerOK, Told
    <3>6. QED
      BY <3>4, <3>5
  <2>2. CASE UNCHANGED handler
    <3>1. HandlerOK(d)'
      BY <1>1, <2>2, AboutFacts DEF HandlerOK, Told
    <3>2. QED
      BY <2>2, <3>1 DEF Inv, SwitchTypeOK
  <2>3. QED
    BY <2>1, <2>2 DEF PostToBridge
<1>5. SwitchTypeOK'
  BY <1>1, <1>3, <1>4, FaultFacts DEF Inv, SwitchTypeOK
<1>6. ASSUME NEW u \in Transfers PROVE TransferOK(u)'
  BY <1>1, <1>2, <1>3 DEF Inv, TransferOK
<1>7. ASSUME NEW e \in Deliveries, e # d PROVE HandlerOK(e)'
  BY <1>1, <1>3, <1>4, <1>7 DEF Inv, HandlerOK, Told
<1>8. RecordsOK'
  BY <1>1, <1>3 DEF Inv, RecordsOK
<1>9. QED
  BY <1>4, <1>5, <1>6, <1>7, <1>8 DEF Inv

LEMMA MirrorInv ==
  ASSUME Inv, NEW d \in Deliveries, MirrorEntry(d)
  PROVE  Inv'
<1> DEFINE t == TransferOf[d]
           new == [id |-> handler[d].id, transfer |-> t]
<1>1. /\ handler[d].at = "mirror" /\ GoTo(d, "update")
      /\ UNCHANGED <<tx, keyed, asking, hub, seen, acked, ledger>>
      /\ Fault \/ UNCHANGED faults
      /\ mirrored' \subseteq mirrored \cup {new}
      /\ Posted' = Posted
  BY DEF MirrorEntry, asked, Posted
<1>2. /\ handler[d].id \in DOMAIN ledger /\ ledger[handler[d].id] = t
      /\ handler[d] \in Handler /\ t \in Transfers /\ t \in Posted
  BY <1>1, AboutFacts, PostedFacts DEF Inv, SwitchTypeOK, HandlerOK
<1>3. new \in Entry /\ new.id = handler[d].id /\ new.transfer = t
  BY <1>2 DEF Entry, Handler
<1>4. /\ handler' \in [Deliveries -> Handler]
      /\ handler'[d].at = "update"
      /\ handler'[d].says = handler[d].says
      /\ \A e \in Deliveries : e # d => handler'[e] = handler[e]
  BY <1>1, GoToFacts DEF Inv, At
<1>5. SwitchTypeOK'
  BY <1>1, <1>3, <1>4, FaultFacts DEF Inv, SwitchTypeOK
<1>6. ASSUME NEW u \in Transfers PROVE TransferOK(u)'
  BY <1>1 DEF Inv, TransferOK
<1>7. HandlerOK(d)'
  BY <1>1, <1>2, <1>4, AboutFacts DEF HandlerOK, Told
<1>8. ASSUME NEW e \in Deliveries, e # d PROVE HandlerOK(e)'
  BY <1>1, <1>4, <1>8 DEF Inv, HandlerOK, Told
<1>9. RecordsOK'
  <2> HIDE DEF new
  <2>1. QED
    BY <1>1, <1>2, <1>3 DEF Inv, RecordsOK
<1>10. QED
  BY <1>5, <1>6, <1>7, <1>8, <1>9 DEF Inv

\* The row becomes what the switch decided, or the column refuses.
LEMMA UpdateInv ==
  ASSUME Inv, NEW d \in Deliveries, UpdateTransaction(d)
  PROVE  Inv'
<1> DEFINE t == TransferOf[d]
           says == handler[d].says
<1>1. /\ handler[d].at = "update"
      /\ UNCHANGED <<keyed, asking, hub, seen, acked, ledger, mirrored, faults>>
      /\ Posted' = Posted
  BY DEF UpdateTransaction, asked, books, Posted
<1>2. CASE Finish(d) /\ UNCHANGED tx
  BY <1>1, <1>2, FinishInv DEF asked, books
<1>3. CASE /\ says \in MojaloopTransferStatus
           /\ tx' = [tx EXCEPT ![t] = says] /\ GoTo(d, "record")
  <2>1. t \in Transfers /\ handler[d] \in Handler
    BY AboutFacts DEF Inv, SwitchTypeOK
  <2>2. says \in Outcomes /\ hub[t] = says
    BY <1>1, <1>3, <2>1, AboutFacts
       DEF HandlerOK, Told, Handler, TransferState, Outcomes, MojaloopTransferStatus
  <2>3. /\ tx' \in [Transfers -> TxStatus]
        /\ tx'[t] = says
        /\ \A u \in Transfers : u # t => tx'[u] = tx[u]
    BY <1>3, <2>1 DEF Inv, SwitchTypeOK, TxStatus
  <2>4. /\ handler' \in [Deliveries -> Handler]
        /\ handler'[d].at = "record"
        /\ handler'[d].says = says
        /\ \A e \in Deliveries : e # d => handler'[e] = handler[e]
    BY <1>3, GoToFacts DEF Inv, At
  <2>5. SwitchTypeOK'
    BY <1>1, <2>3, <2>4 DEF Inv, SwitchTypeOK
  <2>6. says = "COMMITTED" => t \in Posted
    BY <1>1, AboutFacts DEF HandlerOK
  <2>7. tx[t] # "none" /\ (tx[t] \in Outcomes => tx[t] = says)
    BY <2>1, <2>2 DEF Inv, TransferOK, Outcomes
  <2>8. ASSUME NEW u \in Transfers PROVE TransferOK(u)'
    <3>1. CASE u = t
      BY <1>1, <2>2, <2>3, <2>6, <2>7, <3>1 DEF Inv, TransferOK, Outcomes
    <3>2. CASE u # t
      BY <1>1, <2>3, <3>2 DEF Inv, TransferOK
    <3>3. QED
      BY <3>1, <3>2
  <2>9. HandlerOK(d)'
    BY <1>1, <2>2, <2>3, <2>4, <2>6 DEF HandlerOK, Told, TransferState
  <2>10. ASSUME NEW e \in Deliveries, e # d PROVE HandlerOK(e)'
    <3>1. TransferOf[e] \in Transfers /\ HandlerOK(e)
      BY AboutFacts
    <3>2. tx[TransferOf[e]] \in Outcomes => tx'[TransferOf[e]] = tx[TransferOf[e]]
      BY <2>3, <2>7, <3>1
    <3>3. QED
      BY <1>1, <2>4, <2>10, <3>1, <3>2 DEF HandlerOK, Told
  <2>11. RecordsOK'
    <3>1. ASSUME NEW e \in seen PROVE tx'[e[1]] = e[2]
      <4>1. e[1] \in Transfers /\ e[2] \in Outcomes /\ tx[e[1]] = e[2]
        BY DEF Inv, SwitchTypeOK, RecordsOK
      <4>2. QED
        BY <2>3, <2>7, <4>1
    <3>2. QED
      BY <1>1, <3>1 DEF Inv, RecordsOK
  <2>12. QED
    BY <2>5, <2>8, <2>9, <2>10, <2>11 DEF Inv
<1>4. QED
  BY <1>2, <1>3 DEF UpdateTransaction

LEMMA RecordInv ==
  ASSUME Inv, NEW d \in Deliveries, RecordEvent(d)
  PROVE  Inv'
<1> DEFINE t == TransferOf[d]
           says == handler[d].says
<1>1. /\ handler[d].at = "record" /\ Finish(d)
      /\ UNCHANGED <<tx, keyed, asking, hub, ledger, mirrored, faults>>
      /\ seen' \subseteq seen \cup {<<t, says>>}
      /\ acked' \subseteq acked \cup {t}
      /\ Posted' = Posted
  BY DEF RecordEvent, Acknowledge, asked, books, Posted
<1>2. t \in Transfers /\ says \in Outcomes /\ tx[t] = says
  BY <1>1, AboutFacts DEF HandlerOK
<1>3. /\ handler' \in [Deliveries -> Handler]
      /\ handler'[d].at = "idle"
      /\ \A e \in Deliveries : e # d => handler'[e] = handler[e]
  BY <1>1, FinishFacts DEF Inv
<1>4. SwitchTypeOK'
  BY <1>1, <1>2, <1>3 DEF Inv, SwitchTypeOK
<1>5. ASSUME NEW u \in Transfers PROVE TransferOK(u)'
  BY <1>1, <1>2 DEF Inv, TransferOK
<1>6. HandlerOK(d)'
  BY <1>3 DEF HandlerOK
<1>7. ASSUME NEW e \in Deliveries, e # d PROVE HandlerOK(e)'
  BY <1>1, <1>3, <1>7 DEF Inv, HandlerOK, Told
<1>8. RecordsOK'
  BY <1>1, <1>2 DEF Inv, RecordsOK
<1>9. QED
  BY <1>4, <1>5, <1>6, <1>7, <1>8 DEF Inv

LEMMA StopInv ==
  ASSUME Inv, NEW d \in Deliveries, Stop(d)
  PROVE  Inv'
  BY FinishInv DEF Stop

LEMMA NextInv == Inv /\ [SwitchNext]_switchVars => Inv'
<1> SUFFICES ASSUME Inv, [SwitchNext]_switchVars PROVE Inv'
  OBVIOUS
<1>1. ASSUME NEW t \in Transfers, InitiatePayment(t) \/ SwitchDecides(t) PROVE Inv'
  BY <1>1, InitiateInv, SwitchInv
<1>2. ASSUME NEW d \in Deliveries, Receive(d) \/ Proceed(d) \/ Stop(d) PROVE Inv'
  BY <1>2, ReceiveInv, LookUpInv, PostInv, MirrorInv, UpdateInv, RecordInv, StopInv DEF Proceed
<1>3. CASE UNCHANGED switchVars
  BY <1>3 DEF switchVars, asked, callbacks, books, Inv, SwitchTypeOK, TransferOK, HandlerOK,
              Told, RecordsOK, Posted
<1>4. QED
  BY <1>1, <1>2, <1>3 DEF SwitchNext

LEMMA Always == SwitchSpec => []Inv
<1>1. SwitchInit => Inv
  BY InitInv
<1>2. Inv /\ [SwitchNext]_switchVars => Inv'
  BY NextInv
<1>3. QED
  BY <1>1, <1>2, PTL DEF SwitchSpec

-----------------------------------------------------------------------------
(* The theorems.                                                           *)

\* Every reachable state is well typed: the column of the status never holds a
\* word that is not of its type.
THEOREM TypeCorrect == SwitchSpec => []SwitchTypeOK
<1>1. Inv => SwitchTypeOK
  BY DEF Inv
<1>2. QED
  BY <1>1, Always, PTL

\* Rows, bridge, mirror, event ids and answers agree with what the switch
\* decided, however many deliveries overlap and whatever fails.
THEOREM SettlementsBacked == SwitchSpec => []SettlementIsBacked
<1>1. ASSUME Inv PROVE SettlementIsBacked
  <2>1. ASSUME NEW e \in mirrored PROVE hub[e.transfer] = "COMMITTED"
    <3>1. e.transfer \in Transfers /\ e.transfer \in Posted
      BY <1>1, PostedFacts DEF Inv, SwitchTypeOK, RecordsOK, Entry
    <3>2. QED
      BY <1>1, <3>1 DEF Inv, TransferOK
  <2>2. \A t \in Transfers : tx[t] = "COMMITTED" => \E i \in DOMAIN ledger : ledger[i] = t
    BY <1>1 DEF Inv, TransferOK, Posted
  <2>3. QED
    BY <1>1, <2>1, <2>2 DEF Inv, TransferOK, RecordsOK, SettlementIsBacked
<1>2. Inv => SettlementIsBacked
  BY <1>1
<1>3. QED
  BY <1>2, Always, PTL

LEMMA SettlementInitial == SwitchInit => Settlement!SettlementInit
  BY DEF SwitchInit, Settlement!SettlementInit, Posted

\* What each step of the router is to the reader of its rows.
LEMMA SettlementStep ==
  ASSUME Inv, SwitchNext
  PROVE  [Settlement!SettlementNext]_(Settlement!settlementVars)
<1>1. ASSUME NEW t \in Transfers, CreateTransaction(t)
      PROVE  Settlement!SettlementNext
  <2>1. tx[t] = "none" /\ Posted' = Posted
    BY <1>1 DEF Inv, TransferOK, CreateTransaction, books, Posted
  <2>2. Settlement!Create(t)
    BY <1>1, <2>1 DEF CreateTransaction, Settlement!Create
  <2>3. QED
    BY <2>2 DEF Settlement!SettlementNext
<1>2. ASSUME NEW d \in Deliveries, PostToBridge(d)
      PROVE  [Settlement!SettlementNext]_(Settlement!settlementVars)
  <2> DEFINE t == TransferOf[d]
  <2>1. t \in Transfers /\ hub[t] = "COMMITTED" /\ TransferOK(t)
    BY <1>2, AboutFacts DEF PostToBridge, HandlerOK, Told, Outcomes
  <2>2. Posted' = Posted \cup {t} /\ UNCHANGED tx
    BY <1>2, <2>1, AppendFacts DEF Inv, SwitchTypeOK, PostToBridge
  <2>3. tx[t] = "PENDING" \/ t \in Posted
    BY <2>1 DEF Inv, SwitchTypeOK, TransferOK, Asking, Outcomes
  <2>4. CASE tx[t] = "PENDING"
    BY <2>1, <2>2, <2>4 DEF Settlement!SettlementNext, Settlement!Post
  <2>5. CASE t \in Posted
    BY <2>2, <2>5 DEF Settlement!settlementVars
  <2>6. QED
    BY <2>3, <2>4, <2>5
<1>3. ASSUME NEW d \in Deliveries, UpdateTransaction(d)
      PROVE  [Settlement!SettlementNext]_(Settlement!settlementVars)
  <2> DEFINE t == TransferOf[d]
             says == handler[d].says
  <2>1. handler[d].at = "update" /\ Posted' = Posted
    BY <1>3 DEF UpdateTransaction, books, Posted
  <2>2. t \in Transfers /\ handler[d] \in Handler /\ TransferOK(t) /\ HandlerOK(d)
    BY AboutFacts DEF Inv, SwitchTypeOK
  <2>3. CASE UNCHANGED tx
    BY <2>1, <2>3 DEF Settlement!settlementVars
  <2>4. CASE says \in MojaloopTransferStatus /\ tx' = [tx EXCEPT ![t] = says]
    <3>1. says \in Outcomes /\ hub[t] = says
      BY <2>1, <2>2, <2>4
         DEF HandlerOK, Told, Handler, TransferState, Outcomes, MojaloopTransferStatus
    <3>2. tx[t] = "PENDING" \/ tx[t] = says
      BY <2>2, <3>1 DEF Inv, SwitchTypeOK, TransferOK, Asking, Outcomes
    <3>3. CASE tx[t] = says
      <4>1. UNCHANGED tx
        BY <2>2, <2>4, <3>3 DEF Inv, SwitchTypeOK
      <4>2. QED
        BY <4>1, <2>3
    <3>4. CASE tx[t] = "PENDING" /\ says = "COMMITTED"
      <4>1. t \in Posted
        BY <2>1, <2>2, <3>4 DEF HandlerOK
      <4>2. Settlement!Commit(t)
        BY <2>1, <2>4, <3>4, <4>1 DEF Settlement!Commit
      <4>3. QED
        BY <2>2, <4>2 DEF Settlement!SettlementNext
    <3>5. CASE tx[t] = "PENDING" /\ says = "ABORTED"
      <4>1. t \notin Posted
        BY <2>2, <3>1, <3>5 DEF TransferOK
      <4>2. Settlement!Abort(t)
        BY <2>1, <2>4, <3>5, <4>1 DEF Settlement!Abort
      <4>3. QED
        BY <2>2, <4>2 DEF Settlement!SettlementNext
    <3>6. QED
      BY <3>1, <3>2, <3>3, <3>4, <3>5 DEF Outcomes
  <2>5. QED
    BY <1>3, <2>3, <2>4 DEF UpdateTransaction
<1>4. CASE UNCHANGED <<tx, ledger>>
  BY <1>4 DEF Settlement!settlementVars, Posted
<1>5. ASSUME NEW t \in Transfers, InitiatePayment(t) \/ SwitchDecides(t)
      PROVE  CreateTransaction(t) \/ UNCHANGED <<tx, ledger>>
  BY <1>5 DEF InitiatePayment, CheckKey, StoreKey, ForwardToSwitch, SwitchDecides, books
<1>6. ASSUME NEW d \in Deliveries, Receive(d) \/ Proceed(d) \/ Stop(d)
      PROVE  PostToBridge(d) \/ UpdateTransaction(d) \/ UNCHANGED <<tx, ledger>>
  BY <1>6 DEF Receive, Proceed, LookUp, MirrorEntry, RecordEvent, Stop, books
<1>7. QED
  BY <1>1, <1>2, <1>3, <1>4, <1>5, <1>6 DEF SwitchNext

\* Whoever reads the rows may take them for SwitchSettlement: settled once,
\* after the bridge, for good.
THEOREM SettlementRefined == SwitchSpec => ImplementsSettlement
<1>1. SwitchInit => Settlement!SettlementInit
  BY SettlementInitial
<1>2. Inv /\ [SwitchNext]_switchVars => [Settlement!SettlementNext]_(Settlement!settlementVars)
  <2>1. UNCHANGED switchVars => UNCHANGED Settlement!settlementVars
    BY DEF switchVars, books, Settlement!settlementVars, Posted
  <2>2. QED
    BY <2>1, SettlementStep
<1>3. QED
  BY <1>1, <1>2, Always, PTL DEF SwitchSpec, ImplementsSettlement, Settlement!SettlementSpec

-----------------------------------------------------------------------------
(* How often the bridge may hold a transfer: each entry is charged to a    *)
(* fault, or to a handler that cannot post again.                          *)

\* The handler has posted for a row that is not COMMITTED yet, or will never
\* post because it is.
Spent(d) ==
  IF tx[TransferOf[d]] = "COMMITTED"
    THEN handler[d].at # "post"
    ELSE handler[d].at \in {"mirror", "update"} /\ handler[d].says = "COMMITTED"

Charged(t) == {d \in Deliveries : TransferOf[d] = t /\ Spent(d)}

Accounted(t) == Cardinality(EntriesOf(t)) <= Cardinality(Charged(t)) + faults

AccountInv == \A t \in Transfers : Accounted(t)

LEMMA Sums ==
  ASSUME NEW e \in Nat, NEW e1 \in Nat, NEW c \in Nat, NEW c1 \in Nat,
         NEW f \in Nat, NEW f1 \in Nat, e <= c + f,
         \/ e1 = e /\ c <= c1 /\ f1 >= f
         \/ e1 = e /\ c <= c1 + 1 /\ f1 = f + 1
         \/ e1 <= e + 1 /\ c + 1 <= c1 /\ f1 = f
         \/ e1 <= e + 1 /\ c <= c1 /\ f1 = f + 1
  PROVE  e1 <= c1 + f1
  OBVIOUS

\* How adding and removing an element changes a cardinality.
LEMMA Added ==
  ASSUME NEW S, NEW x, IsFiniteSet(S)
  PROVE  /\ Cardinality(S) \in Nat /\ Cardinality(S \cup {x}) \in Nat
         /\ Cardinality(S \cup {x}) <= Cardinality(S) + 1
         /\ x \notin S => Cardinality(S \cup {x}) = Cardinality(S) + 1
<1>1. Cardinality(S) \in Nat /\ IsFiniteSet(S \cup {x})
  BY FS_CardinalityType, FS_AddElement
<1>2. Cardinality(S \cup {x}) \in Nat
  BY <1>1, FS_CardinalityType
<1>3. CASE x \in S
  <2>1. S \cup {x} = S
    BY <1>3
  <2>2. QED
    BY <1>1, <1>3, <2>1
<1>4. CASE x \notin S
  <2>1. Cardinality(S \cup {x}) = Cardinality(S) + 1
    BY <1>4, FS_AddElement
  <2>2. QED
    BY <1>1, <1>2, <2>1
<1>5. QED
  BY <1>3, <1>4

\* Entries on one side, charges and faults on the other: four ways to keep the
\* account.
LEMMA Balance ==
  ASSUME NEW E, NEW E1, NEW C, NEW C1, NEW n, NEW d, NEW f \in Nat, NEW f1 \in Nat,
         IsFiniteSet(E), IsFiniteSet(C), IsFiniteSet(C1),
         Cardinality(E) <= Cardinality(C) + f,
         \/ E1 = E /\ C \subseteq C1 /\ f1 >= f
         \/ E1 = E /\ C \ {d} \subseteq C1 /\ f1 = f + 1
         \/ E1 = E \cup {n} /\ C \cup {d} \subseteq C1 /\ d \notin C /\ f1 = f
         \/ E1 = E \cup {n} /\ C \subseteq C1 /\ f1 = f + 1
  PROVE  Cardinality(E1) <= Cardinality(C1) + f1
<1>1. Cardinality(E) \in Nat /\ Cardinality(C) \in Nat /\ Cardinality(C1) \in Nat
  BY FS_CardinalityType
<1>2. /\ Cardinality(E \cup {n}) \in Nat
      /\ Cardinality(E \cup {n}) <= Cardinality(E) + 1
  BY Added
<1>3. C \subseteq C1 => Cardinality(C) <= Cardinality(C1)
  BY FS_Subset
<1>4. C \ {d} \subseteq C1 => Cardinality(C) <= Cardinality(C1) + 1
  <2> SUFFICES ASSUME C \ {d} \subseteq C1 PROVE Cardinality(C) <= Cardinality(C1) + 1
    OBVIOUS
  <2>1. IsFiniteSet(C1 \cup {d}) /\ C \subseteq C1 \cup {d}
    BY FS_AddElement
  <2>2. Cardinality(C) <= Cardinality(C1 \cup {d})
    BY <2>1, FS_Subset
  <2>3. /\ Cardinality(C1 \cup {d}) \in Nat
        /\ Cardinality(C1 \cup {d}) <= Cardinality(C1) + 1
    BY Added
  <2>4. QED
    BY <1>1, <2>2, <2>3
<1>5. C \cup {d} \subseteq C1 /\ d \notin C => Cardinality(C) + 1 <= Cardinality(C1)
  <2>1. d \notin C => Cardinality(C \cup {d}) = Cardinality(C) + 1
    BY Added
  <2>2. C \cup {d} \subseteq C1 => Cardinality(C \cup {d}) <= Cardinality(C1)
    BY FS_Subset
  <2>3. QED
    BY <2>1, <2>2
<1>6. CASE E1 = E
  <2>1. CASE C \subseteq C1 /\ f1 >= f
    BY <1>1, <1>3, <1>6, <2>1, Sums
  <2>2. CASE C \ {d} \subseteq C1 /\ f1 = f + 1
    BY <1>1, <1>4, <1>6, <2>2, Sums
  <2>3. CASE E = E \cup {n} /\ C \cup {d} \subseteq C1 /\ d \notin C /\ f1 = f
    BY <1>1, <1>2, <1>5, <1>6, <2>3, Sums
  <2>4. CASE E = E \cup {n} /\ C \subseteq C1 /\ f1 = f + 1
    BY <1>1, <1>2, <1>3, <1>6, <2>4, Sums
  <2>5. QED
    BY <1>6, <2>1, <2>2, <2>3, <2>4
<1>7. CASE E1 = E \cup {n} /\ C \cup {d} \subseteq C1 /\ d \notin C /\ f1 = f
  BY <1>1, <1>2, <1>5, <1>7, Sums
<1>8. CASE E1 = E \cup {n} /\ C \subseteq C1 /\ f1 = f + 1
  BY <1>1, <1>2, <1>3, <1>8, Sums
<1>9. QED
  BY <1>6, <1>7, <1>8

LEMMA AccountFinite ==
  ASSUME IsFiniteSet(Deliveries), ledger \in Seq(Transfers), NEW t \in Transfers
  PROVE  IsFiniteSet(EntriesOf(t)) /\ IsFiniteSet(Charged(t))
<1>1. DOMAIN ledger = 1..Len(ledger) /\ Len(ledger) \in Nat
  BY LenProperties
<1>2. IsFiniteSet(1..Len(ledger))
  BY <1>1, FS_Interval
<1>3. EntriesOf(t) \subseteq 1..Len(ledger) /\ Charged(t) \subseteq Deliveries
  BY <1>1 DEF EntriesOf, Charged
<1>4. QED
  BY <1>2, <1>3, FS_Subset

\* One step keeps the account of a transfer, if it does one of the four things
\* to it.
LEMMA AccountStep ==
  ASSUME IsFiniteSet(Deliveries), Inv, Inv', NEW t \in Transfers, Accounted(t),
         NEW n, NEW d,
         \/ EntriesOf(t)' = EntriesOf(t) /\ Charged(t) \subseteq Charged(t)' /\ faults' >= faults
         \/ EntriesOf(t)' = EntriesOf(t) /\ Charged(t) \ {d} \subseteq Charged(t)'
              /\ faults' = faults + 1
         \/ /\ EntriesOf(t)' = EntriesOf(t) \cup {n}
            /\ Charged(t) \cup {d} \subseteq Charged(t)' /\ d \notin Charged(t)
            /\ faults' = faults
         \/ EntriesOf(t)' = EntriesOf(t) \cup {n} /\ Charged(t) \subseteq Charged(t)'
              /\ faults' = faults + 1
  PROVE  Accounted(t)'
<1>1. faults \in Nat /\ faults' \in Nat
  BY SwitchAssumption DEF Inv, SwitchTypeOK
<1>2. IsFiniteSet(EntriesOf(t)) /\ IsFiniteSet(Charged(t))
  BY AccountFinite DEF Inv, SwitchTypeOK
<1>3. IsFiniteSet(Charged(t)')
  <2>1. Charged(t)' \subseteq Deliveries
    BY DEF Charged
  <2>2. QED
    BY <2>1, FS_Subset
<1>4. Cardinality(EntriesOf(t)) <= Cardinality(Charged(t)) + faults
  BY DEF Accounted
<1>5. Cardinality(EntriesOf(t)') <= Cardinality(Charged(t)') + faults'
  BY <1>1, <1>2, <1>3, <1>4, Balance
<1>6. QED
  BY <1>5 DEF Accounted

\* A row that is COMMITTED stays so: a step of the refined settlement.
LEMMA CommittedStays ==
  ASSUME Inv, SwitchNext, NEW t \in Transfers, tx[t] = "COMMITTED"
  PROVE  tx'[t] = "COMMITTED"
<1>1. CASE Settlement!SettlementNext
  BY <1>1 DEF Inv, SwitchTypeOK, Settlement!SettlementNext, Settlement!Create, Settlement!Post,
              Settlement!Commit, Settlement!Abort
<1>2. CASE UNCHANGED Settlement!settlementVars
  BY <1>2 DEF Settlement!settlementVars
<1>3. QED
  BY <1>1, <1>2, SettlementStep

\* A handler that takes no step stays spent.
LEMMA SpentStays ==
  ASSUME Inv, SwitchNext, NEW e \in Deliveries, handler'[e] = handler[e], Spent(e)
  PROVE  Spent(e)'
<1>1. TransferOf[e] \in Transfers
  BY SwitchAssumption
<1>2. tx[TransferOf[e]] = "COMMITTED" => tx'[TransferOf[e]] = "COMMITTED"
  BY <1>1, CommittedStays
<1>3. QED
  BY <1>2 DEF Spent

\* A step of a handler other than a post: what it had posted stays charged to
\* it, unless it stops at the price of a fault.
LEMMA HandlerSpent ==
  ASSUME Inv, SwitchNext, NEW d \in Deliveries, Spent(d),
         \/ Receive(d) \/ LookUp(d) \/ MirrorEntry(d) \/ UpdateTransaction(d) \/ RecordEvent(d)
  PROVE  Spent(d)'
<1> DEFINE t == TransferOf[d]
<1>1. /\ t \in Transfers /\ TransferOK(t) /\ HandlerOK(d) /\ SwitchTypeOK
      /\ handler[d] \in Handler
  BY AboutFacts DEF Inv, SwitchTypeOK
<1>2. tx[t] = "COMMITTED" => tx'[t] = "COMMITTED"
  BY <1>1, CommittedStays
<1>3. CASE Receive(d)
  <2>1. handler[d].at = "idle" /\ tx[t] = "COMMITTED"
    BY <1>3 DEF Receive, Spent
  <2>2. handler'[d].at \in {"idle", "lookup"}
    BY <1>1, <1>3, <2>1 DEF Receive, SwitchTypeOK
  <2>3. QED
    BY <1>2, <2>1, <2>2 DEF Spent
<1>4. CASE LookUp(d)
  <2>1. handler[d].at = "lookup" /\ tx[t] = "COMMITTED"
    BY <1>4 DEF LookUp, Spent
  <2>2. Finish(d)
    BY <1>4, <2>1 DEF LookUp
  <2>3. handler'[d].at = "idle"
    BY <1>1, <2>2, FinishFacts
  <2>4. QED
    BY <1>2, <2>1, <2>3 DEF Spent
<1>5. CASE MirrorEntry(d)
  <2>1. handler[d].at = "mirror" /\ GoTo(d, "update") /\ "update" \in At
    BY <1>5 DEF MirrorEntry, At
  <2>2. handler'[d].at = "update" /\ handler'[d].says = handler[d].says
    BY <1>1, <2>1, GoToFacts
  <2>3. handler[d].says = "COMMITTED"
    BY <1>1, <2>1 DEF HandlerOK
  <2>4. QED
    BY <2>2, <2>3 DEF Spent
<1>6. CASE UpdateTransaction(d)
  <2>1. handler[d].at = "update"
    BY <1>6 DEF UpdateTransaction
  <2>2. handler'[d].at \in {"record", "idle"}
    BY <1>1, <1>6, FinishFacts, GoToFacts DEF UpdateTransaction, At
  <2>3. tx'[t] = "COMMITTED"
    <3>1. CASE tx[t] = "COMMITTED"
      BY <1>2, <3>1
    <3>2. CASE tx[t] # "COMMITTED"
      <4>1. handler[d].says = "COMMITTED"
        BY <3>2 DEF Spent
      <4>2. QED
        BY <1>1, <1>6, <4>1 DEF UpdateTransaction, MojaloopTransferStatus, SwitchTypeOK
    <3>3. QED
      BY <3>1, <3>2
  <2>4. QED
    BY <2>2, <2>3 DEF Spent
<1>7. CASE RecordEvent(d)
  <2>1. handler[d].at = "record" /\ Finish(d)
    BY <1>7 DEF RecordEvent
  <2>2. handler'[d].at = "idle" /\ tx[t] = "COMMITTED"
    BY <1>1, <2>1, FinishFacts DEF Spent
  <2>3. QED
    BY <1>2, <2>2 DEF Spent
<1>8. QED
  BY <1>3, <1>4, <1>5, <1>6, <1>7

LEMMA AccountNext ==
  ASSUME IsFiniteSet(Deliveries), Inv, Inv', AccountInv, SwitchNext
  PROVE  AccountInv'
<1> SUFFICES ASSUME NEW t \in Transfers PROVE Accounted(t)'
  BY DEF AccountInv
<1>1. Accounted(t) /\ faults \in Nat
  BY SwitchAssumption DEF AccountInv, Inv, SwitchTypeOK
<1>2. ASSUME UNCHANGED <<ledger, faults>>, \A e \in Deliveries : Spent(e) => Spent(e)'
      PROVE  Accounted(t)'
  <2>1. EntriesOf(t)' = EntriesOf(t) /\ Charged(t) \subseteq Charged(t)' /\ faults' >= faults
    BY <1>1, <1>2 DEF EntriesOf, Charged
  <2>2. QED
    BY <1>1, <2>1, AccountStep
<1>3. ASSUME NEW u \in Transfers, InitiatePayment(u) \/ SwitchDecides(u)
      PROVE  Accounted(t)'
  <2>1. UNCHANGED <<handler, ledger, faults>>
    BY <1>3 DEF InitiatePayment, CheckKey, CreateTransaction, StoreKey, ForwardToSwitch,
                SwitchDecides, callbacks, books
  <2>2. QED
    BY <1>2, <2>1, SpentStays
<1>4. ASSUME NEW d \in Deliveries,
             \/ Receive(d) \/ LookUp(d) \/ MirrorEntry(d) \/ UpdateTransaction(d) \/ RecordEvent(d)
      PROVE  Accounted(t)'
  <2>1. /\ UNCHANGED ledger
        /\ Fault \/ UNCHANGED faults
        /\ \A e \in Deliveries : e # d => handler'[e] = handler[e]
    BY <1>4, FinishFacts, GoToFacts
       DEF Receive, LookUp, MirrorEntry, UpdateTransaction, RecordEvent, books, At, Inv,
           SwitchTypeOK
  <2>2. \A e \in Deliveries : Spent(e) => Spent(e)'
    BY <1>4, <2>1, SpentStays, HandlerSpent
  <2>3. faults' >= faults
    BY <1>1, <2>1 DEF Fault
  <2>4. EntriesOf(t)' = EntriesOf(t) /\ Charged(t) \subseteq Charged(t)'
    BY <2>1, <2>2 DEF EntriesOf, Charged
  <2>5. QED
    BY <1>1, <2>3, <2>4, AccountStep
<1>5. ASSUME NEW d \in Deliveries, Stop(d)
      PROVE  Accounted(t)'
  <2>1. UNCHANGED ledger /\ faults' = faults + 1 /\ Finish(d)
    BY <1>5 DEF Stop, books, Fault
  <2>2. \A e \in Deliveries : e # d => handler'[e] = handler[e]
    BY <2>1, FinishFacts DEF Inv
  <2>3. EntriesOf(t)' = EntriesOf(t) /\ Charged(t) \ {d} \subseteq Charged(t)'
    BY <2>1, <2>2, SpentStays DEF EntriesOf, Charged
  <2>4. QED
    BY <1>1, <2>1, <2>3, AccountStep
<1>6. ASSUME NEW d \in Deliveries, PostToBridge(d)
      PROVE  Accounted(t)'
  <2> DEFINE n == Len(ledger')
  <2>1. /\ TransferOf[d] \in Transfers /\ ledger' = Append(ledger, TransferOf[d])
        /\ handler[d].at = "post" /\ handler[d].says = "COMMITTED" /\ ~Spent(d)
        /\ handler[d] \in Handler
    BY <1>6, AboutFacts DEF PostToBridge, HandlerOK, Spent, Inv, SwitchTypeOK
  <2>2. /\ DOMAIN ledger' = DOMAIN ledger \cup {n}
        /\ \A i \in DOMAIN ledger : ledger'[i] = ledger[i]
        /\ ledger'[n] = TransferOf[d]
    <3>1. /\ Len(ledger) \in Nat /\ Len(ledger') = Len(ledger) + 1
          /\ DOMAIN ledger = 1..Len(ledger) /\ DOMAIN ledger' = 1..Len(ledger')
          /\ \A i \in 1..Len(ledger) : ledger'[i] = ledger[i]
          /\ ledger'[n] = TransferOf[d]
      BY <2>1, AppendProperties, LenProperties DEF Inv, SwitchTypeOK
    <3>2. QED
      BY <3>1
  <2>3. \A e \in Deliveries : e # d => handler'[e] = handler[e]
    BY <1>6 DEF PostToBridge, Inv, SwitchTypeOK
  <2>4. Charged(t) \subseteq Charged(t)' /\ d \notin Charged(t)
    BY <2>1, <2>3, SpentStays DEF Charged
  <2>5. CASE t # TransferOf[d]
    <3>1. EntriesOf(t)' = EntriesOf(t)
      BY <2>1, <2>2, <2>5 DEF EntriesOf
    <3>2. faults' >= faults
      BY <1>1, <1>6 DEF PostToBridge, Fault
    <3>3. QED
      BY <1>1, <2>4, <3>1, <3>2, AccountStep
  <2>6. CASE t = TransferOf[d]
    <3>1. EntriesOf(t)' = EntriesOf(t) \cup {n}
      BY <2>2, <2>6 DEF EntriesOf
    <3>2. CASE /\ handler' = [handler EXCEPT ![d].at = "mirror", ![d].id = Len(ledger')]
               /\ UNCHANGED faults
      <4>1. handler'[d].at = "mirror" /\ handler'[d].says = "COMMITTED"
        BY <2>1, <3>2 DEF Inv, SwitchTypeOK, Handler
      <4>2. Spent(d)'
        BY <4>1 DEF Spent
      <4>3. Charged(t) \cup {d} \subseteq Charged(t)'
        BY <2>4, <2>6, <4>2 DEF Charged
      <4>4. QED
        BY <1>1, <2>4, <3>1, <3>2, <4>3, AccountStep
    <3>3. CASE Fault
      <4>1. faults' = faults + 1
        BY <3>3 DEF Fault
      <4>2. QED
        BY <1>1, <2>4, <3>1, <4>1, AccountStep
    <3>4. QED
      BY <1>6, <3>2, <3>3 DEF PostToBridge
  <2>7. QED
    BY <2>5, <2>6
<1>7. QED
  BY <1>3, <1>4, <1>5, <1>6 DEF SwitchNext, Proceed

\* The bridge has a transfer no more often than callbacks about it can overlap
\* and faults happen, however often the switch delivers: replays alone mint
\* nothing once the row is COMMITTED.
THEOREM EntriesAccounted ==
  ASSUME IsFiniteSet(Deliveries)
  PROVE  SwitchSpec => []EntriesAreAccounted
<1>1. SwitchInit => AccountInv
  <2> SUFFICES ASSUME SwitchInit, NEW t \in Transfers PROVE Accounted(t)
    BY DEF AccountInv
  <2>1. EntriesOf(t) = {}
    BY DEF SwitchInit, EntriesOf
  <2>2. IsFiniteSet(Charged(t))
    BY FS_Subset DEF Charged
  <2>3. QED
    BY <2>1, <2>2, FS_EmptySet, FS_CardinalityType DEF Accounted, SwitchInit
<1>2. Inv /\ Inv' /\ AccountInv /\ [SwitchNext]_switchVars => AccountInv'
  <2> SUFFICES ASSUME Inv, Inv', AccountInv, UNCHANGED switchVars PROVE AccountInv'
    BY AccountNext
  <2>1. UNCHANGED <<tx, handler, ledger, faults>>
    BY DEF switchVars, callbacks, books
  <2>2. QED
    BY <2>1 DEF AccountInv, Accounted, EntriesOf, Charged, Spent
<1>3. Inv /\ AccountInv => EntriesAreAccounted
  <2> SUFFICES ASSUME Inv, AccountInv, NEW t \in Transfers
               PROVE  Cardinality(EntriesOf(t))
                        <= Cardinality({d \in Deliveries : TransferOf[d] = t}) + faults
    BY DEF EntriesAreAccounted
  <2> DEFINE about == {d \in Deliveries : TransferOf[d] = t}
  <2>1. IsFiniteSet(about) /\ Charged(t) \subseteq about
    BY FS_Subset DEF Charged
  <2>2. Cardinality(Charged(t)) <= Cardinality(about)
    BY <2>1, FS_Subset
  <2>3. IsFiniteSet(EntriesOf(t)) /\ IsFiniteSet(Charged(t)) /\ faults \in Nat
    BY AccountFinite, SwitchAssumption DEF Inv, SwitchTypeOK
  <2>4. /\ Cardinality(EntriesOf(t)) \in Nat /\ Cardinality(Charged(t)) \in Nat
        /\ Cardinality(about) \in Nat
    BY <2>1, <2>3, FS_CardinalityType
  <2>5. Cardinality(EntriesOf(t)) <= Cardinality(Charged(t)) + faults
    BY DEF AccountInv, Accounted
  <2> HIDE DEF about
  <2>6. Cardinality(EntriesOf(t)) <= Cardinality(about) + faults
    BY <2>2, <2>3, <2>4, <2>5
  <2>7. QED
    BY <2>6 DEF about
<1>4. QED
  BY <1>1, <1>2, <1>3, Always, PTL DEF SwitchSpec
=============================================================================
