--------------------------- MODULE SwitchSettlement ---------------------------
(***************************************************************************)
(* What server/routers/mojaloop.ts promises the procedures that read its   *)
(* rows: a transfer is created PENDING and settled once, for good, and     *)
(* COMMITTED only after the bridge has it.                                 *)
(***************************************************************************)
CONSTANT Transfers

VARIABLES
  tx,     \* [Transfers -> status], the row of mojaloop_transactions
  posted  \* transfers the bridge has

settlementVars == <<tx, posted>>

SettlementStatus == {"none", "PENDING", "COMMITTED", "ABORTED"}

SettlementTypeOK ==
  /\ tx \in [Transfers -> SettlementStatus]
  /\ posted \subseteq Transfers

SettlementInit ==
  /\ tx = [t \in Transfers |-> "none"]
  /\ posted = {}

Create(t) ==
  /\ tx[t] = "none"
  /\ tx' = [tx EXCEPT ![t] = "PENDING"]
  /\ UNCHANGED posted

Post(t) ==
  /\ tx[t] = "PENDING"
  /\ posted' = posted \cup {t}
  /\ UNCHANGED tx

Commit(t) ==
  /\ tx[t] = "PENDING"
  /\ t \in posted
  /\ tx' = [tx EXCEPT ![t] = "COMMITTED"]
  /\ UNCHANGED posted

Abort(t) ==
  /\ tx[t] = "PENDING"
  /\ t \notin posted
  /\ tx' = [tx EXCEPT ![t] = "ABORTED"]
  /\ UNCHANGED posted

SettlementNext == \E t \in Transfers : Create(t) \/ Post(t) \/ Commit(t) \/ Abort(t)

SettlementSpec == SettlementInit /\ [][SettlementNext]_settlementVars
=============================================================================
