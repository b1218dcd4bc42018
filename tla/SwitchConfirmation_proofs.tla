----------------------- MODULE SwitchConfirmation_proofs -----------------------
(***************************************************************************)
(* The router and payments.confirm together, for every number of transfers,*)
(* payments, deliveries and requests.                                      *)
(*                                                                         *)
(* Nothing is proved twice: the router's steps are SwitchSettlement's      *)
(* (SwitchCallbacks_proofs), so the whole implements PaymentConfirmation,  *)
(* and what PaymentConfirmation_proofs shows holds of it.  The router's own*)
(* invariant then carries the claim from the row to the switch and bridge. *)
(***************************************************************************)
EXTENDS SwitchConfirmation, SwitchCallbacks_proofs

Proved == INSTANCE PaymentConfirmation_proofs WITH posted <- Posted

\* None is a value of its own, as PaymentConfirmation assumes.
NoneIsNobody == None \notin Requests /\ None \notin Payments /\ None \notin Transfers

-----------------------------------------------------------------------------
(* The parts of a step.                                                    *)

\* The router's behaviour is its own, whoever reads its rows.
LEMMA RouterRuns == Spec => SwitchSpec
<1>1. Init => SwitchInit
  BY DEF Init
<1>2. [Next]_vars => [SwitchNext]_switchVars
  BY DEF Next, vars
<1>3. QED
  BY <1>1, <1>2, PTL DEF Spec, SwitchSpec

LEMMA RouterInv == Spec => []Inv
  BY RouterRuns, Always, PTL

LEMMA SettlementSeen ==
  ASSUME Settlement!SettlementNext
  PROVE  Confirm!SettlementNext
  BY DEF Settlement!SettlementNext, Settlement!Create, Settlement!Post, Settlement!Commit,
         Settlement!Abort, Confirm!SettlementNext, Confirm!Create, Confirm!Post,
         Confirm!Commit, Confirm!Abort

\* Entries of the bridge stay.
LEMMA EntriesStay ==
  ASSUME Inv, SwitchNext, NEW t \in Transfers
  PROVE  EntriesOf(t) \subseteq EntriesOf(t)'
<1>1. CASE UNCHANGED ledger
  BY <1>1 DEF EntriesOf
<1>2. ASSUME NEW d \in Deliveries, ledger' = Append(ledger, TransferOf[d])
      PROVE  EntriesOf(t) \subseteq EntriesOf(t)'
  BY <1>2, AppendFacts, AboutFacts DEF Inv, SwitchTypeOK, EntriesOf
<1>3. QED
  BY <1>1, <1>2
     DEF SwitchNext, InitiatePayment, CheckKey, CreateTransaction, StoreKey, ForwardToSwitch,
         SwitchDecides, Receive, Proceed, LookUp, PostToBridge, MirrorEntry, UpdateTransaction,
         RecordEvent, Stop, books

\* Every step is one of confirm's, one of SwitchSettlement, or nothing to
\* confirm.
LEMMA ConfirmationStep ==
  ASSUME Inv, [Next]_vars
  PROVE  [Confirm!Next]_(Confirm!vars)
<1>1. UNCHANGED confirmVars => UNCHANGED Confirm!confirmVars
  BY DEF confirmVars, Confirm!confirmVars
<1>2. CASE SwitchNext /\ UNCHANGED confirmVars
  <2>1. CASE Settlement!SettlementNext
    BY <1>1, <1>2, <2>1, SettlementSeen DEF Confirm!Next
  <2>2. CASE UNCHANGED Settlement!settlementVars
    BY <1>1, <1>2, <2>2
       DEF Settlement!settlementVars, Confirm!vars, Confirm!settlementVars
  <2>3. QED
    BY <1>2, <2>1, <2>2, SettlementStep
<1>3. CASE Confirm!ConfirmNext /\ UNCHANGED switchVars
  <2>1. UNCHANGED Confirm!settlementVars
    BY <1>3 DEF switchVars, books, Posted, Confirm!settlementVars
  <2>2. QED
    BY <1>3, <2>1 DEF Confirm!Next
<1>4. CASE UNCHANGED vars
  <2>1. UNCHANGED <<tx, Posted>> /\ UNCHANGED confirmVars
    BY <1>4 DEF vars, switchVars, books, Posted
  <2>2. QED
    BY <1>1, <2>1 DEF Confirm!vars, Confirm!settlementVars
<1>5. QED
  BY <1>2, <1>3, <1>4 DEF Next

-----------------------------------------------------------------------------
(* The theorems.                                                           *)

\* On the router's rows confirm behaves as it does on SwitchSettlement.
THEOREM ConfirmationImplemented == Spec => ImplementsConfirmation
<1>1. Init => Confirm!Init
  BY DEF Init
<1>2. Inv /\ [Next]_vars => [Confirm!Next]_(Confirm!vars)
  BY ConfirmationStep
<1>3. QED
  BY <1>1, <1>2, RouterInv, PTL DEF Spec, ImplementsConfirmation, Confirm!Spec

-----------------------------------------------------------------------------
(* What PaymentConfirmation_proofs shows, of the rows of the router.       *)

\* Confirm and Proved are two instances of one module.
LEMMA SameInit == Confirm!Init => Proved!Init
  BY DEF Confirm!Init, Proved!Init, Confirm!SettlementInit, Proved!SettlementInit,
         Confirm!Idle, Proved!Idle

LEMMA SameStep ==
  ASSUME [Confirm!Next]_(Confirm!vars)
  PROVE  [Proved!Next]_(Proved!vars)
  BY DEF Confirm!SettlementNext, Proved!SettlementNext, Confirm!Create, Proved!Create,
         Confirm!Post, Proved!Post, Confirm!Commit, Proved!Commit, Confirm!Abort,
         Proved!Abort, Confirm!ConfirmNext, Proved!ConfirmNext, Confirm!Confirm,
         Proved!Confirm, Confirm!AcquireLock, Proved!AcquireLock, Confirm!GetIdempotencyKey,
         Proved!GetIdempotencyKey, Confirm!ReadPayment, Proved!ReadPayment,
         Confirm!ReadTransfer, Proved!ReadTransfer, Confirm!StartWorkflow,
         Proved!StartWorkflow, Confirm!SetIdempotencyKey, Proved!SetIdempotencyKey,
         Confirm!FailStatement, Proved!FailStatement, Confirm!OwnLockDeleted,
         Proved!OwnLockDeleted, Confirm!ReleaseLock, Proved!ReleaseLock, Confirm!Crash,
         Proved!Crash, Confirm!GoTo, Proved!GoTo, Confirm!Disturb, Proved!Disturb,
         Confirm!End, Proved!End, Confirm!Pair, Proved!Pair, Confirm!Idle, Proved!Idle,
         Confirm!InSection, Proved!InSection, Confirm!LockExpires, Proved!LockExpires,
         Confirm!KeyExpires, Proved!KeyExpires, Confirm!CancelPayment, Proved!CancelPayment,
         Confirm!confirmVars, Proved!confirmVars, Confirm!settlementVars,
         Proved!settlementVars, Confirm!vars, Proved!vars, Confirm!Next, Proved!Next

LEMMA ProvedRuns == Spec => Proved!Spec
<1>1. Confirm!Init => Proved!Init
  BY SameInit
<1>2. [Confirm!Next]_(Confirm!vars) => [Proved!Next]_(Proved!vars)
  BY SameStep
<1>3. QED
  BY <1>1, <1>2, ConfirmationImplemented, PTL
     DEF ImplementsConfirmation, Confirm!Spec, Proved!Spec

LEMMA Backed ==
  ASSUME NoneIsNobody
  PROVE  Spec => []Proved!SubmissionBacked
<1>1. Proved!ConfirmAssumption
  BY DEF NoneIsNobody, Proved!ConfirmAssumption
<1>2. Proved!Spec => []Proved!SubmissionBacked
  BY <1>1, Proved!SubmissionsBacked
<1>3. QED
  BY <1>2, ProvedRuns, PTL

\* Started and stored confirmations are about transfers of the instance.
LEMMA Typed ==
  ASSUME NoneIsNobody
  PROVE  Spec => []Proved!TypeOK
<1>1. Proved!ConfirmAssumption
  BY DEF NoneIsNobody, Proved!ConfirmAssumption
<1>2. Proved!Spec => []Proved!TypeOK
  BY <1>1, Proved!TypeCorrect
<1>3. QED
  BY <1>2, ProvedRuns, PTL

LEMMA PaidInState ==
  ASSUME Inv, Proved!TypeOK, Proved!SubmissionBacked, NEW pair \in started \cup cache
  PROVE  /\ pair[2] \in Transfers
         /\ hub[pair[2]] = "COMMITTED" /\ tx[pair[2]] = "COMMITTED"
         /\ EntriesOf(pair[2]) # {}
<1>1. pair \in started /\ pair[2] \in Transfers
  BY DEF Proved!SubmissionBacked, Proved!TypeOK, Proved!Pairs
<1>2. tx[pair[2]] = "COMMITTED" /\ pair[2] \in Posted
  BY <1>1 DEF Proved!SubmissionBacked
<1>3. hub[pair[2]] = "COMMITTED"
  BY <1>1, <1>2 DEF Inv, TransferOK, Outcomes
<1>4. QED
  BY <1>1, <1>2, <1>3 DEF Posted, EntriesOf

\* A confirmation is submitted, or answered from its key, only for a transfer
\* the switch committed and the bridge has, whatever overlaps and fails on
\* either side.
THEOREM SubmissionsArePaid ==
  ASSUME NoneIsNobody
  PROVE  Spec => []SubmissionIsPaid
<1>1. Inv /\ Proved!TypeOK /\ Proved!SubmissionBacked => SubmissionIsPaid
  BY PaidInState DEF SubmissionIsPaid
<1>2. QED
  BY <1>1, RouterInv, Typed, Backed, PTL

\* The switch's decision, the row and the posting a confirmation was submitted
\* for stay, whatever is delivered or submitted afterwards.
THEOREM NothingIsTakenBack ==
  ASSUME NoneIsNobody
  PROVE  Spec => NeverTakenBack
<1> DEFINE Stays ==
      \A pair \in started :
        /\ tx'[pair[2]] = "COMMITTED"
        /\ hub'[pair[2]] = "COMMITTED"
        /\ EntriesOf(pair[2]) \subseteq EntriesOf(pair[2])'
<1>1. ASSUME Inv, Proved!TypeOK, Proved!SubmissionBacked, Next PROVE Stays
  <2> SUFFICES ASSUME NEW pair \in started
               PROVE  /\ tx'[pair[2]] = "COMMITTED"
                      /\ hub'[pair[2]] = "COMMITTED"
                      /\ EntriesOf(pair[2]) \subseteq EntriesOf(pair[2])'
    OBVIOUS
  <2> DEFINE t == pair[2]
  <2>1. t \in Transfers /\ tx[t] = "COMMITTED" /\ hub[t] = "COMMITTED"
    BY <1>1, PaidInState
  <2>2. CASE UNCHANGED switchVars
    BY <2>1, <2>2 DEF switchVars, books, EntriesOf
  <2>3. CASE SwitchNext
    <3>1. tx'[t] = "COMMITTED"
      BY <1>1, <2>1, <2>3, CommittedStays
    <3>2. Inv'
      BY <1>1, <2>3, NextInv
    <3>3. hub'[t] = "COMMITTED"
      BY <2>1, <3>1, <3>2 DEF Inv, TransferOK, Outcomes
    <3>4. EntriesOf(t) \subseteq EntriesOf(t)'
      BY <1>1, <2>1, <2>3, EntriesStay
    <3>5. QED
      BY <3>1, <3>3, <3>4
  <2>4. QED
    BY <1>1, <2>2, <2>3 DEF Next
<1>2. Inv /\ Proved!TypeOK /\ Proved!SubmissionBacked /\ [Next]_vars => [Stays]_vars
  BY <1>1
<1>3. QED
  BY <1>2, RouterInv, Typed, Backed, PTL DEF Spec, NeverTakenBack
=============================================================================
