-------------------------- MODULE SwitchConfirmation --------------------------
(***************************************************************************)
(* The Mojaloop router and payments.confirm together: confirm reads the    *)
(* row of mojaloop_transactions that SwitchCallbacks writes, while         *)
(* callbacks, replays and submissions go on.  The two share nothing but    *)
(* the row (payments.ts and mojaloop.ts are procedures of one server); a   *)
(* step of the system is a step of one of them.                            *)
(*                                                                         *)
(* PaymentConfirmation is written against SwitchSettlement, which has one  *)
(* atomic step where the router has many.  Here it runs on the router's    *)
(* own state.                                                              *)
(***************************************************************************)
EXTENDS SwitchCallbacks

CONSTANTS
  Payments,  \* payments of the transfers' declaration
  Requests,  \* calls of confirm under way at once
  None       \* no request, no payment, no transfer

VARIABLES payment, lock, request, lapsed, cache, started, again, disturbed

Confirm == INSTANCE PaymentConfirmation WITH posted <- Posted

confirmVars == <<payment, lock, request, lapsed, cache, started, again, disturbed>>
vars == <<switchVars, confirmVars>>

Init == SwitchInit /\ Confirm!Init

Next ==
  \/ SwitchNext /\ UNCHANGED confirmVars
  \/ Confirm!ConfirmNext /\ UNCHANGED switchVars

Spec == Init /\ [][Next]_vars

-----------------------------------------------------------------------------
(* Properties.                                                             *)

\* What confirm was written for is what it meets: on the router's rows, while
\* they are written, it behaves as it does on SwitchSettlement, and keeps what
\* it keeps there.
ImplementsConfirmation == Confirm!Spec

\* From end to end: a confirmation is submitted, and answered from the stored
\* key, only for a transfer the switch itself committed and the bridge has,
\* whatever callbacks overlap, fail or come again between.
SubmissionIsPaid ==
  \A pair \in started \cup cache :
    hub[pair[2]] = "COMMITTED" /\ tx[pair[2]] = "COMMITTED" /\ EntriesOf(pair[2]) # {}

\* No later callback, replay or second submission takes back the transfer or
\* the posting a confirmation was submitted for.
NeverTakenBack ==
  [][\A pair \in started :
       /\ tx'[pair[2]] = "COMMITTED"
       /\ hub'[pair[2]] = "COMMITTED"
       /\ EntriesOf(pair[2]) \subseteq EntriesOf(pair[2])']_vars
=============================================================================
