----------------------- MODULE MCDeclarationLifecycle -----------------------
(* Values for model checking DeclarationLifecycle. *)
EXTENDS DeclarationLifecycle, TLC

CONSTANTS r1, r2

Procedures == {"submit", "assessDuty", "updateStatus", "cancel", "initiate"}

\* What the clearance guarantees are about.
OrderlyEntries == Procedures \cup {"engineSubmit", "engineAssess", "engineUpdate"}
OrderlyTargets == Status \ {"cleared"}

\* Writers that ask neither the state machine nor the gates.
Unasked == {"bulkUpdateStatus", "sanctionsHit", "ogaCallback", "bulkApprove"}

\* Requests that overlap, of server and engine, next to the writers that clear.
OverlapEntries == (Procedures \ {"initiate", "assessDuty"}) \cup {"engineClear", "engineUpdate"}
                    \cup (Unasked \ {"sanctionsHit"})
OverlapTargets == {"payment_confirmed", "cleared"}

\* The server's examination procedures next to the writers that ask nobody.
OpenEntries == {"submit", "assessDuty", "updateStatus"} \cup Unasked

CallSymmetry == Permutations(Calls)
=============================================================================
