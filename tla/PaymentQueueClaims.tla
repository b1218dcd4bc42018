-------------------------- MODULE PaymentQueueClaims --------------------------
(***************************************************************************)
(* How a row of PaymentQueue comes into the hands of two cycles, with no   *)
(* assumption on how long a cycle takes or on who retries dead letters: a  *)
(* history variable records the rows that were lost from sight while a     *)
(* cycle had them in hand.                                                 *)
(***************************************************************************)
EXTENDS PaymentQueue

VARIABLE outrun  \* history: rows in the hands of a cycle that outlasted the
                 \* heartbeat, or were retried as dead letters, meanwhile

\* In this step the last write of a row in hand becomes older than the
\* heartbeat timeout, or an administrator retries it.
Outruns ==
  {i \in Items :
     /\ Held(i)
     /\ row'[i].aged \/ \E a \in Admins : i \in selected[a] /\ i \notin selected'[a]}

ClaimsInit == Init /\ outrun = {}

\* A row that nobody has in hand any more is as good as new.
ClaimsNext == Next /\ outrun' = {i \in outrun \cup Outruns : Held(i)'}

ClaimsSpec == ClaimsInit /\ [][ClaimsNext]_<<vars, outrun>>

\* Two cycles work on one row only if it outlasted the heartbeat, or was retried
\* as a dead letter, in the hands of the first: claims that race each other, the
\* recovery of a dead server's rows, the requeue of a failed write, lost answers
\* and crashes never give a row away by themselves.
ExclusiveUnlessOutrun ==
  \A c, d \in Cycles : c # d => todo[c] \cap todo[d] \subseteq outrun
=============================================================================
