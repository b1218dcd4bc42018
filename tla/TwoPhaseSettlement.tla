-------------------------- MODULE TwoPhaseSettlement --------------------------
(***************************************************************************)
(* What a payment through the switch promises of the trader's money: it is *)
(* reserved at most once, the reserve is settled only after the switch has *)
(* committed the transfer and released only when it has not, and what is   *)
(* settled or released stays so.  MojaloopGateway implements this.         *)
(***************************************************************************)
CONSTANT Payments

VARIABLES
  verdict,  \* [Payments -> what the switch decided]
  money     \* [Payments -> where the reserved amount is]

settlement == <<verdict, money>>

Init ==
  /\ verdict = [p \in Payments |-> "open"]
  /\ money = [p \in Payments |-> "free"]

Decide(p, v) ==
  /\ verdict[p] = "open"
  /\ verdict' = [verdict EXCEPT ![p] = v]
  /\ UNCHANGED money

Reserve(p) ==
  /\ money[p] = "free"
  /\ money' = [money EXCEPT ![p] = "reserved"]
  /\ UNCHANGED verdict

Settle(p) ==
  /\ verdict[p] = "committed"
  /\ money[p] = "reserved"
  /\ money' = [money EXCEPT ![p] = "settled"]
  /\ UNCHANGED verdict

Release(p) ==
  /\ verdict[p] # "committed"
  /\ money[p] = "reserved"
  /\ money' = [money EXCEPT ![p] = "released"]
  /\ UNCHANGED verdict

Next ==
  \E p \in Payments :
    \/ \E v \in {"committed", "aborted"} : Decide(p, v)
    \/ Reserve(p) \/ Settle(p) \/ Release(p)

Spec == Init /\ [][Next]_settlement
=============================================================================
