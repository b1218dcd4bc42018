------------------------- MODULE MCSwitchConfirmation -------------------------
(* Values for model checking SwitchConfirmation. *)
EXTENDS SwitchConfirmation

CONSTANTS t1, d1, d2

OneKey == [t \in Transfers |-> "key"]
OnOne == [d \in Deliveries |-> t1]
=============================================================================
