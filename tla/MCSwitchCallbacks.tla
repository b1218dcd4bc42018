--------------------------- MODULE MCSwitchCallbacks ---------------------------
(* Values for model checking SwitchCallbacks. *)
EXTENDS SwitchCallbacks

CONSTANTS t1, t2, d1, d2, d3

\* One user pays one declaration by one FSP, twice.
SameKey == [t \in Transfers |-> "key"]

\* Two deliveries overlap for the first transfer; the second has one.
TwoOnFirst == [d \in Deliveries |-> IF d = d3 THEN t2 ELSE t1]
OnFirst == [d \in Deliveries |-> t1]
=============================================================================
