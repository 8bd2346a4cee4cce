-------------------------- MODULE MCMessageDelivery --------------------------
(* Instances of MessageDelivery for TLC; the README gives the sizes.        *)
EXTENDS MessageDelivery

CONSTANTS msg1, msg2, hi, bye

MCText == [m \in Messages |-> IF m = msg1 THEN hi ELSE bye]

\* The request by hand and the second message never meet.
ByHandOrBeside == status[msg2] = "none" \/ \A p \in Manuals : request[p].step = "idle"
================================================================================
