------------------------ MODULE MCDeliveryExecution ------------------------
(* Values of the constants of DeliveryExecution for TLC. *)
EXTENDS DeliveryExecution

CONSTANTS a1, a2, c1, c2

OneApproval == {a1}
OneCancellation == {c1}
TwoCancellations == {c1, c2}
NoCancellation == {}
NoCost == {0}
SomeCost == {0, 1}
NoFault == {}
AllFaults == {"crash", "timeout", "refused", "rollback"}
NoCrash == {"timeout", "refused", "rollback"}
OvertakenReport == {"overtaken"}
Refusals == {"refused"}
=============================================================================
