------------------------ MODULE MCWorkflowDispatcher ------------------------
(* Values of the constants of WorkflowDispatcher for TLC. *)
EXTENDS WorkflowDispatcher

CONSTANTS e1, e2, d1, d2

One == {e1}
Both == {e1, e2}

OneDispatcher == {d1}
TwoDispatchers == {d1, d2}
=============================================================================
