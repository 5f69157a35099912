-------------------------- MODULE MCEventDelivery --------------------------
(* Values of the constants of EventDelivery for TLC. *)
EXTENDS EventDelivery, TLC

CONSTANTS s1, s2, i1, i2, e1, e2, good, better, unknown, p1, w1, w2

OneSession == {s1}
TwoSessions == {s1, s2}
OneItem == {i1}
TwoItems == {i1, i2}
OneEvent == {e1}
TwoEvents == {e1, e2}
OneTerms == {good}
TwoTerms == {good, better}
SomeUnknown == {good, unknown}
OnePublisher == {p1}
OneWorker == {w1}
TwoWorkers == {w1, w2}

Alike == Permutations(TwoSessions) \cup Permutations(TwoItems) \cup Permutations(TwoEvents)
            \cup Permutations(TwoTerms)
=============================================================================
