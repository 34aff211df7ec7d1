------------------------------ MODULE MCOutbox ------------------------------
(* Instances of Outbox for TLC *)
EXTENDS Outbox, TLC

CONSTANTS d1, d2

OneDispatcher == {d1}
TwoDispatchers == {d1, d2}
NoPoison == {}
SecondIsPoison == {2}

(* Dispatchers are interchangeable (safety runs only) *)
DispatcherSymmetry == Permutations({d1, d2})
=============================================================================
