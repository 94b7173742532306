----------------------------- MODULE MCRetention -----------------------------
(* Retention on small instances: Ann with two devices, Bob with one or two.  *)
EXTENDS Retention, TLC

CONSTANTS a1, a2, b1, b2

MCOwner == [d \in Devices |-> IF d \in {a1, a2} THEN "ann" ELSE "bob"]
MCMedia == {1}
NoMedia == {}

\* Handlers are interchangeable: no constant and no property tells them apart.
HandlerSymmetry == Permutations(Handlers)
=============================================================================
