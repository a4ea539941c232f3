------------------------------ MODULE Ranking ------------------------------
(***************************************************************************)
(* A finite set put in order, as Array.sort and a walk through a stream do *)
(* it. The order is a set of pairs; no recursion, so that what the model   *)
(* does with a sorted list can be proved.                                  *)
(***************************************************************************)
EXTENDS Integers, FiniteSets

\* How far from the first an element comes.
Place(S, order, e) == Cardinality({d \in S : <<d, e>> \in order})

\* The elements from the first to the last.
InOrder(S, order) ==
    [n \in 1..Cardinality(S) |-> CHOOSE e \in S : Place(S, order, e) = n]

\* The order of a list: by place.
ByPlace(S) == {p \in S \X S : p[1] <= p[2]}
=============================================================================
