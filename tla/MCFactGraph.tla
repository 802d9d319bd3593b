---------------------------- MODULE MCFactGraph ----------------------------
(***************************************************************************)
(* Small instances of FactGraph for TLC.                                   *)
(***************************************************************************)
EXTENDS FactGraph, TLC

CONSTANTS f1, f2, f3, f4, a, b, d1, d2

FourFacts   == {f1, f2, f3, f4}
ThreeFacts  == {f1, f2, f3}
TwoObjects  == {a, b}
TwoDreamers == {d1, d2}

\* A document that names two values of one relation.
Contradiction == {<<a, b>>, <<b>>}

\* Ids and workers are interchangeable.
Symmetry == Permutations(Facts) \cup Permutations(Dreamers)
=============================================================================
