------------------------------ MODULE MCKnnIndex ------------------------------
(***************************************************************************)
(* Instances of KnnIndex for TLC.                                          *)
(***************************************************************************)
EXTENDS KnnIndex, TLC

\* All points, or the medoid alone.
MCPortions == {Points, {medoid}}

Symmetry == Permutations(Points \ {medoid})
=============================================================================
