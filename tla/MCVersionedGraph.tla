--------------------------- MODULE MCVersionedGraph ---------------------------
(***************************************************************************)
(* Instances of VersionedGraph for TLC.                                    *)
(***************************************************************************)
EXTENDS VersionedGraph, TLC

CONSTANTS r1, r2, wr

MCReaders == {r1, r2}
MCOneReader == {r1}
MCWriter == wr

\* Readers run the same code and start in the same state.
ReaderSymmetry == Permutations(Readers)
=============================================================================
