------------------------------ MODULE MCPacGraph ------------------------------
(***************************************************************************)
(* Instances of PacGraph for TLC.                                          *)
(***************************************************************************)
EXTENDS PacGraph

Odd == {k \in Keys : k % 2 = 1}

\* All vertices, every second, some at both ends.
MCSources == {Keys, Odd, {2, 3, MaxKey}}

\* Enough neighbours for a recursive case, two blocks, a small block.
MCTargets == {Keys, Odd, {2, 3, MaxKey}}
=============================================================================
