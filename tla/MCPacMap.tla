------------------------------- MODULE MCPacMap -------------------------------
(***************************************************************************)
(* Instances of PacMap for TLC.                                            *)
(***************************************************************************)
EXTENDS PacMap

CONSTANT Stride  \* largest distance of neighbouring keys in a batch

\* Every set of keys.
AllKeySets == SUBSET Keys

\* Long runs of keys: dense, or every second, third, ... key.
Runs ==
  {{k \in low..high : (k - low) % d = 0} :
     low \in {k \in Keys : k % 4 = 1}, high \in {k \in Keys : k % 4 = 0}, d \in 1..Stride}

\* Any value, or one that tells dense runs from sparse ones.
AnyValue(K) == Vals
ByDensity(K) == IF \E k \in K : k + 1 \in K THEN {1} ELSE {2}

EveryFifth == {k \in Keys : k % 5 = 2}
=============================================================================
