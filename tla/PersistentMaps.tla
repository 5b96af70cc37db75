----------------------------- MODULE PersistentMaps -----------------------------
(***************************************************************************)
(* What purely functional maps promise to clients that run concurrently:   *)
(* a map variable keeps its contents until its own client changes it, and  *)
(* a call returns what it computes from the contents it was given,         *)
(* whatever the other clients do in the meantime.  No nodes, no counts.    *)
(* Contents are sets of elements <<key, value>>.                           *)
(***************************************************************************)
CONSTANTS
  Clients,
  Names,    \* the map variables of a client
  Batches   \* the sets of elements a call may insert

VARIABLES
  map,      \* map[c][v]: contents of variable v of client c
  call      \* call[c]: {} or {what the running call of c will return}

vars == <<map, call>>

Key(e) == e[1]

\* The elements of a batch replace those with the same keys.
Inserted(m, es) == es \union {e \in m : \A f \in es : Key(e) # Key(f)}
-----------------------------------------------------------------------------
\* All clients begin with the same maps.
Init ==
  /\ \A c, d \in Clients : map[c] = map[d]
  /\ call = [c \in Clients |-> {}]

Copy(c, v, w) ==
  /\ call[c] = {}
  /\ map' = [map EXCEPT ![c][w] = map[c][v]]
  /\ UNCHANGED call

Clear(c, v) ==
  /\ call[c] = {}
  /\ map' = [map EXCEPT ![c][v] = {}]
  /\ UNCHANGED call

\* A call is given a copy of a variable, or the variable itself, then empty.
Begin(c, v, es) ==
  /\ call[c] = {}
  /\ call' = [call EXCEPT ![c] = {Inserted(map[c][v], es)}]
  /\ \/ UNCHANGED map
     \/ map' = [map EXCEPT ![c][v] = {}]

Return(c, v) ==
  /\ \E m \in call[c] : map' = [map EXCEPT ![c][v] = m]
  /\ call' = [call EXCEPT ![c] = {}]

Next ==
  \E c \in Clients :
    \/ \E v \in Names, w \in Names : Copy(c, v, w)
    \/ \E v \in Names : Clear(c, v) \/ Return(c, v)
    \/ \E v \in Names, es \in Batches : Begin(c, v, es)

Spec == Init /\ [][Next]_vars
=============================================================================
