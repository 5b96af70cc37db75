---------------------------- MODULE SnapshotStore ----------------------------
(***************************************************************************)
(* What a versioned store promises its clients, with no table, no          *)
(* reference counts and no memory: one writer publishes versions 0, 1, 2,  *)
(* ...; a client that asks for a snapshot gets a version that was current  *)
(* at some moment of its call, keeps it as long as it likes, and a version *)
(* is reclaimed only once, only after it is superseded, and never while a  *)
(* client holds it.                                                        *)
(*                                                                         *)
(* VersionedGraph (aspen's versioned_graph) is checked against this        *)
(* specification.                                                          *)
(***************************************************************************)
EXTENDS Integers

CONSTANTS
  Clients,    \* processes that take snapshots
  MaxVersion  \* bound: the last version that may be published

Versions == 0..MaxVersion

None == -1    \* holds no version, has no call in progress

VARIABLES
  latest,     \* the version a new snapshot should see
  since,      \* since[c]: latest when c's pending request began, or None
  held,       \* held[c]: the version c holds, or None
  reclaimed   \* versions whose memory was given back

vars == <<latest, since, held, reclaimed>>

Init ==
  /\ latest = 0
  /\ since = [c \in Clients |-> None]
  /\ held = [c \in Clients |-> None]
  /\ reclaimed = {}

Begin(c) ==
  /\ since[c] = None
  /\ held[c] = None
  /\ since' = [since EXCEPT ![c] = latest]
  /\ UNCHANGED <<latest, held, reclaimed>>

Acquire(c, t) ==
  /\ since[c] # None
  /\ t \in since[c]..latest
  /\ t \notin reclaimed
  /\ held' = [held EXCEPT ![c] = t]
  /\ since' = [since EXCEPT ![c] = None]
  /\ UNCHANGED <<latest, reclaimed>>

Release(c) ==
  /\ held[c] # None
  /\ held' = [held EXCEPT ![c] = None]
  /\ UNCHANGED <<latest, since, reclaimed>>

Publish ==
  /\ latest < MaxVersion
  /\ latest' = latest + 1
  /\ UNCHANGED <<since, held, reclaimed>>

Reclaim(t) ==
  /\ t < latest
  /\ t \notin reclaimed
  /\ \A c \in Clients : held[c] # t
  /\ reclaimed' = reclaimed \union {t}
  /\ UNCHANGED <<latest, since, held>>

Next ==
  \/ Publish
  \/ \E c \in Clients : Begin(c) \/ Release(c)
  \/ \E c \in Clients, t \in Versions : Acquire(c, t)
  \/ \E t \in Versions : Reclaim(t)

Spec == Init /\ [][Next]_vars
-----------------------------------------------------------------------------
(* Everything has the shape its declaration gives it.                      *)
TypeOK ==
  /\ latest \in Nat
  /\ since \in [Clients -> Nat \union {None}]
  /\ held \in [Clients -> Nat \union {None}]
  /\ reclaimed \subseteq Nat

(* A version some client holds is published and has not been reclaimed.    *)
HeldIsLive ==
  \A c \in Clients : held[c] # None =>
    held[c] <= latest /\ held[c] \notin reclaimed

(* The version new snapshots are directed to is never reclaimed.           *)
LatestIsLive == \A t \in reclaimed : t < latest

(* A version that was given back never comes back, and time does not turn  *)
(* back.                                                                   *)
History == [][reclaimed \subseteq reclaimed' /\ latest <= latest']_vars

(* A client that got a version did not get one older than its request: the *)
(* version was current when the call began or became so during the call.   *)
FreshOnArrival ==
  [][\A c \in Clients :
       held[c] = None /\ held'[c] # None => since[c] <= held'[c] /\ held'[c] <= latest]_vars
=============================================================================
