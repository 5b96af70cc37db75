------------------------- MODULE SnapshotStoreProofs -------------------------
(***************************************************************************)
(* What SnapshotStore's guards amount to, for any number of clients and    *)
(* versions.  What implements SnapshotStore inherits it.                   *)
(***************************************************************************)
EXTENDS SnapshotStore, TLAPS

(* A pending request began at a version that is already published.         *)
RequestIsNotAhead == \A c \in Clients : since[c] # None => since[c] <= latest

Inv == TypeOK /\ HeldIsLive /\ LatestIsLive /\ RequestIsNotAhead

(* Before the first publication nobody holds anything.                     *)
LEMMA InitInv == Init => Inv
BY DEF Init, Inv, TypeOK, HeldIsLive, LatestIsLive, RequestIsNotAhead, None

(* A client gets a version that is published and was not reclaimed, and a  *)
(* version that is held is not reclaimed: no step disturbs the invariant.  *)
LEMMA StepInv == Inv /\ [Next]_vars => Inv'
<1> SUFFICES ASSUME Inv, [Next]_vars PROVE Inv'
  OBVIOUS
<1> USE DEF Inv, TypeOK, HeldIsLive, LatestIsLive, RequestIsNotAhead, None
<1>1. CASE Publish
  BY <1>1 DEF Publish
<1>2. ASSUME NEW c \in Clients, Begin(c) PROVE Inv'
  BY <1>2 DEF Begin
<1>3. ASSUME NEW c \in Clients, Release(c) PROVE Inv'
  BY <1>3 DEF Release
<1>4. ASSUME NEW c \in Clients, NEW t \in Versions, Acquire(c, t) PROVE Inv'
  <2>1. t \in Nat /\ t <= latest /\ t \notin reclaimed
    BY <1>4 DEF Acquire
  <2> QED BY <1>4, <2>1 DEF Acquire
<1>5. ASSUME NEW t \in Versions, Reclaim(t) PROVE Inv'
  <2>1. t \in Nat
    BY DEF Versions
  <2> QED BY <1>5, <2>1 DEF Reclaim
<1>6. CASE UNCHANGED vars
  BY <1>6 DEF vars
<1> QED BY <1>1, <1>2, <1>3, <1>4, <1>5, <1>6 DEF Next

(* At all times: what a client holds is published and not reclaimed, and   *)
(* the version a new request is directed to is not reclaimed.              *)
THEOREM SnapshotsAreSafe == Spec => [](HeldIsLive /\ LatestIsLive)
<1>1. Inv => HeldIsLive /\ LatestIsLive
  BY DEF Inv
<1> QED BY InitInv, StepInv, <1>1, PTL DEF Spec

(* Versions are published in order and a reclaimed one never comes back.   *)
THEOREM HistoryOnlyGrows == Spec => History
<1>1. Inv /\ [Next]_vars => [reclaimed \subseteq reclaimed' /\ latest <= latest']_vars
  BY DEF Inv, TypeOK, Next, Publish, Begin, Release, Acquire, Reclaim, vars
<1> QED BY InitInv, StepInv, <1>1, PTL DEF Spec, History

(* A snapshot is never older than the version that was current when the    *)
(* client asked for it, and never one that is not published.               *)
THEOREM SnapshotsAreFresh == Spec => FreshOnArrival
<1>1. Inv /\ [Next]_vars
        => [\A c \in Clients : held[c] = None /\ held'[c] # None
              => since[c] <= held'[c] /\ held'[c] <= latest]_vars
  BY DEF Inv, TypeOK, Next, Publish, Begin, Release, Acquire, Reclaim, vars, None
<1> QED BY InitInv, StepInv, <1>1, PTL DEF Spec, FreshOnArrival
=============================================================================
