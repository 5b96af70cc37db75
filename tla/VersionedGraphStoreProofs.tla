----------------------- MODULE VersionedGraphStoreProofs -----------------------
(***************************************************************************)
(* What VersionedGraph is while no reader disturbs an insert (Calm): an    *)
(* implementation of SnapshotStore, in a table that never uses more slots  *)
(* than one for each reader and two.                                       *)
(***************************************************************************)
EXTENDS VersionedGraphCalmProofs

(* The version each thread holds in the abstract store.                    *)
HeldVersions == [p \in Procs |-> IF Holding(p) THEN stamp[p] ELSE NoTs]

(* Every step of a thread in acquire_version or release_version that gives *)
(* no version and takes none is a stutter of the abstract store.           *)
LEMMA HeldByOthers ==
  ASSUME NEW p \in Procs, \A q \in Procs \ {p} : Waits(q),
         Holding(p)' <=> Holding(p), Holding(p) => stamp'[p] = stamp[p]
  PROVE  HeldVersions' = HeldVersions
BY RolesWait DEF HeldVersions, Waits

(* acquire_version begins a request of the store, and its CAS serves it    *)
(* with a version that was the latest since, which nobody has reclaimed.   *)
LEMMA AcquireRefines ==
  ASSUME Calm, CalmInv, NEW p \in Procs, StartAcquire(p) \/ AcquireStep(p)
  PROVE  [Snapshots!Next]_(Snapshots!vars)
<1>1. TypeOK /\ ThreadInv(p) /\ ObjectInv(p) /\ LookingInv(p)
  BY DEF CalmInv, Inv, ThreadInv
<1>2. \A q \in Procs \ {p} : Waits(q)
  BY <1>1, OthersWait
<1>3. CASE StartAcquire(p)
  <2>1. /\ pc[p] = "idle" /\ pc'[p] = "loop" /\ UNCHANGED <<shared, locals, reclaimed>>
        /\ since' = [since EXCEPT ![p] = latest_timestamp]
    BY <1>1, <1>3 DEF StartAcquire, Goto, TypeOK
  <2>2. ~Holding(p) /\ ~Holding(p)' /\ since[p] = NoTs
    BY <1>1, <2>1 DEF Holding, BatchSteps, LookingInv, Looking, AcquireSteps
  <2>3. HeldVersions' = HeldVersions /\ HeldVersions[p] = NoTs
    BY <1>2, <2>2, HeldByOthers DEF HeldVersions
  <2>4. Snapshots!Begin(p)
    BY <2>1, <2>2, <2>3
       DEF Snapshots!Begin, Snapshots!None, NoTs, HeldVersions, latest_timestamp, shared
  <2> QED BY <2>4 DEF Snapshots!Next
<1>4. CASE RaiseCount(p) /\ CasSucceeds(p)
  <2>1. /\ pc[p] = "cas" /\ pc'[p] = "root" /\ since' = [since EXCEPT ![p] = NoTs]
        /\ UNCHANGED <<current_timestamp, stamp, reclaimed>>
    BY <1>1, <1>4 DEF RaiseCount, CasSucceeds, Goto, TypeOK, locals
  <2>2. /\ stamp[p] \in since[p]..latest_timestamp /\ stamp[p] \in 0..latest_timestamp
        /\ stamp[p] \notin reclaimed
    BY <2>1, <1>4, RaisedIsCurrent
  <2>3. Holding(p)' /\ stamp[p] \in Timestamps /\ since[p] # NoTs
    <3>1. since[p] \in 0..latest_timestamp
      BY <1>1, <2>1 DEF LookingInv, Looking, AcquireSteps
    <3> QED BY <1>1, <2>1, <2>2, <3>1, Numbers DEF Holding, NoTs
  <2>4. HeldVersions' = [HeldVersions EXCEPT ![p] = stamp[p]]
    BY <1>2, <2>1, <2>3, RolesWait DEF HeldVersions, Waits
  <2>5. PICK t \in Snapshots!Versions : t = stamp[p]
    BY <2>3 DEF Snapshots!Versions, Timestamps
  <2>6. Snapshots!Acquire(p, t)
    <3>1. latest_timestamp' = latest_timestamp
      BY <2>1 DEF latest_timestamp
    <3> QED BY <2>1, <2>2, <2>3, <2>4, <2>5, <3>1
          DEF Snapshots!Acquire, Snapshots!None, NoTs, HeldVersions
  <2> QED BY <2>6 DEF Snapshots!Next
<1>5. CASE AcquireStep(p) /\ ~(RaiseCount(p) /\ CasSucceeds(p))
  <2> USE <1>1, <1>5 DEF AcquireStep, TypeOK, Goto, shared, locals, history
  <2>1. /\ UNCHANGED <<current_timestamp, since, reclaimed>>
        /\ \/ pc[p] \in Looking /\ pc'[p] \in Looking
           \/ pc[p] = "root" /\ pc'[p] = "held"
        /\ pc[p] = "root" => stamp'[p] = stamp[p]
    BY DEF ReadLatest, Find, CheckTombstone, LoadWord, ReadStamp, RaiseCount, ReadRoot,
           Looking, AcquireSteps
  <2>2. (Holding(p)' <=> Holding(p)) /\ (Holding(p) => stamp'[p] = stamp[p])
    BY <2>1 DEF Holding, Looking, AcquireSteps, BatchSteps
  <2>3. HeldVersions' = HeldVersions
    BY <1>2, <2>2, HeldByOthers
  <2> QED BY <2>1, <2>3 DEF Snapshots!vars, HeldVersions, latest_timestamp
<1> QED BY <1>3, <1>4, <1>5

(* A batch publishes the next version, and nothing else.                   *)
LEMMA BatchRefines ==
  ASSUME Calm, CalmInv, BatchStep
  PROVE  [Snapshots!Next]_(Snapshots!vars)
<1>1. TypeOK /\ Writer \in Procs
  BY ConstantTypes DEF CalmInv, Inv
<1>2. \A q \in Procs \ {Writer} : Waits(q)
  BY <1>1, OthersWait
<1>3. /\ pc[Writer] \in {"held"} \union BatchSteps
      /\ pc'[Writer] \in {"drop"} \union BatchSteps
      /\ UNCHANGED <<stamp, since, reclaimed>>
      /\ UNCHANGED current_timestamp \/ Publish
  BY <1>1 DEF BatchStep, BuildNext, ProbeInsert, StoreNew, Publish, BatchSteps, Goto, TypeOK,
     locals, history
<1>4. HeldVersions' = HeldVersions
  <2>1. Holding(Writer) /\ Holding(Writer)'
    BY <1>3 DEF Holding
  <2> QED BY <1>1, <1>2, <1>3, <2>1, HeldByOthers
<1>5. CASE UNCHANGED current_timestamp
  BY <1>3, <1>4, <1>5 DEF Snapshots!vars, HeldVersions, latest_timestamp
<1>6. CASE Publish
  <2>1. current_timestamp \in Nat /\ current_timestamp <= MaxTs /\ MaxTs \in Nat
    BY <1>1, <1>3, <1>6, ConstantTypes
       DEF Publish, CalmInv, Inv, RoomForBatch, BatchSteps, TypeOK
  <2>2. current_timestamp' = current_timestamp + 1
    BY <1>6 DEF Publish
  <2>3. latest_timestamp < MaxTs /\ latest_timestamp' = latest_timestamp + 1
    BY <2>1, <2>2 DEF latest_timestamp
  <2>4. Snapshots!Publish
    BY <1>3, <1>4, <2>3 DEF Snapshots!Publish, HeldVersions
  <2> QED BY <2>4 DEF Snapshots!Next
<1> QED BY <1>3, <1>5, <1>6

(* A decrement releases the thread's version; the claim reclaims a version *)
(* that is superseded, claimed by nobody before and held by nobody.        *)
LEMMA ReleaseRefines ==
  ASSUME Calm, CalmInv, NEW p \in Procs,
         ReleaseStep(p) \/ (p \in Readers /\ StartRelease(p))
  PROVE  [Snapshots!Next]_(Snapshots!vars)
<1>1. TypeOK /\ \A q \in Procs : ThreadInv(q)
  BY DEF CalmInv, Inv
<1>2. \A q \in Procs \ {p} : Waits(q)
  BY <1>1, OthersWait
<1>3. CASE DropCount(p)
  <2>1. /\ pc[p] = "drop" /\ pc'[p] \in {"idle", "latest?"}
        /\ UNCHANGED <<current_timestamp, since, reclaimed>>
    BY <1>1, <1>3 DEF DropCount, Finish, Continue, Goto, TypeOK, history
  <2>2. Holding(p) /\ ~Holding(p)'
    BY <2>1 DEF Holding, BatchSteps
  <2>3. HeldVersions' = [HeldVersions EXCEPT ![p] = NoTs]
    BY <1>2, <2>2, RolesWait DEF HeldVersions, Waits
  <2>4. HeldVersions[p] # NoTs
    <3>1. stamp[p] \in 0..latest_timestamp
      BY <1>1, <2>2 DEF ThreadInv, ObjectInv
    <3> QED BY <1>1, <2>2, <3>1, Numbers DEF HeldVersions, NoTs
  <2>5. Snapshots!Release(p)
    BY <2>1, <2>3, <2>4
       DEF Snapshots!Release, Snapshots!None, NoTs, HeldVersions, latest_timestamp
  <2> QED BY <2>5 DEF Snapshots!Next
<1>4. CASE ~DropCount(p)
  <2>1. /\ UNCHANGED <<current_timestamp, since>>
        /\ \/ pc[p] = "held" /\ pc'[p] = "drop" /\ stamp'[p] = stamp[p]
           \/ /\ pc[p] \in ReleaseSteps \ {"drop"}
              /\ pc'[p] \in {"idle"} \union (ReleaseSteps \ {"drop"})
        /\ UNCHANGED reclaimed \/ (ClaimLast(p) /\ CasSucceeds(p))
    <3> USE <1>1 DEF TypeOK, Goto, Finish, Continue, shared, locals, history, ReleaseSteps
    <3>1. CASE StartRelease(p)
      BY <3>1 DEF StartRelease
    <3>2. CASE CheckLatest(p) \/ Reread(p) \/ ClaimLast(p)
      BY <3>2 DEF CheckLatest, Reread, ClaimLast
    <3>3. CASE FreeRoot(p) \/ \E f \in Fields : ClearEntry(p, f) \/ BuryEntry(p, f)
      BY <3>3 DEF FreeRoot, ClearEntry, BuryEntry
    <3> QED BY <1>4, <3>1, <3>2, <3>3 DEF ReleaseStep
  <2>2. (Holding(p)' <=> Holding(p)) /\ (Holding(p) => stamp'[p] = stamp[p])
    BY <2>1 DEF Holding, ReleaseSteps, BatchSteps
  <2>3. HeldVersions' = HeldVersions
    BY <1>2, <2>2, HeldByOthers
  <2>4. CASE UNCHANGED reclaimed
    BY <2>1, <2>3, <2>4 DEF Snapshots!vars, HeldVersions, latest_timestamp
  <2>5. CASE ClaimLast(p) /\ CasSucceeds(p)
    <3>1. pc[p] = "claim" /\ MayBeLast(p) /\ reclaimed' = reclaimed \union {stamp[p]}
      BY <2>5 DEF ClaimLast, MayBeLast
    <3>2. /\ stamp[p] \in 0..(latest_timestamp - 1) /\ stamp[p] \notin reclaimed
          /\ entry[p] \in Slots /\ live_versions[entry[p]].key = stamp[p]
          /\ HoldersOf(entry[p]) = {}
      BY <2>5, <3>1, ClaimedIsAlone
    <3>3. stamp[p] \in Timestamps /\ stamp[p] < latest_timestamp /\ stamp[p] \in Nat
      BY <1>1, <3>2, Numbers
    <3>4. \A q \in Procs : HeldVersions[q] # stamp[p]
      <4>1. SUFFICES ASSUME NEW q \in Procs, Holding(q), stamp[q] = stamp[p] PROVE FALSE
        BY <3>3 DEF HeldVersions, NoTs
      <4>2. live_versions[entry[q]].key = live_versions[entry[p]].key
        BY <1>1, <3>2, <4>1 DEF ThreadInv, ObjectInv
      <4>3. entry[q] = entry[p]
        BY <1>1, <3>2, <3>3, <4>2 DEF CalmInv, TableInv, TypeOK
      <4> QED BY <3>2, <4>1, <4>3 DEF HoldersOf
    <3>5. Snapshots!Reclaim(stamp[p])
      BY <2>1, <2>3, <3>1, <3>2, <3>3, <3>4
         DEF Snapshots!Reclaim, HeldVersions, latest_timestamp
    <3> QED BY <3>3, <3>5 DEF Snapshots!Next, Snapshots!Versions, Timestamps
  <2> QED BY <2>1, <2>4, <2>5
<1> QED BY <1>3, <1>4

(* The table, its counts and its tombstones implement the abstract store,  *)
(* for every number of readers, versions and slots: a client gets a        *)
(* version that was current during its call and keeps it until it gives it *)
(* back, and a version is reclaimed once, when superseded and let go of.   *)
THEOREM StoreIsImplemented == ASSUME Calm PROVE Spec => ImplementsSnapshots
<1>1. Init => Snapshots!Init
  <2> SUFFICES ASSUME Init PROVE Snapshots!Init
    OBVIOUS
  <2>1. latest_timestamp = 0 /\ reclaimed = {} /\ since = [p \in Procs |-> NoTs]
    BY DEF Init, latest_timestamp
  <2>2. \A p \in Procs : ~Holding(p)
    BY DEF Init, Holding, BatchSteps
  <2> QED BY <2>1, <2>2 DEF Snapshots!Init, Snapshots!None, NoTs
<1>2. ASSUME CalmInv, [Next]_vars PROVE [Snapshots!Next]_(Snapshots!vars)
  <2>1. CASE BatchStep
    BY <1>2, <2>1, BatchRefines
  <2>2. ASSUME NEW p \in Procs, StartAcquire(p) \/ AcquireStep(p)
        PROVE  [Snapshots!Next]_(Snapshots!vars)
    BY <1>2, <2>2, AcquireRefines
  <2>3. ASSUME NEW p \in Procs, ReleaseStep(p) PROVE [Snapshots!Next]_(Snapshots!vars)
    BY <1>2, <2>3, ReleaseRefines
  <2>4. ASSUME NEW r \in Readers, StartRelease(r) PROVE [Snapshots!Next]_(Snapshots!vars)
    BY <1>2, <2>4, ReleaseRefines DEF Procs
  <2>5. CASE UNCHANGED vars
    BY <2>5 DEF vars, shared, locals, history, Snapshots!vars, Holding, latest_timestamp
  <2> QED BY <1>2, <2>1, <2>2, <2>3, <2>4, <2>5 DEF Next
<1> QED BY CalmInvariant, <1>1, <1>2, PTL DEF Spec, ImplementsSnapshots, Snapshots!Spec
-----------------------------------------------------------------------------
(* The slots the writer's insert has passed belong to versions somebody    *)
(* holds, one thread to each at least.                                     *)
PassedAreHeld ==
  pc[Writer] \in BatchSteps =>
    \A s \in Slots : s < probe => live_versions[s].key \in 0..latest_timestamp

UsedAreFirst ==
  \A s \in Slots : live_versions[s].key # max_ts => s <= Cardinality(Readers) + 1

SlotInv == PassedAreHeld /\ UsedAreFirst

(* An insert passes no more slots than there are threads.                  *)
LEMMA PassedIsBounded ==
  ASSUME CalmInv, SlotInv, pc[Writer] \in BatchSteps
  PROVE  probe <= Cardinality(Readers) + 1
<1>1. TypeOK /\ probe \in Nat /\ \A s \in 0..(probe - 1) : s \in Slots /\ s < probe
  BY ConstantTypes DEF CalmInv, Inv, TypeOK, Slots
<1>2. /\ IsFiniteSet(Procs) /\ Cardinality(Procs) = Cardinality(Readers) + 1
      /\ Cardinality(Readers) \in Nat
  BY CountAssumption, WriterAssumption, FS_AddElement, FS_CardinalityType DEF Procs
<1>3. IsFiniteSet(0..(probe - 1)) /\ Cardinality(0..(probe - 1)) = probe
  BY <1>1, FS_Interval
<1>4. ASSUME NEW s \in 0..(probe - 1)
      PROVE  \E q \in Procs : Holding(q) /\ stamp[q] = live_versions[s].key
  <2>1. s \in Slots /\ live_versions[s].key \in 0..latest_timestamp
    BY <1>1 DEF SlotInv, PassedAreHeld
  <2>2. CASE live_versions[s].key = latest_timestamp
    BY <2>2, InsertIsCalm, ConstantTypes
  <2>3. CASE live_versions[s].key # latest_timestamp
    <3>1. live_versions[s].key \in 0..(latest_timestamp - 1)
      BY <1>1, <2>1, <2>3, Numbers
    <3>2. live_versions[s].key \notin reclaimed
      BY <2>1, InsertIsCalm DEF CalmInv, EntryInv
    <3>3. PICK q \in Procs : stamp[q] = live_versions[s].key /\ (Holding(q) \/ MayBeLast(q))
      BY <3>1, <3>2 DEF CalmInv, HistoryInv, NoneForgotten, MayBeLast
    <3>4. stamp[q] # latest_timestamp
      BY <2>3, <3>3
    <3> QED BY <3>3, <3>4, InsertIsCalm
  <2> QED BY <2>2, <2>3
<1> DEFINE h == [s \in 0..(probe - 1) |->
                   CHOOSE q \in Procs : Holding(q) /\ stamp[q] = live_versions[s].key]
<1>5. \A s \in 0..(probe - 1) : h[s] \in Procs /\ stamp[h[s]] = live_versions[s].key
  BY <1>4
<1>6. h \in [0..(probe - 1) -> Procs]
  BY <1>5
<1>7. \A s, t \in 0..(probe - 1) : h[s] = h[t] => s = t
  <2>1. SUFFICES ASSUME NEW s \in 0..(probe - 1), NEW t \in 0..(probe - 1), h[s] = h[t]
                 PROVE  s = t
    OBVIOUS
  <2>2. live_versions[s].key = live_versions[t].key
    BY <1>5, <2>1
  <2>3. s \in Slots /\ t \in Slots /\ live_versions[s].key \in Timestamps
    BY <1>1, Numbers DEF SlotInv, PassedAreHeld
  <2> QED BY <2>2, <2>3 DEF CalmInv, TableInv
<1> HIDE DEF h
<1>8. ~(Cardinality(Procs) < Cardinality(0..(probe - 1)))
  <2> DEFINE S == 0..(probe - 1)
  <2>1. IsFiniteSet(S) /\ h \in [S -> Procs]
    BY <1>3, <1>6
  <2>2. ~\E s, t \in S : s # t /\ h[s] = h[t]
    BY <1>7
  <2> HIDE DEF S
  <2>3. Cardinality(Procs) < Cardinality(S) => \E s, t \in S : s # t /\ h[s] = h[t]
    BY <1>2, <2>1, FS_PigeonHole
  <2>4. ~(Cardinality(Procs) < Cardinality(S))
    BY <2>2, <2>3
  <2> QED BY <2>4 DEF S
<1> QED BY <1>1, <1>2, <1>3, <1>8

(* A call changes no key before it clears or buries an entry.              *)
LEMMA KeysStay ==
  ASSUME TypeOK, NEW p \in Procs,
         \/ StartAcquire(p) \/ AcquireStep(p) \/ StartRelease(p) \/ DropCount(p)
         \/ CheckLatest(p) \/ Reread(p) \/ ClaimLast(p) \/ FreeRoot(p)
  PROVE  \A s \in Slots : live_versions'[s].key = live_versions[s].key
<1>1. ASSUME NEW w, live_versions' = [live_versions EXCEPT ![entry[p]].word = w]
      PROVE  \A s \in Slots : live_versions'[s].key = live_versions[s].key
  BY <1>1 DEF TypeOK, Entries
<1>2. CASE StartAcquire(p) \/ AcquireStep(p)
  <2>1. \/ UNCHANGED live_versions
        \/ \E w : live_versions' = [live_versions EXCEPT ![entry[p]].word = w]
    BY <1>2 DEF StartAcquire, AcquireStep, ReadLatest, Find, CheckTombstone, LoadWord,
       ReadStamp, RaiseCount, ReadRoot, shared
  <2> QED BY <1>1, <2>1
<1>3. CASE CheckLatest(p) \/ Reread(p) \/ FreeRoot(p) \/ StartRelease(p)
  BY <1>3 DEF CheckLatest, Reread, FreeRoot, StartRelease, shared
<1>4. CASE DropCount(p)
  BY <1>1, <1>4 DEF DropCount
<1>5. CASE ClaimLast(p)
  <2>1. \/ UNCHANGED live_versions
        \/ \E w : live_versions' = [live_versions EXCEPT ![entry[p]].word = w]
    BY <1>5 DEF ClaimLast
  <2> QED BY <1>1, <2>1
<1> QED BY <1>2, <1>3, <1>4, <1>5

(* Outside StoreNew no slot comes into use.                                *)
LEMMA UsedStep ==
  ASSUME CalmInv, [Next]_vars, \A f \in Fields : ~StoreNew(f)
  PROVE  \A s \in Slots : live_versions'[s].key # max_ts => live_versions[s].key # max_ts
<1>1. TypeOK /\ \A s \in Slots : live_versions[s] \in Entries
  BY DEF CalmInv, Inv, TypeOK
<1>2. CASE UNCHANGED live_versions
  BY <1>2
<1>3. ASSUME NEW p \in Procs, NEW f \in Fields, ClearEntry(p, f) \/ BuryEntry(p, f)
      PROVE  \A s \in Slots : live_versions'[s].key # max_ts => live_versions[s].key # max_ts
  <2>1. FreesInv(p) /\ Frees(p)
    BY <1>3 DEF CalmInv, ThreadInv, Frees, ClearEntry, BuryEntry
  <2>2. live_versions[entry[p]].key \in {stamp[p], tombstone} /\ stamp[p] \in reclaimed
    BY <2>1 DEF FreesInv
  <2>3. \A t \in reclaimed : t \in Timestamps
    BY <1>1, Numbers DEF CalmInv, HistoryInv
  <2>4. live_versions[entry[p]].key # max_ts
    BY <1>1, <2>2, <2>3, Numbers
  <2>5. \A s \in Slots \ {entry[p]} : live_versions'[s] = live_versions[s]
    BY <1>1, <1>3 DEF ClearEntry, BuryEntry, TypeOK
  <2> QED BY <2>4, <2>5
<1>4. CASE BatchStep
  BY <1>2, <1>4 DEF BatchStep, BuildNext, ProbeInsert, Publish
<1>5. CASE UNCHANGED vars
  BY <1>2, <1>5 DEF vars, shared
<1> QED BY <1>1, <1>3, <1>4, <1>5, KeysStay DEF Next, ReleaseStep, Procs

(* A slot comes into use only where an insert has passed all before it.    *)
LEMMA SlotStep ==
  ASSUME Calm, CalmInv, CalmInv', SlotInv, [Next]_vars
  PROVE  SlotInv'
<1>1. TypeOK /\ Writer \in Procs /\ Cardinality(Readers) \in Nat
  BY ConstantTypes, CountAssumption, FS_CardinalityType DEF CalmInv, Inv
<1>2. CASE \A f \in Fields : ~StoreNew(f)
  <2>1. UsedAreFirst'
    BY <1>2, UsedStep DEF SlotInv, UsedAreFirst
  <2>2. PassedAreHeld'
    <3>1. CASE BuildNext
      <4>1. probe' = 0
        BY <3>1 DEF BuildNext, firstIndex
      <4>2. \A s \in Slots : ~(s < 0)
        BY ConstantTypes DEF Slots
      <4> QED BY <4>1, <4>2 DEF PassedAreHeld
    <3>2. CASE ProbeInsert
      <4>1. /\ pc[Writer] = "insert" /\ latest_timestamp' = latest_timestamp
            /\ UNCHANGED live_versions
            /\ \/ probe' = probe
               \/ probe' = incrementIndex(probe) /\ ~CanBeTaken(live_versions[probe].key)
        BY <3>2 DEF ProbeInsert, latest_timestamp
      <4>2. \A s \in Slots : s < probe => live_versions[s].key \in 0..latest_timestamp
        BY <4>1 DEF SlotInv, PassedAreHeld, BatchSteps
      <4>3. ~CanBeTaken(live_versions[probe].key) =>
              live_versions[probe].key \in 0..latest_timestamp
        BY <1>1, <4>1 DEF CalmInv, TableInv, Filling, CanBeTaken, TypeOK
      <4>4. \A s \in Slots : s < incrementIndex(probe) => s <= probe
        <5>1. \A a \in Nat, n \in Nat \ {0} : a % n <= a
          OBVIOUS
        <5>2. probe \in Nat /\ probe + 1 \in Nat /\ NumSlots \in Nat \ {0}
          BY <1>1, ConstantTypes DEF Slots, TypeOK
        <5>3. (probe + 1) % NumSlots <= probe + 1 /\ (probe + 1) % NumSlots \in Nat
          BY <5>1, <5>2
        <5> QED BY <5>2, <5>3 DEF incrementIndex, Slots
      <4>5. \A s \in Slots : s <= probe => s < probe \/ s = probe
        BY <1>1, ConstantTypes DEF Slots, TypeOK
      <4> QED BY <4>1, <4>2, <4>3, <4>4, <4>5 DEF PassedAreHeld
    <3>3. CASE Publish
      BY <1>1, <3>3 DEF Publish, Goto, TypeOK, PassedAreHeld, BatchSteps
    <3>4. ASSUME NEW p \in Procs,
                 StartAcquire(p) \/ AcquireStep(p) \/ ReleaseStep(p) \/ StartRelease(p)
          PROVE  PassedAreHeld'
      <4>1. pc'[p] \notin BatchSteps /\ UNCHANGED <<current_timestamp, probe>>
        <5> USE <1>1 DEF TypeOK, Goto, shared, AcquireSteps, ReleaseSteps, BatchSteps
        <5>1. CASE StartAcquire(p) \/ StartRelease(p)
          BY <5>1 DEF StartAcquire, StartRelease
        <5>2. CASE AcquireStep(p)
          BY <5>2 DEF AcquireStep, ReadLatest, Find, CheckTombstone, LoadWord, ReadStamp,
             RaiseCount, ReadRoot
        <5>3. CASE DropCount(p) \/ CheckLatest(p) \/ Reread(p) \/ ClaimLast(p)
          BY <5>3 DEF DropCount, CheckLatest, Reread, ClaimLast, Finish, Continue
        <5>4. CASE FreeRoot(p) \/ \E f \in Fields : ClearEntry(p, f) \/ BuryEntry(p, f)
          BY <5>4 DEF FreeRoot, ClearEntry, BuryEntry, Finish
        <5> QED BY <3>4, <5>1, <5>2, <5>3, <5>4 DEF ReleaseStep
      <4>2. CASE p = Writer
        BY <4>1, <4>2 DEF PassedAreHeld
      <4>3. CASE p # Writer
        <5>1. pc'[Writer] = pc[Writer]
          BY <1>1, <3>4, <4>3, OthersWait DEF Waits
        <5>2. SUFFICES ASSUME pc[Writer] \in BatchSteps
                       PROVE  \A s \in Slots : live_versions'[s].key = live_versions[s].key
          BY <4>1, <5>1 DEF SlotInv, PassedAreHeld, latest_timestamp
        <5>3. ~Frees(p)
          BY <5>2, InsertIsCalm
        <5>4. \A f \in Fields : ~ClearEntry(p, f) /\ ~BuryEntry(p, f)
          BY <5>3 DEF Frees, ClearEntry, BuryEntry
        <5>5. \/ StartAcquire(p) \/ AcquireStep(p) \/ StartRelease(p) \/ DropCount(p)
              \/ CheckLatest(p) \/ Reread(p) \/ ClaimLast(p) \/ FreeRoot(p)
          BY <3>4, <5>4 DEF ReleaseStep
        <5> QED BY <1>1, <5>5, KeysStay
      <4> QED BY <4>2, <4>3
    <3>5. CASE UNCHANGED vars
      BY <3>5 DEF vars, shared, SlotInv, PassedAreHeld, latest_timestamp
    <3> QED BY <1>2, <3>1, <3>2, <3>3, <3>4, <3>5 DEF Next, BatchStep, Procs
  <2> QED BY <2>1, <2>2 DEF SlotInv
<1>3. ASSUME NEW f \in Fields, StoreNew(f) PROVE SlotInv'
  <2>1. /\ pc[Writer] = "store" /\ probe' = probe /\ latest_timestamp' = latest_timestamp
        /\ \A s \in Slots \ {probe} : live_versions'[s] = live_versions[s]
    BY <1>1, <1>3 DEF StoreNew, TypeOK, latest_timestamp
  <2>2. probe <= Cardinality(Readers) + 1
    BY <2>1, PassedIsBounded DEF BatchSteps
  <2>3. PassedAreHeld'
    <3>1. \A s \in Slots : s < probe => s # probe
      BY <1>1, ConstantTypes DEF TypeOK, Slots
    <3>2. \A s \in Slots : s < probe => live_versions[s].key \in 0..latest_timestamp
      BY <2>1 DEF SlotInv, PassedAreHeld, BatchSteps
    <3> QED BY <2>1, <3>1, <3>2 DEF PassedAreHeld
  <2>4. UsedAreFirst'
    BY <2>1, <2>2 DEF SlotInv, UsedAreFirst
  <2> QED BY <2>3, <2>4 DEF SlotInv
<1> QED BY <1>2, <1>3

(* However many versions are published, the table needs no more slots than *)
(* one for each reader, the latest version and the next one.               *)
THEOREM SlotsAreBounded == ASSUME Calm PROVE Spec => []UsedSlotsAreBounded
<1>1. Init => SlotInv
  <2> SUFFICES ASSUME Init PROVE SlotInv
    OBVIOUS
  <2>1. PassedAreHeld
    BY ConstantTypes DEF Init, PassedAreHeld, BatchSteps
  <2>2. \A s \in Slots : s # 0 => live_versions[s].key = max_ts
    BY DEF Init, firstIndex, empty
  <2>3. 0 <= Cardinality(Readers) + 1
    BY CountAssumption, FS_CardinalityType
  <2> QED BY <2>1, <2>2, <2>3 DEF SlotInv, UsedAreFirst
<1>2. CalmInv /\ CalmInv' /\ SlotInv /\ [Next]_vars => SlotInv'
  BY SlotStep
<1>3. ASSUME SlotInv PROVE UsedSlotsAreBounded
  <2> DEFINE used == {s \in Slots : live_versions[s].key # max_ts}
             most == 0..(Cardinality(Readers) + 1)
  <2>1. Cardinality(Readers) \in Nat
    BY CountAssumption, FS_CardinalityType
  <2>2. IsFiniteSet(most) /\ Cardinality(most) = Cardinality(Readers) + 2
    <3>1. 0 \in Int /\ Cardinality(Readers) + 1 \in Int
      BY <2>1
    <3> QED BY <2>1, <3>1, FS_Interval
  <2>3. used \in SUBSET most
    BY <1>3, <2>1, ConstantTypes DEF SlotInv, UsedAreFirst, Slots
  <2> HIDE DEF most, used
  <2>4. Cardinality(used) <= Cardinality(most)
    BY <2>2, <2>3, FS_Subset
  <2> QED BY <2>2, <2>4 DEF UsedSlotsAreBounded, used
<1> QED BY CalmInvariant, <1>1, <1>2, <1>3, PTL DEF Spec
=============================================================================
