----------------------- MODULE VersionedGraphCalmProofs -----------------------
(***************************************************************************)
(* Theorems about VersionedGraph for any number of readers, versions and   *)
(* slots, in the behaviours in which no reader disturbs an insert: readers *)
(* acquire and release beside every step of the writer, but when an insert *)
(* into the table begins, no acquire is under way that began before the    *)
(* latest version was published, and until its version is published no     *)
(* superseded version is being released.  Then every entry counts its      *)
(* holders exactly, every snapshot stays intact, and no version is freed   *)
(* twice or forgotten.  The code does not enforce this: without it a late  *)
(* burial destroys a published entry, as the run vg_lock_free shows.       *)
(***************************************************************************)
EXTENDS VersionedGraphProofs, FiniteSetTheorems

Looking == AcquireSteps \ {"root"}

\* p looks at a slot it has found its version in.
Found(p) == pc[p] \in {"tomb?", "load", "stamp", "cas"}

\* p may have brought its version down to the table's own count.
MayBeLast(p) == pc[p] \in {"latest?", "reread", "claim"}
Frees(p) == pc[p] \in {"free", "clear", "bury"}

Filling(s) == pc[Writer] \in {"store", "publish"} /\ s = probe

(* While a batch enters its version, readers look for the latest version   *)
(* and release no other: what Calm keeps.                                  *)
BatchIsCalm ==
  pc[Writer] \in BatchSteps => \A r \in Readers :
    /\ since[r] \in {NoTs, latest_timestamp}
    /\ pc[r] \in ReleaseSteps => stamp[r] = latest_timestamp

(* A thread looks for a version that was the latest one during its call.   *)
(* The slot it has found is that version's or buried; what it is about to  *)
(* swap was a count of that slot, and never is zero.                       *)
LookingInv(p) ==
  /\ IF pc[p] \in Looking THEN since[p] \in 0..latest_timestamp ELSE since[p] = NoTs
  /\ p = Writer /\ pc[p] \in Looking => since[p] = latest_timestamp
  /\ pc[p] \in Looking \ {"loop"} => want[p] \in since[p]..latest_timestamp
  /\ Found(p) =>
       /\ live_versions[entry[p]].key \in {want[p], tombstone}
       /\ want[p] = latest_timestamp => live_versions[entry[p]].key = latest_timestamp
  /\ pc[p] = "cas" =>
       /\ word[p].ct > 0
       /\ \/ stamp[p] = want[p]
          \/ stamp[p] = tombstone /\ live_versions[entry[p]].key = tombstone

(* The entry of a version object is that version's.  Who has given the     *)
(* version back may find it freed by another.                              *)
ObjectInv(p) ==
  /\ Holding(p) =>
       /\ stamp[p] \in 0..latest_timestamp
       /\ live_versions[entry[p]].key = stamp[p]
       /\ pc[p] # "root" => root[p] = live_versions[entry[p]].root
  /\ MayBeLast(p) =>
       /\ stamp[p] \in 0..latest_timestamp
       /\ \/ /\ live_versions[entry[p]].key = stamp[p]
             /\ stamp[p] \notin reclaimed => root[p] = live_versions[entry[p]].root
          \/ live_versions[entry[p]].key = tombstone /\ stamp[p] \in reclaimed

(* Only a superseded version is claimed, from the table's own count.       *)
LastInv(p) ==
  /\ pc[p] \in {"reread", "claim"} => stamp[p] # latest_timestamp
  /\ pc[p] = "claim" => word[p] = make_refct(stamp[p], 1)

(* Who frees a version is alone with its entry until it is a tombstone.    *)
FreesInv(p) ==
  Frees(p) =>
    /\ stamp[p] \in reclaimed
    /\ \A q \in Procs : Holding(q) => entry[q] # entry[p]
    /\ live_versions[entry[p]].key \in {stamp[p], tombstone}
    /\ pc[p] # "bury" => live_versions[entry[p]].key = stamp[p]
    /\ pc[p] # "free" => todo[p] # {}
    /\ pc[p] = "bury" /\ "key" \notin todo[p] => live_versions[entry[p]].key = tombstone
    /\ pc[p] = "free" =>
         /\ root[p] \in {nullptr, stamp[p]}
         /\ root[p] # nullptr => rc[stamp[p]] = 1

AloneInv == \A p, q \in Procs : p # q /\ Frees(p) /\ Frees(q) => entry[p] # entry[q]

(* The count of an entry that is freed or buried is zero, until the next   *)
(* insert takes its slot: no acquire can raise it.                         *)
ZeroInv ==
  \A s \in Slots :
    ~Filling(s) /\ (BeingFreed(s) \/ live_versions[s].key = tombstone) =>
      live_versions[s].word.ct = 0

(* The batch of the writer: the version it builds on is the latest one,    *)
(* and the entry it fills is the next one's as far as it is filled.        *)
WriterInv ==
  /\ Holding(Writer) /\ pc[Writer] # "drop" => stamp[Writer] = latest_timestamp
  /\ pc[Writer] \in BatchSteps =>
       /\ next_root \in {current_timestamp, nullptr}
       /\ next_root # nullptr => rc[current_timestamp] = 1
  /\ pc[Writer] = "store" =>
       /\ todo[Writer] # {}
       /\ live_versions[probe].key \in {max_ts, tombstone, current_timestamp}
       /\ \A f \in Fields \ todo[Writer] :
            live_versions[probe][f] = new_entry(current_timestamp, next_root)[f]
  /\ pc[Writer] = "publish" =>
       live_versions[probe] = new_entry(current_timestamp, next_root)

(* A version has at most one entry, and the latest one has its own.        *)
TableInv ==
  /\ \A s \in Slots :
       \/ live_versions[s].key \in (0..latest_timestamp) \union {max_ts, tombstone}
       \/ Filling(s) /\ live_versions[s].key = current_timestamp
  /\ \A s1, s2 \in Slots :
       live_versions[s1].key = live_versions[s2].key /\ live_versions[s1].key \in Timestamps
         => s1 = s2
  /\ \E s \in Slots : live_versions[s].key = latest_timestamp

(* The entry of a version nobody frees has the exact count, and the root   *)
(* of a tree that is allocated.                                            *)
EntryInv ==
  \A s \in Slots :
    live_versions[s].key \in 0..latest_timestamp /\ ~BeingFreed(s) =>
      /\ live_versions[s].word =
           make_refct(live_versions[s].key, 1 + Cardinality(HoldersOf(s)))
      /\ live_versions[s].root \in {nullptr, live_versions[s].key}
      /\ live_versions[s].root # nullptr => rc[live_versions[s].key] = 1
      /\ live_versions[s].key \notin reclaimed

(* Only superseded versions are reclaimed, and none is forgotten.          *)
HistoryInv == reclaimed \subseteq 0..(latest_timestamp - 1) /\ NoneForgotten

ThreadInv(p) == LookingInv(p) /\ ObjectInv(p) /\ LastInv(p) /\ FreesInv(p)

CalmInv ==
  /\ Inv
  /\ BatchIsCalm
  /\ \A p \in Procs : ThreadInv(p)
  /\ AloneInv
  /\ ZeroInv
  /\ WriterInv
  /\ TableInv
  /\ EntryInv
  /\ HistoryInv
  /\ FreedOnce
-----------------------------------------------------------------------------
(* A set of threads is finite, and the count of a word has room for it.    *)
LEMMA CountRoom ==
  ASSUME NEW H \in SUBSET Procs
  PROVE  /\ IsFiniteSet(H) /\ Cardinality(H) \in Nat
         /\ \A p \in Procs \ H :
              /\ Cardinality(H) + 1 < MaxRefct
              /\ Cardinality(H \union {p}) = Cardinality(H) + 1
         /\ \A p \in H :
              /\ Cardinality(H) > 0
              /\ Cardinality(H \ {p}) = Cardinality(H) - 1
              /\ Cardinality(H) = 1 => H = {p}
              /\ Cardinality(H) # 1 => \E q \in H : q # p
         /\ H = {} <=> Cardinality(H) = 0
<1>1. /\ IsFiniteSet(Procs)
      /\ Cardinality(Procs) = Cardinality(Readers) + 1
      /\ Cardinality(Readers) \in Nat
  BY CountAssumption, WriterAssumption, FS_AddElement, FS_CardinalityType DEF Procs
<1>2. IsFiniteSet(H) /\ Cardinality(H) \in Nat
  BY <1>1, FS_Subset, FS_CardinalityType
<1>3. ASSUME NEW p \in Procs \ H
      PROVE  /\ Cardinality(H) + 1 < MaxRefct
             /\ Cardinality(H \union {p}) = Cardinality(H) + 1
  <2>1. Cardinality(H \union {p}) = Cardinality(H) + 1
    BY <1>2, <1>3, FS_AddElement
  <2>2. H \union {p} \in SUBSET Procs
    BY <1>3
  <2>3. Cardinality(H \union {p}) <= Cardinality(Procs)
    BY <1>1, <2>2, FS_Subset
  <2> QED BY <1>1, <1>2, <2>1, <2>3, CountAssumption, BoundsAssumption
<1>4. ASSUME NEW p \in H
      PROVE  /\ Cardinality(H) > 0
             /\ Cardinality(H \ {p}) = Cardinality(H) - 1
             /\ Cardinality(H) = 1 => H = {p}
             /\ Cardinality(H) # 1 => \E q \in H : q # p
  <2>1. Cardinality(H \ {p}) = Cardinality(H) - 1
    BY <1>2, <1>4, FS_RemoveElement
  <2>2. IsFiniteSet(H \ {p}) /\ Cardinality(H \ {p}) \in Nat
    BY <1>2, FS_RemoveElement, FS_CardinalityType
  <2>3. Cardinality(H \ {p}) = 0 <=> H \ {p} = {}
    BY <2>2, FS_EmptySet
  <2> QED BY <1>2, <1>4, <2>1, <2>2, <2>3
<1>5. H = {} <=> Cardinality(H) = 0
  BY <1>2, FS_EmptySet
<1> QED BY <1>2, <1>3, <1>4, <1>5

(* What a thread's step leaves of another thread.                          *)
Waits(q) ==
  /\ pc'[q] = pc[q] /\ want'[q] = want[q] /\ entry'[q] = entry[q]
  /\ word'[q] = word[q] /\ stamp'[q] = stamp[q] /\ root'[q] = root[q]
  /\ todo'[q] = todo[q] /\ since'[q] = since[q]

(* A step of one thread changes the locals of no other.                    *)
LEMMA OthersWait ==
  ASSUME TypeOK, NEW p \in Procs,
         \/ StartAcquire(p) \/ AcquireStep(p) \/ ReleaseStep(p)
         \/ StartRelease(p)
         \/ p = Writer /\ BatchStep
  PROVE  \A q \in Procs \ {p} : Waits(q)
<1> SUFFICES ASSUME NEW q \in Procs, q # p PROVE Waits(q)
  OBVIOUS
<1> USE DEF TypeOK, Waits, Goto, Finish, Continue, shared, locals, history
<1>1. StartAcquire(p) \/ StartRelease(p) => Waits(q)
  BY DEF StartAcquire, StartRelease
<1>2. AcquireStep(p) => Waits(q)
  BY DEF AcquireStep, ReadLatest, Find, CheckTombstone, LoadWord, ReadStamp,
     RaiseCount, ReadRoot
<1>3. DropCount(p) \/ CheckLatest(p) => Waits(q)
  BY DEF DropCount, CheckLatest
<1>4. Reread(p) \/ ClaimLast(p) \/ FreeRoot(p) => Waits(q)
  BY DEF Reread, ClaimLast, FreeRoot
<1>5. \A f \in Fields : ClearEntry(p, f) \/ BuryEntry(p, f) => Waits(q)
  BY DEF ClearEntry, BuryEntry
<1>6. p = Writer /\ BatchStep => Waits(q)
  BY DEF BatchStep, BuildNext, ProbeInsert, StoreNew, Publish
<1> QED BY <1>1, <1>2, <1>3, <1>4, <1>5, <1>6 DEF ReleaseStep

(* Where the latest version and the reserved keys lie.                     *)
LEMMA Numbers ==
  ASSUME TypeOK
  PROVE  /\ latest_timestamp \in Timestamps /\ latest_timestamp \in Nat
         /\ current_timestamp = latest_timestamp + 1
         /\ 0..latest_timestamp \subseteq Timestamps
         /\ Timestamps \subseteq Nat
         /\ tombstone \notin Timestamps /\ max_ts \notin Timestamps
         /\ tombstone # max_ts
BY ConstantTypes DEF TypeOK, latest_timestamp, Timestamps, tombstone, max_ts

(* The roles of the threads that wait are theirs still.                    *)
LEMMA RolesWait ==
  ASSUME NEW p \in Procs, \A q \in Procs \ {p} : Waits(q)
  PROVE  \A q \in Procs \ {p} :
           /\ Holding(q)' <=> Holding(q)
           /\ MayBeLast(q)' <=> MayBeLast(q)
           /\ Frees(q)' <=> Frees(q)
BY DEF Waits, Holding, MayBeLast, Frees

(* No version is forgotten by a step before which whoever kept it from     *)
(* that still does, or another thread does.                                *)
LEMMA KeptStep ==
  ASSUME HistoryInv,
         latest_timestamp' = latest_timestamp, reclaimed \subseteq reclaimed',
         reclaimed' \subseteq 0..(latest_timestamp - 1),
         \A q \in Procs :
           /\ Holding(q) \/ MayBeLast(q)
           /\ stamp[q] \in (0..(latest_timestamp - 1)) \ reclaimed'
           => \E r \in Procs : stamp'[r] = stamp[q] /\ (Holding(r)' \/ MayBeLast(r)')
  PROVE  HistoryInv'
<1>1. ASSUME NEW t \in (0..(latest_timestamp - 1)) \ reclaimed'
      PROVE  \E r \in Procs : stamp'[r] = t /\ (Holding(r)' \/ MayBeLast(r)')
  <2>1. PICK q \in Procs : stamp[q] = t /\ (Holding(q) \/ MayBeLast(q))
    BY <1>1 DEF HistoryInv, NoneForgotten, MayBeLast
  <2> QED BY <1>1, <2>1
<1> QED BY <1>1 DEF HistoryInv, NoneForgotten, MayBeLast

(* The batch of the writer and the slot it fills are left alone by a step  *)
(* outside the batch that keeps to the versions the batch allows.          *)
LEMMA BatchStays ==
  ASSUME CalmInv, NEW p \in Procs, \A q \in Procs \ {p} : Waits(q),
         UNCHANGED <<current_timestamp, next_root, probe>>,
         pc[p] \notin BatchSteps, pc'[p] \notin BatchSteps,
         p = Writer /\ pc'[p] \in {"root", "held"} => stamp'[p] = latest_timestamp,
         pc[Writer] \in BatchSteps =>
           /\ since'[p] \in {NoTs, latest_timestamp}
           /\ pc'[p] \in ReleaseSteps => stamp'[p] = latest_timestamp
           /\ rc'[current_timestamp] = rc[current_timestamp]
           /\ Filling(probe) => live_versions'[probe] = live_versions[probe]
  PROVE  /\ BatchIsCalm' /\ WriterInv'
         /\ \A s : Filling(s)' <=> Filling(s)
<1>1. Writer \in Procs /\ Readers \subseteq Procs \ {Writer}
  BY WriterAssumption DEF Procs
<1>2. latest_timestamp' = latest_timestamp
  BY DEF latest_timestamp
<1>3. {"store", "publish"} \subseteq BatchSteps
  BY DEF BatchSteps
<1>4. CASE p = Writer
  <2>1. BatchIsCalm' /\ \A s : ~Filling(s)' /\ ~Filling(s)
    BY <1>3, <1>4 DEF BatchIsCalm, Filling
  <2>2. Holding(Writer)' /\ pc'[Writer] # "drop" => pc'[Writer] \in {"root", "held"}
    BY <1>4 DEF Holding
  <2>3. WriterInv'
    BY <1>2, <1>3, <1>4, <2>2 DEF WriterInv
  <2> QED BY <2>1, <2>3
<1>5. CASE p # Writer
  <2>1. Waits(Writer)
    BY <1>1, <1>5
  <2>2. \A s : Filling(s)' <=> Filling(s)
    BY <2>1 DEF Filling, Waits
  <2>3. BatchIsCalm'
    <3>1. SUFFICES ASSUME pc[Writer] \in BatchSteps, NEW r \in Readers
                   PROVE  /\ since'[r] \in {NoTs, latest_timestamp}
                          /\ pc'[r] \in ReleaseSteps => stamp'[r] = latest_timestamp
      BY <1>2, <2>1 DEF BatchIsCalm, Waits
    <3>2. CASE r = p
      BY <3>1, <3>2
    <3>3. CASE r # p
      <4>1. Waits(r)
        BY <1>1, <3>3
      <4> QED BY <3>1, <4>1 DEF CalmInv, BatchIsCalm, Waits
    <3> QED BY <3>2, <3>3
  <2>4. WriterInv'
    <3>1. WriterInv
      BY DEF CalmInv
    <3>2. Holding(Writer)' <=> Holding(Writer)
      BY <2>1 DEF Holding, Waits
    <3>3. pc[Writer] \in {"store", "publish"} => live_versions'[probe] = live_versions[probe]
      BY <1>3 DEF Filling
    <3> QED BY <1>2, <1>3, <2>1, <3>1, <3>2, <3>3 DEF WriterInv, Waits
  <2> QED BY <2>2, <2>3, <2>4
<1> QED BY <1>4, <1>5

(* While a batch enters its version nobody frees one, whoever releases the *)
(* latest version leaves it alone, and whoever looks finds its entry.      *)
LEMMA InsertIsCalm ==
  ASSUME CalmInv, pc[Writer] \in BatchSteps
  PROVE  /\ Holding(Writer) /\ stamp[Writer] = latest_timestamp
         /\ \A q \in Procs :
              /\ ~Frees(q)
              /\ MayBeLast(q) => pc[q] = "latest?" /\ stamp[q] = latest_timestamp
              /\ since[q] \in {NoTs, latest_timestamp}
              /\ Found(q) =>
                   want[q] = latest_timestamp /\ live_versions[entry[q]].key = latest_timestamp
         /\ \A s \in Slots : ~BeingFreed(s)
<1>1. TypeOK /\ \A q \in Procs : ThreadInv(q)
  BY DEF CalmInv, Inv
<1>2. Holding(Writer) /\ stamp[Writer] = latest_timestamp
  <2>1. Holding(Writer) /\ pc[Writer] # "drop"
    BY DEF Holding, BatchSteps
  <2> QED BY <2>1 DEF CalmInv, WriterInv
<1>3. \A t \in reclaimed : t # latest_timestamp
  BY <1>1, Numbers DEF CalmInv, HistoryInv
<1>4. ASSUME NEW q \in Procs
      PROVE  /\ ~Frees(q)
             /\ MayBeLast(q) => pc[q] = "latest?" /\ stamp[q] = latest_timestamp
             /\ since[q] \in {NoTs, latest_timestamp}
             /\ Found(q) =>
                  want[q] = latest_timestamp /\ live_versions[entry[q]].key = latest_timestamp
  <2>1. /\ since[q] \in {NoTs, latest_timestamp}
        /\ pc[q] \in ReleaseSteps => stamp[q] = latest_timestamp
    <3>1. CASE q = Writer
      <4>1. pc[q] \notin Looking /\ pc[q] \notin ReleaseSteps
        BY <3>1 DEF Looking, AcquireSteps, BatchSteps, ReleaseSteps
      <4>2. LookingInv(q)
        BY <1>1 DEF ThreadInv
      <4> QED BY <4>1, <4>2 DEF LookingInv
    <3>2. CASE q # Writer
      BY <3>2 DEF CalmInv, BatchIsCalm, Procs
    <3> QED BY <3>1, <3>2
  <2>2. ~Frees(q)
    <3>1. Frees(q) => pc[q] \in ReleaseSteps
      BY DEF Frees, ReleaseSteps
    <3>2. Frees(q) => stamp[q] \in reclaimed
      BY <1>1 DEF ThreadInv, FreesInv
    <3> QED BY <1>3, <2>1, <3>1, <3>2
  <2>3. MayBeLast(q) => pc[q] = "latest?" /\ stamp[q] = latest_timestamp
    <3>1. MayBeLast(q) => pc[q] \in ReleaseSteps
      BY DEF MayBeLast, ReleaseSteps
    <3>2. pc[q] \in {"reread", "claim"} => stamp[q] # latest_timestamp
      BY <1>1 DEF ThreadInv, LastInv
    <3> QED BY <2>1, <3>1, <3>2 DEF MayBeLast
  <2>4. Found(q) => want[q] = latest_timestamp /\ live_versions[entry[q]].key = latest_timestamp
    <3>1. Found(q) => pc[q] \in Looking \ {"loop"}
      BY DEF Found, Looking, AcquireSteps
    <3>2. LookingInv(q)
      BY <1>1 DEF ThreadInv
    <3>3. Found(q) => since[q] \in 0..latest_timestamp /\ want[q] \in since[q]..latest_timestamp
      BY <3>1, <3>2 DEF LookingInv
    <3>4. NoTs \notin 0..latest_timestamp
      BY DEF NoTs
    <3>5. Found(q) => want[q] = latest_timestamp
      BY <1>1, <2>1, <3>3, <3>4, Numbers
    <3> QED BY <3>2, <3>5 DEF LookingInv
  <2> QED BY <2>1, <2>2, <2>3, <2>4
<1>5. \A s \in Slots : ~BeingFreed(s)
  BY <1>4 DEF BeingFreed, Frees
<1> QED BY <1>2, <1>4, <1>5

(* The slot a batch fills is nobody else's.                                *)
LEMMA FilledSlot ==
  ASSUME CalmInv, NEW s \in Slots, Filling(s)
  PROVE  /\ live_versions[s].key \notin 0..latest_timestamp
         /\ \A q \in Procs : Holding(q) \/ MayBeLast(q) \/ Found(q) => entry[q] # s
<1>1. TypeOK /\ \A q \in Procs : ThreadInv(q)
  BY DEF CalmInv, Inv
<1>2. pc[Writer] \in BatchSteps
  BY DEF Filling, BatchSteps
<1>3. live_versions[s].key \in {max_ts, tombstone, current_timestamp}
  BY DEF CalmInv, WriterInv, Filling, new_entry
<1>4. live_versions[s].key \notin 0..latest_timestamp
  <2>1. current_timestamp \notin 0..latest_timestamp
    BY <1>1, Numbers
  <2>2. max_ts \notin 0..latest_timestamp /\ tombstone \notin 0..latest_timestamp
    BY <1>1, Numbers
  <2> QED BY <1>3, <2>1, <2>2
<1>5. latest_timestamp \in 0..latest_timestamp /\ latest_timestamp \notin reclaimed
  BY <1>1, Numbers DEF CalmInv, HistoryInv
<1>6. ASSUME NEW q \in Procs, Holding(q) \/ MayBeLast(q) \/ Found(q)
      PROVE  live_versions[entry[q]].key \in 0..latest_timestamp
  <2>1. CASE Holding(q)
    BY <1>1, <2>1 DEF ThreadInv, ObjectInv
  <2>2. CASE MayBeLast(q)
    <3>1. stamp[q] = latest_timestamp
      BY <1>2, <2>2, InsertIsCalm
    <3> QED BY <1>1, <1>5, <2>2, <3>1 DEF ThreadInv, ObjectInv
  <2>3. CASE Found(q)
    BY <1>2, <1>5, <2>3, InsertIsCalm
  <2> QED BY <1>6, <2>1, <2>2, <2>3
<1> QED BY <1>4, <1>6
-----------------------------------------------------------------------------
(* A step that leaves the table alone, gives nobody a version and frees    *)
(* none keeps the invariant if it keeps what the invariant says of its own *)
(* thread and of the batch, and forgets no superseded version.             *)
LEMMA QuietStep ==
  ASSUME CalmInv, Inv', BatchIsCalm', FreedOnce', WriterInv',
         NEW p \in Procs, \A q \in Procs \ {p} : Waits(q), ThreadInv(p)',
         UNCHANGED <<current_timestamp, live_versions, reclaimed>>,
         \A t \in 0..latest_timestamp : rc'[t] = rc[t],
         \A s \in Slots : Filling(s) => Filling(s)',
         Holding(p)' <=> Holding(p),
         Holding(p) => entry'[p] = entry[p] /\ stamp'[p] = stamp[p],
         MayBeLast(p) =>
           \/ MayBeLast(p)' /\ stamp'[p] = stamp[p]
           \/ stamp[p] = latest_timestamp
           \/ stamp[p] \in reclaimed
           \/ \E r \in Procs \ {p} : Holding(r) /\ stamp[r] = stamp[p],
         ~Frees(p), ~Frees(p)'
  PROVE  CalmInv'
<1> USE DEF CalmInv
<1>1. /\ latest_timestamp' = latest_timestamp
      /\ latest_timestamp \in Nat
      /\ 0..latest_timestamp \subseteq Timestamps
  BY Numbers DEF latest_timestamp, Inv
<1>2. \A q \in Procs \ {p} :
        /\ Holding(q)' <=> Holding(q)
        /\ MayBeLast(q)' <=> MayBeLast(q)
        /\ Frees(q)' <=> Frees(q)
  BY RolesWait
<1>3. \A s \in Slots : HoldersOf(s)' = HoldersOf(s)
  BY <1>2 DEF HoldersOf, Waits
<1>4. \A s \in Slots : BeingFreed(s)' <=> BeingFreed(s)
  BY <1>2 DEF BeingFreed, Frees, Waits
<1>5. ASSUME NEW q \in Procs, q # p PROVE ThreadInv(q)'
  <2>1. Waits(q) /\ ThreadInv(q)
    BY <1>5
  <2>2. LookingInv(q)'
    BY <2>1, <1>1 DEF Waits, ThreadInv, LookingInv, Found
  <2>3. ObjectInv(q)'
    BY <2>1, <1>1, <1>2, <1>5 DEF Waits, ThreadInv, ObjectInv
  <2>4. \A r \in Procs : Holding(r)' => Holding(r) /\ entry'[r] = entry[r]
    BY <1>2 DEF Waits
  <2>5. LastInv(q)'
    BY <2>1, <1>1 DEF Waits, ThreadInv, LastInv
  <2>6. Frees(q) => stamp[q] \in 0..latest_timestamp
    <3>1. \A t \in reclaimed : t \in 0..latest_timestamp
      BY <1>1 DEF HistoryInv
    <3> QED BY <2>1, <3>1 DEF ThreadInv, FreesInv
  <2>7. FreesInv(q)'
    BY <2>1, <2>4, <2>6, <1>1, <1>2, <1>5 DEF Waits, ThreadInv, FreesInv
  <2> QED BY <2>2, <2>3, <2>5, <2>7 DEF ThreadInv
<1>6. AloneInv'
  BY <1>1, <1>2 DEF AloneInv, Waits
<1>7. TableInv'
  BY <1>1 DEF TableInv
<1>8. EntryInv'
  BY <1>1, <1>3, <1>4 DEF EntryInv
<1>9. ZeroInv'
  BY <1>4 DEF ZeroInv
<1>10. HistoryInv'
  <2>1. ASSUME NEW q \in Procs, Holding(q) \/ MayBeLast(q),
               stamp[q] \in (0..(latest_timestamp - 1)) \ reclaimed
        PROVE  \E r \in Procs : stamp'[r] = stamp[q] /\ (Holding(r)' \/ MayBeLast(r)')
    <3>1. CASE q # p
      BY <2>1, <3>1, <1>2 DEF Waits
    <3>2. CASE q = p
      <4>1. stamp[q] # latest_timestamp
        BY <2>1, <1>1
      <4>2. CASE \E r \in Procs \ {p} : Holding(r) /\ stamp[r] = stamp[p]
        BY <4>2, <3>2, <1>2 DEF Waits
      <4> QED BY <2>1, <3>2, <4>1, <4>2
    <3> QED BY <3>1, <3>2
  <2> QED BY <2>1, <1>1, KeptStep DEF HistoryInv
<1> QED BY <1>5, <1>6, <1>7, <1>8, <1>9, <1>10

(* A thread that does not have a version yet, before and after a step.     *)
LEMMA LookingStep ==
  ASSUME CalmInv, Inv', NEW p \in Procs, \A q \in Procs \ {p} : Waits(q),
         pc[p] \in {"idle"} \union Looking, pc'[p] \in Looking,
         since'[p] = IF pc[p] = "idle" THEN latest_timestamp ELSE since[p],
         LookingInv(p)', UNCHANGED <<shared, reclaimed>>
  PROVE  CalmInv'
<1> USE DEF Looking, AcquireSteps, shared
<1>1. /\ ~Holding(p) /\ ~MayBeLast(p) /\ ~Frees(p)
      /\ pc[p] \notin BatchSteps /\ pc[p] \notin ReleaseSteps
  BY DEF Holding, MayBeLast, Frees, BatchSteps, ReleaseSteps
<1>2. /\ ~Holding(p)' /\ ~MayBeLast(p)' /\ ~Frees(p)'
      /\ pc'[p] \notin BatchSteps /\ pc'[p] \notin ReleaseSteps
  BY DEF Holding, MayBeLast, Frees, BatchSteps, ReleaseSteps
<1>3. ThreadInv(p)'
  BY <1>2 DEF ThreadInv, ObjectInv, LastInv, FreesInv, MayBeLast
<1>4. pc[Writer] \in BatchSteps => since'[p] \in {NoTs, latest_timestamp}
  BY InsertIsCalm
<1>5. pc'[p] \notin {"root", "held"}
  BY <1>2 DEF Holding
<1>6. BatchIsCalm' /\ WriterInv' /\ \A s : Filling(s)' <=> Filling(s)
  <2>1. UNCHANGED <<current_timestamp, next_root, probe>>
    OBVIOUS
  <2>2. rc'[current_timestamp] = rc[current_timestamp] /\ live_versions'[probe] = live_versions[probe]
    OBVIOUS
  <2> QED BY ONLY CalmInv, p \in Procs, \A q \in Procs \ {p} : Waits(q),
             <1>1, <1>2, <1>4, <1>5, <2>1, <2>2, BatchStays
<1>7. FreedOnce'
  BY DEF CalmInv, FreedOnce
<1> QED BY <1>1, <1>2, <1>3, <1>6, <1>7, QuietStep

(* acquire_version up to the CAS that raises the count, and after it.      *)
LEMMA AcquireCalm ==
  ASSUME CalmInv, NEW p \in Procs, StartAcquire(p) \/ AcquireStep(p),
         ~(RaiseCount(p) /\ CasSucceeds(p))
  PROVE  CalmInv'
<1>1. Inv'
  BY AcquireInv DEF CalmInv
<1>2. TypeOK /\ Inv /\ ThreadInv(p) /\ LookingInv(p)
  BY DEF CalmInv, Inv, ThreadInv
<1>3. \A q \in Procs \ {p} : Waits(q)
  BY <1>2, OthersWait
<1>4. /\ latest_timestamp \in Nat /\ latest_timestamp \in 0..latest_timestamp
      /\ UNCHANGED current_timestamp => latest_timestamp' = latest_timestamp
  BY <1>2, Numbers DEF latest_timestamp
<1> USE DEF TypeOK, Goto, shared, locals, history, Looking, AcquireSteps
<1>5. CASE StartAcquire(p)
  <2>1. LookingInv(p)'
    BY <1>2, <1>4, <1>5 DEF StartAcquire, LookingInv, Found
  <2> QED BY <1>1, <1>2, <1>3, <1>5, <2>1, LookingStep DEF StartAcquire
<1>6. CASE ReadLatest(p)
  <2>1. since[p] \in 0..latest_timestamp => latest_timestamp \in since[p]..latest_timestamp
    BY <1>4
  <2>2. LookingInv(p)'
    BY <1>2, <1>4, <1>6, <2>1 DEF ReadLatest, LookingInv, Found
  <2> QED BY <1>1, <1>2, <1>3, <1>6, <2>2, LookingStep DEF ReadLatest
<1>7. CASE Find(p)
  <2>1. LookingInv(p)'
    BY <1>2, <1>4, <1>7 DEF Find, LookingInv, Found, Matches
  <2> QED BY <1>1, <1>2, <1>3, <1>7, <2>1, LookingStep DEF Find
<1>8. CASE CheckTombstone(p)
  <2>1. LookingInv(p)'
    BY <1>2, <1>4, <1>8 DEF CheckTombstone, LookingInv, Found
  <2> QED BY <1>1, <1>2, <1>3, <1>8, <2>1, LookingStep DEF CheckTombstone
<1>9. CASE LoadWord(p)
  <2>1. LookingInv(p)'
    BY <1>2, <1>4, <1>9 DEF LoadWord, LookingInv, Found
  <2> QED BY <1>1, <1>2, <1>3, <1>9, <2>1, LookingStep DEF LoadWord
<1>10. CASE ReadStamp(p)
  <2>1. LookingInv(p)'
    BY <1>2, <1>4, <1>10 DEF ReadStamp, LookingInv, Found
  <2> QED BY <1>1, <1>2, <1>3, <1>10, <2>1, LookingStep DEF ReadStamp
<1>11. CASE RaiseCount(p) /\ ~CasSucceeds(p)
  <2>1. LookingInv(p)'
    BY <1>2, <1>4, <1>11 DEF RaiseCount, LookingInv, Found
  <2> QED BY <1>1, <1>2, <1>3, <1>11, <2>1, LookingStep DEF RaiseCount
<1>12. CASE ReadRoot(p)
  <2>1. /\ pc[p] = "root" /\ pc'[p] = "held" /\ UNCHANGED <<shared, history, stamp, entry>>
    BY <1>2, <1>12 DEF ReadRoot
  <2>2. /\ Holding(p) /\ Holding(p)' /\ ~MayBeLast(p) /\ ~MayBeLast(p)' /\ ~Frees(p) /\ ~Frees(p)'
        /\ pc[p] \notin BatchSteps /\ pc'[p] \notin BatchSteps /\ pc'[p] \notin ReleaseSteps
    BY <2>1 DEF Holding, MayBeLast, Frees, BatchSteps, ReleaseSteps
  <2>3. root'[p] = live_versions[entry[p]].root
    BY <1>2, <1>12 DEF ReadRoot
  <2>4. ThreadInv(p)'
    <3>1. LookingInv(p)'
      BY <1>2, <1>4, <2>1 DEF LookingInv, Found
    <3>2. ObjectInv(p)'
      BY <1>2, <1>4, <2>1, <2>2, <2>3 DEF ThreadInv, ObjectInv
    <3> QED BY <2>1, <2>2, <3>1, <3>2 DEF ThreadInv, LastInv, FreesInv
  <2>5. p = Writer => stamp'[p] = latest_timestamp
    BY <2>1, <2>2 DEF CalmInv, WriterInv
  <2>6. pc[Writer] \in BatchSteps => since'[p] \in {NoTs, latest_timestamp}
    BY <2>1, InsertIsCalm
  <2>7. BatchIsCalm' /\ WriterInv' /\ \A s : Filling(s)' <=> Filling(s)
    BY <1>3, <2>1, <2>2, <2>5, <2>6, BatchStays
  <2>8. FreedOnce'
    BY <2>1 DEF CalmInv, FreedOnce
  <2> QED BY <1>1, <1>3, <2>1, <2>2, <2>4, <2>7, <2>8, QuietStep
<1> QED BY <1>5, <1>6, <1>7, <1>8, <1>9, <1>10, <1>11, <1>12 DEF AcquireStep
-----------------------------------------------------------------------------
(* The CAS of acquire_version raises the count of the version the thread   *)
(* looked for: a count that is not zero is not the count of an entry that  *)
(* is freed or buried.                                                     *)
LEMMA RaisedIsCurrent ==
  ASSUME CalmInv, NEW p \in Procs, pc[p] = "cas", CasSucceeds(p)
  PROVE  /\ stamp[p] \in since[p]..latest_timestamp /\ stamp[p] \in 0..latest_timestamp
         /\ stamp[p] \notin reclaimed
         /\ live_versions[entry[p]].key = stamp[p]
         /\ ~BeingFreed(entry[p]) /\ ~Filling(entry[p])
         /\ word[p] = make_refct(stamp[p], 1 + Cardinality(HoldersOf(entry[p])))
         /\ p = Writer => stamp[p] = latest_timestamp
<1> DEFINE s0 == entry[p]
<1>1. TypeOK /\ LookingInv(p) /\ s0 \in Slots
  BY DEF CalmInv, Inv, ThreadInv, TypeOK
<1>2. Found(p) /\ pc[p] \in Looking /\ pc[p] # "loop"
  BY DEF Found, Looking, AcquireSteps
<1>3. /\ since[p] \in 0..latest_timestamp
      /\ want[p] \in since[p]..latest_timestamp
      /\ live_versions[s0].key \in {want[p], tombstone}
      /\ word[p].ct > 0
      /\ stamp[p] = want[p] \/ live_versions[s0].key = tombstone
      /\ p = Writer => since[p] = latest_timestamp
  BY <1>1, <1>2 DEF LookingInv
<1>4. live_versions[s0].word = word[p]
  BY DEF CasSucceeds
<1>5. ~Filling(s0)
  BY <1>1, <1>2, FilledSlot
<1>6. ~BeingFreed(s0) /\ live_versions[s0].key # tombstone
  <2>1. live_versions[s0].word.ct # 0
    BY <1>3, <1>4
  <2> QED BY <1>1, <1>5, <2>1 DEF CalmInv, ZeroInv
<1>7. stamp[p] = want[p] /\ live_versions[s0].key = stamp[p]
  BY <1>3, <1>6
<1>8. stamp[p] \in 0..latest_timestamp /\ (p = Writer => stamp[p] = latest_timestamp)
  BY <1>1, <1>3, <1>7, Numbers
<1>9. /\ live_versions[s0].word = make_refct(stamp[p], 1 + Cardinality(HoldersOf(s0)))
      /\ stamp[p] \notin reclaimed
  BY <1>1, <1>6, <1>7, <1>8 DEF CalmInv, EntryInv
<1> QED BY <1>3, <1>4, <1>5, <1>6, <1>7, <1>8, <1>9

(* The CAS counts the new holder, and it cannot wrap.                      *)
LEMMA RaiseCountCalm ==
  ASSUME CalmInv, NEW p \in Procs, RaiseCount(p), CasSucceeds(p)
  PROVE  CalmInv'
<1> DEFINE s0 == entry[p]
           v == stamp[p]
           H == HoldersOf(s0)
<1>1. Inv' /\ TypeOK /\ \A q \in Procs : ThreadInv(q)
  BY AcquireInv DEF CalmInv, Inv, AcquireStep
<1>2. \A q \in Procs \ {p} : Waits(q)
  BY <1>1, OthersWait DEF AcquireStep
<1>3. /\ pc[p] = "cas" /\ pc'[p] = "root"
      /\ word[p] = live_versions[s0].word
      /\ live_versions' = [live_versions EXCEPT ![s0].word = PlusOne(word[p])]
      /\ since'[p] = NoTs
      /\ UNCHANGED <<current_timestamp, rc, next_root, probe, locals, reclaimed>>
  BY <1>1 DEF RaiseCount, CasSucceeds, Goto, TypeOK
<1>4. /\ s0 \in Slots /\ live_versions[s0].key = v /\ v \in 0..latest_timestamp
      /\ ~BeingFreed(s0) /\ ~Filling(s0)
      /\ word[p] = make_refct(v, 1 + Cardinality(H))
      /\ p = Writer => v = latest_timestamp
  BY <1>1, <1>3, RaisedIsCurrent DEF TypeOK
<1>5. \A q \in Procs : Frees(q) => entry[q] # s0
  BY <1>4 DEF BeingFreed, Frees
<1>6. ~Holding(p) /\ Holding(p)'
  BY <1>3 DEF Holding, BatchSteps
<1>7. H \in SUBSET Procs /\ p \notin H
  BY <1>6 DEF HoldersOf
<1> HIDE DEF H
<1>8. PlusOne(word[p]) = make_refct(v, 2 + Cardinality(H))
  <2>1. Cardinality(H) \in Nat /\ Cardinality(H) + 1 < MaxRefct
    BY <1>7, CountRoom
  <2> QED BY <2>1, <1>4 DEF PlusOne, make_refct
<1>9. /\ \A s \in Slots : live_versions'[s].key = live_versions[s].key
      /\ \A s \in Slots : live_versions'[s].root = live_versions[s].root
      /\ \A s \in Slots \ {s0} : live_versions'[s] = live_versions[s]
      /\ live_versions'[s0].word = make_refct(v, 2 + Cardinality(H))
  BY <1>1, <1>3, <1>4, <1>8 DEF TypeOK, Entries
<1> HIDE DEF s0, v
<1>10. /\ latest_timestamp' = latest_timestamp /\ tombstone # v
       /\ UNCHANGED <<current_timestamp, rc, next_root, probe, reclaimed,
                      want, entry, word, stamp, root, todo>>
  BY <1>1, <1>3, <1>4, Numbers DEF latest_timestamp, locals
<1>11. /\ ~MayBeLast(p) /\ ~MayBeLast(p)' /\ ~Frees(p) /\ ~Frees(p)'
       /\ pc[p] \notin BatchSteps /\ pc'[p] \notin BatchSteps /\ pc'[p] \notin ReleaseSteps
       /\ pc'[p] \notin Looking
  BY <1>3 DEF MayBeLast, Frees, BatchSteps, ReleaseSteps, Looking
<1>12. \A q \in Procs \ {p} :
         (Holding(q)' <=> Holding(q)) /\ (MayBeLast(q)' <=> MayBeLast(q)) /\ (Frees(q)' <=> Frees(q))
  BY <1>2, RolesWait
<1>13. \A s \in Slots : HoldersOf(s)' = IF s = s0 THEN H \union {p} ELSE HoldersOf(s)
  BY <1>6, <1>10, <1>12 DEF HoldersOf, H, s0
<1>14. \A s \in Slots : BeingFreed(s)' <=> BeingFreed(s)
  BY <1>10, <1>11, <1>12 DEF BeingFreed, Frees
<1>15. BatchIsCalm' /\ WriterInv' /\ \A s : Filling(s)' <=> Filling(s)
  <2>1. p = Writer => stamp'[p] = latest_timestamp
    BY <1>4, <1>10 DEF v
  <2>2. Filling(probe) => live_versions'[probe] = live_versions[probe]
    BY <1>1, <1>4, <1>9 DEF TypeOK
  <2> QED BY <1>2, <1>3, <1>10, <1>11, <2>1, <2>2, BatchStays
<1>16. ASSUME NEW q \in Procs PROVE ThreadInv(q)'
  <2>1. ThreadInv(q) /\ entry[q] \in Slots
    BY <1>1 DEF TypeOK
  <2>2. CASE q # p
    <3>1. Waits(q)
      BY <1>2, <2>2
    <3>2. LookingInv(q)'
      BY <3>1, <1>9, <1>10, <2>1 DEF ThreadInv, LookingInv, Found, Waits
    <3>3. ObjectInv(q)'
      BY <3>1, <2>2, <1>9, <1>10, <1>12, <2>1 DEF ThreadInv, ObjectInv, Waits
    <3>4. LastInv(q)'
      BY <3>1, <1>10, <2>1 DEF ThreadInv, LastInv, Waits
    <3>5. FreesInv(q)'
      BY <3>1, <2>2, <1>5, <1>9, <1>10, <1>12, <2>1 DEF ThreadInv, FreesInv, Waits, s0
    <3> QED BY <3>2, <3>3, <3>4, <3>5 DEF ThreadInv
  <2>3. CASE q = p
    <3>1. LookingInv(q)'
      BY <2>3, <1>3, <1>11 DEF LookingInv, Looking, Found
    <3>2. ObjectInv(q)'
      BY <2>3, <1>3, <1>4, <1>9, <1>10, <1>11 DEF ObjectInv, s0, v
    <3> QED BY <2>3, <3>1, <3>2, <1>3, <1>11 DEF ThreadInv, LastInv, FreesInv
  <2> QED BY <2>2, <2>3
<1>17. AloneInv'
  BY <1>10, <1>11, <1>12 DEF CalmInv, AloneInv
<1>18. ZeroInv'
  BY <1>4, <1>9, <1>10, <1>14, <1>15 DEF CalmInv, ZeroInv
<1>19. TableInv'
  BY <1>9, <1>10, <1>15 DEF CalmInv, TableInv
<1>20. EntryInv'
  <2>1. Cardinality(H \union {p}) = Cardinality(H) + 1 /\ Cardinality(H) \in Nat
    BY <1>7, CountRoom
  <2>2. ASSUME NEW s \in Slots, live_versions'[s].key \in 0..latest_timestamp, ~BeingFreed(s)'
        PROVE  /\ live_versions'[s].word =
                    make_refct(live_versions'[s].key, 1 + Cardinality(HoldersOf(s)'))
               /\ live_versions'[s].root \in {nullptr, live_versions'[s].key}
               /\ live_versions'[s].root # nullptr => rc[live_versions'[s].key] = 1
               /\ live_versions'[s].key \notin reclaimed
    <3>1. live_versions[s].key \in 0..latest_timestamp /\ ~BeingFreed(s)
      BY <1>9, <1>14, <2>2
    <3>2. live_versions'[s].word =
            make_refct(live_versions'[s].key, 1 + Cardinality(HoldersOf(s)'))
      <4>1. CASE s = s0
        <5>1. 1 + Cardinality(H \union {p}) = 2 + Cardinality(H)
          BY <2>1
        <5> QED BY <4>1, <5>1, <1>4, <1>9, <1>13
      <4>2. CASE s # s0
        BY <3>1, <4>2, <1>9, <1>13 DEF CalmInv, EntryInv
      <4> QED BY <4>1, <4>2
    <3> QED BY <3>1, <3>2, <1>9 DEF CalmInv, EntryInv
  <2> QED BY <2>2, <1>10 DEF EntryInv
<1>21. HistoryInv'
  BY <1>6, <1>10, <1>11, <1>12, KeptStep DEF CalmInv, HistoryInv
<1>22. FreedOnce'
  BY <1>10 DEF CalmInv, FreedOnce
<1> QED BY <1>1, <1>15, <1>16, <1>17, <1>18, <1>19, <1>20, <1>21, <1>22 DEF CalmInv
-----------------------------------------------------------------------------
(* The batch up to the slot it takes.                                      *)
LEMMA BuildCalm ==
  ASSUME Calm, CalmInv, BuildNext \/ ProbeInsert
  PROVE  CalmInv'
<1>1. Inv' /\ TypeOK /\ Writer \in Procs
  BY BatchInv, ConstantTypes DEF CalmInv, Inv, BatchStep
<1>2. \A q \in Procs \ {Writer} : Waits(q)
  BY <1>1, OthersWait DEF BatchStep
<1>3. /\ pc[Writer] \in {"held", "insert"} /\ pc'[Writer] \in {"insert", "store"}
      /\ UNCHANGED <<current_timestamp, live_versions, reclaimed, entry, stamp, since, root>>
  BY <1>1 DEF BuildNext, ProbeInsert, Goto, locals, history, TypeOK
<1>4. /\ Holding(Writer) /\ Holding(Writer)' /\ ~MayBeLast(Writer) /\ ~MayBeLast(Writer)'
      /\ ~Frees(Writer) /\ ~Frees(Writer)'
      /\ pc[Writer] \notin Looking /\ pc'[Writer] \notin Looking
  BY <1>3 DEF Holding, MayBeLast, Frees, BatchSteps, Looking, AcquireSteps
<1>5. latest_timestamp' = latest_timestamp
  BY <1>3 DEF latest_timestamp
<1>6. BatchIsCalm'
  <2>1. \A r \in Readers :
          /\ since[r] \in {NoTs, latest_timestamp}
          /\ pc[r] \in ReleaseSteps => stamp[r] = latest_timestamp
    <3>1. CASE BuildNext
      BY <3>1 DEF BuildNext, MayInsert
    <3>2. CASE ProbeInsert
      BY <3>2 DEF ProbeInsert, CalmInv, BatchIsCalm, BatchSteps
    <3> QED BY <3>1, <3>2
  <2>2. \A r \in Readers : Waits(r)
    BY <1>2, WriterAssumption DEF Procs
  <2> QED BY <2>1, <2>2, <1>5 DEF BatchIsCalm, Waits
<1>7. stamp[Writer] = latest_timestamp /\ since[Writer] = NoTs
  <2>1. LookingInv(Writer)
    BY <1>1 DEF CalmInv, ThreadInv
  <2> QED BY <2>1, <1>3, <1>4 DEF CalmInv, WriterInv, LookingInv
<1>8. ThreadInv(Writer)'
  <2>1. ObjectInv(Writer)
    BY <1>1 DEF CalmInv, ThreadInv
  <2>2. LookingInv(Writer)'
    BY <1>3, <1>4, <1>7 DEF LookingInv, Found
  <2>3. ObjectInv(Writer)'
    BY <1>3, <1>4, <1>5, <2>1 DEF ObjectInv
  <2> QED BY <1>3, <1>4, <2>2, <2>3 DEF ThreadInv, LastInv, FreesInv
<1>9. (\A t \in 0..latest_timestamp : rc'[t] = rc[t]) /\ FreedOnce'
  <2>1. CASE BuildNext
    <3>1. PICK g \in {current_timestamp, nullptr} :
            rc' = [t \in Timestamps |-> IF t = g THEN 1 ELSE rc[t]]
      BY <2>1 DEF BuildNext
    <3>2. \A t \in 0..latest_timestamp : t \in Timestamps /\ t # g
      BY <1>1, Numbers DEF nullptr
    <3>3. \A t \in 0..latest_timestamp : rc'[t] = rc[t]
      BY <3>1, <3>2
    <3>4. FreedOnce'
      BY <3>1 DEF CalmInv, FreedOnce
    <3> QED BY <3>3, <3>4
  <2>2. CASE ProbeInsert
    BY <2>2 DEF ProbeInsert, CalmInv, FreedOnce
  <2> QED BY <2>1, <2>2
<1>10. WriterInv'
  <2>1. CASE BuildNext
    <3>1. current_timestamp \in Timestamps /\ pc'[Writer] = "insert"
      BY <1>1, <2>1, ConstantTypes
         DEF BuildNext, Goto, CalmInv, Inv, RoomForBatch, TypeOK, Timestamps
    <3> QED BY <1>3, <1>5, <1>7, <2>1, <3>1 DEF BuildNext, WriterInv
  <2>2. CASE ProbeInsert
    <3>1. next_root \in {current_timestamp, nullptr}
          /\ (next_root # nullptr => rc[current_timestamp] = 1)
      BY <2>2 DEF CalmInv, WriterInv, BatchSteps, ProbeInsert
    <3>2. pc'[Writer] = "store" =>
            /\ todo'[Writer] = Fields /\ probe' = probe
            /\ live_versions[probe].key \in {max_ts, tombstone}
      BY <1>1, <2>2 DEF ProbeInsert, CanBeTaken, Goto, TypeOK
    <3> QED BY <1>3, <1>5, <1>7, <2>2, <3>1, <3>2
          DEF ProbeInsert, WriterInv, Fields
  <2> QED BY <2>1, <2>2
<1>11. \A s \in Slots : Filling(s) => Filling(s)'
  BY <1>3 DEF Filling
<1> QED BY <1>1, <1>2, <1>3, <1>4, <1>6, <1>8, <1>9, <1>10, <1>11, QuietStep

(* One word of the new entry is stored: the slot belongs to no version     *)
(* anybody holds, whatever part of the entry is there.                     *)
LEMMA StoreCalm ==
  ASSUME CalmInv, NEW f \in Fields, StoreNew(f)
  PROVE  CalmInv'
<1>1. Inv' /\ TypeOK /\ Writer \in Procs /\ \A q \in Procs : ThreadInv(q)
  BY BatchInv, ConstantTypes DEF CalmInv, Inv, BatchStep
<1>2. \A q \in Procs \ {Writer} : Waits(q)
  BY <1>1, OthersWait DEF BatchStep
<1> DEFINE e == new_entry(current_timestamp, next_root)
<1>3. /\ pc[Writer] = "store" /\ f \in todo[Writer]
      /\ pc'[Writer] = IF todo[Writer] = {f} THEN "publish" ELSE "store"
      /\ todo'[Writer] = todo[Writer] \ {f}
      /\ live_versions' = [live_versions EXCEPT ![probe] = [@ EXCEPT ![f] = e[f]]]
      /\ UNCHANGED <<current_timestamp, rc, next_root, probe,
                     want, entry, word, stamp, root, since, reclaimed>>
  BY <1>1 DEF StoreNew, Goto, IsLastStore, TypeOK, history
<1>4. pc[Writer] \in BatchSteps /\ pc'[Writer] \in BatchSteps /\ Filling(probe) /\ probe \in Slots
  BY <1>1, <1>3 DEF BatchSteps, Filling, TypeOK
<1>5. /\ \A q \in Procs : ~Frees(q)
      /\ stamp[Writer] = latest_timestamp /\ Holding(Writer)
  BY <1>4, InsertIsCalm
<1>6. \A q \in Procs : Holding(q) \/ MayBeLast(q) \/ Found(q) => entry[q] # probe
  BY <1>4, FilledSlot
<1>7. /\ pc[Writer] \notin Looking /\ pc'[Writer] \notin Looking
      /\ ~MayBeLast(Writer) /\ ~MayBeLast(Writer)' /\ ~Frees(Writer)' /\ Holding(Writer)'
      /\ ~Found(Writer) /\ ~Found(Writer)'
  BY <1>3 DEF Looking, AcquireSteps, MayBeLast, Frees, Holding, BatchSteps, Found
<1>8. \A q \in Procs :
        (Holding(q)' <=> Holding(q)) /\ (MayBeLast(q)' <=> MayBeLast(q)) /\ (Frees(q)' <=> Frees(q))
  BY <1>1, <1>2, <1>5, <1>7, RolesWait
<1>9. current_timestamp \in Timestamps
  BY <1>1, <1>4, ConstantTypes DEF CalmInv, Inv, RoomForBatch, TypeOK, Timestamps
<1>10. e \in Entries /\ e.key = current_timestamp
  BY <1>1, <1>9, EntryTypes DEF TypeOK, new_entry
<1>11. /\ live_versions[probe].key \in {max_ts, tombstone, current_timestamp}
       /\ \A g \in Fields \ todo[Writer] : live_versions[probe][g] = e[g]
       /\ next_root \in {current_timestamp, nullptr}
       /\ next_root # nullptr => rc[current_timestamp] = 1
  BY <1>3, <1>4 DEF CalmInv, WriterInv
<1> HIDE DEF e
<1>12. /\ \A s \in Slots \ {probe} : live_versions'[s] = live_versions[s]
       /\ live_versions'[probe] = [live_versions[probe] EXCEPT ![f] = e[f]]
       /\ live_versions[probe] \in Entries /\ live_versions'[probe] \in Entries
  BY <1>1, <1>3, <1>4, <1>10, StoreTypes DEF TypeOK
<1>13. \A g \in Fields : live_versions'[probe][g] = IF g = f THEN e[g] ELSE live_versions[probe][g]
  BY <1>12 DEF Entries, Fields
<1>14. live_versions'[probe].key \in {max_ts, tombstone, current_timestamp}
  BY <1>11, <1>10, <1>13 DEF Fields
<1>15. \A g \in Fields \ todo'[Writer] : live_versions'[probe][g] = e[g]
  BY <1>3, <1>11, <1>13
<1>16. /\ latest_timestamp' = latest_timestamp
       /\ latest_timestamp \in Nat /\ current_timestamp = latest_timestamp + 1
       /\ 0..latest_timestamp \subseteq Timestamps
       /\ max_ts \notin 0..latest_timestamp /\ tombstone \notin 0..latest_timestamp
       /\ max_ts \notin Timestamps /\ tombstone \notin Timestamps
  BY <1>1, <1>3, Numbers DEF latest_timestamp
<1>17. \A s \in Slots : live_versions'[s].key \in 0..latest_timestamp => s # probe
  BY <1>14, <1>16
<1>18. BatchIsCalm'
  <2>1. \A r \in Readers : Waits(r)
    BY <1>2, WriterAssumption DEF Procs
  <2> QED BY <2>1, <1>4, <1>16 DEF CalmInv, BatchIsCalm, Waits
<1>19. ASSUME NEW q \in Procs PROVE ThreadInv(q)'
  <2>1. ThreadInv(q) /\ entry[q] \in Slots
    BY <1>1 DEF TypeOK
  <2>2. Holding(q) \/ MayBeLast(q) \/ Found(q) => live_versions'[entry[q]] = live_versions[entry[q]]
    BY <1>6, <1>12, <2>1
  <2>3. CASE q = Writer
    <3>1. LookingInv(q)'
      BY <2>1, <2>3, <1>3, <1>7 DEF ThreadInv, LookingInv, Found
    <3>2. ObjectInv(q)'
      BY <2>1, <2>2, <2>3, <1>3, <1>5, <1>7, <1>16 DEF ThreadInv, ObjectInv
    <3> QED BY <2>3, <3>1, <3>2, <1>3, <1>7 DEF ThreadInv, LastInv, FreesInv
  <2>4. CASE q # Writer
    <3>1. Waits(q)
      BY <1>2, <2>4
    <3>2. pc[q] = "cas" => Found(q)
      BY DEF Found
    <3>3. LookingInv(q)'
      BY <2>1, <2>2, <3>1, <3>2, <1>16 DEF ThreadInv, LookingInv, Found, Waits
    <3>4. ObjectInv(q)'
      BY <2>1, <2>2, <3>1, <1>3, <1>8, <1>16 DEF ThreadInv, ObjectInv, Waits
    <3>5. LastInv(q)'
      BY <2>1, <3>1, <1>16 DEF ThreadInv, LastInv, Waits
    <3> QED BY <3>3, <3>4, <3>5, <1>5, <1>8 DEF ThreadInv, FreesInv
  <2> QED BY <2>3, <2>4
<1>20. AloneInv'
  BY <1>5, <1>8 DEF AloneInv
<1>21. WriterInv'
  <2>1. pc'[Writer] = "publish" => live_versions'[probe] = e
    <3>1. pc'[Writer] = "publish" => todo'[Writer] = {}
      BY <1>3
    <3>2. pc'[Writer] = "publish" =>
            \A g \in {"key", "word", "root"} : live_versions'[probe][g] = e[g]
      BY <3>1, <1>15 DEF Fields
    <3> QED BY <3>2, <1>10, <1>12 DEF Entries
  <2>2. pc'[Writer] = "store" => todo'[Writer] # {}
    BY <1>3
  <2> QED BY <2>1, <2>2, <1>3, <1>5, <1>11, <1>14, <1>15, <1>16 DEF WriterInv, e
<1>22. TableInv'
  <2>1. \A s \in Slots :
          \/ live_versions'[s].key \in (0..latest_timestamp) \union {max_ts, tombstone}
          \/ s = probe /\ live_versions'[s].key = current_timestamp
    BY <1>12, <1>14 DEF CalmInv, TableInv, Filling
  <2>2. pc'[Writer] \in {"store", "publish"}
    BY <1>3
  <2>3. \A s1, s2 \in Slots :
          live_versions'[s1].key = live_versions'[s2].key /\ live_versions'[s1].key \in Timestamps
            => s1 = s2
    <3>1. SUFFICES ASSUME NEW s1 \in Slots, NEW s2 \in Slots,
                          live_versions'[s1].key = live_versions'[s2].key,
                          live_versions'[s1].key \in Timestamps, s1 # s2
                   PROVE  FALSE
      OBVIOUS
    <3>2. s1 # probe /\ s2 # probe
      BY <3>1, <2>1, <1>14, <1>16
    <3> QED BY <3>1, <3>2, <1>12 DEF CalmInv, TableInv
  <2>4. \E s \in Slots : live_versions'[s].key = latest_timestamp
    <3>1. PICK s \in Slots : live_versions[s].key = latest_timestamp
      BY DEF CalmInv, TableInv
    <3>2. s # probe
      BY <3>1, <1>11, <1>16
    <3> QED BY <3>1, <3>2, <1>12
  <2> QED BY <2>1, <2>2, <2>3, <2>4, <1>3, <1>16 DEF TableInv, Filling
<1>23. ZeroInv'
  <2>1. \A s \in Slots : ~BeingFreed(s)' /\ (s = probe => Filling(s)') /\ (s # probe => ~Filling(s))
    BY <1>3, <1>5, <1>8 DEF BeingFreed, Frees, Filling
  <2> QED BY <2>1, <1>12 DEF CalmInv, ZeroInv
<1>24. EntryInv'
  <2>1. \A s \in Slots : HoldersOf(s)' = HoldersOf(s)
    BY <1>3, <1>8 DEF HoldersOf
  <2>2. \A s \in Slots : ~BeingFreed(s)
    BY <1>5 DEF BeingFreed, Frees
  <2> QED BY <2>1, <2>2, <1>3, <1>12, <1>16, <1>17 DEF CalmInv, EntryInv
<1>25. HistoryInv'
  BY <1>3, <1>8, <1>16, KeptStep DEF CalmInv, HistoryInv
<1>26. FreedOnce'
  BY <1>3 DEF CalmInv, FreedOnce
<1> QED BY <1>1, <1>18, <1>19, <1>20, <1>21, <1>22, <1>23, <1>24, <1>25, <1>26 DEF CalmInv

(* The new version becomes the latest one: its entry is complete, nobody   *)
(* holds it yet, and the version before it is held by the writer.  Readers *)
(* that look for the version before go on to find its entry.               *)
LEMMA PublishCalm ==
  ASSUME CalmInv, Publish
  PROVE  CalmInv'
<1>1. Inv' /\ TypeOK /\ Writer \in Procs /\ \A q \in Procs : ThreadInv(q)
  BY BatchInv, ConstantTypes DEF CalmInv, Inv, BatchStep
<1>2. \A q \in Procs \ {Writer} : Waits(q)
  BY <1>1, OthersWait DEF BatchStep
<1>3. /\ pc[Writer] = "publish" /\ pc'[Writer] = "drop"
      /\ current_timestamp' = current_timestamp + 1
      /\ UNCHANGED <<live_versions, rc, probe,
                     want, entry, word, stamp, root, todo, since, reclaimed>>
  BY <1>1 DEF Publish, Goto, TypeOK, locals, history
<1>4. pc[Writer] \in BatchSteps /\ Filling(probe) /\ probe \in Slots
  BY <1>1, <1>3 DEF BatchSteps, Filling, TypeOK
<1>5. /\ stamp[Writer] = latest_timestamp /\ Holding(Writer)
      /\ \A q \in Procs :
           /\ ~Frees(q)
           /\ MayBeLast(q) => pc[q] = "latest?"
           /\ since[q] \in {NoTs, latest_timestamp}
           /\ Found(q) =>
                want[q] = latest_timestamp /\ live_versions[entry[q]].key = latest_timestamp
      /\ \A s \in Slots : ~BeingFreed(s)
  BY <1>4, InsertIsCalm
<1>6. /\ pc[Writer] \notin Looking /\ pc'[Writer] \notin Looking
      /\ ~MayBeLast(Writer) /\ ~MayBeLast(Writer)' /\ ~Frees(Writer)' /\ Holding(Writer)'
      /\ ~Found(Writer)'
  BY <1>3 DEF Looking, AcquireSteps, MayBeLast, Frees, Holding, Found
<1>7. \A q \in Procs :
        (Holding(q)' <=> Holding(q)) /\ (MayBeLast(q)' <=> MayBeLast(q)) /\ (Frees(q)' <=> Frees(q))
  BY <1>1, <1>2, <1>5, <1>6, RolesWait
<1>8. current_timestamp \in Timestamps
  BY <1>1, <1>4, ConstantTypes DEF CalmInv, Inv, RoomForBatch, TypeOK, Timestamps
<1>9. /\ latest_timestamp' = current_timestamp
      /\ current_timestamp = latest_timestamp + 1 /\ latest_timestamp \in Nat
      /\ tombstone \notin Timestamps /\ max_ts \notin Timestamps
      /\ 0..current_timestamp \subseteq Timestamps
  BY <1>1, <1>3, <1>8, Numbers, ConstantTypes DEF latest_timestamp, Timestamps
<1>10. /\ live_versions[probe] = new_entry(current_timestamp, next_root)
       /\ next_root \in {current_timestamp, nullptr}
       /\ next_root # nullptr => rc[current_timestamp] = 1
  BY <1>3, <1>4 DEF CalmInv, WriterInv
<1>11. \A s \in Slots : HoldersOf(s)' = HoldersOf(s)
  BY <1>3, <1>7 DEF HoldersOf
<1>12. HoldersOf(probe) = {}
  BY <1>4, FilledSlot DEF HoldersOf
<1>13. BatchIsCalm' /\ \A s : ~Filling(s)'
  BY <1>3 DEF BatchIsCalm, BatchSteps, Filling
<1>14. ASSUME NEW q \in Procs PROVE ThreadInv(q)'
  <2>1. ThreadInv(q)
    BY <1>1
  <2>2. 0..latest_timestamp \subseteq 0..latest_timestamp'
    BY <1>9
  <2>3. ObjectInv(q)'
    <3>1. pc'[q] # "root" => pc[q] # "root"
      BY <1>2, <1>3 DEF Waits
    <3> QED BY <2>1, <2>2, <3>1, <1>3, <1>7 DEF ThreadInv, ObjectInv
  <2>4. CASE q = Writer
    <3>1. LookingInv(q)'
      BY <2>1, <2>4, <1>3, <1>6 DEF ThreadInv, LookingInv
    <3> QED BY <2>3, <2>4, <3>1, <1>3, <1>6 DEF ThreadInv, LastInv, FreesInv
  <2>5. CASE q # Writer
    <3>1. Waits(q)
      BY <1>2, <2>5
    <3>2. latest_timestamp # latest_timestamp'
      BY <1>9
    <3>3. Found(q) => want[q] # latest_timestamp'
      BY <3>2, <1>5
    <3>4. since[q] \in 0..latest_timestamp =>
            /\ since[q] \in 0..latest_timestamp'
            /\ since[q]..latest_timestamp \subseteq since[q]..latest_timestamp'
      BY <1>9
    <3>5. LookingInv(q)'
      <4>1. pc[q] \in Looking \ {"loop"} => want[q] \in since[q]..latest_timestamp'
        BY <2>1, <3>4 DEF ThreadInv, LookingInv
      <4>2. Found(q)' <=> Found(q)
        BY <3>1 DEF Waits, Found
      <4> QED BY <2>1, <2>5, <3>1, <3>3, <3>4, <4>1, <4>2, <1>3
            DEF ThreadInv, LookingInv, Waits
    <3>6. LastInv(q)'
      <4>1. pc[q] \notin {"reread", "claim"}
        BY <1>5 DEF MayBeLast
      <4> QED BY <3>1, <4>1 DEF LastInv, Waits
    <3> QED BY <2>3, <3>5, <3>6, <1>5, <1>7 DEF ThreadInv, FreesInv
  <2> QED BY <2>4, <2>5
<1>15. AloneInv'
  BY <1>5, <1>7 DEF AloneInv
<1>16. WriterInv'
  BY <1>3 DEF WriterInv, BatchSteps
<1>17. ZeroInv'
  <2>1. \A s \in Slots : ~BeingFreed(s)' /\ (s # probe => ~Filling(s))
    BY <1>5, <1>7 DEF BeingFreed, Frees, Filling
  <2>2. live_versions[probe].key # tombstone
    BY <1>8, <1>9, <1>10 DEF new_entry
  <2> QED BY <2>1, <2>2, <1>3 DEF CalmInv, ZeroInv
<1>18. TableInv'
  <2>1. \A s \in Slots : live_versions[s].key \in (0..latest_timestamp') \union {max_ts, tombstone}
    BY <1>9 DEF CalmInv, TableInv
  <2>2. live_versions[probe].key = latest_timestamp'
    BY <1>9, <1>10 DEF new_entry
  <2>3. \A s1, s2 \in Slots :
          live_versions[s1].key = live_versions[s2].key /\ live_versions[s1].key \in Timestamps
            => s1 = s2
    BY DEF CalmInv, TableInv
  <2> QED BY <1>3, <1>4, <2>1, <2>2, <2>3 DEF TableInv
<1>19. EntryInv'
  <2>1. reclaimed \subseteq 0..(latest_timestamp - 1)
    BY DEF CalmInv, HistoryInv
  <2>2. ASSUME NEW s \in Slots, live_versions[s].key \in 0..current_timestamp
        PROVE  /\ live_versions[s].word =
                    make_refct(live_versions[s].key, 1 + Cardinality(HoldersOf(s)))
               /\ live_versions[s].root \in {nullptr, live_versions[s].key}
               /\ live_versions[s].root # nullptr => rc[live_versions[s].key] = 1
               /\ live_versions[s].key \notin reclaimed
    <3>1. CASE s = probe
      <4>1. Cardinality(HoldersOf(s)) = 0
        BY <3>1, <1>12, FS_EmptySet
      <4>2. current_timestamp \notin reclaimed
        BY <2>1, <1>9
      <4> QED BY <3>1, <4>1, <4>2, <1>10 DEF new_entry
    <3>2. CASE s # probe
      <4>1. live_versions[s].key # current_timestamp
        BY <3>2, <1>4, <1>8, <1>10 DEF CalmInv, TableInv, new_entry
      <4>2. live_versions[s].key \in 0..latest_timestamp
        BY <2>2, <4>1, <1>9
      <4> QED BY <4>2, <1>5 DEF CalmInv, EntryInv
    <3> QED BY <3>1, <3>2
  <2> QED BY <2>2, <1>3, <1>9, <1>11 DEF EntryInv
<1>20. HistoryInv'
  <2>1. ASSUME NEW t \in (0..latest_timestamp) \ reclaimed
        PROVE  \E q \in Procs : stamp'[q] = t /\ (Holding(q)' \/ MayBeLast(q)')
    <3>1. CASE t = latest_timestamp
      BY <3>1, <1>1, <1>3, <1>5, <1>6
    <3>2. CASE t # latest_timestamp
      <4>1. t \in (0..(latest_timestamp - 1)) \ reclaimed
        BY <2>1, <3>2, <1>9
      <4>2. PICK q \in Procs : stamp[q] = t /\ (Holding(q) \/ MayBeLast(q))
        BY <4>1 DEF CalmInv, HistoryInv, NoneForgotten, MayBeLast
      <4> QED BY <4>2, <1>3, <1>7
    <3> QED BY <3>1, <3>2
  <2>2. latest_timestamp' - 1 = latest_timestamp
    BY <1>9
  <2>3. reclaimed' \subseteq 0..latest_timestamp
    BY <1>3, <1>9 DEF CalmInv, HistoryInv
  <2> QED BY <2>1, <2>2, <2>3, <1>3 DEF HistoryInv, NoneForgotten, MayBeLast
<1>21. FreedOnce'
  BY <1>3 DEF CalmInv, FreedOnce
<1> QED BY <1>1, <1>13, <1>14, <1>15, <1>16, <1>17, <1>18, <1>19, <1>20, <1>21 DEF CalmInv
-----------------------------------------------------------------------------
(* A version that is not reclaimed, in the hands of a thread that may be   *)
(* the last to know of it, still has its entry with its count and root.    *)
LEMMA LastEntry ==
  ASSUME CalmInv, NEW p \in Procs, MayBeLast(p), stamp[p] \notin reclaimed
  PROVE  /\ stamp[p] \in 0..latest_timestamp
         /\ live_versions[entry[p]].key = stamp[p]
         /\ ~BeingFreed(entry[p])
         /\ live_versions[entry[p]].word =
              make_refct(stamp[p], 1 + Cardinality(HoldersOf(entry[p])))
         /\ root[p] \in {nullptr, stamp[p]}
         /\ root[p] # nullptr => rc[stamp[p]] = 1
<1>1. TypeOK /\ entry[p] \in Slots /\ \A q \in Procs : ThreadInv(q)
  BY DEF CalmInv, Inv, TypeOK
<1>2. /\ stamp[p] \in 0..latest_timestamp
      /\ live_versions[entry[p]].key = stamp[p]
      /\ root[p] = live_versions[entry[p]].root
  BY <1>1 DEF ThreadInv, ObjectInv
<1>3. ASSUME NEW q \in Procs, Frees(q), entry[q] = entry[p] PROVE FALSE
  <2>1. stamp[q] \in reclaimed /\ live_versions[entry[p]].key \in {stamp[q], tombstone}
    BY <1>1, <1>3 DEF ThreadInv, FreesInv
  <2>2. stamp[p] # tombstone
    BY <1>1, <1>2, Numbers
  <2> QED BY <1>2, <2>1, <2>2
<1>4. ~BeingFreed(entry[p])
  BY <1>3 DEF BeingFreed, Frees
<1> QED BY <1>1, <1>2, <1>4 DEF CalmInv, EntryInv

(* The entry of a reclaimed version counts nobody.                         *)
LEMMA ReclaimedEntry ==
  ASSUME CalmInv, NEW p \in Procs, MayBeLast(p), live_versions[entry[p]].word.ct # 0
  PROVE  stamp[p] \notin reclaimed
<1> SUFFICES ASSUME stamp[p] \in reclaimed PROVE FALSE
  OBVIOUS
<1>1. TypeOK /\ entry[p] \in Slots /\ ObjectInv(p)
  BY DEF CalmInv, Inv, TypeOK, ThreadInv
<1>2. ~Filling(entry[p])
  BY <1>1, FilledSlot
<1>3. live_versions[entry[p]].key # tombstone /\ ~BeingFreed(entry[p])
  BY <1>1, <1>2 DEF CalmInv, ZeroInv
<1>4. live_versions[entry[p]].key = stamp[p] /\ stamp[p] \in 0..latest_timestamp
  BY <1>1, <1>3 DEF ObjectInv
<1> QED BY <1>1, <1>3, <1>4 DEF CalmInv, EntryInv

(* Who finds more than the table's own count leaves the version to another *)
(* holder, or finds it freed.                                              *)
LEMMA LetGo ==
  ASSUME CalmInv, NEW p \in Procs, MayBeLast(p),
         live_versions[entry[p]].word # make_refct(stamp[p], 1)
  PROVE  stamp[p] \in reclaimed \/ \E r \in Procs \ {p} : Holding(r) /\ stamp[r] = stamp[p]
<1> SUFFICES ASSUME stamp[p] \notin reclaimed
             PROVE  \E r \in Procs \ {p} : Holding(r) /\ stamp[r] = stamp[p]
  OBVIOUS
<1>1. /\ live_versions[entry[p]].key = stamp[p]
      /\ live_versions[entry[p]].word =
           make_refct(stamp[p], 1 + Cardinality(HoldersOf(entry[p])))
  BY LastEntry
<1>2. HoldersOf(entry[p]) \in SUBSET Procs
  BY DEF HoldersOf
<1>3. Cardinality(HoldersOf(entry[p])) # 0
  BY <1>1
<1>4. PICK r \in Procs : Holding(r) /\ entry[r] = entry[p]
  BY <1>2, <1>3, CountRoom DEF HoldersOf
<1>5. stamp[r] = stamp[p]
  BY <1>1, <1>4 DEF CalmInv, ThreadInv, ObjectInv
<1>6. r # p
  BY <1>4 DEF Holding, MayBeLast, BatchSteps
<1> QED BY <1>4, <1>5, <1>6

(* release_version up to the fetch-and-add, and the tests after it.        *)
LEMMA ReleaseCalm ==
  ASSUME Calm, CalmInv, NEW p \in Procs,
         (p \in Readers /\ StartRelease(p)) \/ CheckLatest(p) \/ Reread(p)
  PROVE  CalmInv'
<1>1. Inv' /\ TypeOK
  BY ReleaseInv DEF CalmInv, Inv, ReleaseStep
<1>2. \A q \in Procs \ {p} : Waits(q)
  BY <1>1, OthersWait DEF ReleaseStep
<1>3. ThreadInv(p) /\ LookingInv(p) /\ ObjectInv(p) /\ LastInv(p)
  BY DEF CalmInv, ThreadInv
<1>4. CASE p \in Readers /\ StartRelease(p)
  <2>1. /\ pc[p] = "held" /\ pc'[p] = "drop" /\ MayRelease(p) /\ p # Writer
        /\ UNCHANGED <<shared, locals, history>>
    BY <1>1, <1>4, WriterAssumption DEF StartRelease, Goto, TypeOK
  <2>2. /\ Holding(p) /\ Holding(p)' /\ ~MayBeLast(p) /\ ~MayBeLast(p)' /\ ~Frees(p) /\ ~Frees(p)'
        /\ pc[p] \notin BatchSteps /\ pc'[p] \notin BatchSteps
        /\ pc[p] \notin Looking /\ pc'[p] \notin Looking
    BY <2>1 DEF Holding, MayBeLast, Frees, BatchSteps, Looking, AcquireSteps
  <2>3. latest_timestamp' = latest_timestamp
    BY <2>1 DEF latest_timestamp, shared
  <2>4. pc[Writer] \in BatchSteps =>
          stamp'[p] = latest_timestamp /\ since'[p] \in {NoTs, latest_timestamp}
    BY <2>1, InsertIsCalm DEF MayRelease, locals, history
  <2>5. BatchIsCalm' /\ WriterInv' /\ \A s : Filling(s)' <=> Filling(s)
    BY <1>2, <2>1, <2>2, <2>4, BatchStays DEF shared
  <2>6. ThreadInv(p)'
    <3>1. LookingInv(p)'
      BY <1>3, <2>1, <2>2 DEF LookingInv, Found, history
    <3>2. ObjectInv(p)'
      BY <1>3, <2>1, <2>2, <2>3 DEF ObjectInv, shared, locals
    <3> QED BY <2>1, <2>2, <3>1, <3>2 DEF ThreadInv, LastInv, FreesInv
  <2>7. FreedOnce'
    BY <2>1 DEF CalmInv, FreedOnce, shared
  <2> QED BY <1>1, <1>2, <2>1, <2>2, <2>5, <2>6, <2>7, QuietStep DEF shared, locals, history
<1>5. CASE CheckLatest(p) \/ Reread(p)
  <2>1. /\ pc[p] \in {"latest?", "reread"} /\ UNCHANGED <<shared, history>>
        /\ pc[p] = "latest?" => CheckLatest(p)
        /\ pc[p] = "reread" => Reread(p)
    BY <1>5 DEF CheckLatest, Reread
  <2>2. /\ ~Holding(p) /\ MayBeLast(p) /\ ~Frees(p)
        /\ pc[p] \notin BatchSteps /\ pc[p] \notin Looking /\ pc[p] \in ReleaseSteps
    BY <2>1 DEF Holding, MayBeLast, Frees, BatchSteps, Looking, AcquireSteps, ReleaseSteps
  <2>3. pc[p] = "latest?" =>
          \/ pc'[p] = "reread" /\ stamp[p] # latest_timestamp /\ UNCHANGED locals
          \/ pc'[p] = "idle" /\ stamp[p] = latest_timestamp
    BY <1>1, <2>1 DEF CheckLatest, IsSuperseded, Finish, Continue, Goto, TypeOK
  <2>4. pc[p] = "reread" =>
          \/ /\ pc'[p] = "claim" /\ word'[p] = live_versions[entry[p]].word
             /\ live_versions[entry[p]].word.ct = 1
             /\ UNCHANGED <<want, entry, stamp, root, todo>>
          \/ pc'[p] = "idle" /\ live_versions[entry[p]].word.ct # 1
    BY <1>1, <2>1 DEF Reread, OnlyTableCounts, Finish, Goto, TypeOK
  <2>5. pc'[p] \in {"idle", "reread", "claim"}
    BY <2>1, <2>3, <2>4
  <2>6. /\ ~Holding(p)' /\ ~Frees(p)' /\ (MayBeLast(p)' <=> pc'[p] # "idle")
        /\ pc'[p] \notin BatchSteps /\ pc'[p] \notin Looking
        /\ pc'[p] \in ReleaseSteps <=> pc'[p] # "idle"
    BY <2>5 DEF Holding, MayBeLast, Frees, BatchSteps, Looking, AcquireSteps, ReleaseSteps
  <2>7. pc'[p] # "idle" =>
          /\ entry'[p] = entry[p] /\ stamp'[p] = stamp[p] /\ root'[p] = root[p]
          /\ stamp[p] # latest_timestamp
    BY <1>3, <2>1, <2>3, <2>4 DEF LastInv, locals
  <2>8. pc'[p] = "idle" =>
          \/ stamp[p] = latest_timestamp
          \/ stamp[p] \in reclaimed
          \/ \E r \in Procs \ {p} : Holding(r) /\ stamp[r] = stamp[p]
    <3>1. CASE pc[p] = "latest?"
      BY <3>1, <2>3
    <3>2. CASE pc[p] = "reread"
      <4>1. pc'[p] = "idle" => live_versions[entry[p]].word # make_refct(stamp[p], 1)
        BY <3>2, <2>4 DEF make_refct
      <4> QED BY <4>1, <2>2, LetGo
    <3> QED BY <3>1, <3>2, <2>1
  <2>9. pc'[p] = "claim" => word'[p] = make_refct(stamp[p], 1)
    <3>1. SUFFICES ASSUME pc'[p] = "claim" PROVE word'[p] = make_refct(stamp[p], 1)
      OBVIOUS
    <3>2. word'[p] = live_versions[entry[p]].word /\ live_versions[entry[p]].word.ct = 1
      BY <3>1, <2>1, <2>3, <2>4
    <3>3. stamp[p] \notin reclaimed
      BY <3>2, <2>2, ReclaimedEntry
    <3>4. word'[p] = make_refct(stamp[p], 1 + Cardinality(HoldersOf(entry[p])))
      BY <3>2, <3>3, <2>2, LastEntry
    <3> QED BY <3>2, <3>4 DEF make_refct
  <2>10. latest_timestamp' = latest_timestamp
    BY <2>1 DEF latest_timestamp, shared
  <2>11. since'[p] = NoTs
    BY <1>3, <2>1, <2>2 DEF LookingInv, history
  <2>12. BatchIsCalm' /\ WriterInv' /\ \A s : Filling(s)' <=> Filling(s)
    <3>1. pc[Writer] \in BatchSteps /\ pc'[p] \in ReleaseSteps => stamp'[p] = latest_timestamp
      BY <2>2, <2>6, <2>7, InsertIsCalm
    <3>2. pc'[p] \notin {"root", "held"}
      BY <2>5
    <3> QED BY <1>2, <2>1, <2>2, <2>6, <2>11, <3>1, <3>2, BatchStays DEF shared
  <2>13. ThreadInv(p)'
    <3>1. LookingInv(p)'
      BY <2>6, <2>5, <2>11 DEF LookingInv, Found
    <3>2. ObjectInv(p)'
      BY <1>3, <2>1, <2>2, <2>6, <2>7, <2>10 DEF ObjectInv, shared, history
    <3>3. LastInv(p)'
      BY <2>5, <2>7, <2>9, <2>10 DEF LastInv
    <3> QED BY <2>6, <3>1, <3>2, <3>3 DEF ThreadInv, FreesInv
  <2>14. FreedOnce'
    BY <2>1 DEF CalmInv, FreedOnce, shared
  <2>15. \/ MayBeLast(p)' /\ stamp'[p] = stamp[p]
         \/ stamp[p] = latest_timestamp
         \/ stamp[p] \in reclaimed
         \/ \E r \in Procs \ {p} : Holding(r) /\ stamp[r] = stamp[p]
    BY <2>6, <2>7, <2>8
  <2> QED BY <1>1, <1>2, <2>1, <2>2, <2>6, <2>12, <2>13, <2>14, <2>15, QuietStep
        DEF shared, history
<1> QED BY <1>4, <1>5

(* A decrement leaves the exact count behind; whoever leaves only the      *)
(* table's own count there was the last holder, and a superseded version   *)
(* that others hold is not forgotten.                                      *)
LEMMA DropCalm ==
  ASSUME CalmInv, NEW p \in Procs, DropCount(p)
  PROVE  CalmInv'
<1> DEFINE s0 == entry[p]
           H == HoldersOf(s0)
<1>1. Inv' /\ TypeOK /\ \A q \in Procs : ThreadInv(q)
  BY ReleaseInv DEF CalmInv, Inv, ReleaseStep
<1>2. \A q \in Procs \ {p} : Waits(q)
  BY <1>1, OthersWait DEF ReleaseStep
<1>3. /\ pc[p] = "drop"
      /\ live_versions' =
           [live_versions EXCEPT ![s0].word = MinusOne(live_versions[s0].word)]
      /\ UNCHANGED <<current_timestamp, rc, next_root, probe, since, reclaimed>>
  BY DEF DropCount, history
<1>4. /\ Holding(p) /\ ~MayBeLast(p) /\ ~Frees(p) /\ pc[p] \in ReleaseSteps
      /\ pc[p] \notin BatchSteps /\ pc[p] \notin Looking
  BY <1>3 DEF Holding, MayBeLast, Frees, ReleaseSteps, BatchSteps, Looking, AcquireSteps
<1>5. /\ s0 \in Slots /\ live_versions[s0].key = stamp[p] /\ stamp[p] \in 0..latest_timestamp
      /\ root[p] = live_versions[s0].root
  BY <1>1, <1>3, <1>4 DEF ThreadInv, ObjectInv, TypeOK
<1>6. \A q \in Procs : Frees(q) => entry[q] # s0
  BY <1>1, <1>4 DEF ThreadInv, FreesInv
<1>7. ~BeingFreed(s0) /\ ~Filling(s0)
  <2>1. ~BeingFreed(s0)
    BY <1>6 DEF BeingFreed, Frees
  <2>2. ~Filling(s0)
    BY <1>4, <1>5, FilledSlot
  <2> QED BY <2>1, <2>2
<1>8. H \in SUBSET Procs /\ p \in H
  BY <1>4 DEF HoldersOf
<1>9. live_versions[s0].word = make_refct(stamp[p], 1 + Cardinality(H))
  BY <1>5, <1>7 DEF CalmInv, EntryInv
<1> HIDE DEF s0, H
<1>10. /\ Cardinality(H) \in Nat /\ Cardinality(H) > 0
       /\ Cardinality(H \ {p}) = Cardinality(H) - 1
       /\ Cardinality(H) = 1 => H = {p}
       /\ Cardinality(H) # 1 => \E q \in H : q # p
  BY <1>8, CountRoom
<1>11. MinusOne(live_versions[s0].word) = make_refct(stamp[p], Cardinality(H))
  BY <1>9, <1>10 DEF MinusOne, make_refct
<1>12. /\ \A s \in Slots : live_versions'[s].key = live_versions[s].key
       /\ \A s \in Slots : live_versions'[s].root = live_versions[s].root
       /\ \A s \in Slots \ {s0} : live_versions'[s] = live_versions[s]
       /\ live_versions'[s0].word = make_refct(stamp[p], Cardinality(H))
  BY <1>1, <1>3, <1>5, <1>11 DEF TypeOK, Entries
<1>13. \/ pc'[p] = "latest?" /\ UNCHANGED locals
       \/ (\E q \in H : q # p) /\ pc'[p] = "idle"
  <2>1. CASE Cardinality(H) = 1
    <3>1. LeavesTableOnly(live_versions[s0].word)
      BY <2>1, <1>9 DEF LeavesTableOnly, make_refct
    <3> QED BY <3>1, <1>1 DEF DropCount, Continue, Goto, TypeOK, s0
  <2>2. CASE Cardinality(H) # 1
    <3>1. ~LeavesTableOnly(live_versions[s0].word)
      BY <2>2, <1>9, <1>10 DEF LeavesTableOnly, make_refct
    <3> QED BY <3>1, <2>2, <1>1, <1>10 DEF DropCount, Finish, Goto, TypeOK, s0
  <2> QED BY <2>1, <2>2
<1>14. latest_timestamp' = latest_timestamp /\ tombstone # stamp[p]
  BY <1>1, <1>3, <1>5, Numbers DEF latest_timestamp
<1>15. /\ ~Holding(p)' /\ ~Frees(p)' /\ pc'[p] \notin BatchSteps /\ pc'[p] \notin Looking
       /\ pc'[p] \in ReleaseSteps <=> pc'[p] = "latest?"
       /\ MayBeLast(p)' <=> pc'[p] = "latest?"
  BY <1>13
     DEF Holding, Frees, BatchSteps, Looking, AcquireSteps, ReleaseSteps, MayBeLast
<1>16. \A q \in Procs \ {p} :
         (Holding(q)' <=> Holding(q)) /\ (MayBeLast(q)' <=> MayBeLast(q)) /\ (Frees(q)' <=> Frees(q))
  BY <1>2, RolesWait
<1>17. \A s \in Slots : HoldersOf(s)' = IF s = s0 THEN H \ {p} ELSE HoldersOf(s)
  BY <1>2, <1>15, <1>16 DEF HoldersOf, H, s0, Waits
<1>18. \A s \in Slots : BeingFreed(s)' <=> BeingFreed(s)
  BY <1>2, <1>4, <1>15, <1>16 DEF BeingFreed, Frees, Waits
<1>19. since'[p] = NoTs
  BY <1>1, <1>3, <1>4 DEF ThreadInv, LookingInv
<1>20. BatchIsCalm' /\ WriterInv' /\ \A s : Filling(s)' <=> Filling(s)
  <2>1. pc[Writer] \in BatchSteps /\ pc'[p] \in ReleaseSteps => stamp'[p] = latest_timestamp
    <3>1. pc[Writer] \in BatchSteps => p \in Readers
      BY <1>4 DEF Procs
    <3> QED BY <3>1, <1>4, <1>13, <1>15 DEF CalmInv, BatchIsCalm, locals
  <2>2. Filling(probe) => live_versions'[probe] = live_versions[probe]
    BY <1>1, <1>7, <1>12 DEF TypeOK
  <2>3. pc'[p] \notin {"root", "held"}
    BY <1>13
  <2> QED BY <1>2, <1>3, <1>4, <1>15, <1>19, <2>1, <2>2, <2>3, BatchStays
<1>21. ASSUME NEW q \in Procs PROVE ThreadInv(q)'
  <2>1. ThreadInv(q) /\ entry[q] \in Slots
    BY <1>1 DEF TypeOK
  <2>2. \A r \in Procs : Holding(r)' => r # p /\ Holding(r) /\ entry'[r] = entry[r]
    BY <1>2, <1>15, <1>16 DEF Waits
  <2>3. CASE q # p
    <3>1. Waits(q)
      BY <1>2, <2>3
    <3>2. LookingInv(q)'
      BY <3>1, <1>12, <1>14, <2>1 DEF ThreadInv, LookingInv, Found, Waits
    <3>3. ObjectInv(q)'
      BY <3>1, <2>3, <1>3, <1>12, <1>14, <1>16, <2>1 DEF ThreadInv, ObjectInv, Waits
    <3>4. LastInv(q)'
      BY <3>1, <1>14, <2>1 DEF ThreadInv, LastInv, Waits
    <3>5. FreesInv(q)'
      BY <3>1, <2>3, <1>3, <1>12, <1>14, <1>16, <2>1, <2>2
         DEF ThreadInv, FreesInv, Waits
    <3> QED BY <3>2, <3>3, <3>4, <3>5 DEF ThreadInv
  <2>4. CASE q = p
    <3>1. LookingInv(q)'
      BY <2>4, <1>13, <1>15, <1>19 DEF LookingInv, Found
    <3>2. ObjectInv(q)'
      BY <2>4, <1>5, <1>12, <1>13, <1>14, <1>15 DEF ObjectInv, locals, s0
    <3>3. LastInv(q)'
      BY <2>4, <1>13 DEF LastInv
    <3> QED BY <2>4, <3>1, <3>2, <3>3, <1>15 DEF ThreadInv, FreesInv
  <2> QED BY <2>3, <2>4
<1>22. AloneInv'
  BY <1>2, <1>15, <1>16 DEF CalmInv, AloneInv, Waits
<1>23. ZeroInv'
  BY <1>5, <1>7, <1>12, <1>14, <1>18, <1>20 DEF CalmInv, ZeroInv
<1>24. TableInv'
  BY <1>3, <1>12, <1>14, <1>20 DEF CalmInv, TableInv
<1>25. EntryInv'
  <2>1. ASSUME NEW s \in Slots, live_versions'[s].key \in 0..latest_timestamp, ~BeingFreed(s)'
        PROVE  /\ live_versions'[s].word =
                    make_refct(live_versions'[s].key, 1 + Cardinality(HoldersOf(s)'))
               /\ live_versions'[s].root \in {nullptr, live_versions'[s].key}
               /\ live_versions'[s].root # nullptr => rc[live_versions'[s].key] = 1
               /\ live_versions'[s].key \notin reclaimed
    <3>1. live_versions[s].key \in 0..latest_timestamp /\ ~BeingFreed(s)
      BY <1>12, <1>18, <2>1
    <3>2. live_versions'[s].word =
            make_refct(live_versions'[s].key, 1 + Cardinality(HoldersOf(s)'))
      <4>1. CASE s = s0
        <5>1. 1 + Cardinality(H \ {p}) = Cardinality(H)
          BY <1>10
        <5> QED BY <4>1, <5>1, <1>5, <1>12, <1>17
      <4>2. CASE s # s0
        BY <3>1, <4>2, <1>12, <1>17 DEF CalmInv, EntryInv
      <4> QED BY <4>1, <4>2
    <3> QED BY <3>1, <3>2, <1>12 DEF CalmInv, EntryInv
  <2> QED BY <2>1, <1>3, <1>14 DEF EntryInv
<1>26. HistoryInv'
  <2>1. ASSUME NEW q \in Procs, Holding(q) \/ MayBeLast(q)
        PROVE  \E r \in Procs : stamp'[r] = stamp[q] /\ (Holding(r)' \/ MayBeLast(r)')
    <3>1. CASE q # p
      BY <2>1, <3>1, <1>2, <1>16 DEF Waits
    <3>2. CASE q = p /\ pc'[p] = "latest?" /\ UNCHANGED locals
      BY <3>2 DEF MayBeLast, locals
    <3>3. CASE q = p /\ \E r \in H : r # p
      <4>1. PICK r \in H : r # p
        BY <3>3
      <4>2. r \in Procs /\ Holding(r) /\ entry[r] = s0
        BY <4>1 DEF H, HoldersOf
      <4>3. stamp[r] = stamp[p]
        BY <4>2, <1>1, <1>5 DEF ThreadInv, ObjectInv
      <4> QED BY <4>1, <4>2, <4>3, <3>3, <1>2, <1>16 DEF Waits
    <3> QED BY <3>1, <3>2, <3>3, <1>13
  <2> QED BY <2>1, <1>3, <1>14, KeptStep DEF CalmInv, HistoryInv
<1>27. FreedOnce'
  BY <1>3 DEF CalmInv, FreedOnce
<1> QED BY <1>1, <1>20, <1>21, <1>22, <1>23, <1>24, <1>25, <1>26, <1>27 DEF CalmInv
-----------------------------------------------------------------------------
(* The CAS that claims a version succeeds only from the table's own count: *)
(* the version is superseded, nobody holds it or frees it, its tree is     *)
(* still allocated, and no batch is entering its version.                  *)
LEMMA ClaimedIsAlone ==
  ASSUME CalmInv, NEW p \in Procs, pc[p] = "claim", CasSucceeds(p)
  PROVE  /\ word[p] = make_refct(stamp[p], 1)
         /\ stamp[p] \in 0..(latest_timestamp - 1) /\ stamp[p] \notin reclaimed
         /\ entry[p] \in Slots /\ live_versions[entry[p]].key = stamp[p]
         /\ HoldersOf(entry[p]) = {} /\ ~BeingFreed(entry[p]) /\ ~Filling(entry[p])
         /\ root[p] \in {nullptr, stamp[p]}
         /\ root[p] # nullptr => rc[stamp[p]] = 1
         /\ pc[Writer] \notin BatchSteps
<1>1. TypeOK /\ entry[p] \in Slots /\ LastInv(p) /\ MayBeLast(p)
  BY DEF CalmInv, Inv, TypeOK, ThreadInv, MayBeLast
<1>2. /\ stamp[p] # latest_timestamp /\ word[p] = make_refct(stamp[p], 1)
      /\ live_versions[entry[p]].word = make_refct(stamp[p], 1)
  BY <1>1 DEF LastInv, CasSucceeds
<1>3. stamp[p] \notin reclaimed
  BY <1>1, <1>2, ReclaimedEntry DEF make_refct
<1>4. /\ stamp[p] \in 0..latest_timestamp
      /\ live_versions[entry[p]].key = stamp[p]
      /\ ~BeingFreed(entry[p])
      /\ live_versions[entry[p]].word =
           make_refct(stamp[p], 1 + Cardinality(HoldersOf(entry[p])))
      /\ root[p] \in {nullptr, stamp[p]}
      /\ root[p] # nullptr => rc[stamp[p]] = 1
  BY <1>1, <1>3, LastEntry
<1>5. HoldersOf(entry[p]) = {}
  <2>1. HoldersOf(entry[p]) \in SUBSET Procs
    BY DEF HoldersOf
  <2>2. Cardinality(HoldersOf(entry[p])) = 0
    <3>1. Cardinality(HoldersOf(entry[p])) \in Nat
      BY <2>1, CountRoom
    <3> QED BY <1>2, <1>4, <3>1 DEF make_refct
  <2> QED BY <2>1, <2>2, CountRoom
<1>6. stamp[p] \in 0..(latest_timestamp - 1)
  BY <1>1, <1>2, <1>4, Numbers
<1>7. pc[Writer] \notin BatchSteps
  BY <1>1, <1>2, InsertIsCalm
<1>8. ~Filling(entry[p])
  BY <1>7 DEF Filling, BatchSteps
<1> QED BY <1>1, <1>2, <1>3, <1>4, <1>5, <1>6, <1>7, <1>8

(* The version leaves the table's care with its tree still allocated.      *)
LEMMA ClaimCalm ==
  ASSUME CalmInv, NEW p \in Procs, ClaimLast(p), CasSucceeds(p)
  PROVE  CalmInv'
<1> DEFINE s0 == entry[p]
<1>1. Inv' /\ TypeOK /\ \A q \in Procs : ThreadInv(q)
  BY ReleaseInv DEF CalmInv, Inv, ReleaseStep
<1>2. \A q \in Procs \ {p} : Waits(q)
  BY <1>1, OthersWait DEF ReleaseStep
<1>3. /\ pc[p] = "claim" /\ pc'[p] = "free"
      /\ live_versions' = [live_versions EXCEPT ![s0].word = MinusOne(word[p])]
      /\ reclaimed' = reclaimed \union {stamp[p]}
      /\ UNCHANGED <<current_timestamp, rc, next_root, probe, since, locals>>
  BY <1>1 DEF ClaimLast, Continue, Goto, TypeOK
<1>4. /\ ~MayBeLast(p)' /\ Frees(p)' /\ ~Frees(p) /\ ~Holding(p) /\ ~Holding(p)'
      /\ pc[p] \notin BatchSteps /\ pc'[p] \notin BatchSteps
      /\ pc[p] \notin Looking /\ pc'[p] \notin Looking
  BY <1>3 DEF MayBeLast, Frees, Holding, BatchSteps, Looking, AcquireSteps
<1>5. /\ word[p] = make_refct(stamp[p], 1)
      /\ stamp[p] \in 0..(latest_timestamp - 1) /\ stamp[p] \notin reclaimed
      /\ s0 \in Slots /\ live_versions[s0].key = stamp[p]
      /\ HoldersOf(s0) = {} /\ ~BeingFreed(s0) /\ ~Filling(s0)
      /\ root[p] \in {nullptr, stamp[p]}
      /\ root[p] # nullptr => rc[stamp[p]] = 1
      /\ pc[Writer] \notin BatchSteps
  BY <1>3, ClaimedIsAlone
<1>6. \A q \in Procs : (Holding(q) => entry[q] # s0) /\ (Frees(q) => entry[q] # s0)
  BY <1>5 DEF HoldersOf, BeingFreed, Frees
<1>7. MinusOne(word[p]) = make_refct(stamp[p], 0)
  BY <1>5 DEF MinusOne, make_refct
<1> HIDE DEF s0
<1>8. /\ \A s \in Slots : live_versions'[s].key = live_versions[s].key
      /\ \A s \in Slots : live_versions'[s].root = live_versions[s].root
      /\ \A s \in Slots \ {s0} : live_versions'[s] = live_versions[s]
      /\ live_versions'[s0].word = make_refct(stamp[p], 0)
  BY <1>1, <1>3, <1>5, <1>7 DEF TypeOK, Entries
<1>9. /\ latest_timestamp' = latest_timestamp /\ latest_timestamp \in Nat
      /\ 0..latest_timestamp \subseteq Timestamps
      /\ 0..(latest_timestamp - 1) \subseteq 0..latest_timestamp
      /\ UNCHANGED <<want, entry, word, stamp, root, todo>>
  BY <1>1, <1>3, Numbers DEF latest_timestamp, locals
<1>10. \A q \in Procs \ {p} :
         (Holding(q)' <=> Holding(q)) /\ (MayBeLast(q)' <=> MayBeLast(q)) /\ (Frees(q)' <=> Frees(q))
  BY <1>2, RolesWait
<1>11. \A s \in Slots : HoldersOf(s)' = HoldersOf(s)
  BY <1>4, <1>9, <1>10 DEF HoldersOf
<1>12. \A s \in Slots : BeingFreed(s)' <=> (BeingFreed(s) \/ s = s0)
  BY <1>4, <1>9, <1>10 DEF BeingFreed, Frees, s0
<1>13. BatchIsCalm' /\ WriterInv' /\ \A s : Filling(s)' <=> Filling(s)
  <2>1. pc'[p] \notin {"root", "held"}
    BY <1>3
  <2> QED BY <1>2, <1>3, <1>4, <1>5, <2>1, BatchStays
<1>14. ASSUME NEW q \in Procs PROVE ThreadInv(q)'
  <2>1. ThreadInv(q) /\ entry[q] \in Slots
    BY <1>1 DEF TypeOK
  <2>2. \A r \in Procs : Holding(r)' => Holding(r)
    BY <1>4, <1>10
  <2>3. CASE q # p
    <3>1. Waits(q)
      BY <1>2, <2>3
    <3>2. LookingInv(q)'
      BY <3>1, <1>8, <1>9, <2>1 DEF ThreadInv, LookingInv, Found, Waits
    <3>3. ObjectInv(q)'
      BY <3>1, <2>3, <1>3, <1>8, <1>9, <1>10, <2>1 DEF ThreadInv, ObjectInv, Waits
    <3>4. LastInv(q)'
      BY <3>1, <1>9, <2>1 DEF ThreadInv, LastInv, Waits
    <3>5. FreesInv(q)'
      BY <3>1, <2>3, <1>3, <1>8, <1>9, <1>10, <2>1, <2>2 DEF ThreadInv, FreesInv, Waits
    <3> QED BY <3>2, <3>3, <3>4, <3>5 DEF ThreadInv
  <2>4. CASE q = p
    <3>1. LookingInv(q)'
      BY <2>1, <2>4, <1>3, <1>4 DEF ThreadInv, LookingInv, Found
    <3>2. FreesInv(q)'
      BY <2>4, <2>2, <1>3, <1>5, <1>6, <1>8, <1>9 DEF FreesInv, s0
    <3> QED BY <2>4, <3>1, <3>2, <1>3, <1>4 DEF ThreadInv, ObjectInv, LastInv
  <2> QED BY <2>3, <2>4
<1>15. AloneInv'
  <2>1. \A q \in Procs \ {p} : Frees(q)' => entry'[q] # entry'[p]
    BY <1>6, <1>9, <1>10 DEF s0
  <2>2. \A q, r \in Procs \ {p} : q # r /\ Frees(q)' /\ Frees(r)' => entry'[q] # entry'[r]
    BY <1>9, <1>10 DEF CalmInv, AloneInv
  <2> QED BY <2>1, <2>2 DEF AloneInv
<1>16. ZeroInv'
  <2>1. ASSUME NEW s \in Slots, ~Filling(s)', BeingFreed(s)' \/ live_versions'[s].key = tombstone
        PROVE  live_versions'[s].word.ct = 0
    <3>1. CASE s = s0
      BY <3>1, <1>8 DEF make_refct
    <3>2. CASE s # s0
      BY <2>1, <3>2, <1>8, <1>12, <1>13 DEF CalmInv, ZeroInv
    <3> QED BY <3>1, <3>2
  <2> QED BY <2>1 DEF ZeroInv
<1>17. TableInv'
  BY <1>3, <1>8, <1>9, <1>13 DEF CalmInv, TableInv
<1>18. EntryInv'
  <2>1. ASSUME NEW s \in Slots, live_versions'[s].key \in 0..latest_timestamp, ~BeingFreed(s)'
        PROVE  /\ live_versions'[s].word =
                    make_refct(live_versions'[s].key, 1 + Cardinality(HoldersOf(s)'))
               /\ live_versions'[s].root \in {nullptr, live_versions'[s].key}
               /\ live_versions'[s].root # nullptr => rc[live_versions'[s].key] = 1
               /\ live_versions'[s].key \notin reclaimed'
    <3>1. s # s0 /\ ~BeingFreed(s)
      BY <1>12, <2>1
    <3>2. live_versions[s].key # stamp[p]
      BY <3>1, <1>5, <1>9 DEF CalmInv, TableInv
    <3> QED BY <3>1, <3>2, <2>1, <1>3, <1>8, <1>11 DEF CalmInv, EntryInv
  <2> QED BY <2>1, <1>3, <1>9 DEF EntryInv
<1>19. HistoryInv'
  <2>1. ASSUME NEW q \in Procs, Holding(q) \/ MayBeLast(q), stamp[q] \notin reclaimed'
        PROVE  stamp'[q] = stamp[q] /\ (Holding(q)' \/ MayBeLast(q)')
    <3>1. q # p
      BY <2>1, <1>3
    <3> QED BY <3>1, <2>1, <1>9, <1>10
  <2>2. reclaimed' \subseteq 0..(latest_timestamp - 1)
    BY <1>3, <1>5 DEF CalmInv, HistoryInv
  <2> QED BY <2>1, <2>2, <1>3, <1>9, KeptStep DEF CalmInv
<1>20. FreedOnce'
  BY <1>3 DEF CalmInv, FreedOnce
<1> QED BY <1>1, <1>13, <1>14, <1>15, <1>16, <1>17, <1>18, <1>19, <1>20 DEF CalmInv

(* A claim that comes too late changes nothing: the version has another    *)
(* holder by now, or another thread has freed it.                          *)
LEMMA LateClaimCalm ==
  ASSUME CalmInv, NEW p \in Procs, ClaimLast(p), ~CasSucceeds(p)
  PROVE  CalmInv'
<1>1. Inv' /\ TypeOK /\ ThreadInv(p)
  BY ReleaseInv DEF CalmInv, Inv, ReleaseStep
<1>2. \A q \in Procs \ {p} : Waits(q)
  BY <1>1, OthersWait DEF ReleaseStep
<1>3. /\ pc[p] = "claim" /\ pc'[p] = "idle"
      /\ UNCHANGED <<current_timestamp, live_versions, rc, next_root, probe, since, reclaimed>>
  BY <1>1 DEF ClaimLast, Finish, Goto, TypeOK
<1>4. /\ MayBeLast(p) /\ ~MayBeLast(p)' /\ ~Frees(p) /\ ~Frees(p)' /\ ~Holding(p) /\ ~Holding(p)'
      /\ pc[p] \notin BatchSteps /\ pc'[p] \notin BatchSteps
      /\ pc[p] \notin Looking /\ pc'[p] \notin Looking /\ pc'[p] \notin ReleaseSteps
  BY <1>3 DEF MayBeLast, Frees, Holding, BatchSteps, Looking, AcquireSteps, ReleaseSteps
<1>5. since'[p] = NoTs
  BY <1>1, <1>3, <1>4 DEF ThreadInv, LookingInv
<1>6. stamp[p] \in reclaimed \/ \E r \in Procs \ {p} : Holding(r) /\ stamp[r] = stamp[p]
  <2>1. live_versions[entry[p]].word # make_refct(stamp[p], 1)
    BY <1>1, <1>3 DEF ThreadInv, LastInv, CasSucceeds
  <2> QED BY <1>4, <2>1, LetGo
<1>7. BatchIsCalm' /\ WriterInv' /\ \A s : Filling(s)' <=> Filling(s)
  BY <1>2, <1>3, <1>4, <1>5, BatchStays
<1>8. ThreadInv(p)' /\ FreedOnce'
  BY <1>3, <1>4, <1>5
     DEF CalmInv, ThreadInv, LookingInv, ObjectInv, LastInv, FreesInv, Found, FreedOnce
<1> QED BY <1>1, <1>2, <1>3, <1>4, <1>6, <1>7, <1>8, QuietStep

(* The tree of a claimed version is freed once: no other thread frees the  *)
(* same version, and no other entry leads to its tree.                     *)
LEMMA FreeCalm ==
  ASSUME CalmInv, NEW p \in Procs, FreeRoot(p)
  PROVE  CalmInv'
<1>1. Inv' /\ TypeOK /\ \A q \in Procs : ThreadInv(q)
  BY ReleaseInv DEF CalmInv, Inv, ReleaseStep
<1>2. \A q \in Procs \ {p} : Waits(q)
  BY <1>1, OthersWait DEF ReleaseStep
<1>3. /\ pc[p] = "free" /\ pc'[p] = "clear" /\ todo'[p] = Fields
      /\ rc' = [t \in Timestamps |-> IF t = root[p] THEN rc[t] - 1 ELSE rc[t]]
      /\ UNCHANGED <<current_timestamp, live_versions, next_root, probe,
                     want, entry, word, stamp, root, since, reclaimed>>
  BY <1>1 DEF FreeRoot, Goto, TypeOK, history
<1>4. /\ Frees(p) /\ Frees(p)' /\ ~MayBeLast(p) /\ ~MayBeLast(p)'
      /\ ~Holding(p) /\ ~Holding(p)'
      /\ pc[p] \notin BatchSteps /\ pc'[p] \notin BatchSteps
      /\ pc[p] \notin Looking /\ pc'[p] \notin Looking
  BY <1>3 DEF Frees, MayBeLast, Holding, BatchSteps, Looking, AcquireSteps
<1>5. /\ latest_timestamp' = latest_timestamp /\ latest_timestamp \in Nat
      /\ current_timestamp = latest_timestamp + 1
      /\ 0..latest_timestamp \subseteq Timestamps
      /\ nullptr \notin Timestamps
  BY <1>1, <1>3, Numbers DEF latest_timestamp, nullptr
<1>6. \A t \in reclaimed : t \in 0..latest_timestamp
  BY <1>5 DEF CalmInv, HistoryInv
<1>7. /\ stamp[p] \in reclaimed
      /\ live_versions[entry[p]].key = stamp[p]
      /\ root[p] \in {nullptr, stamp[p]}
      /\ root[p] # nullptr => rc[stamp[p]] = 1
      /\ \A q \in Procs : Holding(q) => entry[q] # entry[p]
  BY <1>1, <1>3, <1>4 DEF ThreadInv, FreesInv
<1>8. \A t \in Timestamps : t # stamp[p] => rc'[t] = rc[t]
  BY <1>3, <1>5, <1>7
<1>9. FreedOnce'
  <2>1. root[p] # nullptr => rc'[stamp[p]] = 0
    BY <1>3, <1>5, <1>6, <1>7
  <2>2. root[p] = nullptr => rc' = rc
    BY <1>1, <1>3, <1>5 DEF TypeOK
  <2> QED BY <2>1, <2>2, <1>8 DEF CalmInv, FreedOnce
<1>10. \A q \in Procs \ {p} : pc[q] = "free" => stamp[q] # stamp[p]
  <2>1. SUFFICES ASSUME NEW q \in Procs \ {p}, pc[q] = "free", stamp[q] = stamp[p]
                 PROVE  FALSE
    OBVIOUS
  <2>2. live_versions[entry[q]].key = stamp[q] /\ Frees(q)
    BY <1>1, <2>1 DEF ThreadInv, FreesInv, Frees
  <2>3. entry[q] \in Slots /\ entry[p] \in Slots /\ stamp[p] \in Timestamps
    BY <1>1, <1>5, <1>6, <1>7 DEF TypeOK
  <2>4. entry[q] = entry[p]
    BY <1>7, <2>1, <2>2, <2>3 DEF CalmInv, TableInv
  <2> QED BY <1>4, <2>2, <2>4 DEF CalmInv, AloneInv
<1>11. \A q \in Procs \ {p} :
         (Holding(q)' <=> Holding(q)) /\ (MayBeLast(q)' <=> MayBeLast(q)) /\ (Frees(q)' <=> Frees(q))
  BY <1>2, RolesWait
<1>12. \A s \in Slots : HoldersOf(s)' = HoldersOf(s)
  BY <1>3, <1>4, <1>11 DEF HoldersOf
<1>13. \A s \in Slots : BeingFreed(s)' <=> BeingFreed(s)
  BY <1>3, <1>4, <1>11 DEF BeingFreed, Frees
<1>14. BatchIsCalm' /\ WriterInv' /\ \A s : Filling(s)' <=> Filling(s)
  <2>1. pc[Writer] \notin BatchSteps /\ pc'[p] \notin {"root", "held"}
    BY <1>3, <1>4, InsertIsCalm
  <2> QED BY <1>2, <1>3, <1>4, <2>1, BatchStays
<1>15. ASSUME NEW q \in Procs PROVE ThreadInv(q)'
  <2>1. ThreadInv(q)
    BY <1>1
  <2>2. \A r \in Procs : Holding(r)' => Holding(r)
    BY <1>4, <1>11
  <2>3. CASE q # p
    <3>1. Waits(q)
      BY <1>2, <2>3
    <3>2. LookingInv(q)'
      BY <3>1, <1>3, <1>5, <2>1 DEF ThreadInv, LookingInv, Found, Waits
    <3>3. ObjectInv(q)'
      BY <3>1, <2>3, <1>3, <1>5, <1>11, <2>1 DEF ThreadInv, ObjectInv, Waits
    <3>4. LastInv(q)'
      BY <3>1, <1>5, <2>1 DEF ThreadInv, LastInv, Waits
    <3>5. Frees(q) => stamp[q] \in Timestamps
      BY <2>1, <1>5, <1>6 DEF ThreadInv, FreesInv
    <3>6. pc[q] = "free" => rc'[stamp[q]] = rc[stamp[q]]
      BY <3>5, <2>3, <1>8, <1>10 DEF Frees
    <3>7. FreesInv(q)'
      BY <3>1, <3>6, <2>3, <1>3, <1>11, <2>1, <2>2 DEF ThreadInv, FreesInv, Waits
    <3> QED BY <3>2, <3>3, <3>4, <3>7 DEF ThreadInv
  <2>4. CASE q = p
    <3>1. LookingInv(q)'
      BY <2>1, <2>4, <1>3, <1>4 DEF ThreadInv, LookingInv, Found
    <3>2. FreesInv(q)'
      BY <2>4, <2>2, <1>3, <1>4, <1>7 DEF FreesInv, Fields
    <3> QED BY <2>4, <3>1, <3>2, <1>4, <1>3 DEF ThreadInv, ObjectInv, LastInv
  <2> QED BY <2>3, <2>4
<1>16. AloneInv'
  BY <1>3, <1>4, <1>11 DEF CalmInv, AloneInv
<1>17. ZeroInv'
  BY <1>3, <1>13, <1>14 DEF CalmInv, ZeroInv
<1>18. TableInv'
  BY <1>3, <1>5, <1>14 DEF CalmInv, TableInv
<1>19. EntryInv'
  <2>1. ASSUME NEW s \in Slots, live_versions[s].key \in 0..latest_timestamp, ~BeingFreed(s)
        PROVE  rc'[live_versions[s].key] = rc[live_versions[s].key]
    <3>1. live_versions[s].key # stamp[p]
      BY <2>1, <1>7 DEF CalmInv, EntryInv
    <3> QED BY <3>1, <2>1, <1>5, <1>8
  <2> QED BY <2>1, <1>3, <1>5, <1>12, <1>13 DEF CalmInv, EntryInv
<1>20. HistoryInv'
  BY <1>3, <1>4, <1>5, <1>11, KeptStep DEF CalmInv, HistoryInv
<1> QED BY <1>1, <1>9, <1>14, <1>15, <1>16, <1>17, <1>18, <1>19, <1>20 DEF CalmInv

(* A word of an entry whose version is being freed changes: threads that   *)
(* found the entry before may look at it still, but none holds it, and its *)
(* count stays zero.                                                       *)
LEMMA FreedSlotStep ==
  ASSUME CalmInv, Inv', NEW p \in Procs, \A q \in Procs \ {p} : Waits(q),
         pc[p] \in {"clear", "bury"}, pc'[p] \in {"clear", "bury", "idle"},
         live_versions'[entry[p]].key \in {live_versions[entry[p]].key, tombstone},
         live_versions'[entry[p]].word.ct = 0,
         \A s \in Slots \ {entry[p]} : live_versions'[s] = live_versions[s],
         UNCHANGED <<current_timestamp, rc, next_root, probe, since, reclaimed>>,
         pc'[p] = "idle" => live_versions'[entry[p]].key = tombstone,
         pc'[p] # "idle" => entry'[p] = entry[p] /\ stamp'[p] = stamp[p] /\ todo'[p] # {},
         pc'[p] = "clear" => live_versions'[entry[p]].key = stamp[p],
         pc'[p] = "bury" /\ "key" \notin todo'[p] => live_versions'[entry[p]].key = tombstone
  PROVE  CalmInv'
<1> DEFINE s0 == entry[p]
<1>1. TypeOK /\ \A q \in Procs : ThreadInv(q)
  BY DEF CalmInv, Inv
<1>2. /\ Frees(p) /\ ~MayBeLast(p) /\ ~MayBeLast(p)' /\ ~Holding(p) /\ ~Holding(p)'
      /\ pc[p] \notin BatchSteps /\ pc'[p] \notin BatchSteps
      /\ pc[p] \notin Looking /\ pc'[p] \notin Looking
      /\ Frees(p)' <=> pc'[p] # "idle"
  BY DEF Frees, MayBeLast, Holding, BatchSteps, Looking, AcquireSteps
<1>3. /\ latest_timestamp' = latest_timestamp /\ latest_timestamp \in Nat
      /\ 0..latest_timestamp \subseteq Timestamps
      /\ tombstone \notin Timestamps /\ s0 \in Slots
  BY <1>1, Numbers DEF latest_timestamp, TypeOK
<1>4. /\ stamp[p] \in reclaimed
      /\ \A q \in Procs : Holding(q) => entry[q] # s0
      /\ live_versions[s0].key \in {stamp[p], tombstone}
      /\ live_versions'[s0].key \in {stamp[p], tombstone}
  BY <1>1, <1>2 DEF ThreadInv, FreesInv
<1>5. /\ stamp[p] \in 0..latest_timestamp
      /\ live_versions[s0].key # latest_timestamp
  <2>1. stamp[p] \in 0..(latest_timestamp - 1)
    BY <1>4 DEF CalmInv, HistoryInv
  <2>2. latest_timestamp \in 0..latest_timestamp
    BY <1>3
  <2> QED BY <2>1, <2>2, <1>3, <1>4
<1>6. \A q \in Procs \ {p} : Frees(q) => entry[q] # s0
  BY <1>2 DEF CalmInv, AloneInv
<1>7. \A q \in Procs \ {p} :
        (Holding(q)' <=> Holding(q)) /\ (MayBeLast(q)' <=> MayBeLast(q)) /\ (Frees(q)' <=> Frees(q))
  BY RolesWait
<1>8. \A s \in Slots : HoldersOf(s)' = HoldersOf(s)
  BY <1>2, <1>7 DEF HoldersOf, Waits
<1>9. \A s \in Slots \ {s0} : BeingFreed(s)' <=> BeingFreed(s)
  <2>1. \A q \in Procs \ {p} : Waits(q)
    OBVIOUS
  <2>2. pc'[p] # "idle" => entry'[p] = s0
    OBVIOUS
  <2> QED BY <2>1, <2>2 DEF BeingFreed, Waits
<1>10. pc[Writer] \notin BatchSteps
  BY <1>2, InsertIsCalm
<1>11. BatchIsCalm' /\ WriterInv' /\ \A s : (Filling(s)' <=> Filling(s)) /\ ~Filling(s)
  <2>1. pc'[p] \notin {"root", "held"}
    OBVIOUS
  <2>2. \A s : ~Filling(s)
    BY <1>10 DEF Filling, BatchSteps
  <2> QED BY <1>2, <1>10, <2>1, <2>2, BatchStays
<1>12. pc'[p] # "idle" => BeingFreed(s0)'
  BY DEF BeingFreed
<1> HIDE DEF s0
<1>13. ASSUME NEW q \in Procs PROVE ThreadInv(q)'
  <2>1. ThreadInv(q) /\ entry[q] \in Slots
    BY <1>1 DEF TypeOK
  <2>2. \A r \in Procs : Holding(r)' => r # p /\ Holding(r) /\ entry'[r] = entry[r]
    BY <1>2, <1>7 DEF Waits
  <2>3. CASE q # p
    <3>1. Waits(q)
      BY <2>3
    <3>2. CASE entry[q] # s0
      <4>1. live_versions'[entry[q]] = live_versions[entry[q]]
        BY <2>1, <3>2 DEF s0
      <4>2. LookingInv(q)'
        BY <3>1, <4>1, <1>3, <2>1 DEF ThreadInv, LookingInv, Found, Waits
      <4>3. ObjectInv(q)'
        BY <3>1, <4>1, <2>3, <1>3, <1>7, <2>1 DEF ThreadInv, ObjectInv, Waits
      <4>4. LastInv(q)'
        BY <3>1, <1>3, <2>1 DEF ThreadInv, LastInv, Waits
      <4>5. FreesInv(q)'
        BY <3>1, <4>1, <2>3, <1>7, <2>1, <2>2 DEF ThreadInv, FreesInv, Waits
      <4> QED BY <4>2, <4>3, <4>4, <4>5 DEF ThreadInv
    <3>3. CASE entry[q] = s0
      <4>1. ~Holding(q) /\ ~Frees(q) /\ ~Holding(q)' /\ ~Frees(q)'
        BY <3>3, <1>4, <1>6, <1>7, <2>3
      <4>2. live_versions'[s0].key \in {live_versions[s0].key, tombstone}
        BY DEF s0
      <4>3. Found(q) => want[q] # latest_timestamp
        BY <2>1, <3>3, <1>5 DEF ThreadInv, LookingInv
      <4>4. LookingInv(q)'
        BY <3>1, <3>3, <4>2, <4>3, <1>3, <2>1 DEF ThreadInv, LookingInv, Found, Waits
      <4>5. MayBeLast(q) => stamp[q] \in reclaimed
        <5>1. SUFFICES ASSUME MayBeLast(q), live_versions[s0].key = stamp[q]
                       PROVE  stamp[q] \in reclaimed
          BY <2>1, <3>3 DEF ThreadInv, ObjectInv
        <5>2. stamp[q] # tombstone
          BY <5>1, <2>1, <1>3 DEF ThreadInv, ObjectInv
        <5> QED BY <5>1, <5>2, <1>4
      <4>6. ObjectInv(q)'
        BY <3>1, <3>3, <4>1, <4>2, <4>5, <1>3, <1>7, <2>1, <2>3
           DEF ThreadInv, ObjectInv, Waits
      <4>7. LastInv(q)'
        BY <3>1, <1>3, <2>1 DEF ThreadInv, LastInv, Waits
      <4> QED BY <4>1, <4>4, <4>6, <4>7 DEF ThreadInv, FreesInv
    <3> QED BY <3>2, <3>3
  <2>4. CASE q = p
    <3>1. LookingInv(q)'
      BY <2>1, <2>4, <1>2 DEF ThreadInv, LookingInv, Found
    <3>2. FreesInv(q)'
      BY <2>4, <2>2, <1>2, <1>4 DEF FreesInv, s0
    <3> QED BY <2>4, <3>1, <3>2, <1>2 DEF ThreadInv, ObjectInv, LastInv
  <2> QED BY <2>3, <2>4
<1>14. AloneInv'
  <2>1. \A q \in Procs \ {p} : Frees(q)' /\ Frees(p)' => entry'[q] # entry'[p]
    BY <1>2, <1>6, <1>7 DEF s0, Waits
  <2>2. \A q, r \in Procs \ {p} : q # r /\ Frees(q)' /\ Frees(r)' => entry'[q] # entry'[r]
    BY <1>7 DEF CalmInv, AloneInv, Waits
  <2> QED BY <2>1, <2>2 DEF AloneInv
<1>15. ZeroInv'
  <2>1. live_versions'[s0].word.ct = 0
    BY DEF s0
  <2>2. \A s \in Slots \ {s0} : live_versions'[s] = live_versions[s]
    BY DEF s0
  <2> QED BY <2>1, <2>2, <1>9, <1>11 DEF CalmInv, ZeroInv
<1>16. TableInv'
  <2>1. \A s \in Slots :
          live_versions'[s].key \in (0..latest_timestamp) \union {max_ts, tombstone}
    BY <1>4, <1>5, <1>11 DEF CalmInv, TableInv, s0
  <2>2. \A s \in Slots : live_versions'[s].key \in {live_versions[s].key, tombstone}
    BY DEF s0
  <2>3. \E s \in Slots : live_versions'[s].key = latest_timestamp
    <3>1. PICK s \in Slots : live_versions[s].key = latest_timestamp
      BY DEF CalmInv, TableInv
    <3>2. s # s0
      BY <3>1, <1>5
    <3> QED BY <3>1, <3>2 DEF s0
  <2> QED BY <2>1, <2>2, <2>3, <1>3 DEF CalmInv, TableInv
<1>17. EntryInv'
  <2>1. ASSUME NEW s \in Slots, live_versions'[s].key \in 0..latest_timestamp, ~BeingFreed(s)'
        PROVE  s # s0
    BY <2>1, <1>3, <1>12 DEF s0
  <2>2. \A s \in Slots \ {s0} : live_versions'[s] = live_versions[s]
    BY DEF s0
  <2> QED BY <2>1, <2>2, <1>3, <1>8, <1>9 DEF CalmInv, EntryInv
<1>18. HistoryInv'
  BY <1>2, <1>3, <1>7, KeptStep DEF CalmInv, HistoryInv, Waits
<1>19. FreedOnce'
  BY DEF CalmInv, FreedOnce
<1> QED BY <1>11, <1>13, <1>14, <1>15, <1>16, <1>17, <1>18, <1>19 DEF CalmInv

(* The entry of a freed version is emptied and buried word by word.        *)
LEMMA BuryCalm ==
  ASSUME CalmInv, NEW p \in Procs, NEW f \in Fields,
         ClearEntry(p, f) \/ BuryEntry(p, f)
  PROVE  CalmInv'
<1>1. Inv' /\ TypeOK /\ StampRead
  BY ReleaseInv DEF CalmInv, Inv, ReleaseStep
<1>2. \A q \in Procs \ {p} : Waits(q)
  BY <1>1, OthersWait DEF ReleaseStep
<1>3. pc[p] \in {"clear", "bury"} /\ f \in todo[p] /\ stamp[p] \in Keys
  BY <1>1 DEF ClearEntry, BuryEntry, StampRead, ReleaseSteps
<1>4. FreesInv(p) /\ Frees(p)
  BY <1>3 DEF CalmInv, ThreadInv, Frees
<1>5. UNCHANGED <<current_timestamp, rc, next_root, probe, since, reclaimed>>
  BY DEF ClearEntry, BuryEntry, history
<1>6. entry[p] \in Slots /\ live_versions[entry[p]] \in Entries
  BY <1>1 DEF TypeOK
<1>7. live_versions[entry[p]].word.ct = 0
  <2>1. BeingFreed(entry[p])
    BY <1>3 DEF BeingFreed
  <2>2. ~Filling(entry[p])
    BY <1>4, InsertIsCalm DEF Filling, BatchSteps
  <2> QED BY <1>6, <2>1, <2>2 DEF CalmInv, ZeroInv
<1>8. CASE ClearEntry(p, f)
  <2> DEFINE e == first_empty(stamp[p])
  <2>1. live_versions' = [live_versions EXCEPT ![entry[p]] = [@ EXCEPT ![f] = e[f]]]
    BY <1>8 DEF ClearEntry
  <2>2. e \in Entries /\ e.key = stamp[p] /\ e.word.ct = 0
    BY <1>3, EntryTypes DEF first_empty, empty, make_refct
  <2> HIDE DEF e
  <2>3. \A s \in Slots \ {entry[p]} : live_versions'[s] = live_versions[s]
    BY <1>1, <2>1 DEF TypeOK
  <2>4. live_versions[entry[p]].key = stamp[p]
    BY <1>4, <1>8 DEF FreesInv, ClearEntry
  <2>5. live_versions'[entry[p]].key = stamp[p] /\ live_versions'[entry[p]].word.ct = 0
    <3>1. live_versions'[entry[p]] = [live_versions[entry[p]] EXCEPT ![f] = e[f]]
      BY <1>1, <1>6, <2>1 DEF TypeOK
    <3>2. CASE f = "key"
      BY <3>1, <3>2, <1>6, <1>7, <2>2 DEF Entries
    <3>3. CASE f = "word"
      BY <3>1, <3>3, <1>6, <2>2, <2>4 DEF Entries
    <3>4. CASE f = "root"
      BY <3>1, <3>4, <1>6, <1>7, <2>4 DEF Entries
    <3> QED BY <3>2, <3>3, <3>4 DEF Fields
  <2>6. /\ pc[p] = "clear" /\ UNCHANGED <<entry, stamp>>
        /\ \/ pc'[p] = "bury" /\ todo'[p] = Fields
           \/ pc'[p] = "clear" /\ todo'[p] = todo[p] \ {f} /\ todo[p] # {f}
    BY <1>1, <1>8 DEF ClearEntry, IsLastStore, Goto, TypeOK
  <2>7. todo'[p] # {} /\ pc'[p] \in {"clear", "bury"} /\ (pc'[p] = "bury" => "key" \in todo'[p])
    BY <1>3, <2>6 DEF Fields
  <2> QED BY <1>1, <1>2, <1>3, <1>5, <2>3, <2>4, <2>5, <2>6, <2>7, FreedSlotStep
<1>9. CASE BuryEntry(p, f)
  <2>1. live_versions' = [live_versions EXCEPT ![entry[p]] = [@ EXCEPT ![f] = tomb_empty[f]]]
    BY <1>9 DEF BuryEntry
  <2>2. tomb_empty \in Entries /\ tomb_empty.key = tombstone /\ tomb_empty.word.ct = 0
    BY EntryTypes DEF tomb_empty, empty, make_refct
  <2>3. \A s \in Slots \ {entry[p]} : live_versions'[s] = live_versions[s]
    BY <1>1, <2>1 DEF TypeOK
  <2>4. /\ live_versions'[entry[p]].key =
             IF f = "key" THEN tombstone ELSE live_versions[entry[p]].key
        /\ live_versions'[entry[p]].word.ct = 0
    <3>1. live_versions'[entry[p]] = [live_versions[entry[p]] EXCEPT ![f] = tomb_empty[f]]
      BY <1>1, <1>6, <2>1 DEF TypeOK
    <3>2. CASE f = "key"
      BY <3>1, <3>2, <1>6, <1>7, <2>2 DEF Entries
    <3>3. CASE f = "word"
      BY <3>1, <3>3, <1>6, <2>2 DEF Entries
    <3>4. CASE f = "root"
      BY <3>1, <3>4, <1>6, <1>7 DEF Entries
    <3> QED BY <3>2, <3>3, <3>4 DEF Fields
  <2>5. "key" \notin todo[p] => live_versions[entry[p]].key = tombstone
    BY <1>4, <1>9 DEF FreesInv, BuryEntry
  <2>6. "key" \notin todo[p] \ {f} => live_versions'[entry[p]].key = tombstone
    BY <2>4, <2>5
  <2>7. \/ pc'[p] = "idle" /\ todo[p] = {f}
        \/ /\ pc'[p] = "bury" /\ todo'[p] = todo[p] \ {f} /\ todo[p] # {f}
           /\ UNCHANGED <<entry, stamp>>
    BY <1>1, <1>9 DEF BuryEntry, IsLastStore, Finish, Goto, TypeOK
  <2>8. pc'[p] = "idle" => "key" \notin todo[p] \ {f}
    BY <2>7
  <2>9. pc'[p] # "idle" => todo'[p] # {}
    BY <1>3, <2>7
  <2>10. live_versions'[entry[p]].key \in {live_versions[entry[p]].key, tombstone}
    BY <2>4
  <2> QED BY <1>1, <1>2, <1>3, <1>5, <2>3, <2>4, <2>6, <2>7, <2>8, <2>9, <2>10, FreedSlotStep
<1> QED BY <1>8, <1>9

(* The constructors leave one version, visible and held by nobody.         *)
LEMMA InitCalm == Init => CalmInv
<1> SUFFICES ASSUME Init PROVE CalmInv
  OBVIOUS
<1>1. PICK g \in {0, nullptr} :
        /\ live_versions =
             [s \in Slots |-> IF s = firstIndex(0) THEN new_entry(0, g) ELSE empty]
        /\ rc = [t \in Timestamps |-> IF t = g THEN 1 ELSE 0]
  BY DEF Init
<1>2. /\ latest_timestamp = 0 /\ 0..latest_timestamp = {0} /\ reclaimed = {}
      /\ 0 \in Slots /\ 0 \in Timestamps /\ max_ts \notin Timestamps /\ tombstone # max_ts
      /\ firstIndex(0) = 0
  <2>1. current_timestamp = 1
    BY DEF Init
  <2> QED BY <2>1, ConstantTypes DEF Init, latest_timestamp, Timestamps, max_ts, tombstone, firstIndex
<1>3. /\ \A p \in Procs : pc[p] = "idle" /\ since[p] = NoTs
      /\ Writer \in Procs
  BY ConstantTypes DEF Init
<1>4. \A p \in Procs : ~Holding(p) /\ ~MayBeLast(p) /\ ~Frees(p)
  BY <1>3 DEF Holding, MayBeLast, Frees, BatchSteps
<1>5. BatchIsCalm /\ \A s : ~Filling(s)
  BY <1>3 DEF BatchIsCalm, BatchSteps, Filling
<1>6. \A p \in Procs : ThreadInv(p)
  BY <1>3, <1>4
     DEF ThreadInv, LookingInv, ObjectInv, LastInv, FreesInv, Found, Looking, AcquireSteps
<1>7. AloneInv
  BY <1>4 DEF AloneInv
<1>8. WriterInv
  BY <1>3, <1>4 DEF WriterInv, BatchSteps
<1>9. /\ live_versions[0] = new_entry(0, g)
      /\ \A s \in Slots \ {0} : live_versions[s] = empty
  BY <1>1, <1>2
<1>10. /\ live_versions[0].key = 0 /\ live_versions[0].word = make_refct(0, 1)
       /\ live_versions[0].root = g
       /\ \A s \in Slots \ {0} : live_versions[s].key = max_ts
  BY <1>9 DEF new_entry, empty
<1>11. TableInv
  BY <1>2, <1>10 DEF TableInv
<1>12. EntryInv
  <2>1. HoldersOf(0) = {}
    BY <1>4 DEF HoldersOf
  <2>2. Cardinality(HoldersOf(0)) = 0
    BY <2>1, FS_EmptySet
  <2>3. g # nullptr => rc[0] = 1
    BY <1>1, <1>2
  <2>4. max_ts \notin {0}
    BY <1>2
  <2> QED BY <2>2, <2>3, <2>4, <1>1, <1>2, <1>10 DEF EntryInv
<1>13. HistoryInv
  <2>1. 0..(latest_timestamp - 1) = {}
    BY <1>2
  <2> QED BY <2>1, <1>2 DEF HistoryInv, NoneForgotten
<1>14. FreedOnce
  BY <1>1 DEF FreedOnce
<1>15. ZeroInv
  <2>1. tombstone \notin Timestamps
    <3>1. TypeOK
      BY InitInv DEF Inv
    <3> QED BY <3>1, Numbers
  <2>2. \A s \in Slots : live_versions[s].key # tombstone
    BY <2>1, <1>2, <1>10
  <2>3. \A s \in Slots : ~BeingFreed(s)
    BY <1>4 DEF BeingFreed, Frees
  <2> QED BY <2>2, <2>3 DEF ZeroInv
<1> QED BY InitInv, <1>5, <1>6, <1>7, <1>8, <1>11, <1>12, <1>13, <1>14, <1>15 DEF CalmInv

(* No step of a calm behaviour breaks the invariant.                       *)
LEMMA NextCalm ==
  ASSUME Calm, CalmInv, [Next]_vars
  PROVE  CalmInv'
<1>1. CASE BatchStep
  BY <1>1, BuildCalm, StoreCalm, PublishCalm DEF BatchStep
<1>2. ASSUME NEW p \in Procs, StartAcquire(p) \/ AcquireStep(p) PROVE CalmInv'
  BY <1>2, AcquireCalm, RaiseCountCalm
<1>3. ASSUME NEW p \in Procs, ReleaseStep(p) PROVE CalmInv'
  BY <1>3, ReleaseCalm, DropCalm, ClaimCalm, LateClaimCalm, FreeCalm, BuryCalm DEF ReleaseStep
<1>4. ASSUME NEW r \in Readers, StartRelease(r) PROVE CalmInv'
  BY <1>4, ReleaseCalm DEF Procs
<1>5. CASE UNCHANGED vars
  <2>1. UNCHANGED <<current_timestamp, live_versions, rc, next_root, probe, pc, want, entry,
                    word, stamp, root, todo, since, reclaimed>>
    BY <1>5 DEF vars, shared, locals, history
  <2>2. latest_timestamp' = latest_timestamp
    BY <2>1 DEF latest_timestamp
  <2>3. Inv' /\ BatchIsCalm' /\ FreedOnce' /\ AloneInv'
    BY <2>1, <2>2 DEF CalmInv, Inv, TypeOK, StampRead, RoomForBatch, BatchIsCalm, FreedOnce,
       AloneInv, Frees
  <2>4. \A p \in Procs : ThreadInv(p)'
    BY <2>1, <2>2 DEF CalmInv, ThreadInv, LookingInv, ObjectInv, LastInv, FreesInv, MayBeLast,
       Frees, Found, Holding
  <2>5. WriterInv' /\ TableInv'
    BY <2>1, <2>2 DEF CalmInv, WriterInv, TableInv, Holding, Filling
  <2>6. \A s \in Slots : HoldersOf(s)' = HoldersOf(s) /\ (BeingFreed(s)' <=> BeingFreed(s))
    BY <2>1 DEF HoldersOf, BeingFreed, Holding
  <2>7. EntryInv' /\ ZeroInv'
    BY <2>1, <2>2, <2>6 DEF CalmInv, EntryInv, ZeroInv, Filling
  <2>8. HistoryInv'
    BY <2>1, <2>2 DEF CalmInv, HistoryInv, NoneForgotten, Holding
  <2> QED BY <2>3, <2>4, <2>5, <2>7, <2>8 DEF CalmInv
<1> QED BY <1>1, <1>2, <1>3, <1>4, <1>5 DEF Next


(* The invariant holds throughout every calm behaviour.                    *)
THEOREM CalmInvariant == ASSUME Calm PROVE Spec => []CalmInv
<1>1. CalmInv /\ [Next]_vars => CalmInv'
  BY NextCalm
<1> QED BY InitCalm, <1>1, PTL DEF Spec
-----------------------------------------------------------------------------
(* Nobody frees an entry that somebody holds, or the latest version's.     *)
LEMMA NotBeingFreed ==
  ASSUME CalmInv, NEW s \in Slots,
         HoldersOf(s) # {} \/ live_versions[s].key = latest_timestamp
  PROVE  ~BeingFreed(s)
<1> SUFFICES ASSUME NEW p \in Procs, Frees(p), entry[p] = s
             PROVE  HoldersOf(s) = {} /\ live_versions[s].key # latest_timestamp
  BY DEF BeingFreed, Frees
<1>1. FreesInv(p)
  BY DEF CalmInv, ThreadInv
<1>2. HoldersOf(s) = {}
  BY <1>1 DEF FreesInv, HoldersOf
<1>3. \A t \in reclaimed : t # latest_timestamp
  BY Numbers DEF CalmInv, Inv, HistoryInv
<1>4. tombstone # latest_timestamp
  BY Numbers DEF CalmInv, Inv
<1>5. live_versions[s].key # latest_timestamp
  BY <1>1, <1>3, <1>4 DEF FreesInv
<1> QED BY <1>2, <1>5

(* acquire_version and release_version neither lose nor invent a count of  *)
(* an entry, whatever increments and decrements race.                      *)
THEOREM CountsAreExact == ASSUME Calm PROVE Spec => []CountIsExact
<1>1. ASSUME CalmInv PROVE CountIsExact
  <2>1. ASSUME NEW s \in Slots, BeingFreed(s) PROVE HoldersOf(s) = {}
    BY <1>1, <2>1, NotBeingFreed
  <2>2. ASSUME NEW s \in Slots, ~BeingFreed(s), live_versions[s].key \in Timestamps, ~BeingFilled(s)
        PROVE  live_versions[s].word.ct = 1 + Cardinality(HoldersOf(s))
    <3>1. TypeOK /\ TableInv
      BY <1>1 DEF CalmInv, Inv
    <3>2. CASE live_versions[s].key \in 0..latest_timestamp
      <4>1. live_versions[s].word =
              make_refct(live_versions[s].key, 1 + Cardinality(HoldersOf(s)))
        BY <1>1, <2>2, <3>2 DEF CalmInv, EntryInv
      <4> QED BY <4>1 DEF make_refct
    <3>3. CASE live_versions[s].key \notin 0..latest_timestamp
      <4>1. Filling(s) /\ live_versions[s].key = current_timestamp
        BY <2>2, <3>1, <3>3, Numbers DEF TableInv
      <4>2. pc[Writer] = "publish" /\ s = probe
        BY <4>1, <2>2 DEF Filling, BeingFilled
      <4>3. live_versions[s].word.ct = 1
        BY <1>1, <4>2 DEF CalmInv, WriterInv, new_entry, make_refct
      <4>4. HoldersOf(s) = {}
        BY <1>1, <3>3 DEF CalmInv, ThreadInv, ObjectInv, HoldersOf
      <4>5. Cardinality(HoldersOf(s)) = 0
        BY <4>4, FS_EmptySet
      <4> QED BY <4>3, <4>5
    <3> QED BY <3>2, <3>3
  <2> QED BY <2>1, <2>2 DEF CountIsExact
<1> QED BY CalmInvariant, <1>1, PTL

(* While a thread has a version object, the graph it reads is the one of   *)
(* that version and nobody has freed it.                                   *)
THEOREM SnapshotsStayIntact == ASSUME Calm PROVE Spec => []SnapshotIsIntact
<1>1. ASSUME CalmInv PROVE SnapshotIsIntact
  <2>1. SUFFICES ASSUME NEW p \in Procs, pc[p] \in {"held", "drop"} \union BatchSteps
                 PROVE  /\ stamp[p] \in 0..latest_timestamp
                        /\ root[p] # nullptr => root[p] = stamp[p] /\ rc[root[p]] = 1
    BY DEF SnapshotIsIntact
  <2>2. Holding(p) /\ pc[p] # "root"
    BY <2>1 DEF Holding, BatchSteps
  <2>3. /\ stamp[p] \in 0..latest_timestamp /\ live_versions[entry[p]].key = stamp[p]
        /\ root[p] = live_versions[entry[p]].root
    BY <1>1, <2>2 DEF CalmInv, ThreadInv, ObjectInv
  <2>4. entry[p] \in Slots /\ p \in HoldersOf(entry[p])
    BY <1>1, <2>2 DEF CalmInv, Inv, TypeOK, HoldersOf
  <2>5. ~BeingFreed(entry[p])
    BY <1>1, <2>4, NotBeingFreed
  <2> QED BY <1>1, <2>3, <2>4, <2>5 DEF CalmInv, EntryInv
<1> QED BY CalmInvariant, <1>1, PTL

(* The version the writer has made visible is in the table with a count,   *)
(* so that an acquire that reads current_timestamp finds it.               *)
THEOREM LatestIsAcquirable == ASSUME Calm PROVE Spec => []LatestCanBeAcquired
<1>1. ASSUME CalmInv PROVE LatestCanBeAcquired
  <2>1. PICK s \in Slots : live_versions[s].key = latest_timestamp
    BY <1>1 DEF CalmInv, TableInv
  <2>2. ~BeingFreed(s) /\ latest_timestamp \in 0..latest_timestamp
    BY <1>1, <2>1, NotBeingFreed, Numbers DEF CalmInv, Inv
  <2>3. live_versions[s].word = make_refct(latest_timestamp, 1 + Cardinality(HoldersOf(s)))
    BY <1>1, <2>1, <2>2 DEF CalmInv, EntryInv
  <2>4. HoldersOf(s) \in SUBSET Procs
    BY DEF HoldersOf
  <2>5. Cardinality(HoldersOf(s)) \in Nat
    BY <2>4, CountRoom
  <2> QED BY <2>1, <2>3, <2>5 DEF LatestCanBeAcquired, make_refct
<1> QED BY CalmInvariant, <1>1, PTL

(* A superseded version that nobody has claimed to free is held, or in the *)
(* hands of a thread that is about to claim it.                            *)
THEOREM NoneIsForgotten == ASSUME Calm PROVE Spec => []NoneForgotten
<1>1. CalmInv => NoneForgotten
  BY DEF CalmInv, HistoryInv
<1> QED BY CalmInvariant, <1>1, PTL

(* decrement_recursive is called at most once for a version's tree.        *)
THEOREM TreesAreFreedOnce == ASSUME Calm PROVE Spec => []FreedOnce
<1>1. CalmInv => FreedOnce
  BY DEF CalmInv
<1> QED BY CalmInvariant, <1>1, PTL
=============================================================================
