------------------------- MODULE VersionedGraphProofs -------------------------
(***************************************************************************)
(* Theorems about VersionedGraph, for any number of readers, timestamps    *)
(* and slots, and any width of the reference count.                        *)
(***************************************************************************)
EXTENDS VersionedGraph, TLAPS

(* The timestamps a version object may carry once it has been read.        *)
StampRead ==
  \A p \in Procs :
    pc[p] \in {"cas", "root", "held"} \union BatchSteps \union ReleaseSteps =>
      stamp[p] \in Keys

(* The writer begins a batch only below the bound and raises the timestamp *)
(* once in it.                                                             *)
RoomForBatch ==
  pc[Writer] \in AcquireSteps \union {"held"} \union BatchSteps =>
    current_timestamp <= MaxTs

Inv == TypeOK /\ StampRead /\ RoomForBatch
-----------------------------------------------------------------------------
(* Counting up or down stays within a word, whatever it carries.           *)
LEMMA WordArithmetic ==
  \A w \in Words : PlusOne(w) \in Words /\ MinusOne(w) \in Words
<1> SUFFICES ASSUME NEW w \in Words PROVE PlusOne(w) \in Words /\ MinusOne(w) \in Words
  OBVIOUS
<1>1. w.ts \in Keys /\ w.ct \in 0..MaxRefct
  BY DEF Words
<1>2. max_ts \in Nat /\ MaxRefct \in Nat
  BY BoundsAssumption DEF max_ts
<1>3. (w.ts + 1) % (max_ts + 1) \in Keys /\ (w.ts - 1) % (max_ts + 1) \in Keys
  BY <1>1, <1>2 DEF Keys
<1>4. w.ct < MaxRefct => w.ct + 1 \in 0..MaxRefct
  BY <1>1, <1>2
<1>5. w.ct > 0 => w.ct - 1 \in 0..MaxRefct
  BY <1>1, <1>2
<1>6. 0 \in 0..MaxRefct /\ MaxRefct \in 0..MaxRefct
  BY <1>2
<1>7. PlusOne(w) \in Words
  BY <1>1, <1>3, <1>4, <1>6 DEF PlusOne, make_refct, Words
<1>8. MinusOne(w) \in Words
  BY <1>1, <1>3, <1>5, <1>6 DEF MinusOne, make_refct, Words
<1> QED BY <1>7, <1>8

(* The constants of the table have the types of its fields.                *)
LEMMA ConstantTypes ==
  /\ MaxTs \in Nat /\ NumSlots \in Nat \ {0} /\ MaxRefct \in Nat \ {0}
  /\ 0 \in Slots /\ 0 \in Timestamps
  /\ max_ts \in Keys /\ tombstone \in Keys /\ Timestamps \subseteq Keys
  /\ make_refct(0, 0) \in Words
  /\ Writer \in Procs
  /\ \A h \in Slots : incrementIndex(h) \in Slots
BY BoundsAssumption
   DEF Slots, Timestamps, Keys, max_ts, tombstone, make_refct, Words, Procs,
       incrementIndex

(* The entries the table is filled with are entries.                       *)
LEMMA EntryTypes ==
  /\ empty \in Entries
  /\ tomb_empty \in Entries
  /\ \A t \in Keys : first_empty(t) \in Entries
  /\ \A t \in Timestamps, g \in Timestamps \union {nullptr} : new_entry(t, g) \in Entries
<1>1. empty \in Entries
  BY ConstantTypes DEF empty, Entries
<1>2. tomb_empty \in Entries
  BY <1>1, ConstantTypes DEF tomb_empty, Entries
<1>3. \A t \in Keys : first_empty(t) \in Entries
  BY <1>1 DEF first_empty, Entries
<1>4. \A t \in Timestamps, g \in Timestamps \union {nullptr} : new_entry(t, g) \in Entries
  BY ConstantTypes DEF new_entry, make_refct, Entries, Words
<1> QED BY <1>1, <1>2, <1>3, <1>4

(* Storing one word of an entry over another keeps both entries' types.    *)
LEMMA StoreTypes ==
  \A a, b \in Entries : \A f \in Fields : [a EXCEPT ![f] = b[f]] \in Entries
<1> SUFFICES ASSUME NEW a \in Entries, NEW b \in Entries, NEW f \in Fields
             PROVE  [a EXCEPT ![f] = b[f]] \in Entries
  OBVIOUS
<1>1. CASE f = "key" BY <1>1 DEF Entries
<1>2. CASE f = "word" BY <1>2 DEF Entries
<1>3. CASE f = "root" BY <1>3 DEF Entries
<1> QED BY <1>1, <1>2, <1>3 DEF Fields

(* So does a CAS or a fetch-and-add on the count word of an entry.         *)
LEMMA SetWordTypes ==
  ASSUME NEW table \in [Slots -> Entries], NEW s \in Slots, NEW w \in Words
  PROVE  [table EXCEPT ![s].word = w] \in [Slots -> Entries]
<1>1. [table[s] EXCEPT !.word = w] \in Entries
  BY DEF Entries
<1> QED BY <1>1
-----------------------------------------------------------------------------
(* Every call that ends leaves well-typed locals.                          *)
LEMMA FinishTypes ==
  ASSUME TypeOK, NEW p \in Procs, Finish(p)
  PROVE  /\ pc' = [pc EXCEPT ![p] = "idle"]
         /\ pc' \in [Procs -> Labels]
         /\ want' \in [Procs -> Timestamps \union {NoTs}]
         /\ entry' \in [Procs -> Slots]
         /\ word' \in [Procs -> Words]
         /\ stamp' \in [Procs -> Keys \union {NoTs}]
         /\ \A q \in Procs \ {p} : stamp'[q] = stamp[q]
         /\ root' \in [Procs -> Timestamps \union {nullptr}]
         /\ todo' \in [Procs -> SUBSET Fields]
BY ConstantTypes DEF Finish, Goto, TypeOK, Labels

(* The steps of acquire_version.                                           *)
LEMMA AcquireInv ==
  ASSUME Inv, NEW p \in Procs, StartAcquire(p) \/ AcquireStep(p)
  PROVE  Inv'
<1> USE DEF Inv
<1>a. Writer \in Procs /\ MaxTs \in Nat
  BY ConstantTypes
<1>1. CASE StartAcquire(p)
  <2>1. latest_timestamp \in Timestamps
    BY <1>a DEF TypeOK, latest_timestamp, Timestamps
  <2> QED BY <1>1, <1>a, <2>1 DEF StartAcquire, Goto, shared, locals, TypeOK, StampRead,
        RoomForBatch, Labels, AcquireSteps, ReleaseSteps, BatchSteps
<1>2. CASE ReadLatest(p)
  <2>1. latest_timestamp \in Timestamps
    BY <1>a DEF TypeOK, latest_timestamp, Timestamps
  <2>2. firstIndex(latest_timestamp) \in Slots /\ make_refct(0, 0) \in Words
    BY ConstantTypes DEF firstIndex
  <2> QED BY <1>2, <1>a, <2>1, <2>2 DEF ReadLatest, Goto, shared, history, TypeOK, StampRead,
        RoomForBatch, Labels, AcquireSteps, ReleaseSteps, BatchSteps
<1>3. CASE Find(p)
  <2>1. incrementIndex(entry[p]) \in Slots
    BY ConstantTypes DEF TypeOK
  <2> QED BY <1>3, <1>a, <2>1 DEF Find, Goto, shared, history, TypeOK, StampRead,
        RoomForBatch, Labels, AcquireSteps, ReleaseSteps, BatchSteps
<1>4. CASE CheckTombstone(p)
  BY <1>4, <1>a DEF CheckTombstone, Goto, shared, locals, history, TypeOK, StampRead,
     RoomForBatch, Labels, AcquireSteps, ReleaseSteps, BatchSteps
<1>5. CASE LoadWord(p)
  <2>1. live_versions[entry[p]].word \in Words
    BY DEF TypeOK, Entries
  <2> QED BY <1>5, <1>a, <2>1 DEF LoadWord, Goto, shared, history, TypeOK, StampRead,
        RoomForBatch, Labels, AcquireSteps, ReleaseSteps, BatchSteps
<1>6. CASE ReadStamp(p)
  <2>1. live_versions[entry[p]].key \in Keys
    BY DEF TypeOK, Entries
  <2> QED BY <1>6, <1>a, <2>1 DEF ReadStamp, Goto, shared, history, TypeOK, StampRead,
        RoomForBatch, Labels, AcquireSteps, ReleaseSteps, BatchSteps
<1>7. CASE RaiseCount(p)
  <2>1. PlusOne(word[p]) \in Words
    BY WordArithmetic DEF TypeOK
  <2>2. live_versions' \in [Slots -> Entries]
    BY <1>7, <2>1, SetWordTypes DEF RaiseCount, TypeOK
  <2> QED BY <1>7, <1>a, <2>2 DEF RaiseCount, Goto, locals, TypeOK, StampRead,
        RoomForBatch, Labels, AcquireSteps, ReleaseSteps, BatchSteps
<1>8. CASE ReadRoot(p)
  <2>1. live_versions[entry[p]].root \in Timestamps \union {nullptr}
    BY DEF TypeOK, Entries
  <2>2. make_refct(0, 0) \in Words
    BY ConstantTypes
  <2> QED BY <1>8, <1>a, <2>1, <2>2 DEF ReadRoot, Goto, shared, history, TypeOK, StampRead,
        RoomForBatch, Labels, AcquireSteps, ReleaseSteps, BatchSteps
<1> QED BY <1>1, <1>2, <1>3, <1>4, <1>5, <1>6, <1>7, <1>8 DEF AcquireStep

(* The steps of a batch.                                                   *)
LEMMA BatchInv ==
  ASSUME Inv, BatchStep
  PROVE  Inv'
<1> USE DEF Inv
<1>a. Writer \in Procs /\ MaxTs \in Nat
  BY ConstantTypes
<1>1. CASE BuildNext
  <2>1. current_timestamp \in Timestamps
    BY <1>1, <1>a DEF BuildNext, TypeOK, RoomForBatch, Timestamps
  <2>2. firstIndex(current_timestamp) \in Slots
    BY ConstantTypes DEF firstIndex
  <2>3. rc' \in [Timestamps -> Int]
    BY <1>1 DEF BuildNext, TypeOK
  <2> QED BY <1>1, <1>a, <2>1, <2>2, <2>3 DEF BuildNext, Goto, locals, history, TypeOK,
        StampRead, RoomForBatch, Labels, AcquireSteps, ReleaseSteps, BatchSteps
<1>2. CASE ProbeInsert
  <2>1. incrementIndex(probe) \in Slots
    BY ConstantTypes DEF TypeOK
  <2> QED BY <1>2, <1>a, <2>1 DEF ProbeInsert, Goto, history, TypeOK, StampRead,
        RoomForBatch, Labels, AcquireSteps, ReleaseSteps, BatchSteps
<1>3. CASE Publish
  BY <1>3, <1>a DEF Publish, Goto, locals, history, TypeOK, StampRead,
     RoomForBatch, Labels, AcquireSteps, ReleaseSteps, BatchSteps
<1>4. ASSUME NEW f \in Fields, StoreNew(f) PROVE Inv'
  <2>1. current_timestamp \in Timestamps
    BY <1>4, <1>a DEF StoreNew, TypeOK, RoomForBatch, BatchSteps, Timestamps
  <2>2. new_entry(current_timestamp, next_root) \in Entries
    BY <2>1, EntryTypes DEF TypeOK
  <2>3. live_versions' \in [Slots -> Entries]
    BY <1>4, <2>2, StoreTypes DEF StoreNew, TypeOK
  <2> QED BY <1>4, <1>a, <2>3 DEF StoreNew, Goto, history, TypeOK, StampRead,
        RoomForBatch, Labels, AcquireSteps, ReleaseSteps, BatchSteps
<1> QED BY <1>1, <1>2, <1>3, <1>4 DEF BatchStep

(* The steps of release_version.                                           *)
LEMMA ReleaseInv ==
  ASSUME Inv, NEW p \in Procs, ReleaseStep(p) \/ (p \in Readers /\ StartRelease(p))
  PROVE  Inv'
<1> USE DEF Inv
<1>a. Writer \in Procs /\ MaxTs \in Nat
  BY ConstantTypes
<1>b. CASE Finish(p) /\ UNCHANGED <<current_timestamp, rc, next_root, probe>>
           /\ live_versions' \in [Slots -> Entries]
           /\ since' \in [Procs -> Timestamps \union {NoTs}] /\ reclaimed' \subseteq Keys
  <2>1. TypeOK'
    BY <1>b, FinishTypes DEF TypeOK
  <2>2. StampRead'
    BY <1>b, FinishTypes DEF TypeOK, StampRead, ReleaseSteps, BatchSteps
  <2>3. RoomForBatch'
    BY <1>b, <1>a, FinishTypes
       DEF TypeOK, RoomForBatch, AcquireSteps, BatchSteps
  <2> QED BY <2>1, <2>2, <2>3
<1>1. CASE StartRelease(p)
  BY <1>1, <1>a DEF StartRelease, Goto, shared, locals, history, TypeOK, StampRead,
     RoomForBatch, Labels, AcquireSteps, ReleaseSteps, BatchSteps
<1>2. CASE DropCount(p)
  <2>1. live_versions[entry[p]].word \in Words
    BY DEF TypeOK, Entries
  <2>2. live_versions' \in [Slots -> Entries]
    BY <1>2, <2>1, WordArithmetic, SetWordTypes DEF DropCount, TypeOK
  <2>3. CASE Finish(p)
    BY <1>2, <1>b, <2>2, <2>3 DEF DropCount, history, TypeOK
  <2>4. CASE Continue(p, "latest?")
    BY <1>2, <1>a, <2>2, <2>4 DEF DropCount, Continue, Goto, locals, history, TypeOK,
       StampRead, RoomForBatch, Labels, AcquireSteps, ReleaseSteps, BatchSteps
  <2> QED BY <1>2, <2>3, <2>4 DEF DropCount
<1>3. CASE CheckLatest(p)
  <2>1. CASE Finish(p)
    BY <1>3, <1>b, <2>1 DEF CheckLatest, shared, history, TypeOK
  <2>2. CASE Continue(p, "reread")
    BY <1>3, <1>a, <2>2 DEF CheckLatest, Continue, Goto, shared, locals, history, TypeOK,
       StampRead, RoomForBatch, Labels, AcquireSteps, ReleaseSteps, BatchSteps
  <2> QED BY <1>3, <2>1, <2>2 DEF CheckLatest
<1>4. CASE Reread(p)
  <2>1. CASE Finish(p)
    BY <1>4, <1>b, <2>1 DEF Reread, shared, history, TypeOK
  <2>2. CASE ~Finish(p)
    <3>1. live_versions[entry[p]].word \in Words
      BY DEF TypeOK, Entries
    <3> QED BY <1>4, <1>a, <2>2, <3>1 DEF Reread, Goto, shared, history, TypeOK,
          StampRead, RoomForBatch, Labels, AcquireSteps, ReleaseSteps, BatchSteps
  <2> QED BY <2>1, <2>2
<1>5. CASE ClaimLast(p)
  <2>1. CASE Finish(p) /\ UNCHANGED <<live_versions, reclaimed>>
    BY <1>5, <1>b, <2>1 DEF ClaimLast, TypeOK
  <2>2. CASE Continue(p, "free")
             /\ live_versions' = [live_versions EXCEPT ![entry[p]].word = MinusOne(word[p])]
             /\ reclaimed' = reclaimed \union {stamp[p]}
    <3>1. live_versions' \in [Slots -> Entries]
      BY <2>2, WordArithmetic, SetWordTypes DEF TypeOK
    <3>2. stamp[p] \in Keys
      BY <1>5 DEF ClaimLast, StampRead, ReleaseSteps
    <3> QED BY <1>5, <1>a, <2>2, <3>1, <3>2 DEF ClaimLast, Continue, Goto, locals,
          TypeOK, StampRead, RoomForBatch, Labels, AcquireSteps, ReleaseSteps, BatchSteps
  <2> QED BY <1>5, <2>1, <2>2 DEF ClaimLast
<1>6. CASE FreeRoot(p)
  <2>1. rc' \in [Timestamps -> Int]
    BY <1>6 DEF FreeRoot, TypeOK
  <2> QED BY <1>6, <1>a, <2>1 DEF FreeRoot, Goto, history, TypeOK, StampRead,
        RoomForBatch, Labels, AcquireSteps, ReleaseSteps, BatchSteps
<1>7. ASSUME NEW f \in Fields, ClearEntry(p, f) PROVE Inv'
  <2>1. stamp[p] \in Keys
    BY <1>7 DEF ClearEntry, StampRead, ReleaseSteps
  <2>2. first_empty(stamp[p]) \in Entries
    BY <2>1, EntryTypes
  <2>3. live_versions' \in [Slots -> Entries]
    BY <1>7, <2>2, StoreTypes DEF ClearEntry, TypeOK
  <2> QED BY <1>7, <1>a, <2>3 DEF ClearEntry, Goto, history, TypeOK, StampRead,
        RoomForBatch, Labels, AcquireSteps, ReleaseSteps, BatchSteps
<1>8. ASSUME NEW f \in Fields, BuryEntry(p, f) PROVE Inv'
  <2>1. live_versions' \in [Slots -> Entries]
    BY <1>8, EntryTypes, StoreTypes DEF BuryEntry, TypeOK
  <2>2. CASE Finish(p)
    BY <1>8, <1>b, <2>1, <2>2 DEF BuryEntry, history, TypeOK
  <2>3. CASE ~Finish(p)
    BY <1>8, <1>a, <2>1, <2>3 DEF BuryEntry, history, TypeOK, StampRead,
       RoomForBatch, Labels, AcquireSteps, ReleaseSteps, BatchSteps
  <2> QED BY <2>2, <2>3
<1> QED BY <1>1, <1>2, <1>3, <1>4, <1>5, <1>6, <1>7, <1>8 DEF ReleaseStep

(* The constructors leave well-typed state.                                *)
LEMMA InitInv == Init => Inv
<1> SUFFICES ASSUME Init PROVE Inv
  OBVIOUS
<1>1. PICK g \in {0, nullptr} :
        live_versions =
          [s \in Slots |-> IF s = firstIndex(0) THEN new_entry(0, g) ELSE empty]
  BY DEF Init
<1>2. new_entry(0, g) \in Entries /\ empty \in Entries
  BY EntryTypes, ConstantTypes
<1>3. live_versions \in [Slots -> Entries]
  BY <1>1, <1>2
<1>4. current_timestamp = 1 /\ next_root = nullptr /\ probe = 0 /\ reclaimed = {}
  BY DEF Init, firstIndex
<1>5. rc \in [Timestamps -> Int]
  BY DEF Init
<1>6. TypeOK
  BY <1>3, <1>4, <1>5, ConstantTypes DEF Init, TypeOK, Labels
<1>7. StampRead /\ RoomForBatch
  BY ConstantTypes DEF Init, StampRead, RoomForBatch, AcquireSteps, ReleaseSteps, BatchSteps
<1> QED BY <1>6, <1>7 DEF Inv

(* No interleaving of readers and writer takes a field of the table, a     *)
(* count word or a local of a thread out of its range.                     *)
THEOREM TypeCorrect == Spec => []TypeOK
<1>1. Inv /\ [Next]_vars => Inv'
  <2> SUFFICES ASSUME Inv, [Next]_vars PROVE Inv'
    OBVIOUS
  <2>1. CASE BatchStep
    BY <2>1, BatchInv
  <2>2. ASSUME NEW p \in Procs, StartAcquire(p) \/ AcquireStep(p) PROVE Inv'
    BY <2>2, AcquireInv
  <2>3. ASSUME NEW p \in Procs, ReleaseStep(p) PROVE Inv'
    BY <2>3, ReleaseInv
  <2>4. ASSUME NEW r \in Readers, StartRelease(r) PROVE Inv'
    BY <2>4, ReleaseInv DEF Procs
  <2>5. CASE UNCHANGED vars
    BY <2>5 DEF Inv, TypeOK, StampRead, RoomForBatch, vars, shared, locals, history
  <2> QED BY <2>1, <2>2, <2>3, <2>4, <2>5 DEF Next
<1>2. Inv => TypeOK
  BY DEF Inv
<1> QED BY InitInv, <1>1, <1>2, PTL DEF Spec
=============================================================================
