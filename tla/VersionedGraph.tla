--------------------------- MODULE VersionedGraph ---------------------------
(***************************************************************************)
(* aspen's versioned_graph (src/examples/graphs/aspen/versioned_graph.h)   *)
(* and the sequentialHT table its versions live in, at the grain of the    *)
(* single memory accesses its readers and its writer interleave on.        *)
(*                                                                         *)
(* A version is an entry (key, word, root) of live_versions: its           *)
(* timestamp, a word that packs the timestamp with a reference count, and  *)
(* the root of the graph.  The table itself owns one count.  A reader      *)
(* looks the latest timestamp up, raises the count with a CAS and reads    *)
(* the root; it gives the version back with a fetch-and-add, and whoever   *)
(* brings a superseded version down to the table's own count frees the     *)
(* tree and turns the entry into a tombstone, which a later insert reuses. *)
(* The writer builds the next graph under an acquired version, stores it   *)
(* in the table and then makes it visible by raising current_timestamp.    *)
(*                                                                         *)
(* The tuple assignments `table[h] = v' and `*table_entry = ...' are not   *)
(* atomic and race with readers: their three words are stored one by one   *)
(* in any order.  The graph below a root is one object with one reference  *)
(* count: the sharing of subtrees between versions is not modelled here.   *)
(***************************************************************************)
EXTENDS Integers, FiniteSets

CONSTANTS
  Readers,   \* reader threads
  Writer,    \* the one thread that calls the update operations
  MaxTs,     \* bound: the last timestamp the writer publishes
  NumSlots,  \* size of live_versions (512 in the code)
  MaxRefct,  \* largest count a word holds (2^32 - 1 in the code)
  Calm       \* TRUE: only behaviours in which no reader disturbs an insert

ASSUME WriterAssumption == Writer \notin Readers
ASSUME BoundsAssumption ==
  /\ MaxTs \in Nat
  /\ NumSlots \in Nat \ {0}
  /\ MaxRefct \in Nat \ {0}
  /\ Calm \in BOOLEAN

\* The count of a word has room for the table and for every thread.
ASSUME CountAssumption ==
  IsFiniteSet(Readers) /\ Cardinality(Readers) + 1 < MaxRefct

Procs == Readers \union {Writer}

\* The two reserved keys are the two largest values of a timestamp.
max_ts == MaxTs + 2
tombstone == max_ts - 1

nullptr == -1
NoTs == -1
Timestamps == 0..MaxTs
Keys == 0..max_ts
Slots == 0..(NumSlots - 1)
Fields == {"key", "word", "root"}
-----------------------------------------------------------------------------
(* refct_utils: timestamp in the high half, count in the low half; adding  *)
(* or subtracting one carries into the timestamp.                          *)

make_refct(ts, ct) == [ts |-> ts, ct |-> ct]

PlusOne(w) ==
  IF w.ct < MaxRefct THEN make_refct(w.ts, w.ct + 1)
                     ELSE make_refct((w.ts + 1) % (max_ts + 1), 0)

MinusTwo(w) == make_refct(w.ts, w.ct - 2)

MinusOne(w) ==
  IF w.ct > 0 THEN make_refct(w.ts, w.ct - 1)
              ELSE make_refct((w.ts - 1) % (max_ts + 1), MaxRefct)

\* The tests release_version makes on the word before and after it lowers it.
LeavesNobody(w) == w.ct = 1
LeavesTableOnly(w) == w.ct = 2

AnyCount(w) == TRUE
OnlyTableCounts(w) == w.ct = 1

Words == [ts : Keys, ct : 0..MaxRefct]
Entries == [key : Keys, word : Words, root : Timestamps \union {nullptr}]

empty == [key |-> max_ts, word |-> make_refct(0, 0), root |-> nullptr]
tomb_empty == [empty EXCEPT !.key = tombstone]
first_empty(ts) == [empty EXCEPT !.key = ts]
new_entry(ts, r) == [key |-> ts, word |-> make_refct(ts, 1), root |-> r]

(* sequentialHT::firstIndex hashes the high half of the 64-bit key, which  *)
(* is 0 for every timestamp: all probes start at the same index.           *)
firstIndex(v) == 0
incrementIndex(h) == (h + 1) % NumSlots

\* sequentialHT::find stops at the key it looks for or at max_key.
MatchesAny(key, k) == key \in Timestamps
Matches(key, k) == key = k

\* sequentialHT::insert takes a slot that is empty or buried.
NeverUsed(key) == key = max_ts
CanBeTaken(key) == key \in {max_ts, tombstone}
-----------------------------------------------------------------------------
VARIABLES
  current_timestamp,
  live_versions,  \* the table: an entry per slot
  rc,             \* rc[t]: references to the tree built for version t
  next_root,      \* root of the graph the writer has built (G_next)
  probe,          \* index the writer's insert is at
  pc,             \* what each thread does next
  want,           \* want[p]: the timestamp p looks up (latest_ts)
  entry,          \* entry[p]: slot p looks at or holds (table_ref)
  word,           \* word[p]: refct_and_ts, or cur_val in release_version
  stamp,          \* stamp[p]: version.timestamp
  root,           \* root[p]: version.graph
  todo,           \* todo[p]: words of a tuple assignment not yet stored
  since,          \* history: latest timestamp when p's acquire began
  reclaimed       \* history: versions a release_version has claimed to free

shared == <<current_timestamp, live_versions, rc, next_root, probe>>
locals == <<want, entry, word, stamp, root, todo>>
history == <<since, reclaimed>>
vars == <<shared, pc, locals, history>>

latest_timestamp == current_timestamp - 1

Goto(p, label) == pc' = [pc EXCEPT ![p] = label]

\* The call returns and its locals, the version object included, are gone.
Finish(p) ==
  /\ Goto(p, "idle")
  /\ want' = [want EXCEPT ![p] = NoTs]
  /\ entry' = [entry EXCEPT ![p] = 0]
  /\ word' = [word EXCEPT ![p] = make_refct(0, 0)]
  /\ stamp' = [stamp EXCEPT ![p] = NoTs]
  /\ root' = [root EXCEPT ![p] = nullptr]
  /\ todo' = [todo EXCEPT ![p] = {}]

Continue(p, label) == Goto(p, label) /\ UNCHANGED locals

AcquireSteps == {"loop", "find", "tomb?", "load", "stamp", "cas", "root"}
ReleaseSteps == {"drop", "latest?", "reread", "claim", "free", "clear", "bury"}
BatchSteps == {"insert", "store", "publish"}
Labels == {"idle", "held"} \union AcquireSteps \union ReleaseSteps \union BatchSteps

\* p has raised the count of a version and not lowered it yet.
Holding(p) == pc[p] \in {"root", "held", "drop"} \union BatchSteps

\* A compare-and-swap of the count word of p's entry against the value p read.
BlindStore(p) == TRUE
CasSucceeds(p) == live_versions[entry[p]].word = word[p]

EvenTheLatest(p) == TRUE
TwoBehind(p) == stamp[p] < latest_timestamp - 1
IsSuperseded(p) == stamp[p] # latest_timestamp

\* f is the last word of p's tuple assignment that is still to be stored.
AnyStore(p, f) == TRUE
IsLastStore(p, f) == todo[p] = {f}

(* Nothing in the code keeps a reader from being in the middle of a call   *)
(* while a batch enters its version into the table and publishes it.       *)
(* Calm = FALSE leaves that free.  Calm = TRUE leaves two cases out: a     *)
(* release of a superseded version during the insert, and an acquire that  *)
(* is as old as the version before.  All other overlaps remain.            *)
MayInsert ==
  Calm => \A r \in Readers :
    /\ since[r] \in {NoTs, latest_timestamp}
    /\ pc[r] \in ReleaseSteps => stamp[r] = latest_timestamp

MayRelease(r) ==
  Calm => (pc[Writer] \in BatchSteps => stamp[r] = latest_timestamp)

(* The constructors: version 0 holds the given graph, which may be empty.  *)
Init ==
  \E g \in {0, nullptr} :
    /\ current_timestamp = 1
    /\ live_versions =
         [s \in Slots |-> IF s = firstIndex(0) THEN new_entry(0, g) ELSE empty]
    /\ rc = [t \in Timestamps |-> IF t = g THEN 1 ELSE 0]
    /\ next_root = nullptr
    /\ probe = firstIndex(0)
    /\ pc = [p \in Procs |-> "idle"]
    /\ want = [p \in Procs |-> NoTs]
    /\ entry = [p \in Procs |-> 0]
    /\ word = [p \in Procs |-> make_refct(0, 0)]
    /\ stamp = [p \in Procs |-> NoTs]
    /\ root = [p \in Procs |-> nullptr]
    /\ todo = [p \in Procs |-> {}]
    /\ since = [p \in Procs |-> NoTs]
    /\ reclaimed = {}
-----------------------------------------------------------------------------
(* acquire_version *)

StartAcquire(p) ==
  /\ pc[p] = "idle"
  /\ p = Writer => current_timestamp <= MaxTs
  /\ Goto(p, "loop")
  /\ since' = [since EXCEPT ![p] = latest_timestamp]
  /\ UNCHANGED <<shared, locals, reclaimed>>

ReadLatest(p) ==
  /\ pc[p] = "loop"
  /\ want' = [want EXCEPT ![p] = latest_timestamp]
  /\ entry' = [entry EXCEPT ![p] = firstIndex(latest_timestamp)]
  /\ word' = [word EXCEPT ![p] = make_refct(0, 0)]
  /\ stamp' = [stamp EXCEPT ![p] = NoTs]
  /\ Goto(p, "find")
  /\ UNCHANGED <<shared, root, todo, history>>

\* One step of sequentialHT::find; an invalid result starts over.
Find(p) ==
  LET key == live_versions[entry[p]].key IN
  /\ pc[p] = "find"
  /\ \/ /\ key = max_ts
        /\ Goto(p, "loop")
        /\ UNCHANGED entry
     \/ /\ Matches(key, want[p])
        /\ Goto(p, "tomb?")
        /\ UNCHANGED entry
     \/ /\ key # max_ts /\ ~Matches(key, want[p])
        /\ entry' = [entry EXCEPT ![p] = incrementIndex(@)]
        /\ UNCHANGED pc
  /\ UNCHANGED <<shared, want, word, stamp, root, todo, history>>

CheckTombstone(p) ==
  /\ pc[p] = "tomb?"
  /\ Goto(p, IF live_versions[entry[p]].key = tombstone THEN "loop" ELSE "load")
  /\ UNCHANGED <<shared, locals, history>>

LoadWord(p) ==
  /\ pc[p] = "load"
  /\ word' = [word EXCEPT ![p] = live_versions[entry[p]].word]
  /\ Goto(p, "stamp")
  /\ UNCHANGED <<shared, want, entry, stamp, root, todo, history>>

\* The timestamp of the future version is read only now; a zero count
\* starts over.
ReadStamp(p) ==
  /\ pc[p] = "stamp"
  /\ stamp' = [stamp EXCEPT ![p] = live_versions[entry[p]].key]
  /\ Goto(p, IF word[p].ct > 0 THEN "cas" ELSE "loop")
  /\ UNCHANGED <<shared, want, entry, word, root, todo, history>>

RaiseCount(p) ==
  /\ pc[p] = "cas"
  /\ IF CasSucceeds(p)
     THEN /\ live_versions' =
               [live_versions EXCEPT ![entry[p]].word = PlusOne(word[p])]
          /\ since' = [since EXCEPT ![p] = NoTs]
          /\ Goto(p, "root")
     ELSE /\ UNCHANGED <<live_versions, since>>
          /\ Goto(p, "tomb?")
  /\ UNCHANGED <<current_timestamp, rc, next_root, probe, locals, reclaimed>>

ReadRoot(p) ==
  /\ pc[p] = "root"
  /\ root' = [root EXCEPT ![p] = live_versions[entry[p]].root]
  /\ word' = [word EXCEPT ![p] = make_refct(0, 0)]
  /\ want' = [want EXCEPT ![p] = NoTs]
  /\ Goto(p, "held")
  /\ UNCHANGED <<shared, entry, stamp, todo, history>>
-----------------------------------------------------------------------------
(* insert_edges_batch, delete_edges_batch, and add_version_from_graph as    *)
(* its callers use it: between acquire_version and release_version.        *)

\* The batch produces the next graph; deleting every edge may empty it.
BuildNext ==
  /\ pc[Writer] = "held"
  /\ MayInsert
  /\ \E g \in {current_timestamp, nullptr} :
       /\ next_root' = g
       /\ rc' = [t \in Timestamps |-> IF t = g THEN 1 ELSE rc[t]]
  /\ probe' = firstIndex(current_timestamp)
  /\ Goto(Writer, "insert")
  /\ UNCHANGED <<current_timestamp, live_versions, locals, history>>

\* One step of sequentialHT::insert: the first free or buried slot is taken.
\* Its return on an equal key is never reached: a timestamp is new.
ProbeInsert ==
  /\ pc[Writer] = "insert"
  /\ IF CanBeTaken(live_versions[probe].key)
     THEN /\ todo' = [todo EXCEPT ![Writer] = Fields]
          /\ Goto(Writer, "store")
          /\ UNCHANGED probe
     ELSE /\ probe' = incrementIndex(probe)
          /\ UNCHANGED <<pc, todo>>
  /\ UNCHANGED <<current_timestamp, live_versions, rc, next_root,
                 want, entry, word, stamp, root, history>>

StoreNew(f) ==
  /\ pc[Writer] = "store"
  /\ f \in todo[Writer]
  /\ live_versions' = [live_versions EXCEPT
       ![probe] = [@ EXCEPT ![f] = new_entry(current_timestamp, next_root)[f]]]
  /\ todo' = [todo EXCEPT ![Writer] = @ \ {f}]
  /\ Goto(Writer, IF IsLastStore(Writer, f) THEN "publish" ELSE "store")
  /\ UNCHANGED <<current_timestamp, rc, next_root, probe,
                 want, entry, word, stamp, root, history>>

\* The batch ends by releasing the version it was built from.
Publish ==
  /\ pc[Writer] = "publish"
  /\ current_timestamp' = current_timestamp + 1
  /\ next_root' = nullptr
  /\ Goto(Writer, "drop")
  /\ UNCHANGED <<live_versions, rc, probe, locals, history>>
-----------------------------------------------------------------------------
(* release_version *)

StartRelease(r) ==
  /\ pc[r] = "held"
  /\ MayRelease(r)
  /\ Goto(r, "drop")
  /\ UNCHANGED <<shared, locals, history>>

DropCount(p) ==
  LET w == live_versions[entry[p]].word IN
  /\ pc[p] = "drop"
  /\ live_versions' = [live_versions EXCEPT ![entry[p]].word = MinusOne(w)]
  /\ IF LeavesTableOnly(w) THEN Continue(p, "latest?") ELSE Finish(p)
  /\ UNCHANGED <<current_timestamp, rc, next_root, probe, history>>

CheckLatest(p) ==
  /\ pc[p] = "latest?"
  /\ IF IsSuperseded(p) THEN Continue(p, "reread") ELSE Finish(p)
  /\ UNCHANGED <<shared, history>>

Reread(p) ==
  LET w == live_versions[entry[p]].word IN
  /\ pc[p] = "reread"
  /\ IF OnlyTableCounts(w)
     THEN /\ word' = [word EXCEPT ![p] = w]
          /\ Goto(p, "claim")
          /\ UNCHANGED <<want, entry, stamp, root, todo>>
     ELSE Finish(p)
  /\ UNCHANGED <<shared, history>>

ClaimLast(p) ==
  /\ pc[p] = "claim"
  /\ IF CasSucceeds(p)
     THEN /\ live_versions' =
               [live_versions EXCEPT ![entry[p]].word = MinusOne(word[p])]
          /\ reclaimed' = reclaimed \union {stamp[p]}
          /\ Continue(p, "free")
     ELSE /\ UNCHANGED <<live_versions, reclaimed>>
          /\ Finish(p)
  /\ UNCHANGED <<current_timestamp, rc, next_root, probe, since>>

\* decrement_recursive(root), unless the graph is empty.
FreeRoot(p) ==
  /\ pc[p] = "free"
  /\ rc' = [t \in Timestamps |-> IF t = root[p] THEN rc[t] - 1 ELSE rc[t]]
  /\ todo' = [todo EXCEPT ![p] = Fields]
  /\ Goto(p, "clear")
  /\ UNCHANGED <<current_timestamp, live_versions, next_root, probe,
                 want, entry, word, stamp, root, history>>

\* *table_entry = first_empty
ClearEntry(p, f) ==
  /\ pc[p] = "clear"
  /\ f \in todo[p]
  /\ live_versions' = [live_versions EXCEPT
       ![entry[p]] = [@ EXCEPT ![f] = first_empty(stamp[p])[f]]]
  /\ todo' = [todo EXCEPT ![p] = IF IsLastStore(p, f) THEN Fields ELSE @ \ {f}]
  /\ Goto(p, IF IsLastStore(p, f) THEN "bury" ELSE "clear")
  /\ UNCHANGED <<current_timestamp, rc, next_root, probe,
                 want, entry, word, stamp, root, history>>

\* *table_entry = tomb_empty
BuryEntry(p, f) ==
  /\ pc[p] = "bury"
  /\ f \in todo[p]
  /\ live_versions' = [live_versions EXCEPT
       ![entry[p]] = [@ EXCEPT ![f] = tomb_empty[f]]]
  /\ IF IsLastStore(p, f)
     THEN Finish(p)
     ELSE /\ todo' = [todo EXCEPT ![p] = @ \ {f}]
          /\ UNCHANGED <<pc, want, entry, word, stamp, root>>
  /\ UNCHANGED <<current_timestamp, rc, next_root, probe, history>>
-----------------------------------------------------------------------------
AcquireStep(p) ==
  \/ ReadLatest(p) \/ Find(p) \/ CheckTombstone(p) \/ LoadWord(p)
  \/ ReadStamp(p) \/ RaiseCount(p) \/ ReadRoot(p)

ReleaseStep(p) ==
  \/ DropCount(p) \/ CheckLatest(p) \/ Reread(p) \/ ClaimLast(p) \/ FreeRoot(p)
  \/ \E f \in Fields : ClearEntry(p, f) \/ BuryEntry(p, f)

BatchStep ==
  \/ BuildNext \/ ProbeInsert \/ Publish
  \/ \E f \in Fields : StoreNew(f)

Next ==
  \/ BatchStep
  \/ \E p \in Procs : StartAcquire(p) \/ AcquireStep(p) \/ ReleaseStep(p)
  \/ \E r \in Readers : StartRelease(r)

Spec == Init /\ [][Next]_vars

(* A thread inside a call is eventually scheduled, and the writer finishes *)
(* the batch it has begun.  Nothing forces a client to begin a call or to  *)
(* give a version back.                                                    *)
Fairness ==
  /\ WF_vars(BatchStep)
  /\ \A p \in Procs : WF_vars(AcquireStep(p)) /\ WF_vars(ReleaseStep(p))

FairSpec == Spec /\ Fairness
-----------------------------------------------------------------------------
(* Everything has the shape its declaration gives it.                      *)
TypeOK ==
  /\ current_timestamp \in 1..(MaxTs + 1)
  /\ live_versions \in [Slots -> Entries]
  /\ rc \in [Timestamps -> Int]
  /\ next_root \in Timestamps \union {nullptr}
  /\ probe \in Slots
  /\ pc \in [Procs -> Labels]
  /\ want \in [Procs -> Timestamps \union {NoTs}]
  /\ entry \in [Procs -> Slots]
  /\ word \in [Procs -> Words]
  /\ stamp \in [Procs -> Keys \union {NoTs}]
  /\ root \in [Procs -> Timestamps \union {nullptr}]
  /\ todo \in [Procs -> SUBSET Fields]
  /\ since \in [Procs -> Timestamps \union {NoTs}]
  /\ reclaimed \subseteq Keys

(* While a client has a version object, its graph is the graph of that     *)
(* version, the version has been made visible, and the tree it reads is    *)
(* still allocated: no release_version of another thread has freed it.     *)
SnapshotIsIntact ==
  \A p \in Procs : pc[p] \in {"held", "drop"} \union BatchSteps =>
    /\ stamp[p] \in 0..latest_timestamp
    /\ root[p] # nullptr => root[p] = stamp[p] /\ rc[root[p]] = 1

(* Whoever brings a version down to the table's own count frees the tree:  *)
(* two releases racing for the same version never both do.                 *)
FreedOnce == \A t \in Timestamps : rc[t] \in {0, 1}

(* The version the writer has made visible can be acquired: its entry is   *)
(* in the table, and the table still owns a count of it.                   *)
LatestCanBeAcquired ==
  \E s \in Slots : /\ live_versions[s].key = latest_timestamp
                   /\ live_versions[s].word.ts = latest_timestamp
                   /\ live_versions[s].word.ct > 0

\* Threads that have raised the count in slot s and not lowered it.
HoldersOf(s) == {p \in Procs : Holding(p) /\ entry[p] = s}

BeingFreed(s) ==
  \E p \in Procs : pc[p] \in {"free", "clear", "bury"} /\ entry[p] = s

BeingFilled(s) == pc[Writer] = "store" /\ probe = s

(* In every entry of a version, the count is the table's own count and one *)
(* for each thread that holds the version: none is lost when increments    *)
(* and decrements race.                                                    *)
CountIsExact ==
  \A s \in Slots :
    IF BeingFreed(s)
    THEN HoldersOf(s) = {}
    ELSE live_versions[s].key \in Timestamps /\ ~BeingFilled(s) =>
           live_versions[s].word.ct = 1 + Cardinality(HoldersOf(s))

(* A superseded version that still occupies memory is held by somebody or  *)
(* about to be freed by somebody: none is forgotten in the table.          *)
NoneForgotten ==
  \A t \in 0..(latest_timestamp - 1) \ reclaimed :
    \E p \in Procs : /\ stamp[p] = t
                     /\ Holding(p) \/ pc[p] \in {"latest?", "reread", "claim"}

(* However many versions are published, the table uses no more slots than  *)
(* one for each reader, the latest version and the next one: superseded    *)
(* entries are buried in time and buried slots are taken again.  A table   *)
(* with one slot more keeps an empty one, at which a find ends.            *)
UsedSlotsAreBounded ==
  Cardinality({s \in Slots : live_versions[s].key # max_ts}) <= Cardinality(Readers) + 2

(* A superseded version its clients have let go of is freed, unless a      *)
(* thread that looked it up in time still gets hold of it.                 *)
IsHeld(t) == \E p \in Procs : Holding(p) /\ stamp[p] = t

EventuallyReclaimed ==
  \A t \in Timestamps :
    (t < latest_timestamp /\ ~IsHeld(t)) ~> (t \in reclaimed \/ IsHeld(t))

(* "Lock-free, but not wait-free" (versioned_graph.h:104): threads that    *)
(* acquire a version may delay each other, but not all of them for ever.   *)
Acquiring(p) == pc[p] \in AcquireSteps

LockFree ==
  <>[](\E p \in Procs : Acquiring(p)) => []<><<\E p \in Procs : ReadRoot(p)>>_vars

(* The table, its counts and its tombstones implement the abstract store:  *)
(* every snapshot is of a version that was current during the acquire, and *)
(* no version is reclaimed twice, too early, or while held.                *)
Snapshots == INSTANCE SnapshotStore WITH
  Clients <- Procs,
  MaxVersion <- MaxTs,
  latest <- latest_timestamp,
  held <- [p \in Procs |-> IF Holding(p) THEN stamp[p] ELSE NoTs]

ImplementsSnapshots == Snapshots!Spec
=============================================================================
