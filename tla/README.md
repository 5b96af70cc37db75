# CPAM in TLA+

CPAM is a header-only C++ library of purely functional ordered maps, sets and
sequences stored as *PaC-trees*: weight-balanced search trees whose leaves are
compressed blocks of `B` to `2B` elements. On top of it the repository builds
*aspen*, a store of graph versions that any number of readers query while one
writer applies batches, and applications (graph algorithms, vector indexes,
interval maps, inverted indexes).

This directory models the places where that design is hard to get right:

* the **trees**: batch and set operations have a flat case (merge two arrays,
  cut the result into blocks) and a recursive case (split, recurse, join), and
  the joins have to keep trees balanced *and* cut into full blocks;
* the **nodes in memory**: maps share nodes, and an operation reuses a node in
  place or copies it according to a reference count that other threads change;
* the **versioned graph**: readers and the writer share a hash table of
  versions with packed reference counts, updated by compare-and-swap and
  fetch-and-add but also by plain multi-word stores;
* two **clients** that stack batches on batches: the functional graph, whose
  batches run map operations inside a map operation, and the vector index,
  whose insertions and lazy deletions overlap.

Contents: [inventory](#1-inventory) · [modules](#2-modules) ·
[runs](#3-runs-and-bounds) · [what the models found](#4-what-the-models-found) ·
[proofs](#5-proofs) · [not modelled](#6-not-modelled-and-why) ·
[plan](#7-plan).

## 1. Inventory

Paths are relative to the repository's `src/`.

### Versioned graph store
`examples/graphs/aspen/versioned_graph.h`, `sequentialHT.h`, `include/cpam/utils.h`

* *State*: `current_timestamp`; `live_versions`, an open-addressing table of
  (timestamp, packed timestamp-and-count, root) with 512 slots; per thread, the
  locals of a call and the `version` object with its `table_ref`.
* *Operations*: `acquire_version`, `release_version`, `insert_edges_batch`,
  `delete_edges_batch`, `add_version_from_graph`.
* *Interaction*: the writer calls the functional graph to build the next graph
  under an acquired version, inserts an entry, then raises the timestamp; the
  last releaser of a superseded version calls `decrement_recursive` on its root.
* *Hard*: every shared access of a reader can fall between any two of the
  writer's or of another reader's; a `table_ref` outlives the entry it was
  found for; the entry's three words are stored one at a time; the count and
  the timestamp share one word; retry loops without a bound.
* *Correct when*: a held version is intact and published, each version is freed
  exactly once and eventually, counts are exact, and the latest version can
  always be acquired.
* *Clients*: `knn_index` updates from one thread; three of its drivers run queries
  and updates in one `par_do` (`examples/diskann/tests/insertsDeletesQueries/neighbors.h:99-102`,
  `insertsAndQueries/neighbors.h:80-83`, `simpleInserts/neighbors.h:199-202`), so a
  reader may be anywhere in a call while a batch is published.

### PaC-trees: layout, construction, joins
`include/cpam/weight_balanced_tree.h`, `basic_node.h`, `basic_node_helpers.h`,
`balance_utils.h`, `sequence_ops.h`

* *State*: none beyond the trees (functional data).
* *Operations*: block builders (`make_compressed`, `two_/four_compressed_nodes`),
  `node_join` with `right_join`, `left_join`, `balanced_join` and the rotations,
  `join2`, `expose`, `finalize`, `from_array`.
* *Hard*: roundings that decide whether a block still fits; a fixed stack buffer
  of `7B` elements; rotations that cast a child to a regular node.
* *Correct when*: every result is balanced, its leaves are blocks of `B` to `2B`
  (trees of fewer than `B` elements excepted), and it holds the right elements.

### Maps
`include/cpam/map.h`, `map_ops.h`

* *State*: the root of the map.
* *Operations*: `insert`, `remove`, `update`, batches (`multi_insert`,
  `multi_insert_sorted`, `multi_delete_sorted`, and the `*_map`, `multi_update`
  and `multi_find` variants), `map_union`, `map_intersect`, `map_difference`,
  `filter`, `range`; `find`, `rank`, `map_reduce`.
* *Hard*: the choice between the flat and the recursive case depends on sizes
  only, and the two must agree; the order of a combining function's arguments;
  maps of fewer than `B` elements, which `finalize` makes a block smaller than
  any other helper expects.
* *Correct when*: the tree is a search tree with exactly the promised contents
  after any sequence of calls.

### Sequences
`include/cpam/cpam.h`, `sequence_ops.h`

* *State*: the same trees, by position.
* *Operations*: `select`, `take`, `suffix`, `subseq`, `append` (`join2`),
  `reverse`, `map`, `foreach_index`; `reduce` and unordered searches.
* *Hard*: index arithmetic at the root of a subtree with unsigned positions (a
  TODO at `sequence_ops.h:308` concedes an off-by-one); blocks and inner nodes
  disagree on which end of a range is included.
* *Correct when*: results are PaC-trees of exactly the elements of the range, in order.

### Memory management
`include/cpam/gc.h`, `basic_node.h`, `sequence_ops.h`

* *State*: a reference count per node; pointers that own a reference, and
  borrowed ones (`ptr` with the `extra` flag) that do not.
* *Operations*: `increment`, `decrement`, `decrement_recursive` (in parallel),
  `copy_if_needed`, `expose`, and in every map operation the choice between taking
  a node over and copying it; copy, assignment and `clear` of a map.
* *Interaction*: under every tree operation, and under the reclamation of graph
  versions.
* *Hard*: a count is read once and acted on later while other threads copy,
  release or descend; a borrowed pointer needs somebody else's reference for as
  long as it lives, in both branches of a fork.
* *Correct when*: a count is the number of references, borrowed nodes stay alive,
  and no client sees another's call.

### Augmented maps
`augmented_map.h`, `augmented_node.h`, `augmented_ops.h`: a cached sum per node,
and queries that descend by key or by sum. *Hard*: blocks and inner nodes must
treat the key at the boundary alike. *Correct when*: a query returns the sum of
the elements in its range.

### Difference encoding, bulk construction
`compression.h`, `byte_encode.h`: a codec inside a block. `build.h`: sorting and
combining equal keys before a batch. Not modelled.

### Functional graph
`examples/graphs/aspen/immutable_graph.h`, `traversable_graph.h`

* *State*: a map from vertices to edge trees.
* *Operations*: `from_edges`, `insert_edges_batch`, `delete_edges_batch`,
  `insert_vertices_batch`, `delete_vertices_batch` and their functional variants;
  `get_vertex`, `map_vertices`.
* *Interaction*: the versioned graph holds its roots; its batches are map batches
  whose combining function is a map batch on an edge tree.
* *Hard*: a flat, a recursive and an in-root case of two nested operations, each
  of which combines an old tree with a slice of the batch.
* *Correct when*: every vertex has exactly the edges the batches gave and left.

### Vector index
`examples/diskann/index.h`

* *State*: the versioned graph of neighbours, `delete_set`, `old_delete_set`,
  `epoch_running`.
* *Operations*: `build_index`, `insert`, `lazy_delete`, `start_delete_epoch`,
  `consolidate_deletes`, `end_delete_epoch`; queries.
* *Hard*: insertions during an epoch search through vertices that are being
  deleted; a point may be deleted while the epoch before it runs; consolidation
  may cover only some vertices.
* *Correct when*: degrees stay bounded, consolidated vertices stay clean, and no
  edge leads to a vertex that is gone.

### Other clients
`examples/graphs/algorithms`, `examples/interval`, `examples/range_query`,
`examples/index`, `examples/microbenchmarks`, `examples/basic_examples`: readers of
snapshots and sequential users of maps. `include/pam`, `other_systems`, `HNSW`
and `diskann_without_cpam` do not use PaC-trees or are third-party code.

The hazards this code is exposed to, each at its line and with the properties
that watch it, are listed in `PROJECT.json` under `hazards`.

## 2. Modules

| module | models | built on |
|---|---|---|
| `SnapshotStore` | what a versioned store promises: abstract | – |
| `SnapshotStoreProofs` | theorems about it | `SnapshotStore`, TLAPS |
| `VersionedGraph` | `versioned_graph.h` on `sequentialHT.h`, per memory access | refines `SnapshotStore` |
| `MCVersionedGraph` | TLC instances, reader symmetry | `VersionedGraph` |
| `VersionedGraphProofs` | type correctness of `VersionedGraph`, whatever its clients do | `VersionedGraph`, TLAPS |
| `VersionedGraphCalmProofs` | its safety invariants while no reader disturbs an insert | `VersionedGraphProofs` |
| `VersionedGraphStoreProofs` | that it then implements `SnapshotStore`, in a bounded table | `VersionedGraphCalmProofs` |
| `BlockLayout` | balance criterion and block sizes | – |
| `BlockLayoutProofs` | theorems about them, for every `B` | `BlockLayout`, TLAPS |
| `PacTree` | trees, builders, joins, rotations, structure checks | `BlockLayout` |
| `PacSeqOps` | operations by position | `PacTree` |
| `PacJoin` | joins of all pairs of PaC-trees, and operations by position on all of them | `PacSeqOps` |
| `PacMapOps` | the map operations on trees, sums of values | `PacTree` |
| `OrderedMap` | what the map interface promises: abstract | – |
| `PacMap` | a map under a client that calls anything | `PacMapOps`, `OrderedMap` |
| `MCPacMap` | batches for TLC | `PacMap` |
| `PacGraph` | the functional graph: map batches inside map batches | `PacMapOps` |
| `MCPacGraph` | sources and targets of batches for TLC | `PacGraph` |
| `NodeHeap` | nodes, reference counts and borrowed pointers under concurrent calls | refines `PersistentMaps` |
| `PersistentMaps` | what purely functional maps promise to concurrent clients: abstract | – |
| `MCNodeHeap` | maps that share nodes, for TLC | `NodeHeap` |
| `NodeHeapProofs` | theorems about counts and reuse of nodes, for any maps and clients | `NodeHeap`, TLAPS |
| `NodeHeapMapsProofs` | that the nodes then implement `PersistentMaps`, in search trees | `NodeHeapProofs` |
| `KnnIndex` | the vector index and its delete epochs | – |
| `KnnIndexProofs` | theorems about it, for every metric | `KnnIndex`, TLAPS |
| `MCKnnIndex` | portions of a consolidation, symmetry of points | `KnnIndex` |

How they stack: `KnnIndex` treats one published version of the graph as a step,
which `VersionedGraph` justifies as long as inserts are calm (below); `VersionedGraph`
treats a graph as one counted object, which is what `NodeHeap` refines for a tree
(a release is `ClearMap`, a batch is `Begin` on a copy of the map); `NodeHeap`
treats a subtree's elements as a set, of which `PacTree`, `PacMapOps` and
`PacGraph` say what they are and how they are balanced and cut.

### VersionedGraph

One action per access to shared memory that another thread can observe:

| code | actions |
|---|---|
| `acquire_version` | `StartAcquire`, `ReadLatest`, `Find` (one probe of `sequentialHT::find`), `CheckTombstone`, `LoadWord`, `ReadStamp`, `RaiseCount` (the compare-and-swap), `ReadRoot` |
| `release_version` | `StartRelease`, `DropCount` (fetch-and-add), `CheckLatest`, `Reread`, `ClaimLast` (compare-and-swap), `FreeRoot`, `ClearEntry`, `BuryEntry` |
| `insert_edges_batch`, `delete_edges_batch`, `add_version_from_graph` | `BuildNext`, `ProbeInsert` (one probe of `sequentialHT::insert`), `StoreNew`, `Publish`, then the release above |

`pc[p]` says where thread `p` is; `want`, `entry`, `word`, `stamp`, `root` and
`todo` are its locals. The tuple assignments of `ClearEntry`, `BuryEntry` and
`StoreNew` store three words each, in any order, one step per word: they are
unsynchronised plain stores, so any order is a behaviour the build can produce.
The hash of a timestamp is constant (`firstIndex` shifts the key right by 32),
so every probe starts at slot 0, as in the code. The graph under a root is one
object with a reference count `rc[t]`; how trees of different versions share
nodes belongs to memory management.

Readers and the writer interleave freely; nothing in the code prevents that, and the
drivers named above do it. `Calm = TRUE` leaves two things out, both about the window
from the start of an insert into the table (`BuildNext`) to `Publish`:

* a reader in that window releases a version that is not the latest;
* when it opens, a reader is in an `acquire_version` that began before the latest
  version was published, so that one call overlaps two publications.

Readers may acquire and release beside every step of the writer otherwise: they
acquire the latest version and let it go while the next one is entered, race with the
publication, hold versions over any number of batches, and release superseded versions
at any moment between one publication and the next insert, in a race with each other
and with acquires that have not noticed. It is a hypothesis on timing that the store
does not enforce: its clients meet it because a batch takes long and a call is short.
TLC needs it: without it `vg_lock_free` fails, and dropping any one of its three
conjuncts (the two in `MayInsert`, the one in `MayRelease`) makes `vg_calm` fail.

`add_version_from_graph` can be called without an acquired version, and would then leave
the superseded one to nobody. All of its callers (`index.h:135`, `245`, `263` and
`simpleInserts/neighbors.h:44`, `91`) hold one and release it afterwards; the model
publishes as they do.

`SnapshotStore` has no table and no counts: a client that asks gets a version
that was current at some moment of its call and that nobody reclaims while it
holds it. `VersionedGraph!ImplementsSnapshots` maps `held` to the timestamp of
the version object and `latest` to `current_timestamp - 1`; `since` and
`reclaimed` are history variables of `VersionedGraph`, written by `StartAcquire`,
`RaiseCount` and `ClaimLast` and read by no guard.

### The tree modules

A tree is a value: `Nil`, `Block(elements)` or `Node(left, element, right)` with
its size cached, as in the code. The elements of a map are `<<key, value>>`.
`Garbage` stands for what a failed assertion (when `Asserts` is TRUE), a cast of
a block to a regular node or an overrun of the `7B` buffer leaves behind. It is
an element no client can have, so that `HoldsWhatItPromises`, `JoinConcatenates`
and the structure checks see any such event.

The balance criterion is computed with doubles in the code (`alpha = 0.29`) and
with integers here (`29 * weight(s1) > 71 * weight(s2)`); they differ, if at all,
only where both sides are exactly equal, that is where the weights are multiples
of 71 and 29 (of 71 and 42 for the rotation test). Evaluating the doubles gives
the integers' answer at the first 199 such multiples; the runs stay far below
the first.

`PacTree` holds what goes by position, `PacMapOps` what compares keys. In-place
update of a node with a single reference and copying it first have the same
value and are not distinguished. `PacMap`'s state is the root, and beside it
`promised`, the abstract map (a function on a set of keys) that the operations of
`OrderedMap` compute; `calls` bounds the client.

These modules use `RECURSIVE` operators, as the code recurses on trees, so they
are model-checked and not proved about. What their correctness rests on
arithmetically was put in `BlockLayout`, which has none, and proved there.

`PacMapOps` writes a function argument of the code (`f`, `combine_op`, `map_op`) as a
TLA+ function on the values it may meet. `PacGraph` uses this twice: the function
it passes to a batch on the vertex tree is tabulated from batches on the edge
trees the graph has, so a slice meeting the wrong tree shows in the result.

`PacSeqOps` keeps the wrap-around of unsigned positions (`Minus`): `take` computes
`rank - left_size - 1` also when `rank = left_size`, and then takes everything from
the right subtree. `PartsAreExact` says which element a cut must return, no more and
no less, and excepts only the cuts that meet one of the code's three errors (section
4): those where the position next to the cut holds the entry of a regular node, and
the end of a `subseq` inside one block. `SuffixStartsAtRank` is the promise without
exception, and violated.

### NodeHeap

The state is the memory: nodes with a kind, a count, children and elements; the
variables `x` and `y` of each client; and a tree of *activations* per client, one for
each subtree its running `multi_insert_sorted` visits, which are the branches of
its forks. An activation holds its pointer (owned or borrowed), its part of the
batch, the node it will join with, its result, and `todo`, a bag of the references
`decrement_recursive` still has to drop (how many to each node). Each access to a count that another
thread can observe is a step of its own: the test of `RequiresCopy` in `Expose`, the
copy in `Single` and `CopySpine`, each reference of a release (`DropReference`), the
raising of a borrowed pointer's count (`node_ptr`).

Sizes are abstracted: where the code picks the flat case, a balanced link, a
gathering into blocks or a descent along a heavy side by comparing sizes, the
model may take any of them. The nodes are few, so every such mixture occurs.

All clients start with the same maps, one member of `Given`: nodes, the two roots and
the batches the clients may insert. `IsGiven` asks of them only what a heap built by
the code has: inner nodes with one element, blocks without children, no node that
nothing refers to (it would be free), and search order: what is left of an inner node
has smaller keys, what is right of it greater ones.

A batch is given a copy of `x`, or `x` itself is moved into the call. The second is
offered only while every node under `x` has a count of one or is under the client's
own `y` too (`MayMove`). A call that owns the only reference its own client has to a
shared node drops that reference when it copies the node, and then works on the
children as borrowed ones; what keeps them alive is the *other* client's
reference, which it may drop at any time. With a copy, the caller's variable is
that reference. `map.h:312` and `386` do not check this. The clients in the repository
keep to it: their batches run on a copy of the graph they have acquired, or in place
on the result of one, while the acquired version holds what the two share
(`index.h:114-136`).

`MapsArePersistent` is what a user of a purely functional map relies on, as an action
property: no step changes the contents of a variable that it does not assign.
`TreesAreOrdered` is the search order of every node, including those that are reachable
only from an activation, but for a node whose children belong to branches
(`Hollow`): the joins relink nodes in place in the middle of a call, and the batch a
branch inserts was cut at an entry that may belong to a node copied meanwhile.

`PersistentMaps` has no nodes: a variable changes only by an assignment of its own
client, and a call returns what it computes from the contents it was given.
`NodeHeap!ImplementsMaps` maps a variable to the elements under its root and the
running call to `due`, a history variable that `Begin` sets from the abstract
definition and `Return` does not read.

### KnnIndex

One step per call of the thread that writes: each acquires the latest version,
computes the next and publishes it. `lazy_delete` comes in between at any moment.
Distances are abstracted: a search may visit any set of points that paths from
the medoid can reach (`Walks`), and a pruning may keep any subset the degree bound
allows that is not empty without need. So the properties hold for every metric.
`clean` and `thorough` are history variables that no guard reads.

### Definitions that only mutants use

A few definitions stand right
before another of the same parameters and are used by nothing (`BlindStore`
before `CasSucceeds`, `UpTo` before `Before`, ...). They are bugs the code might
have had; putting one in the other's place must make a run fail.

## 3. Runs and bounds

| run | instance | checks |
|---|---|---|
| `vg_calm` | 2 readers, versions 0..3, 5 slots, calm inserts | `TypeOK`, `SnapshotIsIntact`, `FreedOnce`, `LatestCanBeAcquired`, `CountIsExact`, `NoneForgotten`, `ImplementsSnapshots` |
| `vg_live` | 1 reader, versions 0..4, 5 slots, calm inserts, fairness | `UsedSlotsAreBounded`, `EventuallyReclaimed`, `LockFree` |
| `vg_lock_free` | 1 reader, versions 0..2, 4 slots, no restriction, fairness | `LockFree`: violated |
| `join_pairs` | all PaC-trees, B = 2, 26 elements in a pair, 15 in a tree alone, assertions on | `JoinIsPacTree`, `JoinConcatenates`, `PartsAreExact` |
| `seq_suffix` | `suffix` at every position of all PaC-trees of up to 7 elements, B = 2 | `SuffixStartsAtRank`: violated |
| `pm_large` | B = 3, 24 keys, 3 calls, assertions on, all operations but insert and update | `StructureIsSound`, `IsSearchTree`, `QueriesAgree`, `HoldsWhatItPromises` |
| `pm_values` | B = 2, 20 keys, 2 values, 3 calls, with insert and update | `StructureIsSound`, `IsSearchTree`, `HoldsWithoutInsert` |
| `pm_insert`, `pm_union` | 4 keys and 4 calls, 3 keys and 2 calls | `HoldsWhatItPromises`: violated |
| `graph_batches` | B = 2, 20 vertices of up to 20 neighbours, 3 batches | `HoldsThePromisedEdges`, `TreesAreSound` |
| `heap_shared` | 2 clients, 11 nodes, 1 or 2 batches | `TypeOK`, `CountIsExact`, `BorrowedIsAlive`, `TreesAreOrdered`, `MapsArePersistent`, `ImplementsMaps` |
| `index_epochs` | 4 points, degree 2, 4 insertions and epochs | `DegreeIsBounded`, `CleanStaysClean`, `EdgesLeadToVertices` |

What they show. `vg_calm` and `vg_live`: at every interleaving of shared accesses
that leaves inserts calm, a held version is the one that was acquired and is not freed,
counts match the holders, superseded versions are freed once and, under fairness,
eventually, readers make progress, the table never fills with buried slots, and the
store implements the abstract one. `vg_lock_free`: a release that reaches into an
insert ends that. The tree
runs: any operations in any order leave search trees that are balanced, cut into
full blocks and hold what the interface promises. `graph_batches`: so do the
nested trees of a graph. `heap_shared`: sharing and reuse in place never show,
and what a batch makes of shared search trees are search trees.
`index_epochs`: epochs keep the graph of the index within its degree and clean.

Why the bounds are enough.

* *Versions and slots.* A slot is reused once a version two behind the latest
  was buried; four versions in `vg_calm` and five in `vg_live` bury and reuse
  several times. A table of one slot more than there are readers, the latest version
  and the next one always keeps an empty slot, at which a search for an absent key
  stops, as in the code's table of 512; `UsedSlotsAreBounded` checks it. Up to the
  first publication `Calm` restricts nothing, since all is about version 0; so
  `vg_calm` contains every interleaving of two readers with the batch that
  supersedes version 0: the whole race of acquire, release, publication and
  reclamation. Three versions are the fewest that reuse a slot, and enough for
  `vg_lock_free`.
* *Symmetry.* `vg_calm` identifies states that differ by the names of the two
  readers, which no definition tells apart; `vg_live` and `vg_lock_free`, which check
  liveness, use none.
* *Readers.* Two readers and the writer make all three pairs of callers that can
  meet in an entry; a third would race with the same two kinds.
* *Counts.* `MaxRefct = 9` is above any count three threads reach, so the word
  does not wrap; `TypeOK` and `CountIsExact` would notice an underflow.
* *Trees.* The interesting sizes are `B`, `2B`, `4B + 1`, `7B` and `8B + 2`. With
  `B = 3`, 24 keys in a map and as many in a batch exceed `8B + 2 = 26` together,
  so the flat and the recursive case of insertion and of the set operations both
  run; with `B = 2` and 20 keys so do those of deletion, which look at the map
  alone. Odd and even `B` round the halves differently, so both are used.
  `join_pairs` does not depend on which operations produce a tree: its inputs are
  *all* trees the structure check accepts, and 26 elements at `B = 2` reach
  descents of two levels with single and double rotations.
* *Vertices and edges.* 20 of each exceed `8B + 2` at `B = 2`, so that both levels
  of a graph batch have a flat, a recursive and an in-root case, in all
  combinations: the sources and the targets of a batch are chosen independently.
* *Nodes.* 11 is enough: `HasRoom` holds in every reachable state of `heap_shared`,
  so no step is disabled for lack of memory. One start is a root over two blocks,
  from which two batches make every mixture of copies and reuse; the other is two
  versions of a tree of two levels that share an inner node, where a batch
  descends through borrowed pointers twice.
* *Points.* With degree 2 and four points, a vertex can lose one neighbour and
  inherit more than the bound. Four calls allow an insertion of two, an epoch with
  an insertion in it, and what follows.
* *Batches* are runs of keys with stride 1 or 2 rather than all subsets, which
  keeps them dense and sparse, overlapping and disjoint.
* *Calls.* A bug needs an operation that makes an odd tree and one that trips
  over it: three calls give that and a third party.

`CHECK_DEADLOCK FALSE` is set for the runs whose client stops after its calls: the
trees, the heap, the graph and the index. In the versioned graph, readers may
always begin another call.

### Fairness

`FairSpec` assumes weak fairness of every thread *inside* a call, one condition
for its acquire steps and one for its release steps, and of the batch the
writer has begun: the operating system schedules every runnable thread. Nothing
forces a client to begin a call or to release a version it holds; so
`EventuallyReclaimed` speaks of versions that have been let go of. `LockFree` is
the code's own claim ("Lock-free, but not wait-free", `versioned_graph.h:104`):
if from some moment on somebody is always acquiring, acquisitions succeed again
and again, though not for every thread. `vg_live` checks it where inserts are calm;
`vg_lock_free` checks it as the code states it, without that condition, and finds it
false.

## 4. What the models found

Checked as runs that end in a violation, each against a statement of the
repository (`PROJECT.json`, `findings`):

* **`vg_lock_free`.** The store is not lock-free, as `versioned_graph.h:104` claims.
  A reader that lets go of superseded version 0 may do the clearing and burying stores
  of `release_version` (156-159) late. Once the key of the tombstone is stored, the
  writer may take the slot for version 2 and publish it; the remaining stores then
  overwrite that entry. From then on every `acquire_version` finds no entry, or one with
  a count of zero, and repeats its loop for ever. The same happens when a reader wins
  the second compare-and-swap (146) on a slot that was reused in the meantime. It takes
  a release that reaches into an insert, which the drivers that overlap queries and
  updates allow. Where inserts are calm it does not happen.
* **`seq_suffix`.** `suffix` keeps the entry at position `rank - 1` when it is that of a
  regular node, though its comment promises the elements from `rank` on
  (`sequence_ops.h:295`); the TODO at 308 asks about this case.
* **`pm_insert`.** `insert_compressed2` drops the next larger element when a new
  key is inserted into a block.
* **`pm_union`.** The flat cases of union and intersection give the combining
  function its arguments in the other order than the recursive case does.

Noted while reading, and not the subject of a run:

* *Maps of fewer than `B` elements.* `finalize` makes them a block that
  `make_compressed` would refuse: `update`, `insert` and the sequence `map` on such a
  map fail `assert(tot >= B)` (`basic_node_helpers.h:83`) in builds with assertions.
  On an equal key in a block, `insert` combines in the other order and keeps the
  old value.
* *Sequences.* `take` of a rank equal to the size of the left part returns the
  whole subtree, because its position wraps around (`sequence_ops.h:192`), and
  `subseq`, which ends with it, does so too; besides, `subseq` counts its end in within
  a block and not above one (the example at `README.md:606` uses it). `PartsAreExact`
  excepts these cases and checks all others. `find_unsorted` adds no offset for the right part
  (`sequence_ops.h:500-511`); `is_sorted` compares default elements of empty
  subtrees (`466-478`).
* *Augmented maps.* In a block, `aug_sum_left` excludes the key that its comment
  includes (`augmented_ops.h:40`, `46`) and `aug_sum_range` excludes both ends
  (`94-95`). `aug_filter_bc` tests sums of prefixes where the inner nodes test single
  entries (`145-150`, `180`); the test that compares them is commented out
  (`testParallel.cpp:1038`). `finalize` asserts that the map is not empty
  (`augmented_node.h:203`), so deleting all vertices of a graph aborts.
  `inplace_update` leaves the sum of a block stale (`augmented_node.h:153`).
* *Functional graph.* `insert_edges_batch` keeps duplicates unless `remove_dups` is
  asked for, which `run_simultaneous_updates_queries.cc:159` does not, while
  `map_ops.h:1062` assumes there are none. Symmetric edges, and edges to deleted
  vertices, are left to the caller. `traversable_graph.h:388` calls
  `delete_edges_batch_2`, which is defined nowhere.
* *Vector index.* Consolidation may give a vertex an edge to itself
  (`index.h:336-362`; the prunings at 497 and 518 leave it out). `lazy_delete`
  accepts the point one past the last (`190`, `206`). Queries read `old_delete_set`
  without the lock.
* *Others.* The DEBUG structure check rejects one-element trees when `B = 1`;
  `operator==` of maps compares keys only; `check_difference` of the parallel test
  cannot fail; `sequentialHT::find` of an absent key does not end in a table whose
  slots were all used once (`UsedSlotsAreBounded` shows that calm inserts keep one empty);
  `add_version_from_graph` leaves a version unreclaimed when its caller does not
  hold it, as its callers do.
* *Moved maps.* `map.h:312` and `386` move a map into a call without looking at who
  else has its nodes. If only *another* client shares them and clears its map during
  the call, nodes that the call has borrowed are freed under it. `MayMove` leaves such
  calls out of `NodeHeap`, so its invariants and theorems hold for clients that keep
  a version of what they update in place, as those in the repository do.

## 5. Proofs

All proofs are checked by TLAPS to the last leaf. They assume only the named
assumptions of the modules:

* `WriterAssumption`: the writer is not a reader;
* `BoundsAssumption`: the bounds are naturals, the table and the count are not
  empty;
* `CountAssumption`: the readers are finitely many, and one count for each, one for
  the writer and the table's own fit into the field (a count has the low 32 bits
  of its word in the code, far more than there are threads);
* in `NodeHeap`, `BoundsAssumption` (the numbers of nodes and of calls are naturals),
  `ClientsAssumption` (the clients are finitely many, and there is one) and
  `GivenAssumption` (the maps they start with satisfy `IsGiven`: any search trees, of
  any size and shape and sharing any nodes, each node referred to);
* `BAssumption`: `B` is a positive natural;
* `PointsAssumption`: the points are finitely many and the medoid is one of them;
* `maxDegAssumption`: the degree bound is a positive natural.

**`VersionedGraphProofs!TypeCorrect`**: `Spec => []TypeOK`, for any number of
readers, versions and slots and any width of the count. `TypeOK` is not
inductive alone: `ReadStamp` reads a key that may be the tombstone's or the empty
one, and `ClaimLast` and `ClearEntry` later store what was read, so `StampRead`
adds that a thread past `ReadStamp` has read *some* key; and `Publish` raises the
timestamp without looking at the bound, so `RoomForBatch` adds that a writer past
`StartAcquire` is below it. `Inv` is the conjunction; there is one lemma per
group of actions.

**`VersionedGraphCalmProofs`**: while inserts are calm (`Calm`, section 2), then for
any number of readers, versions and slots the count of every entry is exact
(`CountsAreExact`), what a thread holds stays intact (`SnapshotsStayIntact`), the
latest version can be acquired (`LatestIsAcquirable`), no superseded version is
forgotten (`NoneIsForgotten`) and none is freed twice (`TreesAreFreedOnce`). `Calm` is
a hypothesis, since `vg_lock_free` shows what happens without it: a published entry is
destroyed. It does not keep readers and the writer apart: the races of the count with
the writer's own acquire and release, of the timestamp test with the publication, and
of late acquires with the last release are all in these theorems.
None of the five is inductive; `CalmInvariant` proves all of them from one
invariant, `CalmInv`, with one lemma per action. Its parts, and the step that
needs each:

* `BatchIsCalm`: in the window of an insert no reader is in an acquire older than the
  latest version, or in a release of another version. It is what the hypothesis
  gives (`InsertIsCalm`): in the window nobody frees a version, and who looks for one
  looks for the latest.
* `LookingInv`: who is in `acquire_version` wants a version that was the latest at some
  moment of the call, and the slot it has found has that key or the tombstone, even
  though the version may have been superseded and buried meanwhile. With `ZeroInv` this
  is why a compare-and-swap that succeeds has raised the right count
  (`RaisedIsCurrent`): it compares a count that was not zero.
* `ZeroInv`: the count of an entry that is being freed or is buried is zero, in every
  intermediate state of the tuple stores, until an insert takes the slot. So no late
  acquire can raise it.
* `ObjectInv`: the entry a version object refers to has the object's timestamp and
  root. So `DropCount` lowers the count of the right version. Who has lowered it to the
  table's own count may find the entry buried by another releaser; then the version
  is reclaimed.
* `LastInv`: who claims a version compares with the word of that version and a count of
  one; so a claim that succeeds has the entry alone (`ClaimedIsAlone`), and one that
  comes late fails (`LateClaimCalm`).
* `FreesInv`: who claimed it stays alone until the tombstone is stored, whatever
  the order of the words of the tuple stores.
* `AloneInv`: no two threads free an entry. This is why a tree is released once.
* `WriterInv`: the batch builds on the latest version, and the slot it fills holds
  the words of the next entry as far as they are stored.
* `TableInv`: a version has at most one entry, the latest has exactly one, and a key
  from the future is only in the slot being filled.
* `EntryInv`: the packed word of an entry that nobody frees is `make_refct` of its key
  and of one more than its holders; the root is allocated; the version is not
  reclaimed. Here the count is compared with the cardinality of a set that
  `RaiseCount` and `DropCount` change by one element.
* `HistoryInv` and `FreedOnce`: only superseded versions are reclaimed, and for each
  that is not, some thread holds it or has still to test whether to free it; when a
  releaser stops because the count has risen again, the one that raised it is that
  thread (`LetGo`).

The invariant was checked by TLC on small instances first.

**`VersionedGraphStoreProofs`**. `StoreIsImplemented`: under the same hypothesis, the
store implements `SnapshotStore`. `StartAcquire` is a request; a `RaiseCount` whose
compare-and-swap succeeds is the acquisition, of a version that was the latest during
the call and is not reclaimed (`RaisedIsCurrent`); `Publish` is the publication;
`DropCount` lets a snapshot go; `ClaimLast` is the reclamation, which the abstract store
allows only for a version that nobody holds (`ClaimedIsAlone`). Every other step is a
stutter. With `SnapshotsAreSafe` and `SnapshotsAreFresh` this gives, for any number of
threads, that a reader never gets a graph older than the moment it asked.
`SlotsAreBounded`: no more slots are ever used than there are readers and two, so
that a table with one slot more keeps an empty slot, at which a search ends (the
code has 512). The strengthening `SlotInv` says that when the writer's insert has
passed a slot, that slot has a version's key (`PassedAreHeld`); in the window of the
insert such a version is held by a thread, two versions never by the same one, so by a
pigeonhole argument the insert passes no more slots than there are threads.

**`NodeHeapProofs`**: for any clients, any number of nodes and any maps to start with,
however they share their nodes, the count of every node is the number of references
to it at every step (`CountIsExactHolds`), what is borrowed is alive
(`BorrowedIsAliveHolds`), and a variable keeps its contents until it is assigned
(`MapsArePersistentHolds`). `MaxDepth` alone keeps its value: calls fork twice. As in
the model, a map is moved into a call only while no other client alone shares its
nodes (`MayMove`). All
follow from one invariant, `IInv`, which TLC checked on `heap_shared` first, and from
one lemma per action. Its parts, and why each is needed:

* `Exact`: the count of a node is the sum of four cardinalities, of the variables, the
  fields of nodes, the activations and the pending releases that refer to it; it is
  free when there are none. The tables `VarAt`, `FieldAt`, `OwnedAt` and `TodoAt` make
  each an entry of a function, so that a step that changes one entry changes one
  cardinality by one (the lemmas at the head of the module). The children of a node that an activation is
  about to join with are not references: they already belong to its branches
  (`Hollow`).
* `NodeShape`, `Holding`: such a node is an inner one and its activation has the only
  reference to it, so that relinking it is seen by nobody.
* `Borrowing`: a borrowed node is *kept*, that is, under a variable of the client whose
  call borrows it. `BorrowedIsAlive` alone is not inductive: it does not say that the
  children of a borrowed node are alive as well.
* `TakingOver`: every node under a pointer that an activation owns is kept, or has a
  count of one. So `expose`, which reads one count only, is right about the whole
  subtree: a node with a count of one that is not kept is referred to from that
  subtree alone (`PrivateNodes`), and the children of a node it has to copy, which it
  lends to its branches, are kept.
* `Forking`: the branches of an activation rest, run or are done, as its program
  counter says; a release or a join may rely on what they left.

The argument in the middle is `StepPreservesIInv`: a step of one activation (or of one
and its branches) is *harmless* if all nodes but those only it refers to keep their
kind, elements and children, and their counts unless these exceed one. A harmless
step preserves `Borrowing`, `TakingOver` and `Forking` of everybody else and changes
nothing under a variable; what is left to show for each action is that it is harmless
and that the counts of the nodes it touches match. "Under a pointer" is the recursive
function `Reached`; that it is the least set that holds the pointer and is closed under
children (`UnderFacts`) is proved by well-founded induction on the sets of nodes not
reached yet, a statement about sets that needs no operator as a parameter.

**`NodeHeapMapsProofs`**: under the same assumptions, the nodes implement
`PersistentMaps` (`MapsAreImplemented`), and every tree is a search tree at every moment
(`TreesAreOrderedHolds`). `IInv` says where references lead, not what they lead to; `MInv`
adds to it, as one invariant, `TreesAreOrdered` and what every activation is going to
return, `W[c][path]`, a set of elements fixed when the activation is given its subtree:

* before it joins, `W` is the elements under its pointer with its part of the batch
  inserted; afterwards, those its branches are going to return and the entry it joins
  with; when it is done, those of its result (`Gives`);
* while it joins, what its left branch is going to return is smaller than that entry,
  and what its right branch is going to return greater. So the join may put the two
  under the entry's node, in a block or on a spine, and the node is sorted;
* a part of a batch has one element of a key (`Distinct`), which the cut at an entry
  keeps: of two elements with the entry's key the join would store one and lose the
  other;
* `due` is what the first activation of the call is going to return (`Owes`).

`W` is existentially quantified, with no variable of the model for it: a step chooses the
same `W`, but for `Expose`, where it says what the two branches will return, and
`Begin`, where it says it of the call. `SplitInsert` shows that the choice of `Expose` adds
up: a batch inserted into a node and its subtrees is what its two parts make of the
subtrees and its equal element of the node. What one activation does may not change
what another is going to return: a step is *local* if only nodes that nobody else refers to
change (`Local`; a count may change anywhere), what is under a pointer that somebody
else has stays (`ReferredStays`), and so does what the activations outside are
going to return (`GivesStays`, `MapsStep`). Again there is one lemma per action. The step of the
refinement follows: `CopyMap`, `ClearMap`, `Begin` and `Return` are the actions of
`PersistentMaps` of the same meaning, `Return` because a call that is done has
what it was due, and all other steps are stutters by `Persists`.

**`KnnIndexProofs`**: for any points, degree bound, batch sizes and any metric, no
vertex ever has more than `maxDeg` neighbours (`DegreesAreBounded`), a vertex that is
clean stays so until the epoch ends (`CleanVerticesStayClean`), and if every epoch
consolidated all vertices, no edge leads to a point that was removed
(`ThoroughEpochsLeaveNoDanglingEdge`). The invariant adds to these three that the
medoid is a vertex that is never deleted, that nothing is being deleted between
epochs, and that what is being deleted is not clean. `CleanStaysClean` is inductive
only with the filter of `beam_search`, which returns nothing of `old_delete_set`:
the lemmas on searches, prunings, batches and consolidations say what each adds
to a neighbourhood, and the theorems use no more of them than that.

**`SnapshotStoreProofs`**: for any number of clients and versions, what a client
holds is published and not reclaimed, nor is the latest version
(`SnapshotsAreSafe`); a reclaimed version never comes back (`HistoryOnlyGrows`);
a snapshot is never older than the latest version at the time of the request
(`SnapshotsAreFresh`). The strengthening is that no pending request began ahead
of `latest` (`RequestIsNotAhead`). `StoreIsImplemented` transfers these properties to
the code while inserts are calm.

**`BlockLayoutProofs`**: for *every* block size, what the tree code relies on
without saying so.

* Cutting into two or four blocks yields blocks of `B` to `2B` with every
  rounding (`TwoBlocksFit`, `FourBlocksFit`); halving an array is balanced
  (`HalvesAreBalanced`).
* Whatever is gathered into the `7B` stack buffer by `balanced_join`,
  `regular_join`, a descent that meets a block, or a rebalancing that meets one,
  fits (`BalancedJoinFits`, `RegularJoinFits`, `DescentToBlockFits`,
  `CollapseFits`).
* A descent ends where `balanced_join`'s assertions hold (`DescentStaysBalanced`),
  and the rotation chosen by the `beta` test restores balance in all nodes it
  makes (`SingleRotationBalances`, `DoubleRotationBalances`).

`join_pairs` and `pm_large` check on small trees that the recursion puts these
facts together correctly.

Model-checked only, and why:

* *Everything under fairness* (`EventuallyReclaimed`, `LockFree`): `ENABLED` and
  liveness are out of the prover's reach.
* *The versioned graph when inserts are not calm.* Only `TypeCorrect` is proved of it.
  Its safety fails once a slot is reused under a late releaser (`vg_lock_free`), so an
  invariant for all bounds does not exist; until the first publication there is no
  difference, and `vg_calm` checks it.
* *Trees, joins, map operations and the functional graph* (`PacJoin`, `PacMap`,
  `PacGraph`): their definitions are RECURSIVE operators over trees as data, and what
  they compute for every input needs induction over trees, which no installed backend
  can instantiate. (`Reached` of `NodeHeap` is a function over finite sets of nodes,
  which is why its induction could be done.)
  The arithmetic the recursion relies on is proved in `BlockLayoutProofs`.

## 6. Not modelled, and why

* `sequentialHT::remove`: no caller (and it would not return in a full table).
* The encoding inside a block (`compression.h`, `byte_encode.h`): a block is the
  sequence it decodes to.
* `build.h`, sorting, allocation and scheduling: parlaylib and jemalloc do the work;
  batches are sorted and without duplicates when they reach the models.
* In `NodeHeap`: operations other than batch insertion, which walk trees with the
  same primitives; `expose` of a block, the copies inside a rotation, which are
  `copy_if_needed` on a child of a node already owned; the pool allocator. Leaks
  of `find(ptr)` are outside what it models.
* `aug_sum_left`, `aug_range`, `aug_filter`: see section 4; `insert_lazy` and the
  read-only folds.
* In `KnnIndex`: the rounds of `build_index`, whose result for one point is where
  the model starts; `consolidate_deletes_simple`, which has no caller; queries,
  which write nothing.
* Graph algorithms, the HNSW index, interval, range-query and inverted-index
  examples: sequential clients or readers of snapshots.
* Timing and I/O of the drivers, microbenchmarks and scripts.
* `include/pam`, `other_systems`: an earlier library and third-party systems kept
  for comparison. They, the microbenchmarks and the search structures without
  PaC-trees are most of the repository's lines, so the modelled share of all lines
  is small. Of the files the models are about it is large: two thirds of
  `map_ops.h`, `balance_utils.h`, `index.h` and `versioned_graph.h`, about half of
  `map.h`, `sequence_ops.h` and `immutable_graph.h`.

## 7. Plan

Done: the version store, the layout arithmetic, the joins, the map operations and
batches, sequences by position, nodes in memory, the functional graph, the epochs
of the vector index; proofs for the version store with calm inserts, its refinement, the
nodes in memory and their refinement, the vector index and the layout arithmetic.
Next, in this order:

1. `BlockLayout`: the weights along a whole descent, from `DescentStaysBalanced` at
   one level to the level where it ends.
2. `NodeHeap`: deletions and unions, which walk with the same primitives; `Gives` then
   speaks of two subtrees.

Runs are added sparingly: a new operation joins an existing run where it answers
the same question.
