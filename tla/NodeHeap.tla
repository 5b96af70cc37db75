-------------------------------- MODULE NodeHeap --------------------------------
(***************************************************************************)
(* The nodes of PaC-trees in memory (gc.h, basic_node.h): shared between   *)
(* maps, reference-counted, copied or reused in place.  Clients run        *)
(* concurrently, each on map variables of its own whose trees share nodes; *)
(* the batch insertion of a client (multi_insert_sorted) forks into        *)
(* parallel branches, one activation per subtree it visits.                *)
(*                                                                         *)
(* A pointer owns a reference to its node, or is borrowed ("extra"): its   *)
(* node is kept alive by somebody else's reference.  Sizes are left out: a *)
(* subtree may be handled as flat, and a join may link, gather or descend, *)
(* wherever some sizes make the code do so.  How a flat result is cut into *)
(* blocks, and the rotations, which relink nodes of one reference, are in  *)
(* PacTree; here a flat result is one block.                               *)
(*                                                                         *)
(* A definition right before another of the same parameters, and used by   *)
(* none, is a bug the other might have had: the run must notice it.        *)
(***************************************************************************)
EXTENDS Integers, Sequences, FiniteSets

CONSTANTS
  Clients,
  NCells,    \* bound: nodes there is memory for
  MaxCalls,  \* bound: batches inserted
  Given      \* bound: what all clients may start with: the nodes, the trees
             \* of x and y, the batches (sets of keys) they insert, how many

Null == 0
Cells == 1..NCells
Pointers == Cells \union {Null}
Names == {"x", "y"}
Sides == {"l", "r"}
Top == <<>>
Side(path, s) == Append(path, s)
Paths == {Top} \union {Side(Top, s) : s \in Sides}
               \union {Side(Side(Top, s), t) : s, t \in Sides}
MaxDepth == 2   \* bound: length of a path of activations

\* S has p and all that is under it.
Covers(g, p, S) ==
  /\ p \in S \union {Null}
  /\ \A e \in S : {g.nodes[e].lc, g.nodes[e].rc} \subseteq S \union {Null}

\* The maps all clients start with are search trees of nodes that are
\* referred to.
IsGiven(g) ==
  /\ DOMAIN g.nodes \subseteq Cells
  /\ {g.x, g.y} \subseteq DOMAIN g.nodes \union {Null}
  /\ \A d \in DOMAIN g.nodes :
       LET n == g.nodes[d] IN
       /\ {n.lc, n.rc} \subseteq DOMAIN g.nodes \union {Null}
       /\ n.keys \subseteq Nat
       /\ \/ n.kind = "regular" /\ \E k \in n.keys : n.keys = {k}
          \/ n.kind = "block" /\ n.lc = Null /\ n.rc = Null
       /\ d \in {g.x, g.y} \union UNION {{g.nodes[e].lc, g.nodes[e].rc} : e \in DOMAIN g.nodes}
       /\ n.kind = "regular" =>
            /\ \E S \in SUBSET DOMAIN g.nodes :
                 Covers(g, n.lc, S) /\ \A e \in S : \A j \in g.nodes[e].keys, k \in n.keys : j < k
            /\ \E S \in SUBSET DOMAIN g.nodes :
                 Covers(g, n.rc, S) /\ \A e \in S : \A j \in g.nodes[e].keys, k \in n.keys : k < j
  /\ \A K \in g.batches : K \subseteq Nat
  /\ g.budget \in 0..MaxCalls

ASSUME BoundsAssumption == NCells \in Nat /\ MaxCalls \in Nat
ASSUME ClientsAssumption == IsFiniteSet(Clients) /\ Clients # {}
ASSUME GivenAssumption == \A g \in Given : IsGiven(g)

VARIABLES
  given,  \* constant: the member of Given this behaviour started with
  heap,   \* the nodes: kind, reference count, children, elements <<key, value>>
  root,   \* root[c][v]: the tree of variable v of client c
  act,    \* act[c][path]: the activation of c's call on the subtree at path
  due,    \* history: what the call of c is to return, in a set of at most one
  left    \* batches left; also the value the next one stores

vars == <<given, heap, root, act, due, left>>
-----------------------------------------------------------------------------
Key(e) == e[1]
KeysOf(es) == {Key(e) : e \in es}

FreeCell == [kind |-> "free", cnt |-> 0, lc |-> Null, rc |-> Null, es |-> {}]
Block(es) == [kind |-> "block", cnt |-> 1, lc |-> Null, rc |-> Null, es |-> es]
Regular(e, l, r) == [kind |-> "regular", cnt |-> 1, lc |-> l, rc |-> r, es |-> {e}]

is_regular(n) == heap[n].kind = "regular"
ref_cnt(n) == heap[n].cnt
get_entry(n) == CHOOSE e \in heap[n].es : TRUE
Child(n, s) == IF s = "l" THEN heap[n].lc ELSE heap[n].rc

HasRoom == \E n \in Cells : heap[n].kind = "free"
Fresh == CHOOSE n \in Cells : heap[n].kind = "free"

\* The nodes of the tree under a pointer, and their elements.
WithChildren(S) == S \union ((UNION {{heap[m].lc, heap[m].rc} : m \in S}) \ {Null})

Reached[S \in SUBSET Cells] == IF WithChildren(S) = S THEN S ELSE Reached[WithChildren(S)]

Under(n) == Reached[{n} \ {Null}]

Elements(n) == UNION {heap[m].es : m \in Under(n)}

Inserted(m, es) == es \union {e \in m : Key(e) \notin KeysOf(es)}
-----------------------------------------------------------------------------
(* An activation: p the pointer it was given, borrowed if extra; es its    *)
(* part of the batch; m the node it will join with; res its result; todo   *)
(* the references decrement_recursive has still to drop before it goes on, *)
(* how many to each node.                                                  *)

NoReferences == [n \in Cells |-> 0]
Reference(p) == [n \in Cells |-> IF n = p THEN 1 ELSE 0]   \* none if p is Null
Plus(a, b) == [n \in Cells |-> a[n] + b[n]]

Idle == [pc |-> "idle", p |-> Null, extra |-> FALSE, es |-> {}, m |-> Null,
         res |-> Null, todo |-> NoReferences]

Entering(n, extra, es) == [Idle EXCEPT !.pc = "enter", !.p = n, !.extra = extra, !.es = es]
Done(n, drops) == [Idle EXCEPT !.pc = "done", !.res = n, !.todo = drops]

Resting(c) == act[c][Top] = Idle

At(c, path, pc) == act[c][path].pc = pc /\ act[c][path].todo = NoReferences

PartWithEqual(es, e, s) == {x \in es : IF s = "l" THEN Key(x) <= Key(e) ELSE Key(e) < Key(x)}
Part(es, e, s) == {x \in es : IF s = "l" THEN Key(x) < Key(e) ELSE Key(e) < Key(x)}

\* The references to n the clients and the nodes of g begin with.
Initially(g, n) ==
  Cardinality({cv \in Clients \X Names : n = IF cv[2] = "x" THEN g.x ELSE g.y})
    + Cardinality({ds \in (DOMAIN g.nodes) \X Sides :
                     n = IF ds[2] = "l" THEN g.nodes[ds[1]].lc ELSE g.nodes[ds[1]].rc})

Init ==
  /\ given \in Given
  /\ heap = [n \in Cells |->
       IF n \notin DOMAIN given.nodes THEN FreeCell
       ELSE [kind |-> given.nodes[n].kind, cnt |-> Initially(given, n),
             lc |-> given.nodes[n].lc, rc |-> given.nodes[n].rc,
             es |-> {<<k, 0>> : k \in given.nodes[n].keys}]]
  /\ root = [c \in Clients |-> [v \in Names |-> IF v = "x" THEN given.x ELSE given.y]]
  /\ act = [c \in Clients |-> [path \in Paths |-> Idle]]
  /\ due = [c \in Clients |-> {}]
  /\ left = given.budget
-----------------------------------------------------------------------------
(* Map variables.                                                          *)

\* y is made a copy of x.
CopyMap(c) ==
  /\ Resting(c)
  /\ root[c]["x"] # Null /\ root[c]["y"] = Null
  /\ heap' = [heap EXCEPT ![root[c]["x"]].cnt = @ + 1]
  /\ root' = [root EXCEPT ![c]["y"] = root[c]["x"]]
  /\ UNCHANGED <<given, act, due, left>>

ClearMap(c, v) ==
  /\ Resting(c)
  /\ root[c][v] # Null
  /\ root' = [root EXCEPT ![c][v] = Null]
  /\ act' = [act EXCEPT ![c][Top].todo = Reference(root[c][v])]
  /\ UNCHANGED <<given, heap, due, left>>

\* One reference: the children of a freed node are dropped next.
DropsNodeOnly(c, path) ==
  \E n \in {m \in Cells : act[c][path].todo[m] > 0} :
    /\ act' = [act EXCEPT ![c][path].todo[n] = @ - 1]
    /\ heap' = IF ref_cnt(n) = 1 THEN [heap EXCEPT ![n] = FreeCell]
                                 ELSE [heap EXCEPT ![n].cnt = @ - 1]

DropReference(c, path) ==
  \E n \in {m \in Cells : act[c][path].todo[m] > 0} :
    LET dropped == [act[c][path].todo EXCEPT ![n] = @ - 1] IN
    \/ /\ ref_cnt(n) = 1
       /\ heap' = [heap EXCEPT ![n] = FreeCell]
       /\ act' = [act EXCEPT ![c][path].todo =
                    Plus(dropped, Plus(Reference(heap[n].lc), Reference(heap[n].rc)))]
    \/ /\ ref_cnt(n) # 1
       /\ heap' = [heap EXCEPT ![n].cnt = @ - 1]
       /\ act' = [act EXCEPT ![c][path].todo = dropped]

Decrement(c, path) ==
  /\ DropReference(c, path)
  /\ UNCHANGED <<given, root, due, left>>

(* Whether x may be moved into a call.  A node that is copied while its    *)
(* tree is consumed lends its children out and drops its own reference, so *)
(* somebody must keep the node for the rest of the call: the caller's own  *)
(* variables (a call that is given a copy leaves x untouched).             *)
MayMove(c) ==
  \A n \in Under(root[c]["x"]) : ref_cnt(n) = 1 \/ n \in Under(root[c]["y"])

\* x = insert(x, batch), or x = insert(std::move(x), batch).
Begin(c) ==
  /\ Resting(c)
  /\ left > 0
  /\ left' = left - 1
  /\ \E K \in given.batches, moved \in BOOLEAN :
       LET es == {<<k, left>> : k \in K}
           x == root[c]["x"]
       IN  /\ moved => MayMove(c)
           /\ act' = [act EXCEPT ![c][Top] = Entering(x, FALSE, es)]
           /\ due' = [due EXCEPT ![c] = {Inserted(Elements(x), es)}]
           /\ UNCHANGED given
           /\ IF moved
              THEN root' = [root EXCEPT ![c]["x"] = Null] /\ UNCHANGED heap
              ELSE /\ heap' = IF x = Null THEN heap ELSE [heap EXCEPT ![x].cnt = @ + 1]
                   /\ UNCHANGED root

\* The move assignment of the result clears what x held.
Return(c) ==
  /\ At(c, Top, "done")
  /\ root' = [root EXCEPT ![c]["x"] = act[c][Top].res]
  /\ act' = [act EXCEPT ![c][Top] = [Idle EXCEPT !.todo = Reference(root[c]["x"])]]
  /\ due' = [due EXCEPT ![c] = {}]
  /\ UNCHANGED <<given, heap, left>>
-----------------------------------------------------------------------------
(* An activation of the insertion.                                         *)

Sets(c, path, a) == act' = [act EXCEPT ![c][path] = a]

\* The count a borrowed pointer raises when it is made an owned one.
Forgets(n, extra) == heap
node_ptr(n, extra) == IF extra THEN [heap EXCEPT ![n].cnt = @ + 1] ELSE heap

\* An empty subtree: the part of the batch is laid out.
BuildPart(c, path) ==
  LET a == act[c][path] IN
  /\ At(c, path, "enter") /\ a.p = Null
  /\ \/ a.es = {} /\ UNCHANGED heap /\ Sets(c, path, Done(Null, NoReferences))
     \/ /\ a.es # {} /\ HasRoom
        /\ heap' = [heap EXCEPT ![Fresh] = Block(a.es)]
        /\ Sets(c, path, Done(Fresh, NoReferences))

\* An empty part: the subtree is shared with the result.
ShareSubtree(c, path) ==
  LET a == act[c][path] IN
  /\ At(c, path, "enter") /\ a.p # Null /\ a.es = {}
  /\ heap' = node_ptr(a.p, a.extra)
  /\ Sets(c, path, Done(a.p, NoReferences))

\* The flat case owns the subtree while it reads it, then drops it.
EnterFlat(c, path) ==
  LET a == act[c][path] IN
  /\ At(c, path, "enter") /\ a.p # Null /\ a.es # {}
  /\ heap' = node_ptr(a.p, a.extra)
  /\ Sets(c, path, [a EXCEPT !.pc = "flat", !.extra = FALSE])

MergeFlat(c, path) ==
  LET a == act[c][path] IN
  /\ At(c, path, "flat") /\ HasRoom
  /\ heap' = [heap EXCEPT ![Fresh] = Block(Inserted(Elements(a.p), a.es))]
  /\ Sets(c, path, Done(Fresh, Reference(a.p)))

ReusesBorrowed(n, extra) == ref_cnt(n) > 1
RequiresCopy(n, extra) == extra \/ ref_cnt(n) > 1

\* expose: a node that is not copied is taken over with its children; one
\* that is copied lends its children out and is dropped if it was owned.
Expose(c, path) ==
  LET a == act[c][path]
      copy == RequiresCopy(a.p, a.extra)
      Lent(s) == Entering(Child(a.p, s), copy, Part(a.es, get_entry(a.p), s))
  IN  /\ At(c, path, "enter") /\ a.p # Null /\ a.es # {} /\ is_regular(a.p)
      /\ Len(path) < MaxDepth
      /\ act' = [act EXCEPT
           ![c][path] = IF copy
             THEN [a EXCEPT !.pc = "single", !.extra = TRUE,
                            !.todo = IF a.extra THEN NoReferences ELSE Reference(a.p)]
             ELSE [a EXCEPT !.pc = "fork", !.p = Null, !.m = a.p],
           ![c][Side(path, "l")] = [Lent("l") EXCEPT !.pc = IF copy THEN "held" ELSE "enter"],
           ![c][Side(path, "r")] = [Lent("r") EXCEPT !.pc = IF copy THEN "held" ELSE "enter"]]
      /\ UNCHANGED heap

\* The copied node's entry is read through a reference into it.
Single(c, path) ==
  LET a == act[c][path] IN
  /\ At(c, path, "single") /\ HasRoom
  /\ heap' = [heap EXCEPT ![Fresh] = Regular(get_entry(a.p), Null, Null)]
  /\ act' = [act EXCEPT
       ![c][path] = [a EXCEPT !.pc = "fork", !.p = Null, !.extra = FALSE, !.m = Fresh],
       ![c][Side(path, "l")].pc = "enter",
       ![c][Side(path, "r")].pc = "enter"]
-----------------------------------------------------------------------------
(* node_join of the branches' results with m.                              *)

Joined(c, path) ==
  /\ At(c, path, "fork")
  /\ At(c, Side(path, "l"), "done") /\ At(c, Side(path, "r"), "done")

\* m's entry, combined with an equal one of the batch.
EntryOf(a) == CHOOSE e \in Inserted(heap[a.m].es, a.es) : Key(e) = Key(get_entry(a.m))

Result(c, path, s) == act[c][Side(path, s)].res

\* The activation has its result and its branches are gone.
Finish(c, path, n, drops) ==
  act' = [act EXCEPT ![c][path] = Done(n, drops),
                     ![c][Side(path, "l")] = Idle,
                     ![c][Side(path, "r")] = Idle]

\* Balanced: the results become m's children.
Link(c, path) ==
  LET m == act[c][path].m IN
  /\ Joined(c, path)
  /\ heap' = [heap EXCEPT ![m].es = {EntryOf(act[c][path])},
                          ![m].lc = Result(c, path, "l"),
                          ![m].rc = Result(c, path, "r")]
  /\ Finish(c, path, m, NoReferences)

\* make_compressed: the results are gathered in a block and dropped, m goes.
Gather(c, path) ==
  LET m == act[c][path].m
      l == Result(c, path, "l")
      r == Result(c, path, "r")
  IN  /\ Joined(c, path) /\ HasRoom
      /\ heap' = [heap EXCEPT
           ![m] = FreeCell,
           ![Fresh] = Block(Elements(l) \union {EntryOf(act[c][path])} \union Elements(r))]
      /\ Finish(c, path, Fresh, Plus(Reference(l), Reference(r)))

\* right_join and left_join go down the spine of the heavy result, whose top
\* copy_if_needed copies when its count is above one.
Heavy(c, path, s) ==
  LET t == Result(c, path, s) IN
  /\ Joined(c, path)
  /\ t # Null /\ is_regular(t)
  /\ Sets(c, path, [act[c][path] EXCEPT
       !.pc = IF ref_cnt(t) > 1 THEN (IF s = "l" THEN "copy_l" ELSE "copy_r")
                                ELSE (IF s = "l" THEN "spine_l" ELSE "spine_r")])
  /\ UNCHANGED heap

CopySpine(c, path, s) ==
  LET t == Result(c, path, s)
      o == Regular(get_entry(t), heap[t].lc, heap[t].rc)
  IN  /\ At(c, path, IF s = "l" THEN "copy_l" ELSE "copy_r") /\ HasRoom
      /\ heap' = [n \in Cells |->
           IF n = Fresh THEN o
           ELSE [heap[n] EXCEPT !.cnt = @ + Plus(Reference(heap[t].lc), Reference(heap[t].rc))[n]]]
      /\ act' = [act EXCEPT
           ![c][path].pc = IF s = "l" THEN "spine_l" ELSE "spine_r",
           ![c][path].todo = Reference(t),
           ![c][Side(path, s)].res = Fresh]

\* m takes the inner child of the spine and the other result, and its place.
Spine(c, path, s) ==
  LET m == act[c][path].m
      t == Result(c, path, s)
      l == IF s = "l" THEN heap[t].rc ELSE Result(c, path, "l")
      r == IF s = "l" THEN Result(c, path, "r") ELSE heap[t].lc
  IN  /\ At(c, path, IF s = "l" THEN "spine_l" ELSE "spine_r")
      /\ heap' = [heap EXCEPT ![m].es = {EntryOf(act[c][path])}, ![m].lc = l, ![m].rc = r,
                              ![t].lc = IF s = "l" THEN @ ELSE m,
                              ![t].rc = IF s = "l" THEN m ELSE @]
      /\ Finish(c, path, t, NoReferences)

Work(c, path) ==
  /\ \/ BuildPart(c, path)
     \/ ShareSubtree(c, path)
     \/ EnterFlat(c, path)
     \/ MergeFlat(c, path)
     \/ Expose(c, path)
     \/ Single(c, path)
     \/ Link(c, path)
     \/ Gather(c, path)
     \/ \E s \in Sides : Heavy(c, path, s) \/ CopySpine(c, path, s) \/ Spine(c, path, s)
  /\ UNCHANGED <<given, root, due, left>>

Next ==
  \E c \in Clients :
    \/ CopyMap(c)
    \/ \E v \in Names : ClearMap(c, v)
    \/ Begin(c)
    \/ Return(c)
    \/ \E path \in Paths : Decrement(c, path) \/ Work(c, path)

Spec == Init /\ [][Next]_vars
-----------------------------------------------------------------------------
Kinds == {"free", "block", "regular"}
PCs == {"idle", "held", "enter", "flat", "single", "fork", "copy_l", "copy_r",
        "spine_l", "spine_r", "done"}
Values == 0..MaxCalls
Contents == SUBSET (Nat \X Values)

TypeOK ==
  /\ heap \in [Cells -> [kind : Kinds, cnt : Nat, lc : Pointers, rc : Pointers, es : Contents]]
  /\ root \in [Clients -> [Names -> Pointers]]
  /\ act \in [Clients -> [Paths -> [pc : PCs, p : Pointers, extra : BOOLEAN, es : Contents,
                                    m : Pointers, res : Pointers, todo : [Cells -> Nat]]]]
  /\ due \in [Clients -> SUBSET Contents]
  /\ given \in Given
  /\ left \in 0..MaxCalls

\* The program counters at which an activation has a node to join with.
Joining == {"fork", "copy_l", "copy_r", "spine_l", "spine_r"}

\* What an activation owns and borrows.
Owns(a, n) ==
  \/ a.pc \in {"held", "enter", "flat"} /\ ~a.extra /\ a.p = n
  \/ a.pc \in Joining /\ a.m = n
  \/ a.pc = "done" /\ a.res = n
Borrows(a, n) == a.pc \in {"held", "enter", "single"} /\ a.extra /\ a.p = n

\* The nodes whose children belong to activations: their fields are stale.
Hollow == {m \in Cells : \E c \in Clients, path \in Paths :
                           act[c][path].pc \in Joining /\ act[c][path].m = m}

Variables(n) == {cv \in Clients \X Names : root[cv[1]][cv[2]] = n}
Fields(n) == {ds \in (Cells \ Hollow) \X Sides : is_regular(ds[1]) /\ Child(ds[1], ds[2]) = n}
Owners(n) == {cp \in Clients \X Paths : Owns(act[cp[1]][cp[2]], n)}
Drops(n) == UNION {{cp} \X (1..act[cp[1]][cp[2]].todo[n]) : cp \in Clients \X Paths}

(* The count of every node is the number of references to it, at every     *)
(* moment: parallel branches, copies and releases lose no update, so no    *)
(* node leaks and none is freed while somebody owns a reference to it      *)
(* (basic_node.h:253-291).                                                 *)
CountIsExact ==
  \A n \in Cells :
    /\ ref_cnt(n) = Cardinality(Variables(n)) + Cardinality(Fields(n))
                      + Cardinality(Owners(n)) + Cardinality(Drops(n))
    /\ heap[n].kind = "free" <=> ref_cnt(n) = 0

(* A borrowed pointer, which raises no count, never outlives the reference *)
(* that keeps its node alive (the ptr with an extra flag, gc.h:131-194).   *)
BorrowedIsAlive ==
  \A c \in Clients, path \in Paths, n \in Cells :
    Borrows(act[c][path], n) => heap[n].kind # "free"

(* Every tree is a search tree at every moment, whichever mixture of flat, *)
(* copied, reused and relinked parts it was made of: what is left of a     *)
(* node's entry is smaller, what is right of it greater (the split of the  *)
(* batch, map_ops.h:1082-1095, and node_join, balance_utils.h:119-146).    *)
TreesAreOrdered ==
  \A n \in Cells \ Hollow : is_regular(n) =>
    /\ \A e \in Elements(heap[n].lc) : Key(e) < Key(get_entry(n))
    /\ \A e \in Elements(heap[n].rc) : Key(get_entry(n)) < Key(e)

\* What every variable holds stays, unless the variable is assigned.
Persists ==
  \A c \in Clients, v \in Names :
    root'[c][v] = root[c][v] => Elements(root[c][v])' = Elements(root[c][v])

(* No step of a call, of whichever client, changes the contents of a map   *)
(* that a variable holds, though nodes are reused in place, copied, shared *)
(* and freed all the time: a map changes only when its client assigns it   *)
(* (expose and copy_if_needed, sequence_ops.h:65-77, gc.h:59-83).          *)
MapsArePersistent == [][Persists]_vars

\* What calls insert: the keys of a batch, with the value of the call.
Inserts == {{<<k, i>> : k \in K} : K \in UNION {g.batches : g \in Given}, i \in 1..MaxCalls}

Maps == INSTANCE PersistentMaps
  WITH map <- [c \in Clients |-> [v \in Names |-> Elements(root[c][v])]],
       call <- due, Batches <- Inserts

(* Nodes that are reused in place, copied or shared never show: the        *)
(* contents of every variable of every client change only by its own       *)
(* client's assignments, and a call returns the value it was to compute    *)
(* ("purely functional", while the nodes are not).                         *)
ImplementsMaps == Maps!Spec
=============================================================================
