--------------------------- MODULE NodeHeapMapsProofs ---------------------------
(***************************************************************************)
(* NodeHeap implements PersistentMaps, and its trees are search trees at   *)
(* every moment: for any clients, any number of nodes and any search trees *)
(* to start with.  What an activation is going to return is fixed when it  *)
(* is given its subtree and its part of the batch; every step leaves that  *)
(* as it is, for the activation and for all others.                        *)
(***************************************************************************)
EXTENDS NodeHeapProofs

\* What an activation that has not begun to join makes of its subtree.
Pending(a) == Inserted(Elements(a.p), a.es)

Smaller(S, e) == \A x \in S : Key(x) < Key(e)
Greater(S, e) == \A x \in S : Key(e) < Key(x)

Sorted(n) == /\ Smaller(Elements(heap[n].lc), get_entry(n))
             /\ Greater(Elements(heap[n].rc), get_entry(n))

\* A batch has one element of a key.
Distinct(es) == \A x, y \in es : Key(x) = Key(y) => x = y

\* What every activation is going to return.
Outcomes == [Clients -> [Paths -> Contents]]

\* W[c][path] is what the activation is going to return, from its subtree
\* and its part of the batch, or from what its branches return.
Gives(W, c, path) ==
  LET a == act[c][path]
      l == Side(path, "l")
      r == Side(path, "r")
  IN  /\ Distinct(a.es)
      /\ a.pc \in {"held", "enter", "flat", "single"} => W[c][path] = Pending(a)
      /\ a.pc = "single" =>
           \A s \in Sides : /\ act[c][Side(path, s)].p = Child(a.p, s)
                            /\ act[c][Side(path, s)].es = Part(a.es, get_entry(a.p), s)
      /\ a.pc \in Joining =>
           /\ W[c][path] = W[c][l] \union {EntryOf(a)} \union W[c][r]
           /\ Smaller(W[c][l], get_entry(a.m))
           /\ Greater(W[c][r], get_entry(a.m))
      /\ a.pc = "done" => W[c][path] = Elements(a.res)

\* The call of c is due what its first activation is going to return.
Owes(W, c) == due[c] = IF act[c][Top].pc = "idle" THEN {} ELSE {W[c][Top]}

Promises(W) == \A c \in Clients : Owes(W, c) /\ \A path \in Paths : Gives(W, c, path)

\* What is added to IInv to see what the calls compute.
MInv == TreesAreOrdered /\ \E W \in Outcomes : Promises(W)
-----------------------------------------------------------------------------
(* Elements of trees, and batches cut at an entry.                         *)

\* The elements of a tree are its node's and those of its children's.
ElementsSplit ==
  /\ Elements(Null) = {}
  /\ \A n \in Cells, l, r \in Pointers :
       heap[n].lc = l /\ heap[n].rc = r =>
         Elements(n) = heap[n].es \union Elements(l) \union Elements(r)

(* That is so in every heap.                                               *)
LEMMA ElementsFacts == HeapClosed => ElementsSplit
<1> SUFFICES ASSUME HeapClosed PROVE ElementsSplit
  OBVIOUS
<1>0. Null \notin Cells /\ Null \in Pointers /\ Cells \subseteq Pointers
  BY BoundsAssumption DEF Cells, Null, Pointers
<1>1. Under(Null) = {}
  <2>1. {} \in SUBSET Cells /\ IsClosed({}) /\ Null \in {} \union {Null}
    BY DEF IsClosed
  <2> QED BY <1>0, <2>1, UnderFacts DEF UnderIsLeast
<1>2. ASSUME NEW n \in Cells, NEW l \in Pointers, NEW r \in Pointers, heap[n].lc = l, heap[n].rc = r
      PROVE  Under(n) = {n} \union Under(l) \union Under(r)
  <2>1. PICK N \in SUBSET Cells : N = Under(n)
    BY <1>0, UnderFacts DEF UnderIsLeast
  <2>2. PICK L \in SUBSET Cells : L = Under(l)
    BY UnderFacts DEF UnderIsLeast
  <2>3. PICK R \in SUBSET Cells : R = Under(r)
    BY UnderFacts DEF UnderIsLeast
  <2>4. n \in N /\ IsClosed(N)
    BY <1>0, <2>1, UnderFacts DEF UnderIsLeast
  <2>5. IsClosed(L) /\ l \in L \union {Null} /\ IsClosed(R) /\ r \in R \union {Null}
    BY <2>2, <2>3, UnderFacts DEF UnderIsLeast
  <2>6. l \in N \union {Null} /\ r \in N \union {Null}
    BY <1>2, <2>4 DEF IsClosed
  <2>7. L \subseteq N /\ R \subseteq N
    BY <2>2, <2>3, <2>4, <2>6, UnderFacts DEF UnderIsLeast
  <2>8. IsClosed({n} \union L \union R)
    BY <1>2, <2>5 DEF IsClosed
  <2>9. N \subseteq {n} \union L \union R
    <3>1. {n} \union L \union R \in SUBSET Cells /\ n \in ({n} \union L \union R) \union {Null}
      OBVIOUS
    <3> QED BY <1>0, <2>1, <2>8, <3>1, UnderFacts DEF UnderIsLeast
  <2> QED BY <2>1, <2>2, <2>3, <2>4, <2>7, <2>9
<1>3. Elements(Null) = {}
  BY <1>1 DEF Elements
<1>4. ASSUME NEW n \in Cells, NEW l \in Pointers, NEW r \in Pointers, heap[n].lc = l, heap[n].rc = r
      PROVE  Elements(n) = heap[n].es \union Elements(l) \union Elements(r)
  <2>1. PICK N, L, R : N = Under(n) /\ L = Under(l) /\ R = Under(r)
    OBVIOUS
  <2>2. N = {n} \union L \union R
    BY <1>2, <1>4, <2>1
  <2>3. /\ Elements(n) = UNION {heap[m].es : m \in N}
        /\ Elements(l) = UNION {heap[m].es : m \in L}
        /\ Elements(r) = UNION {heap[m].es : m \in R}
    BY <2>1 DEF Elements
  <2> QED BY <2>2, <2>3
<1> QED BY <1>3, <1>4 DEF ElementsSplit

(* And in the next heap.                                                   *)
LEMMA ElementsFactsNext == TypeOK' => ElementsSplit'
<1>1. TypeOK => HeapClosed
  BY TypeFacts
<1> QED BY <1>1, ElementsFacts, PTL

(* The elements of one tree of the next heap.                              *)
LEMMA ElementsNext ==
  ASSUME TypeOK', NEW n \in Cells, NEW l \in Pointers, NEW r \in Pointers,
         heap'[n].lc = l, heap'[n].rc = r
  PROVE  Elements(n)' = heap'[n].es \union Elements(l)' \union Elements(r)' /\ Elements(Null)' = {}
<1>1. ElementsSplit'
  BY ElementsFactsNext
<1>2. Elements(Null)' = {}
  BY <1>1 DEF ElementsSplit
<1>3. \A k \in Cells, i, j \in Pointers :
        heap'[k].lc = i /\ heap'[k].rc = j =>
          Elements(k)' = heap'[k].es \union Elements(i)' \union Elements(j)'
  BY <1>1 DEF ElementsSplit
<1> QED BY <1>2, <1>3

(* A batch inserted into a node and its subtrees is cut at the node's      *)
(* entry; each part goes to its side, an equal element into the node.      *)
LEMMA SplitInsert ==
  ASSUME NEW es \in Contents, Distinct(es), NEW e \in Nat \X Values,
         NEW L \in Contents, NEW R \in Contents, Smaller(L, e), Greater(R, e),
         NEW x \in Inserted({e}, es), Key(x) = Key(e)
  PROVE  LET l == Inserted(L, Part(es, e, "l"))
             r == Inserted(R, Part(es, e, "r"))
         IN  /\ Inserted({e} \union L \union R, es) = l \union {x} \union r
             /\ Smaller(l, e) /\ Greater(r, e)
             /\ Distinct(Part(es, e, "l")) /\ Distinct(Part(es, e, "r"))
<1> DEFINE p == Part(es, e, "l")
           q == Part(es, e, "r")
           l == Inserted(L, p)
           r == Inserted(R, q)
           E == {e} \union L \union R
<1>1. /\ \A z \in es \union E : Key(z) \in Nat
      /\ es \subseteq Nat \X Values
  BY DEF Contents, Key
<1>2. /\ p = {z \in es : Key(z) < Key(e)}
      /\ q = {z \in es : Key(e) < Key(z)}
  BY DEF Part
<1>3. \A m, b, z : z \in Inserted(m, b) <=> z \in b \/ (z \in m /\ \A y \in b : Key(y) # Key(z))
  BY DEF Inserted, KeysOf
<1>4. x \in es \/ (x = e /\ \A y \in es : Key(y) # Key(e))
  BY <1>3
<1>5. Smaller(l, e) /\ Greater(r, e)
  BY <1>2, <1>3 DEF Smaller, Greater
<1>6. ASSUME NEW z \in Inserted(E, es) PROVE z \in l \union {x} \union r
  <2>1. Key(z) \in Nat /\ Key(e) \in Nat
    BY <1>1, <1>3
  <2>2. CASE z \in es
    <3>1. CASE Key(z) = Key(e)
      <4>1. x \in es
        BY <1>4, <2>2, <3>1
      <4> QED BY <2>2, <3>1, <4>1 DEF Distinct
    <3>2. CASE Key(z) # Key(e)
      <4>1. z \in p \/ z \in q
        BY <1>2, <2>1, <2>2, <3>2
      <4> QED BY <1>3, <4>1
    <3> QED BY <3>1, <3>2
  <2>3. CASE z \in E /\ \A y \in es : Key(y) # Key(z)
    <3>1. CASE z = e
      BY <1>4, <2>3, <3>1
    <3>2. CASE z \in L
      BY <1>2, <1>3, <2>3, <3>2
    <3>3. CASE z \in R
      BY <1>2, <1>3, <2>3, <3>3
    <3> QED BY <2>3, <3>1, <3>2, <3>3
  <2> QED BY <1>3, <2>2, <2>3
<1>7. ASSUME NEW z \in l \union {x} \union r PROVE z \in Inserted(E, es)
  <2>1. CASE z = x
    BY <1>3, <1>4, <2>1
  <2>2. CASE z \in es
    BY <1>3, <2>2
  <2>3. CASE z \in L /\ \A y \in p : Key(y) # Key(z)
    <3>1. Key(z) < Key(e) /\ Key(z) \in Nat
      BY <1>1, <2>3 DEF Smaller
    <3>2. \A y \in es : Key(y) # Key(z)
      BY <1>1, <1>2, <2>3, <3>1
    <3> QED BY <1>3, <2>3, <3>2
  <2>4. CASE z \in R /\ \A y \in q : Key(y) # Key(z)
    <3>1. Key(e) < Key(z) /\ Key(z) \in Nat
      BY <1>1, <2>4 DEF Greater
    <3>2. \A y \in es : Key(y) # Key(z)
      BY <1>1, <1>2, <2>4, <3>1
    <3> QED BY <1>3, <2>4, <3>2
  <2>5. z = x \/ z \in es \/ (z \in L /\ \A y \in p : Key(y) # Key(z))
              \/ (z \in R /\ \A y \in q : Key(y) # Key(z))
    BY <1>2, <1>3
  <2> QED BY <2>1, <2>2, <2>3, <2>4, <2>5
<1>8. Inserted(E, es) = l \union {x} \union r
  BY <1>6, <1>7
<1>9. Distinct(p) /\ Distinct(q)
  BY <1>2 DEF Distinct
<1> QED BY <1>5, <1>8, <1>9
-----------------------------------------------------------------------------
(* What a step leaves as it is.                                            *)

\* The node is what it was, but for its count.
Stays(n) ==
  /\ heap'[n].kind = heap[n].kind /\ heap'[n].es = heap[n].es
  /\ heap'[n].lc = heap[n].lc /\ heap'[n].rc = heap[n].rc

\* Only nodes that nobody but the activations P of c refers to change.
Local(c, P) == \A n \in Cells : ~Unshared(c, P, n) => Stays(n)

\* The activation goes on, but for the references it has still to drop.
Same(a, b) ==
  /\ b.pc = a.pc /\ b.p = a.p /\ b.extra = a.extra
  /\ b.es = a.es /\ b.m = a.m /\ b.res = a.res

\* Somebody outside P refers to p, if p is a node.
Referred(c, P, p) == p \notin Hollow /\ (p # Null => ~Unshared(c, P, p))

(* What is under a pointer that others have stays.                         *)
LEMMA ReferredStays ==
  ASSUME Base, TypeOK', NEW c \in Clients, NEW P \in SUBSET Paths, Local(c, P),
         NEW p \in Pointers, Referred(c, P, p)
  PROVE  Elements(p)' = Elements(p)
<1>1. HeapClosed /\ HeapClosed'
  BY TypeFacts DEF Base, TypeOK, HeapClosed
<1>2. PICK U \in SUBSET Cells : U = Under(p)
  BY <1>1, UnderFacts DEF UnderIsLeast
<1>3. \A n \in U : n = p \/ \E d \in U, s \in Sides : Field(d, s) = n
  BY <1>2, SolidUnder DEF Referred
<1>4. ASSUME NEW n \in U PROVE Stays(n)
  <2>1. n # Null
    BY TypeFacts DEF Base
  <2>2. ~Unshared(c, P, n)
    BY <1>3, <2>1 DEF Unshared, Referred
  <2> QED BY <2>2 DEF Local
<1>5. Under(p)' = Under(p)
  BY <1>1, <1>2, <1>4, UnderStays DEF Stays
<1> QED BY <1>2, <1>4, <1>5 DEF Elements, Stays

(* The children of a node that is not hollow are referred to by it.        *)
LEMMA ChildIsReferred ==
  ASSUME Base, NEW c \in Clients, NEW P \in SUBSET Paths, NEW n \in Cells \ Hollow, NEW s \in Sides
  PROVE  Child(n, s) \in Pointers /\ Referred(c, P, Child(n, s))
<1>1. Field(n, s) = Child(n, s) /\ Child(n, s) \in Pointers
  BY FieldIsChild, TypeFacts DEF Base
<1>2. Child(n, s) \notin Hollow
  BY <1>1, HollowFacts
<1>3. ~Unshared(c, P, Child(n, s))
  BY <1>1 DEF Unshared
<1> QED BY <1>1, <1>2, <1>3 DEF Referred

(* So are the trees of the variables.                                      *)
LEMMA RootIsReferred ==
  ASSUME Base, NEW c \in Clients, NEW P \in SUBSET Paths, NEW d \in Clients, NEW v \in Names
  PROVE  root[d][v] \in Pointers /\ Referred(c, P, root[d][v])
BY HollowFacts, TypeFacts DEF Referred, Unshared, Base

(* A node that is kept is referred to by a variable or by another.         *)
LEMMA KeptIsReferred ==
  ASSUME Base, NEW c \in Clients, NEW P \in SUBSET Paths, NEW d \in Clients, NEW n \in Kept(d)
  PROVE  Referred(c, P, n)
<1>1. n \in Cells /\ n \notin Hollow
  BY KeptFacts
<1>2. (\E v \in Names : root[d][v] = n) \/ (\E e \in Cells, s \in Sides : Field(e, s) = n)
  BY KeptFacts
<1> QED BY <1>1, <1>2 DEF Referred, Unshared

(* So is what an activation outside P works on or has made.                *)
LEMMA OutsideIsReferred ==
  ASSUME IInv, NEW c \in Clients, NEW P \in SUBSET Paths,
         NEW d \in Clients, NEW q \in Paths, d # c \/ q \notin P
  PROVE  /\ act[d][q].pc \in {"held", "enter", "flat", "single"} => Referred(c, P, act[d][q].p)
         /\ act[d][q].pc = "done" => Referred(c, P, act[d][q].res)
         /\ act[d][q].pc \in Joining => ~Unshared(c, P, act[d][q].m) /\ act[d][q].m \in Cells
<1> DEFINE a == act[d][q]
<1>1. Base /\ a.p \in Pointers /\ a.res \in Pointers /\ a.m \in Pointers /\ a.extra \in BOOLEAN
      /\ Null \notin Cells /\ Holding(d, q) /\ Borrowing(d, q)
  BY BaseOfIInv, TypeFacts DEF IInv
<1>2. ASSUME NEW n \in Cells, Owned(a) = n PROVE ~Unshared(c, P, n)
  BY <1>2 DEF Unshared
<1>3. ASSUME NEW n \in Cells, Owned(a) = n, a.pc \notin Joining PROVE Referred(c, P, n)
  <2>1. n \notin Hollow
    BY <1>1, <1>3, HollowFacts
  <2> QED BY <1>2, <1>3, <2>1 DEF Referred
<1>4. Referred(c, P, Null)
  BY <1>1 DEF Referred, Hollow
<1>5. ASSUME a.pc \in {"held", "enter", "flat", "single"} PROVE Referred(c, P, a.p)
  <2>1. CASE a.p = Null
    BY <1>4, <2>1
  <2>2. CASE a.p \in Cells /\ a.extra
    <3>1. a.pc # "flat"
      BY <1>1, <2>2 DEF Holding
    <3>2. a.p \in Kept(d)
      BY <1>1, <1>5, <2>2, <3>1 DEF Borrowing, Borrows
    <3> QED BY <1>1, <3>2, KeptIsReferred
  <2>3. CASE a.p \in Cells /\ ~a.extra
    <3>1. a.pc # "single"
      BY <1>1, <2>3 DEF Holding
    <3>2. Owned(a) = a.p /\ a.pc \notin Joining
      BY <1>5, <2>3, <3>1 DEF Owned, Joining
    <3> QED BY <1>3, <2>3, <3>2
  <2> QED BY <1>1, <2>1, <2>2, <2>3 DEF Pointers
<1>6. ASSUME a.pc = "done" PROVE Referred(c, P, a.res)
  <2>1. Owned(a) = a.res /\ a.pc \notin Joining
    BY <1>6 DEF Owned, Joining
  <2> QED BY <1>1, <1>3, <1>4, <2>1 DEF Pointers
<1>7. ASSUME a.pc \in Joining PROVE ~Unshared(c, P, a.m) /\ a.m \in Cells
  <2>1. Owned(a) = a.m /\ a.m # Null
    BY <1>1, <1>7 DEF Owned, Joining, Holding
  <2> QED BY <1>1, <1>2, <2>1 DEF Pointers
<1> QED BY <1>5, <1>6, <1>7

(* What is under any pointer stays when all nodes do.                      *)
LEMMA AllStay ==
  ASSUME TypeOK, TypeOK', \A n \in Cells : Stays(n), NEW p \in Pointers
  PROVE  Elements(p)' = Elements(p)
<1>1. HeapClosed /\ HeapClosed'
  BY TypeFacts DEF TypeOK, HeapClosed
<1>2. PICK U \in SUBSET Cells : U = Under(p)
  BY <1>1, UnderFacts DEF UnderIsLeast
<1>3. \A n \in U : Stays(n)
  OBVIOUS
<1>4. Under(p)' = Under(p)
  BY <1>1, <1>2, <1>3, UnderStays DEF Stays
<1> QED BY <1>2, <1>3, <1>4 DEF Elements, Stays

(* A node that others refer to stays sorted.                               *)
LEMMA OrderStays ==
  ASSUME Base, TypeOK', NEW c \in Clients, NEW P \in SUBSET Paths, Local(c, P),
         NEW n \in Cells \ Hollow, Stays(n), Sorted(n)
  PROVE  Sorted(n)'
<1>1. PICK l \in Pointers, r \in Pointers : l = heap[n].lc /\ r = heap[n].rc
  BY TypeFacts DEF Base, HeapClosed
<1>2. l = Child(n, "l") /\ r = Child(n, "r") /\ "l" \in Sides /\ "r" \in Sides
  BY <1>1 DEF Child, Sides
<1>3. Referred(c, P, l) /\ Referred(c, P, r)
  BY <1>2, ChildIsReferred
<1>4. Elements(l)' = Elements(l) /\ Elements(r)' = Elements(r)
  BY <1>3, ReferredStays
<1>5. Smaller(Elements(l), get_entry(n)) /\ Greater(Elements(r), get_entry(n))
  BY <1>1 DEF Sorted
<1>6. get_entry(n)' = get_entry(n)
  BY DEF get_entry, Stays
<1>7. Smaller(Elements(l)', get_entry(n)') /\ Greater(Elements(r)', get_entry(n)')
  BY <1>4, <1>5, <1>6
<1>8. heap'[n].lc = l /\ heap'[n].rc = r
  BY <1>1 DEF Stays
<1> QED BY <1>7, <1>8 DEF Sorted, Smaller, Greater, Elements

\* Its own and its branches' outcomes are those of before.
Agree(V, W, d, q) ==
  V[d][q] = W[d][q] /\ \A s \in Sides : Len(q) < MaxDepth => V[d][Side(q, s)] = W[d][Side(q, s)]

(* What activations outside P are going to return stays.                   *)
LEMMA GivesStays ==
  ASSUME IInv, TypeOK', NEW c \in Clients, NEW P \in SUBSET Paths, Local(c, P),
         NEW d \in Clients, NEW q \in Paths, d # c \/ q \notin P,
         Same(act[d][q], act'[d][q]),
         act[d][q].pc = "single" =>
           \A s \in Sides : Same(act[d][Side(q, s)], act'[d][Side(q, s)]),
         NEW V, NEW W, Agree(V, W, d, q), Gives(W, d, q)
  PROVE  Gives(V, d, q)'
<1> DEFINE a == act[d][q]
<1>1. /\ Base /\ Holding(d, q)
      /\ a.p \in Pointers /\ a.res \in Pointers /\ a.m \in Pointers
  BY BaseOfIInv, TypeFacts DEF IInv
<1>2. PICK p \in Pointers, r \in Pointers, m \in Pointers : p = a.p /\ r = a.res /\ m = a.m
  BY <1>1
<1>3. /\ act'[d][q].pc = a.pc /\ act'[d][q].p = p /\ act'[d][q].es = a.es
      /\ act'[d][q].m = m /\ act'[d][q].res = r
  BY <1>2 DEF Same
<1>4. a.pc \in {"held", "enter", "flat", "single"} => Elements(p)' = Elements(p)
  BY <1>1, <1>2, OutsideIsReferred, ReferredStays
<1>5. a.pc = "done" => Elements(r)' = Elements(r)
  BY <1>1, <1>2, OutsideIsReferred, ReferredStays
<1>6. a.pc \in Joining => Stays(m)
  BY <1>2, OutsideIsReferred DEF Local
<1>7. a.pc = "single" => Stays(p)
  <2>1. SUFFICES ASSUME a.pc = "single" PROVE Stays(p)
    OBVIOUS
  <2>2. p \in Cells
    BY <1>1, <1>2, <2>1 DEF Holding, Pointers
  <2>3. p # Null
    BY <2>2, TypeFacts DEF IInv
  <2>4. Referred(c, P, p)
    BY <1>2, <2>1, OutsideIsReferred
  <2> QED BY <2>2, <2>3, <2>4 DEF Local, Referred
<1>8. ASSUME a.pc \in {"held", "enter", "flat", "single"}
      PROVE  V[d][q] = Pending(act[d][q])'
  <2>1. W[d][q] = Inserted(Elements(p), a.es)
    BY <1>2, <1>8 DEF Gives, Pending
  <2>2. V[d][q] = Inserted(Elements(p)', a.es)
    BY <1>4, <1>8, <2>1 DEF Agree
  <2> QED BY <1>3, <2>2 DEF Pending, Elements
<1>9. ASSUME a.pc = "single", NEW s \in Sides
      PROVE  /\ act'[d][Side(q, s)].p = Child(act[d][q].p, s)'
             /\ act'[d][Side(q, s)].es = Part(act'[d][q].es, get_entry(act[d][q].p)', s)
  <2>1. /\ act[d][Side(q, s)].p = Child(p, s)
        /\ act[d][Side(q, s)].es = Part(a.es, get_entry(p), s)
    BY <1>2, <1>9 DEF Gives
  <2>2. /\ act'[d][Side(q, s)].p = act[d][Side(q, s)].p
        /\ act'[d][Side(q, s)].es = act[d][Side(q, s)].es
    BY <1>9 DEF Same
  <2>3. Child(p, s)' = Child(p, s) /\ get_entry(p)' = get_entry(p)
    BY <1>7, <1>9 DEF Stays, Child, get_entry
  <2> QED BY <1>3, <2>1, <2>2, <2>3 DEF Child, get_entry
<1>10. ASSUME a.pc \in Joining
       PROVE  /\ V[d][q] = V[d][Side(q, "l")] \union {EntryOf(act[d][q])'} \union V[d][Side(q, "r")]
              /\ Smaller(V[d][Side(q, "l")], get_entry(act[d][q].m)')
              /\ Greater(V[d][Side(q, "r")], get_entry(act[d][q].m)')
  <2>1. /\ W[d][q] = W[d][Side(q, "l")] \union {EntryOf(a)} \union W[d][Side(q, "r")]
        /\ Smaller(W[d][Side(q, "l")], get_entry(m)) /\ Greater(W[d][Side(q, "r")], get_entry(m))
    BY <1>2, <1>10 DEF Gives
  <2>2. /\ V[d][q] = W[d][q] /\ V[d][Side(q, "l")] = W[d][Side(q, "l")]
        /\ V[d][Side(q, "r")] = W[d][Side(q, "r")]
    BY <1>1, <1>10 DEF Agree, Holding, Sides
  <2>3. get_entry(act[d][q].m)' = get_entry(m)
    BY <1>3, <1>6, <1>10 DEF Stays, get_entry
  <2>4. EntryOf(act[d][q])' = EntryOf(act[d][q])
    BY <1>2, <1>3, <1>6, <1>10, <2>3 DEF EntryOf, Stays
  <2> QED BY <2>1, <2>2, <2>3, <2>4
<1>11. a.pc = "done" => V[d][q] = Elements(act[d][q].res)'
  <2>1. a.pc = "done" => V[d][q] = Elements(r)'
    BY <1>2, <1>5 DEF Gives, Agree
  <2> QED BY <1>3, <2>1 DEF Elements
<1>12. Distinct(act'[d][q].es)
  BY <1>3 DEF Gives
<1> QED BY <1>3, <1>8, <1>9, <1>10, <1>11, <1>12 DEF Gives

(* A step of some activations that leaves what they, and their clients,    *)
(* are going to return, and sorts the nodes it changes, keeps the          *)
(* invariant.                                                              *)
LEMMA MapsStep ==
  ASSUME IInv, TypeOK', TreesAreOrdered,
         NEW W \in Outcomes, Promises(W), NEW V \in Outcomes,
         NEW c \in Clients, NEW path \in Paths, NEW P \in SUBSET Family(path), Local(c, P),
         P = {} \/ (path \in P /\ (path = Top \/ act[c][path].pc # "held")),
         \A d \in Clients, q \in Paths :
           d # c \/ q \notin P => Same(act[d][q], act'[d][q]) /\ V[d][q] = W[d][q],
         path = Top \/ V[c][path] = W[c][path],
         \A q \in P : Gives(V, c, q)',
         \A d \in Clients : Owes(V, d)',
         \A n \in Cells : n \notin Hollow' /\ is_regular(n)' =>
           Sorted(n)' \/ (n \notin Hollow /\ Stays(n))
  PROVE  MInv'
<1>1. P \in SUBSET Paths /\ Base
  BY PathFacts, BaseOfIInv
<1>2. ASSUME NEW d \in Clients, NEW q \in Paths, d # c \/ q \notin P
      PROVE  Gives(V, d, q)'
  <2>1. Gives(W, d, q) /\ Holding(d, q) /\ Forking(d, q)
    BY DEF Promises, IInv
  <2>2. Same(act[d][q], act'[d][q]) /\ V[d][q] = W[d][q]
    BY <1>2
  <2>3. ASSUME NEW s \in Sides, Len(q) < MaxDepth, d = c, Side(q, s) \in P
        PROVE  Side(q, s) = path /\ path # Top /\ act[c][path].pc # "held"
    <3>1. q # path
      BY <1>2, <2>3
    <3>2. Side(q, s) = path /\ path # Top
      BY <2>3, <3>1, PathFacts
    <3> QED BY <2>3, <3>2
  <2>4. ASSUME NEW s \in Sides, Len(q) < MaxDepth
        PROVE  /\ V[d][Side(q, s)] = W[d][Side(q, s)]
               /\ act[d][q].pc = "single" => Same(act[d][Side(q, s)], act'[d][Side(q, s)])
    <3>1. Side(q, s) \in Paths
      BY <2>4, PathFacts
    <3>2. CASE d # c \/ Side(q, s) \notin P
      BY <3>1, <3>2
    <3>3. CASE d = c /\ Side(q, s) \in P
      <4>1. Side(q, s) = path /\ path # Top /\ act[c][path].pc # "held"
        BY <2>3, <2>4, <3>3
      <4>2. act[d][q].pc # "single"
        BY <2>1, <2>4, <3>3, <4>1 DEF Forking
      <4> QED BY <3>3, <4>1, <4>2
    <3> QED BY <3>2, <3>3
  <2>5. Agree(V, W, d, q)
    BY <2>2, <2>4 DEF Agree
  <2>6. act[d][q].pc = "single" =>
          \A s \in Sides : Same(act[d][Side(q, s)], act'[d][Side(q, s)])
    BY <2>1, <2>4 DEF Holding
  <2> QED BY <1>1, <1>2, <2>1, <2>2, <2>5, <2>6, GivesStays
<1>3. Promises(V)'
  <2>1. \A d \in Clients, q \in Paths : Gives(V, d, q)'
    BY <1>2
  <2> QED BY <2>1 DEF Promises
<1>4. ASSUME NEW n \in Cells, n \notin Hollow', is_regular(n)' PROVE Sorted(n)'
  <2>1. CASE Sorted(n)'
    BY <2>1
  <2>2. CASE n \notin Hollow /\ Stays(n)
    <3>1. Sorted(n)
      BY <1>4, <2>2 DEF TreesAreOrdered, Sorted, Smaller, Greater, is_regular, Stays
    <3> QED BY <1>1, <2>2, <3>1, OrderStays
  <2> QED BY <1>4, <2>1, <2>2
<1>5. TreesAreOrdered'
  BY <1>4 DEF TreesAreOrdered, Sorted, Smaller, Greater
<1> QED BY <1>3, <1>5 DEF MInv
-----------------------------------------------------------------------------
(* The steps of an activation, one by one.                                 *)

(* What a client owes stays with its first activation.                     *)
LEMMA OwesStays ==
  ASSUME NEW W, NEW V, Promises(W), due' = due, NEW d \in Clients,
         V[d][Top] = W[d][Top], act'[d][Top].pc = "idle" <=> act[d][Top].pc = "idle"
  PROVE  Owes(V, d)'
BY DEF Promises, Owes

(* A step of one activation that keeps what it is going to return.         *)
LEMMA OneStep ==
  ASSUME IInv, TypeOK', TreesAreOrdered, NEW W \in Outcomes, Promises(W),
         NEW c \in Clients, NEW path \in Paths, due' = due,
         \A d \in Clients, q \in Paths : d # c \/ q # path => act'[d][q] = act[d][q],
         act[c][path].pc \notin {"idle", "held"}, act'[c][path].pc # "idle",
         Local(c, {path}), Gives(W, c, path)',
         \A n \in Cells : n \notin Hollow' /\ is_regular(n)' =>
           Sorted(n)' \/ (n \notin Hollow /\ Stays(n))
  PROVE  MInv'
<1>1. {path} \in SUBSET Family(path)
  BY DEF Family
<1>2. ASSUME NEW d \in Clients, NEW q \in Paths, d # c \/ q \notin {path}
      PROVE  Same(act[d][q], act'[d][q])
  BY <1>2 DEF Same
<1>3. ASSUME NEW d \in Clients PROVE Owes(W, d)'
  <2>1. Top \in Paths
    BY SideFacts
  <2>2. act'[d][Top].pc = "idle" <=> act[d][Top].pc = "idle"
    BY <2>1
  <2> QED BY <2>2, OwesStays
<1> QED BY <1>1, <1>2, <1>3, MapsStep

(* An activation that has its result gives the elements of that.           *)
LEMMA DoneGives ==
  ASSUME NEW c \in Clients, NEW path \in Paths, NEW n \in Pointers, NEW drops,
         act'[c][path] = Done(n, drops), NEW W, W[c][path] = Elements(n)'
  PROVE  Gives(W, c, path)'
<1>1. Done(n, drops).pc = "done" /\ Done(n, drops).res = n /\ Done(n, drops).es = {}
  BY DEF Done, Idle
<1>2. Distinct({})
  BY DEF Distinct
<1>3. W[c][path] = Elements(act[c][path].res)'
  BY <1>1 DEF Elements
<1> QED BY <1>1, <1>2, <1>3 DEF Gives, Joining

(* Nothing is hollow but what was.                                         *)
LEMMA NothingHollow ==
  ASSUME IInv, TypeOK', NEW c \in Clients, NEW path \in Paths,
         \A d \in Clients, q \in Paths : d # c \/ q # path => act'[d][q] = act[d][q],
         act[c][path].pc \notin Joining, act'[c][path].pc \notin Joining
  PROVE  Hollow' = Hollow
<1>1. \A d \in Clients, q \in Paths : JoinsWith(act'[d][q]) = JoinsWith(act[d][q])
  BY DEF JoinsWith
<1> QED BY <1>1, SameHollow, BaseOfIInv

(* The part of the batch becomes a block, or nothing.                      *)
LEMMA BuildPartMaps ==
  ASSUME IInv, IInv', MInv, NEW c \in Clients, NEW path \in Paths, BuildPart(c, path),
         UNCHANGED <<given, root, due, left>>
  PROVE  MInv'
<1> DEFINE a == act[c][path]
<1>1. TypeOK /\ TypeOK' /\ a \in Activations /\ heap \in [Cells -> Nodes] /\ TreesAreOrdered
  BY ActivationType, HeapType DEF IInv, MInv
<1>2. PICK W \in Outcomes : Promises(W)
  BY DEF MInv
<1>3. a.pc = "enter" /\ a.p = Null
  BY DEF BuildPart, At
<1>4. ElementsSplit /\ ElementsSplit' /\ Null \in Pointers
  BY <1>1, TypeFacts, ElementsFacts, ElementsFactsNext DEF Pointers
<1>5. W[c][path] = a.es
  <2>1. W[c][path] = Inserted(Elements(a.p), a.es)
    BY <1>2, <1>3 DEF Promises, Gives, Pending
  <2>2. Elements(a.p) = {}
    BY <1>3, <1>4 DEF ElementsSplit
  <2> QED BY <2>1, <2>2 DEF Inserted
<1>6. CASE a.es = {} /\ UNCHANGED heap /\ Sets(c, path, Done(Null, NoReferences))
  <2>1. /\ act'[c][path] = Done(Null, NoReferences)
        /\ \A d \in Clients, q \in Paths : d # c \/ q # path => act'[d][q] = act[d][q]
    BY <1>1, <1>4, <1>6, BagFacts, DoneFacts, SetsFacts
  <2>2. act'[c][path].pc = "done"
    BY <1>4, <2>1, BagFacts, DoneFacts
  <2>3. Gives(W, c, path)'
    <3>1. W[c][path] = Elements(Null)'
      BY <1>4, <1>5, <1>6 DEF ElementsSplit
    <3> QED BY <1>4, <2>1, <3>1, DoneGives
  <2>4. Hollow' = Hollow
    BY <1>1, <1>3, <2>1, <2>2, NothingHollow DEF Joining
  <2>5. \A n \in Cells : Stays(n)
    BY <1>6 DEF Stays
  <2>6. Local(c, {path})
    BY <2>5 DEF Local
  <2> QED BY <1>1, <1>2, <1>3, <2>1, <2>2, <2>3, <2>4, <2>5, <2>6, OneStep
<1>7. CASE /\ a.es # {} /\ HasRoom
           /\ heap' = [heap EXCEPT ![Fresh] = Block(a.es)]
           /\ Sets(c, path, Done(Fresh, NoReferences))
  <2>1. Fresh \in Cells /\ Fresh \in Pointers /\ Unshared(c, {path}, Fresh)
    BY <1>7, FreshFacts DEF Pointers
  <2>2. /\ act'[c][path] = Done(Fresh, NoReferences)
        /\ \A d \in Clients, q \in Paths : d # c \/ q # path => act'[d][q] = act[d][q]
    BY <1>1, <1>7, <2>1, BagFacts, DoneFacts, SetsFacts
  <2>3. act'[c][path].pc = "done"
    BY <2>1, <2>2, BagFacts, DoneFacts
  <2> HIDE DEF Fresh
  <2>4. heap'[Fresh] = Block(a.es) /\ \A n \in Cells : n # Fresh => heap'[n] = heap[n]
    BY <1>1, <1>7, <2>1
  <2>5. PICK f \in Cells : f = Fresh
    BY <2>1
  <2>6. Gives(W, c, path)'
    <3>1. heap'[f].lc = Null /\ heap'[f].rc = Null /\ heap'[f].es = a.es
      BY <2>4, <2>5 DEF Block
    <3>2. Elements(f)' = a.es
      <4>1. /\ Elements(f)' = heap'[f].es \union Elements(Null)' \union Elements(Null)'
            /\ Elements(Null)' = {}
        BY <1>1, <1>4, <3>1, ElementsNext
      <4> QED BY <3>1, <4>1
    <3> QED BY <1>5, <2>1, <2>2, <2>5, <3>2, DoneGives
  <2>7. Hollow' = Hollow
    BY <1>1, <1>3, <2>2, <2>3, NothingHollow DEF Joining
  <2>8. ASSUME NEW n \in Cells, n # f PROVE Stays(n)
    BY <2>4, <2>5, <2>8 DEF Stays
  <2>9. Local(c, {path})
    BY <2>1, <2>5, <2>8 DEF Local
  <2>10. ~is_regular(f)'
    BY <2>4, <2>5 DEF is_regular, Block
  <2> QED BY <1>1, <1>2, <1>3, <2>2, <2>3, <2>6, <2>7, <2>8, <2>9, <2>10, OneStep
<1> QED BY <1>6, <1>7 DEF BuildPart

(* The subtree itself is the result.                                       *)
LEMMA ShareSubtreeMaps ==
  ASSUME IInv, IInv', MInv, NEW c \in Clients, NEW path \in Paths, ShareSubtree(c, path),
         UNCHANGED <<given, root, due, left>>
  PROVE  MInv'
<1> DEFINE a == act[c][path]
           k == IF a.extra THEN a.p ELSE Null
<1>1. TypeOK /\ TypeOK' /\ a.pc = "enter" /\ a.p # Null /\ a.es = {} /\ TreesAreOrdered
  BY DEF IInv, MInv, ShareSubtree, At
<1>2. heap' = node_ptr(a.p, a.extra) /\ Sets(c, path, Done(a.p, NoReferences))
  BY DEF ShareSubtree
<1>3. /\ a.p \in Pointers
      /\ \A n \in Cells : n # k => heap'[n] = heap[n]
      /\ k # Null => heap'[k] = [heap[k] EXCEPT !.cnt = @ + 1]
      /\ heap \in [Cells -> Nodes]
      /\ \A n \in Cells : n # Null
  <2>1. /\ a.p \in Cells
        /\ \A n \in Cells : n # k => heap'[n] = heap[n]
        /\ k # Null => heap'[k] = [heap[k] EXCEPT !.cnt = @ + 1]
    <3>1. act[c][path].pc = "enter" /\ act[c][path].p # Null
      BY <1>1
    <3>2. heap' = node_ptr(act[c][path].p, act[c][path].extra)
      BY <1>2
    <3> QED BY <3>1, <3>2, NodePtrFacts
  <2>2. heap \in [Cells -> Nodes] /\ Null \notin Cells
    BY <1>1, HeapType, TypeFacts
  <2> QED BY <2>1, <2>2 DEF Pointers
<1>4. ASSUME NEW n \in Cells PROVE Stays(n)
  <2>1. CASE n # k
    BY <1>3, <2>1 DEF Stays
  <2>2. CASE n = k
    <3>1. heap'[n] = [heap[n] EXCEPT !.cnt = @ + 1] /\ heap[n] \in Nodes
      BY <1>3, <2>2
    <3> QED BY <3>1 DEF Stays, Nodes
  <2> QED BY <2>1, <2>2
<1>5. /\ act'[c][path] = Done(a.p, NoReferences)
      /\ \A d \in Clients, q \in Paths : d # c \/ q # path => act'[d][q] = act[d][q]
      /\ act'[c][path].pc = "done"
  BY <1>1, <1>2, <1>3, BagFacts, DoneFacts, SetsFacts
<1>6. PICK W \in Outcomes : Promises(W)
  BY DEF MInv
<1>7. Gives(W, c, path)'
  <2>1. W[c][path] = Inserted(Elements(a.p), {})
    <3>1. W[c][path] = Inserted(Elements(a.p), a.es)
      BY <1>1, <1>6 DEF Promises, Gives, Pending
    <3> QED BY <1>1, <3>1
  <2>2. PICK p \in Pointers : p = a.p
    BY <1>3
  <2>3. W[c][path] = Elements(p)
    BY <2>1, <2>2 DEF Inserted, KeysOf
  <2>4. Elements(p)' = Elements(p)
    BY <1>1, <1>4, AllStay
  <2> QED BY <1>5, <2>2, <2>3, <2>4, DoneGives
<1>8. Hollow' = Hollow
  BY <1>1, <1>5, NothingHollow DEF Joining
<1>9. Local(c, {path})
  BY <1>4 DEF Local
<1> QED BY <1>1, <1>4, <1>5, <1>6, <1>7, <1>8, <1>9, OneStep

(* The subtree is owned to be read.                                        *)
LEMMA EnterFlatMaps ==
  ASSUME IInv, IInv', MInv, NEW c \in Clients, NEW path \in Paths, EnterFlat(c, path),
         UNCHANGED <<given, root, due, left>>
  PROVE  MInv'
<1> DEFINE a == act[c][path]
           b == [a EXCEPT !.pc = "flat", !.extra = FALSE]
           k == IF a.extra THEN a.p ELSE Null
<1>1. /\ TypeOK /\ TypeOK' /\ a \in Activations /\ a.pc = "enter" /\ a.p # Null /\ a.p \in Pointers
      /\ TreesAreOrdered
  BY ActivationType, TypeFacts DEF IInv, MInv, EnterFlat, At
<1>2. heap' = node_ptr(a.p, a.extra) /\ Sets(c, path, b)
  BY DEF EnterFlat
<1>3. /\ \A n \in Cells : n # k => heap'[n] = heap[n]
      /\ k # Null => heap'[k] = [heap[k] EXCEPT !.cnt = @ + 1]
      /\ heap \in [Cells -> Nodes]
      /\ \A n \in Cells : n # Null
  <2>1. /\ a.p \in Cells
        /\ \A n \in Cells : n # k => heap'[n] = heap[n]
        /\ k # Null => heap'[k] = [heap[k] EXCEPT !.cnt = @ + 1]
    <3>1. act[c][path].pc = "enter" /\ act[c][path].p # Null
      BY <1>1
    <3>2. heap' = node_ptr(act[c][path].p, act[c][path].extra)
      BY <1>2
    <3> QED BY ONLY IInv, <3>1, <3>2, NodePtrFacts
  <2>2. heap \in [Cells -> Nodes] /\ Null \notin Cells
    BY <1>1, HeapType, TypeFacts
  <2> QED BY <2>1, <2>2 DEF Pointers
<1>4. ASSUME NEW n \in Cells PROVE Stays(n)
  <2>1. CASE n # k
    BY <1>3, <2>1 DEF Stays
  <2>2. CASE n = k
    <3>1. heap'[n] = [heap[n] EXCEPT !.cnt = @ + 1] /\ heap[n] \in Nodes
      BY <1>3, <2>2
    <3> QED BY <3>1 DEF Stays, Nodes
  <2> QED BY <2>1, <2>2
<1>5. b \in Activations /\ b.pc = "flat" /\ b.p = a.p /\ b.es = a.es
  BY <1>1 DEF Activations, PCs
<1> HIDE DEF b
<1>6. /\ act'[c][path] = b
      /\ \A d \in Clients, q \in Paths : d # c \/ q # path => act'[d][q] = act[d][q]
  BY <1>1, <1>2, <1>5, SetsFacts
<1>7. PICK W \in Outcomes : Promises(W)
  BY DEF MInv
<1>8. Gives(W, c, path)'
  <2>1. W[c][path] = Inserted(Elements(a.p), a.es) /\ Distinct(a.es)
    BY <1>1, <1>7 DEF Promises, Gives, Pending
  <2>2. PICK p \in Pointers : p = a.p
    BY <1>1
  <2>3. Elements(p)' = Elements(p)
    BY <1>1, <1>4, AllStay
  <2>4. act'[c][path].p = p /\ act'[c][path].es = a.es /\ act'[c][path].pc = "flat"
    BY <1>5, <1>6, <2>2
  <2>5. W[c][path] = Inserted(Elements(p)', act'[c][path].es)
    BY <2>1, <2>2, <2>3, <2>4
  <2>6. W[c][path] = Pending(act[c][path])'
    BY <2>4, <2>5 DEF Pending, Elements
  <2> QED BY <2>1, <2>4, <2>6 DEF Gives, Joining
<1>9. Hollow' = Hollow
  BY <1>1, <1>5, <1>6, NothingHollow DEF Joining
<1>10. Local(c, {path})
  BY <1>4 DEF Local
<1>11. act[c][path].pc \notin {"idle", "held"} /\ act'[c][path].pc # "idle"
  BY <1>1, <1>5, <1>6
<1> QED BY <1>1, <1>4, <1>6, <1>7, <1>8, <1>9, <1>10, <1>11, OneStep

(* The subtree and the part are merged into a block.                       *)
LEMMA MergeFlatMaps ==
  ASSUME IInv, IInv', MInv, NEW c \in Clients, NEW path \in Paths, MergeFlat(c, path),
         UNCHANGED <<given, root, due, left>>
  PROVE  MInv'
<1> DEFINE a == act[c][path]
           es == Inserted(Elements(a.p), a.es)
<1>1. TypeOK /\ TypeOK' /\ a.pc = "flat" /\ heap \in [Cells -> Nodes] /\ Null \in Pointers /\ TreesAreOrdered
  BY HeapType DEF IInv, MInv, MergeFlat, At, Pointers
<1>2. HasRoom /\ heap' = [heap EXCEPT ![Fresh] = Block(es)] /\ Sets(c, path, Done(Fresh, Reference(a.p)))
  BY DEF MergeFlat
<1>3. Fresh \in Cells /\ Fresh \in Pointers /\ Unshared(c, {path}, Fresh)
  BY <1>2, FreshFacts DEF Pointers
<1>4. /\ act'[c][path] = Done(Fresh, Reference(a.p))
      /\ \A d \in Clients, q \in Paths : d # c \/ q # path => act'[d][q] = act[d][q]
      /\ act'[c][path].pc = "done"
  BY <1>1, <1>2, <1>3, BagFacts, DoneFacts, SetsFacts
<1>5. PICK W \in Outcomes : Promises(W)
  BY DEF MInv
<1>6. W[c][path] = es
  BY <1>1, <1>5 DEF Promises, Gives, Pending
<1> HIDE DEF Fresh, es
<1>7. PICK f \in Cells : f = Fresh
  BY <1>3
<1>8. heap'[f] = Block(es) /\ \A n \in Cells : n # f => heap'[n] = heap[n]
  BY <1>1, <1>2, <1>7
<1>9. Gives(W, c, path)'
  <2>1. heap'[f].lc = Null /\ heap'[f].rc = Null /\ heap'[f].es = es
    BY <1>8 DEF Block
  <2>2. /\ Elements(f)' = heap'[f].es \union Elements(Null)' \union Elements(Null)'
        /\ Elements(Null)' = {}
    BY <1>1, <2>1, ElementsNext
  <2>3. W[c][path] = Elements(f)' /\ f \in Pointers
    BY <1>3, <1>6, <1>7, <2>1, <2>2
  <2> QED BY <1>4, <1>7, <2>3, DoneGives
<1>10. Hollow' = Hollow
  BY <1>1, <1>4, NothingHollow DEF Joining
<1>11. ASSUME NEW n \in Cells, n # f PROVE Stays(n)
  BY <1>8, <1>11 DEF Stays
<1>12. Local(c, {path})
  BY <1>3, <1>7, <1>11 DEF Local
<1>13. ~is_regular(f)'
  BY <1>8 DEF is_regular, Block
<1> QED BY <1>1, <1>4, <1>5, <1>9, <1>10, <1>11, <1>12, <1>13, OneStep
-----------------------------------------------------------------------------
(* A spine is chosen: nothing but the program counter changes.             *)
LEMMA HeavyMaps ==
  ASSUME IInv, IInv', MInv, NEW c \in Clients, NEW path \in Paths, NEW s \in Sides,
         Heavy(c, path, s), UNCHANGED <<given, root, due, left>>
  PROVE  MInv'
<1> DEFINE a == act[c][path]
           t == Result(c, path, s)
           b == [a EXCEPT !.pc = IF ref_cnt(t) > 1 THEN (IF s = "l" THEN "copy_l" ELSE "copy_r")
                                                   ELSE (IF s = "l" THEN "spine_l" ELSE "spine_r")]
<1>1. TypeOK /\ TypeOK' /\ a \in Activations /\ TreesAreOrdered
  BY ActivationType DEF IInv, MInv
<1>2. a.pc = "fork" /\ Sets(c, path, b) /\ heap' = heap
  BY DEF Heavy, Joined, At
<1>3. b \in Activations /\ b.pc \in Joining /\ b.m = a.m /\ b.es = a.es
  BY <1>1 DEF Activations, PCs, Joining
<1> HIDE DEF b
<1>4. /\ act'[c][path] = b
      /\ \A d \in Clients, q \in Paths : d # c \/ q # path => act'[d][q] = act[d][q]
  BY <1>1, <1>2, <1>3, SetsFacts
<1>5. PICK W \in Outcomes : Promises(W)
  BY DEF MInv
<1>6. Gives(W, c, path)'
  <2>1. /\ Distinct(a.es)
        /\ W[c][path] = W[c][Side(path, "l")] \union {EntryOf(a)} \union W[c][Side(path, "r")]
        /\ Smaller(W[c][Side(path, "l")], get_entry(a.m))
        /\ Greater(W[c][Side(path, "r")], get_entry(a.m))
    BY <1>2, <1>5 DEF Promises, Gives, Joining
  <2>2. EntryOf(act[c][path])' = EntryOf(act[c][path]) /\ get_entry(act[c][path].m)' = get_entry(act[c][path].m)
    BY <1>2, <1>3, <1>4 DEF EntryOf, get_entry
  <2>3. act'[c][path].pc \in Joining /\ act'[c][path].es = a.es
    BY <1>3, <1>4
  <2> QED BY <2>1, <2>2, <2>3 DEF Gives, Joining
<1>7. Hollow' = Hollow
  <2>1. \A d \in Clients, q \in Paths : JoinsWith(act'[d][q]) = JoinsWith(act[d][q])
    BY <1>2, <1>3, <1>4 DEF JoinsWith, Joining
  <2> QED BY <1>1, <2>1, SameHollow, BaseOfIInv
<1>8. \A n \in Cells : Stays(n)
  BY <1>2 DEF Stays
<1>9. Local(c, {path})
  BY <1>8 DEF Local
<1>10. act[c][path].pc \notin {"idle", "held"} /\ act'[c][path].pc # "idle"
  BY <1>2, <1>3, <1>4 DEF Joining
<1> QED BY <1>1, <1>4, <1>5, <1>6, <1>7, <1>8, <1>9, <1>10, OneStep

(* A reference is dropped; a node that is freed is known to nobody.        *)
LEMMA DecrementMaps ==
  ASSUME IInv, IInv', MInv, NEW c \in Clients, NEW path \in Paths, Decrement(c, path)
  PROVE  MInv'
<1> DEFINE a == act[c][path]
<1>1. /\ TypeOK /\ TypeOK' /\ a \in Activations /\ TreesAreOrdered /\ Base
      /\ heap \in [Cells -> Nodes] /\ act \in [Clients -> [Paths -> Activations]]
      /\ UNCHANGED <<given, root, due, left>>
  BY ActivationType, HeapType, BaseOfIInv DEF IInv, MInv, Decrement, TypeOK, Activations
<1>2. PICK n, todo :
        /\ n \in Cells /\ a.todo[n] > 0
        /\ act' = [act EXCEPT ![c][path].todo = todo]
        /\ \/ ref_cnt(n) = 1 /\ heap' = [heap EXCEPT ![n] = FreeCell]
           \/ heap' = [heap EXCEPT ![n].cnt = @ - 1]
  BY DEF Decrement, DropReference
<1>3. ASSUME NEW d \in Clients, NEW q \in Paths PROVE Same(act[d][q], act'[d][q])
  <2>1. CASE d = c /\ q = path
    <3>1. act'[d][q] = [a EXCEPT !.todo = todo]
      BY <1>1, <1>2, <2>1
    <3> QED BY <1>1, <2>1, <3>1 DEF Same, Activations
  <2>2. CASE d # c \/ q # path
    <3>1. act'[d][q] = act[d][q]
      BY <1>1, <1>2, <2>2
    <3> QED BY <3>1 DEF Same
  <2> QED BY <2>1, <2>2
<1>4. Hollow' = Hollow
  <2>1. \A d \in Clients, q \in Paths : JoinsWith(act'[d][q]) = JoinsWith(act[d][q])
    BY <1>3 DEF JoinsWith, Same
  <2> QED BY <1>1, <2>1, SameHollow
<1>5. ASSUME NEW k \in Cells
      PROVE  Stays(k) \/ (~is_regular(k)' /\ Unshared(c, {}, k))
  <2>1. CASE k # n
    BY <1>1, <1>2, <2>1 DEF Stays
  <2>2. CASE k = n /\ ref_cnt(n) = 1 /\ heap' = [heap EXCEPT ![n] = FreeCell]
    <3>1. ~is_regular(k)'
      BY <1>1, <2>2 DEF is_regular, FreeCell
    <3>2. Unshared(c, {}, k)
      BY <1>1, <1>2, <2>2, SoleDrop DEF Base, Unshared
    <3> QED BY <3>1, <3>2
  <2>3. CASE k = n /\ heap' = [heap EXCEPT ![n].cnt = @ - 1]
    <3>1. heap'[k] = [heap[k] EXCEPT !.cnt = @ - 1] /\ heap[k] \in Nodes
      BY <1>1, <2>3
    <3> QED BY <3>1 DEF Stays, Nodes
  <2> QED BY <1>2, <2>1, <2>2, <2>3
<1>6. Local(c, {})
  BY <1>5 DEF Local
<1>7. PICK W \in Outcomes : Promises(W)
  BY DEF MInv
<1>8. \A d \in Clients : Owes(W, d)'
  <2>1. ASSUME NEW d \in Clients PROVE Owes(W, d)'
    <3>1. act'[d][Top].pc = act[d][Top].pc
      BY <1>3, SideFacts DEF Same
    <3> QED BY <1>1, <1>7, <3>1, OwesStays
  <2> QED BY <2>1
<1>9. \A k \in Cells : k \notin Hollow' /\ is_regular(k)' =>
        Sorted(k)' \/ (k \notin Hollow /\ Stays(k))
  BY <1>4, <1>5
<1>10. {} \in SUBSET Family(path)
  OBVIOUS
<1> QED BY <1>1, <1>3, <1>6, <1>7, <1>8, <1>9, <1>10, MapsStep

(* The top of a spine is copied, to hold what it held.                     *)
LEMMA CopySpineMaps ==
  ASSUME IInv, IInv', MInv, NEW c \in Clients, NEW path \in Paths, NEW s \in Sides,
         CopySpine(c, path, s), UNCHANGED <<given, root, due, left>>
  PROVE  MInv'
<1> DEFINE a == act[c][path]
           t == Result(c, path, s)
           o == Regular(get_entry(t), heap[t].lc, heap[t].rc)
<1>1. /\ TypeOK /\ TypeOK' /\ NodeShape /\ Base /\ a \in Activations /\ TreesAreOrdered
      /\ heap \in [Cells -> Nodes] /\ act \in [Clients -> [Paths -> Activations]]
  BY ActivationType, HeapType, BaseOfIInv DEF IInv, MInv, TypeOK, Activations
<1>2. /\ a.pc = (IF s = "l" THEN "copy_l" ELSE "copy_r") /\ a.pc \in {"copy_l", "copy_r"}
      /\ a.pc \in Joining /\ HasRoom
  BY DEF CopySpine, At, Joining, Sides
<1>3. PICK q \in Paths, m \in Cells, k \in Cells : q = Side(path, s) /\ m = a.m /\ k = Fresh
  <2>1. Side(path, "l") \in Paths /\ Side(path, "r") \in Paths /\ a.m \in Cells
    BY <1>2, JoinedFacts
  <2> QED BY <1>2, <2>1, FreshFacts DEF Sides
<1>4. /\ Len(path) < MaxDepth /\ q # path
      /\ Family(path) = {path, Side(path, "l"), Side(path, "r")}
      /\ q \in Family(path) /\ heap[m].kind = "regular"
  BY <1>2, <1>3, JoinedFacts DEF is_regular, Sides
<1>5. act[c][q].pc = "done" /\ t = act[c][q].res /\ t # Null /\ heap[t].kind = "regular"
  BY <1>1, <1>2, <1>3, <1>4 DEF IInv, Forking, Result, is_regular, Sides
<1>6. heap[k].kind = "free" /\ \A P \in SUBSET Paths : Unshared(c, P, k)
  BY <1>2, <1>3, FreshFacts
<1>7. t \in Cells /\ t \notin Hollow
  BY <1>5, ResultFacts
<1>8. PICK u \in Cells, lt \in Pointers, rt \in Pointers : u = t /\ lt = heap[u].lc /\ rt = heap[u].rc
  BY <1>1, <1>7 DEF Nodes
<1>9. /\ act' = [act EXCEPT
           ![c][path].pc = IF s = "l" THEN "spine_l" ELSE "spine_r",
           ![c][path].todo = Reference(t),
           ![c][q].res = k]
      /\ heap' = [n \in Cells |-> IF n = k THEN o
                    ELSE [heap[n] EXCEPT !.cnt = @ + Plus(Reference(heap[t].lc), Reference(heap[t].rc))[n]]]
  BY <1>3 DEF CopySpine
<1>10. /\ act'[c][path] = [a EXCEPT !.pc = IF s = "l" THEN "spine_l" ELSE "spine_r", !.todo = Reference(t)]
       /\ act'[c][q] = [act[c][q] EXCEPT !.res = k]
       /\ \A d \in Clients, w \in Paths : d # c \/ w \notin {path, q} => act'[d][w] = act[d][w]
  BY <1>1, <1>4, <1>9
<1>11. /\ act'[c][path].pc \in {"spine_l", "spine_r"} /\ act'[c][path].m = m /\ act'[c][path].es = a.es
       /\ act'[c][q].pc = "done" /\ act'[c][q].res = k /\ act'[c][q].es = act[c][q].es
       /\ act'[c][q].m = act[c][q].m
  <2>1. act[c][q] \in Activations /\ a \in Activations
    BY <1>1
  <2> QED BY <1>3, <1>5, <1>10, <2>1 DEF Activations
<1>12. ASSUME NEW n \in Cells, n # k PROVE Stays(n)
  <2>1. PICK i : heap'[n] = [heap[n] EXCEPT !.cnt = i]
    BY <1>9, <1>12
  <2>2. heap[n] \in Nodes
    BY <1>1
  <2> QED BY <2>1, <2>2 DEF Stays, Nodes
<1>13. heap'[k].es = {get_entry(u)} /\ heap'[k].lc = lt /\ heap'[k].rc = rt
  BY <1>8, <1>9 DEF Regular
<1>14. \A P \in SUBSET Paths : Local(c, P)
  BY <1>6, <1>12 DEF Local
<1> HIDE DEF a, t, o
<1>15. Hollow' = Hollow
  <2>1. ASSUME NEW d \in Clients, NEW w \in Paths
        PROVE  JoinsWith(act'[d][w]) = JoinsWith(act[d][w])
    <3>1. CASE d = c /\ w = path
      BY <1>2, <1>3, <1>11, <3>1 DEF JoinsWith, Joining, a
    <3>2. CASE d = c /\ w = q
      BY <1>5, <1>11, <3>2 DEF JoinsWith, Joining
    <3>3. CASE d # c \/ w \notin {path, q}
      BY <1>10, <3>3
    <3> QED BY <3>1, <3>2, <3>3
  <2> QED BY <1>1, <2>1, SameHollow
<1>16. PICK W \in Outcomes : Promises(W)
  BY DEF MInv
<1>17. /\ Elements(lt)' = Elements(lt) /\ Elements(rt)' = Elements(rt)
  <2>1. "l" \in Sides /\ "r" \in Sides /\ lt = Child(u, "l") /\ rt = Child(u, "r")
    BY <1>8 DEF Sides, Child
  <2>2. {} \in SUBSET Paths /\ u \in Cells \ Hollow
    BY <1>7, <1>8
  <2>3. Referred(c, {}, lt) /\ Referred(c, {}, rt)
    BY <1>1, <2>1, <2>2, ChildIsReferred
  <2> QED BY <1>1, <1>14, <2>2, <2>3, ReferredStays
<1>18. /\ heap[u].es = {get_entry(u)}
       /\ Smaller(Elements(lt), get_entry(u)) /\ Greater(Elements(rt), get_entry(u))
       /\ Elements(u) = {get_entry(u)} \union Elements(lt) \union Elements(rt)
  <2>1. is_regular(u) /\ u \in Cells \ Hollow
    BY <1>5, <1>7, <1>8 DEF is_regular
  <2>2. heap[u].es = {get_entry(u)}
    BY <1>1, <2>1, EntryType
  <2>3. Smaller(Elements(lt), get_entry(u)) /\ Greater(Elements(rt), get_entry(u))
    BY <1>1, <1>8, <2>1 DEF TreesAreOrdered, Smaller, Greater
  <2>4. ElementsSplit
    BY <1>1, TypeFacts, ElementsFacts
  <2> QED BY <1>8, <2>2, <2>3, <2>4 DEF ElementsSplit
<1>19. Elements(k)' = Elements(u)
  <2>1. Elements(k)' = heap'[k].es \union Elements(lt)' \union Elements(rt)'
    <3>1. TypeOK' /\ heap'[k].lc = lt /\ heap'[k].rc = rt
      BY <1>1, <1>13
    <3> QED BY <3>1, ElementsNext
  <2> QED BY <1>13, <1>17, <1>18, <2>1
<1>20. Gives(W, c, q)'
  <2>1. W[c][q] = Elements(u) /\ Distinct(act[c][q].es)
    BY <1>5, <1>8, <1>16 DEF Promises, Gives
  <2>2. W[c][q] = Elements(act[c][q].res)'
    BY <1>11, <1>19, <2>1 DEF Elements
  <2> QED BY <1>11, <2>1, <2>2 DEF Gives, Joining
<1>21. Gives(W, c, path)'
  <2>1. /\ Distinct(a.es)
        /\ W[c][path] = W[c][Side(path, "l")] \union {EntryOf(a)} \union W[c][Side(path, "r")]
        /\ Smaller(W[c][Side(path, "l")], get_entry(m))
        /\ Greater(W[c][Side(path, "r")], get_entry(m))
    BY <1>2, <1>3, <1>16 DEF Promises, Gives, a
  <2>2. Stays(m)
    BY <1>4, <1>6, <1>12
  <2>3. get_entry(act[c][path].m)' = get_entry(m)
    BY <1>11, <2>2 DEF get_entry, Stays
  <2>4. EntryOf(act[c][path])' = EntryOf(act[c][path])
    BY <1>3, <1>11, <2>2, <2>3 DEF EntryOf, Stays, a
  <2>5. act'[c][path].pc \in Joining
    BY <1>11 DEF Joining
  <2> QED BY <1>11, <2>1, <2>3, <2>4, <2>5 DEF Gives, Joining, a
<1>22. Sorted(k)'
  <2>1. get_entry(k)' = get_entry(u)
    BY <1>13 DEF get_entry
  <2>2. Smaller(Elements(lt)', get_entry(k)') /\ Greater(Elements(rt)', get_entry(k)')
    BY <1>17, <1>18, <2>1
  <2> QED BY <1>13, <2>2 DEF Sorted, Smaller, Greater, Elements
<1> QED
  <2>1. {path, q} \in SUBSET Family(path) /\ {path, q} \in SUBSET Paths
    BY <1>4
  <2>2. \A d \in Clients, w \in Paths : d # c \/ w \notin {path, q} => Same(act[d][w], act'[d][w])
    BY <1>10 DEF Same
  <2>3. ASSUME NEW d \in Clients PROVE Owes(W, d)'
    <3>1. Top \in Paths /\ q # Top
      BY <1>3, <1>4, SideFacts, PathFacts
    <3>2. act'[d][Top].pc = "idle" <=> act[d][Top].pc = "idle"
      BY <1>2, <1>10, <1>11, <3>1 DEF a
    <3> QED BY <1>16, <3>2, OwesStays
  <2>4. \A w \in {path, q} : Gives(W, c, w)'
    BY <1>20, <1>21
  <2>5. \A n \in Cells : n \notin Hollow' /\ is_regular(n)' =>
          Sorted(n)' \/ (n \notin Hollow /\ Stays(n))
    BY <1>12, <1>15, <1>22
  <2>6. path \in {path, q} /\ act[c][path].pc # "held"
    BY <1>2 DEF a
  <2>7. Local(c, {path, q})
    BY <1>14, <2>1
  <2> QED BY <1>1, <1>16, <2>1, <2>2, <2>3, <2>4, <2>5, <2>6, <2>7, MapsStep
-----------------------------------------------------------------------------
(* Joins.                                                                  *)

(* What a join makes of its results l and r, and of its node's entry.      *)
LEMMA JoinsTo ==
  ASSUME IInv, NEW W, Promises(W), NEW c \in Clients, NEW path \in Paths,
         NEW m, NEW l, NEW r, Joins(c, path, m, l, r),
         NEW e, e = EntryOf(act[c][path])
  PROVE  /\ W[c][path] = Elements(l) \union {e} \union Elements(r)
         /\ l \in Pointers /\ r \in Pointers
         /\ Smaller(Elements(l), e) /\ Greater(Elements(r), e)
         /\ Elements(l) \in Contents /\ Elements(r) \in Contents
         /\ e \in Nat \X Values
<1>1. PICK x, y : x = Side(path, "l") /\ y = Side(path, "r")
  OBVIOUS
<1>2. /\ TypeOK /\ NodeShape /\ act[c][path].pc \in Joining /\ act[c][path].m = m
      /\ act[c][x].pc = "done" /\ act[c][x].res = l
      /\ act[c][y].pc = "done" /\ act[c][y].res = r
  BY <1>1 DEF Joins, IInv
<1>3. x \in Paths /\ y \in Paths /\ m \in Cells /\ is_regular(m)
  BY <1>1, <1>2, JoinedFacts
<1>4. l \in Pointers /\ r \in Pointers
  BY <1>2, <1>3, TypeFacts
<1>5. W[c][x] = Elements(l) /\ W[c][y] = Elements(r)
  BY <1>2, <1>3 DEF Promises, Gives
<1>6. /\ W[c][path] = W[c][x] \union {e} \union W[c][y]
      /\ Smaller(W[c][x], get_entry(m)) /\ Greater(W[c][y], get_entry(m))
  BY <1>1, <1>2 DEF Promises, Gives
<1>7. e \in Nat \X Values
  BY <1>2, <1>3, EntryOfType
<1>8. Key(e) = Key(get_entry(m))
  <2>1. heap[m].es = {get_entry(m)}
    BY <1>2, <1>3, EntryType
  <2>2. \E k \in Inserted(heap[m].es, act[c][path].es) : Key(k) = Key(get_entry(m))
    BY <2>1 DEF Inserted, KeysOf
  <2>3. e = CHOOSE k \in Inserted(heap[m].es, act[c][path].es) : Key(k) = Key(get_entry(m))
    BY <1>2 DEF EntryOf
  <2> QED BY <2>2, <2>3
<1>9. Smaller(W[c][x], e) /\ Greater(W[c][y], e)
  BY <1>6, <1>8 DEF Smaller, Greater
<1> QED BY <1>2, <1>4, <1>5, <1>6, <1>7, <1>9, ElementsType

(* The results stay while nodes change that the joining activation, or one *)
(* with a result to consume, knows alone.                                  *)
LEMMA ResultStays ==
  ASSUME IInv, TypeOK', NEW c \in Clients, NEW path \in Paths, NEW P \in SUBSET Paths, Local(c, P),
         NEW m, NEW l, NEW r, Joins(c, path, m, l, r),
         NEW s \in Sides, Side(path, s) \notin P, NEW n, n = Result(c, path, s)
  PROVE  Elements(n)' = Elements(n)
<1>1. act[c][path].pc \in Joining /\ act[c][Side(path, s)].pc = "done"
  BY DEF Joins, Sides
<1>2. Side(path, s) \in Paths
  BY <1>1, JoinedFacts DEF Sides
<1>3. n \in Pointers /\ Referred(c, P, n)
  BY <1>1, <1>2, OutsideIsReferred, ResultFacts DEF Result
<1> QED BY <1>3, BaseOfIInv, ReferredStays

(* An activation that has joined has what it was going to return.          *)
LEMMA FinishMaps ==
  ASSUME IInv, TypeOK', TreesAreOrdered, NEW W \in Outcomes, Promises(W), due' = due,
         NEW c \in Clients, NEW path \in Paths, NEW m, NEW l, NEW r, Joins(c, path, m, l, r),
         NEW n \in Pointers, NEW drops \in [Cells -> Nat], Finish(c, path, n, drops),
         Local(c, {path}) \/ Local(c, Family(path)), W[c][path] = Elements(n)',
         \A k \in Cells : k \notin Hollow' /\ is_regular(k)' =>
           Sorted(k)' \/ (k \notin Hollow /\ Stays(k))
  PROVE  MInv'
<1>1. PICK x, y : x = Side(path, "l") /\ y = Side(path, "r")
  OBVIOUS
<1>2. TypeOK /\ act[c][path].pc \in Joining
  BY DEF Joins, IInv
<1>3. /\ Len(path) < MaxDepth /\ Family(path) = {path, x, y} /\ x \in Paths /\ y \in Paths
      /\ x # Top /\ y # Top
  BY <1>1, <1>2, JoinedFacts, PathFacts DEF Sides
<1>4. /\ act'[c][path] = Done(n, drops) /\ act'[c][x] = Idle /\ act'[c][y] = Idle
      /\ \A d \in Clients, q \in Paths : d # c \/ q \notin Family(path) => act'[d][q] = act[d][q]
  BY <1>1, <1>2, <1>3, FinishFacts DEF Sides
<1>5. Gives(W, c, path)'
  BY <1>4, DoneGives
<1>6. \A q \in {x, y} : Gives(W, c, q)'
  <2>1. Idle.pc = "idle" /\ Idle.es = {} /\ Distinct({})
    BY DEF Idle, Distinct
  <2>2. ASSUME NEW q \in Paths, act'[c][q] = Idle PROVE Gives(W, c, q)'
    BY <2>1, <2>2 DEF Gives, Joining
  <2> QED BY <1>3, <1>4, <2>2
<1>7. Local(c, Family(path))
  <2>1. ASSUME NEW k \in Cells, ~Unshared(c, Family(path), k) PROVE ~Unshared(c, {path}, k)
    BY <1>3, <2>1 DEF Unshared
  <2> QED BY <2>1 DEF Local
<1>8. \A d \in Clients, q \in Paths : d # c \/ q \notin Family(path) => Same(act[d][q], act'[d][q])
  BY <1>4 DEF Same
<1>9. ASSUME NEW d \in Clients PROVE Owes(W, d)'
  <2>1. Top \in Paths /\ Done(n, drops).pc = "done"
    BY DoneFacts, SideFacts
  <2>2. act'[d][Top].pc = "idle" <=> act[d][Top].pc = "idle"
    BY <1>2, <1>3, <1>4, <2>1 DEF Joining
  <2> QED BY <2>2, OwesStays
<1>10. act[c][path].pc # "held" /\ path \in Family(path) /\ Family(path) \in SUBSET Family(path)
  BY <1>2, <1>3 DEF Joining
<1>11. \A q \in Family(path) : Gives(W, c, q)'
  BY <1>3, <1>5, <1>6
<1> QED BY <1>7, <1>8, <1>9, <1>10, <1>11, MapsStep

(* The results become m's children.                                        *)
LEMMA LinkMaps ==
  ASSUME IInv, IInv', MInv, NEW c \in Clients, NEW path \in Paths, Link(c, path),
         UNCHANGED <<given, root, due, left>>
  PROVE  MInv'
<1> DEFINE e == EntryOf(act[c][path])
<1>1. PICK m, l, r : m = act[c][path].m /\ l = Result(c, path, "l") /\ r = Result(c, path, "r")
  OBVIOUS
<1>2. /\ TypeOK /\ TypeOK' /\ TreesAreOrdered /\ Base /\ heap \in [Cells -> Nodes]
  BY HeapType, BaseOfIInv DEF IInv, MInv
<1>3. Joins(c, path, m, l, r) /\ act[c][path].pc \in Joining
  BY <1>1 DEF Link, Joined, At, Joins, Result, Joining
<1>4. /\ heap' = [heap EXCEPT ![m].es = {e}, ![m].lc = l, ![m].rc = r]
      /\ Finish(c, path, m, NoReferences)
  BY <1>1 DEF Link
<1>5. /\ m \in Cells /\ m \in Pointers /\ m \in Hollow /\ Unshared(c, {path}, m)
      /\ NoReferences \in [Cells -> Nat]
  BY <1>1, <1>3, JoinedFacts, BagFacts DEF Unshared
<1>6. PICK W \in Outcomes : Promises(W)
  BY DEF MInv
<1>7. /\ W[c][path] = Elements(l) \union {e} \union Elements(r)
      /\ l \in Pointers /\ r \in Pointers
      /\ Smaller(Elements(l), e) /\ Greater(Elements(r), e)
  BY <1>3, <1>6, JoinsTo
<1> HIDE DEF e
<1>8. /\ heap'[m].es = {e} /\ heap'[m].lc = l /\ heap'[m].rc = r
      /\ \A n \in Cells : n # m => heap'[n] = heap[n]
  <2>1. heap[m] \in Nodes
    BY <1>2, <1>5
  <2> QED BY <1>2, <1>4, <1>5, <2>1 DEF Nodes
<1>9. \A n \in Cells : n # m => Stays(n)
  BY <1>8 DEF Stays
<1>10. Local(c, {path}) /\ {path} \in SUBSET Paths
  BY <1>5, <1>9 DEF Local
<1>11. Elements(l)' = Elements(l) /\ Elements(r)' = Elements(r)
  <2>1. \A s \in Sides : Side(path, s) \notin {path}
    BY <1>3, JoinedFacts DEF Sides
  <2> QED BY <1>1, <1>2, <1>3, <1>10, <2>1, ResultStays DEF Sides
<1>12. W[c][path] = Elements(m)'
  <2>1. TypeOK' /\ heap'[m].lc = l /\ heap'[m].rc = r
    BY <1>2, <1>8
  <2>2. Elements(m)' = heap'[m].es \union Elements(l)' \union Elements(r)'
    BY <1>5, <1>7, <2>1, ElementsNext
  <2> QED BY <1>7, <1>8, <1>11, <2>2
<1>13. Sorted(m)'
  <2>1. get_entry(m)' = e
    BY <1>8 DEF get_entry
  <2>2. Smaller(Elements(l)', get_entry(m)') /\ Greater(Elements(r)', get_entry(m)')
    BY <1>7, <1>11, <2>1
  <2> QED BY <1>8, <2>2 DEF Sorted, Smaller, Greater, Elements
<1>14. Hollow' = Hollow \ {m}
  BY <1>2, <1>3, <1>4, <1>5, FinishHollow
<1>15. \A k \in Cells : k \notin Hollow' /\ is_regular(k)' =>
         Sorted(k)' \/ (k \notin Hollow /\ Stays(k))
  BY <1>9, <1>13, <1>14
<1> QED BY <1>2, <1>3, <1>4, <1>5, <1>6, <1>10, <1>12, <1>15, FinishMaps

(* The results and m's entry are gathered in a block.                      *)
LEMMA GatherMaps ==
  ASSUME IInv, IInv', MInv, NEW c \in Clients, NEW path \in Paths, Gather(c, path),
         UNCHANGED <<given, root, due, left>>
  PROVE  MInv'
<1> DEFINE e == EntryOf(act[c][path])
<1>1. PICK m, l, r : m = act[c][path].m /\ l = Result(c, path, "l") /\ r = Result(c, path, "r")
  OBVIOUS
<1>2. /\ TypeOK /\ TypeOK' /\ TreesAreOrdered /\ Base /\ heap \in [Cells -> Nodes] /\ Null \in Pointers
  BY HeapType, BaseOfIInv DEF IInv, MInv, Pointers
<1>3. Joins(c, path, m, l, r) /\ act[c][path].pc \in Joining /\ HasRoom
  BY <1>1 DEF Gather, Joined, At, Joins, Result, Joining
<1>4. PICK k \in Cells : k = Fresh
  BY <1>3, FreshFacts
<1>5. /\ heap' = [heap EXCEPT ![m] = FreeCell, ![k] = Block(Elements(l) \union {e} \union Elements(r))]
      /\ Finish(c, path, k, Plus(Reference(l), Reference(r)))
  BY <1>1, <1>4 DEF Gather
<1>6. /\ m \in Cells /\ m \in Hollow /\ Unshared(c, {path}, m)
      /\ k \in Pointers /\ Unshared(c, {path}, k)
      /\ Plus(Reference(l), Reference(r)) \in [Cells -> Nat]
  <2>1. m \in Cells /\ m \in Hollow /\ Unshared(c, {path}, m)
    BY <1>1, <1>3, JoinedFacts DEF Unshared
  <2>2. k \in Pointers /\ Unshared(c, {path}, k)
    BY <1>3, <1>4, FreshFacts DEF Pointers
  <2>3. Plus(Reference(l), Reference(r)) \in [Cells -> Nat]
    BY BagFacts
  <2> QED BY <2>1, <2>2, <2>3
<1>7. PICK W \in Outcomes : Promises(W)
  BY DEF MInv
<1>8. W[c][path] = Elements(l) \union {e} \union Elements(r)
  BY <1>3, <1>7, JoinsTo
<1>9. /\ heap'[k] = Block(W[c][path])
      /\ m # k => heap'[m] = FreeCell
      /\ \A n \in Cells : n # m /\ n # k => heap'[n] = heap[n]
  BY <1>2, <1>5, <1>6, <1>8
<1>10. \A n \in Cells : n # m /\ n # k => Stays(n)
  BY <1>9 DEF Stays
<1>11. Local(c, {path})
  BY <1>6, <1>10 DEF Local
<1>12. W[c][path] = Elements(k)'
  <2>1. TypeOK' /\ heap'[k].lc = Null /\ heap'[k].rc = Null /\ heap'[k].es = W[c][path]
    BY <1>2, <1>9 DEF Block
  <2>2. Elements(k)' = heap'[k].es \union Elements(Null)' \union Elements(Null)' /\ Elements(Null)' = {}
    BY <1>2, <2>1, ElementsNext
  <2> QED BY <2>1, <2>2
<1>13. ~is_regular(k)' /\ ~is_regular(m)'
  BY <1>9 DEF is_regular, Block, FreeCell
<1>14. Hollow' = Hollow \ {m}
  BY <1>2, <1>3, <1>5, <1>6, FinishHollow
<1>15. \A n \in Cells : n \notin Hollow' /\ is_regular(n)' =>
         Sorted(n)' \/ (n \notin Hollow /\ Stays(n))
  BY <1>10, <1>13, <1>14
<1> QED BY <1>2, <1>3, <1>5, <1>6, <1>7, <1>11, <1>12, <1>15, FinishMaps

(* m comes between the spine's inner subtree and the other result, and     *)
(* below the spine's top.                                                  *)
LEMMA SpineMaps ==
  ASSUME IInv, IInv', MInv, NEW c \in Clients, NEW path \in Paths, NEW s \in Sides,
         Spine(c, path, s), UNCHANGED <<given, root, due, left>>
  PROVE  MInv'
<1> DEFINE e == EntryOf(act[c][path])
           a == act[c][path]
           q == Side(path, s)
<1>1. PICK m, l, r, t : /\ m = a.m /\ l = Result(c, path, "l") /\ r = Result(c, path, "r")
                        /\ t = Result(c, path, s)
  OBVIOUS
<1>2. /\ TypeOK /\ TypeOK' /\ NodeShape /\ Exact /\ Base /\ heap \in [Cells -> Nodes]
      /\ Forking(c, path) /\ TreesAreOrdered
  BY HeapType, BaseOfIInv DEF IInv, MInv
<1>3. a.pc = (IF s = "l" THEN "spine_l" ELSE "spine_r") /\ a.pc \in Joining /\ a.todo = NoReferences
  <2>1. At(c, path, IF s = "l" THEN "spine_l" ELSE "spine_r")
    BY Zenon DEF Spine
  <2> QED BY <2>1 DEF At, Joining
<1>4. /\ m \in Cells /\ m \in Pointers /\ m \in Hollow /\ heap[m].kind = "regular"
      /\ Len(path) < MaxDepth /\ \A w \in Sides : Side(path, w) \in Paths /\ Side(path, w) # path
      /\ Side(path, "l") # Side(path, "r")
      /\ \A P \in SUBSET Paths : path \in P => Unshared(c, P, m)
      /\ Family(path) = {path, Side(path, "l"), Side(path, "r")}
  BY <1>1, <1>3, JoinedFacts DEF is_regular, Sides, Unshared
<1>5. Joins(c, path, m, l, r)
  BY <1>1, <1>2, <1>3, <1>4 DEF Forking, Joins, Result, Sides
<1>6. /\ t = act[c][q].res /\ act[c][q].pc = "done" /\ q \in Paths
      /\ t # Null /\ heap[t].kind = "regular" /\ heap[t].cnt = 1
  BY <1>1, <1>2, <1>3, <1>4 DEF Forking, Result, is_regular, ref_cnt
<1>7. t \in Cells /\ t \notin Hollow /\ t \in Pointers /\ t # m /\ Owned(act[c][q]) = t
  BY <1>4, <1>6, ResultFacts DEF Pointers
<1>8. Unshared(c, {path, q}, t) /\ {path, q} \in SUBSET Paths
  BY <1>2, <1>6, <1>7, SoleOwner DEF Unshared, ref_cnt
<1>9. PICK lt \in Pointers, rt \in Pointers : lt = heap[t].lc /\ rt = heap[t].rc
  BY <1>2, <1>7 DEF Nodes
<1>10. Finish(c, path, t, NoReferences) /\ NoReferences \in [Cells -> Nat]
  <2>1. Finish(c, path, Result(c, path, s), NoReferences)
    BY Zenon DEF Spine
  <2> QED BY <1>1, <2>1, BagFacts
<1>11. PICK W \in Outcomes : Promises(W)
  BY DEF MInv
<1>12. /\ W[c][path] = Elements(l) \union {e} \union Elements(r)
       /\ l \in Pointers /\ r \in Pointers
       /\ Smaller(Elements(l), e) /\ Greater(Elements(r), e)
       /\ Elements(l) \in Contents /\ Elements(r) \in Contents
       /\ e \in Nat \X Values
  BY <1>5, <1>11, JoinsTo
\* The children of m, and those of t, are to be these.
<1>13. PICK ml \in Pointers, mr \in Pointers, tl \in Pointers, tr \in Pointers :
         /\ s = "l" => ml = rt /\ mr = r /\ tl = lt /\ tr = m /\ t = l
         /\ s = "r" => ml = l /\ mr = lt /\ tl = m /\ tr = rt /\ t = r
  BY <1>1, <1>4, <1>12 DEF Sides
<1>14. heap' = [heap EXCEPT ![m].es = {e}, ![m].lc = ml, ![m].rc = mr,
                            ![t].lc = IF s = "l" THEN @ ELSE m,
                            ![t].rc = IF s = "l" THEN m ELSE @]
  <2>1. PICK i, j, ll, rr :
          /\ i = act[c][path].m /\ j = Result(c, path, s)
          /\ ll = (IF s = "l" THEN heap[j].rc ELSE Result(c, path, "l"))
          /\ rr = (IF s = "l" THEN Result(c, path, "r") ELSE heap[j].lc)
    OBVIOUS
  <2>2. heap' = [heap EXCEPT ![i].es = {e}, ![i].lc = ll, ![i].rc = rr,
                             ![j].lc = IF s = "l" THEN @ ELSE i,
                             ![j].rc = IF s = "l" THEN i ELSE @]
    BY <2>1, Zenon DEF Spine
  <2>3. i = m /\ j = t /\ ll = ml /\ rr = mr
    BY <1>1, <1>9, <1>13, <2>1 DEF Sides
  <2> HIDE DEF e
  <2> QED BY <2>2, <2>3
<1> HIDE DEF e, a
<1>15. /\ heap'[t].lc = tl /\ heap'[t].rc = tr /\ heap'[t].es = heap[t].es
       /\ heap'[m].lc = ml /\ heap'[m].rc = mr /\ heap'[m].es = {e}
       /\ \A k \in Cells : k # m /\ k # t => heap'[k] = heap[k]
  <2>1. heap[t] \in Nodes /\ heap[m] \in Nodes
    BY <1>2, <1>4, <1>7
  <2>2. heap'[m] = [[[heap[m] EXCEPT !.es = {e}] EXCEPT !.lc = ml] EXCEPT !.rc = mr]
    BY <1>2, <1>4, <1>7, <1>14
  <2>3. heap'[t] = [[heap[t] EXCEPT !.lc = tl] EXCEPT !.rc = tr]
    <3>1. heap'[t] = [[heap[t] EXCEPT !.lc = IF s = "l" THEN heap[t].lc ELSE m]
                               EXCEPT !.rc = IF s = "l" THEN m ELSE heap[t].rc]
      BY <1>2, <1>7, <1>14, <2>1 DEF Nodes
    <3>2. /\ tl = (IF s = "l" THEN heap[t].lc ELSE m)
          /\ tr = (IF s = "l" THEN m ELSE heap[t].rc)
      BY <1>9, <1>13 DEF Sides
    <3> QED BY <3>1, <3>2
  <2>4. \A k \in Cells : k # m /\ k # t => heap'[k] = heap[k]
    BY <1>2, <1>14
  <2> QED BY <2>1, <2>2, <2>3, <2>4 DEF Nodes
<1>16. \A k \in Cells : k # m /\ k # t => Stays(k)
  BY <1>15 DEF Stays
<1>17. Local(c, {path, q})
  BY <1>4, <1>8, <1>16 DEF Local
\* What was under t and under the other result stays.
<1>18. Elements(lt)' = Elements(lt) /\ Elements(rt)' = Elements(rt)
  <2>1. "l" \in Sides /\ "r" \in Sides /\ lt = Child(t, "l") /\ rt = Child(t, "r")
    BY <1>9 DEF Sides, Child
  <2>2. t \in Cells \ Hollow
    BY <1>7
  <2>3. Referred(c, {path, q}, lt) /\ Referred(c, {path, q}, rt)
    BY <1>2, <1>8, <2>1, <2>2, ChildIsReferred
  <2> QED BY <1>2, <1>8, <1>17, <2>3, ReferredStays
<1>19. /\ s = "l" => Elements(r)' = Elements(r)
       /\ s = "r" => Elements(l)' = Elements(l)
  <2>1. s = "l" => Side(path, "r") \notin {path, q}
    BY <1>4 DEF Sides
  <2>2. s = "r" => Side(path, "l") \notin {path, q}
    BY <1>4 DEF Sides
  <2>3. "l" \in Sides /\ "r" \in Sides
    BY DEF Sides
  <2> HIDE DEF q
  <2>4. s = "l" => Elements(r)' = Elements(r)
    BY <1>1, <1>2, <1>5, <1>8, <1>17, <2>1, <2>3, ResultStays
  <2>5. s = "r" => Elements(l)' = Elements(l)
    BY <1>1, <1>2, <1>5, <1>8, <1>17, <2>2, <2>3, ResultStays
  <2> QED BY <2>4, <2>5
<1>20. PICK f \in Nat \X Values : f = get_entry(t)
  BY <1>2, <1>6, <1>7, EntryType DEF is_regular
<1>21. /\ heap[t].es = {f} /\ Smaller(Elements(lt), f) /\ Greater(Elements(rt), f)
       /\ Elements(t) = {f} \union Elements(lt) \union Elements(rt)
  <2>1. is_regular(t) /\ t \in Cells \ Hollow
    BY <1>6, <1>7 DEF is_regular
  <2>2. heap[t].es = {f}
    BY <1>2, <1>20, <2>1, EntryType
  <2>3. Smaller(Elements(lt), f) /\ Greater(Elements(rt), f)
    BY <1>2, <1>9, <1>20, <2>1 DEF TreesAreOrdered, Smaller, Greater
  <2>4. ElementsSplit
    BY <1>2, TypeFacts, ElementsFacts
  <2> QED BY <1>7, <1>9, <2>2, <2>3, <2>4 DEF ElementsSplit
<1>22. /\ Elements(m)' = {e} \union Elements(ml)' \union Elements(mr)'
       /\ Elements(t)' = {f} \union Elements(tl)' \union Elements(tr)'
  <2>1. /\ TypeOK' /\ heap'[m].lc = ml /\ heap'[m].rc = mr
        /\ heap'[t].lc = tl /\ heap'[t].rc = tr
    BY <1>2, <1>15
  <2>2. Elements(m)' = heap'[m].es \union Elements(ml)' \union Elements(mr)'
    BY <1>4, <2>1, ElementsNext
  <2>3. Elements(t)' = heap'[t].es \union Elements(tl)' \union Elements(tr)'
    BY <1>7, <2>1, ElementsNext
  <2> QED BY <1>15, <1>21, <2>2, <2>3
<1>23. get_entry(m)' = e /\ get_entry(t)' = f
  BY <1>15, <1>21 DEF get_entry
<1>24. /\ \A z \in Elements(lt) \union Elements(rt) \union Elements(l) \union Elements(r) : Key(z) \in Nat
       /\ Key(e) \in Nat /\ Key(f) \in Nat
  <2>1. \A S \in Contents : \A z \in S : Key(z) \in Nat
    BY DEF Contents, Key
  <2>2. Key(e) \in Nat /\ Key(f) \in Nat
    BY <1>12, <1>20 DEF Key
  <2> QED BY <1>2, <1>12, <2>1, <2>2, ElementsType
<1>25. /\ W[c][path] = Elements(t)'
       /\ Smaller(Elements(ml)', e) /\ Greater(Elements(mr)', e)
       /\ Smaller(Elements(tl)', f) /\ Greater(Elements(tr)', f)
  <2>1. CASE s = "l"
    <3>1. PICK A, B, R : A = Elements(lt) /\ B = Elements(rt) /\ R = Elements(r)
      OBVIOUS
    <3>2. /\ ml = rt /\ mr = r /\ tl = lt /\ tr = m /\ t = l
      BY <1>13, <2>1
    <3>3. Elements(ml)' = B /\ Elements(mr)' = R /\ Elements(tl)' = A
      BY <1>18, <1>19, <2>1, <3>1, <3>2
    <3>4. Elements(tr)' = {e} \union B \union R
      BY <1>22, <3>2, <3>3
    <3>5. Elements(l) = {f} \union A \union B
      BY <1>21, <3>1, <3>2
    <3>6. W[c][path] = Elements(t)'
      BY <1>12, <1>22, <3>1, <3>3, <3>4, <3>5
    <3>7. /\ \A z \in {f} \union A \union B : Key(z) < Key(e) /\ Key(z) \in Nat
          /\ \A z \in R : Key(e) < Key(z) /\ Key(z) \in Nat
          /\ \A z \in A : Key(z) < Key(f)
          /\ \A z \in B : Key(f) < Key(z)
      BY <1>12, <1>21, <1>24, <3>1, <3>5 DEF Smaller, Greater
    <3>8. \A z \in {e} \union B \union R : Key(f) < Key(z)
      BY <1>24, <3>7
    <3> QED BY <3>3, <3>4, <3>6, <3>7, <3>8 DEF Smaller, Greater
  <2>2. CASE s = "r"
    <3>1. PICK A, B, L : A = Elements(lt) /\ B = Elements(rt) /\ L = Elements(l)
      OBVIOUS
    <3>2. /\ ml = l /\ mr = lt /\ tl = m /\ tr = rt /\ t = r
      BY <1>13, <2>2
    <3>3. Elements(ml)' = L /\ Elements(mr)' = A /\ Elements(tr)' = B
      BY <1>18, <1>19, <2>2, <3>1, <3>2
    <3>4. Elements(tl)' = {e} \union L \union A
      BY <1>22, <3>2, <3>3
    <3>5. Elements(r) = {f} \union A \union B
      BY <1>21, <3>1, <3>2
    <3>6. W[c][path] = Elements(t)'
      BY <1>12, <1>22, <3>1, <3>3, <3>4, <3>5
    <3>7. /\ \A z \in {f} \union A \union B : Key(e) < Key(z) /\ Key(z) \in Nat
          /\ \A z \in L : Key(z) < Key(e) /\ Key(z) \in Nat
          /\ \A z \in A : Key(z) < Key(f)
          /\ \A z \in B : Key(f) < Key(z)
      BY <1>12, <1>21, <1>24, <3>1, <3>5 DEF Smaller, Greater
    <3>8. \A z \in {e} \union L \union A : Key(z) < Key(f)
      BY <1>24, <3>7
    <3> QED BY <3>3, <3>4, <3>6, <3>7, <3>8 DEF Smaller, Greater
  <2> QED BY <2>1, <2>2 DEF Sides
<1>26. Sorted(m)' /\ Sorted(t)'
  <2>1. Smaller(Elements(ml)', get_entry(m)') /\ Greater(Elements(mr)', get_entry(m)')
    BY <1>23, <1>25
  <2>2. Smaller(Elements(tl)', get_entry(t)') /\ Greater(Elements(tr)', get_entry(t)')
    BY <1>23, <1>25
  <2>3. Sorted(m)'
    BY <1>15, <2>1 DEF Sorted, Smaller, Greater, Elements
  <2>4. Sorted(t)'
    BY <1>15, <2>2 DEF Sorted, Smaller, Greater, Elements
  <2> QED BY <2>3, <2>4
<1>27. Hollow' = Hollow \ {m}
  BY <1>2, <1>5, <1>7, <1>10, FinishHollow
<1>28. \A k \in Cells : k \notin Hollow' /\ is_regular(k)' =>
         Sorted(k)' \/ (k \notin Hollow /\ Stays(k))
  BY <1>16, <1>26, <1>27
<1>29. Local(c, Family(path))
  <2>1. ASSUME NEW k \in Cells, ~Unshared(c, Family(path), k) PROVE ~Unshared(c, {path, q}, k)
    BY <1>4, <2>1 DEF Unshared, Sides
  <2> QED BY <1>17, <2>1 DEF Local
<1> QED BY <1>2, <1>5, <1>7, <1>10, <1>11, <1>25, <1>28, <1>29, FinishMaps
-----------------------------------------------------------------------------
(* Forking.                                                                *)

(* What is to become of a node with a batch is what its entry, with an     *)
(* equal element of the batch, and its subtrees, with their parts, become. *)
LEMMA ForksInto ==
  ASSUME IInv, TreesAreOrdered, NEW p \in Cells \ Hollow, is_regular(p),
         NEW es \in Contents, Distinct(es),
         NEW x, x = CHOOSE k \in Inserted(heap[p].es, es) : Key(k) = Key(get_entry(p)),
         NEW l, l = Inserted(Elements(Child(p, "l")), Part(es, get_entry(p), "l")),
         NEW r, r = Inserted(Elements(Child(p, "r")), Part(es, get_entry(p), "r"))
  PROVE  /\ Inserted(Elements(p), es) = l \union {x} \union r
         /\ Smaller(l, get_entry(p)) /\ Greater(r, get_entry(p))
         /\ l \in Contents /\ r \in Contents
         /\ \A s \in Sides : /\ Distinct(Part(es, get_entry(p), s))
                             /\ Part(es, get_entry(p), s) \in Contents
<1>1. TypeOK /\ NodeShape
  BY DEF IInv
<1>2. PICK e \in Nat \X Values : e = get_entry(p) /\ heap[p].es = {e}
  BY <1>1, EntryType
<1>3. PICK i \in Pointers, j \in Pointers : i = Child(p, "l") /\ j = Child(p, "r")
  BY <1>1, TypeFacts DEF Sides
<1>4. PICK L \in Contents, R \in Contents : L = Elements(i) /\ R = Elements(j)
  BY <1>1, ElementsType
<1>5. Smaller(L, e) /\ Greater(R, e)
  BY <1>2, <1>3, <1>4 DEF TreesAreOrdered, Smaller, Greater, Child
<1>6. Elements(p) = {e} \union L \union R
  <2>1. ElementsSplit
    BY <1>1, TypeFacts, ElementsFacts
  <2>2. heap[p].lc = i /\ heap[p].rc = j
    BY <1>3 DEF Child
  <2> QED BY <1>2, <1>4, <2>1, <2>2 DEF ElementsSplit
<1>7. x \in Inserted({e}, es) /\ Key(x) = Key(e)
  <2>1. \E k \in Inserted({e}, es) : Key(k) = Key(e)
    BY DEF Inserted, KeysOf
  <2> QED BY <1>2, <2>1
<1>8. /\ Inserted({e} \union L \union R, es)
           = Inserted(L, Part(es, e, "l")) \union {x} \union Inserted(R, Part(es, e, "r"))
      /\ Smaller(Inserted(L, Part(es, e, "l")), e) /\ Greater(Inserted(R, Part(es, e, "r")), e)
      /\ Distinct(Part(es, e, "l")) /\ Distinct(Part(es, e, "r"))
  <2>1. PICK y \in Inserted({e}, es) : y = x
    BY <1>7
  <2>2. Key(y) = Key(e)
    BY <1>7, <2>1
  <2> QED BY ONLY Distinct(es), <1>5, <2>1, <2>2, SplitInsert
<1>9. \A s \in Sides : Part(es, e, s) \in Contents
  BY DEF Part, Contents
<1>10. l = Inserted(L, Part(es, e, "l")) /\ r = Inserted(R, Part(es, e, "r"))
  BY <1>2, <1>3, <1>4
<1>11. l \in Contents /\ r \in Contents
  BY <1>9, <1>10, InsertedType DEF Sides
<1> QED BY <1>2, <1>6, <1>8, <1>9, <1>10, <1>11 DEF Sides

(* The node at an activation's pointer is not hollow.                      *)
LEMMA GivenIsSolid ==
  ASSUME IInv, NEW c \in Clients, NEW path \in Paths, act[c][path].pc \in {"enter", "single"}
  PROVE  act[c][path].p \notin Hollow
<1>1. {} \in SUBSET Paths
  OBVIOUS
<1> QED BY <1>1, OutsideIsReferred DEF Referred

(* A node's subtrees and their parts of the batch are given to branches.   *)
LEMMA ExposeMaps ==
  ASSUME IInv, IInv', MInv, NEW c \in Clients, NEW path \in Paths, Expose(c, path),
         UNCHANGED <<given, root, due, left>>
  PROVE  MInv'
<1> DEFINE a == act[c][path]
           copy == RequiresCopy(a.p, a.extra)
           Lent(s) == [Entering(Child(a.p, s), copy, Part(a.es, get_entry(a.p), s))
                         EXCEPT !.pc = IF copy THEN "held" ELSE "enter"]
           taken == [a EXCEPT !.pc = "fork", !.p = Null, !.m = a.p]
           lending == [a EXCEPT !.pc = "single", !.extra = TRUE,
                                !.todo = IF a.extra THEN NoReferences ELSE Reference(a.p)]
<1>1. /\ TypeOK /\ TypeOK' /\ Base /\ a \in Activations /\ TreesAreOrdered
      /\ act \in [Clients -> [Paths -> Activations]]
  BY ActivationType, BaseOfIInv DEF IInv, MInv, TypeOK, Activations
<1>2. a.pc = "enter" /\ a.p # Null /\ is_regular(a.p) /\ Len(path) < MaxDepth /\ heap' = heap
  BY DEF Expose, At
<1>3. PICK l \in Paths, r \in Paths, p \in Cells :
        /\ l = Side(path, "l") /\ r = Side(path, "r") /\ l # r /\ l # path /\ r # path
        /\ Family(path) = {path, l, r} /\ p = a.p /\ p \in Pointers /\ l # Top /\ r # Top
  <2>1. a.p \in Cells /\ a.p \in Pointers
    BY <1>1, <1>2 DEF Activations, Pointers
  <2> QED BY <1>2, <2>1, PathFacts DEF Sides
<1>4. PICK es, e : es \in Contents /\ es = a.es /\ e = get_entry(p)
  BY <1>1 DEF Activations
<1>5. act' = [act EXCEPT ![c][path] = IF copy THEN lending ELSE taken,
                         ![c][l] = Lent("l"), ![c][r] = Lent("r")]
  BY <1>3 DEF Expose
<1>6. /\ act'[c][path] = IF copy THEN lending ELSE taken
      /\ act'[c][l] = Lent("l") /\ act'[c][r] = Lent("r")
      /\ \A d \in Clients, q \in Paths : d # c \/ q \notin {path, l, r} => act'[d][q] = act[d][q]
  <2> HIDE DEF a, taken, lending, Lent, copy
  <2> QED BY <1>1, <1>3, <1>5
<1>7. \A s \in Sides : /\ Lent(s).pc \in {"held", "enter"} /\ Lent(s).p = Child(p, s)
                       /\ Lent(s).es = Part(es, e, s)
  BY <1>3, <1>4 DEF Entering, Idle
<1>8. /\ taken.pc = "fork" /\ taken.m = p /\ taken.es = es
      /\ lending.pc = "single" /\ lending.p = p /\ lending.es = es
  BY <1>1, <1>3, <1>4 DEF Activations
<1> HIDE DEF a, taken, lending, Lent, copy
<1>9. PICK W \in Outcomes : Promises(W)
  BY DEF MInv
<1>10. Distinct(es) /\ W[c][path] = Inserted(Elements(p), es)
  BY <1>2, <1>3, <1>4, <1>9 DEF Promises, Gives, Pending, a
<1>11. p \in Cells \ Hollow /\ is_regular(p)
  BY <1>2, <1>3, GivenIsSolid DEF a
<1>12. PICK x, wl, wr :
         /\ x = CHOOSE k \in Inserted(heap[p].es, es) : Key(k) = Key(get_entry(p))
         /\ wl = Inserted(Elements(Child(p, "l")), Part(es, get_entry(p), "l"))
         /\ wr = Inserted(Elements(Child(p, "r")), Part(es, get_entry(p), "r"))
  OBVIOUS
<1>13. /\ W[c][path] = wl \union {x} \union wr
       /\ Smaller(wl, e) /\ Greater(wr, e)
       /\ wl \in Contents /\ wr \in Contents
       /\ \A s \in Sides : Distinct(Part(es, e, s))
  <2>1. /\ Inserted(Elements(p), es) = wl \union {x} \union wr
        /\ Smaller(wl, get_entry(p)) /\ Greater(wr, get_entry(p))
        /\ wl \in Contents /\ wr \in Contents
        /\ \A s \in Sides : Distinct(Part(es, get_entry(p), s))
    <3>1. TreesAreOrdered /\ p \in Cells \ Hollow /\ is_regular(p) /\ Distinct(es)
      BY <1>1, <1>10, <1>11
    <3> QED BY ONLY IInv, <3>1, <1>4, <1>12, ForksInto
  <2> QED BY <1>4, <1>10, <2>1
<1>14. PICK V \in Outcomes :
         /\ V[c][path] = W[c][path] /\ V[c][l] = wl /\ V[c][r] = wr
         /\ \A d \in Clients, q \in Paths : d # c \/ q \notin {path, l, r} => V[d][q] = W[d][q]
  <2>1. [W EXCEPT ![c] = [W[c] EXCEPT ![l] = wl, ![r] = wr]] \in Outcomes
    BY <1>13 DEF Outcomes
  <2> QED BY <1>3, <2>1 DEF Outcomes
<1>15. \A n \in Cells : Stays(n)
  BY <1>2 DEF Stays
<1>16. ASSUME NEW s \in Sides, NEW q \in {l, r}, q = Side(path, s),
              V[c][q] = Inserted(Elements(Child(p, s)), Part(es, e, s))
       PROVE  Gives(V, c, q)'
  <2>1. PICK i \in Pointers : i = Child(p, s)
    BY <1>1, TypeFacts
  <2>2. Elements(i)' = Elements(i)
    BY <1>1, <1>15, AllStay
  <2>3. /\ act'[c][q].pc \in {"held", "enter"} /\ act'[c][q].p = i /\ act'[c][q].es = Part(es, e, s)
    <3>1. act'[c][q] = Lent(s)
      BY <1>3, <1>6, <1>16 DEF Sides
    <3> QED BY <1>7, <2>1, <3>1
  <2>4. V[c][q] = Inserted(Elements(i)', act'[c][q].es)
    BY <1>16, <2>1, <2>2, <2>3
  <2>5. V[c][q] = Pending(act[c][q])'
    BY <2>3, <2>4 DEF Pending, Elements
  <2> QED BY <1>13, <2>3, <2>5 DEF Gives, Joining
<1>17. Gives(V, c, l)' /\ Gives(V, c, r)'
  <2>1. V[c][l] = Inserted(Elements(Child(p, "l")), Part(es, e, "l"))
    BY <1>4, <1>12, <1>14
  <2>2. V[c][r] = Inserted(Elements(Child(p, "r")), Part(es, e, "r"))
    BY <1>4, <1>12, <1>14
  <2> QED BY <1>3, <1>16, <2>1, <2>2 DEF Sides
<1>18. Gives(V, c, path)'
  <2>1. CASE copy
    <3>1. act'[c][path].pc = "single" /\ act'[c][path].p = p /\ act'[c][path].es = es
      BY <1>6, <1>8, <2>1
    <3>2. Elements(p)' = Elements(p)
      BY <1>1, <1>3, <1>15, AllStay
    <3>3. V[c][path] = Inserted(Elements(p)', act'[c][path].es)
      BY <1>10, <1>14, <3>1, <3>2
    <3>4. V[c][path] = Pending(act[c][path])'
      BY <3>1, <3>3 DEF Pending, Elements
    <3>5. ASSUME NEW s \in Sides
          PROVE  /\ act'[c][Side(path, s)].p = Child(act[c][path].p, s)'
                 /\ act'[c][Side(path, s)].es = Part(act'[c][path].es, get_entry(act[c][path].p)', s)
      <4>1. /\ act'[c][Side(path, s)].p = Child(p, s)
            /\ act'[c][Side(path, s)].es = Part(es, get_entry(p), s)
        BY <1>3, <1>4, <1>6, <1>7 DEF Sides
      <4> QED BY <1>2, <3>1, <4>1 DEF Child, get_entry
    <3> QED BY <1>10, <3>1, <3>4, <3>5 DEF Gives, Joining
  <2>2. CASE ~copy
    <3>1. act'[c][path].pc = "fork" /\ act'[c][path].m = p /\ act'[c][path].es = es
      BY <1>6, <1>8, <2>2
    <3>2. EntryOf(act[c][path])' = x /\ get_entry(act[c][path].m)' = e
      BY <1>2, <1>4, <1>12, <3>1 DEF EntryOf, get_entry
    <3>3. V[c][path] = V[c][l] \union {x} \union V[c][r] /\ Smaller(V[c][l], e) /\ Greater(V[c][r], e)
      BY <1>13, <1>14
    <3> QED BY <1>3, <1>10, <3>1, <3>2, <3>3 DEF Gives, Joining
  <2> QED BY <2>1, <2>2
<1>19. Hollow \subseteq Hollow'
  <2>1. ASSUME NEW d \in Clients, NEW q \in Paths, act[d][q].pc \in Joining
        PROVE  act'[d][q] = act[d][q]
    <3>1. ~(d = c /\ q = path)
      BY <1>2, <2>1 DEF Joining, a
    <3>2. ~(d = c /\ q \in {l, r})
      <4>1. act[c][l] = Idle /\ act[c][r] = Idle
        BY <1>2, <1>3 DEF IInv, Forking, Joining, Sides, a
      <4> QED BY <2>1, <4>1, IdleFacts DEF Joining
    <3> QED BY <1>6, <3>1, <3>2
  <2> QED BY <2>1 DEF Hollow
<1> QED
  <2>1. Family(path) \in SUBSET Family(path) /\ path \in Family(path) /\ act[c][path].pc # "held"
    BY <1>2, <1>3 DEF a
  <2>2. \A d \in Clients, q \in Paths :
          d # c \/ q \notin Family(path) => Same(act[d][q], act'[d][q]) /\ V[d][q] = W[d][q]
    BY <1>3, <1>6, <1>14 DEF Same
  <2>3. ASSUME NEW d \in Clients PROVE Owes(V, d)'
    <3>1. act'[c][path].pc \in {"single", "fork"}
      BY <1>6, <1>8
    <3>2. /\ V[d][Top] = W[d][Top]
          /\ act'[d][Top].pc = "idle" <=> act[d][Top].pc = "idle"
      BY <1>2, <1>3, <1>6, <1>14, <3>1, SideFacts DEF a
    <3> QED BY <1>9, <3>2, OwesStays
  <2>4. \A q \in Family(path) : Gives(V, c, q)'
    BY <1>3, <1>17, <1>18
  <2>5. Local(c, Family(path))
    BY <1>15 DEF Local
  <2>6. \A n \in Cells : n \notin Hollow' /\ is_regular(n)' =>
          Sorted(n)' \/ (n \notin Hollow /\ Stays(n))
    BY <1>15, <1>19
  <2> QED BY <1>1, <1>9, <1>14, <2>1, <2>2, <2>3, <2>4, <2>5, <2>6, MapsStep

(* A copy of the entry is made to join with, and the branches begin.       *)
LEMMA SingleMaps ==
  ASSUME IInv, IInv', MInv, NEW c \in Clients, NEW path \in Paths, Single(c, path),
         UNCHANGED <<given, root, due, left>>
  PROVE  MInv'
<1> DEFINE a == act[c][path]
           b == [a EXCEPT !.pc = "fork", !.p = Null, !.extra = FALSE, !.m = Fresh]
           Entered(q) == [act[c][q] EXCEPT !.pc = "enter"]
<1>1. /\ TypeOK /\ TypeOK' /\ Base /\ NodeShape /\ a \in Activations /\ TreesAreOrdered
      /\ act \in [Clients -> [Paths -> Activations]] /\ heap \in [Cells -> Nodes]
      /\ Holding(c, path) /\ Forking(c, path)
  BY ActivationType, HeapType, BaseOfIInv DEF IInv, MInv, TypeOK, Activations
<1>2. a.pc = "single" /\ HasRoom
  BY DEF Single, At
<1>3. PICK l \in Paths, r \in Paths, p \in Cells :
        /\ l = Side(path, "l") /\ r = Side(path, "r") /\ l # r /\ l # path /\ r # path
        /\ Family(path) = {path, l, r} /\ p = a.p /\ p \in Pointers /\ l # Top /\ r # Top
  <2>1. a.p \in Cells /\ a.p \in Pointers /\ Len(path) < MaxDepth
    BY <1>1, <1>2 DEF Holding, Activations, Pointers
  <2> QED BY <2>1, PathFacts DEF Sides
<1>4. PICK es, e : es \in Contents /\ es = a.es /\ e = get_entry(p)
  BY <1>1 DEF Activations
<1>5. PICK k \in Cells : k = Fresh
  BY <1>2, FreshFacts
<1>6. \A P \in SUBSET Paths : Unshared(c, P, k)
  BY <1>2, <1>5, FreshFacts
<1>7. p \in Cells \ Hollow /\ is_regular(p) /\ heap[p].es = {e}
  <2>1. p \notin Hollow /\ is_regular(p)
    BY <1>1, <1>2, <1>3, GivenIsSolid DEF Holding
  <2> QED BY <1>1, <1>4, <2>1, EntryType
<1>8. heap'[k].es = {e} /\ \A n \in Cells : n # k => heap'[n] = heap[n]
  <2>1. heap' = [heap EXCEPT ![k] = Regular(e, Null, Null)]
    BY <1>3, <1>4, <1>5 DEF Single
  <2> QED BY <1>1, <2>1 DEF Regular
<1>9. act' = [act EXCEPT ![c][path] = b, ![c][l].pc = "enter", ![c][r].pc = "enter"]
  BY <1>3 DEF Single
<1>10. /\ act'[c][path] = b /\ act'[c][l] = Entered(l) /\ act'[c][r] = Entered(r)
       /\ \A d \in Clients, q \in Paths : d # c \/ q \notin {path, l, r} => act'[d][q] = act[d][q]
  <2> HIDE DEF a, b
  <2> QED BY <1>1, <1>3, <1>9
<1>11. b.pc = "fork" /\ b.m = k /\ b.es = es
  BY <1>1, <1>4, <1>5 DEF Activations
<1>12. \A q \in {l, r} : /\ act'[c][q].pc = "enter" /\ act'[c][q].p = act[c][q].p
                         /\ act'[c][q].es = act[c][q].es /\ act[c][q].pc = "held"
  <2>1. \A q \in {l, r} : act[c][q] \in Activations /\ act[c][q].pc = "held"
    BY <1>1, <1>2, <1>3 DEF Forking, Holding, Sides
  <2> QED BY <1>10, <2>1 DEF Activations
<1> HIDE DEF a, b, Entered
<1>13. PICK W \in Outcomes : Promises(W)
  BY DEF MInv
<1>14. Distinct(es) /\ W[c][path] = Inserted(Elements(p), es)
  BY <1>2, <1>3, <1>4, <1>13 DEF Promises, Gives, Pending, a
<1>15. ASSUME NEW s \in Sides, NEW q \in {l, r}, q = Side(path, s)
       PROVE  /\ act[c][q].p = Child(p, s) /\ act[c][q].es = Part(es, e, s)
              /\ W[c][q] = Inserted(Elements(Child(p, s)), Part(es, e, s))
              /\ Distinct(act[c][q].es)
  <2>1. act[c][q].p = Child(p, s) /\ act[c][q].es = Part(es, e, s)
    BY <1>2, <1>3, <1>4, <1>13, <1>15 DEF Promises, Gives, a
  <2>2. W[c][q] = Inserted(Elements(act[c][q].p), act[c][q].es) /\ Distinct(act[c][q].es)
    BY <1>12, <1>13 DEF Promises, Gives, Pending
  <2> QED BY <2>1, <2>2
<1>16. PICK x : x = CHOOSE i \in Inserted(heap[p].es, es) : Key(i) = Key(get_entry(p))
  OBVIOUS
<1>17. W[c][path] = W[c][l] \union {x} \union W[c][r] /\ Smaller(W[c][l], e) /\ Greater(W[c][r], e)
  <2>1. PICK wl, wr : /\ wl = Inserted(Elements(Child(p, "l")), Part(es, get_entry(p), "l"))
                      /\ wr = Inserted(Elements(Child(p, "r")), Part(es, get_entry(p), "r"))
    OBVIOUS
  <2>2. TreesAreOrdered /\ p \in Cells \ Hollow /\ is_regular(p) /\ Distinct(es)
    BY <1>1, <1>7, <1>14
  <2>3. /\ Inserted(Elements(p), es) = wl \union {x} \union wr
        /\ Smaller(wl, get_entry(p)) /\ Greater(wr, get_entry(p))
    BY ONLY IInv, <1>4, <1>16, <2>1, <2>2, ForksInto
  <2>4. W[c][l] = wl /\ W[c][r] = wr
    BY <1>3, <1>4, <1>15, <2>1 DEF Sides
  <2> QED BY <1>4, <1>14, <2>3, <2>4
<1>18. \A n \in Cells : n # k => Stays(n)
  BY <1>8 DEF Stays
<1>19. Local(c, Family(path)) /\ Family(path) \in SUBSET Paths
  BY <1>3, <1>6, <1>18 DEF Local
<1>20. ASSUME NEW s \in Sides, NEW q \in {l, r}, q = Side(path, s)
       PROVE  Gives(W, c, q)'
  <2>1. PICK i \in Pointers : i = Child(p, s) /\ Referred(c, Family(path), i)
    BY <1>1, <1>7, <1>19, ChildIsReferred
  <2>2. Elements(i)' = Elements(i)
    BY <1>1, <1>19, <2>1, ReferredStays
  <2>3. /\ act'[c][q].pc = "enter" /\ act'[c][q].p = i /\ act'[c][q].es = Part(es, e, s)
        /\ Distinct(act'[c][q].es)
    BY <1>12, <1>15, <1>20, <2>1
  <2>4. W[c][q] = Inserted(Elements(i)', act'[c][q].es)
    BY <1>15, <1>20, <2>1, <2>2, <2>3
  <2>5. W[c][q] = Pending(act[c][q])'
    BY <2>3, <2>4 DEF Pending, Elements
  <2> QED BY <2>3, <2>5 DEF Gives, Joining
<1>21. Gives(W, c, l)' /\ Gives(W, c, r)'
  BY <1>3, <1>20 DEF Sides
<1>22. Gives(W, c, path)'
  <2>1. act'[c][path].pc = "fork" /\ act'[c][path].m = k /\ act'[c][path].es = es
    BY <1>10, <1>11
  <2>2. get_entry(act[c][path].m)' = e
    BY <1>8, <2>1 DEF get_entry
  <2>3. EntryOf(act[c][path])' = x
    BY <1>4, <1>7, <1>8, <1>16, <2>1, <2>2 DEF EntryOf
  <2> QED BY <1>3, <1>14, <1>17, <2>1, <2>2, <2>3 DEF Gives, Joining
<1>23. Hollow \subseteq Hollow' /\ k \in Hollow'
  <2>1. ASSUME NEW d \in Clients, NEW q \in Paths, act[d][q].pc \in Joining
        PROVE  act'[d][q] = act[d][q]
    <3>1. ~(d = c /\ q = path)
      BY <1>2, <2>1 DEF Joining, a
    <3>2. ~(d = c /\ q \in {l, r})
      BY <1>12, <2>1 DEF Joining
    <3> QED BY <1>10, <3>1, <3>2
  <2>2. act'[c][path].pc \in Joining /\ act'[c][path].m = k
    BY <1>10, <1>11 DEF Joining
  <2> QED BY <2>1, <2>2 DEF Hollow
<1> QED
  <2>1. Family(path) \in SUBSET Family(path) /\ path \in Family(path) /\ act[c][path].pc # "held"
    BY <1>2, <1>3 DEF a
  <2>2. \A d \in Clients, q \in Paths : d # c \/ q \notin Family(path) => Same(act[d][q], act'[d][q])
    BY <1>3, <1>10 DEF Same
  <2>3. ASSUME NEW d \in Clients PROVE Owes(W, d)'
    <3>1. act'[c][path].pc = "fork"
      BY <1>10, <1>11
    <3>2. act'[d][Top].pc = "idle" <=> act[d][Top].pc = "idle"
      BY <1>2, <1>3, <1>10, <3>1, SideFacts DEF a
    <3> QED BY <1>13, <3>2, OwesStays
  <2>4. \A q \in Family(path) : Gives(W, c, q)'
    BY <1>3, <1>21, <1>22
  <2>5. \A n \in Cells : n \notin Hollow' /\ is_regular(n)' =>
          Sorted(n)' \/ (n \notin Hollow /\ Stays(n))
    BY <1>18, <1>23
  <2> QED BY <1>1, <1>13, <1>19, <2>1, <2>2, <2>3, <2>4, <2>5, MapsStep
-----------------------------------------------------------------------------
(* The steps of clients.                                                   *)

(* A variable is copied: nothing but a count changes.                      *)
LEMMA CopyMapMaps ==
  ASSUME IInv, IInv', MInv, NEW c \in Clients, CopyMap(c)
  PROVE  MInv'
<1>1. TypeOK /\ TypeOK' /\ heap \in [Cells -> Nodes] /\ TreesAreOrdered /\ Top \in Paths
  BY HeapType, SideFacts DEF IInv, MInv
<1>2. act' = act /\ due' = due /\ heap' = [heap EXCEPT ![root[c]["x"]].cnt = @ + 1]
  BY DEF CopyMap
<1>3. ASSUME NEW n \in Cells PROVE Stays(n)
  <2>1. PICK i : heap'[n] = [heap[n] EXCEPT !.cnt = i] \/ heap'[n] = heap[n]
    BY <1>1, <1>2
  <2>2. heap[n] \in Nodes
    BY <1>1
  <2> QED BY <2>1, <2>2 DEF Stays, Nodes
<1>4. PICK W \in Outcomes : Promises(W)
  BY DEF MInv
<1>5. \A d \in Clients : Owes(W, d)'
  BY <1>2, <1>4 DEF Promises, Owes
<1>6. Hollow' = Hollow
  BY <1>2 DEF Hollow
<1>7. Local(c, {}) /\ {} \in SUBSET Family(Top)
  BY <1>3 DEF Local
<1>8. \A d \in Clients, q \in Paths : Same(act[d][q], act'[d][q])
  BY <1>2 DEF Same
<1>9. \A n \in Cells : n \notin Hollow' /\ is_regular(n)' =>
        Sorted(n)' \/ (n \notin Hollow /\ Stays(n))
  BY <1>3, <1>6
<1> QED BY <1>1, <1>4, <1>5, <1>7, <1>8, <1>9, MapsStep

(* A variable is cleared: no node changes yet.                             *)
LEMMA ClearMapMaps ==
  ASSUME IInv, IInv', MInv, NEW c \in Clients, NEW v \in Names, ClearMap(c, v)
  PROVE  MInv'
<1>1. /\ TypeOK /\ TypeOK' /\ TreesAreOrdered /\ Top \in Paths /\ Base
      /\ act \in [Clients -> [Paths -> Activations]]
  BY SideFacts, BaseOfIInv DEF IInv, MInv, TypeOK, Activations
<1>2. heap' = heap /\ due' = due /\ act' = [act EXCEPT ![c][Top].todo = Reference(root[c][v])]
  BY DEF ClearMap
<1>3. ASSUME NEW d \in Clients, NEW q \in Paths PROVE Same(act[d][q], act'[d][q])
  <2>1. act[d][q] \in Activations
    BY <1>1
  <2>2. PICK i : act'[d][q] = [act[d][q] EXCEPT !.todo = i] \/ act'[d][q] = act[d][q]
    BY <1>1, <1>2
  <2> QED BY <2>1, <2>2 DEF Same, Activations
<1>4. \A n \in Cells : Stays(n)
  BY <1>2 DEF Stays
<1>5. PICK W \in Outcomes : Promises(W)
  BY DEF MInv
<1>6. \A d \in Clients : Owes(W, d)'
  <2>1. ASSUME NEW d \in Clients PROVE Owes(W, d)'
    <3>1. act'[d][Top].pc = act[d][Top].pc
      BY <1>1, <1>3 DEF Same
    <3> QED BY <1>2, <1>5, <3>1, OwesStays
  <2> QED BY <2>1
<1>7. Hollow' = Hollow
  <2>1. \A d \in Clients, q \in Paths : JoinsWith(act'[d][q]) = JoinsWith(act[d][q])
    BY <1>3 DEF JoinsWith, Same
  <2> QED BY <1>1, <2>1, SameHollow
<1>8. Local(c, {}) /\ {} \in SUBSET Family(Top)
  BY <1>4 DEF Local
<1>9. \A n \in Cells : n \notin Hollow' /\ is_regular(n)' =>
        Sorted(n)' \/ (n \notin Hollow /\ Stays(n))
  BY <1>4, <1>7
<1> QED BY <1>1, <1>3, <1>5, <1>6, <1>8, <1>9, MapsStep

(* A call is going to return its variable's elements with the batch        *)
(* inserted.                                                               *)
LEMMA BeginMaps ==
  ASSUME IInv, IInv', MInv, NEW c \in Clients, Begin(c)
  PROVE  MInv'
<1>1. /\ TypeOK /\ TypeOK' /\ TreesAreOrdered /\ Top \in Paths /\ Base /\ "x" \in Names
      /\ act \in [Clients -> [Paths -> Activations]] /\ heap \in [Cells -> Nodes]
      /\ left \in 0..MaxCalls
  BY SideFacts, BaseOfIInv, HeapType DEF IInv, MInv, TypeOK, Activations, Names
<1>2. PICK x \in Pointers : x = root[c]["x"]
  BY <1>1, TypeFacts
<1>3. PICK K \in given.batches, moved \in BOOLEAN :
        /\ moved => MayMove(c)
        /\ act' = [act EXCEPT ![c][Top] =
                     Entering(root[c]["x"], FALSE, {<<k, left>> : k \in K})]
        /\ due' = [due EXCEPT ![c] = {Inserted(Elements(root[c]["x"]), {<<k, left>> : k \in K})}]
        /\ UNCHANGED given
        /\ IF moved
           THEN root' = [root EXCEPT ![c]["x"] = Null] /\ UNCHANGED heap
           ELSE /\ heap' = IF root[c]["x"] = Null THEN heap
                           ELSE [heap EXCEPT ![root[c]["x"]].cnt = @ + 1]
                /\ UNCHANGED root
  BY Zenon DEF Begin
<1>4. PICK es : es = {<<k, left>> : k \in K}
  OBVIOUS
<1>5. Distinct(es)
  BY <1>4 DEF Distinct, Key
<1>6. es \in Contents
  <2>1. K \subseteq Nat
    BY <1>1, GivenAssumption DEF TypeOK, IsGiven
  <2>2. left \in Values
    BY <1>1 DEF Values
  <2> QED BY <1>4, <2>1, <2>2 DEF Contents
<1>7. PICK b : b = Entering(x, FALSE, es)
  OBVIOUS
<1>8. b.pc = "enter" /\ b.p = x /\ b.es = es /\ b.m = Null
  BY <1>7 DEF Entering, Idle
<1>9. /\ act'[c][Top] = b
      /\ \A d \in Clients, q \in Paths : d # c \/ q # Top => act'[d][q] = act[d][q]
  BY <1>1, <1>2, <1>3, <1>4, <1>7
<1>10. PICK m \in Contents : m = Inserted(Elements(x), es)
  BY <1>1, <1>6, ElementsType, InsertedType
<1>11. due' = [due EXCEPT ![c] = {m}]
  BY <1>2, <1>3, <1>4, <1>10
<1>12. ASSUME NEW n \in Cells PROVE Stays(n)
  <2>1. PICK i : heap'[n] = [heap[n] EXCEPT !.cnt = i] \/ heap'[n] = heap[n]
    BY <1>1, <1>3
  <2>2. heap[n] \in Nodes
    BY <1>1
  <2> QED BY <2>1, <2>2 DEF Stays, Nodes
<1>13. Elements(x)' = Elements(x)
  BY <1>1, <1>12, AllStay
<1>14. PICK W \in Outcomes : Promises(W)
  BY DEF MInv
<1> DEFINE V == [W EXCEPT ![c][Top] = m]
<1>15. /\ V \in Outcomes /\ V[c][Top] = m
       /\ \A d \in Clients, q \in Paths : d # c \/ q # Top => V[d][q] = W[d][q]
  BY <1>1, <1>10, <1>14 DEF Outcomes
<1> HIDE DEF V
<1>16. Gives(V, c, Top)'
  <2>1. act'[c][Top].p = x /\ act'[c][Top].es = es /\ act'[c][Top].pc = "enter"
    BY <1>8, <1>9
  <2>2. Pending(act[c][Top])' = Inserted(Elements(x)', es)
    BY <2>1 DEF Pending, Elements
  <2>3. V[c][Top] = Pending(act[c][Top])'
    BY <1>10, <1>13, <1>15, <2>2
  <2> QED BY <1>5, <2>1, <2>3 DEF Gives, Joining
<1>17. ASSUME NEW d \in Clients PROVE Owes(V, d)'
  <2>1. due \in [Clients -> SUBSET Contents]
    BY <1>1 DEF TypeOK
  <2>2. CASE d = c
    <3>1. due'[c] = {m} /\ act'[c][Top].pc = "enter"
      BY <1>8, <1>9, <1>11, <2>1
    <3> QED BY <1>15, <2>2, <3>1 DEF Owes
  <2>3. CASE d # c
    <3>1. due'[d] = due[d] /\ act'[d][Top] = act[d][Top] /\ V[d][Top] = W[d][Top]
      BY <1>1, <1>9, <1>11, <1>15, <2>1, <2>3
    <3>2. Owes(W, d)
      BY <1>14 DEF Promises
    <3> QED BY <3>1, <3>2 DEF Owes
  <2> QED BY <2>2, <2>3
<1>18. Hollow' = Hollow
  <2>1. act[c][Top].pc = "idle"
    BY IdleFacts DEF Begin, Resting
  <2> QED BY <1>1, <1>8, <1>9, <2>1, NothingHollow DEF Joining
<1>19. \A n \in Cells : n \notin Hollow' /\ is_regular(n)' =>
         Sorted(n)' \/ (n \notin Hollow /\ Stays(n))
  BY <1>12, <1>18
<1>20. {Top} \in SUBSET Family(Top) /\ Local(c, {Top})
  BY <1>12 DEF Family, Local
<1>21. \A d \in Clients, q \in Paths :
         d # c \/ q \notin {Top} => Same(act[d][q], act'[d][q]) /\ V[d][q] = W[d][q]
  BY <1>9, <1>15 DEF Same
<1> QED BY <1>1, <1>14, <1>15, <1>16, <1>17, <1>19, <1>20, <1>21, MapsStep

(* A call that has returned owes nothing.                                  *)
LEMMA ReturnMaps ==
  ASSUME IInv, IInv', MInv, NEW c \in Clients, Return(c)
  PROVE  MInv'
<1>1. /\ TypeOK /\ TypeOK' /\ TreesAreOrdered /\ Top \in Paths /\ Base
      /\ act \in [Clients -> [Paths -> Activations]]
      /\ due \in [Clients -> SUBSET Contents]
  BY SideFacts, BaseOfIInv DEF IInv, MInv, TypeOK, Activations
<1>2. PICK b : b = [Idle EXCEPT !.todo = Reference(root[c]["x"])]
  OBVIOUS
<1>3. act' = [act EXCEPT ![c][Top] = b] /\ due' = [due EXCEPT ![c] = {}] /\ heap' = heap
  BY <1>2 DEF Return
<1>4. b.pc = "idle" /\ b.es = {}
  BY <1>2 DEF Idle
<1>5. /\ act'[c][Top] = b /\ due'[c] = {}
      /\ \A d \in Clients : d # c => due'[d] = due[d]
      /\ \A d \in Clients, q \in Paths : d # c \/ q # Top => act'[d][q] = act[d][q]
  BY <1>1, <1>3
<1>6. \A n \in Cells : Stays(n)
  BY <1>3 DEF Stays
<1>7. PICK W \in Outcomes : Promises(W)
  BY DEF MInv
<1>8. Gives(W, c, Top)'
  <2>1. Distinct({}) /\ act'[c][Top].pc = "idle" /\ act'[c][Top].es = {}
    BY <1>4, <1>5 DEF Distinct
  <2> QED BY <2>1 DEF Gives, Joining
<1>9. ASSUME NEW d \in Clients PROVE Owes(W, d)'
  <2>1. CASE d = c
    BY <1>4, <1>5, <2>1 DEF Owes
  <2>2. CASE d # c
    <3>1. due'[d] = due[d] /\ act'[d][Top] = act[d][Top] /\ Owes(W, d)
      BY <1>1, <1>5, <1>7, <2>2 DEF Promises
    <3> QED BY <3>1 DEF Owes
  <2> QED BY <2>1, <2>2
<1>10. Hollow' = Hollow
  <2>1. act[c][Top].pc = "done"
    BY DEF Return, At
  <2> QED BY <1>1, <1>4, <1>5, <2>1, NothingHollow DEF Joining
<1>11. \A n \in Cells : n \notin Hollow' /\ is_regular(n)' =>
         Sorted(n)' \/ (n \notin Hollow /\ Stays(n))
  BY <1>6, <1>10
<1>12. {Top} \in SUBSET Family(Top) /\ Local(c, {Top})
  BY <1>6 DEF Family, Local
<1>13. \A d \in Clients, q \in Paths :
         d # c \/ q \notin {Top} => Same(act[d][q], act'[d][q]) /\ W[d][q] = W[d][q]
  BY <1>5 DEF Same
<1> QED BY <1>1, <1>7, <1>8, <1>9, <1>11, <1>12, <1>13, MapsStep
-----------------------------------------------------------------------------
(* The invariant.                                                          *)

(* It holds of the search trees the clients start with.                    *)
LEMMA InitMaps == Init => MInv
<1> SUFFICES ASSUME Init PROVE MInv
  OBVIOUS
<1>1. /\ IInv /\ TypeOK /\ HeapClosed /\ IsGiven(given) /\ DOMAIN given.nodes \subseteq Cells
  BY InitIInv, TypeFacts, GivenAssumption DEF IInv, Init, IsGiven
<1>2. ASSUME NEW n \in Cells, NEW p \in Pointers, NEW S \in SUBSET DOMAIN given.nodes,
             Covers(given, p, S), NEW e \in Elements(p)
      PROVE  \E m \in S : \E j \in given.nodes[m].keys : e = <<j, 0>>
  <2>1. PICK U \in SUBSET Cells : U = Under(p)
    BY <1>1, UnderFacts DEF UnderIsLeast
  <2>2. S \in SUBSET Cells /\ p \in S \union {Null}
    BY <1>1, <1>2 DEF Covers
  <2>3. IsClosed(S)
    <3>1. ASSUME NEW m \in S
          PROVE  heap[m].lc \in S \union {Null} /\ heap[m].rc \in S \union {Null}
      <4>1. heap[m].lc = given.nodes[m].lc /\ heap[m].rc = given.nodes[m].rc
        BY <2>2, InitHeap
      <4>2. {given.nodes[m].lc, given.nodes[m].rc} \subseteq S \union {Null}
        BY <1>2 DEF Covers
      <4> QED BY <4>1, <4>2
    <3> QED BY <3>1 DEF IsClosed
  <2>4. U \subseteq S
    BY <1>1, <2>1, <2>2, <2>3, UnderFacts DEF UnderIsLeast
  <2>5. PICK m \in U : e \in heap[m].es
    BY <1>2, <2>1 DEF Elements
  <2>6. heap[m].es = {<<k, 0>> : k \in given.nodes[m].keys}
    BY <2>2, <2>4, InitHeap
  <2> QED BY <2>4, <2>5, <2>6
<1>3. ASSUME NEW n \in Cells \ Hollow, is_regular(n)
      PROVE  /\ \A e \in Elements(heap[n].lc) : Key(e) < Key(get_entry(n))
             /\ \A e \in Elements(heap[n].rc) : Key(get_entry(n)) < Key(e)
  <2>1. n \in DOMAIN given.nodes
    <3>1. FreeCell.kind # "regular"
      BY DEF FreeCell
    <3> QED BY <1>3, <3>1, InitHeap DEF is_regular
  <2>2. heap[n].kind = "regular" /\ given.nodes[n].kind = "regular"
    BY <1>3, <2>1, InitHeap DEF is_regular
  <2>3. PICK l \in Pointers, r \in Pointers :
          /\ l = heap[n].lc /\ r = heap[n].rc
          /\ l = given.nodes[n].lc /\ r = given.nodes[n].rc
    BY <1>1, <2>1, InitHeap DEF HeapClosed
  <2>4. PICK k \in given.nodes[n].keys : given.nodes[n].keys = {k}
    BY <2>1, <2>2, InitHeap
  <2>5. Key(get_entry(n)) = k
    <3>1. PICK e : e = <<k, 0>>
      OBVIOUS
    <3>2. heap[n].es = {e}
      BY <2>1, <2>4, <3>1, InitHeap
    <3>3. get_entry(n) = e
      BY <3>2 DEF get_entry
    <3> QED BY <3>1, <3>3 DEF Key
  <2>6. /\ \E S \in SUBSET DOMAIN given.nodes :
             Covers(given, l, S) /\ \A m \in S : \A j \in given.nodes[m].keys : j < k
        /\ \E S \in SUBSET DOMAIN given.nodes :
             Covers(given, r, S) /\ \A m \in S : \A j \in given.nodes[m].keys : k < j
    <3>1. /\ \E S \in SUBSET DOMAIN given.nodes :
               /\ Covers(given, given.nodes[n].lc, S)
               /\ \A e \in S : \A j \in given.nodes[e].keys, i \in given.nodes[n].keys : j < i
          /\ \E S \in SUBSET DOMAIN given.nodes :
               /\ Covers(given, given.nodes[n].rc, S)
               /\ \A e \in S : \A j \in given.nodes[e].keys, i \in given.nodes[n].keys : i < j
      BY <1>1, <2>1, <2>2 DEF IsGiven
    <3> QED BY <2>3, <2>4, <3>1
  <2>7. ASSUME NEW e \in Elements(l) PROVE Key(e) < k
    <3>1. PICK S \in SUBSET DOMAIN given.nodes :
            Covers(given, l, S) /\ \A m \in S : \A j \in given.nodes[m].keys : j < k
      BY <2>6
    <3>2. PICK m \in S : \E j \in given.nodes[m].keys : e = <<j, 0>>
      BY <1>2, <2>7, <3>1
    <3> QED BY <3>1, <3>2 DEF Key
  <2>8. ASSUME NEW e \in Elements(r) PROVE k < Key(e)
    <3>1. PICK S \in SUBSET DOMAIN given.nodes :
            Covers(given, r, S) /\ \A m \in S : \A j \in given.nodes[m].keys : k < j
      BY <2>6
    <3>2. PICK m \in S : \E j \in given.nodes[m].keys : e = <<j, 0>>
      BY <1>2, <2>8, <3>1
    <3> QED BY <3>1, <3>2 DEF Key
  <2> QED BY <2>3, <2>5, <2>7, <2>8
<1>4. TreesAreOrdered
  BY <1>3 DEF TreesAreOrdered
<1> DEFINE W == [c \in Clients |-> [path \in Paths |-> {}]]
<1>5. W \in Outcomes
  BY DEF Outcomes, Contents
<1> HIDE DEF W
<1>6. Promises(W)
  <2>1. \A c \in Clients, path \in Paths : act[c][path] = Idle
    BY DEF Init
  <2>2. Idle.pc = "idle" /\ Idle.es = {} /\ Distinct({})
    BY DEF Idle, Distinct
  <2>3. ASSUME NEW c \in Clients PROVE Owes(W, c)
    <3>1. due[c] = {} /\ act[c][Top].pc = "idle"
      BY <2>1, <2>2, SideFacts DEF Init
    <3> QED BY <3>1 DEF Owes
  <2>4. ASSUME NEW c \in Clients, NEW path \in Paths PROVE Gives(W, c, path)
    BY <2>1, <2>2 DEF Gives, Joining
  <2> QED BY <2>3, <2>4 DEF Promises
<1> QED BY <1>4, <1>5, <1>6 DEF MInv

(* Every step of an activation preserves it.                               *)
LEMMA WorkMaps ==
  ASSUME IInv, IInv', MInv, NEW c \in Clients, NEW path \in Paths, Work(c, path)
  PROVE  MInv'
<1>1. UNCHANGED <<given, root, due, left>>
  BY Zenon DEF Work
<1>2. \/ BuildPart(c, path) \/ ShareSubtree(c, path) \/ EnterFlat(c, path) \/ MergeFlat(c, path)
      \/ Expose(c, path) \/ Single(c, path) \/ Link(c, path) \/ Gather(c, path)
      \/ \E s \in Sides : Heavy(c, path, s) \/ CopySpine(c, path, s) \/ Spine(c, path, s)
  BY Zenon DEF Work
<1>3. CASE BuildPart(c, path)
  BY <1>1, <1>3, BuildPartMaps
<1>4. CASE ShareSubtree(c, path)
  BY <1>1, <1>4, ShareSubtreeMaps
<1>5. CASE EnterFlat(c, path)
  BY <1>1, <1>5, EnterFlatMaps
<1>6. CASE MergeFlat(c, path)
  BY <1>1, <1>6, MergeFlatMaps
<1>7. CASE Expose(c, path)
  BY <1>1, <1>7, ExposeMaps
<1>8. CASE Single(c, path)
  BY <1>1, <1>8, SingleMaps
<1>9. CASE Link(c, path)
  BY <1>1, <1>9, LinkMaps
<1>10. CASE Gather(c, path)
  BY <1>1, <1>10, GatherMaps
<1>11. ASSUME NEW s \in Sides, Heavy(c, path, s) PROVE MInv'
  BY <1>1, <1>11, HeavyMaps
<1>12. ASSUME NEW s \in Sides, CopySpine(c, path, s) PROVE MInv'
  BY <1>1, <1>12, CopySpineMaps
<1>13. ASSUME NEW s \in Sides, Spine(c, path, s) PROVE MInv'
  BY <1>1, <1>13, SpineMaps
<1> QED BY <1>2, <1>3, <1>4, <1>5, <1>6, <1>7, <1>8, <1>9, <1>10, <1>11, <1>12, <1>13

(* So does a step that changes nothing.                                    *)
LEMMA StutterMaps ==
  ASSUME IInv, IInv', MInv, UNCHANGED vars
  PROVE  MInv'
<1>1. heap' = heap /\ act' = act /\ due' = due
  BY DEF vars
<1>2. TypeOK /\ TypeOK' /\ TreesAreOrdered /\ Top \in Paths
  BY SideFacts DEF IInv, MInv
<1>3. PICK c \in Clients : TRUE
  BY ClientsAssumption
<1>4. PICK W \in Outcomes : Promises(W)
  BY DEF MInv
<1>5. \A d \in Clients : Owes(W, d)'
  BY <1>1, <1>4 DEF Promises, Owes
<1>6. Hollow' = Hollow /\ \A n \in Cells : Stays(n)
  BY <1>1 DEF Hollow, Stays
<1>7. Local(c, {}) /\ {} \in SUBSET Family(Top)
  BY <1>6 DEF Local
<1>8. \A d \in Clients, q \in Paths : Same(act[d][q], act'[d][q])
  BY <1>1 DEF Same
<1>9. \A n \in Cells : n \notin Hollow' /\ is_regular(n)' =>
        Sorted(n)' \/ (n \notin Hollow /\ Stays(n))
  BY <1>6
<1> QED BY <1>2, <1>4, <1>5, <1>7, <1>8, <1>9, MapsStep

(* Every step preserves it.                                                *)
LEMMA NextMaps ==
  ASSUME IInv, IInv', MInv, [Next]_vars
  PROVE  MInv'
<1>1. CASE UNCHANGED vars
  BY <1>1, StutterMaps
<1>2. ASSUME NEW c \in Clients, CopyMap(c) PROVE MInv'
  BY <1>2, CopyMapMaps
<1>3. ASSUME NEW c \in Clients, NEW v \in Names, ClearMap(c, v) PROVE MInv'
  BY <1>3, ClearMapMaps
<1>4. ASSUME NEW c \in Clients, Begin(c) PROVE MInv'
  BY <1>4, BeginMaps
<1>5. ASSUME NEW c \in Clients, Return(c) PROVE MInv'
  BY <1>5, ReturnMaps
<1>6. ASSUME NEW c \in Clients, NEW path \in Paths, Decrement(c, path) PROVE MInv'
  BY <1>6, DecrementMaps
<1>7. ASSUME NEW c \in Clients, NEW path \in Paths, Work(c, path) PROVE MInv'
  BY <1>7, WorkMaps
<1> QED BY <1>1, <1>2, <1>3, <1>4, <1>5, <1>6, <1>7 DEF Next

(* Every activation is going to return what its subtree and its part of    *)
(* the batch make, and every node is sorted, at every moment.              *)
THEOREM MInvHolds == Spec => []MInv
<1>1. Init => MInv
  BY InitMaps
<1>2. IInv /\ IInv' /\ MInv /\ [Next]_vars => MInv'
  BY NextMaps
<1> QED BY <1>1, <1>2, IInvHolds, PTL DEF Spec

(* The trees are search trees at every moment, for any clients, any        *)
(* batches and any search trees they start with (map_ops.h:1082-1095,      *)
(* balance_utils.h:119-146).                                               *)
THEOREM TreesAreOrderedHolds == Spec => []TreesAreOrdered
<1>1. MInv => TreesAreOrdered
  BY DEF MInv
<1> QED BY <1>1, MInvHolds, PTL
-----------------------------------------------------------------------------
(* The refinement of PersistentMaps.                                       *)

\* What the variables of the clients hold.
Held == [c \in Clients |-> [v \in Names |-> Elements(root[c][v])]]

(* A step that assigns no variable leaves all maps as they are.            *)
LEMMA NoneAssigned ==
  ASSUME Persists, UNCHANGED root
  PROVE  Held' = Held
<1>1. \A c \in Clients, v \in Names : Elements(root[c][v])' = Elements(root[c][v])
  BY DEF Persists
<1> QED BY <1>1 DEF Held

(* A step that assigns one variable changes its map only.                  *)
LEMMA OneAssigned ==
  ASSUME Persists, NEW c \in Clients, NEW v \in Names, NEW p, NEW m,
         root'[c][v] = p, Elements(p)' = m,
         \A d \in Clients, w \in Names : d # c \/ w # v => root'[d][w] = root[d][w]
  PROVE  Held' = [Held EXCEPT ![c][v] = m]
<1>1. ASSUME NEW d \in Clients, NEW w \in Names, d # c \/ w # v
      PROVE  Held'[d][w] = Held[d][w]
  <2>1. Elements(root[d][w])' = Elements(root[d][w])
    BY <1>1 DEF Persists
  <2> QED BY <2>1 DEF Held
<1>2. Held'[c][v] = m
  <2>1. Elements(root[c][v])' = m
    BY DEF Elements
  <2> QED BY <2>1 DEF Held
<1>3. /\ Held = [d \in Clients |-> [w \in Names |-> Held[d][w]]]
      /\ Held' = [d \in Clients |-> [w \in Names |-> Held'[d][w]]]
  BY DEF Held
<1> HIDE DEF Held
<1>4. [Held EXCEPT ![c][v] = m] =
        [d \in Clients |-> [w \in Names |-> IF d = c /\ w = v THEN m ELSE Held[d][w]]]
  BY <1>3
<1>5. \A d \in Clients, w \in Names :
        Held'[d][w] = IF d = c /\ w = v THEN m ELSE Held[d][w]
  BY <1>1, <1>2
<1> QED BY <1>3, <1>4, <1>5

(* A client that rests is owed nothing.                                    *)
LEMMA RestingIsOwedNothing ==
  ASSUME MInv, NEW c \in Clients, Resting(c)
  PROVE  due[c] = {}
<1>1. act[c][Top].pc = "idle"
  BY IdleFacts DEF Resting
<1> QED BY <1>1 DEF MInv, Promises, Owes

(* No variable is assigned, and nothing is owed that was not.              *)
LEMMA StepsStutter ==
  ASSUME Persists, UNCHANGED root, UNCHANGED due
  PROVE  UNCHANGED Maps!vars
BY NoneAssigned DEF Held, Maps!vars

(* A copy of a variable is a copy of its map.                              *)
LEMMA CopyRefines ==
  ASSUME IInv, IInv', MInv, Persists, NEW c \in Clients, CopyMap(c)
  PROVE  Maps!Next
<1>1. "x" \in Names /\ "y" \in Names /\ "x" # "y" /\ TypeOK
  BY DEF Names, IInv
<1>2. PICK p \in Pointers : p = root[c]["x"]
  BY <1>1, TypeFacts
<1>3. /\ root' = [root EXCEPT ![c]["y"] = p] /\ due' = due /\ due[c] = {}
      /\ root \in [Clients -> [Names -> Pointers]]
  BY <1>1, <1>2, RestingIsOwedNothing DEF CopyMap, TypeOK
<1>4. /\ root'[c]["y"] = p /\ root'[c]["x"] = p
      /\ \A d \in Clients, w \in Names : d # c \/ w # "y" => root'[d][w] = root[d][w]
  BY <1>1, <1>2, <1>3
<1>5. Elements(p)' = Elements(p)
  <2>1. Elements(root[c]["x"])' = Elements(root[c]["x"])
    BY <1>1, <1>2, <1>4 DEF Persists
  <2>2. Elements(root[c]["x"])' = Elements(p)'
    BY <1>4 DEF Elements
  <2> QED BY <1>2, <2>1, <2>2
<1>6. Held' = [Held EXCEPT ![c]["y"] = Elements(p)]
  BY <1>1, <1>4, <1>5, OneAssigned
<1>7. Held[c]["x"] = Elements(p)
  BY <1>1, <1>2 DEF Held
<1>8. Held' = [Held EXCEPT ![c]["y"] = Held[c]["x"]]
  BY <1>6, <1>7
<1>9. Maps!Copy(c, "x", "y")
  BY <1>3, <1>8 DEF Maps!Copy, Held
<1> QED BY <1>1, <1>9 DEF Maps!Next

(* A variable that is cleared is empty.                                    *)
LEMMA ClearRefines ==
  ASSUME IInv, IInv', MInv, Persists, NEW c \in Clients, NEW v \in Names, ClearMap(c, v)
  PROVE  Maps!Next
<1>1. /\ root' = [root EXCEPT ![c][v] = Null] /\ due' = due /\ due[c] = {}
      /\ root \in [Clients -> [Names -> Pointers]]
  BY RestingIsOwedNothing DEF ClearMap, TypeOK, IInv
<1>2. /\ root'[c][v] = Null
      /\ \A d \in Clients, w \in Names : d # c \/ w # v => root'[d][w] = root[d][w]
  BY <1>1
<1>3. Elements(Null)' = {}
  BY ElementsFactsNext DEF ElementsSplit, IInv
<1>4. Held' = [Held EXCEPT ![c][v] = {}]
  BY <1>2, <1>3, OneAssigned
<1>5. Maps!Clear(c, v)
  BY <1>1, <1>4 DEF Maps!Clear, Held
<1> QED BY <1>5 DEF Maps!Next

(* A call promises the map with the batch inserted; the variable it is     *)
(* moved from is empty.                                                    *)
LEMMA BeginRefines ==
  ASSUME IInv, IInv', MInv, Persists, NEW c \in Clients, Begin(c)
  PROVE  Maps!Next
<1>1. /\ "x" \in Names /\ TypeOK /\ left \in 1..MaxCalls /\ given \in Given /\ due[c] = {}
      /\ root \in [Clients -> [Names -> Pointers]]
  <2>1. left \in 0..MaxCalls /\ left > 0 /\ Resting(c)
    BY DEF Begin, IInv, TypeOK
  <2>2. due[c] = {} /\ left \in 1..MaxCalls
    BY <2>1, RestingIsOwedNothing, BoundsAssumption
  <2> QED BY <2>2 DEF Names, IInv, TypeOK
<1>2. PICK K \in given.batches, moved \in BOOLEAN :
        /\ moved => MayMove(c)
        /\ act' = [act EXCEPT ![c][Top] =
                     Entering(root[c]["x"], FALSE, {<<k, left>> : k \in K})]
        /\ due' = [due EXCEPT ![c] = {Inserted(Elements(root[c]["x"]), {<<k, left>> : k \in K})}]
        /\ UNCHANGED given
        /\ IF moved
           THEN root' = [root EXCEPT ![c]["x"] = Null] /\ UNCHANGED heap
           ELSE /\ heap' = IF root[c]["x"] = Null THEN heap
                           ELSE [heap EXCEPT ![root[c]["x"]].cnt = @ + 1]
                /\ UNCHANGED root
  BY Zenon DEF Begin
<1>3. PICK es : es = {<<k, left>> : k \in K}
  OBVIOUS
<1>4. K \in UNION {g.batches : g \in Given}
  BY <1>1
<1>5. es \in Inserts
  BY <1>1, <1>3, <1>4 DEF Inserts
<1>6. due' = [due EXCEPT ![c] = {Maps!Inserted(Held[c]["x"], es)}]
  <2>1. due' = [due EXCEPT ![c] = {Inserted(Elements(root[c]["x"]), es)}]
    BY <1>2, <1>3
  <2>2. Held[c]["x"] = Elements(root[c]["x"])
    BY <1>1 DEF Held
  <2>3. ASSUME NEW m PROVE Inserted(m, es) = Maps!Inserted(m, es)
    BY DEF Inserted, Maps!Inserted, Key, Maps!Key, KeysOf
  <2> QED BY <2>1, <2>2, <2>3
<1>7. Held' = Held \/ Held' = [Held EXCEPT ![c]["x"] = {}]
  <2>1. CASE moved
    <3>1. /\ root'[c]["x"] = Null
          /\ \A d \in Clients, w \in Names : d # c \/ w # "x" => root'[d][w] = root[d][w]
      BY <1>1, <1>2, <2>1
    <3>2. Elements(Null)' = {}
      BY ElementsFactsNext DEF ElementsSplit, IInv
    <3> QED BY <1>1, <3>1, <3>2, OneAssigned
  <2>2. CASE ~moved
    BY <1>2, <2>2, NoneAssigned
  <2> QED BY <2>1, <2>2
<1>8. Maps!Begin(c, "x", es)
  BY <1>1, <1>6, <1>7 DEF Maps!Begin, Held
<1> QED BY <1>1, <1>5, <1>8 DEF Maps!Next

(* A call returns what it owes.                                            *)
LEMMA ReturnRefines ==
  ASSUME IInv, IInv', MInv, Persists, NEW c \in Clients, Return(c)
  PROVE  Maps!Next
<1>1. "x" \in Names /\ TypeOK /\ TypeOK' /\ Top \in Paths
  BY SideFacts DEF Names, IInv
<1>2. PICK r \in Pointers : r = act[c][Top].res
  BY <1>1, TypeFacts
<1>3. /\ root' = [root EXCEPT ![c]["x"] = r] /\ due' = [due EXCEPT ![c] = {}] /\ heap' = heap
      /\ act[c][Top].pc = "done" /\ root \in [Clients -> [Names -> Pointers]]
  BY <1>1, <1>2 DEF Return, At, TypeOK
<1>4. /\ root'[c]["x"] = r
      /\ \A d \in Clients, w \in Names : d # c \/ w # "x" => root'[d][w] = root[d][w]
  BY <1>1, <1>3
<1>5. Elements(r)' = Elements(r)
  BY <1>1, <1>3, AllStay DEF Stays
<1>6. Held' = [Held EXCEPT ![c]["x"] = Elements(r)]
  BY <1>1, <1>4, <1>5, OneAssigned
<1>7. Elements(r) \in due[c]
  <2>1. PICK W \in Outcomes : Promises(W)
    BY DEF MInv
  <2>2. Owes(W, c) /\ Gives(W, c, Top)
    BY <1>1, <2>1 DEF Promises
  <2>3. W[c][Top] = Elements(r)
    BY <1>2, <1>3, <2>2 DEF Gives
  <2> QED BY <1>3, <2>2, <2>3 DEF Owes
<1>8. Maps!Return(c, "x")
  BY <1>3, <1>6, <1>7 DEF Maps!Return, Held
<1> QED BY <1>1, <1>8 DEF Maps!Next

(* Every step changes the maps as their client's calls promise, or not.    *)
LEMMA MapsRefine ==
  ASSUME IInv, MInv, [Next]_vars
  PROVE  [Maps!Next]_(Maps!vars)
<1>1. IInv' /\ Persists
  BY StepsPersist
<1>2. CASE UNCHANGED vars
  BY <1>1, <1>2, StepsStutter DEF vars
<1>3. ASSUME NEW c \in Clients, CopyMap(c) PROVE Maps!Next
  BY <1>1, <1>3, CopyRefines
<1>4. ASSUME NEW c \in Clients, NEW v \in Names, ClearMap(c, v) PROVE Maps!Next
  BY <1>1, <1>4, ClearRefines
<1>5. ASSUME NEW c \in Clients, Begin(c) PROVE Maps!Next
  BY <1>1, <1>5, BeginRefines
<1>6. ASSUME NEW c \in Clients, Return(c) PROVE Maps!Next
  BY <1>1, <1>6, ReturnRefines
<1>7. ASSUME NEW c \in Clients, NEW path \in Paths, Decrement(c, path) \/ Work(c, path)
      PROVE  UNCHANGED Maps!vars
  <2>1. UNCHANGED root /\ UNCHANGED due
    BY Zenon, <1>7 DEF Decrement, Work
  <2> QED BY <1>1, <2>1, StepsStutter
<1> QED BY <1>2, <1>3, <1>4, <1>5, <1>6, <1>7 DEF Next

(* Nodes that are shared, counted, copied and reused in place are maps     *)
(* that persist: for any clients, batches and search trees to start with,  *)
(* a variable changes only by its own client's assignment, and a call      *)
(* returns its map with the batch inserted, whatever runs beside it        *)
(* (gc.h:59-194, map_ops.h:1065-1094).                                     *)
THEOREM MapsAreImplemented == Spec => ImplementsMaps
<1>1. Init => Maps!Init
  <2> SUFFICES ASSUME Init PROVE Maps!Init
    OBVIOUS
  <2>1. \A c, d \in Clients : root[c] = root[d]
    BY DEF Init
  <2>2. \A c, d \in Clients : Held[c] = Held[d]
    BY <2>1 DEF Held
  <2>3. due = [c \in Clients |-> {}]
    BY DEF Init
  <2> QED BY <2>2, <2>3 DEF Maps!Init, Held
<1>2. IInv /\ MInv /\ [Next]_vars => [Maps!Next]_(Maps!vars)
  BY MapsRefine
<1> QED BY IInvHolds, MInvHolds, <1>1, <1>2, PTL DEF Spec, ImplementsMaps, Maps!Spec
=============================================================================
