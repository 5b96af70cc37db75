----------------------------- MODULE NodeHeapProofs -----------------------------
(***************************************************************************)
(* Proofs about NodeHeap: the counts are exact, borrowed pointers lead to  *)
(* live nodes and no step changes what a variable holds, for any number of *)
(* clients and nodes.  First come lemmas about its definitions: which      *)
(* nodes are under a pointer, how the number of references to a node       *)
(* changes when a pointer is stored, what the paths of activations are.    *)
(***************************************************************************)
EXTENDS NodeHeap, FiniteSetTheorems, SequenceTheorems, WellFoundedInduction, TLAPS

(* The children of all nodes are nodes.                                    *)
HeapClosed == \A n \in Cells : heap[n].lc \in Pointers /\ heap[n].rc \in Pointers

\* S has the children of its nodes.
IsClosed(S) == \A n \in S : heap[n].lc \in S \union {Null} /\ heap[n].rc \in S \union {Null}

(* Among the subsets of a finite set, any that differ have one that no     *)
(* other of them contains.                                                 *)
LEMMA MaximalSubset ==
  ASSUME NEW S, IsFiniteSet(S), NEW T \in SUBSET SUBSET S, T # {}
  PROVE  \E X \in T : \A Y \in T : X \subseteq Y => X = Y
<1> DEFINE C == {S \ X : X \in T}
           R == StrictSubsetOrdering(S)
<1>1. IsWellFoundedOn(R, FiniteSubsetsOf(S))
  BY FS_StrictSubsetOrderingWellFounded
<1>2. C \subseteq FiniteSubsetsOf(S)
  <2>1. ASSUME NEW U \in C PROVE U \subseteq S /\ IsFiniteSet(U)
    BY FS_Subset
  <2> QED BY <2>1 DEF FiniteSubsetsOf
<1>3. C # {}
  <2>1. PICK X \in T : TRUE
    OBVIOUS
  <2>2. S \ X \in C
    BY <2>1
  <2> QED BY <2>2
<1>4. PICK U \in C : \A V \in C : ~(<<V, U>> \in R)
  <2> HIDE DEF C, R
  <2> QED BY <1>1, <1>2, <1>3, WFMin
<1>5. PICK X \in T : U = S \ X
  OBVIOUS
<1>6. ASSUME NEW Y \in T, X \subseteq Y, X # Y PROVE FALSE
  <2>1. S \ Y \in C
    OBVIOUS
  <2>2. <<S \ Y, U>> \in R
    BY <1>5, <1>6 DEF StrictSubsetOrdering
  <2> QED BY <1>4, <2>1, <2>2
<1> QED BY <1>6

(* There are finitely many nodes.                                          *)
LEMMA CellsAreFinite == IsFiniteSet(Cells)
BY BoundsAssumption, FS_Interval DEF Cells
-----------------------------------------------------------------------------
(* Adding the children of nodes, once.                                     *)
LEMMA WithChildrenFacts ==
  ASSUME HeapClosed, NEW S \in SUBSET Cells
  PROVE  /\ WithChildren(S) \in SUBSET Cells
         /\ S \subseteq WithChildren(S)
         /\ WithChildren(S) = S <=> IsClosed(S)
         /\ \A T \in SUBSET Cells : S \subseteq T /\ IsClosed(T) => WithChildren(S) \subseteq T
<1>1. Null \notin Cells
  BY BoundsAssumption DEF Cells, Null
<1>2. \A k : k \in WithChildren(S) <=>
        k \in S \/ (k # Null /\ \E m \in S : k = heap[m].lc \/ k = heap[m].rc)
  BY DEF WithChildren
<1> QED BY <1>1, <1>2 DEF HeapClosed, IsClosed, Pointers

(* The nodes in every set that contains S and the children of its nodes.   *)
Closure(S) ==
  {k \in Cells : \A T \in SUBSET Cells : S \subseteq T /\ IsClosed(T) => k \in T}

(* The closure is the least closed set.                                    *)
LEMMA ClosureFacts ==
  ASSUME HeapClosed, NEW S \in SUBSET Cells
  PROVE  /\ Closure(S) \in SUBSET Cells /\ S \subseteq Closure(S) /\ IsClosed(Closure(S))
         /\ IsClosed(S) => Closure(S) = S
         /\ Closure(WithChildren(S)) = Closure(S)
<1>1. IsClosed(Cells)
  BY DEF HeapClosed, IsClosed, Pointers
<1>2. Closure(S) \in SUBSET Cells /\ S \subseteq Closure(S)
  BY DEF Closure
<1>3. IsClosed(Closure(S))
  <2>1. ASSUME NEW n \in Closure(S), NEW k \in {heap[n].lc, heap[n].rc}, k # Null
        PROVE  k \in Closure(S)
    <3>1. k \in Cells
      BY <1>2, <2>1 DEF HeapClosed, Pointers
    <3>2. ASSUME NEW T \in SUBSET Cells, S \subseteq T, IsClosed(T) PROVE k \in T
      BY <2>1, <3>2 DEF Closure, IsClosed
    <3> QED BY <3>1, <3>2 DEF Closure
  <2> QED BY <2>1 DEF IsClosed
<1>4. IsClosed(S) => Closure(S) = S
  BY <1>2 DEF Closure
<1>5. Closure(WithChildren(S)) = Closure(S)
  BY WithChildrenFacts DEF Closure
<1> QED BY <1>2, <1>3, <1>4, <1>5

(* The recursion of Reached ends, since the sets grow within Cells, and    *)
(* what it returns is the closure.                                         *)
LEMMA ReachedIsClosure ==
  ASSUME HeapClosed
  PROVE  \A S \in SUBSET Cells : Reached[S] = Closure(S)
<1> DEFINE Equation(f) == f = [S \in SUBSET Cells |->
                                 IF WithChildren(S) = S THEN S ELSE f[WithChildren(S)]]
           g == [S \in SUBSET Cells |-> Closure(S)]
<1>1. Equation(g)
  <2>1. ASSUME NEW S \in SUBSET Cells
        PROVE  g[S] = IF WithChildren(S) = S THEN S ELSE g[WithChildren(S)]
    BY WithChildrenFacts, ClosureFacts
  <2> QED BY <2>1
<1>2. Equation(Reached)
  <2>1. \E f : Equation(f)
    BY <1>1
  <2> QED BY <2>1 DEF Reached
<1> DEFINE Wrong == {S \in SUBSET Cells : Reached[S] # Closure(S)}
<1>3. ASSUME Wrong # {} PROVE FALSE
  <2>1. PICK S \in Wrong : \A T \in Wrong : S \subseteq T => S = T
    <3>1. Wrong \in SUBSET SUBSET Cells
      OBVIOUS
    <3> HIDE DEF Wrong
    <3> QED BY <1>3, <3>1, CellsAreFinite, MaximalSubset
  <2>2. S \in SUBSET Cells /\ Reached[S] # Closure(S)
    OBVIOUS
  <2>3. Reached[S] = IF WithChildren(S) = S THEN S ELSE Reached[WithChildren(S)]
    BY <1>2, <2>2
  <2>4. CASE WithChildren(S) = S
    BY <2>2, <2>3, <2>4, WithChildrenFacts, ClosureFacts
  <2>5. CASE WithChildren(S) # S
    <3>1. WithChildren(S) \in SUBSET Cells /\ S \subseteq WithChildren(S)
      BY <2>2, WithChildrenFacts
    <3>2. Reached[WithChildren(S)] = Closure(WithChildren(S))
      BY <2>1, <2>5, <3>1
    <3> QED BY <2>2, <2>3, <2>5, <3>2, ClosureFacts
  <2> QED BY <2>4, <2>5
<1> QED BY <1>3

(* What is under a pointer: its node, the children of what is, and nothing *)
(* else.                                                                   *)
UnderIsLeast ==
  \A n \in Pointers :
    /\ Under(n) \in SUBSET Cells
    /\ n # Null => n \in Under(n)
    /\ IsClosed(Under(n))
    /\ \A T \in SUBSET Cells : n \in T \union {Null} /\ IsClosed(T) => Under(n) \subseteq T

(* What is under a pointer, for every pointer.                             *)
LEMMA UnderFacts == HeapClosed => UnderIsLeast
<1>1. SUFFICES ASSUME HeapClosed, NEW n \in Pointers
               PROVE  /\ Under(n) \in SUBSET Cells
                      /\ n # Null => n \in Under(n)
                      /\ IsClosed(Under(n))
                      /\ \A T \in SUBSET Cells :
                           n \in T \union {Null} /\ IsClosed(T) => Under(n) \subseteq T
  BY DEF UnderIsLeast
<1>2. {n} \ {Null} \in SUBSET Cells
  BY DEF Pointers
<1>3. Under(n) = Closure({n} \ {Null})
  BY <1>1, <1>2, ReachedIsClosure DEF Under
<1>4. Under(n) \in SUBSET Cells /\ {n} \ {Null} \subseteq Under(n) /\ IsClosed(Under(n))
  BY <1>1, <1>2, <1>3, ClosureFacts
<1>5. ASSUME NEW T \in SUBSET Cells, n \in T \union {Null}, IsClosed(T)
      PROVE  Under(n) \subseteq T
  BY <1>3, <1>5 DEF Closure
<1> QED BY <1>4, <1>5

(* The same, of the next state.                                            *)
LEMMA UnderFactsNext == HeapClosed' => UnderIsLeast'
BY UnderFacts, PTL

(* A node under a pointer is the pointer's or a child of another.          *)
LEMMA UnderIsSupported ==
  ASSUME HeapClosed, NEW n \in Pointers, NEW k \in Under(n), k # n
  PROVE  \E d \in Under(n) : k \in {heap[d].lc, heap[d].rc}
<1>1. SUFFICES ASSUME \A d \in Under(n) : k \notin {heap[d].lc, heap[d].rc} PROVE FALSE
  OBVIOUS
<1> DEFINE T == Under(n) \ {k}
<1>2. Under(n) \in SUBSET Cells /\ IsClosed(Under(n)) /\ (n # Null => n \in Under(n))
  BY UnderFacts DEF UnderIsLeast
<1>3. T \in SUBSET Cells /\ IsClosed(T) /\ n \in T \union {Null}
  BY <1>1, <1>2 DEF IsClosed
<1>4. Under(n) \subseteq T
  BY <1>3, UnderFacts DEF UnderIsLeast
<1> QED BY <1>4

(* What is under a pointer is the same as long as those nodes are.         *)
LEMMA UnderStays ==
  ASSUME HeapClosed, HeapClosed', NEW n \in Pointers,
         \A k \in Under(n) : heap'[k].lc = heap[k].lc /\ heap'[k].rc = heap[k].rc
  PROVE  Under(n)' = Under(n)
<1>1. Under(n) \in SUBSET Cells /\ (n # Null => n \in Under(n)) /\ IsClosed(Under(n))
  BY UnderFacts DEF UnderIsLeast
<1>2. Under(n)' \in SUBSET Cells /\ (n # Null => n \in Under(n)') /\ IsClosed(Under(n))'
  BY UnderFactsNext DEF UnderIsLeast
<1>3. IsClosed(Under(n) \intersect Under(n)')
  BY <1>1, <1>2 DEF IsClosed
<1>4. \A k \in Under(n) : {heap'[k].lc, heap'[k].rc} \subseteq Under(n) \union {Null}
  BY <1>1 DEF IsClosed
<1>5. PICK U \in SUBSET Cells : U = Under(n)
  BY <1>1
<1>6. IsClosed(U)'
  BY <1>4, <1>5 DEF IsClosed
<1>7. Under(n)' \subseteq Under(n)
  BY <1>1, <1>5, <1>6, UnderFactsNext DEF UnderIsLeast
<1>8. PICK V \in SUBSET Cells : V = Under(n) \intersect Under(n)'
  BY <1>1
<1>9. Under(n) \subseteq V
  BY <1>1, <1>2, <1>3, <1>8, UnderFacts DEF UnderIsLeast
<1> QED BY <1>7, <1>8, <1>9
-----------------------------------------------------------------------------
(* The places of T that hold n.                                            *)
Holds(T, n) == {p \in DOMAIN T : T[p] = n}

Is(p, n) == IF p = n THEN 1 ELSE 0

(* Places that hold n can be counted, and named.                           *)
LEMMA HoldsIsFinite ==
  ASSUME NEW T, IsFiniteSet(DOMAIN T), NEW n
  PROVE  /\ IsFiniteSet(Holds(T, n))
         /\ Cardinality(Holds(T, n)) \in Nat
         /\ \A p \in DOMAIN T : T[p] = n => Cardinality(Holds(T, n)) >= 1
         /\ \A p, q \in DOMAIN T :
              p # q /\ T[p] = n /\ T[q] = n => Cardinality(Holds(T, n)) >= 2
<1>1. IsFiniteSet(Holds(T, n)) /\ Cardinality(Holds(T, n)) \in Nat
  BY FS_Subset, FS_CardinalityType DEF Holds
<1>2. ASSUME NEW p \in DOMAIN T, T[p] = n
      PROVE  /\ Cardinality(Holds(T, n)) >= 1
             /\ Cardinality(Holds(T, n) \ {p}) = Cardinality(Holds(T, n)) - 1
             /\ IsFiniteSet(Holds(T, n) \ {p})
  <2>1. p \in Holds(T, n)
    BY <1>2 DEF Holds
  <2>2. Cardinality(Holds(T, n)) # 0
    BY <1>1, <2>1, FS_EmptySet
  <2> QED BY <1>1, <2>1, <2>2, FS_RemoveElement
<1>3. ASSUME NEW p \in DOMAIN T, NEW q \in DOMAIN T, p # q, T[p] = n, T[q] = n
      PROVE  Cardinality(Holds(T, n)) >= 2
  <2>1. q \in Holds(T, n) \ {p}
    BY <1>3 DEF Holds
  <2>2. /\ IsFiniteSet(Holds(T, n) \ {p})
        /\ Cardinality(Holds(T, n) \ {p}) = Cardinality(Holds(T, n)) - 1
    BY <1>2, <1>3
  <2>3. Cardinality(Holds(T, n) \ {p}) # 0
    BY <2>1, <2>2, FS_EmptySet
  <2>4. Cardinality(Holds(T, n) \ {p}) \in Nat
    BY <2>2, FS_CardinalityType
  <2> QED BY <1>1, <2>2, <2>3, <2>4
<1> QED BY <1>1, <1>2, <1>3

(* Storing another pointer in a place changes the number of places that    *)
(* hold n by what the old and the new pointer are.                         *)
LEMMA Store1 ==
  ASSUME NEW T, NEW U, IsFiniteSet(DOMAIN T), DOMAIN U = DOMAIN T, NEW a \in DOMAIN T,
         \A p \in DOMAIN T \ {a} : U[p] = T[p], NEW n
  PROVE  Cardinality(Holds(U, n)) = Cardinality(Holds(T, n)) - Is(T[a], n) + Is(U[a], n)
<1> DEFINE A == Holds(T, n) \ {a}
<1>1. A = Holds(U, n) \ {a}
  BY DEF Holds
<1>2. IsFiniteSet(Holds(T, n)) /\ IsFiniteSet(Holds(U, n))
  BY HoldsIsFinite
<1>3. /\ a \in Holds(T, n) <=> T[a] = n
      /\ a \in Holds(U, n) <=> U[a] = n
  BY DEF Holds
<1>4. Cardinality(A) = Cardinality(Holds(T, n)) - Is(T[a], n)
  <2>1. Cardinality(Holds(T, n) \ {a}) =
          IF a \in Holds(T, n) THEN Cardinality(Holds(T, n)) - 1 ELSE Cardinality(Holds(T, n))
    BY <1>2, FS_RemoveElement
  <2>2. Cardinality(Holds(T, n)) \in Nat
    BY HoldsIsFinite
  <2> QED BY <1>3, <2>1, <2>2 DEF Is
<1>5. Cardinality(A) = Cardinality(Holds(U, n)) - Is(U[a], n)
  <2>1. Cardinality(Holds(U, n) \ {a}) =
          IF a \in Holds(U, n) THEN Cardinality(Holds(U, n)) - 1 ELSE Cardinality(Holds(U, n))
    BY <1>2, FS_RemoveElement
  <2>2. Cardinality(Holds(U, n)) \in Nat
    BY <1>2, FS_CardinalityType
  <2> QED BY <1>1, <1>3, <2>1, <2>2 DEF Is
<1>6. /\ Cardinality(Holds(U, n)) \in Nat /\ Cardinality(Holds(T, n)) \in Nat
      /\ Is(T[a], n) \in Nat /\ Is(U[a], n) \in Nat
  BY HoldsIsFinite DEF Is
<1> HIDE DEF A
<1> QED BY <1>4, <1>5, <1>6

(* The same for two places.                                                *)
LEMMA Store2 ==
  ASSUME NEW T, NEW U, IsFiniteSet(DOMAIN T), DOMAIN U = DOMAIN T,
         NEW a \in DOMAIN T, NEW b \in DOMAIN T, a # b,
         \A p \in DOMAIN T \ {a, b} : U[p] = T[p], NEW n
  PROVE  Cardinality(Holds(U, n)) = Cardinality(Holds(T, n)) - Is(T[a], n) + Is(U[a], n)
                                                             - Is(T[b], n) + Is(U[b], n)
<1>1. PICK V : V = [p \in DOMAIN T |-> IF p = a THEN U[a] ELSE T[p]]
  OBVIOUS
<1>2. /\ DOMAIN V = DOMAIN T /\ V[a] = U[a] /\ V[b] = T[b]
      /\ \A p \in DOMAIN T \ {a} : V[p] = T[p]
      /\ \A p \in DOMAIN V \ {b} : U[p] = V[p]
  BY <1>1
<1>3. Cardinality(Holds(V, n)) = Cardinality(Holds(T, n)) - Is(T[a], n) + Is(V[a], n)
  BY <1>2, Store1
<1>4. Cardinality(Holds(U, n)) = Cardinality(Holds(V, n)) - Is(V[b], n) + Is(U[b], n)
  BY <1>2, Store1
<1>5. /\ Cardinality(Holds(T, n)) \in Nat
      /\ \A k : Is(k, n) \in Nat
  BY HoldsIsFinite DEF Is
<1> QED BY <1>2, <1>3, <1>4, <1>5

(* The same for three places.                                              *)
LEMMA Store3 ==
  ASSUME NEW T, NEW U, IsFiniteSet(DOMAIN T), DOMAIN U = DOMAIN T,
         NEW a \in DOMAIN T, NEW b \in DOMAIN T, NEW c \in DOMAIN T, a # b, a # c, b # c,
         \A p \in DOMAIN T \ {a, b, c} : U[p] = T[p], NEW n
  PROVE  Cardinality(Holds(U, n)) = Cardinality(Holds(T, n)) - Is(T[a], n) + Is(U[a], n)
                                                             - Is(T[b], n) + Is(U[b], n)
                                                             - Is(T[c], n) + Is(U[c], n)
<1>1. PICK V : V = [p \in DOMAIN T |-> IF p = a THEN U[a] ELSE T[p]]
  OBVIOUS
<1>2. /\ DOMAIN V = DOMAIN T /\ V[a] = U[a] /\ V[b] = T[b] /\ V[c] = T[c]
      /\ \A p \in DOMAIN T \ {a} : V[p] = T[p]
      /\ \A p \in DOMAIN V \ {b, c} : U[p] = V[p]
  BY <1>1
<1>3. Cardinality(Holds(V, n)) = Cardinality(Holds(T, n)) - Is(T[a], n) + Is(V[a], n)
  BY <1>2, Store1
<1>4. Cardinality(Holds(U, n)) = Cardinality(Holds(V, n)) - Is(V[b], n) + Is(U[b], n)
                                                          - Is(V[c], n) + Is(U[c], n)
  BY <1>2, Store2
<1>5. /\ Cardinality(Holds(T, n)) \in Nat
      /\ \A k : Is(k, n) \in Nat
  BY HoldsIsFinite DEF Is
<1> QED BY <1>2, <1>3, <1>4, <1>5

(* A row of k references.                                                  *)
LEMMA RowIsFinite ==
  ASSUME NEW p, NEW k \in Nat
  PROVE  IsFiniteSet({p} \X (1..k)) /\ Cardinality({p} \X (1..k)) = k
<1>1. IsFiniteSet({p}) /\ Cardinality({p}) = 1
  BY FS_Singleton
<1>2. IsFiniteSet(1..k) /\ Cardinality(1..k) = IF 1 > k THEN 0 ELSE k - 1 + 1
  BY FS_Interval
<1>3. Cardinality(1..k) = k
  BY <1>2
<1>4. Cardinality({p} \X (1..k)) = 1 * k
  BY <1>1, <1>2, <1>3, FS_Product
<1> QED BY <1>1, <1>2, <1>4, FS_Product

(* The references that are still to be dropped, b[p][n] to n at p.         *)
DropsIn(b, n) == UNION {{p} \X (1..b[p][n]) : p \in DOMAIN b}

(* References that are still to be dropped can be counted.                 *)
LEMMA DropsAreFinite ==
  ASSUME NEW b, IsFiniteSet(DOMAIN b), NEW n, \A p \in DOMAIN b : b[p][n] \in Nat
  PROVE  /\ IsFiniteSet(DropsIn(b, n))
         /\ Cardinality(DropsIn(b, n)) \in Nat
         /\ \A p \in DOMAIN b : b[p][n] <= Cardinality(DropsIn(b, n))
<1> DEFINE S == {{p} \X (1..b[p][n]) : p \in DOMAIN b}
           f == [p \in DOMAIN b |-> {p} \X (1..b[p][n])]
<1>1. \A p \in DOMAIN b : /\ IsFiniteSet({p} \X (1..b[p][n]))
                          /\ Cardinality({p} \X (1..b[p][n])) = b[p][n]
  BY RowIsFinite
<1>2. IsFiniteSet(S)
  <2>1. f \in Surjection(DOMAIN b, S)
    BY DEF Surjection
  <2> QED BY <2>1, FS_Surjection
<1>3. IsFiniteSet(UNION S)
  BY <1>1, <1>2, FS_UNION
<1>4. IsFiniteSet(DropsIn(b, n)) /\ Cardinality(DropsIn(b, n)) \in Nat
  BY <1>3, FS_CardinalityType DEF DropsIn
<1>5. ASSUME NEW p \in DOMAIN b PROVE b[p][n] <= Cardinality(DropsIn(b, n))
  <2>1. {p} \X (1..b[p][n]) \in SUBSET DropsIn(b, n)
    BY DEF DropsIn
  <2>2. Cardinality({p} \X (1..b[p][n])) <= Cardinality(DropsIn(b, n))
    BY <1>4, <2>1, FS_Subset
  <2> QED BY <1>1, <2>2
<1> QED BY <1>4, <1>5

(* Another number of references to n is to be dropped at a place.          *)
LEMMA StoreDrops ==
  ASSUME NEW b, NEW c, IsFiniteSet(DOMAIN b), DOMAIN c = DOMAIN b, NEW a \in DOMAIN b, NEW n,
         \A p \in DOMAIN b \ {a} : c[p] = b[p],
         \A p \in DOMAIN b : b[p][n] \in Nat, c[a][n] \in Nat
  PROVE  Cardinality(DropsIn(c, n)) = Cardinality(DropsIn(b, n)) - b[a][n] + c[a][n]
<1> DEFINE Others == UNION {{p} \X (1..b[p][n]) : p \in DOMAIN b \ {a}}
<1>1. \A k \in Nat : /\ IsFiniteSet({a} \X (1..k))
                     /\ Cardinality({a} \X (1..k)) = k
  BY RowIsFinite
<1>2. /\ DropsIn(b, n) = Others \union ({a} \X (1..b[a][n]))
      /\ DropsIn(c, n) = Others \union ({a} \X (1..c[a][n]))
  BY DEF DropsIn
<1>3. \A k \in Nat : Others \intersect ({a} \X (1..k)) = {}
  OBVIOUS
<1>4. IsFiniteSet(Others)
  BY <1>2, DropsAreFinite, FS_Subset
<1>5. \A k \in Nat : Cardinality(Others \union ({a} \X (1..k))) = Cardinality(Others) + k
  <2> HIDE DEF Others
  <2>1. ASSUME NEW k \in Nat
        PROVE  Cardinality(Others \union ({a} \X (1..k))) = Cardinality(Others) + k
    <3>1. Cardinality(Others \union ({a} \X (1..k))) =
            Cardinality(Others) + Cardinality({a} \X (1..k))
              - Cardinality(Others \intersect ({a} \X (1..k)))
      BY <1>1, <1>4, FS_Union
    <3>2. Cardinality(Others \intersect ({a} \X (1..k))) = 0
      BY <1>3, FS_EmptySet
    <3>3. Cardinality(Others) \in Nat /\ Cardinality({a} \X (1..k)) = k
      BY <1>1, <1>4, FS_CardinalityType
    <3> QED BY <3>1, <3>2, <3>3
  <2> QED BY <2>1
<1>6. Cardinality(Others) \in Nat
  BY <1>4, FS_CardinalityType
<1>7. /\ Cardinality(DropsIn(b, n)) = Cardinality(Others) + b[a][n]
      /\ Cardinality(DropsIn(c, n)) = Cardinality(Others) + c[a][n]
  <2> HIDE DEF Others
  <2> QED BY <1>2, <1>5
<1> HIDE DEF Others
<1> QED BY <1>6, <1>7
-----------------------------------------------------------------------------
(* Paths of activations.                                                   *)
LEMMA SideFacts ==
  /\ Top \in Paths /\ Len(Top) = 0
  /\ \A path \in Paths : Len(path) \in 0..MaxDepth
  /\ \A path \in Paths, s \in Sides :
       Len(path) < MaxDepth =>
         /\ Side(path, s) \in Paths
         /\ Side(path, s) # Top
         /\ Len(Side(path, s)) = Len(path) + 1
  /\ \A path1, path2 \in Paths, s1, s2 \in Sides :
       Side(path1, s1) = Side(path2, s2) => path1 = path2 /\ s1 = s2
<1> DEFINE S0 == Seq(Sides)
           S1 == {Side(Top, s) : s \in Sides}
           S2 == {Side(Side(Top, s), t) : s, t \in Sides}
<1>1. Top \in S0 /\ Len(Top) = 0
  BY DEF Top
<1>2. \A path \in S0, s \in Sides :
        /\ Side(path, s) \in S0
        /\ Len(path) \in Nat /\ Len(Side(path, s)) = Len(path) + 1
        /\ Side(path, s) # Top
  <2>1. ASSUME NEW path \in S0, NEW s \in Sides
        PROVE  /\ Append(path, s) \in S0 /\ Append(path, s) # <<>>
               /\ Len(path) \in Nat /\ Len(Append(path, s)) = Len(path) + 1
    BY <2>1, AppendProperties
  <2> QED BY <2>1 DEF Side, Top
<1>3. \A path1, path2 \in S0, s1, s2 \in Sides :
        Side(path1, s1) = Side(path2, s2) => path1 = path2 /\ s1 = s2
  BY AppendInjective DEF Side
<1> HIDE DEF S0
<1>4. ASSUME NEW path \in S1 PROVE path \in S0 /\ Len(path) = 1
  <2>1. PICK s \in Sides : path = Side(Top, s)
    OBVIOUS
  <2>2. Side(Top, s) \in S0 /\ Len(Side(Top, s)) = Len(Top) + 1
    BY <1>1, <1>2
  <2>3. Len(Side(Top, s)) = 1
    BY <1>1, <2>2
  <2> QED BY <2>1, <2>2, <2>3
<1>5. ASSUME NEW path \in S2 PROVE path \in S0 /\ Len(path) = 2
  <2>1. PICK s \in Sides, t \in Sides : path = Side(Side(Top, s), t)
    OBVIOUS
  <2>2. Side(Top, s) \in S1
    OBVIOUS
  <2>3. Side(Top, s) \in S0 /\ Len(Side(Top, s)) = 1
    BY <1>4, <2>2
  <2>4. PICK q \in S0 : q = Side(Top, s)
    BY <2>3
  <2>5. Side(q, t) \in S0 /\ Len(Side(q, t)) = Len(q) + 1
    BY <1>2
  <2>6. Len(q) = 1
    BY <2>3, <2>4
  <2>7. path = Side(q, t)
    BY <2>1, <2>4
  <2>8. Len(Side(q, t)) = 2
    BY <2>5, <2>6
  <2> HIDE DEF S1, S2
  <2> QED BY <2>5, <2>7, <2>8
<1>6. Paths = {Top} \union S1 \union S2
  BY DEF Paths
<1>7. \A path \in Paths : path \in S0 /\ Len(path) \in 0..2
  <2> HIDE DEF S1, S2
  <2> QED BY <1>1, <1>4, <1>5, <1>6
<1>8. ASSUME NEW path \in Paths, NEW s \in Sides, Len(path) < 2
      PROVE  Side(path, s) \in Paths
  <2>1. path = Top \/ path \in S1
    <3> HIDE DEF S1, S2
    <3> QED BY <1>5, <1>6, <1>8
  <2> QED BY <1>6, <2>1
<1> HIDE DEF S1, S2
<1> QED BY <1>1, <1>2, <1>3, <1>6, <1>7, <1>8 DEF MaxDepth

(* There are finitely many paths.                                          *)
LEMMA PathsAreFinite == IsFiniteSet(Paths) /\ IsFiniteSet(Sides) /\ IsFiniteSet(Names)
<1>1. \A p, q : IsFiniteSet({p, q})
  <2>1. ASSUME NEW p, NEW q PROVE IsFiniteSet({p, q})
    <3>1. IsFiniteSet({p}) /\ IsFiniteSet({q})
      BY FS_Singleton
    <3>2. {p, q} = {p} \union {q}
      OBVIOUS
    <3> QED BY <3>1, <3>2, FS_Union
  <2> QED BY <2>1
<1> DEFINE L == Side(Top, "l")
           R == Side(Top, "r")
           A == {Top, Top}
           B == {L, R}
           C == {Side(L, "l"), Side(L, "r")}
           D == {Side(R, "l"), Side(R, "r")}
<1>2. IsFiniteSet(A) /\ IsFiniteSet(B) /\ IsFiniteSet(C) /\ IsFiniteSet(D)
  BY <1>1
<1>3. Paths = (A \union B) \union (C \union D)
  <2>1. {Side(Top, s) : s \in Sides} = B
    BY DEF Sides
  <2>2. {Side(Side(Top, s), t) : s, t \in Sides} = C \union D
    BY DEF Sides
  <2> HIDE DEF B, C, D
  <2> QED BY <2>1, <2>2 DEF Paths
<1>4. IsFiniteSet((A \union B) \union (C \union D))
  <2> HIDE DEF A, B, C, D
  <2>1. IsFiniteSet(A \union B) /\ IsFiniteSet(C \union D)
    BY <1>2, FS_Union
  <2> QED BY <2>1, FS_Union
<1> QED BY <1>1, <1>3, <1>4 DEF Sides, Names
-----------------------------------------------------------------------------
(* The invariant.                                                          *)

\* The pointer an activation owns, Null if none.
Owned(a) ==
  IF a.pc \in {"held", "enter", "flat"} THEN IF a.extra THEN Null ELSE a.p
  ELSE IF a.pc \in Joining THEN a.m
  ELSE IF a.pc = "done" THEN a.res
  ELSE Null

\* The nodes that the variables of c keep for the rest of a call.
Kept(c) == Under(root[c]["x"]) \union Under(root[c]["y"])

\* Where the references to nodes are.
Field(d, s) == IF d \in Hollow \/ ~is_regular(d) THEN Null ELSE Child(d, s)

\* The references, tabulated: what every variable, field and activation
\* holds.
VarAt == [cv \in Clients \X Names |-> root[cv[1]][cv[2]]]
FieldAt == [ds \in Cells \X Sides |-> Field(ds[1], ds[2])]
OwnedAt == [cp \in Clients \X Paths |-> Owned(act[cp[1]][cp[2]])]
TodoAt == [cp \in Clients \X Paths |-> act[cp[1]][cp[2]].todo]

\* How many of each lead to n.
NVariables(n) == Cardinality(Holds(VarAt, n))
NFields(n) == Cardinality(Holds(FieldAt, n))
NOwners(n) == Cardinality(Holds(OwnedAt, n))
NDrops(n) == Cardinality(DropsIn(TodoAt, n))

References(n) == NVariables(n) + NFields(n) + NOwners(n) + NDrops(n)
-----------------------------------------------------------------------------
(* The invariant.                                                          *)

\* Only inner nodes have children; they have one element.
NodeShape ==
  \A n \in Cells : IF is_regular(n) THEN \E e \in heap[n].es : heap[n].es = {e}
                                    ELSE heap[n].lc = Null /\ heap[n].rc = Null

\* Counts are the numbers of references; free nodes have none.
Exact ==
  \A n \in Cells : ref_cnt(n) = References(n) /\ (heap[n].kind = "free" <=> ref_cnt(n) = 0)

\* The node an activation joins with is its own; the one it copies is inner.
Holding(c, path) ==
  LET a == act[c][path] IN
  /\ a.pc \in Joining \union {"single"} => Len(path) < MaxDepth
  /\ a.pc \in Joining => a.m # Null /\ is_regular(a.m) /\ ref_cnt(a.m) = 1
  /\ a.pc = "single" => a.extra /\ a.p # Null /\ is_regular(a.p)
  /\ a.pc = "flat" => ~a.extra

\* What the client's variables keep is all that is borrowed.
Borrowing(c, path) ==
  \A n \in Cells : Borrows(act[c][path], n) => n \in Kept(c)

\* What may be taken over is kept by nobody else.
TakingOver(c, path) ==
  LET a == act[c][path] IN
  a.pc = "enter" /\ ~a.extra => \A n \in Under(a.p) : n \in Kept(c) \/ ref_cnt(n) = 1

\* The branches of an activation run between its expose and its join.
Forking(c, path) ==
  Len(path) < MaxDepth =>
    LET a == act[c][path] IN
    \A s \in Sides :
      LET b == act[c][Side(path, s)] IN
      /\ a.pc \notin Joining \union {"single"} => b = Idle
      /\ a.pc = "single" => b.pc = "held" /\ b.extra /\ b.todo = NoReferences
      /\ a.pc \in {"copy_l", "copy_r", "spine_l", "spine_r"} =>
           b.pc = "done" /\ b.todo = NoReferences
      /\ a.pc = (IF s = "l" THEN "copy_l" ELSE "copy_r") => b.res # Null /\ is_regular(b.res)
      /\ a.pc = (IF s = "l" THEN "spine_l" ELSE "spine_r") =>
           b.res # Null /\ is_regular(b.res) /\ ref_cnt(b.res) = 1

\* The inductive invariant.
IInv ==
  /\ TypeOK /\ NodeShape /\ Exact
  /\ \A c \in Clients, path \in Paths :
       Holding(c, path) /\ Borrowing(c, path) /\ TakingOver(c, path) /\ Forking(c, path)
-----------------------------------------------------------------------------
(* What is known of the references to a node, from its count.              *)

(* The types of the values the lemmas speak of.                            *)
LEMMA TypeFacts ==
  ASSUME TypeOK
  PROVE  /\ HeapClosed
         /\ \A n \in Cells : heap[n].kind \in Kinds /\ ref_cnt(n) \in Nat
         /\ \A c \in Clients, v \in Names : root[c][v] \in Pointers
         /\ \A c \in Clients, path \in Paths :
              LET a == act[c][path] IN
              /\ a.pc \in PCs /\ a.extra \in BOOLEAN
              /\ a.p \in Pointers /\ a.m \in Pointers /\ a.res \in Pointers
              /\ Owned(a) \in Pointers
              /\ a.todo \in [Cells -> Nat]
         /\ \A d \in Cells, s \in Sides : Child(d, s) \in Pointers /\ Field(d, s) \in Pointers
         /\ Null \notin Cells
BY BoundsAssumption
   DEF TypeOK, HeapClosed, ref_cnt, Pointers, Null, Cells, Owned, Child, Field

(* The tables of references are finite, so their entries can be counted.   *)
LEMMA TablesAreFinite ==
  /\ IsFiniteSet(DOMAIN VarAt) /\ IsFiniteSet(DOMAIN FieldAt)
  /\ IsFiniteSet(DOMAIN OwnedAt) /\ IsFiniteSet(DOMAIN TodoAt)
BY CellsAreFinite, PathsAreFinite, ClientsAssumption, FS_Product
   DEF VarAt, FieldAt, OwnedAt, TodoAt

(* The tables hold what CountIsExact counts.                               *)
LEMMA ExactIsCountIsExact == TypeOK => (Exact <=> CountIsExact)
<1>1. SUFFICES ASSUME TypeOK, NEW n \in Cells
               PROVE  /\ Variables(n) = Holds(VarAt, n) /\ Fields(n) = Holds(FieldAt, n)
                      /\ Owners(n) = Holds(OwnedAt, n) /\ Drops(n) = DropsIn(TodoAt, n)
  BY DEF Exact, CountIsExact, References, NVariables, NFields, NOwners, NDrops
<1>2. n # Null
  BY <1>1, TypeFacts
<1>3. Variables(n) = Holds(VarAt, n)
  BY DEF Variables, Holds, VarAt
<1>4. Fields(n) = Holds(FieldAt, n)
  BY <1>2 DEF Fields, Holds, FieldAt, Field
<1>5. Owners(n) = Holds(OwnedAt, n)
  BY <1>2 DEF Owners, Holds, OwnedAt, Owned, Owns, Joining
<1>6. Drops(n) = DropsIn(TodoAt, n)
  BY DEF Drops, DropsIn, TodoAt
<1> QED BY <1>3, <1>4, <1>5, <1>6

(* A count is the number of variables, fields, owners and drops, and there *)
(* are as many of each as one can name.                                    *)
LEMMA CountBounds ==
  ASSUME TypeOK, Exact, NEW n \in Cells
  PROVE  \E v, f, o, t \in Nat :
           /\ ref_cnt(n) = v + f + o + t
           /\ \A c \in Clients, x \in Names : root[c][x] = n => v >= 1
           /\ \A d \in Cells, s \in Sides : Field(d, s) = n => f >= 1
           /\ \A d, e \in Cells, r, s \in Sides :
                (d # e \/ r # s) /\ Field(d, r) = n /\ Field(e, s) = n => f >= 2
           /\ \A c \in Clients, path \in Paths : Owned(act[c][path]) = n => o >= 1
           /\ \A c, d \in Clients, p, q \in Paths :
                (c # d \/ p # q) /\ Owned(act[c][p]) = n /\ Owned(act[d][q]) = n => o >= 2
           /\ \A c \in Clients, path \in Paths : act[c][path].todo[n] <= t
<1> DEFINE v == Cardinality(Holds(VarAt, n))
           f == Cardinality(Holds(FieldAt, n))
           o == Cardinality(Holds(OwnedAt, n))
           t == Cardinality(DropsIn(TodoAt, n))
<1>1. ref_cnt(n) = v + f + o + t
  BY DEF Exact, References, NVariables, NFields, NOwners, NDrops
<1>2. v \in Nat /\ \A c \in Clients, x \in Names : root[c][x] = n => v >= 1
  <2>1. \A c \in Clients, x \in Names :
          <<c, x>> \in DOMAIN VarAt /\ VarAt[<<c, x>>] = root[c][x]
    BY DEF VarAt
  <2>2. v \in Nat /\ \A p \in DOMAIN VarAt : VarAt[p] = n => v >= 1
    BY TablesAreFinite, HoldsIsFinite
  <2> HIDE DEF v
  <2> QED BY <2>1, <2>2
<1>3. /\ f \in Nat /\ \A d \in Cells, s \in Sides : Field(d, s) = n => f >= 1
      /\ \A d, e \in Cells, r, s \in Sides :
           (d # e \/ r # s) /\ Field(d, r) = n /\ Field(e, s) = n => f >= 2
  <2>1. \A d \in Cells, s \in Sides :
          <<d, s>> \in DOMAIN FieldAt /\ FieldAt[<<d, s>>] = Field(d, s)
    BY DEF FieldAt
  <2>2. /\ f \in Nat /\ \A p \in DOMAIN FieldAt : FieldAt[p] = n => f >= 1
        /\ \A p, q \in DOMAIN FieldAt : p # q /\ FieldAt[p] = n /\ FieldAt[q] = n => f >= 2
    BY TablesAreFinite, HoldsIsFinite
  <2> HIDE DEF f
  <2>3. ASSUME NEW d \in Cells, NEW e \in Cells, NEW r \in Sides, NEW s \in Sides,
               d # e \/ r # s, Field(d, r) = n, Field(e, s) = n
        PROVE  f >= 2
    <3>1. <<d, r>> # <<e, s>>
      BY <2>3
    <3> QED BY <2>1, <2>2, <2>3, <3>1
  <2>4. ASSUME NEW d \in Cells, NEW s \in Sides, Field(d, s) = n PROVE f >= 1
    BY <2>1, <2>2, <2>4
  <2> QED BY <2>2, <2>3, <2>4
<1>4. /\ o \in Nat /\ \A c \in Clients, path \in Paths : Owned(act[c][path]) = n => o >= 1
      /\ \A c, d \in Clients, p, q \in Paths :
           (c # d \/ p # q) /\ Owned(act[c][p]) = n /\ Owned(act[d][q]) = n => o >= 2
  <2>1. \A c \in Clients, path \in Paths :
          <<c, path>> \in DOMAIN OwnedAt /\ OwnedAt[<<c, path>>] = Owned(act[c][path])
    BY DEF OwnedAt
  <2>2. /\ o \in Nat /\ \A p \in DOMAIN OwnedAt : OwnedAt[p] = n => o >= 1
        /\ \A p, q \in DOMAIN OwnedAt : p # q /\ OwnedAt[p] = n /\ OwnedAt[q] = n => o >= 2
    BY TablesAreFinite, HoldsIsFinite
  <2> HIDE DEF o
  <2>3. ASSUME NEW c \in Clients, NEW d \in Clients, NEW p \in Paths, NEW q \in Paths,
               c # d \/ p # q, Owned(act[c][p]) = n, Owned(act[d][q]) = n
        PROVE  o >= 2
    <3>1. <<c, p>> # <<d, q>>
      BY <2>3
    <3> QED BY <2>1, <2>2, <2>3, <3>1
  <2>4. ASSUME NEW c \in Clients, NEW p \in Paths, Owned(act[c][p]) = n PROVE o >= 1
    BY <2>1, <2>2, <2>4
  <2> QED BY <2>2, <2>3, <2>4
<1>5. t \in Nat /\ \A c \in Clients, path \in Paths : act[c][path].todo[n] <= t
  <2>1. \A c \in Clients, path \in Paths :
          <<c, path>> \in DOMAIN TodoAt /\ TodoAt[<<c, path>>] = act[c][path].todo
    BY DEF TodoAt
  <2>2. \A p \in DOMAIN TodoAt : TodoAt[p][n] \in Nat
    BY TypeFacts DEF TodoAt
  <2>3. t \in Nat /\ \A p \in DOMAIN TodoAt : TodoAt[p][n] <= t
    BY <2>2, TablesAreFinite, DropsAreFinite
  <2> HIDE DEF t
  <2> QED BY <2>1, <2>3
<1> HIDE DEF v, f, o, t
<1> QED BY <1>1, <1>2, <1>3, <1>4, <1>5

(* Nothing refers to a free node.                                          *)
LEMMA Unreferenced ==
  ASSUME TypeOK, Exact, NEW n \in Cells, heap[n].kind = "free"
  PROVE  /\ \A c \in Clients, v \in Names : root[c][v] # n
         /\ \A d \in Cells, s \in Sides : Field(d, s) # n
         /\ \A c \in Clients, path \in Paths :
              Owned(act[c][path]) # n /\ act[c][path].todo[n] = 0
<1>1. ref_cnt(n) = 0
  BY DEF Exact
<1>2. \A c \in Clients, path \in Paths : act[c][path].todo[n] \in Nat
  BY TypeFacts
<1> QED BY <1>1, <1>2, CountBounds

(* A node with one reference, owned by an activation, has no other.        *)
LEMMA SoleOwner ==
  ASSUME TypeOK, Exact, NEW n \in Cells, ref_cnt(n) = 1,
         NEW c \in Clients, NEW path \in Paths, Owned(act[c][path]) = n
  PROVE  /\ \A d \in Clients, v \in Names : root[d][v] # n
         /\ \A d \in Cells, s \in Sides : Field(d, s) # n
         /\ \A d \in Clients, q \in Paths :
              /\ act[d][q].todo[n] = 0
              /\ Owned(act[d][q]) = n => d = c /\ q = path
<1>1. \A d \in Clients, q \in Paths : act[d][q].todo[n] \in Nat
  BY TypeFacts
<1> QED BY <1>1, CountBounds

(* A node with one reference, the child of a node, has no other.           *)
LEMMA SoleField ==
  ASSUME TypeOK, Exact, NEW n \in Cells, ref_cnt(n) = 1,
         NEW d \in Cells, NEW s \in Sides, Field(d, s) = n
  PROVE  /\ \A c \in Clients, v \in Names : root[c][v] # n
         /\ \A e \in Cells, r \in Sides : Field(e, r) = n => e = d
         /\ \A c \in Clients, q \in Paths : act[c][q].todo[n] = 0 /\ Owned(act[c][q]) # n
<1>1. \A c \in Clients, q \in Paths : act[c][q].todo[n] \in Nat
  BY TypeFacts
<1> QED BY <1>1, CountBounds

(* A node with one reference that is still to be dropped has no other.     *)
LEMMA SoleDrop ==
  ASSUME TypeOK, Exact, NEW n \in Cells, ref_cnt(n) = 1,
         NEW c \in Clients, NEW path \in Paths, act[c][path].todo[n] > 0
  PROVE  /\ \A d \in Clients, v \in Names : root[d][v] # n
         /\ \A d \in Cells, s \in Sides : Field(d, s) # n
         /\ \A d \in Clients, q \in Paths : Owned(act[d][q]) # n
<1>1. act[c][path].todo[n] \in Nat
  BY TypeFacts
<1> QED BY <1>1, CountBounds
-----------------------------------------------------------------------------
(* The trees of the variables and the trees that are taken over.           *)

\* What does not concern borrowed pointers and branches.
Base == TypeOK /\ NodeShape /\ Exact /\ \A c \in Clients, path \in Paths : Holding(c, path)

(* A node whose children belong to activations is an inner node, referred  *)
(* to by the activation that joins with it only.                           *)
LEMMA HollowFacts ==
  ASSUME Base, NEW n \in Hollow
  PROVE  /\ n \in Cells /\ is_regular(n) /\ ref_cnt(n) = 1
         /\ \E c \in Clients, path \in Paths :
              act[c][path].pc \in Joining /\ act[c][path].m = n /\ Owned(act[c][path]) = n
         /\ \A c \in Clients, path \in Paths :
              Owned(act[c][path]) = n => act[c][path].pc \in Joining
         /\ \A c \in Clients, v \in Names : root[c][v] # n
         /\ \A d \in Cells, s \in Sides : Field(d, s) # n
<1>1. PICK c \in Clients, path \in Paths :
        n \in Cells /\ act[c][path].pc \in Joining /\ act[c][path].m = n
  BY DEF Hollow
<1>2. is_regular(n) /\ ref_cnt(n) = 1
  BY <1>1 DEF Base, Holding
<1>3. Owned(act[c][path]) = n
  BY <1>1 DEF Owned, Joining
<1> QED BY <1>1, <1>2, <1>3, SoleOwner DEF Base

(* Nodes that are not hollow have their children in the tables.            *)
LEMMA FieldIsChild ==
  ASSUME NodeShape, NEW d \in Cells \ Hollow, NEW s \in Sides
  PROVE  Field(d, s) = Child(d, s)
BY DEF NodeShape, Field, Child

(* No hollow node is below one that is not hollow: what is under such a    *)
(* pointer is reached through fields that count as references.             *)
LEMMA SolidUnder ==
  ASSUME Base, NEW n \in Pointers, n \notin Hollow
  PROVE  /\ Under(n) \intersect Hollow = {}
         /\ \A k \in Under(n) : k = n \/ \E d \in Under(n), s \in Sides : Field(d, s) = k
<1>1. HeapClosed
  BY TypeFacts DEF Base
<1>2. PICK U \in SUBSET Cells : U = Under(n)
  BY <1>1, UnderFacts DEF UnderIsLeast
<1>3. IsClosed(U) /\ n \in U \union {Null}
  BY <1>1, <1>2, UnderFacts DEF UnderIsLeast
<1>4. \A d \in U \ Hollow, s \in Sides : Child(d, s) \notin Hollow
  <2>1. ASSUME NEW d \in U \ Hollow, NEW s \in Sides, Child(d, s) \in Hollow PROVE FALSE
    <3>1. d \in Cells \ Hollow
      OBVIOUS
    <3>2. Field(d, s) = Child(d, s)
      BY <3>1, FieldIsChild DEF Base
    <3> QED BY <2>1, <3>1, <3>2, HollowFacts
  <2> QED BY <2>1
<1>5. IsClosed(U \ Hollow)
  <2>1. \A d \in U \ Hollow : heap[d].lc \notin Hollow /\ heap[d].rc \notin Hollow
    BY <1>4 DEF Child, Sides
  <2> QED BY <1>3, <2>1 DEF IsClosed
<1>6. U \subseteq U \ Hollow
  <2>1. U \ Hollow \in SUBSET Cells /\ n \in (U \ Hollow) \union {Null}
    BY <1>3
  <2> QED BY <1>1, <1>2, <1>5, <2>1, UnderFacts DEF UnderIsLeast
<1>7. ASSUME NEW k \in U, k # n PROVE \E d \in U, s \in Sides : Field(d, s) = k
  <2>1. PICK d \in U : k \in {heap[d].lc, heap[d].rc}
    BY <1>1, <1>2, <1>7, UnderIsSupported
  <2>2. PICK s \in Sides : Child(d, s) = k
    BY <2>1 DEF Child, Sides
  <2>3. Field(d, s) = k
    BY <1>6, <2>2, FieldIsChild DEF Base
  <2> QED BY <2>3
<1> QED BY <1>2, <1>6, <1>7

(* What a client's variables keep: no hollow node, nothing that is not     *)
(* referred to, and the children of what they keep.                        *)
LEMMA KeptFacts ==
  ASSUME Base, NEW c \in Clients
  PROVE  /\ Kept(c) \in SUBSET Cells
         /\ IsClosed(Kept(c))
         /\ \A v \in Names : root[c][v] \in Kept(c) \union {Null}
         /\ \A T \in SUBSET Cells :
              (\A v \in Names : root[c][v] \in T \union {Null}) /\ IsClosed(T) => Kept(c) \subseteq T
         /\ Kept(c) \intersect Hollow = {}
         /\ \A k \in Kept(c) : \/ \E v \in Names : root[c][v] = k
                               \/ \E d \in Kept(c), s \in Sides : Field(d, s) = k
         /\ \A d \in Kept(c), s \in Sides : Field(d, s) \in Kept(c) \union {Null}
<1>1. HeapClosed /\ root[c]["x"] \in Pointers /\ root[c]["y"] \in Pointers
  BY TypeFacts DEF Base, Names
<1>2. PICK X \in SUBSET Cells : X = Under(root[c]["x"])
  BY <1>1, UnderFacts DEF UnderIsLeast
<1>3. PICK Y \in SUBSET Cells : Y = Under(root[c]["y"])
  BY <1>1, UnderFacts DEF UnderIsLeast
<1>4. Kept(c) = X \union Y
  BY <1>2, <1>3 DEF Kept
<1>5. /\ IsClosed(X) /\ root[c]["x"] \in X \union {Null}
      /\ IsClosed(Y) /\ root[c]["y"] \in Y \union {Null}
  BY <1>1, <1>2, <1>3, UnderFacts DEF UnderIsLeast
<1>6. \A T \in SUBSET Cells :
        (\A v \in Names : root[c][v] \in T \union {Null}) /\ IsClosed(T) => X \union Y \subseteq T
  <2>1. ASSUME NEW T \in SUBSET Cells, IsClosed(T),
               root[c]["x"] \in T \union {Null}, root[c]["y"] \in T \union {Null}
        PROVE  X \subseteq T /\ Y \subseteq T
    BY <1>1, <1>2, <1>3, <2>1, UnderFacts DEF UnderIsLeast
  <2> QED BY <2>1 DEF Names
<1>7. \A v \in Names : root[c][v] \notin Hollow
  BY HollowFacts
<1>8. /\ (X \union Y) \intersect Hollow = {}
      /\ \A k \in X : k = root[c]["x"] \/ \E d \in X, s \in Sides : Field(d, s) = k
      /\ \A k \in Y : k = root[c]["y"] \/ \E d \in Y, s \in Sides : Field(d, s) = k
  BY <1>1, <1>2, <1>3, <1>7, SolidUnder DEF Names
<1>9. IsClosed(X \union Y)
  BY <1>5 DEF IsClosed
<1>10. \A d \in X \union Y, s \in Sides : Field(d, s) \in X \union Y \union {Null}
  BY <1>9 DEF Field, IsClosed, Child
<1>11. \A v \in Names : root[c][v] \in X \union Y \union {Null}
  BY <1>5 DEF Names
<1>12. \A k \in X \union Y : \/ \E v \in Names : root[c][v] = k
                             \/ \E d \in X \union Y, s \in Sides : Field(d, s) = k
  BY <1>8 DEF Names
<1> QED BY <1>4, <1>6, <1>8, <1>9, <1>10, <1>11, <1>12

(* What a call takes over and the variables of its client do not keep is   *)
(* referred to from within that tree only.                                 *)
LEMMA PrivateNodes ==
  ASSUME Base, NEW c \in Clients, NEW path \in Paths, TakingOver(c, path),
         act[c][path].pc = "enter", ~act[c][path].extra,
         NEW n \in Under(act[c][path].p), n \notin Kept(c)
  PROVE  /\ n \in Cells /\ ref_cnt(n) = 1
         /\ \A d \in Clients, v \in Names : root[d][v] # n
         /\ \A d \in Clients, q \in Paths : Owned(act[d][q]) = n => d = c /\ q = path
         /\ \A d \in Cells, s \in Sides :
              Field(d, s) = n => d \in Under(act[c][path].p) /\ d \notin Kept(c)
<1> DEFINE p == act[c][path].p
<1>1. p \in Pointers /\ HeapClosed
  BY TypeFacts DEF Base
<1>2. Owned(act[c][path]) = p
  BY DEF Owned
<1>3. p \notin Hollow
  <2>1. act[c][path].pc \notin Joining
    BY DEF Joining
  <2> QED BY <1>2, <2>1, HollowFacts
<1>4. Under(p) \in SUBSET Cells
  BY <1>1, UnderFacts DEF UnderIsLeast
<1>5. n \in Cells /\ ref_cnt(n) = 1
  BY <1>4 DEF TakingOver
<1>6. n = p \/ \E d \in Under(p), s \in Sides : Field(d, s) = n
  BY <1>1, <1>3, SolidUnder
<1> HIDE DEF p
<1>7. CASE n = p
  BY <1>2, <1>5, <1>7, SoleOwner DEF Base
<1>8. ASSUME NEW d \in Under(p), NEW s \in Sides, Field(d, s) = n
      PROVE  /\ \A e \in Clients, v \in Names : root[e][v] # n
             /\ \A e \in Clients, q \in Paths : Owned(act[e][q]) # n
             /\ \A e \in Cells, r \in Sides :
                  Field(e, r) = n => e \in Under(p) /\ e \notin Kept(c)
  <2>1. d \in Cells
    BY <1>4
  <2>2. n # Null
    BY <1>5, TypeFacts DEF Base
  <2>3. d \notin Kept(c)
    BY <1>8, <2>2, KeptFacts
  <2>4. \A e \in Cells, r \in Sides : Field(e, r) = n => e = d
    BY <1>5, <1>8, <2>1, SoleField DEF Base
  <2>5. \A e \in Clients, v \in Names : root[e][v] # n
    BY <1>5, <1>8, <2>1, SoleField DEF Base
  <2>6. \A e \in Clients, q \in Paths : Owned(act[e][q]) # n
    BY <1>5, <1>8, <2>1, SoleField DEF Base
  <2> QED BY <2>3, <2>4, <2>5, <2>6
<1> QED BY <1>5, <1>6, <1>7, <1>8 DEF p

(* No other client keeps any of it.                                        *)
LEMMA PrivateIsKeptByNone ==
  ASSUME Base, NEW c \in Clients, NEW path \in Paths, TakingOver(c, path),
         act[c][path].pc = "enter", ~act[c][path].extra, NEW d \in Clients
  PROVE  Under(act[c][path].p) \intersect Kept(d) \subseteq Kept(c)
<1>1. PICK U : U = Under(act[c][path].p)
  OBVIOUS
<1>2. PICK K \in SUBSET Cells : K = Kept(d)
  BY KeptFacts
<1>3. PICK C \in SUBSET Cells : C = Kept(c)
  BY KeptFacts
<1> DEFINE T == {k \in K : k \notin U \/ k \in C}
<1>4. \A v \in Names : root[d][v] \in T \union {Null}
  <2>1. ASSUME NEW v \in Names, root[d][v] # Null PROVE root[d][v] \in T
    <3>1. root[d][v] \in K
      BY <1>2, <2>1, KeptFacts
    <3>2. root[d][v] \in U => root[d][v] \in C
      BY <1>1, <1>3, PrivateNodes
    <3> QED BY <3>1, <3>2
  <2> QED BY <2>1
<1>5. IsClosed(T)
  <2>1. ASSUME NEW k \in T, NEW s \in Sides, Child(k, s) # Null PROVE Child(k, s) \in T
    <3>1. k \in Cells \ Hollow
      BY <1>2, KeptFacts
    <3>2. Field(k, s) = Child(k, s)
      BY <3>1, FieldIsChild DEF Base
    <3>3. Child(k, s) \in K
      BY <1>2, <2>1, <3>2, KeptFacts
    <3>4. Child(k, s) \in U /\ Child(k, s) \notin C => k \in U /\ k \notin C
      BY <1>1, <1>3, <3>1, <3>2, PrivateNodes
    <3> QED BY <3>3, <3>4
  <2> QED BY <2>1 DEF IsClosed, Child, Sides
<1>6. K \subseteq T
  <2>1. T \in SUBSET Cells
    OBVIOUS
  <2> HIDE DEF T
  <2> QED BY <1>2, <1>4, <1>5, <2>1, KeptFacts
<1> QED BY <1>1, <1>2, <1>3, <1>6
-----------------------------------------------------------------------------
(* What a step of the activations P of client c may do to the nodes, so    *)
(* that nobody else notices.                                               *)

\* Only the activations P of c refer to n, if anybody does.
Unshared(c, P, n) ==
  /\ \A d \in Clients, v \in Names : root[d][v] # n
  /\ \A d \in Cells, s \in Sides : Field(d, s) # n
  /\ \A d \in Clients, q \in Paths : Owned(act[d][q]) = n => d = c /\ q \in P

\* Somebody other than an owner outside P refers to n and does so on.
Shared(c, P, n) ==
  \/ \E d \in Clients : n \in Kept(d)
  \/ \E q \in P, e \in Cells, s \in Sides : Owned(act[c][q]) = e /\ Field(e, s) = n

\* b goes on as a, except that references are dropped on the way.
GoesOn(a, b) ==
  \/ b = a
  \/ /\ a.todo # NoReferences
     /\ b.pc = a.pc /\ b.p = a.p /\ b.extra = a.extra /\ b.m = a.m /\ b.res = a.res

\* What the activations P of c do to nodes others know leaves these as they
\* are, but for counts that were above one or are of nodes that are shared
\* anyway.
Harmless(c, P) ==
  /\ \A d \in Clients, q \in Paths : d # c \/ q \notin P => GoesOn(act[d][q], act'[d][q])
  /\ \A d \in Clients :
       root'[d] = root[d] \/ (d = c /\ \A q \in Paths : q \notin P => act[c][q] = Idle)
  /\ \A n \in Cells : ~Unshared(c, P, n) =>
       /\ heap'[n].kind = heap[n].kind /\ heap'[n].es = heap[n].es
       /\ heap'[n].lc = heap[n].lc /\ heap'[n].rc = heap[n].rc
       /\ heap'[n].cnt = heap[n].cnt \/ heap[n].cnt > 1 \/ Shared(c, P, n)

(* The part of the invariant the lemmas about trees use.                   *)
LEMMA BaseOfIInv == IInv => Base
BY DEF IInv, Base

(* The fields of an idle activation.                                       *)
LEMMA IdleFacts ==
  /\ Idle.pc = "idle" /\ Idle.p = Null /\ Idle.extra = FALSE /\ Idle.m = Null
  /\ Idle.res = Null /\ Idle.todo = NoReferences /\ Owned(Idle) = Null
BY DEF Idle, Owned, Joining

(* What is owned outside P is not changed, nor its count if it is one.     *)
LEMMA OwnedStays ==
  ASSUME IInv, NEW c \in Clients, NEW P \in SUBSET Paths, Harmless(c, P),
         NEW d \in Clients, NEW q \in Paths, d # c \/ q \notin P,
         NEW n \in Cells, Owned(act[d][q]) = n
  PROVE  /\ heap'[n].kind = heap[n].kind
         /\ heap[n].cnt = 1 => heap'[n].cnt = 1
<1>1. ~Unshared(c, P, n)
  BY DEF Unshared
<1>2. heap'[n].kind = heap[n].kind
  BY <1>1 DEF Harmless
<1>3. ASSUME heap[n].cnt = 1, heap'[n].cnt # 1 PROVE FALSE
  <2>1. Shared(c, P, n)
    BY <1>1, <1>3 DEF Harmless
  <2>2. ref_cnt(n) = 1 /\ TypeOK /\ Exact /\ Base
    BY <1>3, BaseOfIInv DEF ref_cnt, IInv
  <2>3. /\ \A e \in Clients, v \in Names : root[e][v] # n
        /\ \A e \in Cells, s \in Sides : Field(e, s) # n
    BY <2>2, SoleOwner
  <2>4. \A e \in Clients : n \notin Kept(e)
    BY <2>2, <2>3, KeptFacts
  <2> QED BY <2>1, <2>3, <2>4 DEF Shared
<1> QED BY <1>2, <1>3

(* What the variables of another client keep, and those of c unless its    *)
(* other activations are idle, stays as it is.                             *)
LEMMA KeptStays ==
  ASSUME IInv, TypeOK', NEW c \in Clients, NEW P \in SUBSET Paths, Harmless(c, P),
         NEW d \in Clients, root'[d] = root[d]
  PROVE  /\ Kept(d)' = Kept(d)
         /\ \A n \in Kept(d) : heap'[n].kind = heap[n].kind
<1>1. Base /\ HeapClosed /\ root[d]["x"] \in Pointers /\ root[d]["y"] \in Pointers
  BY TypeFacts, BaseOfIInv DEF Base, Names
<1>2. HeapClosed'
  BY DEF TypeOK, HeapClosed
<1>3. ASSUME NEW n \in Kept(d)
      PROVE  heap'[n].kind = heap[n].kind /\ heap'[n].lc = heap[n].lc /\ heap'[n].rc = heap[n].rc
  <2>1. n \in Cells
    BY <1>1, KeptFacts
  <2>2. ~Unshared(c, P, n)
    BY <1>1, KeptFacts DEF Unshared
  <2> QED BY <2>1, <2>2 DEF Harmless
<1>4. Under(root[d]["x"])' = Under(root[d]["x"])
  <2>1. PICK r \in Pointers : r = root[d]["x"]
    BY <1>1
  <2>2. Under(r)' = Under(r)
    BY <1>1, <1>2, <1>3, <2>1, UnderStays DEF Kept
  <2> QED BY <2>1, <2>2
<1>5. Under(root[d]["y"])' = Under(root[d]["y"])
  <2>1. PICK r \in Pointers : r = root[d]["y"]
    BY <1>1
  <2>2. Under(r)' = Under(r)
    BY <1>1, <1>2, <1>3, <2>1, UnderStays DEF Kept
  <2> QED BY <2>1, <2>2
<1> QED BY <1>3, <1>4, <1>5 DEF Kept

(* Activations outside P go on holding and borrowing live nodes.           *)
LEMMA HoldingStays ==
  ASSUME IInv, TypeOK', NEW c \in Clients, NEW P \in SUBSET Paths, Harmless(c, P),
         NEW d \in Clients, NEW q \in Paths, d # c \/ q \notin P
  PROVE  Holding(d, q)' /\ Borrowing(d, q)'
<1> DEFINE a == act[d][q]
<1>1. GoesOn(a, act'[d][q]) /\ Holding(d, q) /\ Borrowing(d, q)
  BY DEF Harmless, IInv
<1>2. CASE a = Idle
  <2>1. act'[d][q] = Idle
    BY <1>1, <1>2, IdleFacts DEF GoesOn
  <2> QED BY <2>1, IdleFacts DEF Holding, Borrowing, Borrows, Joining
<1>3. CASE a # Idle
  <2>1. root'[d] = root[d]
    BY <1>3 DEF Harmless
  <2>2. Kept(d)' = Kept(d) /\ \A n \in Kept(d) : heap'[n].kind = heap[n].kind
    BY <2>1, KeptStays
  <2>3. Borrowing(d, q)'
    BY <1>1, <2>2 DEF Borrowing, Borrows, GoesOn
  <2>4. a.p \in Pointers /\ a.m \in Pointers
    BY TypeFacts DEF IInv
  <2>5. ASSUME a.pc \in Joining
        PROVE  heap'[a.m].kind = "regular" /\ heap'[a.m].cnt = 1
    <3>1. a.m \in Cells /\ heap[a.m].kind = "regular" /\ heap[a.m].cnt = 1
      BY <1>1, <2>4, <2>5 DEF Holding, Pointers, is_regular, ref_cnt
    <3>2. Owned(a) = a.m
      BY <2>5 DEF Owned, Joining
    <3> QED BY <3>1, <3>2, OwnedStays
  <2>6. ASSUME a.pc = "single"
        PROVE  heap'[a.p].kind = "regular"
    <3>1. a.p \in Cells /\ heap[a.p].kind = "regular" /\ a.extra
      BY <1>1, <2>4, <2>6 DEF Holding, Pointers, is_regular
    <3>2. a.p \in Kept(d)
      BY <1>1, <2>6, <3>1 DEF Borrowing, Borrows
    <3> QED BY <2>2, <3>1, <3>2
  <2>7. Holding(d, q)'
    <3> HIDE DEF a
    <3>1. Holding(d, q) <=>
            /\ a.pc \in Joining \union {"single"} => Len(q) < MaxDepth
            /\ a.pc \in Joining => a.m # Null /\ heap[a.m].kind = "regular" /\ heap[a.m].cnt = 1
            /\ a.pc = "single" => a.extra /\ a.p # Null /\ heap[a.p].kind = "regular"
            /\ a.pc = "flat" => ~a.extra
      BY DEF Holding, a, is_regular, ref_cnt
    <3>2. Holding(d, q)' <=>
            /\ a.pc \in Joining \union {"single"} => Len(q) < MaxDepth
            /\ a.pc \in Joining => a.m # Null /\ heap'[a.m].kind = "regular" /\ heap'[a.m].cnt = 1
            /\ a.pc = "single" => a.extra /\ a.p # Null /\ heap'[a.p].kind = "regular"
            /\ a.pc = "flat" => ~a.extra
      BY <1>1 DEF Holding, is_regular, ref_cnt, GoesOn
    <3> QED BY <1>1, <2>5, <2>6, <3>1, <3>2
  <2> QED BY <2>3, <2>7
<1> QED BY <1>2, <1>3

(* What an activation outside P takes over stays its own: a count that is  *)
(* raised is that of a node a variable keeps, or of one under an owner in  *)
(* P.                                                                      *)
LEMMA TakingOverStays ==
  ASSUME IInv, TypeOK', NEW c \in Clients, NEW P \in SUBSET Paths, Harmless(c, P),
         NEW d \in Clients, NEW q \in Paths, d # c \/ q \notin P
  PROVE  TakingOver(d, q)'
<1> DEFINE a == act[d][q]
<1>1. act'[d][q].p = a.p /\ TakingOver(d, q) /\ Base
  BY BaseOfIInv DEF Harmless, GoesOn, IInv
<1>2. SUFFICES ASSUME a.pc = "enter", ~a.extra, NEW n \in Under(a.p)'
               PROVE  n \in Kept(d)' \/ heap'[n].cnt = 1
  BY <1>1 DEF TakingOver, ref_cnt, Harmless, GoesOn
<1>3. a # Idle
  BY <1>2, IdleFacts
<1>4. root'[d] = root[d]
  BY <1>3 DEF Harmless
<1>5. Kept(d)' = Kept(d)
  BY <1>4, KeptStays
<1>6. HeapClosed /\ HeapClosed' /\ a.p \in Pointers
  BY <1>1, TypeFacts DEF Base, TypeOK, HeapClosed
<1>7. Under(a.p) \in SUBSET Cells
  BY <1>6, UnderFacts DEF UnderIsLeast
<1>8. ASSUME NEW k \in Under(a.p)
      PROVE  ~Unshared(c, P, k)
  <2>1. CASE k \in Kept(d)
    <3>1. \/ \E v \in Names : root[d][v] = k
          \/ \E e \in Cells, s \in Sides : Field(e, s) = k
      BY <1>1, <2>1, KeptFacts
    <3> QED BY <3>1 DEF Unshared
  <2>2. CASE k = a.p
    BY <1>2, <2>2 DEF Unshared, Owned
  <2>3. CASE k # a.p
    <3>1. a.p \notin Hollow
      BY <1>1, <1>2, HollowFacts DEF Owned, Joining
    <3>2. \E e \in Under(a.p), s \in Sides : Field(e, s) = k
      BY <1>1, <1>6, <2>3, <3>1, SolidUnder
    <3> QED BY <1>7, <3>2 DEF Unshared
  <2> QED BY <2>2, <2>3
<1>9. Under(a.p)' = Under(a.p)
  <2>1. PICK r \in Pointers : r = a.p
    BY <1>6
  <2>2. \A k \in Under(r) : heap'[k].lc = heap[k].lc /\ heap'[k].rc = heap[k].rc
    BY <1>7, <1>8, <2>1 DEF Harmless
  <2>3. Under(r)' = Under(r)
    BY <1>6, <2>2, UnderStays
  <2> QED BY <1>1, <2>1, <2>3
<1>10. ASSUME n \notin Kept(d), heap'[n].cnt # 1 PROVE FALSE
  <2>1. n \in Under(a.p) /\ n \in Cells
    BY <1>2, <1>7, <1>9
  <2>2. heap[n].cnt = 1
    BY <1>1, <1>2, <1>10, <2>1, PrivateNodes DEF ref_cnt
  <2>3. Shared(c, P, n)
    BY <1>8, <1>10, <2>1, <2>2 DEF Harmless
  <2>4. \A e \in Clients : n \notin Kept(e)
    BY <1>1, <1>2, <1>10, <2>1, PrivateIsKeptByNone
  <2>5. PICK p \in P, e \in Cells, s \in Sides : Owned(act[c][p]) = e /\ Field(e, s) = n
    BY <2>3, <2>4 DEF Shared
  <2>6. e \in Under(a.p) /\ e \notin Kept(d)
    BY <1>1, <1>2, <1>10, <2>1, <2>5, PrivateNodes
  <2>7. c = d /\ p = q
    BY <1>1, <1>2, <2>5, <2>6, PrivateNodes
  <2> QED BY <2>5, <2>7
<1> QED BY <1>5, <1>10

(* Activations outside P go on waiting for branches that are as they       *)
(* expect them, unless the branch is the one that steps.                   *)
LEMMA ForkingStays ==
  ASSUME IInv, TypeOK', NEW c \in Clients, NEW P \in SUBSET Paths, Harmless(c, P),
         NEW d \in Clients, NEW q \in Paths, d # c \/ q \notin P,
         act[d][q].pc = "fork" \/ \A s \in Sides : d # c \/ Side(q, s) \notin P
  PROVE  Forking(d, q)'
<1> DEFINE a == act[d][q]
<1>1. act'[d][q].pc = a.pc /\ Forking(d, q)
  BY DEF Harmless, GoesOn, IInv
<1>2. CASE a.pc = "fork"
  BY <1>1, <1>2 DEF Forking, Joining
<1>3. ASSUME NEW s \in Sides, d # c \/ Side(q, s) \notin P, Len(q) < MaxDepth, a.pc # "fork"
      PROVE  LET b == act'[d][Side(q, s)] IN
             /\ a.pc \notin Joining \union {"single"} => b = Idle
             /\ a.pc = "single" => b.pc = "held" /\ b.extra /\ b.todo = NoReferences
             /\ a.pc \in {"copy_l", "copy_r", "spine_l", "spine_r"} =>
                  b.pc = "done" /\ b.todo = NoReferences
             /\ a.pc = (IF s = "l" THEN "copy_l" ELSE "copy_r") =>
                  b.res # Null /\ heap'[b.res].kind = "regular"
             /\ a.pc = (IF s = "l" THEN "spine_l" ELSE "spine_r") =>
                  b.res # Null /\ heap'[b.res].kind = "regular" /\ heap'[b.res].cnt = 1
  <2>1. Side(q, s) \in Paths
    BY <1>3, SideFacts
  <2>2. PICK b : b = act[d][Side(q, s)]
    OBVIOUS
  <2>3. b.todo = NoReferences => act'[d][Side(q, s)] = b
    BY <1>3, <2>1, <2>2 DEF Harmless, GoesOn
  <2>4. /\ a.pc \notin Joining \union {"single"} => b = Idle /\ b.todo = NoReferences
        /\ a.pc = "single" => b.pc = "held" /\ b.extra /\ b.todo = NoReferences
        /\ a.pc \in {"copy_l", "copy_r", "spine_l", "spine_r"} =>
             b.pc = "done" /\ b.todo = NoReferences
        /\ a.pc = (IF s = "l" THEN "copy_l" ELSE "copy_r") =>
             b.res # Null /\ heap[b.res].kind = "regular"
        /\ a.pc = (IF s = "l" THEN "spine_l" ELSE "spine_r") =>
             b.res # Null /\ heap[b.res].kind = "regular" /\ heap[b.res].cnt = 1
    BY <1>1, <1>3, <2>2, IdleFacts DEF Forking, is_regular, ref_cnt
  <2>5. b.pc = "done" /\ b.res # Null =>
          /\ heap'[b.res].kind = heap[b.res].kind
          /\ heap[b.res].cnt = 1 => heap'[b.res].cnt = 1
    <3>1. b.res \in Pointers /\ (b.pc = "done" => Owned(b) = b.res)
      BY <2>1, <2>2, TypeFacts DEF IInv, Owned, Joining
    <3>2. ASSUME b.pc = "done", b.res # Null
          PROVE  /\ heap'[b.res].kind = heap[b.res].kind
                 /\ heap[b.res].cnt = 1 => heap'[b.res].cnt = 1
      <4>1. b.res \in Cells /\ Owned(act[d][Side(q, s)]) = b.res
        BY <2>2, <3>1, <3>2 DEF Pointers
      <4> QED BY <1>3, <2>1, <4>1, OwnedStays
    <3> QED BY <3>2
  <2>6. a.pc \in Joining \union {"single"} /\ a.pc # "fork" => b.todo = NoReferences
    BY <2>4 DEF Joining
  <2> HIDE DEF a
  <2> QED BY <1>3, <2>3, <2>4, <2>5, <2>6
<1>4. CASE a.pc # "fork" /\ \A s \in Sides : d # c \/ Side(q, s) \notin P
  BY <1>1, <1>3, <1>4 DEF Forking, is_regular, ref_cnt
<1> QED BY <1>2, <1>4

\* c's activation at path and its branches.
Family(path) ==
  {path} \union (IF Len(path) < MaxDepth THEN {Side(path, s) : s \in Sides} ELSE {})

(* An activation and its branches, by their paths.                         *)
LEMMA PathFacts ==
  ASSUME NEW path \in Paths
  PROVE  /\ Len(path) \in Nat
         /\ Family(path) \in SUBSET Paths
         /\ Len(path) < MaxDepth =>
              LET l == Side(path, "l")
                  r == Side(path, "r")
              IN  /\ l \in Paths /\ r \in Paths /\ l # r /\ l # path /\ r # path
                  /\ Family(path) = {path, l, r}
         /\ \A q \in Paths, s \in Sides :
              /\ Len(q) < MaxDepth => Side(q, s) \in Paths /\ Side(q, s) # q /\ Side(q, s) # Top
              /\ Side(q, s) \in Family(path) /\ Len(q) < MaxDepth => q = path \/ Side(q, s) = path
<1>1. Len(path) \in Nat
  BY SideFacts DEF MaxDepth
<1>2. \A q \in Paths, s \in Sides :
        Len(q) < MaxDepth => Side(q, s) \in Paths /\ Side(q, s) # q /\ Side(q, s) # Top
  <2>1. ASSUME NEW q \in Paths, NEW s \in Sides, Len(q) < MaxDepth
        PROVE  Side(q, s) \in Paths /\ Side(q, s) # Top /\ Len(Side(q, s)) = Len(q) + 1
    BY <2>1, SideFacts
  <2>2. \A q \in Paths : Len(q) \in 0..MaxDepth
    BY SideFacts
  <2>3. ASSUME NEW q \in Paths, NEW s \in Sides, Len(q) < MaxDepth PROVE Side(q, s) # q
    BY <2>1, <2>2, <2>3 DEF MaxDepth
  <2> QED BY <2>1, <2>3
<1>3. Family(path) \in SUBSET Paths
  BY <1>2 DEF Family
<1>4. Side(path, "l") # Side(path, "r")
  BY SideFacts DEF Sides
<1>5. Len(path) < MaxDepth => Family(path) = {path, Side(path, "l"), Side(path, "r")}
  BY DEF Family, Sides
<1>6. ASSUME NEW q \in Paths, NEW s \in Sides, Side(q, s) \in Family(path), Len(q) < MaxDepth
      PROVE  q = path \/ Side(q, s) = path
  BY <1>6, SideFacts DEF Family
<1> QED BY <1>1, <1>2, <1>3, <1>4, <1>5, <1>6 DEF Sides

(* An activation that runs, or has references to drop, was forked by one   *)
(* that waits.                                                             *)
LEMMA ParentForks ==
  ASSUME IInv, NEW c \in Clients, NEW q \in Paths, NEW s \in Sides, Len(q) < MaxDepth,
         \/ act[c][Side(q, s)].pc \notin {"idle", "held", "done"}
         \/ act[c][Side(q, s)].todo # NoReferences
  PROVE  act[c][q].pc = "fork"
BY IdleFacts DEF IInv, Forking, Joining

(* A harmless step changes nothing under a variable.                       *)
LEMMA HarmlessPersists ==
  ASSUME IInv, TypeOK', NEW c \in Clients, NEW P \in SUBSET Paths, Harmless(c, P)
  PROVE  Persists
<1>1. SUFFICES ASSUME NEW d \in Clients, NEW v \in Names, root'[d][v] = root[d][v]
               PROVE  Elements(root[d][v])' = Elements(root[d][v])
  BY DEF Persists
<1>2. Base /\ HeapClosed /\ HeapClosed'
  BY TypeFacts, BaseOfIInv DEF Base, TypeOK, HeapClosed
<1>3. PICK r \in Pointers : r = root[d][v]
  BY TypeFacts DEF IInv
<1>4. \A n \in Under(r) : n \in Kept(d)
  BY <1>3 DEF Kept, Names
<1>5. ASSUME NEW n \in Under(r)
      PROVE  heap'[n].lc = heap[n].lc /\ heap'[n].rc = heap[n].rc /\ heap'[n].es = heap[n].es
  <2>1. n \in Kept(d) /\ n \in Cells
    BY <1>2, <1>4, KeptFacts
  <2>2. ~Unshared(c, P, n)
    BY <1>2, <2>1, KeptFacts DEF Unshared
  <2> QED BY <2>1, <2>2 DEF Harmless
<1>6. Under(r)' = Under(r)
  BY <1>2, <1>5, UnderStays
<1>7. Elements(r)' = Elements(r)
  BY <1>5, <1>6 DEF Elements
<1>8. Elements(root[d][v])' = Elements(r)'
  BY <1>1, <1>3 DEF Elements
<1> QED BY <1>3, <1>7, <1>8

(* To preserve the invariant, a step of an activation has to be harmless   *)
(* and leave that activation and its branches as the invariant wants them. *)
LEMMA StepPreservesIInv ==
  ASSUME IInv, TypeOK', NodeShape', Exact',
         NEW c \in Clients, NEW path \in Paths, NEW P \in SUBSET Family(path), Harmless(c, P),
         \/ P = {}
         \/ /\ path \in P
            /\ \/ path = Top
               \/ act[c][path].pc \notin {"idle", "held", "done"}
               \/ act[c][path].todo # NoReferences,
         \A q \in P : Holding(c, q)' /\ Borrowing(c, q)' /\ TakingOver(c, q)' /\ Forking(c, q)'
  PROVE  IInv' /\ Persists
<1>1. P \in SUBSET Paths
  BY PathFacts
<1>2. ASSUME NEW d \in Clients, NEW q \in Paths, d # c \/ q \notin P
      PROVE  Holding(d, q)' /\ Borrowing(d, q)' /\ TakingOver(d, q)' /\ Forking(d, q)'
  <2>1. Holding(d, q)' /\ Borrowing(d, q)' /\ TakingOver(d, q)'
    BY <1>1, <1>2, HoldingStays, TakingOverStays
  <2>2. Forking(d, q)'
    <3>1. CASE ~(Len(q) < MaxDepth)
      BY <3>1 DEF Forking
    <3>2. ASSUME Len(q) < MaxDepth, NEW s \in Sides, d = c, Side(q, s) \in P
          PROVE  act[d][q].pc = "fork"
      <4>1. q # path
        BY <1>2, <3>2
      <4>2. Side(q, s) = path
        BY <3>2, <4>1, PathFacts
      <4>3. Side(q, s) # Top
        BY <3>2, PathFacts
      <4> QED BY <3>2, <4>2, <4>3, ParentForks
    <3>3. CASE Len(q) < MaxDepth
      BY <1>1, <1>2, <3>2, <3>3, ForkingStays
    <3> QED BY <3>1, <3>3
  <2> QED BY <2>1, <2>2
<1>3. Persists
  BY <1>1, HarmlessPersists
<1> QED BY <1>2, <1>3 DEF IInv
-----------------------------------------------------------------------------
(* How the references to a node change when activations do.                *)

\* The node an activation joins with, Null if none.
JoinsWith(a) == IF a.pc \in Joining THEN a.m ELSE Null

(* Hollow nodes are those an activation joins with.                        *)
LEMMA HollowIsJoined ==
  TypeOK => Hollow = {n \in Cells : \E c \in Clients, q \in Paths : JoinsWith(act[c][q]) = n}
<1>1. SUFFICES ASSUME TypeOK
      PROVE Hollow = {n \in Cells : \E c \in Clients, q \in Paths : JoinsWith(act[c][q]) = n}
  OBVIOUS
<1>2. Null \notin Cells
  BY <1>1, TypeFacts
<1> QED BY <1>2 DEF Hollow, JoinsWith

(* The same, of the next state.                                            *)
LEMMA HollowIsJoinedNext ==
  TypeOK' => Hollow' = {n \in Cells : \E c \in Clients, q \in Paths : JoinsWith(act'[c][q]) = n}
<1>1. SUFFICES ASSUME TypeOK'
      PROVE Hollow' = {n \in Cells : \E c \in Clients, q \in Paths : JoinsWith(act'[c][q]) = n}
  OBVIOUS
<1>2. Null \notin Cells
  BY BoundsAssumption DEF Cells, Null
<1> QED BY <1>2 DEF Hollow, JoinsWith

(* One activation changes what it joins with.                              *)
LEMMA HollowStep ==
  ASSUME Base, TypeOK', NEW c \in Clients, NEW path \in Paths,
         \A d \in Clients, q \in Paths :
           d # c \/ q # path => JoinsWith(act'[d][q]) = JoinsWith(act[d][q])
  PROVE  Hollow' = (Hollow \ {JoinsWith(act[c][path])}) \union ({JoinsWith(act'[c][path])} \ {Null})
<1>1. \A n \in Cells, d \in Clients, q \in Paths :
        JoinsWith(act[c][path]) = n /\ JoinsWith(act[d][q]) = n => d = c /\ q = path
  <2>1. ASSUME NEW d \in Clients, NEW q \in Paths, NEW n \in Cells, JoinsWith(act[d][q]) = n
        PROVE  Owned(act[d][q]) = n /\ ref_cnt(n) = 1
    <3>1. n # Null
      BY TypeFacts DEF Base
    <3> QED BY <2>1, <3>1 DEF Base, Holding, JoinsWith, Owned, Joining
  <2> QED BY <2>1, SoleOwner DEF Base
<1>2. \A d \in Clients, q \in Paths : JoinsWith(act'[d][q]) \in Cells \union {Null}
  BY DEF JoinsWith, TypeOK, Pointers
<1>3. Hollow = {n \in Cells : \E d \in Clients, q \in Paths : JoinsWith(act[d][q]) = n}
  BY HollowIsJoined DEF Base
<1>4. Hollow' = {n \in Cells : \E d \in Clients, q \in Paths : JoinsWith(act'[d][q]) = n}
  BY HollowIsJoinedNext
<1>5. Null \notin Cells
  BY BoundsAssumption DEF Cells, Null
<1> QED BY <1>1, <1>2, <1>3, <1>4, <1>5

CountsAreNat ==
  \A n \in Cells : /\ NVariables(n) \in Nat /\ NFields(n) \in Nat
                   /\ NOwners(n) \in Nat /\ NDrops(n) \in Nat

(* The numbers of references are natural numbers.                          *)
LEMMA CountTypes == TypeOK => CountsAreNat
<1>1. SUFFICES ASSUME TypeOK, NEW n \in Cells
               PROVE  /\ NVariables(n) \in Nat /\ NFields(n) \in Nat
                      /\ NOwners(n) \in Nat /\ NDrops(n) \in Nat
  BY DEF CountsAreNat
<1>2. \A p \in DOMAIN TodoAt : TodoAt[p][n] \in Nat
  BY <1>1, TypeFacts DEF TodoAt
<1>3. NDrops(n) \in Nat
  BY <1>2, TablesAreFinite, DropsAreFinite DEF NDrops
<1>4. NVariables(n) \in Nat /\ NFields(n) \in Nat /\ NOwners(n) \in Nat
  BY TablesAreFinite, HoldsIsFinite DEF NVariables, NFields, NOwners
<1> QED BY <1>3, <1>4

(* The same, of the next state.                                            *)
LEMMA CountTypesNext == TypeOK' => CountsAreNat'
BY CountTypes, PTL

(* No variable is assigned.                                                *)
LEMMA VariablesSame ==
  ASSUME root' = root, NEW n
  PROVE  NVariables(n)' = NVariables(n)
BY DEF NVariables, VarAt, Holds

(* One variable is assigned.                                               *)
LEMMA VariablesStep ==
  ASSUME NEW c \in Clients, NEW v \in Names, NEW n,
         \A d \in Clients, w \in Names : d # c \/ w # v => root'[d][w] = root[d][w]
  PROVE  NVariables(n)' = NVariables(n) - Is(root[c][v], n) + Is(root'[c][v], n)
<1> DEFINE T == VarAt
           U == VarAt'
<1>1. IsFiniteSet(DOMAIN T)
  BY TablesAreFinite
<1>2. /\ DOMAIN U = DOMAIN T /\ <<c, v>> \in DOMAIN T
      /\ \A p \in DOMAIN T \ {<<c, v>>} : U[p] = T[p]
      /\ T[<<c, v>>] = root[c][v] /\ U[<<c, v>>] = root'[c][v]
  BY DEF VarAt
<1>3. NVariables(n) = Cardinality(Holds(T, n)) /\ NVariables(n)' = Cardinality(Holds(U, n))
  BY DEF NVariables, Holds
<1> HIDE DEF T, U
<1> QED BY <1>1, <1>2, <1>3, Store1

(* No child changes.                                                       *)
LEMMA FieldsSame ==
  ASSUME \A d \in Cells, s \in Sides : Field(d, s)' = Field(d, s), NEW n
  PROVE  NFields(n)' = NFields(n)
<1>1. FieldAt' = FieldAt
  BY DEF FieldAt
<1> QED BY <1>1 DEF NFields, Holds

(* The children of one node change.                                        *)
LEMMA FieldsStep ==
  ASSUME NEW m \in Cells, NEW n,
         \A d \in Cells \ {m}, s \in Sides : Field(d, s)' = Field(d, s)
  PROVE  NFields(n)' = NFields(n) - Is(Field(m, "l"), n) + Is(Field(m, "l")', n)
                                  - Is(Field(m, "r"), n) + Is(Field(m, "r")', n)
<1> DEFINE T == FieldAt
           U == FieldAt'
           a == <<m, "l">>
           b == <<m, "r">>
<1>1. IsFiniteSet(DOMAIN T)
  BY TablesAreFinite
<1>2. a \in DOMAIN T /\ b \in DOMAIN T /\ a # b /\ DOMAIN U = DOMAIN T
  BY DEF FieldAt, Sides
<1>3. /\ T[a] = Field(m, "l") /\ T[b] = Field(m, "r")
      /\ U[a] = Field(m, "l")' /\ U[b] = Field(m, "r")'
  BY DEF FieldAt, Sides
<1>4. \A p \in DOMAIN T \ {a, b} : U[p] = T[p]
  <2>1. ASSUME NEW d \in Cells, NEW s \in Sides, <<d, s>> \notin {a, b} PROVE d \in Cells \ {m}
    BY <2>1 DEF Sides
  <2> QED BY <2>1 DEF FieldAt
<1>5. NFields(n) = Cardinality(Holds(T, n)) /\ NFields(n)' = Cardinality(Holds(U, n))
  BY DEF NFields, Holds
<1> HIDE DEF T, U, a, b
<1>6. Cardinality(Holds(U, n)) = Cardinality(Holds(T, n)) - Is(T[a], n) + Is(U[a], n)
                                                          - Is(T[b], n) + Is(U[b], n)
  BY <1>1, <1>2, <1>4, Store2
<1> QED BY <1>3, <1>5, <1>6

(* The children of one node and one child of another change.               *)
LEMMA FieldsStep2 ==
  ASSUME NEW m \in Cells, NEW t \in Cells, m # t, NEW r \in Sides, NEW n,
         \A d \in Cells, s \in Sides : d # m /\ <<d, s>> # <<t, r>> => Field(d, s)' = Field(d, s)
  PROVE  NFields(n)' = NFields(n) - Is(Field(m, "l"), n) + Is(Field(m, "l")', n)
                                  - Is(Field(m, "r"), n) + Is(Field(m, "r")', n)
                                  - Is(Field(t, r), n) + Is(Field(t, r)', n)
<1> DEFINE T == FieldAt
           U == FieldAt'
           a == <<m, "l">>
           b == <<m, "r">>
           c == <<t, r>>
<1>1. IsFiniteSet(DOMAIN T)
  BY TablesAreFinite
<1>2. /\ a \in DOMAIN T /\ b \in DOMAIN T /\ c \in DOMAIN T /\ DOMAIN U = DOMAIN T
      /\ a # b /\ a # c /\ b # c
  BY DEF FieldAt, Sides
<1>3. /\ T[a] = Field(m, "l") /\ T[b] = Field(m, "r") /\ T[c] = Field(t, r)
      /\ U[a] = Field(m, "l")' /\ U[b] = Field(m, "r")' /\ U[c] = Field(t, r)'
  BY DEF FieldAt, Sides
<1>4. \A p \in DOMAIN T \ {a, b, c} : U[p] = T[p]
  <2>1. ASSUME NEW d \in Cells, NEW s \in Sides, <<d, s>> \notin {a, b, c}
        PROVE  d # m /\ <<d, s>> # <<t, r>>
    BY <2>1 DEF Sides
  <2> QED BY <2>1 DEF FieldAt
<1>5. NFields(n) = Cardinality(Holds(T, n)) /\ NFields(n)' = Cardinality(Holds(U, n))
  BY DEF NFields, Holds
<1> HIDE DEF T, U, a, b, c
<1>6. Cardinality(Holds(U, n)) = Cardinality(Holds(T, n)) - Is(T[a], n) + Is(U[a], n)
                                                          - Is(T[b], n) + Is(U[b], n)
                                                          - Is(T[c], n) + Is(U[c], n)
  BY <1>1, <1>2, <1>4, Store3
<1> QED BY <1>3, <1>5, <1>6

(* One activation changes what it owns.                                    *)
LEMMA OwnersStep ==
  ASSUME NEW c \in Clients, NEW path \in Paths, NEW n,
         \A d \in Clients, q \in Paths :
           d # c \/ q # path => Owned(act'[d][q]) = Owned(act[d][q])
  PROVE  NOwners(n)' = NOwners(n) - Is(Owned(act[c][path]), n) + Is(Owned(act'[c][path]), n)
<1> DEFINE T == OwnedAt
           U == OwnedAt'
           a == <<c, path>>
<1>1. IsFiniteSet(DOMAIN T)
  BY TablesAreFinite
<1>2. /\ DOMAIN U = DOMAIN T /\ a \in DOMAIN T
      /\ T[a] = Owned(act[c][path]) /\ U[a] = Owned(act'[c][path])
  BY DEF OwnedAt
<1>3. \A p \in DOMAIN T \ {a} : U[p] = T[p]
  <2>1. ASSUME NEW d \in Clients, NEW q \in Paths, <<d, q>> # a PROVE d # c \/ q # path
    BY <2>1
  <2> QED BY <2>1 DEF OwnedAt
<1>4. NOwners(n) = Cardinality(Holds(T, n)) /\ NOwners(n)' = Cardinality(Holds(U, n))
  BY DEF NOwners, Holds
<1> HIDE DEF T, U, a
<1>5. Cardinality(Holds(U, n)) = Cardinality(Holds(T, n)) - Is(T[a], n) + Is(U[a], n)
  BY <1>1, <1>2, <1>3, Store1
<1> QED BY <1>2, <1>4, <1>5

(* An activation and its branches change what they own.                    *)
LEMMA OwnersStep3 ==
  ASSUME NEW c \in Clients, NEW path \in Paths, NEW l \in Paths, NEW r \in Paths, NEW n,
         path # l, path # r, l # r,
         \A d \in Clients, q \in Paths :
           d # c \/ q \notin {path, l, r} => Owned(act'[d][q]) = Owned(act[d][q])
  PROVE  NOwners(n)' = NOwners(n) - Is(Owned(act[c][path]), n) + Is(Owned(act'[c][path]), n)
                                  - Is(Owned(act[c][l]), n) + Is(Owned(act'[c][l]), n)
                                  - Is(Owned(act[c][r]), n) + Is(Owned(act'[c][r]), n)
<1> DEFINE T == OwnedAt
           U == OwnedAt'
           i == <<c, path>>
           j == <<c, l>>
           k == <<c, r>>
<1>1. IsFiniteSet(DOMAIN T)
  BY TablesAreFinite
<1>2. /\ DOMAIN U = DOMAIN T /\ i \in DOMAIN T /\ j \in DOMAIN T /\ k \in DOMAIN T
      /\ i # j /\ i # k /\ j # k
      /\ T[i] = Owned(act[c][path]) /\ U[i] = Owned(act'[c][path])
      /\ T[j] = Owned(act[c][l]) /\ U[j] = Owned(act'[c][l])
      /\ T[k] = Owned(act[c][r]) /\ U[k] = Owned(act'[c][r])
  BY DEF OwnedAt
<1>3. \A p \in DOMAIN T \ {i, j, k} : U[p] = T[p]
  <2>1. ASSUME NEW d \in Clients, NEW q \in Paths, <<d, q>> \notin {i, j, k}
        PROVE  d # c \/ q \notin {path, l, r}
    BY <2>1
  <2> QED BY <2>1 DEF OwnedAt
<1>4. NOwners(n) = Cardinality(Holds(T, n)) /\ NOwners(n)' = Cardinality(Holds(U, n))
  BY DEF NOwners, Holds
<1> HIDE DEF T, U, i, j, k
<1>5. Cardinality(Holds(U, n)) = Cardinality(Holds(T, n)) - Is(T[i], n) + Is(U[i], n)
                                                          - Is(T[j], n) + Is(U[j], n)
                                                          - Is(T[k], n) + Is(U[k], n)
  BY <1>1, <1>2, <1>3, Store3
<1> QED BY <1>2, <1>4, <1>5

(* One activation changes what it has to drop.                             *)
LEMMA DropsStep ==
  ASSUME TypeOK, TypeOK', NEW c \in Clients, NEW path \in Paths, NEW n \in Cells,
         \A d \in Clients, q \in Paths : d # c \/ q # path => act'[d][q].todo = act[d][q].todo
  PROVE  NDrops(n)' = NDrops(n) - act[c][path].todo[n] + act'[c][path].todo[n]
<1> DEFINE T == TodoAt
           U == TodoAt'
           a == <<c, path>>
<1>1. IsFiniteSet(DOMAIN T)
  BY TablesAreFinite
<1>2. /\ DOMAIN U = DOMAIN T /\ a \in DOMAIN T
      /\ T[a] = act[c][path].todo /\ U[a] = act'[c][path].todo
  BY DEF TodoAt
<1>3. \A p \in DOMAIN T \ {a} : U[p] = T[p]
  <2>1. ASSUME NEW d \in Clients, NEW q \in Paths, <<d, q>> # a PROVE d # c \/ q # path
    BY <2>1
  <2> QED BY <2>1 DEF TodoAt
<1>4. (\A p \in DOMAIN T : T[p][n] \in Nat) /\ U[a][n] \in Nat
  BY DEF TypeOK, TodoAt
<1>5. NDrops(n) = Cardinality(DropsIn(T, n)) /\ NDrops(n)' = Cardinality(DropsIn(U, n))
  BY DEF NDrops, DropsIn
<1> HIDE DEF T, U, a
<1>6. Cardinality(DropsIn(U, n)) = Cardinality(DropsIn(T, n)) - T[a][n] + U[a][n]
  BY <1>1, <1>2, <1>3, <1>4, StoreDrops
<1> QED BY <1>2, <1>5, <1>6
-----------------------------------------------------------------------------
(* The values the actions compute.                                         *)

(* The elements of a tree.                                                 *)
LEMMA ElementsType ==
  ASSUME TypeOK, NEW p \in Pointers
  PROVE  Elements(p) \in Contents
<1>1. Under(p) \in SUBSET Cells
  BY TypeFacts, UnderFacts DEF UnderIsLeast
<1>2. \A n \in Cells : heap[n].es \in Contents
  BY DEF TypeOK
<1> QED BY <1>1, <1>2 DEF Elements, Contents

(* A batch inserted into a set of elements.                                *)
LEMMA InsertedType ==
  ASSUME NEW m \in Contents, NEW es \in Contents
  PROVE  Inserted(m, es) \in Contents
BY DEF Inserted, Contents

(* The element of an inner node.                                           *)
LEMMA EntryType ==
  ASSUME TypeOK, NodeShape, NEW n \in Cells, is_regular(n)
  PROVE  heap[n].es = {get_entry(n)} /\ get_entry(n) \in Nat \X Values
<1>1. PICK e \in heap[n].es : heap[n].es = {e}
  BY DEF NodeShape
<1>2. get_entry(n) = e
  BY <1>1 DEF get_entry
<1>3. heap[n].es \in SUBSET (Nat \X Values)
  BY DEF TypeOK, Contents
<1> QED BY <1>1, <1>2, <1>3

(* The element a join stores in its node.                                  *)
LEMMA EntryOfType ==
  ASSUME TypeOK, NodeShape, NEW c \in Clients, NEW path \in Paths,
         act[c][path].m \in Cells, is_regular(act[c][path].m)
  PROVE  EntryOf(act[c][path]) \in Nat \X Values
<1> DEFINE a == act[c][path]
           I == Inserted(heap[a.m].es, a.es)
<1>1. heap[a.m].es = {get_entry(a.m)} /\ get_entry(a.m) \in Nat \X Values
  BY EntryType
<1>2. a.es \in Contents
  BY DEF TypeOK
<1>3. I \in SUBSET (Nat \X Values)
  BY <1>1, <1>2, InsertedType DEF Contents
<1>4. \E e \in I : Key(e) = Key(get_entry(a.m))
  BY <1>1 DEF Inserted, KeysOf
<1>5. EntryOf(a) = CHOOSE e \in I : Key(e) = Key(get_entry(a.m))
  BY DEF EntryOf
<1> HIDE DEF I, a
<1>6. EntryOf(a) \in I
  BY <1>4, <1>5
<1> QED BY <1>3, <1>6 DEF a

(* Nobody refers to the node an allocation returns.                        *)
LEMMA FreshFacts ==
  ASSUME IInv, HasRoom
  PROVE  /\ Fresh \in Cells /\ heap[Fresh].kind = "free" /\ heap[Fresh].cnt = 0
         /\ Fresh # Null
         /\ heap[Fresh].lc = Null /\ heap[Fresh].rc = Null
         /\ \A c \in Clients, P \in SUBSET Paths : Unshared(c, P, Fresh)
         /\ \A c \in Clients, v \in Names : root[c][v] # Fresh
         /\ \A d \in Cells, s \in Sides : Field(d, s) # Fresh /\ Field(Fresh, s) = Null
         /\ \A c \in Clients, q \in Paths :
              Owned(act[c][q]) # Fresh /\ act[c][q].todo[Fresh] = 0
<1>1. Fresh \in Cells /\ heap[Fresh].kind = "free"
  BY DEF HasRoom, Fresh
<1> HIDE DEF Fresh
<1>2. heap[Fresh].cnt = 0
  BY <1>1 DEF IInv, Exact, ref_cnt
<1>3. heap[Fresh].lc = Null /\ heap[Fresh].rc = Null /\ \A s \in Sides : Field(Fresh, s) = Null
  BY <1>1 DEF IInv, NodeShape, is_regular, Field
<1>4. /\ \A c \in Clients, v \in Names : root[c][v] # Fresh
      /\ \A d \in Cells, s \in Sides : Field(d, s) # Fresh
      /\ \A c \in Clients, q \in Paths :
           Owned(act[c][q]) # Fresh /\ act[c][q].todo[Fresh] = 0
  BY <1>1, Unreferenced DEF IInv
<1>5. Fresh # Null
  BY <1>1, TypeFacts DEF IInv
<1> QED BY <1>1, <1>2, <1>3, <1>4, <1>5 DEF Unshared

(* Bags of references to be dropped.                                       *)
LEMMA BagFacts ==
  /\ \A n \in Cells : NoReferences[n] = 0
  /\ \A p, n : n \in Cells => Reference(p)[n] = Is(p, n)
  /\ \A a, b \in [Cells -> Nat] : Plus(a, b) \in [Cells -> Nat] /\ \A n \in Cells : Plus(a, b)[n] = a[n] + b[n]
  /\ NoReferences \in [Cells -> Nat]
  /\ \A p : Reference(p) \in [Cells -> Nat]
  /\ \A p, n : Is(p, n) \in {0, 1}
BY DEF NoReferences, Reference, Plus, Is

(* What the next state needs of branches: nothing changes.                 *)
LEMMA ForkingKept ==
  ASSUME IInv, NEW c \in Clients, NEW path \in Paths,
         act[c][path].pc \notin Joining \union {"single"},
         act'[c][path].pc \notin Joining \union {"single"},
         \A s \in Sides : Len(path) < MaxDepth => act'[c][Side(path, s)] = act[c][Side(path, s)]
  PROVE  Forking(c, path)'
<1>1. ASSUME Len(path) < MaxDepth, NEW s \in Sides PROVE act'[c][Side(path, s)] = Idle
  <2>1. act[c][Side(path, s)] = Idle
    BY <1>1 DEF IInv, Forking
  <2> QED BY <1>1, <2>1
<1>2. act'[c][path].pc \notin {"single", "copy_l", "copy_r", "spine_l", "spine_r"}
  BY DEF Joining
<1> QED BY <1>1, <1>2 DEF Forking

(* An activation that is given its result, or owns its subtree to read it. *)
LEMMA LeafStep ==
  ASSUME IInv, TypeOK', root' = root, NEW c \in Clients, NEW path \in Paths,
         act[c][path].pc \in {"enter", "flat"}, act[c][path].todo = NoReferences,
         \/ act'[c][path].pc = "done"
         \/ act'[c][path].pc = "flat" /\ ~act'[c][path].extra,
         \A d \in Clients, q \in Paths : d # c \/ q # path => act'[d][q] = act[d][q],
         NEW k \in Pointers,
         \A n \in Cells : n # k => heap'[n] = heap[n],
         k # Null =>
           \/ heap[k].kind = "free" /\ \E es : heap'[k] = Block(es)
           \/ k \in Kept(c) /\ heap'[k] = [heap[k] EXCEPT !.cnt = @ + 1],
         \A n \in Cells : Is(Owned(act'[c][path]), n) + act'[c][path].todo[n]
                             = Is(Owned(act[c][path]), n) + Is(k, n)
  PROVE  IInv' /\ Persists
<1>1. Base /\ TypeOK /\ NodeShape /\ Exact /\ Null \notin Cells
  BY BaseOfIInv, TypeFacts DEF IInv
<1>2. JoinsWith(act[c][path]) = Null /\ JoinsWith(act'[c][path]) = Null
  BY DEF JoinsWith, Joining
<1>3. Hollow' = Hollow
  <2>1. Hollow' = (Hollow \ {Null}) \union ({Null} \ {Null})
    BY <1>1, <1>2, HollowStep
  <2>2. Null \notin Hollow
    BY <1>1 DEF Hollow
  <2> QED BY <2>1, <2>2
<1>4. ASSUME k # Null
      PROVE  /\ k \in Cells /\ heap[k] \in [kind : Kinds, cnt : Nat, lc : Pointers, rc : Pointers, es : Contents]
             /\ heap'[k].kind # "free" /\ heap'[k].cnt = heap[k].cnt + 1
             /\ heap'[k].lc = heap[k].lc /\ heap'[k].rc = heap[k].rc
             /\ heap[k].kind = "free" => heap'[k].kind = "block"
             /\ heap[k].kind # "free" =>
                  heap'[k].kind = heap[k].kind /\ heap'[k].es = heap[k].es /\ k \in Kept(c)
  <2>1. k \in Cells /\ heap[k] \in [kind : Kinds, cnt : Nat, lc : Pointers, rc : Pointers, es : Contents]
    BY <1>1, <1>4 DEF Pointers, TypeOK
  <2>2. CASE heap[k].kind = "free"
    <3>1. ref_cnt(k) = 0 /\ heap[k].lc = Null /\ heap[k].rc = Null
      BY <1>1, <2>1, <2>2 DEF Exact, NodeShape, is_regular
    <3>2. k \notin Kept(c)
      BY <1>1, <2>1, <2>2, KeptFacts, Unreferenced
    <3>3. PICK es : heap'[k] = Block(es)
      BY <1>4, <3>2
    <3>4. /\ heap'[k].kind = "block" /\ heap'[k].cnt = 1
          /\ heap'[k].lc = Null /\ heap'[k].rc = Null
      BY <3>3 DEF Block
    <3> QED BY <2>1, <2>2, <3>1, <3>4 DEF ref_cnt
  <2>3. CASE heap[k].kind # "free"
    <3>1. k \in Kept(c) /\ heap'[k] = [heap[k] EXCEPT !.cnt = @ + 1]
      BY <1>4, <2>3
    <3> QED BY <2>1, <2>3, <3>1
  <2> QED BY <2>2, <2>3
<1>11. ASSUME NEW n \in Cells
       PROVE  /\ heap'[n].lc = heap[n].lc /\ heap'[n].rc = heap[n].rc
              /\ heap'[n].cnt = heap[n].cnt + Is(k, n)
              /\ heap[n].kind = "free" =>
                   /\ n # k => heap'[n].kind = "free"
                   /\ n = k => heap'[n].kind = "block"
              /\ heap[n].kind # "free" =>
                   heap'[n].kind = heap[n].kind /\ heap'[n].es = heap[n].es /\ (n = k => n \in Kept(c))
  <2>1. CASE n = k
    <3>1. k # Null
      BY <1>1, <2>1
    <3> QED BY <1>4, <2>1, <3>1 DEF Is
  <2>2. CASE n # k
    <3>1. heap'[n] = heap[n] /\ heap[n].cnt \in Nat
      BY <1>1, <2>2, TypeFacts DEF ref_cnt
    <3> QED BY <2>2, <3>1 DEF Is
  <2> QED BY <2>1, <2>2
<1>5. \A d \in Cells, s \in Sides : Field(d, s)' = Field(d, s)
  <2>1. ASSUME NEW d \in Cells
        PROVE  /\ heap'[d].lc = heap[d].lc /\ heap'[d].rc = heap[d].rc
               /\ heap'[d].kind = "regular" <=> heap[d].kind = "regular"
    BY <1>11
  <2> QED BY <1>3, <2>1 DEF Field, Child, is_regular
<1>6. NodeShape'
  <2>1. ASSUME NEW n \in Cells
        PROVE  IF heap'[n].kind = "regular" THEN \E e \in heap'[n].es : heap'[n].es = {e}
                                            ELSE heap'[n].lc = Null /\ heap'[n].rc = Null
    <3>1. IF heap[n].kind = "regular" THEN \E e \in heap[n].es : heap[n].es = {e}
                                      ELSE heap[n].lc = Null /\ heap[n].rc = Null
      BY <1>1 DEF NodeShape, is_regular
    <3> QED BY <1>11, <3>1
  <2> QED BY <2>1 DEF NodeShape, is_regular
<1>7. Exact'
  <2>1. SUFFICES ASSUME NEW n \in Cells
        PROVE  heap'[n].cnt = References(n)' /\ (heap'[n].kind = "free" <=> heap'[n].cnt = 0)
    BY DEF Exact, ref_cnt
  <2>2. heap[n].cnt = References(n) /\ (heap[n].kind = "free" <=> heap[n].cnt = 0) /\ heap[n].cnt \in Nat
    BY <1>1, TypeFacts DEF Exact, ref_cnt
  <2>3. NVariables(n)' = NVariables(n) /\ NFields(n)' = NFields(n)
    BY <1>5, VariablesSame, FieldsSame
  <2>4. NOwners(n)' = NOwners(n) - Is(Owned(act[c][path]), n) + Is(Owned(act'[c][path]), n)
    BY OwnersStep
  <2>5. NDrops(n)' = NDrops(n) - act[c][path].todo[n] + act'[c][path].todo[n]
    BY <1>1, DropsStep
  <2>6. /\ NVariables(n) \in Nat /\ NFields(n) \in Nat /\ NOwners(n) \in Nat /\ NDrops(n) \in Nat
        /\ act[c][path].todo[n] = 0 /\ act'[c][path].todo[n] \in Nat
        /\ \A p : Is(p, n) \in {0, 1}
    BY <1>1, CountTypes, BagFacts DEF TypeOK, CountsAreNat
  <2>7. heap'[n].cnt = heap[n].cnt + Is(k, n)
    BY <1>11
  <2>8. References(n)' = References(n) + Is(k, n)
    <3>1. PICK o1 \in {0, 1} : o1 = Is(Owned(act[c][path]), n)
      BY <2>6
    <3>2. PICK o2 \in {0, 1} : o2 = Is(Owned(act'[c][path]), n)
      BY <2>6
    <3>3. PICK o3 \in {0, 1} : o3 = Is(k, n)
      BY <2>6
    <3>4. o2 + act'[c][path].todo[n] = o1 + o3
      BY <3>1, <3>2, <3>3
    <3> QED BY <2>3, <2>4, <2>5, <2>6, <3>1, <3>2, <3>3, <3>4 DEF References
  <2>9. heap'[n].kind = "free" <=> heap'[n].cnt = 0
    <3>1. Is(k, n) = IF n = k THEN 1 ELSE 0
      BY DEF Is
    <3> QED BY <1>11, <2>2, <3>1
  <2> QED BY <2>2, <2>7, <2>8, <2>9
<1>8. Harmless(c, {path})
  <2>1. ASSUME NEW n \in Cells, ~Unshared(c, {path}, n)
        PROVE  /\ heap'[n].kind = heap[n].kind /\ heap'[n].es = heap[n].es
               /\ heap'[n].lc = heap[n].lc /\ heap'[n].rc = heap[n].rc
               /\ heap'[n].cnt = heap[n].cnt \/ heap[n].cnt > 1 \/ Shared(c, {path}, n)
    <3>1. heap[n].kind # "free"
      BY <1>1, <2>1, Unreferenced DEF Unshared
    <3>2. heap'[n].cnt = heap[n].cnt \/ n = k
      BY <1>11
    <3> QED BY <1>11, <3>1, <3>2 DEF Shared
  <2> QED BY <2>1 DEF Harmless, GoesOn
<1>9. Holding(c, path)' /\ Borrowing(c, path)' /\ TakingOver(c, path)'
  BY DEF Holding, Borrowing, TakingOver, Borrows, Joining
<1>10. Forking(c, path)'
  <2>1. \A s \in Sides : Len(path) < MaxDepth => act'[c][Side(path, s)] = act[c][Side(path, s)]
    BY PathFacts
  <2> QED BY <2>1, ForkingKept DEF Joining
<1> QED
  <2>1. {path} \in SUBSET Family(path) /\ act[c][path].pc \notin {"idle", "held", "done"}
    BY DEF Family
  <2> QED BY <1>6, <1>7, <1>8, <1>9, <1>10, <2>1, StepPreservesIInv
-----------------------------------------------------------------------------
(* The actions that give an activation its result, or the subtree to read. *)

Nodes == [kind : Kinds, cnt : Nat, lc : Pointers, rc : Pointers, es : Contents]
Activations == [pc : PCs, p : Pointers, extra : BOOLEAN, es : Contents,
                m : Pointers, res : Pointers, todo : [Cells -> Nat]]

(* A step that assigns neither variables nor the history keeps the types   *)
(* if it keeps those of the heap and of the activations.                   *)
LEMMA TypeOKNext ==
  ASSUME TypeOK, UNCHANGED <<given, root, due, left>>,
         heap' \in [Cells -> Nodes], act' \in [Clients -> [Paths -> Activations]]
  PROVE  TypeOK'
BY DEF TypeOK, Nodes, Activations

(* One activation is replaced.                                             *)
LEMMA SetsFacts ==
  ASSUME TypeOK, NEW c \in Clients, NEW path \in Paths, NEW a \in Activations, Sets(c, path, a)
  PROVE  /\ act' \in [Clients -> [Paths -> Activations]]
         /\ act'[c][path] = a
         /\ \A d \in Clients, q \in Paths : d # c \/ q # path => act'[d][q] = act[d][q]
<1>1. act \in [Clients -> [Paths -> Activations]]
  BY DEF TypeOK, Activations
<1> QED BY <1>1 DEF Sets

(* An activation that has its result owns it.                              *)
LEMMA DoneFacts ==
  ASSUME NEW n \in Pointers, NEW drops \in [Cells -> Nat]
  PROVE  /\ Done(n, drops) \in Activations
         /\ Done(n, drops).pc = "done" /\ Done(n, drops).todo = drops
         /\ Owned(Done(n, drops)) = n
<1>1. Idle \in Activations
  BY BagFacts DEF Idle, Activations, PCs, Pointers, Contents
<1> QED BY <1>1 DEF Done, Activations, Owned, Joining, PCs

(* The type of an activation.                                              *)
LEMMA ActivationType ==
  ASSUME TypeOK, NEW c \in Clients, NEW path \in Paths
  PROVE  act[c][path] \in Activations
BY DEF TypeOK, Activations

(* The type of the heap.                                                   *)
LEMMA HeapType == TypeOK => heap \in [Cells -> Nodes]
BY DEF TypeOK, Nodes

(* The type of a block.                                                    *)
LEMMA BlockType ==
  ASSUME NEW es \in Contents
  PROVE  Block(es) \in Nodes
BY DEF Block, Nodes, Kinds, Pointers

(* The part of the batch becomes a new block, owned by the activation.     *)
LEMMA BuildPartPreserves ==
  ASSUME IInv, NEW c \in Clients, NEW path \in Paths, BuildPart(c, path),
         UNCHANGED <<given, root, due, left>>
  PROVE  IInv' /\ Persists
<1> DEFINE a == act[c][path]
<1>1. TypeOK /\ a \in Activations /\ heap \in [Cells -> Nodes] /\ Null \notin Cells
  BY ActivationType, HeapType, TypeFacts DEF IInv
<1>2. a.pc = "enter" /\ a.todo = NoReferences /\ a.p = Null /\ Owned(a) = Null
  BY DEF BuildPart, At, Owned, Joining
<1>3. CASE a.es = {} /\ UNCHANGED heap /\ Sets(c, path, Done(Null, NoReferences))
  <2>1. Null \in Pointers /\ NoReferences \in [Cells -> Nat]
    BY BagFacts DEF Pointers
  <2>2. /\ act' \in [Clients -> [Paths -> Activations]]
        /\ act'[c][path] = Done(Null, NoReferences)
        /\ \A d \in Clients, q \in Paths : d # c \/ q # path => act'[d][q] = act[d][q]
    BY <1>1, <1>3, <2>1, DoneFacts, SetsFacts
  <2>3. TypeOK'
    BY <1>1, <1>3, <2>2, TypeOKNext
  <2>4. \A n \in Cells : Is(Owned(act'[c][path]), n) + act'[c][path].todo[n]
                            = Is(Owned(act[c][path]), n) + Is(Null, n)
    <3>1. Owned(act'[c][path]) = Null /\ act'[c][path].todo = NoReferences
      BY <2>1, <2>2, DoneFacts
    <3>2. ASSUME NEW n \in Cells
          PROVE  act'[c][path].todo[n] = 0 /\ Is(Null, n) \in {0, 1}
      BY <3>1, BagFacts
    <3>3. ASSUME NEW n \in Cells
          PROVE  Is(Owned(act'[c][path]), n) + act'[c][path].todo[n] = Is(Null, n) + Is(Null, n)
      <4>1. Is(Null, n) = 0
        BY <1>1 DEF Is
      <4> QED BY <3>1, <3>2, <4>1
    <3> QED BY <1>2, <3>3
  <2>5. act'[c][path].pc = "done"
    BY <2>1, <2>2, DoneFacts
  <2> QED BY <1>2, <1>3, <2>1, <2>2, <2>3, <2>4, <2>5, LeafStep
<1>4. CASE /\ a.es # {} /\ HasRoom
           /\ heap' = [heap EXCEPT ![Fresh] = Block(a.es)]
           /\ Sets(c, path, Done(Fresh, NoReferences))
  <2>1. Fresh \in Cells /\ Fresh \in Pointers /\ NoReferences \in [Cells -> Nat] /\ heap[Fresh].kind = "free"
    BY <1>4, BagFacts, FreshFacts DEF Pointers
  <2>2. /\ act' \in [Clients -> [Paths -> Activations]]
        /\ act'[c][path] = Done(Fresh, NoReferences)
        /\ \A d \in Clients, q \in Paths : d # c \/ q # path => act'[d][q] = act[d][q]
    BY <1>1, <1>4, <2>1, DoneFacts, SetsFacts
  <2> HIDE DEF Fresh
  <2>3. heap' \in [Cells -> Nodes]
    <3>1. Block(a.es) \in Nodes
      BY <1>1, BlockType DEF Activations
    <3> QED BY <1>1, <1>4, <3>1
  <2>4. TypeOK'
    BY <1>1, <2>2, <2>3, TypeOKNext
  <2>5. \A n \in Cells : Is(Owned(act'[c][path]), n) + act'[c][path].todo[n]
                            = Is(Owned(act[c][path]), n) + Is(Fresh, n)
    <3>1. ASSUME NEW n \in Cells
          PROVE  Is(Owned(act'[c][path]), n) + act'[c][path].todo[n] = Is(Fresh, n)
      BY <2>1, <2>2, BagFacts, DoneFacts
    <3>2. ASSUME NEW n \in Cells PROVE Is(Owned(a), n) = 0
      BY <1>1, <1>2 DEF Is
    <3> QED BY <3>1, <3>2, BagFacts
  <2>6. act'[c][path].pc = "done"
    BY <2>1, <2>2, DoneFacts
  <2>7. heap'[Fresh] = Block(a.es) /\ \A n \in Cells : n # Fresh => heap'[n] = heap[n]
    BY <1>1, <1>4, <2>1
  <2> QED BY <1>2, <2>1, <2>2, <2>4, <2>5, <2>6, <2>7, LeafStep
<1> QED BY <1>3, <1>4 DEF BuildPart

(* Making a pointer an owned one raises the count of a borrowed node only. *)
LEMMA NodePtrFacts ==
  ASSUME IInv, NEW c \in Clients, NEW path \in Paths, act[c][path].pc = "enter",
         act[c][path].p # Null, heap' = node_ptr(act[c][path].p, act[c][path].extra)
  PROVE  LET k == IF act[c][path].extra THEN act[c][path].p ELSE Null IN
         /\ k \in Pointers /\ act[c][path].p \in Cells
         /\ heap' \in [Cells -> Nodes]
         /\ \A n \in Cells : n # k => heap'[n] = heap[n]
         /\ k # Null => k \in Kept(c) /\ heap'[k] = [heap[k] EXCEPT !.cnt = @ + 1]
         /\ \A n \in Cells : Is(act[c][path].p, n) = Is(Owned(act[c][path]), n) + Is(k, n)
<1> DEFINE a == act[c][path]
<1>1. TypeOK /\ a.p \in Cells /\ heap \in [Cells -> Nodes] /\ Null \notin Cells /\ a.extra \in BOOLEAN
  BY HeapType, TypeFacts DEF IInv, Pointers
<1>2. Owned(a) = IF a.extra THEN Null ELSE a.p
  BY DEF Owned
<1>3. CASE a.extra
  <2>1. a.p \in Kept(c)
    BY <1>1, <1>3 DEF IInv, Borrowing, Borrows
  <2>2. heap' = [heap EXCEPT ![a.p].cnt = @ + 1]
    BY <1>3 DEF node_ptr
  <2>3. heap[a.p] \in Nodes /\ heap[a.p].cnt \in Nat
    BY <1>1 DEF Nodes
  <2>4. heap'[a.p] = [heap[a.p] EXCEPT !.cnt = @ + 1] /\ \A n \in Cells : n # a.p => heap'[n] = heap[n]
    BY <1>1, <2>2
  <2>5. [heap[a.p] EXCEPT !.cnt = @ + 1] \in Nodes
    BY <2>3 DEF Nodes
  <2>6. heap' \in [Cells -> Nodes]
    BY <1>1, <2>2, <2>4, <2>5
  <2>7. \A n \in Cells : Is(Null, n) = 0 /\ Is(a.p, n) \in {0, 1}
    BY <1>1 DEF Is
  <2>8. \A n \in Cells : Is(a.p, n) = Is(Owned(a), n) + Is(a.p, n)
    BY <1>2, <1>3, <2>7
  <2>9. (IF a.extra THEN a.p ELSE Null) = a.p /\ a.p \in Pointers
    BY <1>1, <1>3 DEF Pointers
  <2> HIDE DEF a
  <2> QED BY <1>1, <2>1, <2>4, <2>6, <2>8, <2>9 DEF a
<1>4. CASE ~a.extra
  <2>1. heap' = heap
    BY <1>4 DEF node_ptr
  <2>2. \A n \in Cells : Is(Null, n) = 0 /\ Is(a.p, n) \in {0, 1}
    BY <1>1 DEF Is
  <2> QED BY <1>1, <1>2, <1>4, <2>1, <2>2 DEF Pointers
<1> QED BY <1>3, <1>4

(* The reference of the subtree becomes that of the result; a borrowed     *)
(* subtree is kept by the client's variables, and counted once more.       *)
LEMMA ShareSubtreePreserves ==
  ASSUME IInv, NEW c \in Clients, NEW path \in Paths, ShareSubtree(c, path),
         UNCHANGED <<given, root, due, left>>
  PROVE  IInv' /\ Persists
<1> DEFINE a == act[c][path]
           k == IF a.extra THEN a.p ELSE Null
<1>1. TypeOK /\ a.pc = "enter" /\ a.todo = NoReferences /\ a.p # Null
  BY DEF IInv, ShareSubtree, At
<1>2. heap' = node_ptr(a.p, a.extra) /\ Sets(c, path, Done(a.p, NoReferences))
  BY DEF ShareSubtree
<1>3. /\ k \in Pointers /\ a.p \in Cells
      /\ heap' \in [Cells -> Nodes]
      /\ \A n \in Cells : n # k => heap'[n] = heap[n]
      /\ k # Null => k \in Kept(c) /\ heap'[k] = [heap[k] EXCEPT !.cnt = @ + 1]
      /\ \A n \in Cells : Is(a.p, n) = Is(Owned(a), n) + Is(k, n)
  BY <1>1, <1>2, NodePtrFacts
<1>4. a.p \in Pointers /\ NoReferences \in [Cells -> Nat]
  BY <1>3, BagFacts DEF Pointers
<1>5. /\ act' \in [Clients -> [Paths -> Activations]]
      /\ act'[c][path] = Done(a.p, NoReferences)
      /\ \A d \in Clients, q \in Paths : d # c \/ q # path => act'[d][q] = act[d][q]
  BY <1>1, <1>2, <1>4, DoneFacts, SetsFacts
<1>6. TypeOK'
  BY <1>1, <1>3, <1>5, TypeOKNext
<1>7. act'[c][path].pc = "done" /\ Owned(act'[c][path]) = a.p /\ act'[c][path].todo = NoReferences
  BY <1>4, <1>5, DoneFacts
<1>8. \A n \in Cells : Is(Owned(act'[c][path]), n) + act'[c][path].todo[n]
                          = Is(Owned(a), n) + Is(k, n)
  <2> HIDE DEF k
  <2>1. ASSUME NEW n \in Cells
        PROVE  Is(a.p, n) \in {0, 1} /\ act'[c][path].todo[n] = 0 /\ Is(Owned(act'[c][path]), n) = Is(a.p, n)
    BY <1>7, BagFacts
  <2>2. ASSUME NEW n \in Cells
        PROVE  Is(Owned(act'[c][path]), n) + act'[c][path].todo[n] = Is(a.p, n)
    BY <2>1
  <2> QED BY <1>3, <2>2
<1>9. \A d \in Clients, q \in Paths : d # c \/ q # path => act'[d][q] = act[d][q]
  BY <1>5
<1>10. act'[c][path].pc = "done" /\ root' = root
  BY <1>7
<1> HIDE DEF k
<1> QED BY <1>1, <1>3, <1>6, <1>8, <1>9, <1>10, LeafStep

(* As before, but the subtree is owned until it is read.                   *)
LEMMA EnterFlatPreserves ==
  ASSUME IInv, NEW c \in Clients, NEW path \in Paths, EnterFlat(c, path),
         UNCHANGED <<given, root, due, left>>
  PROVE  IInv' /\ Persists
<1> DEFINE a == act[c][path]
           b == [a EXCEPT !.pc = "flat", !.extra = FALSE]
           k == IF a.extra THEN a.p ELSE Null
<1>1. TypeOK /\ a \in Activations /\ a.pc = "enter" /\ a.todo = NoReferences /\ a.p # Null
  BY ActivationType DEF IInv, EnterFlat, At
<1>2. heap' = node_ptr(a.p, a.extra) /\ Sets(c, path, b)
  BY DEF EnterFlat
<1>3. /\ k \in Pointers /\ a.p \in Cells
      /\ heap' \in [Cells -> Nodes]
      /\ \A n \in Cells : n # k => heap'[n] = heap[n]
      /\ k # Null => k \in Kept(c) /\ heap'[k] = [heap[k] EXCEPT !.cnt = @ + 1]
      /\ \A n \in Cells : Is(a.p, n) = Is(Owned(a), n) + Is(k, n)
  BY <1>1, <1>2, NodePtrFacts
<1>4. b \in Activations /\ b.pc = "flat" /\ b.extra = FALSE /\ b.p = a.p /\ b.todo = NoReferences
  BY <1>1 DEF Activations, PCs
<1>5. Owned(b) = a.p
  BY <1>4 DEF Owned
<1> HIDE DEF b, k
<1>6. /\ act' \in [Clients -> [Paths -> Activations]] /\ act'[c][path] = b
      /\ \A d \in Clients, q \in Paths : d # c \/ q # path => act'[d][q] = act[d][q]
  BY <1>1, <1>2, <1>4, SetsFacts
<1>7. TypeOK'
  BY <1>1, <1>3, <1>6, TypeOKNext
<1>8. \A n \in Cells : Is(Owned(act'[c][path]), n) + act'[c][path].todo[n]
                          = Is(Owned(a), n) + Is(k, n)
  <2>1. \A n \in Cells : Is(a.p, n) \in {0, 1} /\ act'[c][path].todo[n] = 0
    BY <1>4, <1>6, BagFacts
  <2> QED BY <1>3, <1>5, <1>6, <2>1
<1> QED BY <1>1, <1>3, <1>4, <1>6, <1>7, <1>8, LeafStep

(* The result is a new block, and the subtree is to be dropped.            *)
LEMMA MergeFlatPreserves ==
  ASSUME IInv, NEW c \in Clients, NEW path \in Paths, MergeFlat(c, path),
         UNCHANGED <<given, root, due, left>>
  PROVE  IInv' /\ Persists
<1> DEFINE a == act[c][path]
           es == Inserted(Elements(a.p), a.es)
<1>1. TypeOK /\ a \in Activations /\ a.pc = "flat" /\ a.todo = NoReferences
  BY ActivationType DEF IInv, MergeFlat, At
<1>2. heap \in [Cells -> Nodes] /\ a.p \in Pointers
  BY <1>1, HeapType, TypeFacts
<1>3. HasRoom /\ heap' = [heap EXCEPT ![Fresh] = Block(es)] /\ Sets(c, path, Done(Fresh, Reference(a.p)))
  BY DEF MergeFlat
<1>4. Owned(a) = a.p
  BY <1>1 DEF IInv, Holding, Owned
<1>5. Block(es) \in Nodes
  <2>1. Elements(a.p) \in Contents /\ a.es \in Contents
    BY <1>1, <1>2, ElementsType DEF Activations
  <2>2. es \in Contents
    BY <2>1, InsertedType
  <2> QED BY <2>2, BlockType
<1>6. Fresh \in Cells /\ Fresh \in Pointers /\ Reference(a.p) \in [Cells -> Nat] /\ heap[Fresh].kind = "free"
  BY <1>3, BagFacts, FreshFacts DEF Pointers
<1>7. /\ act' \in [Clients -> [Paths -> Activations]]
      /\ act'[c][path] = Done(Fresh, Reference(a.p))
      /\ \A d \in Clients, q \in Paths : d # c \/ q # path => act'[d][q] = act[d][q]
  BY <1>1, <1>3, <1>6, DoneFacts, SetsFacts
<1> HIDE DEF Fresh, es
<1>8. heap' \in [Cells -> Nodes] /\ heap'[Fresh] = Block(es) /\ \A n \in Cells : n # Fresh => heap'[n] = heap[n]
  BY <1>2, <1>3, <1>5, <1>6
<1>9. TypeOK'
  BY <1>1, <1>7, <1>8, TypeOKNext
<1>10. act'[c][path].pc = "done" /\ Owned(act'[c][path]) = Fresh /\ act'[c][path].todo = Reference(a.p)
  BY <1>6, <1>7, DoneFacts
<1>11. \A n \in Cells : Is(Owned(act'[c][path]), n) + act'[c][path].todo[n]
                           = Is(Owned(a), n) + Is(Fresh, n)
  <2>1. ASSUME NEW n \in Cells
        PROVE  Is(a.p, n) \in {0, 1} /\ Is(Fresh, n) \in {0, 1} /\ act'[c][path].todo[n] = Is(a.p, n)
    BY <1>10, BagFacts
  <2> QED BY <1>4, <1>10, <2>1
<1> QED BY <1>1, <1>6, <1>7, <1>8, <1>9, <1>10, <1>11, LeafStep
-----------------------------------------------------------------------------
(* Dropping references.                                                    *)

(* The shape of one node.                                                  *)
LEMMA NodeShapeOf ==
  ASSUME NodeShape, NEW n \in Cells
  PROVE  IF heap[n].kind = "regular" THEN \E e \in heap[n].es : heap[n].es = {e}
                                     ELSE heap[n].lc = Null /\ heap[n].rc = Null
BY DEF NodeShape, is_regular

(* No activation changes the node it joins with.                           *)
LEMMA SameHollow ==
  ASSUME Base, TypeOK',
         \A d \in Clients, q \in Paths : JoinsWith(act'[d][q]) = JoinsWith(act[d][q])
  PROVE  Hollow' = Hollow
<1>1. Hollow = {n \in Cells : \E d \in Clients, q \in Paths : JoinsWith(act[d][q]) = n}
  BY HollowIsJoined DEF Base
<1>2. Hollow' = {n \in Cells : \E d \in Clients, q \in Paths : JoinsWith(act'[d][q]) = n}
  BY HollowIsJoinedNext
<1> QED BY <1>1, <1>2

(* A reference is dropped. If it was the last, only the dropping           *)
(* activation knew the node, whose children are then to be dropped in its  *)
(* stead.                                                                  *)
LEMMA DecrementPreserves ==
  ASSUME IInv, NEW c \in Clients, NEW path \in Paths, Decrement(c, path)
  PROVE  IInv' /\ Persists
<1> DEFINE a == act[c][path]
           b == act'[c][path]
<1>1. /\ TypeOK /\ NodeShape /\ Exact /\ Base /\ a \in Activations
      /\ heap \in [Cells -> Nodes] /\ Null \notin Cells
      /\ UNCHANGED <<given, root, due, left>>
  BY ActivationType, HeapType, TypeFacts, BaseOfIInv DEF IInv, Decrement
<1>2. PICK n \in Cells :
        /\ a.todo[n] > 0
        /\ LET dropped == [a.todo EXCEPT ![n] = @ - 1] IN
           \/ /\ ref_cnt(n) = 1
              /\ heap' = [heap EXCEPT ![n] = FreeCell]
              /\ act' = [act EXCEPT ![c][path].todo =
                           Plus(dropped, Plus(Reference(heap[n].lc), Reference(heap[n].rc)))]
           \/ /\ ref_cnt(n) # 1
              /\ heap' = [heap EXCEPT ![n].cnt = @ - 1]
              /\ act' = [act EXCEPT ![c][path].todo = dropped]
  BY DEF Decrement, DropReference
<1> DEFINE dropped == [a.todo EXCEPT ![n] = @ - 1]
<1>3. /\ a.todo \in [Cells -> Nat] /\ dropped \in [Cells -> Nat]
      /\ \A k \in Cells : dropped[k] = a.todo[k] - Is(n, k)
  BY <1>1, <1>2 DEF Activations, Is
<1>4. a.todo # NoReferences
  BY <1>2, BagFacts
<1>5. act \in [Clients -> [Paths -> Activations]]
  BY <1>1 DEF TypeOK, Activations
<1> HIDE DEF dropped
\* Whatever is to be dropped next, nothing else of the activations changes.
<1>6. ASSUME NEW todo \in [Cells -> Nat], act' = [act EXCEPT ![c][path].todo = todo]
      PROVE  /\ act' \in [Clients -> [Paths -> Activations]]
             /\ b.todo = todo
             /\ \A d \in Clients, q \in Paths : d # c \/ q # path => act'[d][q] = act[d][q]
             /\ \A d \in Clients, q \in Paths :
                  /\ GoesOn(act[d][q], act'[d][q])
                  /\ JoinsWith(act'[d][q]) = JoinsWith(act[d][q])
                  /\ Owned(act'[d][q]) = Owned(act[d][q])
  <2>1. b = [a EXCEPT !.todo = todo]
    BY <1>5, <1>6
  <2>2. \A d \in Clients, q \in Paths : d # c \/ q # path => act'[d][q] = act[d][q]
    BY <1>5, <1>6
  <2>3. /\ b \in Activations /\ b.todo = todo /\ b.pc = a.pc /\ b.p = a.p /\ b.extra = a.extra
        /\ b.m = a.m /\ b.res = a.res
    BY <1>1, <2>1 DEF Activations
  <2>4. act' \in [Clients -> [Paths -> Activations]]
    BY <1>5, <1>6, <2>1, <2>3
  <2>5. GoesOn(a, b) /\ JoinsWith(b) = JoinsWith(a) /\ Owned(b) = Owned(a)
    BY <1>4, <2>3 DEF GoesOn, JoinsWith, Owned
  <2>6. \A d \in Clients, q \in Paths :
          /\ GoesOn(act[d][q], act'[d][q])
          /\ JoinsWith(act'[d][q]) = JoinsWith(act[d][q])
          /\ Owned(act'[d][q]) = Owned(act[d][q])
    <3>1. ASSUME NEW d \in Clients, NEW q \in Paths
          PROVE  /\ GoesOn(act[d][q], act'[d][q])
                 /\ JoinsWith(act'[d][q]) = JoinsWith(act[d][q])
                 /\ Owned(act'[d][q]) = Owned(act[d][q])
      <4>1. CASE d = c /\ q = path
        BY <2>5, <4>1
      <4>2. CASE d # c \/ q # path
        BY <2>2, <4>2 DEF GoesOn
      <4> QED BY <4>1, <4>2
    <3> QED BY <3>1
  <2> QED BY <2>2, <2>3, <2>4, <2>6
\* It remains to compare the counts with the references.
<1>7. ASSUME NEW todo \in [Cells -> Nat], act' = [act EXCEPT ![c][path].todo = todo],
             heap' \in [Cells -> Nodes], NodeShape',
             \A k \in Cells : /\ heap'[k].cnt = heap[k].cnt - Is(n, k)
                              /\ heap'[k].kind = "free" <=> heap'[k].cnt = 0
                              /\ NFields(k)' + todo[k] = NFields(k) + a.todo[k] - Is(n, k),
             \A k \in Cells : ~Unshared(c, {}, k) =>
               /\ heap'[k].kind = heap[k].kind /\ heap'[k].es = heap[k].es
               /\ heap'[k].lc = heap[k].lc /\ heap'[k].rc = heap[k].rc
               /\ heap'[k].cnt = heap[k].cnt \/ heap[k].cnt > 1
      PROVE  IInv' /\ Persists
  <2>4. /\ act' \in [Clients -> [Paths -> Activations]]
        /\ b.todo = todo /\ Owned(b) = Owned(a)
        /\ \A d \in Clients, q \in Paths : d # c \/ q # path => act'[d][q].todo = act[d][q].todo
        /\ \A d \in Clients, q \in Paths : Owned(act'[d][q]) = Owned(act[d][q])
    BY <1>6, <1>7
  <2>1. TypeOK'
    BY <1>1, <1>7, <2>4, TypeOKNext
  <2>2. Exact'
    <3>1. SUFFICES ASSUME NEW k \in Cells PROVE heap'[k].cnt = References(k)'
      BY <1>7 DEF Exact, ref_cnt
    <3>2. heap[k].cnt = References(k)
      BY <1>1 DEF Exact, ref_cnt
    <3>3. NVariables(k)' = NVariables(k)
      BY <1>1, VariablesSame
    <3>4. NOwners(k)' = NOwners(k) - Is(Owned(a), k) + Is(Owned(b), k)
      BY <2>4, OwnersStep
    <3>5. Is(Owned(b), k) = Is(Owned(a), k) /\ Is(Owned(a), k) \in {0, 1} /\ Is(n, k) \in {0, 1}
      BY <2>4, BagFacts
    <3>6. NDrops(k)' = NDrops(k) - a.todo[k] + todo[k]
      BY <1>1, <2>1, <2>4, DropsStep
    <3>7. /\ NVariables(k) \in Nat /\ NFields(k) \in Nat /\ NOwners(k) \in Nat /\ NDrops(k) \in Nat
          /\ a.todo[k] \in Nat /\ todo[k] \in Nat
      BY <1>1, <1>3, <1>7, CountTypes DEF CountsAreNat
    <3>8. NFields(k)' \in Nat
      BY <2>1, CountTypesNext DEF CountsAreNat
    <3>9. heap'[k].cnt = heap[k].cnt - Is(n, k) /\ NFields(k)' + todo[k] = NFields(k) + a.todo[k] - Is(n, k)
      BY <1>7
    <3> QED BY <3>2, <3>3, <3>4, <3>5, <3>6, <3>7, <3>8, <3>9 DEF References
  <2>3. Harmless(c, {})
    BY <1>1, <1>6, <1>7 DEF Harmless
  <2> QED BY <1>7, <2>1, <2>2, <2>3, StepPreservesIInv
<1>8. CASE /\ ref_cnt(n) = 1
           /\ heap' = [heap EXCEPT ![n] = FreeCell]
           /\ act' = [act EXCEPT ![c][path].todo =
                        Plus(dropped, Plus(Reference(heap[n].lc), Reference(heap[n].rc)))]
  <2>1. PICK todo \in [Cells -> Nat] :
          /\ todo = Plus(dropped, Plus(Reference(heap[n].lc), Reference(heap[n].rc)))
          /\ \A k \in Cells : todo[k] = a.todo[k] - Is(n, k) + Is(heap[n].lc, k) + Is(heap[n].rc, k)
    BY <1>3, BagFacts
  <2>2. act' = [act EXCEPT ![c][path].todo = todo]
    BY <1>8, <2>1
  <2>3. /\ FreeCell \in Nodes /\ FreeCell.kind = "free" /\ FreeCell.cnt = 0
        /\ FreeCell.lc = Null /\ FreeCell.rc = Null
    BY DEF FreeCell, Nodes, Kinds, Pointers, Contents
  <2>4. heap' \in [Cells -> Nodes] /\ heap'[n] = FreeCell /\ \A k \in Cells : k # n => heap'[k] = heap[k]
    BY <1>1, <1>8, <2>3
  <2>5. /\ \A d \in Clients, v \in Names : root[d][v] # n
        /\ \A d \in Cells, s \in Sides : Field(d, s) # n
        /\ \A d \in Clients, q \in Paths : Owned(act[d][q]) # n
    BY <1>1, <1>2, <1>8, SoleDrop
  <2>6. n \notin Hollow
    BY <1>1, <2>5, HollowFacts
  <2>7. Hollow' = Hollow
    <3>1. TypeOK'
      BY <1>1, <1>6, <2>2, <2>4, TypeOKNext
    <3> QED BY <1>1, <1>6, <2>2, <3>1, SameHollow
  <2>8. /\ \A d \in Cells \ {n}, s \in Sides : Field(d, s)' = Field(d, s)
        /\ \A s \in Sides : Field(n, s)' = Null
    BY <2>3, <2>4, <2>7 DEF Field, Child, is_regular
  <2>9. Field(n, "l") = heap[n].lc /\ Field(n, "r") = heap[n].rc
    BY <1>1, <2>6, FieldIsChild DEF Child, Sides
  <2>10. NodeShape'
    <3>1. ASSUME NEW k \in Cells
          PROVE  IF heap'[k].kind = "regular" THEN \E e \in heap'[k].es : heap'[k].es = {e}
                                              ELSE heap'[k].lc = Null /\ heap'[k].rc = Null
      BY <1>1, <2>3, <2>4, NodeShapeOf
    <3> QED BY <3>1 DEF NodeShape, is_regular
  <2>11. ASSUME NEW k \in Cells
         PROVE  /\ heap'[k].cnt = heap[k].cnt - Is(n, k)
                /\ heap'[k].kind = "free" <=> heap'[k].cnt = 0
                /\ NFields(k)' + todo[k] = NFields(k) + a.todo[k] - Is(n, k)
    <3>1. NFields(k)' = NFields(k) - Is(heap[n].lc, k) + Is(Null, k) - Is(heap[n].rc, k) + Is(Null, k)
      <4>1. NFields(k)' = NFields(k) - Is(Field(n, "l"), k) + Is(Field(n, "l")', k)
                                     - Is(Field(n, "r"), k) + Is(Field(n, "r")', k)
        BY <2>8, FieldsStep
      <4>2. Field(n, "l")' = Null /\ Field(n, "r")' = Null
        BY <2>8 DEF Sides
      <4> QED BY <2>9, <4>1, <4>2
    <3>2. /\ Is(heap[n].lc, k) \in {0, 1} /\ Is(heap[n].rc, k) \in {0, 1}
          /\ Is(n, k) \in {0, 1} /\ Is(Null, k) = 0
      BY <1>1 DEF Is
    <3>3. NFields(k) \in Nat /\ a.todo[k] \in Nat
      BY <1>1, <1>3, CountTypes DEF CountsAreNat
    <3>4. todo[k] = a.todo[k] - Is(n, k) + Is(heap[n].lc, k) + Is(heap[n].rc, k)
      BY <2>1
    <3>5. NFields(k)' + todo[k] = NFields(k) + a.todo[k] - Is(n, k)
      BY <3>1, <3>2, <3>3, <3>4
    <3>6. heap[k].cnt \in Nat /\ (heap[k].kind = "free" <=> heap[k].cnt = 0)
      BY <1>1, TypeFacts DEF Exact, ref_cnt
    <3>7. CASE k = n
      BY <1>8, <2>3, <2>4, <3>5, <3>7 DEF Is, ref_cnt
    <3>8. CASE k # n
      BY <2>4, <3>5, <3>6, <3>8 DEF Is
    <3> QED BY <3>7, <3>8
  <2>12. \A k \in Cells : ~Unshared(c, {}, k) =>
           /\ heap'[k].kind = heap[k].kind /\ heap'[k].es = heap[k].es
           /\ heap'[k].lc = heap[k].lc /\ heap'[k].rc = heap[k].rc
           /\ heap'[k].cnt = heap[k].cnt \/ heap[k].cnt > 1
    BY <2>4, <2>5 DEF Unshared
  <2> QED BY <1>7, <2>2, <2>4, <2>10, <2>11, <2>12
<1>9. CASE /\ ref_cnt(n) # 1
           /\ heap' = [heap EXCEPT ![n].cnt = @ - 1]
           /\ act' = [act EXCEPT ![c][path].todo = dropped]
  <2>1. heap[n].cnt \in Nat /\ heap[n].cnt > 1
    <3>1. heap[n].cnt \in Nat /\ a.todo[n] \in Nat
      BY <1>1, <1>3, TypeFacts DEF ref_cnt
    <3>2. heap[n].cnt # 0
      BY <1>1, <1>2, <3>1, CountBounds DEF ref_cnt
    <3> QED BY <1>9, <3>1, <3>2 DEF ref_cnt
  <2>2. heap[n] \in Nodes
    BY <1>1
  <2>3. heap'[n] = [heap[n] EXCEPT !.cnt = @ - 1] /\ \A k \in Cells : k # n => heap'[k] = heap[k]
    BY <1>1, <1>9
  <2>4. /\ heap'[n] \in Nodes /\ heap'[n].cnt = heap[n].cnt - 1
        /\ heap'[n].kind = heap[n].kind /\ heap'[n].lc = heap[n].lc
        /\ heap'[n].rc = heap[n].rc /\ heap'[n].es = heap[n].es
    BY <2>1, <2>2, <2>3 DEF Nodes
  <2>5. heap' \in [Cells -> Nodes]
    BY <1>1, <1>9, <2>3, <2>4
  <2>6. \A k \in Cells : /\ heap'[k].kind = heap[k].kind /\ heap'[k].lc = heap[k].lc
                         /\ heap'[k].rc = heap[k].rc /\ heap'[k].es = heap[k].es
                         /\ heap'[k].cnt = heap[k].cnt \/ heap[k].cnt > 1
    BY <2>1, <2>3, <2>4
  <2>7. Hollow' = Hollow
    <3>1. TypeOK'
      BY <1>1, <1>3, <1>6, <1>9, <2>5, TypeOKNext
    <3> QED BY <1>1, <1>3, <1>6, <1>9, <3>1, SameHollow
  <2>8. \A d \in Cells, s \in Sides : Field(d, s)' = Field(d, s)
    BY <2>6, <2>7 DEF Field, Child, is_regular
  <2>9. NodeShape'
    <3>1. ASSUME NEW k \in Cells
          PROVE  IF heap'[k].kind = "regular" THEN \E e \in heap'[k].es : heap'[k].es = {e}
                                              ELSE heap'[k].lc = Null /\ heap'[k].rc = Null
      BY <1>1, <2>6, NodeShapeOf
    <3> QED BY <3>1 DEF NodeShape, is_regular
  <2>10. ASSUME NEW k \in Cells
         PROVE  /\ heap'[k].cnt = heap[k].cnt - Is(n, k)
                /\ heap'[k].kind = "free" <=> heap'[k].cnt = 0
                /\ NFields(k)' + dropped[k] = NFields(k) + a.todo[k] - Is(n, k)
    <3>1. NFields(k)' = NFields(k)
      BY <2>8, FieldsSame
    <3>2. NFields(k) \in Nat /\ a.todo[k] \in Nat /\ Is(n, k) \in {0, 1}
      BY <1>1, <1>3, CountTypes, BagFacts DEF CountsAreNat
    <3>3. NFields(k)' + dropped[k] = NFields(k) + a.todo[k] - Is(n, k)
      BY <1>3, <3>1, <3>2
    <3>4. heap[k].cnt \in Nat /\ (heap[k].kind = "free" <=> heap[k].cnt = 0)
      BY <1>1, TypeFacts DEF Exact, ref_cnt
    <3>5. CASE k = n
      BY <2>1, <2>4, <3>3, <3>4, <3>5 DEF Is
    <3>6. CASE k # n
      BY <2>3, <3>3, <3>4, <3>6 DEF Is
    <3> QED BY <3>5, <3>6
  <2> QED BY <1>3, <1>7, <1>9, <2>5, <2>6, <2>9, <2>10
<1> QED BY <1>2, <1>8, <1>9 DEF dropped
-----------------------------------------------------------------------------
(* Steps of an activation together with its branches.                      *)

(* A branch that has none of its own is as it should be.                   *)
LEMMA BranchForking ==
  ASSUME IInv, NEW c \in Clients, NEW path \in Paths, Len(path) < MaxDepth, NEW t \in Sides,
         act[c][Side(path, t)].pc \notin Joining \union {"single"},
         act'[c][Side(path, t)].pc \notin Joining \union {"single"},
         \A q \in Paths : q \notin Family(path) => act'[c][q] = act[c][q]
  PROVE  Forking(c, Side(path, t))'
<1> DEFINE q == Side(path, t)
<1>1. q \in Paths /\ q # path /\ Len(q) = Len(path) + 1 /\ Len(path) \in Nat
  BY PathFacts, SideFacts
<1>2. ASSUME NEW s \in Sides, Len(q) < MaxDepth PROVE act'[c][Side(q, s)] = act[c][Side(q, s)]
  <2>1. Side(q, s) \in Paths /\ Len(Side(q, s)) = Len(q) + 1
    BY <1>1, <1>2, SideFacts
  <2>2. Side(q, s) # path
    BY <1>1, <2>1
  <2>3. Side(q, s) \notin Family(path)
    BY <1>1, <1>2, <2>2, PathFacts
  <2> QED BY <2>1, <2>3
<1> HIDE DEF q
<1> QED BY <1>1, <1>2, ForkingKept DEF q

\* Each count changes as the references do.
Recounted(c, path) ==
  LET l == Side(path, "l")
      r == Side(path, "r")
  IN  \A n \in Cells :
        /\ heap'[n].cnt = heap[n].cnt - NFields(n) + NFields(n)'
             - Is(Owned(act[c][path]), n) + Is(Owned(act'[c][path]), n)
             - Is(Owned(act[c][l]), n) + Is(Owned(act'[c][l]), n)
             - Is(Owned(act[c][r]), n) + Is(Owned(act'[c][r]), n)
             - act[c][path].todo[n] + act'[c][path].todo[n]
        /\ heap'[n].kind = "free" <=> heap'[n].cnt = 0

\* The activations of a family, and only they, step; the branches have no
\* branches of their own, nor references to drop.
FamilyMoves(c, path) ==
  /\ \A d \in Clients, q \in Paths : d # c \/ q \notin Family(path) => act'[d][q] = act[d][q]
  /\ \A s \in Sides :
       LET b == act[c][Side(path, s)]
           e == act'[c][Side(path, s)]
       IN  /\ e.todo = b.todo
           /\ b.pc \notin Joining \union {"single"} /\ e.pc \notin Joining \union {"single"}

FamilyHolds(c, path) ==
  \A q \in Family(path) : Holding(c, q)' /\ Borrowing(c, q)' /\ TakingOver(c, q)'

(* A step of an activation and its branches preserves the invariant if it  *)
(* is harmless, moves no count wrongly and leaves them as the invariant    *)
(* wants them.                                                             *)
LEMMA FamilyStep ==
  ASSUME IInv, TypeOK', NodeShape', root' = root,
         NEW c \in Clients, NEW path \in Paths, Len(path) < MaxDepth,
         act[c][path].pc \notin {"idle", "held", "done"},
         FamilyMoves(c, path), Recounted(c, path), Harmless(c, Family(path)),
         FamilyHolds(c, path), Forking(c, path)'
  PROVE  IInv' /\ Persists
<1>0. PICK l, r : l = Side(path, "l") /\ r = Side(path, "r")
  OBVIOUS
<1>1. TypeOK /\ Exact
  BY DEF IInv
<1>2. /\ l \in Paths /\ r \in Paths /\ l # r /\ l # path /\ r # path
      /\ Family(path) = {path, l, r}
  BY <1>0, PathFacts
<1>3. Exact'
  <2>1. SUFFICES ASSUME NEW n \in Cells PROVE heap'[n].cnt = References(n)'
    BY DEF Exact, ref_cnt, Recounted
  <2>2. heap[n].cnt = References(n)
    BY <1>1 DEF Exact, ref_cnt
  <2>3. NVariables(n)' = NVariables(n)
    BY VariablesSame
  <2>4. NOwners(n)' = NOwners(n) - Is(Owned(act[c][path]), n) + Is(Owned(act'[c][path]), n)
                                 - Is(Owned(act[c][l]), n) + Is(Owned(act'[c][l]), n)
                                 - Is(Owned(act[c][r]), n) + Is(Owned(act'[c][r]), n)
    <3>1. \A d \in Clients, q \in Paths :
            d # c \/ q \notin {path, l, r} => Owned(act'[d][q]) = Owned(act[d][q])
      BY <1>2 DEF FamilyMoves
    <3> QED BY <1>2, <3>1, OwnersStep3
  <2>5. NDrops(n)' = NDrops(n) - act[c][path].todo[n] + act'[c][path].todo[n]
    <3>1. \A d \in Clients, q \in Paths : d # c \/ q # path => act'[d][q].todo = act[d][q].todo
      BY <1>0, <1>2 DEF FamilyMoves, Sides
    <3> QED BY <1>1, <3>1, DropsStep
  <2>6. /\ NVariables(n) \in Nat /\ NFields(n) \in Nat /\ NOwners(n) \in Nat /\ NDrops(n) \in Nat
        /\ NFields(n)' \in Nat /\ act[c][path].todo[n] \in Nat /\ act'[c][path].todo[n] \in Nat
    BY <1>1, CountTypes, CountTypesNext DEF CountsAreNat, TypeOK
  <2>7. \A x : Is(x, n) \in Int
    BY DEF Is
  <2>8. PICK o1, o2, o3, p1, p2, p3 \in Int :
          /\ o1 = Is(Owned(act[c][path]), n) /\ p1 = Is(Owned(act'[c][path]), n)
          /\ o2 = Is(Owned(act[c][l]), n) /\ p2 = Is(Owned(act'[c][l]), n)
          /\ o3 = Is(Owned(act[c][r]), n) /\ p3 = Is(Owned(act'[c][r]), n)
    BY <2>7
  <2>9. heap'[n].cnt = heap[n].cnt - NFields(n) + NFields(n)'
          - o1 + p1 - o2 + p2 - o3 + p3 - act[c][path].todo[n] + act'[c][path].todo[n]
    BY <1>0, <2>8 DEF Recounted
  <2>10. NOwners(n)' = NOwners(n) - o1 + p1 - o2 + p2 - o3 + p3
    BY <2>4, <2>8
  <2>11. PICK x \in Int : x = p1 - o1 + p2 - o2 + p3 - o3
    OBVIOUS
  <2>12. NOwners(n)' = NOwners(n) + x
    <3>1. PICK y \in Int : y = NOwners(n)
      BY <2>6
    <3>2. NOwners(n)' = y - o1 + p1 - o2 + p2 - o3 + p3
      BY <2>10, <3>1
    <3>3. NOwners(n)' = y + x
      BY <2>11, <3>2
    <3> QED BY <3>1, <3>3
  <2>13. PICK t1, t2, f1, f2 \in Nat :
          /\ t1 = act[c][path].todo[n] /\ t2 = act'[c][path].todo[n]
          /\ f1 = NFields(n) /\ f2 = NFields(n)'
    BY <2>6
  <2>14. NDrops(n)' = NDrops(n) - t1 + t2
    BY <2>5, <2>13
  <2>15. PICK v, o, d \in Nat : v = NVariables(n) /\ o = NOwners(n) /\ d = NDrops(n)
    BY <2>6
  <2>16. References(n) = v + f1 + o + d
    BY <2>13, <2>15 DEF References
  <2>17. References(n)' = v + f2 + (o + x) + (d - t1 + t2)
    BY <2>3, <2>12, <2>13, <2>14, <2>15 DEF References
  <2>18. heap'[n].cnt = heap[n].cnt - f1 + f2 - o1 + p1 - o2 + p2 - o3 + p3 - t1 + t2
    BY <2>9, <2>13
  <2>19. PICK k \in Nat : k = heap[n].cnt
    BY <1>1, TypeFacts DEF ref_cnt
  <2>20. heap'[n].cnt = k - f1 + f2 + x - t1 + t2
    <3>1. PICK h \in Int : h = heap'[n].cnt
      BY DEF TypeOK
    <3>2. h = k - f1 + f2 - o1 + p1 - o2 + p2 - o3 + p3 - t1 + t2
      BY <2>18, <2>19, <3>1
    <3>3. h = k - f1 + f2 + x - t1 + t2
      BY <2>11, <3>2
    <3> QED BY <3>1, <3>3
  <2>21. k = v + f1 + o + d
    BY <2>2, <2>16, <2>19
  <2>22. v + f2 + (o + x) + (d - t1 + t2) = (v + f1 + o + d) - f1 + f2 + x - t1 + t2
    OBVIOUS
  <2> QED BY <2>17, <2>20, <2>21, <2>22
<1>4. Forking(c, l)' /\ Forking(c, r)'
  <2>1. /\ \A q \in Paths : q \notin Family(path) => act'[c][q] = act[c][q]
        /\ act[c][l].pc \notin Joining \union {"single"} /\ act'[c][l].pc \notin Joining \union {"single"}
        /\ act[c][r].pc \notin Joining \union {"single"} /\ act'[c][r].pc \notin Joining \union {"single"}
    BY <1>0 DEF FamilyMoves, Sides
  <2> QED BY <1>0, <2>1, BranchForking DEF Sides
<1>5. \A q \in Family(path) :
        Holding(c, q)' /\ Borrowing(c, q)' /\ TakingOver(c, q)' /\ Forking(c, q)'
  BY <1>2, <1>4 DEF FamilyHolds
<1>6. Family(path) \in SUBSET Family(path) /\ path \in Family(path)
  BY DEF Family
<1> QED BY <1>3, <1>5, <1>6, StepPreservesIInv

(* What is joined: a node of the activation's own and two owned results.   *)
LEMMA JoinedFacts ==
  ASSUME IInv, NEW c \in Clients, NEW path \in Paths, act[c][path].pc \in Joining,
         NEW l, l = Side(path, "l"), NEW r, r = Side(path, "r"),
         NEW m, m = act[c][path].m
  PROVE  /\ Len(path) < MaxDepth
         /\ l \in Paths /\ r \in Paths /\ l # r /\ l # path /\ r # path
         /\ Family(path) = {path, l, r}
         /\ m \in Cells /\ is_regular(m) /\ heap[m].cnt = 1 /\ m \in Hollow
         /\ m \in Pointers /\ m # Null
         /\ Owned(act[c][path]) = m /\ JoinsWith(act[c][path]) = m
         /\ Unshared(c, Family(path), m)
         /\ \A d \in Clients, v \in Names : root[d][v] # m
         /\ \A d \in Cells, s \in Sides : Field(d, s) # m
         /\ \A s \in Sides : Field(m, s) = Null
         /\ \A d \in Clients, q \in Paths : Owned(act[d][q]) = m => d = c /\ q = path
<1>1. Holding(c, path) /\ TypeOK /\ Exact /\ Base
  BY BaseOfIInv DEF IInv
<1>2. m \in Cells /\ is_regular(m) /\ heap[m].cnt = 1 /\ Len(path) < MaxDepth
  BY <1>1, TypeFacts DEF Holding, Pointers, ref_cnt
<1>3. Owned(act[c][path]) = m /\ JoinsWith(act[c][path]) = m /\ m \in Hollow
  BY <1>2 DEF Owned, JoinsWith, Joining, Hollow
<1>4. /\ \A d \in Clients, v \in Names : root[d][v] # m
      /\ \A d \in Cells, s \in Sides : Field(d, s) # m
      /\ \A d \in Clients, q \in Paths : Owned(act[d][q]) = m => d = c /\ q = path
  BY <1>1, <1>2, <1>3, SoleOwner DEF ref_cnt
<1>5. Unshared(c, Family(path), m)
  BY <1>4 DEF Unshared, Family
<1>6. \A s \in Sides : Field(m, s) = Null
  BY <1>3 DEF Field
<1>7. m \in Pointers /\ m # Null
  BY <1>1, <1>2, TypeFacts DEF Pointers
<1>8. /\ l \in Paths /\ r \in Paths /\ l # r /\ l # path /\ r # path
      /\ Family(path) = {path, l, r}
  BY <1>2, PathFacts
<1> QED BY <1>2, <1>3, <1>4, <1>5, <1>6, <1>7, <1>8

(* The owner of a result that is not Null.                                 *)
LEMMA ResultFacts ==
  ASSUME IInv, NEW c \in Clients, NEW q \in Paths, act[c][q].pc = "done"
  PROVE  /\ Owned(act[c][q]) = act[c][q].res /\ act[c][q].res \in Pointers
         /\ JoinsWith(act[c][q]) = Null
         /\ act[c][q].res \notin Hollow
         /\ act[c][q].res # Null => act[c][q].res \in Cells /\ heap[act[c][q].res].cnt >= 1
<1>1. Owned(act[c][q]) = act[c][q].res /\ JoinsWith(act[c][q]) = Null /\ act[c][q].pc \notin Joining
  BY DEF Owned, JoinsWith, Joining
<1>2. TypeOK /\ Exact /\ Base /\ act[c][q].res \in Pointers
  BY BaseOfIInv, TypeFacts DEF IInv
<1>3. act[c][q].res \notin Hollow
  BY <1>1, <1>2, HollowFacts
<1>4. ASSUME act[c][q].res # Null
      PROVE  act[c][q].res \in Cells /\ heap[act[c][q].res].cnt >= 1
  <2>1. act[c][q].res \in Cells
    BY <1>2, <1>4 DEF Pointers
  <2> QED BY <1>1, <1>2, <2>1, CountBounds DEF ref_cnt
<1> QED BY <1>1, <1>2, <1>3, <1>4

(* A join chooses its spine; it is copied if its count is above one.       *)
LEMMA HeavyPreserves ==
  ASSUME IInv, NEW c \in Clients, NEW path \in Paths, NEW s \in Sides, Heavy(c, path, s),
         UNCHANGED <<given, root, due, left>>
  PROVE  IInv' /\ Persists
<1> DEFINE a == act[c][path]
           t == Result(c, path, s)
           pc == IF ref_cnt(t) > 1 THEN (IF s = "l" THEN "copy_l" ELSE "copy_r")
                                   ELSE (IF s = "l" THEN "spine_l" ELSE "spine_r")
           b == [a EXCEPT !.pc = pc]
<1>1. Joined(c, path) /\ t # Null /\ is_regular(t) /\ Sets(c, path, b) /\ heap' = heap
  BY DEF Heavy
<1>2. /\ TypeOK /\ NodeShape /\ Exact /\ Base /\ a \in Activations /\ heap \in [Cells -> Nodes]
      /\ Holding(c, path)
  BY ActivationType, HeapType, BaseOfIInv DEF IInv
<1>3. /\ a.pc = "fork" /\ a.todo = NoReferences
      /\ \A q \in Sides : /\ act[c][Side(path, q)].pc = "done"
                          /\ act[c][Side(path, q)].todo = NoReferences
  BY <1>1 DEF Joined, At, Sides
<1>4. /\ Len(path) < MaxDepth
      /\ Side(path, "l") \in Paths /\ Side(path, "l") # path
      /\ Side(path, "r") \in Paths /\ Side(path, "r") # path
  BY <1>3, JoinedFacts DEF Joining
<1>5. \A q \in Sides : Side(path, q) \in Paths /\ Side(path, q) # path
  BY <1>4 DEF Sides
<1>6. /\ b \in Activations /\ b.pc = pc /\ b.p = a.p /\ b.m = a.m /\ b.res = a.res /\ b.todo = a.todo
      /\ b.pc \in {"copy_l", "copy_r", "spine_l", "spine_r"}
  BY <1>2 DEF Activations, PCs
<1>7. heap[t].cnt \in Nat /\ heap[t].cnt >= 1
  <2>1. act[c][Side(path, s)].pc = "done" /\ Side(path, s) \in Paths
    BY <1>3, <1>5
  <2>2. t \in Cells /\ heap[t].cnt >= 1
    BY <1>1, <2>1, ResultFacts DEF Result
  <2> QED BY <1>2, <2>2, TypeFacts DEF ref_cnt
<1>8. /\ b.pc = (IF s = "l" THEN "copy_l" ELSE "copy_r") \/ heap[t].cnt = 1
      /\ \A q \in Sides : q # s =>
           /\ b.pc # (IF q = "l" THEN "copy_l" ELSE "copy_r")
           /\ b.pc # (IF q = "l" THEN "spine_l" ELSE "spine_r")
  BY <1>6, <1>7 DEF ref_cnt, Sides
<1> HIDE DEF b, t, pc
<1>9. /\ act' \in [Clients -> [Paths -> Activations]]
      /\ act'[c][path] = b
      /\ \A d \in Clients, q \in Paths : d # c \/ q # path => act'[d][q] = act[d][q]
  BY <1>1, <1>2, <1>6, SetsFacts
<1>10. TypeOK'
  BY <1>1, <1>2, <1>9, TypeOKNext
<1>11. JoinsWith(b) = JoinsWith(a) /\ Owned(b) = Owned(a)
  BY <1>3, <1>6 DEF JoinsWith, Owned, Joining
<1>12. Hollow' = Hollow
  BY <1>2, <1>9, <1>10, <1>11, SameHollow
<1>13. NodeShape'
  BY <1>1, <1>2 DEF NodeShape, is_regular
<1>14. Exact'
  <2>1. \A d \in Cells, q \in Sides : Field(d, q)' = Field(d, q)
    BY <1>1, <1>12 DEF Field, Child, is_regular
  <2>2. OwnedAt' = OwnedAt /\ TodoAt' = TodoAt /\ VarAt' = VarAt /\ FieldAt' = FieldAt
    BY <1>6, <1>9, <1>11, <2>1 DEF OwnedAt, TodoAt, VarAt, FieldAt
  <2>3. \A n \in Cells : References(n)' = References(n)
    BY <2>2 DEF References, NVariables, NFields, NOwners, NDrops, Holds, DropsIn
  <2> QED BY <1>1, <1>2, <2>3 DEF Exact, ref_cnt
<1>15. Harmless(c, {path})
  BY <1>1, <1>9 DEF Harmless, GoesOn
<1>16. Holding(c, path)'
  <2>1. a.m # Null /\ heap[a.m].kind = "regular" /\ heap[a.m].cnt = 1
    BY <1>2, <1>3 DEF Holding, Joining, is_regular, ref_cnt
  <2> QED BY <1>1, <1>4, <1>6, <1>9, <2>1 DEF Holding, Joining, is_regular, ref_cnt
<1>17. Borrowing(c, path)' /\ TakingOver(c, path)'
  BY <1>6, <1>9 DEF Borrowing, Borrows, TakingOver
<1>18. Forking(c, path)'
  <2>1. \A q \in Sides : act'[c][Side(path, q)] = act[c][Side(path, q)]
    BY <1>5, <1>9
  <2>2. act[c][Side(path, s)].res = t
    BY DEF t, Result
  <2>3. heap[t].kind = "regular"
    BY <1>1 DEF is_regular
  <2> QED BY <1>1, <1>3, <1>6, <1>8, <1>9, <2>1, <2>2, <2>3 DEF Forking, Joining, is_regular, ref_cnt
<1> QED
  <2>1. {path} \in SUBSET Family(path) /\ act[c][path].pc \notin {"idle", "held", "done"}
    BY <1>3 DEF Family
  <2> QED BY <1>10, <1>13, <1>14, <1>15, <1>16, <1>17, <1>18, <2>1, StepPreservesIInv

(* The copy refers to the children of the spine, whose counts are raised,  *)
(* and takes its place; the original is to be dropped.                     *)
LEMMA CopySpinePreserves ==
  ASSUME IInv, NEW c \in Clients, NEW path \in Paths, NEW s \in Sides, CopySpine(c, path, s),
         UNCHANGED <<given, root, due, left>>
  PROVE  IInv' /\ Persists
<1> DEFINE a == act[c][path]
           t == Result(c, path, s)
           b == [a EXCEPT !.pc = IF s = "l" THEN "spine_l" ELSE "spine_r", !.todo = Reference(t)]
<1>1. /\ TypeOK /\ NodeShape /\ Exact /\ Base /\ a \in Activations /\ heap \in [Cells -> Nodes]
      /\ act \in [Clients -> [Paths -> Activations]] /\ Null \notin Cells
  BY ActivationType, HeapType, TypeFacts, BaseOfIInv DEF IInv, TypeOK, Activations
<1>2. /\ a.pc = (IF s = "l" THEN "copy_l" ELSE "copy_r") /\ a.pc \in {"copy_l", "copy_r"}
      /\ a.pc \in Joining /\ a.todo = NoReferences /\ HasRoom
  BY DEF CopySpine, At, Joining, Sides
<1>3. PICK l \in Paths, r \in Paths, q \in Paths, m \in Cells, k \in Cells :
        l = Side(path, "l") /\ r = Side(path, "r") /\ q = Side(path, s) /\ m = a.m /\ k = Fresh
  <2>1. Side(path, "l") \in Paths /\ Side(path, "r") \in Paths /\ a.m \in Cells
    BY <1>2, JoinedFacts
  <2> QED BY <1>2, <2>1, FreshFacts DEF Sides
<1>4. /\ Len(path) < MaxDepth /\ l # r /\ l # path /\ r # path /\ Family(path) = {path, l, r}
      /\ (q = l /\ s = "l") \/ (q = r /\ s = "r")
      /\ heap[m].kind = "regular" /\ heap[m].cnt = 1 /\ m # Null
      /\ Owned(a) = m /\ JoinsWith(a) = m
      /\ \A d \in Cells, w \in Sides : Field(d, w) # m
  BY <1>2, <1>3, JoinedFacts DEF is_regular, Sides
<1>5. /\ act[c][l].pc = "done" /\ act[c][l].todo = NoReferences
      /\ act[c][r].pc = "done" /\ act[c][r].todo = NoReferences
      /\ t = act[c][q].res /\ t # Null /\ heap[t].kind = "regular"
  BY <1>1, <1>2, <1>3, <1>4 DEF IInv, Forking, Result, is_regular, Sides
<1>6. /\ heap[k].kind = "free" /\ heap[k].cnt = 0 /\ k # Null
      /\ \A d \in Clients, P \in SUBSET Paths : Unshared(d, P, k)
      /\ \A d \in Cells, w \in Sides : Field(d, w) # k /\ Field(k, w) = Null
      /\ \A d \in Clients, w \in Paths : Owned(act[d][w]) # k
  BY <1>2, <1>3, FreshFacts
<1>7. /\ t \in Cells /\ t \notin Hollow /\ Owned(act[c][q]) = t /\ JoinsWith(act[c][q]) = Null
  BY <1>4, <1>5, ResultFacts
<1>8. PICK lt \in Pointers, rt \in Pointers : lt = heap[t].lc /\ rt = heap[t].rc
  BY <1>1, <1>7 DEF Nodes
<1>9. Field(t, "l") = lt /\ Field(t, "r") = rt
  BY <1>1, <1>7, <1>8, FieldIsChild DEF Child, Sides
<1>10. lt # k /\ rt # k /\ lt # m /\ rt # m
  BY <1>4, <1>6, <1>7, <1>9 DEF Sides
<1> DEFINE o == Regular(get_entry(t), lt, rt)
           e == [act[c][q] EXCEPT !.res = k]
<1>11. /\ heap' = [n \in Cells |-> IF n = k THEN o
                                   ELSE [heap[n] EXCEPT !.cnt = @ + Plus(Reference(lt), Reference(rt))[n]]]
       /\ act' = [act EXCEPT
            ![c][path].pc = IF s = "l" THEN "spine_l" ELSE "spine_r",
            ![c][path].todo = Reference(t),
            ![c][q].res = k]
  BY <1>3, <1>8 DEF CopySpine
<1>12. /\ b \in Activations /\ b.pc = (IF s = "l" THEN "spine_l" ELSE "spine_r")
       /\ b.todo = Reference(t) /\ b.m = m
  <2>1. Reference(t) \in [Cells -> Nat]
    BY BagFacts
  <2> QED BY <1>1, <1>3, <2>1 DEF Activations, PCs
<1>13. /\ e \in Activations /\ e.pc = "done" /\ e.todo = NoReferences /\ e.res = k
  <2>1. act[c][q] \in Activations /\ k \in Pointers
    BY <1>1 DEF Pointers
  <2>2. act[c][q].pc = "done" /\ act[c][q].todo = NoReferences
    BY <1>4, <1>5
  <2> QED BY <2>1, <2>2 DEF Activations
<1>14. /\ o \in Nodes /\ o.kind = "regular" /\ o.cnt = 1 /\ o.lc = lt /\ o.rc = rt /\ o.es = {get_entry(t)}
  <2>1. get_entry(t) \in Nat \X Values
    BY <1>1, <1>5, <1>7, EntryType DEF is_regular
  <2> QED BY <2>1 DEF o, Regular, Nodes, Kinds, Contents
<1>15. /\ act' \in [Clients -> [Paths -> Activations]] /\ act'[c][path] = b /\ act'[c][q] = e
       /\ \A d \in Clients, w \in Paths : d # c \/ w \notin {path, q} => act'[d][w] = act[d][w]
  <2>1. q # path
    BY <1>4
  <2>2. act'[c][path] = b /\ act'[c][q] = e
    BY <1>1, <1>11, <2>1
  <2>3. \A d \in Clients, w \in Paths : d # c \/ w \notin {path, q} => act'[d][w] = act[d][w]
    BY <1>1, <1>11
  <2>4. act' \in [Clients -> [Paths -> Activations]]
    <3>1. /\ DOMAIN act' = Clients /\ \A d \in Clients : DOMAIN act'[d] = Paths
          /\ act' = [d \in Clients |-> act'[d]] /\ \A d \in Clients : act'[d] = [w \in Paths |-> act'[d][w]]
      BY <1>1, <1>11
    <3>2. \A d \in Clients, w \in Paths : act'[d][w] \in Activations
      BY <1>1, <1>12, <1>13, <2>2, <2>3
    <3> QED BY <3>1, <3>2
  <2> QED BY <2>2, <2>3, <2>4
<1> HIDE DEF a, b, e, o, t
<1>16. heap'[k] = o
  BY <1>11
<1>17. ASSUME NEW n \in Cells, n # k
       PROVE  /\ heap'[n] \in Nodes /\ heap'[n].cnt = heap[n].cnt + Is(lt, n) + Is(rt, n)
              /\ heap'[n].kind = heap[n].kind /\ heap'[n].es = heap[n].es
              /\ heap'[n].lc = heap[n].lc /\ heap'[n].rc = heap[n].rc
  <2>1. PICK i \in Nat : i = Is(lt, n) + Is(rt, n)
    BY DEF Is
  <2>2. Plus(Reference(lt), Reference(rt))[n] = i
    BY <2>1, BagFacts
  <2>3. heap'[n] = [heap[n] EXCEPT !.cnt = @ + i]
    BY <1>11, <1>17, <2>2
  <2>4. heap[n] \in Nodes
    BY <1>1
  <2>5. /\ heap'[n] \in Nodes /\ heap'[n].cnt = heap[n].cnt + i
        /\ heap'[n].kind = heap[n].kind /\ heap'[n].es = heap[n].es
        /\ heap'[n].lc = heap[n].lc /\ heap'[n].rc = heap[n].rc
    BY <2>3, <2>4 DEF Nodes
  <2>6. heap[n].cnt + i = heap[n].cnt + Is(lt, n) + Is(rt, n)
    <3>1. heap[n].cnt \in Nat /\ Is(lt, n) \in {0, 1} /\ Is(rt, n) \in {0, 1}
      BY <2>4, BagFacts DEF Nodes
    <3> QED BY <2>1, <3>1
  <2> QED BY <2>5, <2>6
<1>18. TypeOK'
  <2>1. \A n \in Cells : heap'[n] \in Nodes
    BY <1>14, <1>16, <1>17
  <2>2. heap' \in [Cells -> Nodes]
    BY <1>11, <2>1
  <2> QED BY <1>1, <1>15, <2>2, TypeOKNext
<1>19. Owned(b) = m /\ JoinsWith(b) = m /\ Owned(e) = k /\ JoinsWith(e) = Null /\ b.pc \in Joining
  BY <1>12, <1>13 DEF Owned, JoinsWith, Joining
<1>20. Hollow' = Hollow
  <2>1. \A d \in Clients, w \in Paths : JoinsWith(act'[d][w]) = JoinsWith(act[d][w])
    BY <1>4, <1>7, <1>15, <1>19 DEF a
  <2> QED BY <1>1, <1>18, <2>1, SameHollow
<1>21. k \notin Hollow
  BY <1>1, <1>6, HollowFacts DEF is_regular
<1>22. /\ \A d \in Cells \ {k}, w \in Sides : Field(d, w)' = Field(d, w)
       /\ Field(k, "l")' = lt /\ Field(k, "r")' = rt
  <2>1. \A d \in Cells \ {k}, w \in Sides : Field(d, w)' = Field(d, w)
    BY <1>17, <1>20 DEF Field, Child, is_regular
  <2> QED BY <1>14, <1>16, <1>20, <1>21, <2>1 DEF Field, Child, is_regular
<1>23. NodeShape'
  <2>1. ASSUME NEW n \in Cells
        PROVE  IF heap'[n].kind = "regular" THEN \E x \in heap'[n].es : heap'[n].es = {x}
                                            ELSE heap'[n].lc = Null /\ heap'[n].rc = Null
    <3>1. CASE n = k
      BY <1>14, <1>16, <3>1
    <3>2. CASE n # k
      BY <1>1, <1>17, <3>2, NodeShapeOf
    <3> QED BY <3>1, <3>2
  <2> QED BY <2>1 DEF NodeShape, is_regular
<1>24. \A n \in Cells : heap'[n].kind = "free" <=> heap'[n].cnt = 0
  <2>1. ASSUME NEW n \in Cells, n # k PROVE heap'[n].kind = "free" <=> heap'[n].cnt = 0
    <3>1. heap[n].cnt \in Nat /\ Is(lt, n) \in {0, 1} /\ Is(rt, n) \in {0, 1}
      BY <1>1, BagFacts DEF Nodes
    <3>2. heap[n].kind = "free" <=> heap[n].cnt = 0
      BY <1>1 DEF Exact, ref_cnt
    <3>3. heap[n].kind = "free" => lt # n /\ rt # n
      BY <1>1, <1>7, <1>9, Unreferenced DEF Sides
    <3>4. heap[n].kind = "free" => Is(lt, n) = 0 /\ Is(rt, n) = 0
      BY <3>3 DEF Is
    <3> QED BY <1>17, <2>1, <3>1, <3>2, <3>4
  <2>2. heap'[k].kind = "regular" /\ heap'[k].cnt = 1
    BY <1>14, <1>16
  <2> QED BY <2>1, <2>2
<1>25. Recounted(c, path)
  <2>1. SUFFICES ASSUME NEW n \in Cells
        PROVE  heap'[n].cnt = heap[n].cnt - NFields(n) + NFields(n)'
                 - Is(Owned(act[c][path]), n) + Is(Owned(act'[c][path]), n)
                 - Is(Owned(act[c][l]), n) + Is(Owned(act'[c][l]), n)
                 - Is(Owned(act[c][r]), n) + Is(Owned(act'[c][r]), n)
                 - act[c][path].todo[n] + act'[c][path].todo[n]
    BY <1>3, <1>24 DEF Recounted
  <2>2. PICK h \in Nat, f \in Nat, i \in Int, j \in Int, x \in Int, y \in Int, u \in Int, v \in Int :
          /\ h = heap[n].cnt /\ f = NFields(n) /\ i = Is(lt, n) /\ j = Is(rt, n)
          /\ x = Is(t, n) /\ y = Is(k, n) /\ u = Is(m, n)
          /\ v = IF q = l THEN Is(Owned(act[c][r]), n) ELSE Is(Owned(act[c][l]), n)
    BY <1>1, CountTypes DEF Nodes, CountsAreNat, Is
  <2>3. NFields(n)' = f + i + j
    <3>1. NFields(n)' = NFields(n) - Is(Null, n) + Is(lt, n) - Is(Null, n) + Is(rt, n)
      BY <1>6, <1>22, FieldsStep DEF Sides
    <3>2. Is(Null, n) = 0
      BY <1>1 DEF Is
    <3> QED BY <2>2, <3>1, <3>2
  <2>4. act[c][path].todo[n] = 0 /\ act'[c][path].todo[n] = x
    BY <1>2, <1>12, <1>15, <2>2, BagFacts DEF a
  <2>5. Is(Owned(act[c][path]), n) = u /\ Is(Owned(act'[c][path]), n) = u
    BY <1>4, <1>15, <1>19, <2>2 DEF a
  <2>6. Is(Owned(act[c][q]), n) = x /\ Is(Owned(act'[c][q]), n) = y
    BY <1>7, <1>15, <1>19, <2>2
  <2>7. heap'[n].cnt = h + i + j + y
    <3>1. CASE n = k
      <4>1. i = 0 /\ j = 0 /\ y = 1
        BY <1>10, <2>2, <3>1 DEF Is
      <4>2. h = 0 /\ heap'[n].cnt = 1
        BY <1>6, <1>14, <1>16, <2>2, <3>1
      <4> QED BY <4>1, <4>2
    <3>2. CASE n # k
      BY <1>17, <2>2, <3>2 DEF Is
    <3> QED BY <3>1, <3>2
  <2>8. CASE q = l
    <3>1. Is(Owned(act[c][r]), n) = v /\ Is(Owned(act'[c][r]), n) = v
      BY <1>4, <1>15, <2>2, <2>8
    <3>2. heap'[n].cnt = h - f + (f + i + j) - u + u - x + y - v + v - 0 + x
      BY <2>7
    <3> QED BY <2>2, <2>3, <2>4, <2>5, <2>6, <2>8, <3>1, <3>2
  <2>9. CASE q = r
    <3>1. Is(Owned(act[c][l]), n) = v /\ Is(Owned(act'[c][l]), n) = v
      BY <1>4, <1>15, <2>2, <2>9
    <3>2. heap'[n].cnt = h - f + (f + i + j) - u + u - v + v - x + y - 0 + x
      BY <2>7
    <3> QED BY <2>2, <2>3, <2>4, <2>5, <2>6, <2>9, <3>1, <3>2
  <2> QED BY <1>4, <2>8, <2>9
<1>26. Harmless(c, Family(path))
  <2>1. ASSUME NEW n \in Cells, ~Unshared(c, Family(path), n)
        PROVE  /\ heap'[n].kind = heap[n].kind /\ heap'[n].es = heap[n].es
               /\ heap'[n].lc = heap[n].lc /\ heap'[n].rc = heap[n].rc
               /\ heap'[n].cnt = heap[n].cnt \/ Shared(c, Family(path), n)
    <3>1. n # k
      BY <1>4, <1>6, <2>1
    <3>2. n = lt \/ n = rt => Shared(c, Family(path), n)
      BY <1>4, <1>7, <1>9 DEF Shared, Sides
    <3>3. n # lt /\ n # rt => heap'[n].cnt = heap[n].cnt
      BY <1>1, <1>17, <3>1 DEF Is, Nodes
    <3> QED BY <1>17, <3>1, <3>2, <3>3
  <2>2. \A d \in Clients, w \in Paths : d # c \/ w \notin Family(path) => act'[d][w] = act[d][w]
    BY <1>4, <1>15
  <2> QED BY <2>1, <2>2 DEF Harmless, GoesOn
<1>27. /\ act'[c][l].pc = "done" /\ act'[c][r].pc = "done"
       /\ act'[c][l].todo = NoReferences /\ act'[c][r].todo = NoReferences
  BY <1>4, <1>5, <1>13, <1>15
<1>28. heap'[m].kind = "regular" /\ heap'[m].cnt = 1
  <2>1. m # k
    BY <1>4, <1>6
  <2>2. Is(lt, m) = 0 /\ Is(rt, m) = 0
    BY <1>10 DEF Is
  <2> QED BY <1>4, <1>17, <2>1, <2>2
<1>29. FamilyHolds(c, path)
  <2>1. Holding(c, path)' /\ Borrowing(c, path)' /\ TakingOver(c, path)'
    BY <1>4, <1>12, <1>15, <1>28 DEF Holding, Borrowing, Borrows, TakingOver, Joining, is_regular, ref_cnt
  <2>2. \A w \in {l, r} : Holding(c, w)' /\ Borrowing(c, w)' /\ TakingOver(c, w)'
    BY <1>27 DEF Holding, Borrowing, Borrows, TakingOver, Joining
  <2> QED BY <1>4, <2>1, <2>2 DEF FamilyHolds
<1>30. Forking(c, path)'
  <2>1. ASSUME NEW w \in Sides PROVE Side(path, w) \in {l, r} /\ (w = s <=> Side(path, w) = q)
    BY <1>3, <1>4 DEF Sides
  <2>2. act'[c][q].res # Null /\ heap'[act'[c][q].res].kind = "regular" /\ heap'[act'[c][q].res].cnt = 1
    BY <1>6, <1>13, <1>14, <1>15, <1>16
  <2>3. \A w \in Sides : w # s => act'[c][path].pc # (IF w = "l" THEN "spine_l" ELSE "spine_r")
    BY <1>12, <1>15 DEF Sides
  <2>4. act'[c][path].pc \in Joining /\ act'[c][path].pc \notin {"single", "copy_l", "copy_r"}
    BY <1>12, <1>15 DEF Joining
  <2> QED BY <1>27, <2>1, <2>2, <2>3, <2>4 DEF Forking, is_regular, ref_cnt
<1>31. FamilyMoves(c, path)
  <2>1. \A d \in Clients, w \in Paths : d # c \/ w \notin Family(path) => act'[d][w] = act[d][w]
    BY <1>4, <1>15
  <2>2. \A w \in Sides : Side(path, w) \in {l, r}
    BY <1>3 DEF Sides
  <2> QED BY <1>5, <1>27, <2>1, <2>2 DEF FamilyMoves, Joining
<1>32. act[c][path].pc \notin {"idle", "held", "done"}
  BY <1>2 DEF a
<1> QED BY <1>4, <1>18, <1>23, <1>25, <1>26, <1>29, <1>30, <1>31, <1>32, FamilyStep

(* What Finish does to the activations.                                    *)
LEMMA FinishFacts ==
  ASSUME TypeOK, NEW c \in Clients, NEW path \in Paths, Len(path) < MaxDepth,
         NEW n \in Pointers, NEW drops \in [Cells -> Nat], Finish(c, path, n, drops)
  PROVE  /\ act' \in [Clients -> [Paths -> Activations]]
         /\ act'[c][path] = Done(n, drops)
         /\ \A s \in Sides : act'[c][Side(path, s)] = Idle
         /\ \A d \in Clients, q \in Paths : d # c \/ q \notin Family(path) => act'[d][q] = act[d][q]
<1>1. PICK l \in Paths, r \in Paths :
        /\ l = Side(path, "l") /\ r = Side(path, "r") /\ l # r /\ l # path /\ r # path
        /\ Family(path) = {path, l, r}
  BY PathFacts
<1>2. Done(n, drops) \in Activations /\ Idle \in Activations
  BY DoneFacts, BagFacts DEF Idle, Activations, PCs, Pointers, Contents
<1>3. act \in [Clients -> [Paths -> Activations]]
  BY DEF TypeOK, Activations
<1>4. act' = [act EXCEPT ![c][path] = Done(n, drops), ![c][l] = Idle, ![c][r] = Idle]
  BY <1>1 DEF Finish
<1>5. /\ act'[c][path] = Done(n, drops) /\ act'[c][l] = Idle /\ act'[c][r] = Idle
      /\ \A d \in Clients, q \in Paths : d # c \/ q \notin {path, l, r} => act'[d][q] = act[d][q]
  BY <1>1, <1>3, <1>4
<1>6. act' \in [Clients -> [Paths -> Activations]]
  BY <1>2, <1>3, <1>4
<1> QED BY <1>1, <1>5, <1>6 DEF Sides

\* The state in which an activation joins the results l and r with m.
Joins(c, path, m, l, r) ==
  LET a == act[c][path]
      bl == act[c][Side(path, "l")]
      br == act[c][Side(path, "r")]
  IN  /\ a.pc \in Joining /\ a.todo = NoReferences /\ a.m = m
      /\ bl.pc = "done" /\ bl.todo = NoReferences /\ bl.res = l
      /\ br.pc = "done" /\ br.todo = NoReferences /\ br.res = r

(* The node that was joined with is hollow no longer.                      *)
LEMMA FinishHollow ==
  ASSUME IInv, TypeOK', NEW c \in Clients, NEW path \in Paths, NEW m, NEW l, NEW r,
         Joins(c, path, m, l, r),
         NEW n \in Pointers, NEW drops \in [Cells -> Nat], Finish(c, path, n, drops)
  PROVE  Hollow' = Hollow \ {m}
<1>1. /\ TypeOK /\ Base /\ act[c][path].pc \in Joining /\ JoinsWith(act[c][path]) = m
      /\ \A s \in Sides : JoinsWith(act[c][Side(path, s)]) = Null
  BY BaseOfIInv DEF Joins, JoinsWith, Joining, Sides, IInv
<1>2. Len(path) < MaxDepth /\ Family(path) = {path, Side(path, "l"), Side(path, "r")}
  BY <1>1, JoinedFacts
<1>3. /\ act'[c][path] = Done(n, drops)
      /\ \A s \in Sides : act'[c][Side(path, s)] = Idle
      /\ \A d \in Clients, q \in Paths : d # c \/ q \notin Family(path) => act'[d][q] = act[d][q]
  BY <1>1, <1>2, FinishFacts
<1>4. JoinsWith(act'[c][path]) = Null /\ JoinsWith(Idle) = Null
  BY <1>3, DoneFacts, IdleFacts DEF JoinsWith, Joining
<1>5. \A d \in Clients, q \in Paths :
        d # c \/ q # path => JoinsWith(act'[d][q]) = JoinsWith(act[d][q])
  BY <1>1, <1>2, <1>3, <1>4 DEF Sides
<1>6. Hollow' = (Hollow \ {m}) \union ({Null} \ {Null})
  BY <1>1, <1>4, <1>5, HollowStep
<1> QED BY <1>6

\* The counts after l and r were joined with m to n.
RecountedAs(m, l, r, n, drops) ==
  \A k \in Cells :
    /\ heap'[k].cnt = heap[k].cnt - NFields(k) + NFields(k)' - Is(m, k) + Is(n, k)
                        - Is(l, k) - Is(r, k) + drops[k]
    /\ heap'[k].kind = "free" <=> heap'[k].cnt = 0

\* Nothing has changed but what only the family refers to.
OthersStay(c, path) ==
  \A k \in Cells : ~Unshared(c, Family(path), k) =>
    /\ heap'[k].kind = heap[k].kind /\ heap'[k].es = heap[k].es
    /\ heap'[k].lc = heap[k].lc /\ heap'[k].rc = heap[k].rc /\ heap'[k].cnt = heap[k].cnt

(* An activation that has joined: the counts have to be right, and nothing *)
(* has to have changed for anybody else.                                   *)
LEMMA FinishStep ==
  ASSUME IInv, TypeOK', NodeShape', root' = root,
         NEW c \in Clients, NEW path \in Paths, NEW m, NEW l, NEW r, Joins(c, path, m, l, r),
         NEW n \in Pointers, NEW drops \in [Cells -> Nat], Finish(c, path, n, drops),
         RecountedAs(m, l, r, n, drops), OthersStay(c, path)
  PROVE  IInv' /\ Persists
<1>1. PICK x, y : x = Side(path, "l") /\ y = Side(path, "r")
  OBVIOUS
<1>2. /\ TypeOK /\ act[c][path].pc \in Joining /\ act[c][path].todo = NoReferences
      /\ act[c][x].pc = "done" /\ act[c][x].todo = NoReferences /\ act[c][x].res = l
      /\ act[c][y].pc = "done" /\ act[c][y].todo = NoReferences /\ act[c][y].res = r
      /\ act[c][path].m = m
  BY <1>1 DEF Joins, IInv
<1>3. /\ Len(path) < MaxDepth /\ Family(path) = {path, x, y} /\ Owned(act[c][path]) = m
      /\ x \in Paths /\ y \in Paths /\ Null \notin Cells
  BY <1>1, <1>2, JoinedFacts, TypeFacts
<1>4. Owned(act[c][x]) = l /\ Owned(act[c][y]) = r
  BY <1>2 DEF Owned, Joining
<1>5. /\ act'[c][path] = Done(n, drops) /\ act'[c][x] = Idle /\ act'[c][y] = Idle
      /\ \A d \in Clients, q \in Paths : d # c \/ q \notin Family(path) => act'[d][q] = act[d][q]
  BY <1>1, <1>2, <1>3, FinishFacts DEF Sides
<1>6. /\ Done(n, drops).pc = "done" /\ Done(n, drops).todo = drops /\ Owned(Done(n, drops)) = n
      /\ Idle.pc = "idle" /\ Idle.todo = NoReferences /\ Owned(Idle) = Null
  BY DoneFacts, IdleFacts
<1>7. FamilyMoves(c, path)
  BY <1>1, <1>2, <1>5, <1>6 DEF FamilyMoves, Sides, Joining
<1>8. FamilyHolds(c, path)
  <2>1. ASSUME NEW q \in Paths, act'[c][q].pc \in {"done", "idle"}
        PROVE  Holding(c, q)' /\ Borrowing(c, q)' /\ TakingOver(c, q)'
    BY <2>1 DEF Holding, Borrowing, Borrows, TakingOver, Joining
  <2>2. \A q \in {path, x, y} : act'[c][q].pc \in {"done", "idle"}
    BY <1>5, <1>6
  <2> QED BY <1>3, <2>1, <2>2 DEF FamilyHolds
<1>9. Forking(c, path)'
  <2>1. act'[c][path].pc = "done"
    BY <1>5, <1>6
  <2> QED BY <1>1, <1>5, <2>1 DEF Forking, Joining, Sides
<1>10. Harmless(c, Family(path))
  BY <1>5 DEF Harmless, GoesOn, OthersStay
<1>11. Recounted(c, path)
  <2>1. ASSUME NEW k \in Cells
        PROVE  heap'[k].cnt = heap[k].cnt - NFields(k) + NFields(k)'
                 - Is(Owned(act[c][path]), k) + Is(Owned(act'[c][path]), k)
                 - Is(Owned(act[c][x]), k) + Is(Owned(act'[c][x]), k)
                 - Is(Owned(act[c][y]), k) + Is(Owned(act'[c][y]), k)
                 - act[c][path].todo[k] + act'[c][path].todo[k]
    <3>1. Is(Null, k) = 0 /\ NoReferences[k] = 0
      BY <1>3, BagFacts DEF Is
    <3>2. heap'[k].cnt = heap[k].cnt - NFields(k) + NFields(k)' - Is(m, k) + Is(n, k)
                           - Is(l, k) - Is(r, k) + drops[k]
      BY DEF RecountedAs
    <3>3. /\ heap[k].cnt \in Nat /\ NFields(k) \in Nat /\ NFields(k)' \in Nat
      BY <1>2, TypeFacts, CountTypes, CountTypesNext DEF CountsAreNat, ref_cnt
    <3>4. PICK h, f, g, im, in, il, ir, dr \in Int :
            /\ h = heap[k].cnt /\ f = NFields(k) /\ g = NFields(k)' /\ dr = drops[k]
            /\ im = Is(m, k) /\ in = Is(n, k) /\ il = Is(l, k) /\ ir = Is(r, k)
      BY <3>3 DEF Is
    <3>5. heap'[k].cnt = h - f + g - im + in - il - ir + dr
      BY <3>2, <3>4
    <3>6. heap'[k].cnt = h - f + g - im + in - il + 0 - ir + 0 - 0 + dr
      BY <3>5
    <3> QED BY <1>2, <1>3, <1>4, <1>5, <1>6, <3>1, <3>4, <3>6
  <2> QED BY <1>1, <2>1 DEF Recounted, RecountedAs
<1>12. act[c][path].pc \notin {"idle", "held", "done"}
  BY <1>2 DEF Joining
<1> QED BY <1>3, <1>7, <1>8, <1>9, <1>10, <1>11, <1>12, FamilyStep

(* The references of the results become those of m's fields.               *)
LEMMA LinkPreserves ==
  ASSUME IInv, NEW c \in Clients, NEW path \in Paths, Link(c, path),
         UNCHANGED <<given, root, due, left>>
  PROVE  IInv' /\ Persists
<1> DEFINE e == EntryOf(act[c][path])
<1>1. PICK m, l, r : m = act[c][path].m /\ l = Result(c, path, "l") /\ r = Result(c, path, "r")
  OBVIOUS
<1>2. /\ Joins(c, path, m, l, r) /\ act[c][path].pc \in Joining
      /\ act[c][Side(path, "l")].pc = "done" /\ act[c][Side(path, "r")].pc = "done"
      /\ heap' = [heap EXCEPT ![m].es = {e}, ![m].lc = l, ![m].rc = r]
      /\ Finish(c, path, m, NoReferences)
  BY <1>1 DEF Link, Joins, Joined, At, Result, Joining
<1>3. TypeOK /\ NodeShape /\ Exact /\ Base /\ heap \in [Cells -> Nodes] /\ Null \notin Cells
  BY HeapType, TypeFacts, BaseOfIInv DEF IInv
<1>4. /\ m \in Cells /\ m \in Pointers /\ heap[m].kind = "regular" /\ heap[m].cnt = 1
      /\ Len(path) < MaxDepth /\ Unshared(c, Family(path), m)
      /\ Field(m, "l") = Null /\ Field(m, "r") = Null
      /\ Side(path, "l") \in Paths /\ Side(path, "r") \in Paths
  <2>1. act[c][path].pc \in Joining /\ m = act[c][path].m /\ "l" \in Sides /\ "r" \in Sides
    BY <1>1, <1>2 DEF Sides
  <2> QED BY ONLY IInv, <2>1, JoinedFacts DEF is_regular
<1>5. l \in Pointers /\ r \in Pointers
  <2>1. l = act[c][Side(path, "l")].res /\ r = act[c][Side(path, "r")].res
    BY <1>1 DEF Result
  <2> QED BY <1>2, <1>4, <2>1, ResultFacts
<1>6. e \in Nat \X Values
  BY <1>1, <1>3, <1>4, EntryOfType DEF is_regular
<1> HIDE DEF e
<1>7. /\ heap'[m] \in Nodes /\ heap'[m].kind = "regular" /\ heap'[m].cnt = 1
      /\ heap'[m].lc = l /\ heap'[m].rc = r /\ heap'[m].es = {e}
  <2>1. heap[m] \in Nodes /\ {e} \in Contents
    BY <1>3, <1>4, <1>6 DEF Contents
  <2>2. heap'[m] = [[[heap[m] EXCEPT !.es = {e}] EXCEPT !.lc = l] EXCEPT !.rc = r]
    BY <1>2, <1>3, <1>4, <2>1 DEF Nodes
  <2> QED BY <1>4, <1>5, <2>1, <2>2 DEF Nodes
<1>8. \A k \in Cells : k # m => heap'[k] = heap[k]
  BY <1>2, <1>3
<1>9. NoReferences \in [Cells -> Nat]
  BY BagFacts
<1>10. TypeOK'
  <2>1. act' \in [Clients -> [Paths -> Activations]]
    BY <1>2, <1>3, <1>4, <1>9, FinishFacts
  <2>2. heap' \in [Cells -> Nodes]
    BY <1>2, <1>3, <1>7, <1>8
  <2> QED BY <1>3, <2>1, <2>2, TypeOKNext
<1>11. Hollow' = Hollow \ {m}
  BY <1>2, <1>4, <1>9, <1>10, FinishHollow
<1>12. NodeShape'
  <2>1. ASSUME NEW k \in Cells
        PROVE  IF heap'[k].kind = "regular" THEN \E x \in heap'[k].es : heap'[k].es = {x}
                                            ELSE heap'[k].lc = Null /\ heap'[k].rc = Null
    BY <1>3, <1>7, <1>8, NodeShapeOf
  <2> QED BY <2>1 DEF NodeShape, is_regular
<1>13. /\ \A d \in Cells \ {m}, s \in Sides : Field(d, s)' = Field(d, s)
       /\ Field(m, "l")' = l /\ Field(m, "r")' = r
  BY <1>7, <1>8, <1>11 DEF Field, Child, is_regular
<1>14. ASSUME NEW k \in Cells
       PROVE  /\ heap'[k].cnt = heap[k].cnt - NFields(k) + NFields(k)' - Is(m, k) + Is(m, k)
                                  - Is(l, k) - Is(r, k) + NoReferences[k]
              /\ heap'[k].kind = "free" <=> heap'[k].cnt = 0
  <2>1. NFields(k)' = NFields(k) - Is(Null, k) + Is(l, k) - Is(Null, k) + Is(r, k)
    BY <1>4, <1>13, FieldsStep
  <2>2. Is(Null, k) = 0 /\ NoReferences[k] = 0
    BY <1>3, BagFacts DEF Is
  <2>3. PICK h, f, im, il, ir \in Int :
          h = heap[k].cnt /\ f = NFields(k) /\ im = Is(m, k) /\ il = Is(l, k) /\ ir = Is(r, k)
    BY <1>3, CountTypes DEF Nodes, CountsAreNat, Is
  <2>4. heap'[k].cnt = heap[k].cnt /\ heap'[k].kind = heap[k].kind
    BY <1>4, <1>7, <1>8
  <2>5. heap'[k].kind = "free" <=> heap'[k].cnt = 0
    BY <1>3, <2>4 DEF Exact, ref_cnt
  <2>6. heap'[k].cnt = h - f + (f - 0 + il - 0 + ir) - im + im - il - ir + 0
    BY <2>3, <2>4
  <2> QED BY <2>1, <2>2, <2>3, <2>5, <2>6
<1>15. OthersStay(c, path)
  BY <1>4, <1>8 DEF OthersStay
<1>16. RecountedAs(m, l, r, m, NoReferences)
  BY <1>14 DEF RecountedAs
<1> QED BY <1>2, <1>4, <1>9, <1>10, <1>12, <1>15, <1>16, FinishStep

(* The results are to be dropped, m is freed, and a new block is the       *)
(* result.                                                                 *)
LEMMA GatherPreserves ==
  ASSUME IInv, NEW c \in Clients, NEW path \in Paths, Gather(c, path),
         UNCHANGED <<given, root, due, left>>
  PROVE  IInv' /\ Persists
<1>1. PICK m, l, r : m = act[c][path].m /\ l = Result(c, path, "l") /\ r = Result(c, path, "r")
  OBVIOUS
<1> DEFINE es == Elements(l) \union {EntryOf(act[c][path])} \union Elements(r)
           drops == Plus(Reference(l), Reference(r))
<1>2. /\ Joins(c, path, m, l, r) /\ act[c][path].pc \in Joining /\ HasRoom
      /\ act[c][Side(path, "l")].pc = "done" /\ act[c][Side(path, "r")].pc = "done"
      /\ heap' = [heap EXCEPT ![m] = FreeCell, ![Fresh] = Block(es)]
      /\ Finish(c, path, Fresh, drops)
  BY <1>1 DEF Gather, Joins, Joined, At, Result, Joining
<1>3. TypeOK /\ NodeShape /\ Exact /\ Base /\ heap \in [Cells -> Nodes] /\ Null \notin Cells
  BY HeapType, TypeFacts, BaseOfIInv DEF IInv
<1>4. /\ m \in Cells /\ heap[m].kind = "regular" /\ heap[m].cnt = 1
      /\ Len(path) < MaxDepth /\ Unshared(c, Family(path), m)
      /\ Field(m, "l") = Null /\ Field(m, "r") = Null
      /\ Side(path, "l") \in Paths /\ Side(path, "r") \in Paths
  <2>1. act[c][path].pc \in Joining /\ m = act[c][path].m /\ "l" \in Sides /\ "r" \in Sides
    BY <1>1, <1>2 DEF Sides
  <2> QED BY ONLY IInv, <2>1, JoinedFacts DEF is_regular
<1>5. l \in Pointers /\ r \in Pointers
  <2>1. l = act[c][Side(path, "l")].res /\ r = act[c][Side(path, "r")].res
    BY <1>1 DEF Result
  <2> QED BY <1>2, <1>4, <2>1, ResultFacts
<1>6. Block(es) \in Nodes
  <2>1. EntryOf(act[c][path]) \in Nat \X Values
    BY <1>1, <1>3, <1>4, EntryOfType DEF is_regular
  <2>2. Elements(l) \in Contents /\ Elements(r) \in Contents
    BY <1>3, <1>5, ElementsType
  <2>3. es \in Contents
    BY <2>1, <2>2 DEF Contents
  <2> QED BY <2>3, BlockType
<1>7. PICK n \in Cells :
        /\ n = Fresh /\ n \in Pointers /\ heap[n].kind = "free" /\ heap[n].cnt = 0
        /\ Unshared(c, Family(path), n) /\ Field(n, "l") = Null /\ Field(n, "r") = Null
  <2>1. Family(path) \in SUBSET Paths
    BY PathFacts
  <2> QED BY <1>2, <2>1, FreshFacts DEF Pointers, Sides
<1>8. n # m
  BY <1>4, <1>7
<1>9. /\ drops \in [Cells -> Nat] /\ \A k \in Cells : drops[k] = Is(l, k) + Is(r, k)
  BY BagFacts
<1>10. /\ Block(es).kind = "block" /\ Block(es).cnt = 1
       /\ Block(es).lc = Null /\ Block(es).rc = Null
       /\ FreeCell \in Nodes /\ FreeCell.kind = "free" /\ FreeCell.cnt = 0
       /\ FreeCell.lc = Null /\ FreeCell.rc = Null
  BY DEF Block, FreeCell, Nodes, Kinds, Pointers, Contents
<1> HIDE DEF es, drops
<1>11. /\ heap' \in [Cells -> Nodes] /\ heap'[m] = FreeCell /\ heap'[n] = Block(es)
       /\ \A k \in Cells : k # m /\ k # n => heap'[k] = heap[k]
  <2>1. heap' = [heap EXCEPT ![m] = FreeCell, ![n] = Block(es)]
    BY <1>2, <1>7
  <2> QED BY <1>3, <1>4, <1>6, <1>8, <1>10, <2>1
<1>12. TypeOK'
  <2>1. act' \in [Clients -> [Paths -> Activations]]
    BY <1>2, <1>3, <1>4, <1>7, <1>9, FinishFacts
  <2> QED BY <1>3, <1>11, <2>1, TypeOKNext
<1>13. Hollow' = Hollow \ {m}
  BY <1>2, <1>7, <1>9, <1>12, FinishHollow
<1>14. NodeShape'
  <2>1. ASSUME NEW k \in Cells
        PROVE  IF heap'[k].kind = "regular" THEN \E x \in heap'[k].es : heap'[k].es = {x}
                                            ELSE heap'[k].lc = Null /\ heap'[k].rc = Null
    BY <1>3, <1>10, <1>11, NodeShapeOf
  <2> QED BY <2>1 DEF NodeShape, is_regular
<1>15. \A d \in Cells, s \in Sides : Field(d, s)' = Field(d, s)
  <2>1. \A d \in Cells \ {m, n}, s \in Sides : Field(d, s)' = Field(d, s)
    BY <1>11, <1>13 DEF Field, Child, is_regular
  <2>2. \A s \in Sides : Field(m, s)' = Null /\ Field(n, s)' = Null
    BY <1>10, <1>11 DEF Field, is_regular
  <2> QED BY <1>4, <1>7, <2>1, <2>2 DEF Sides
<1>16. ASSUME NEW k \in Cells
       PROVE  /\ heap'[k].cnt = heap[k].cnt - NFields(k) + NFields(k)' - Is(m, k) + Is(n, k)
                                  - Is(l, k) - Is(r, k) + drops[k]
              /\ heap'[k].kind = "free" <=> heap'[k].cnt = 0
  <2>1. NFields(k)' = NFields(k)
    BY <1>15, FieldsSame
  <2>2. PICK h, f, im, i, il, ir \in Int :
          /\ h = heap[k].cnt /\ f = NFields(k) /\ im = Is(m, k) /\ i = Is(n, k)
          /\ il = Is(l, k) /\ ir = Is(r, k)
    BY <1>3, CountTypes DEF Nodes, CountsAreNat, Is
  <2>3. heap'[k].cnt = h - im + i
    BY <1>4, <1>7, <1>8, <1>10, <1>11, <2>2 DEF Is
  <2>4. drops[k] = il + ir
    BY <1>9, <2>2
  <2>5. heap'[k].kind = "free" <=> heap'[k].cnt = 0
    BY <1>3, <1>10, <1>11 DEF Exact, ref_cnt
  <2>6. heap'[k].cnt = h - f + f - im + i - il - ir + (il + ir)
    BY <2>3
  <2> QED BY <2>1, <2>2, <2>4, <2>5, <2>6
<1>17. OthersStay(c, path)
  BY <1>4, <1>7, <1>11 DEF OthersStay
<1>18. RecountedAs(m, l, r, n, drops)
  BY <1>16 DEF RecountedAs
<1> QED BY <1>2, <1>7, <1>9, <1>12, <1>14, <1>17, <1>18, FinishStep

(* The inner child of the spine, the other result and m change places.     *)
LEMMA SpinePreserves ==
  ASSUME IInv, NEW c \in Clients, NEW path \in Paths, NEW s \in Sides, Spine(c, path, s),
         UNCHANGED <<given, root, due, left>>
  PROVE  IInv' /\ Persists
<1> DEFINE e == EntryOf(act[c][path])
           a == act[c][path]
<1>1. PICK m, l, r, t : /\ m = a.m /\ l = Result(c, path, "l") /\ r = Result(c, path, "r")
                        /\ t = Result(c, path, s)
  OBVIOUS
<1>2. /\ TypeOK /\ NodeShape /\ Exact /\ Base /\ heap \in [Cells -> Nodes] /\ Null \notin Cells
      /\ Forking(c, path)
  BY HeapType, TypeFacts, BaseOfIInv DEF IInv
<1>3. /\ a.pc = (IF s = "l" THEN "spine_l" ELSE "spine_r") /\ a.pc \in {"spine_l", "spine_r"}
      /\ a.pc \in Joining /\ a.todo = NoReferences
  <2>1. At(c, path, IF s = "l" THEN "spine_l" ELSE "spine_r")
    BY Zenon DEF Spine
  <2> QED BY <2>1 DEF At, Joining
<1>4. /\ m \in Cells /\ heap[m].kind = "regular" /\ heap[m].cnt = 1
      /\ Len(path) < MaxDepth /\ Unshared(c, Family(path), m)
      /\ Field(m, "l") = Null /\ Field(m, "r") = Null
      /\ Side(path, "l") \in Paths /\ Side(path, "r") \in Paths /\ Owned(a) = m
      /\ \A d \in Clients, q \in Paths : Owned(act[d][q]) = m => d = c /\ q = path
      /\ Side(path, s) \in Paths /\ Side(path, s) # path /\ Side(path, s) \in Family(path)
      /\ \A d \in Cells, w \in Sides : Field(d, w) # m
      /\ m \in Pointers
  <2>1. a.pc \in Joining /\ m = act[c][path].m /\ "l" \in Sides /\ "r" \in Sides
    BY <1>1, <1>3 DEF Sides
  <2>2. /\ s = "l" => Side(path, s) = Side(path, "l")
        /\ s = "r" => Side(path, s) = Side(path, "r")
        /\ s \in {"l", "r"}
    BY DEF Sides
  <2> QED BY ONLY IInv, <2>1, <2>2, JoinedFacts DEF is_regular
<1>5. Joins(c, path, m, l, r)
  BY <1>1, <1>2, <1>3, <1>4 DEF Forking, Joins, Result, Sides
<1>6. l \in Pointers /\ r \in Pointers
  <2>1. l = act[c][Side(path, "l")].res /\ r = act[c][Side(path, "r")].res
    BY <1>1 DEF Result
  <2> QED BY <1>4, <1>5, <2>1, ResultFacts DEF Joins
<1>7. /\ t = act[c][Side(path, s)].res /\ act[c][Side(path, s)].pc = "done"
      /\ t # Null /\ heap[t].kind = "regular" /\ heap[t].cnt = 1
  BY <1>1, <1>2, <1>3, <1>4 DEF Forking, Result, is_regular, ref_cnt
<1>8. t \in Cells /\ t \notin Hollow /\ Owned(act[c][Side(path, s)]) = t /\ t \in Pointers
  BY <1>4, <1>7, ResultFacts
<1>9. t # m /\ Unshared(c, Family(path), t)
  <2>1. t # m
    BY <1>4, <1>8
  <2> QED BY <1>2, <1>4, <1>7, <1>8, <2>1, SoleOwner DEF Unshared, ref_cnt
<1>10. PICK lt \in Pointers, rt \in Pointers : lt = heap[t].lc /\ rt = heap[t].rc
  BY <1>2, <1>8 DEF Nodes
<1>11. Field(t, "l") = lt /\ Field(t, "r") = rt
  BY <1>2, <1>8, <1>10, FieldIsChild DEF Child, Sides
<1>12. e \in Nat \X Values
  BY <1>1, <1>2, <1>4, EntryOfType DEF is_regular
<1>13. Finish(c, path, t, NoReferences) /\ NoReferences \in [Cells -> Nat]
  <2>1. Finish(c, path, Result(c, path, s), NoReferences)
    BY Zenon DEF Spine
  <2> QED BY <1>1, <2>1, BagFacts
\* The children of m, and those of t, are to be these.
<1>14. PICK ml \in Pointers, mr \in Pointers, tl \in Pointers, tr \in Pointers :
         /\ s = "l" => ml = rt /\ mr = r /\ tl = lt /\ tr = m /\ t = l
         /\ s = "r" => ml = l /\ mr = lt /\ tl = m /\ tr = rt /\ t = r
  BY <1>1, <1>4, <1>6 DEF Sides
<1>15. heap' = [heap EXCEPT ![m].es = {e}, ![m].lc = ml, ![m].rc = mr,
                            ![t].lc = IF s = "l" THEN @ ELSE m,
                            ![t].rc = IF s = "l" THEN m ELSE @]
  <2>1. PICK p, q, ll, rr :
          /\ p = act[c][path].m /\ q = Result(c, path, s)
          /\ ll = (IF s = "l" THEN heap[q].rc ELSE Result(c, path, "l"))
          /\ rr = (IF s = "l" THEN Result(c, path, "r") ELSE heap[q].lc)
    OBVIOUS
  <2>2. heap' = [heap EXCEPT ![p].es = {e}, ![p].lc = ll, ![p].rc = rr,
                             ![q].lc = IF s = "l" THEN @ ELSE p,
                             ![q].rc = IF s = "l" THEN p ELSE @]
    BY <2>1, Zenon DEF Spine
  <2>3. p = m /\ q = t /\ ll = ml /\ rr = mr
    BY <1>1, <1>10, <1>14, <2>1 DEF Sides
  <2> HIDE DEF e
  <2> QED BY <2>2, <2>3
<1> HIDE DEF e, a
<1>18. /\ heap' \in [Cells -> Nodes]
       /\ heap'[t].kind = "regular" /\ heap'[t].cnt = 1
       /\ heap'[t].lc = tl /\ heap'[t].rc = tr /\ heap'[t].es = heap[t].es
       /\ heap'[m].kind = "regular" /\ heap'[m].cnt = 1
       /\ heap'[m].lc = ml /\ heap'[m].rc = mr /\ heap'[m].es = {e}
       /\ \A k \in Cells : k # m /\ k # t => heap'[k] = heap[k]
  <2>1. heap[t] \in Nodes /\ heap[m] \in Nodes /\ {e} \in Contents
    BY <1>2, <1>4, <1>8, <1>12 DEF Contents
  <2>2. heap'[m] = [[[heap[m] EXCEPT !.es = {e}] EXCEPT !.lc = ml] EXCEPT !.rc = mr]
    BY <1>2, <1>4, <1>9, <1>15
  <2>3. heap'[t] = [[heap[t] EXCEPT !.lc = tl] EXCEPT !.rc = tr]
    <3>1. heap'[t] = [[heap[t] EXCEPT !.lc = IF s = "l" THEN heap[t].lc ELSE m]
                               EXCEPT !.rc = IF s = "l" THEN m ELSE heap[t].rc]
      BY <1>2, <1>8, <1>9, <1>15, <2>1 DEF Nodes
    <3>2. /\ tl = (IF s = "l" THEN heap[t].lc ELSE m)
          /\ tr = (IF s = "l" THEN m ELSE heap[t].rc)
      BY <1>10, <1>14 DEF Sides
    <3> QED BY <3>1, <3>2
  <2>4. \A k \in Cells : k # m /\ k # t => heap'[k] = heap[k]
    BY <1>2, <1>15
  <2>5. /\ heap'[m] \in Nodes /\ heap'[m].kind = "regular" /\ heap'[m].cnt = 1
        /\ heap'[m].lc = ml /\ heap'[m].rc = mr /\ heap'[m].es = {e}
    BY <1>4, <2>1, <2>2 DEF Nodes
  <2>6. /\ heap'[t] \in Nodes /\ heap'[t].kind = "regular" /\ heap'[t].cnt = 1
        /\ heap'[t].lc = tl /\ heap'[t].rc = tr /\ heap'[t].es = heap[t].es
    BY <1>7, <2>1, <2>3 DEF Nodes
  <2>7. heap' \in [Cells -> Nodes]
    BY <1>2, <1>15, <2>4, <2>5, <2>6
  <2> QED BY <2>4, <2>5, <2>6, <2>7
<1>19. /\ heap'[m].kind = "regular" /\ heap'[m].cnt = 1
       /\ heap'[m].lc = ml /\ heap'[m].rc = mr /\ heap'[m].es = {e}
       /\ \A k \in Cells : k # m /\ k # t => heap'[k] = heap[k]
  BY <1>18
<1>20. TypeOK'
  <2>1. act' \in [Clients -> [Paths -> Activations]]
    BY <1>2, <1>4, <1>8, <1>13, FinishFacts
  <2> QED BY <1>2, <1>18, <2>1, TypeOKNext
<1>21. Hollow' = Hollow \ {m}
  BY <1>5, <1>8, <1>13, <1>20, FinishHollow
<1>22. NodeShape'
  <2>1. ASSUME NEW k \in Cells
        PROVE  IF heap'[k].kind = "regular" THEN \E x \in heap'[k].es : heap'[k].es = {x}
                                            ELSE heap'[k].lc = Null /\ heap'[k].rc = Null
    <3>1. CASE k = m
      BY <1>19, <3>1
    <3>2. CASE k # m
      BY <1>2, <1>7, <1>18, <1>19, <3>2, NodeShapeOf
    <3> QED BY <3>1, <3>2
  <2> QED BY <2>1 DEF NodeShape, is_regular
<1>23. /\ \A d \in Cells \ {m, t}, w \in Sides : Field(d, w)' = Field(d, w)
       /\ Field(m, "l")' = ml /\ Field(m, "r")' = mr
       /\ Field(t, "l")' = tl /\ Field(t, "r")' = tr
  <2>1. \A d \in Cells \ {m, t}, w \in Sides : Field(d, w)' = Field(d, w)
    BY <1>19, <1>21 DEF Field, Child, is_regular
  <2>2. m \notin Hollow' /\ t \notin Hollow'
    BY <1>8, <1>21
  <2> QED BY <1>18, <1>19, <2>1, <2>2 DEF Field, Child, is_regular
<1>24. ASSUME NEW k \in Cells
       PROVE  /\ heap'[k].cnt = heap[k].cnt - NFields(k) + NFields(k)' - Is(m, k) + Is(t, k)
                                  - Is(l, k) - Is(r, k) + NoReferences[k]
              /\ heap'[k].kind = "free" <=> heap'[k].cnt = 0
  <2>1. PICK h, f, im, il, ir, i, j \in Int :
          /\ h = heap[k].cnt /\ f = NFields(k) /\ im = Is(m, k) /\ il = Is(l, k) /\ ir = Is(r, k)
          /\ i = Is(lt, k) /\ j = Is(rt, k)
    BY <1>2, CountTypes DEF Nodes, CountsAreNat, Is
  <2>2. Is(Null, k) = 0 /\ NoReferences[k] = 0
    BY <1>2, BagFacts DEF Is
  <2>3. heap'[k].cnt = h /\ heap'[k].kind = heap[k].kind
    BY <1>4, <1>7, <1>18, <1>19, <2>1
  <2>4. heap'[k].kind = "free" <=> heap'[k].cnt = 0
    BY <1>2, <2>1, <2>3 DEF Exact, ref_cnt
  <2>5. CASE s = "l"
    <3>1. \A d \in Cells, w \in Sides : d # m /\ <<d, w>> # <<t, "r">> => Field(d, w)' = Field(d, w)
      BY <1>11, <1>14, <1>23, <2>5 DEF Sides
    <3>2. NFields(k)' = NFields(k) - Is(Field(m, "l"), k) + Is(Field(m, "l")', k)
                                   - Is(Field(m, "r"), k) + Is(Field(m, "r")', k)
                                   - Is(Field(t, "r"), k) + Is(Field(t, "r")', k)
      BY <1>4, <1>8, <1>9, <3>1, FieldsStep2 DEF Sides
    <3>3. NFields(k)' = f - 0 + j - 0 + ir - j + im
      BY <1>4, <1>11, <1>14, <1>23, <2>1, <2>2, <2>5, <3>2
    <3>4. Is(t, k) = il
      BY <1>14, <2>1, <2>5
    <3>5. h = h - f + (f - 0 + j - 0 + ir - j + im) - im + il - il - ir + 0
      OBVIOUS
    <3>6. heap'[k].cnt = h - f + NFields(k)' - im + Is(t, k) - il - ir + NoReferences[k]
      BY <2>2, <2>3, <3>3, <3>4, <3>5
    <3> QED BY <2>1, <2>4, <3>6
  <2>6. CASE s = "r"
    <3>1. \A d \in Cells, w \in Sides : d # m /\ <<d, w>> # <<t, "l">> => Field(d, w)' = Field(d, w)
      BY <1>11, <1>14, <1>23, <2>6 DEF Sides
    <3>2. NFields(k)' = NFields(k) - Is(Field(m, "l"), k) + Is(Field(m, "l")', k)
                                   - Is(Field(m, "r"), k) + Is(Field(m, "r")', k)
                                   - Is(Field(t, "l"), k) + Is(Field(t, "l")', k)
      BY <1>4, <1>8, <1>9, <3>1, FieldsStep2 DEF Sides
    <3>3. NFields(k)' = f - 0 + il - 0 + i - i + im
      BY <1>4, <1>11, <1>14, <1>23, <2>1, <2>2, <2>6, <3>2
    <3>4. Is(t, k) = ir
      BY <1>14, <2>1, <2>6
    <3>5. h = h - f + (f - 0 + il - 0 + i - i + im) - im + ir - il - ir + 0
      OBVIOUS
    <3>6. heap'[k].cnt = h - f + NFields(k)' - im + Is(t, k) - il - ir + NoReferences[k]
      BY <2>2, <2>3, <3>3, <3>4, <3>5
    <3> QED BY <2>1, <2>4, <3>6
  <2> QED BY <2>5, <2>6 DEF Sides
<1>25. RecountedAs(m, l, r, t, NoReferences)
  BY <1>24 DEF RecountedAs
<1>26. OthersStay(c, path)
  BY <1>4, <1>9, <1>19 DEF OthersStay
<1> QED BY <1>5, <1>8, <1>13, <1>20, <1>22, <1>25, <1>26, FinishStep

-----------------------------------------------------------------------------
(* Forking.                                                                *)

(* What replacing an activation and its branches does.                     *)
LEMMA FamilyFacts ==
  ASSUME TypeOK, NEW c \in Clients, NEW path \in Paths, Len(path) < MaxDepth,
         NEW x \in Activations, NEW y \in Activations, NEW z \in Activations,
         act' = [act EXCEPT ![c][path] = x, ![c][Side(path, "l")] = y, ![c][Side(path, "r")] = z]
  PROVE  /\ act' \in [Clients -> [Paths -> Activations]]
         /\ act'[c][path] = x /\ act'[c][Side(path, "l")] = y /\ act'[c][Side(path, "r")] = z
         /\ \A d \in Clients, q \in Paths : d # c \/ q \notin Family(path) => act'[d][q] = act[d][q]
<1>1. PICK l \in Paths, r \in Paths :
        /\ l = Side(path, "l") /\ r = Side(path, "r") /\ l # r /\ l # path /\ r # path
        /\ Family(path) = {path, l, r}
  BY PathFacts
<1>2. act \in [Clients -> [Paths -> Activations]]
  BY DEF TypeOK, Activations
<1>3. act' = [act EXCEPT ![c][path] = x, ![c][l] = y, ![c][r] = z]
  BY <1>1
<1>4. /\ act'[c][path] = x /\ act'[c][l] = y /\ act'[c][r] = z
      /\ \A d \in Clients, q \in Paths : d # c \/ q \notin {path, l, r} => act'[d][q] = act[d][q]
  BY <1>1, <1>2, <1>3
<1>5. act' \in [Clients -> [Paths -> Activations]]
  <2>1. PICK f \in [Clients -> [Paths -> Activations]] : f = [act EXCEPT ![c][path] = x]
    BY <1>2
  <2>2. PICK g \in [Clients -> [Paths -> Activations]] : g = [f EXCEPT ![c][l] = y]
    BY <2>1
  <2>3. act' = [g EXCEPT ![c][r] = z]
    BY <1>3, <2>1, <2>2
  <2>4. [g[c] EXCEPT ![r] = z] \in [Paths -> Activations]
    BY <1>1
  <2> QED BY <2>3, <2>4
<1> QED BY <1>1, <1>4, <1>5

(* What a branch starts with.                                              *)
LEMMA LentFacts ==
  ASSUME TypeOK, NEW n \in Pointers, NEW extra \in BOOLEAN, NEW es \in Contents, NEW e,
         NEW s \in Sides, NEW pc \in {"held", "enter"},
         NEW b, b = [Entering(n, extra, Part(es, e, s)) EXCEPT !.pc = pc]
  PROVE  /\ b \in Activations /\ b.pc = pc /\ b.p = n /\ b.extra = extra /\ b.todo = NoReferences
         /\ Owned(b) = (IF extra THEN Null ELSE n) /\ JoinsWith(b) = Null
<1>1. Part(es, e, s) \in Contents
  BY DEF Part, Contents
<1>2. Idle \in Activations /\ Idle.todo = NoReferences
  BY BagFacts DEF Idle, Activations, PCs, Pointers, Contents
<1>3. b \in Activations /\ b.pc = pc /\ b.p = n /\ b.extra = extra /\ b.todo = NoReferences
  BY <1>1, <1>2 DEF Entering, Activations, PCs
<1> QED BY <1>3 DEF Owned, JoinsWith, Joining

(* Trees are the same if the heap is.                                      *)
LEMMA UnderSame ==
  ASSUME TypeOK, TypeOK', heap' = heap, NEW n \in Pointers
  PROVE  Under(n)' = Under(n)
BY UnderStays DEF TypeOK, HeapClosed

(* What variables keep is the same if they and the heap are.               *)
LEMMA KeptSame ==
  ASSUME TypeOK, TypeOK', heap' = heap, root' = root, NEW c \in Clients
  PROVE  Kept(c)' = Kept(c)
<1>1. PICK x \in Pointers, y \in Pointers : x = root[c]["x"] /\ y = root[c]["y"]
  BY TypeFacts DEF Names
<1>2. Under(x)' = Under(x) /\ Under(y)' = Under(y)
  BY UnderSame
<1> QED BY <1>1, <1>2 DEF Kept

(* A branch that takes a child over.                                       *)
LEMMA UnderChild ==
  ASSUME TypeOK, NEW n \in Cells, NEW s \in Sides
  PROVE  /\ Child(n, s) \in Pointers
         /\ Under(Child(n, s)) \subseteq Under(n)
<1>1. HeapClosed /\ n \in Pointers /\ n # Null /\ Child(n, s) \in Pointers
  BY TypeFacts DEF Pointers
<1>2. Under(n) \in SUBSET Cells /\ n \in Under(n) /\ IsClosed(Under(n))
  BY <1>1, UnderFacts DEF UnderIsLeast
<1>3. Child(n, s) \in Under(n) \union {Null}
  BY <1>2 DEF IsClosed, Child
<1> QED BY <1>1, <1>2, <1>3, UnderFacts DEF UnderIsLeast

(* A node that is taken over hands its references to its children to the   *)
(* branches; one that is copied lends them, and the client's variables     *)
(* keep it, its children with it, for the rest of the call.                *)
LEMMA ExposePreserves ==
  ASSUME IInv, NEW c \in Clients, NEW path \in Paths, Expose(c, path),
         UNCHANGED <<given, root, due, left>>
  PROVE  IInv' /\ Persists
<1> DEFINE a == act[c][path]
           copy == RequiresCopy(a.p, a.extra)
           Lent(s) == [Entering(Child(a.p, s), copy, Part(a.es, get_entry(a.p), s))
                         EXCEPT !.pc = IF copy THEN "held" ELSE "enter"]
           taken == [a EXCEPT !.pc = "fork", !.p = Null, !.m = a.p]
           lending == [a EXCEPT !.pc = "single", !.extra = TRUE,
                                !.todo = IF a.extra THEN NoReferences ELSE Reference(a.p)]
<1>1. /\ TypeOK /\ NodeShape /\ Exact /\ Base /\ a \in Activations /\ Null \notin Cells
      /\ Forking(c, path) /\ Borrowing(c, path) /\ TakingOver(c, path)
  BY ActivationType, TypeFacts, BaseOfIInv DEF IInv
<1>2. a.pc = "enter" /\ a.todo = NoReferences /\ a.p # Null /\ is_regular(a.p) /\ Len(path) < MaxDepth
  BY DEF Expose, At
<1>3. PICK l \in Paths, r \in Paths, p \in Cells :
        /\ l = Side(path, "l") /\ r = Side(path, "r") /\ l # r /\ l # path /\ r # path
        /\ Family(path) = {path, l, r} /\ p = a.p /\ p \in Pointers
  <2>1. a.p \in Cells /\ a.p \in Pointers
    BY <1>1, <1>2 DEF Activations, Pointers
  <2> QED BY <1>2, <2>1, PathFacts
<1>4. act[c][l] = Idle /\ act[c][r] = Idle
  BY <1>1, <1>2, <1>3 DEF Forking, Joining, Sides
<1>5. heap' = heap /\ root' = root /\ copy \in BOOLEAN
  BY DEF Expose, RequiresCopy
<1>6. act' = [act EXCEPT ![c][path] = IF copy THEN lending ELSE taken,
                         ![c][Side(path, "l")] = Lent("l"), ![c][Side(path, "r")] = Lent("r")]
  BY DEF Expose
<1>7. PICK pl \in Pointers, pr \in Pointers :
        pl = Child(p, "l") /\ pr = Child(p, "r")
  BY <1>1, TypeFacts DEF Sides
<1>8. \A s \in Sides : /\ Lent(s) \in Activations /\ Lent(s).pc = (IF copy THEN "held" ELSE "enter")
                       /\ Lent(s).p = Child(p, s) /\ Lent(s).extra = copy
                       /\ Lent(s).todo = NoReferences
                       /\ Owned(Lent(s)) = (IF copy THEN Null ELSE Child(p, s))
                       /\ JoinsWith(Lent(s)) = Null
  <2>1. ASSUME NEW s \in Sides
        PROVE  Child(p, s) \in Pointers /\ a.es \in Contents
    BY <1>1, TypeFacts DEF Activations
  <2>2. PICK pc \in {"held", "enter"} : pc = IF copy THEN "held" ELSE "enter"
    OBVIOUS
  <2>3. PICK e : e = get_entry(a.p)
    OBVIOUS
  <2>4. ASSUME NEW s \in Sides
        PROVE  Lent(s) = [Entering(Child(p, s), copy, Part(a.es, e, s)) EXCEPT !.pc = pc]
    BY <1>3, <2>2, <2>3
  <2> HIDE DEF Lent, copy, a
  <2>5. ASSUME NEW s \in Sides
        PROVE  /\ Lent(s) \in Activations /\ Lent(s).pc = pc /\ Lent(s).p = Child(p, s)
               /\ Lent(s).extra = copy /\ Lent(s).todo = NoReferences
               /\ Owned(Lent(s)) = (IF copy THEN Null ELSE Child(p, s)) /\ JoinsWith(Lent(s)) = Null
    BY <1>1, <1>5, <2>1, <2>4, LentFacts
  <2> QED BY <2>2, <2>5
<1>9. taken \in Activations /\ lending \in Activations
  BY <1>1, <1>3, BagFacts DEF Activations, PCs, Pointers
<1>10. /\ taken.pc = "fork" /\ taken.m = p /\ taken.todo = NoReferences
       /\ lending.pc = "single" /\ lending.extra = TRUE /\ lending.p = p
       /\ lending.todo = IF a.extra THEN NoReferences ELSE Reference(p)
  BY <1>1, <1>2, <1>3 DEF Activations
<1>11. Owned(a) = IF a.extra THEN Null ELSE p
  BY <1>2, <1>3 DEF Owned
<1> HIDE DEF a, taken, lending, Lent, copy
<1>12. /\ act' \in [Clients -> [Paths -> Activations]]
       /\ act'[c][path] = IF copy THEN lending ELSE taken
       /\ act'[c][l] = Lent("l") /\ act'[c][r] = Lent("r")
       /\ \A d \in Clients, q \in Paths : d # c \/ q \notin Family(path) => act'[d][q] = act[d][q]
  <2>1. /\ (IF copy THEN lending ELSE taken) \in Activations
        /\ Lent("l") \in Activations /\ Lent("r") \in Activations
    BY <1>8, <1>9 DEF Sides
  <2>2. PICK x \in Activations, y \in Activations, z \in Activations :
          x = (IF copy THEN lending ELSE taken) /\ y = Lent("l") /\ z = Lent("r")
    BY <2>1
  <2>3. act' = [act EXCEPT ![c][path] = x, ![c][Side(path, "l")] = y, ![c][Side(path, "r")] = z]
    BY <1>6, <2>2
  <2>4. /\ act' \in [Clients -> [Paths -> Activations]]
        /\ act'[c][path] = x /\ act'[c][Side(path, "l")] = y /\ act'[c][Side(path, "r")] = z
        /\ \A d \in Clients, q \in Paths : d # c \/ q \notin Family(path) => act'[d][q] = act[d][q]
    BY <1>1, <1>2, <2>3, FamilyFacts
  <2> QED BY <1>3, <2>2, <2>4
<1>13. TypeOK'
  BY <1>1, <1>5, <1>12, HeapType, TypeOKNext
<1>14. NodeShape'
  BY <1>1, <1>5 DEF NodeShape, is_regular
<1>15. \A n \in Cells : heap'[n].kind = "free" <=> heap'[n].cnt = 0
  BY <1>1, <1>5 DEF Exact, ref_cnt
<1>16. Harmless(c, Family(path))
  BY <1>5, <1>12 DEF Harmless, GoesOn
<1>17. FamilyMoves(c, path)
  <2>1. \A s \in Sides : /\ act[c][Side(path, s)] = Idle
                         /\ act'[c][Side(path, s)] = Lent(s)
    BY <1>3, <1>4, <1>12 DEF Sides
  <2> QED BY <1>8, <1>12, <2>1, IdleFacts DEF FamilyMoves, Joining
<1>18. act[c][path].pc \notin {"idle", "held", "done"}
  BY <1>2 DEF a
<1>19. JoinsWith(act[c][path]) = Null /\ JoinsWith(act[c][l]) = Null /\ JoinsWith(act[c][r]) = Null
  BY <1>2, <1>4, IdleFacts DEF a, JoinsWith, Joining
<1>20. \A d \in Clients, q \in Paths :
         d # c \/ q # path => JoinsWith(act'[d][q]) = JoinsWith(act[d][q])
  BY <1>3, <1>8, <1>12, <1>19 DEF Sides
<1>21. Null \notin Hollow
  BY <1>1 DEF Hollow
<1>22. Kept(c)' = Kept(c)
  BY <1>1, <1>5, <1>13, KeptSame
<1>23. \A n \in Cells : /\ Is(Null, n) = 0 /\ NoReferences[n] = 0
                        /\ act[c][path].todo[n] = 0
                        /\ Owned(act[c][l]) = Null /\ Owned(act[c][r]) = Null
  BY <1>1, <1>2, <1>4, BagFacts, IdleFacts DEF Is, a
<1>24. heap[p].kind = "regular" /\ p \notin Hollow
  <2>1. a.pc \notin Joining
    BY <1>2 DEF Joining
  <2>2. p \notin Hollow
    <3>1. CASE ~a.extra
      BY <1>1, <1>11, <2>1, <3>1, HollowFacts DEF a
    <3>2. CASE a.extra
      <4>1. p \in Kept(c)
        BY <1>1, <1>2, <1>3, <3>2 DEF Borrowing, Borrows, a
      <4> QED BY <1>1, <4>1, KeptFacts
    <3> QED BY <3>1, <3>2
  <2> QED BY <1>2, <1>3, <2>2 DEF is_regular
<1>25. Field(p, "l") = pl /\ Field(p, "r") = pr
  BY <1>1, <1>7, <1>24, FieldIsChild DEF Sides
<1>26. CASE ~copy
  <2>1. heap[p].cnt = 1 /\ ~a.extra
    <3>1. ~a.extra /\ ~(heap[p].cnt > 1)
      BY <1>3, <1>26 DEF copy, RequiresCopy, ref_cnt
    <3>2. heap[p].cnt >= 1 /\ heap[p].cnt \in Nat
      BY <1>1, <1>11, <3>1, CountBounds, TypeFacts DEF a, ref_cnt
    <3> QED BY <3>1, <3>2
  <2>2. Owned(taken) = p /\ JoinsWith(taken) = p
    BY <1>10 DEF Owned, JoinsWith, Joining
  <2>3. Hollow' = Hollow \union {p}
    <3>1. JoinsWith(act'[c][path]) = p
      BY <1>12, <1>26, <2>2
    <3>2. Hollow' = (Hollow \ {Null}) \union ({p} \ {Null})
      BY <1>1, <1>13, <1>19, <1>20, <3>1, HollowStep
    <3> QED BY <1>1, <1>21, <3>2
  <2>4. /\ \A d \in Cells \ {p}, s \in Sides : Field(d, s)' = Field(d, s)
        /\ Field(p, "l")' = Null /\ Field(p, "r")' = Null
    BY <1>5, <2>3 DEF Field, Child, is_regular
  <2>5. Recounted(c, path)
    <3>1. ASSUME NEW n \in Cells
          PROVE  heap'[n].cnt = heap[n].cnt - NFields(n) + NFields(n)'
                   - Is(Owned(act[c][path]), n) + Is(Owned(act'[c][path]), n)
                   - Is(Owned(act[c][l]), n) + Is(Owned(act'[c][l]), n)
                   - Is(Owned(act[c][r]), n) + Is(Owned(act'[c][r]), n)
                   - act[c][path].todo[n] + act'[c][path].todo[n]
      <4>1. NFields(n)' = NFields(n) - Is(pl, n) + Is(Null, n) - Is(pr, n) + Is(Null, n)
        BY <1>25, <2>4, FieldsStep
      <4>2. PICK h, f, i, j, k \in Int :
              h = heap[n].cnt /\ f = NFields(n) /\ i = Is(pl, n) /\ j = Is(pr, n) /\ k = Is(p, n)
        BY <1>1, CountTypes, TypeFacts DEF CountsAreNat, ref_cnt, Is
      <4>3. Owned(act[c][path]) = p /\ Owned(act'[c][path]) = p
        BY <1>11, <1>12, <1>26, <2>1, <2>2 DEF a
      <4>4. Owned(act'[c][l]) = pl /\ Owned(act'[c][r]) = pr
        BY <1>7, <1>8, <1>12, <1>26 DEF Sides
      <4>5. act'[c][path].todo[n] = 0
        BY <1>10, <1>12, <1>23, <1>26
      <4>6. h = h - f + (f - i + 0 - j + 0) - k + k - 0 + i - 0 + j - 0 + 0
        OBVIOUS
      <4> QED BY <1>5, <1>23, <4>1, <4>2, <4>3, <4>4, <4>5, <4>6
    <3> QED BY <1>3, <1>15, <3>1 DEF Recounted
  <2>6. FamilyHolds(c, path)
    <3>1. Holding(c, path)' /\ Borrowing(c, path)' /\ TakingOver(c, path)'
      BY <1>1, <1>2, <1>5, <1>10, <1>12, <1>24, <1>26, <2>1
         DEF Holding, Borrowing, Borrows, TakingOver, Joining, is_regular, ref_cnt
    <3>2. ASSUME NEW s \in Sides
          PROVE  LET q == Side(path, s) IN Holding(c, q)' /\ Borrowing(c, q)' /\ TakingOver(c, q)'
      <4>1. PICK q : q = Side(path, s)
        OBVIOUS
      <4>2. /\ act'[c][q].pc = "enter" /\ act'[c][q].extra = FALSE
            /\ act'[c][q].p = Child(p, s)
        BY <1>3, <1>8, <1>12, <1>26, <4>1 DEF Sides
      <4>3. Holding(c, q)' /\ Borrowing(c, q)'
        BY <4>2 DEF Holding, Borrowing, Borrows, Joining
      <4>4. PICK w \in Pointers : w = Child(p, s) /\ Under(w) \subseteq Under(p)
        BY <1>1, UnderChild
      <4>5. \A n \in Under(w) : n \in Kept(c) \/ heap[n].cnt = 1
        BY <1>1, <1>2, <1>3, <2>1, <4>4 DEF TakingOver, ref_cnt, a
      <4>6. Under(w)' = Under(w)
        BY <1>1, <1>5, <1>13, UnderSame
      <4>7. TakingOver(c, q)'
        BY <1>5, <1>22, <4>2, <4>4, <4>5, <4>6 DEF TakingOver, ref_cnt
      <4> QED BY <4>1, <4>3, <4>7
    <3> QED BY <1>3, <3>1, <3>2 DEF FamilyHolds, Sides
  <2>7. Forking(c, path)'
    BY <1>10, <1>12, <1>26 DEF Forking, Joining
  <2> QED BY <1>2, <1>5, <1>13, <1>14, <1>16, <1>17, <1>18, <2>5, <2>6, <2>7, FamilyStep
<1>27. CASE copy
  <2>1. p \in Kept(c)
    <3>1. CASE a.extra
      BY <1>1, <1>2, <1>3, <3>1 DEF Borrowing, Borrows, a
    <3>2. CASE ~a.extra
      <4>1. heap[p].cnt > 1
        BY <1>3, <1>27, <3>2 DEF copy, RequiresCopy, ref_cnt
      <4>2. p \in Under(p)
        BY <1>1, <1>3, TypeFacts, UnderFacts DEF UnderIsLeast
      <4> QED BY <1>1, <1>2, <1>3, <3>2, <4>1, <4>2 DEF TakingOver, ref_cnt, a
    <3> QED BY <3>1, <3>2
  <2>2. Owned(lending) = Null /\ JoinsWith(lending) = Null
    BY <1>10 DEF Owned, JoinsWith, Joining
  <2>3. Hollow' = Hollow
    <3>1. \A d \in Clients, q \in Paths : JoinsWith(act'[d][q]) = JoinsWith(act[d][q])
      BY <1>12, <1>19, <1>20, <1>27, <2>2
    <3> QED BY <1>1, <1>13, <3>1, SameHollow
  <2>4. \A d \in Cells, s \in Sides : Field(d, s)' = Field(d, s)
    BY <1>5, <2>3 DEF Field, Child, is_regular
  <2>5. Recounted(c, path)
    <3>1. ASSUME NEW n \in Cells
          PROVE  heap'[n].cnt = heap[n].cnt - NFields(n) + NFields(n)'
                   - Is(Owned(act[c][path]), n) + Is(Owned(act'[c][path]), n)
                   - Is(Owned(act[c][l]), n) + Is(Owned(act'[c][l]), n)
                   - Is(Owned(act[c][r]), n) + Is(Owned(act'[c][r]), n)
                   - act[c][path].todo[n] + act'[c][path].todo[n]
      <4>1. NFields(n)' = NFields(n)
        BY <2>4, FieldsSame
      <4>2. PICK h, f, k \in Int :
              h = heap[n].cnt /\ f = NFields(n) /\ k = Is(Owned(act[c][path]), n)
        BY <1>1, CountTypes, TypeFacts DEF CountsAreNat, ref_cnt, Is
      <4>3. act'[c][path].todo[n] = k
        <5>1. CASE a.extra
          BY <1>10, <1>11, <1>12, <1>23, <1>27, <4>2, <5>1 DEF a
        <5>2. CASE ~a.extra
          BY <1>10, <1>11, <1>12, <1>27, <4>2, <5>2, BagFacts DEF a
        <5> QED BY <5>1, <5>2
      <4>4. Is(Owned(act'[c][path]), n) = 0 /\ Is(Owned(act'[c][l]), n) = 0 /\ Is(Owned(act'[c][r]), n) = 0
        BY <1>8, <1>12, <1>23, <1>27, <2>2 DEF Sides
      <4>5. h = h - f + f - k + 0 - 0 + 0 - 0 + 0 - 0 + k
        OBVIOUS
      <4> QED BY <1>5, <1>23, <4>1, <4>2, <4>3, <4>4, <4>5
    <3> QED BY <1>3, <1>15, <3>1 DEF Recounted
  <2>6. FamilyHolds(c, path)
    <3>1. Holding(c, path)' /\ Borrowing(c, path)' /\ TakingOver(c, path)'
      BY <1>1, <1>2, <1>5, <1>10, <1>12, <1>22, <1>24, <1>27, <2>1
         DEF Holding, Borrowing, Borrows, TakingOver, Joining, is_regular, ref_cnt
    <3>2. ASSUME NEW s \in Sides
          PROVE  LET q == Side(path, s) IN Holding(c, q)' /\ Borrowing(c, q)' /\ TakingOver(c, q)'
      <4>1. PICK q : q = Side(path, s)
        OBVIOUS
      <4>2. /\ act'[c][q].pc = "held" /\ act'[c][q].extra = TRUE
            /\ act'[c][q].p = Child(p, s)
        BY <1>3, <1>8, <1>12, <1>27, <4>1 DEF Sides
      <4>3. Field(p, s) = Child(p, s)
        BY <1>1, <1>24, FieldIsChild
      <4>4. Child(p, s) \in Kept(c) \union {Null}
        BY <1>1, <2>1, <4>3, KeptFacts
      <4>5. Borrowing(c, q)'
        BY <1>1, <1>22, <4>2, <4>4 DEF Borrowing, Borrows
      <4>6. Holding(c, q)' /\ TakingOver(c, q)'
        BY <4>2 DEF Holding, TakingOver, Joining
      <4> QED BY <4>1, <4>5, <4>6
    <3> QED BY <1>3, <3>1, <3>2 DEF FamilyHolds, Sides
  <2>7. Forking(c, path)'
    <3>1. \A s \in Sides : /\ act'[c][Side(path, s)].pc = "held" /\ act'[c][Side(path, s)].extra
                           /\ act'[c][Side(path, s)].todo = NoReferences
      BY <1>3, <1>8, <1>12, <1>27 DEF Sides
    <3>2. act'[c][path].pc = "single"
      BY <1>10, <1>12, <1>27
    <3> QED BY <3>1, <3>2 DEF Forking, Joining
  <2> QED BY <1>2, <1>5, <1>13, <1>14, <1>16, <1>17, <1>18, <2>5, <2>6, <2>7, FamilyStep
<1> QED BY <1>26, <1>27

(* The new node is the activation's, and the branches may start.           *)
LEMMA SinglePreserves ==
  ASSUME IInv, NEW c \in Clients, NEW path \in Paths, Single(c, path),
         UNCHANGED <<given, root, due, left>>
  PROVE  IInv' /\ Persists
<1> DEFINE a == act[c][path]
           b == [a EXCEPT !.pc = "fork", !.p = Null, !.extra = FALSE, !.m = Fresh]
           Entered(q) == [act[c][q] EXCEPT !.pc = "enter"]
<1>1. /\ TypeOK /\ NodeShape /\ Exact /\ Base /\ a \in Activations /\ Null \notin Cells
      /\ heap \in [Cells -> Nodes] /\ act \in [Clients -> [Paths -> Activations]]
      /\ Forking(c, path) /\ Holding(c, path)
      /\ \A q \in Paths : Borrowing(c, q)
  BY ActivationType, HeapType, TypeFacts, BaseOfIInv DEF IInv, TypeOK, Activations
<1>2. a.pc = "single" /\ a.todo = NoReferences /\ HasRoom
  BY DEF Single, At
<1>3. PICK l \in Paths, r \in Paths :
        /\ l = Side(path, "l") /\ r = Side(path, "r") /\ l # r /\ l # path /\ r # path
        /\ Family(path) = {path, l, r} /\ Len(path) < MaxDepth
  BY <1>1, <1>2, PathFacts DEF Holding
<1>4. PICK k \in Cells : k = Fresh /\ k \in Pointers
  BY <1>2, FreshFacts DEF Pointers
<1>5. /\ heap[k].kind = "free" /\ heap[k].cnt = 0 /\ k # Null
      /\ \A d \in Clients, P \in SUBSET Paths : Unshared(d, P, k)
      /\ \A s \in Sides : Field(k, s) = Null
  BY <1>2, <1>4, FreshFacts
<1>6. \A q \in {l, r} : /\ act[c][q] \in Activations /\ act[c][q].pc = "held" /\ act[c][q].extra
                        /\ act[c][q].todo = NoReferences
  BY <1>1, <1>2, <1>3 DEF Forking, Sides
<1>7. PICK o : o = Regular(get_entry(a.p), Null, Null)
  OBVIOUS
<1>8. heap' = [heap EXCEPT ![k] = o]
  BY <1>4, <1>7 DEF Single
<1>9. act' = [act EXCEPT ![c][path] = b, ![c][Side(path, "l")].pc = "enter", ![c][Side(path, "r")].pc = "enter"]
  BY DEF Single
<1>10. /\ o \in Nodes /\ o.kind = "regular" /\ o.cnt = 1 /\ o.lc = Null /\ o.rc = Null
       /\ \E e \in o.es : o.es = {e}
  <2>1. a.p \in Cells /\ is_regular(a.p)
    BY <1>1, <1>2 DEF Holding, Activations, Pointers
  <2>2. get_entry(a.p) \in Nat \X Values
    BY <1>1, <2>1, EntryType
  <2> QED BY <1>7, <2>2 DEF Regular, Nodes, Kinds, Contents, Pointers
<1>11. b \in Activations /\ b.pc = "fork" /\ b.m = k /\ b.todo = NoReferences
  BY <1>1, <1>2, <1>4 DEF Activations, PCs, Pointers
<1>12. \A q \in {l, r} : /\ Entered(q) \in Activations /\ Entered(q).pc = "enter" /\ Entered(q).extra
                         /\ Entered(q).p = act[c][q].p /\ Entered(q).todo = NoReferences
                         /\ Owned(Entered(q)) = Null /\ JoinsWith(Entered(q)) = Null
                         /\ Owned(act[c][q]) = Null /\ JoinsWith(act[c][q]) = Null
  <2>1. ASSUME NEW q \in {l, r}
        PROVE  /\ Entered(q) \in Activations /\ Entered(q).pc = "enter" /\ Entered(q).extra
               /\ Entered(q).p = act[c][q].p /\ Entered(q).todo = NoReferences
    BY <1>6 DEF Activations, PCs
  <2> HIDE DEF Entered
  <2> QED BY <1>6, <2>1 DEF Owned, JoinsWith, Joining
<1>13. Owned(a) = Null /\ JoinsWith(a) = Null /\ Owned(b) = k /\ JoinsWith(b) = k
  BY <1>2, <1>11 DEF Owned, JoinsWith, Joining
<1>14. act' = [act EXCEPT ![c][path] = b, ![c][Side(path, "l")] = Entered(l), ![c][Side(path, "r")] = Entered(r)]
  <2> HIDE DEF a, b
  <2>1. act' = [act EXCEPT ![c][path] = b, ![c][l].pc = "enter", ![c][r].pc = "enter"]
    BY <1>3, <1>9
  <2>2. act' = [act EXCEPT ![c][path] = b, ![c][l] = Entered(l), ![c][r] = Entered(r)]
    BY <1>1, <1>3, <2>1
  <2> QED BY <1>3, <2>2
<1> HIDE DEF a, b, Entered
<1>15. /\ act' \in [Clients -> [Paths -> Activations]]
       /\ act'[c][path] = b /\ act'[c][l] = Entered(l) /\ act'[c][r] = Entered(r)
       /\ \A d \in Clients, q \in Paths : d # c \/ q \notin Family(path) => act'[d][q] = act[d][q]
  <2>1. PICK x \in Activations, y \in Activations, z \in Activations :
          x = b /\ y = Entered(l) /\ z = Entered(r)
    BY <1>11, <1>12
  <2>2. act' = [act EXCEPT ![c][path] = x, ![c][Side(path, "l")] = y, ![c][Side(path, "r")] = z]
    BY <1>14, <2>1
  <2>3. /\ act' \in [Clients -> [Paths -> Activations]]
        /\ act'[c][path] = x /\ act'[c][Side(path, "l")] = y /\ act'[c][Side(path, "r")] = z
        /\ \A d \in Clients, q \in Paths : d # c \/ q \notin Family(path) => act'[d][q] = act[d][q]
    <3>1. TypeOK /\ Len(path) < MaxDepth
      BY <1>1, <1>3
    <3> HIDE DEF Activations
    <3> QED BY <2>2, <3>1, FamilyFacts
  <2> QED BY <1>3, <2>1, <2>3
<1>16. heap' \in [Cells -> Nodes] /\ heap'[k] = o /\ \A n \in Cells : n # k => heap'[n] = heap[n]
  BY <1>1, <1>8, <1>10
<1>17. TypeOK'
  BY <1>1, <1>15, <1>16, TypeOKNext
<1>18. Hollow' = Hollow \union {k}
  <2>1. \A d \in Clients, q \in Paths :
          d # c \/ q # path => JoinsWith(act'[d][q]) = JoinsWith(act[d][q])
    BY <1>3, <1>12, <1>15
  <2>2. Hollow' = (Hollow \ {Null}) \union ({k} \ {Null})
    BY <1>1, <1>13, <1>15, <1>17, <2>1, HollowStep DEF a
  <2>3. Null \notin Hollow
    BY <1>1 DEF Hollow
  <2> QED BY <1>5, <2>2, <2>3
<1>19. \A d \in Cells, s \in Sides : Field(d, s)' = Field(d, s)
  <2>1. \A d \in Cells \ {k}, s \in Sides : Field(d, s)' = Field(d, s)
    BY <1>16, <1>18 DEF Field, Child, is_regular
  <2>2. \A s \in Sides : Field(k, s)' = Null
    BY <1>18 DEF Field
  <2> QED BY <1>5, <2>1, <2>2
<1>20. NodeShape'
  <2>1. ASSUME NEW n \in Cells
        PROVE  IF heap'[n].kind = "regular" THEN \E x \in heap'[n].es : heap'[n].es = {x}
                                            ELSE heap'[n].lc = Null /\ heap'[n].rc = Null
    BY <1>1, <1>10, <1>16, NodeShapeOf
  <2> QED BY <2>1 DEF NodeShape, is_regular
<1>21. Harmless(c, Family(path))
  <2>1. Unshared(c, Family(path), k)
    BY <1>5, PathFacts
  <2> QED BY <1>15, <1>16, <2>1 DEF Harmless, GoesOn
<1>22. Kept(c)' = Kept(c)
  <2>1. Family(path) \in SUBSET Paths
    BY PathFacts
  <2> QED BY <1>17, <1>21, <2>1, KeptStays
<1>23. Recounted(c, path)
  <2>1. ASSUME NEW n \in Cells
        PROVE  /\ heap'[n].cnt = heap[n].cnt - NFields(n) + NFields(n)'
                    - Is(Owned(act[c][path]), n) + Is(Owned(act'[c][path]), n)
                    - Is(Owned(act[c][l]), n) + Is(Owned(act'[c][l]), n)
                    - Is(Owned(act[c][r]), n) + Is(Owned(act'[c][r]), n)
                    - act[c][path].todo[n] + act'[c][path].todo[n]
               /\ heap'[n].kind = "free" <=> heap'[n].cnt = 0
    <3>1. NFields(n)' = NFields(n)
      BY <1>19, FieldsSame
    <3>2. PICK h, f, i \in Int : h = heap[n].cnt /\ f = NFields(n) /\ i = Is(k, n)
      BY <1>1, CountTypes, TypeFacts DEF CountsAreNat, ref_cnt, Is
    <3>3. /\ Is(Owned(act[c][path]), n) = 0 /\ Is(Owned(act'[c][path]), n) = i
          /\ Is(Owned(act[c][l]), n) = 0 /\ Is(Owned(act'[c][l]), n) = 0
          /\ Is(Owned(act[c][r]), n) = 0 /\ Is(Owned(act'[c][r]), n) = 0
      BY <1>1, <1>12, <1>13, <1>15, <3>2 DEF Is, a
    <3>4. act[c][path].todo[n] = 0 /\ act'[c][path].todo[n] = 0
      BY <1>2, <1>11, <1>15, BagFacts DEF a
    <3>5. heap'[n].cnt = h + i
      BY <1>5, <1>10, <1>16, <3>2 DEF Is
    <3>6. heap'[n].cnt = h - f + f - 0 + i - 0 + 0 - 0 + 0 - 0 + 0
      BY <3>5
    <3>7. heap'[n].kind = "free" <=> heap'[n].cnt = 0
      BY <1>1, <1>10, <1>16 DEF Exact, ref_cnt
    <3> QED BY <3>1, <3>2, <3>3, <3>4, <3>6, <3>7
  <2> QED BY <1>3, <2>1 DEF Recounted
<1>24. FamilyHolds(c, path)
  <2>1. Holding(c, path)' /\ Borrowing(c, path)' /\ TakingOver(c, path)'
    BY <1>3, <1>5, <1>10, <1>11, <1>15, <1>16
       DEF Holding, Borrowing, Borrows, TakingOver, Joining, is_regular, ref_cnt
  <2>2. ASSUME NEW q \in {l, r}
        PROVE  Holding(c, q)' /\ Borrowing(c, q)' /\ TakingOver(c, q)'
    <3>1. act'[c][q].pc = "enter" /\ act'[c][q].extra /\ act'[c][q].p = act[c][q].p
      BY <1>12, <1>15
    <3>2. Borrowing(c, q)'
      BY <1>1, <1>6, <1>22, <3>1 DEF Borrowing, Borrows
    <3> QED BY <3>1, <3>2 DEF Holding, TakingOver, Joining
  <2> QED BY <1>3, <2>1, <2>2 DEF FamilyHolds
<1>25. Forking(c, path)'
  BY <1>11, <1>15 DEF Forking, Joining
<1>26. FamilyMoves(c, path)
  <2>1. \A s \in Sides : Side(path, s) \in {l, r} /\ act'[c][Side(path, s)] = Entered(Side(path, s))
    BY <1>3, <1>15 DEF Sides
  <2> QED BY <1>6, <1>12, <1>15, <2>1 DEF FamilyMoves, Joining
<1>27. act[c][path].pc \notin {"idle", "held", "done"}
  BY <1>2 DEF a
<1> QED BY <1>3, <1>17, <1>20, <1>21, <1>23, <1>24, <1>25, <1>26, <1>27, FamilyStep

-----------------------------------------------------------------------------
(* What clients do with their variables.                                   *)

(* Branches are gone when the call they belong to is over.                 *)
LEMMA RestIdle ==
  ASSUME IInv, NEW c \in Clients, act[c][Top].pc \in {"idle", "done"},
         NEW q \in Paths, q # Top
  PROVE  act[c][q] = Idle
<1>1. ASSUME NEW p \in Paths, Len(p) < MaxDepth, act[c][p].pc \in {"idle", "done"}, NEW s \in Sides
      PROVE  act[c][Side(p, s)] = Idle
  BY <1>1 DEF IInv, Forking, Joining
<1>2. \A s \in Sides : act[c][Side(Top, s)] = Idle
  BY <1>1, SideFacts DEF MaxDepth
<1>3. \A s, t \in Sides : act[c][Side(Side(Top, s), t)] = Idle
  <2>1. ASSUME NEW s \in Sides
        PROVE  Side(Top, s) \in Paths /\ Len(Side(Top, s)) < MaxDepth
    BY SideFacts DEF MaxDepth
  <2>2. \A s \in Sides : act[c][Side(Top, s)].pc = "idle"
    BY <1>2, IdleFacts
  <2> QED BY <1>1, <2>1, <2>2
<1> QED BY <1>2, <1>3 DEF Paths

(* A client assigns a variable v, takes its call up or ends it, and counts *)
(* a reference to a node its variables keep.                               *)
LEMMA ClientStep ==
  ASSUME IInv, TypeOK', NEW c \in Clients, NEW v \in Names, NEW k \in Pointers,
         act[c][Top].pc \in {"idle", "done"}, act[c][Top].todo = NoReferences,
         act'[c][Top].pc \in {"idle", "enter"}, ~act'[c][Top].extra,
         \A d \in Clients, q \in Paths : d # c \/ q # Top => act'[d][q] = act[d][q],
         \A d \in Clients : d # c => root'[d] = root[d],
         \A w \in Names : w # v => root'[c][w] = root[c][w],
         \A n \in Cells : n # k => heap'[n] = heap[n],
         k # Null => k \in Kept(c) /\ heap'[k] = [heap[k] EXCEPT !.cnt = @ + 1],
         \A n \in Cells : Is(root'[c][v], n) + Is(Owned(act'[c][Top]), n) + act'[c][Top].todo[n]
                             = Is(root[c][v], n) + Is(Owned(act[c][Top]), n) + Is(k, n),
         TakingOver(c, Top)'
  PROVE  IInv' /\ Persists
<1>1. Base /\ TypeOK /\ NodeShape /\ Exact /\ Null \notin Cells /\ Top \in Paths
  BY BaseOfIInv, TypeFacts, SideFacts DEF IInv
<1>2. Hollow' = Hollow
  <2>1. JoinsWith(act[c][Top]) = Null /\ JoinsWith(act'[c][Top]) = Null
    BY DEF JoinsWith, Joining
  <2>2. \A d \in Clients, q \in Paths : JoinsWith(act'[d][q]) = JoinsWith(act[d][q])
    BY <2>1
  <2> QED BY <1>1, <2>2, SameHollow
<1>3. ASSUME NEW n \in Cells
      PROVE  /\ heap'[n].kind = heap[n].kind /\ heap'[n].es = heap[n].es
             /\ heap'[n].lc = heap[n].lc /\ heap'[n].rc = heap[n].rc
             /\ heap'[n].cnt = heap[n].cnt + Is(k, n)
             /\ n = k => n \in Kept(c)
  <2>1. heap[n] \in Nodes /\ heap[n].cnt \in Nat
    BY <1>1, HeapType DEF Nodes
  <2>2. CASE n = k
    <3>1. n \in Kept(c) /\ heap'[n] = [heap[n] EXCEPT !.cnt = @ + 1]
      BY <1>1, <2>2
    <3>2. heap'[n].cnt = heap[n].cnt + 1
      BY <2>1, <3>1 DEF Nodes
    <3> QED BY <2>1, <2>2, <3>1, <3>2 DEF Is, Nodes
  <2>3. CASE n # k
    BY <2>1, <2>3 DEF Is
  <2> QED BY <2>2, <2>3
<1>4. \A d \in Cells, s \in Sides : Field(d, s)' = Field(d, s)
  BY <1>2, <1>3 DEF Field, Child, is_regular
<1>5. NodeShape'
  <2>1. ASSUME NEW n \in Cells
        PROVE  IF heap'[n].kind = "regular" THEN \E e \in heap'[n].es : heap'[n].es = {e}
                                            ELSE heap'[n].lc = Null /\ heap'[n].rc = Null
    BY <1>1, <1>3, NodeShapeOf
  <2> QED BY <2>1 DEF NodeShape, is_regular
<1>6. Exact'
  <2>1. SUFFICES ASSUME NEW n \in Cells
        PROVE  heap'[n].cnt = References(n)' /\ (heap'[n].kind = "free" <=> heap'[n].cnt = 0)
    BY DEF Exact, ref_cnt
  <2>2. heap[n].cnt = References(n) /\ (heap[n].kind = "free" <=> heap[n].cnt = 0) /\ heap[n].cnt \in Nat
    BY <1>1, TypeFacts DEF Exact, ref_cnt
  <2>3. NFields(n)' = NFields(n)
    BY <1>4, FieldsSame
  <2>4. NVariables(n)' = NVariables(n) - Is(root[c][v], n) + Is(root'[c][v], n)
    BY VariablesStep
  <2>5. NOwners(n)' = NOwners(n) - Is(Owned(act[c][Top]), n) + Is(Owned(act'[c][Top]), n)
    <3>1. \A d \in Clients, q \in Paths : d # c \/ q # Top => Owned(act'[d][q]) = Owned(act[d][q])
      OBVIOUS
    <3> QED BY <1>1, <3>1, OwnersStep
  <2>6. NDrops(n)' = NDrops(n) - act[c][Top].todo[n] + act'[c][Top].todo[n]
    <3>1. \A d \in Clients, q \in Paths : d # c \/ q # Top => act'[d][q].todo = act[d][q].todo
      OBVIOUS
    <3> QED BY <1>1, <3>1, DropsStep
  <2>7. PICK f \in Int, x \in Int, o \in Int, t \in Int :
          f = NFields(n) /\ x = NVariables(n) /\ o = NOwners(n) /\ t = NDrops(n)
    BY <1>1, CountTypes DEF CountsAreNat
  <2>8. PICK x1 \in {0, 1}, x2 \in {0, 1}, i \in {0, 1} :
          x1 = Is(root[c][v], n) /\ x2 = Is(root'[c][v], n) /\ i = Is(k, n)
    <3>1. Is(root[c][v], n) \in {0, 1} /\ Is(root'[c][v], n) \in {0, 1} /\ Is(k, n) \in {0, 1}
      BY BagFacts
    <3> QED BY <3>1
  <2>9. PICK o1 \in {0, 1}, o2 \in {0, 1} :
           o1 = Is(Owned(act[c][Top]), n) /\ o2 = Is(Owned(act'[c][Top]), n)
    <3>1. Is(Owned(act[c][Top]), n) \in {0, 1} /\ Is(Owned(act'[c][Top]), n) \in {0, 1}
      BY BagFacts
    <3> QED BY <3>1
  <2>10. PICK t2 \in Int : t2 = act'[c][Top].todo[n]
    BY <1>1 DEF TypeOK
  <2>11. act[c][Top].todo[n] = 0
    BY BagFacts
  <2>12. References(n)' = f + (x - x1 + x2) + (o - o1 + o2) + (t - 0 + t2)
    BY <2>3, <2>4, <2>5, <2>6, <2>7, <2>8, <2>11, <2>9, <2>10 DEF References
  <2>13. References(n) = f + x + o + t
    BY <2>7 DEF References
  <2>14. x2 + o2 + t2 = x1 + o1 + i
    BY <2>8, <2>9, <2>10
  <2>15. References(n)' = References(n) + i
    BY <2>12, <2>13, <2>14
  <2>16. heap'[n].kind = heap[n].kind /\ heap'[n].cnt = heap[n].cnt + i
    BY <1>3, <2>8
  <2>17. i = 1 => heap[n].kind # "free"
    <3>1. i = 1 => n = k
      BY <2>8 DEF Is
    <3>2. n \in Kept(c) => heap[n].kind # "free"
      BY <1>1, KeptFacts, Unreferenced
    <3> QED BY <1>3, <3>1, <3>2
  <2> QED BY <2>2, <2>15, <2>16, <2>17
<1>7. \A q \in Paths : q \notin {Top} => act[c][q] = Idle
  BY RestIdle
<1>8. Harmless(c, {Top})
  <2>1. ASSUME NEW n \in Cells, heap'[n].cnt # heap[n].cnt PROVE Shared(c, {Top}, n)
    <3>1. n = k
      BY <2>1
    <3> QED BY <1>3, <3>1 DEF Shared
  <2>2. \A d \in Clients : root'[d] = root[d] \/ (d = c /\ \A q \in Paths : q \notin {Top} => act[c][q] = Idle)
    BY <1>7
  <2>3. \A d \in Clients, q \in Paths : d # c \/ q \notin {Top} => act'[d][q] = act[d][q]
    OBVIOUS
  <2> QED BY <1>3, <2>1, <2>2, <2>3 DEF Harmless, GoesOn
<1>9. Holding(c, Top)' /\ Borrowing(c, Top)'
  BY DEF Holding, Borrowing, Borrows, Joining
<1>10. Forking(c, Top)'
  <2>1. \A s \in Sides : Side(Top, s) \in Paths /\ Side(Top, s) # Top
    BY SideFacts DEF MaxDepth
  <2>2. \A s \in Sides : Len(Top) < MaxDepth => act'[c][Side(Top, s)] = act[c][Side(Top, s)]
    BY <2>1
  <2>3. act[c][Top].pc \notin Joining \union {"single"} /\ act'[c][Top].pc \notin Joining \union {"single"}
    BY DEF Joining
  <2> QED BY <1>1, <2>2, <2>3, ForkingKept
<1>11. /\ {Top} \in SUBSET Family(Top)
       /\ \A q \in {Top} :
            Holding(c, q)' /\ Borrowing(c, q)' /\ TakingOver(c, q)' /\ Forking(c, q)'
  BY <1>9, <1>10 DEF Family
<1> QED BY <1>1, <1>5, <1>6, <1>8, <1>11, StepPreservesIInv

(* The copy of a map is one more reference.                                *)
LEMMA CopyMapPreserves ==
  ASSUME IInv, NEW c \in Clients, CopyMap(c)
  PROVE  IInv' /\ Persists
<1> DEFINE x == root[c]["x"]
<1>1. /\ TypeOK /\ Base /\ Top \in Paths /\ "x" \in Names /\ "y" \in Names /\ Null \notin Cells
      /\ heap \in [Cells -> Nodes] /\ root \in [Clients -> [Names -> Pointers]]
  BY BaseOfIInv, SideFacts, HeapType, TypeFacts DEF IInv, TypeOK, Names
<1>2. act[c][Top] = Idle /\ x # Null /\ root[c]["y"] = Null
  BY DEF CopyMap, Resting
<1>3. /\ heap' = [heap EXCEPT ![x].cnt = @ + 1] /\ root' = [root EXCEPT ![c]["y"] = x]
      /\ UNCHANGED <<given, act, due, left>>
  BY DEF CopyMap
<1>4. x \in Pointers /\ x \in Cells
  BY <1>1, <1>2 DEF Pointers
<1>5. x \in Kept(c)
  BY <1>1, <1>2, KeptFacts
<1> HIDE DEF x
<1>6. /\ root' \in [Clients -> [Names -> Pointers]] /\ root'[c]["y"] = x
      /\ \A d \in Clients : d # c => root'[d] = root[d]
      /\ \A w \in Names : w # "y" => root'[c][w] = root[c][w]
  BY <1>1, <1>3, <1>4
<1>7. /\ heap'[x] = [heap[x] EXCEPT !.cnt = @ + 1] /\ heap'[x] \in Nodes
      /\ \A n \in Cells : n # x => heap'[n] = heap[n]
  <2>1. heap[x] \in Nodes /\ heap'[x] = [heap[x] EXCEPT !.cnt = @ + 1]
    BY <1>1, <1>3, <1>4
  <2>2. heap'[x] \in Nodes
    BY <2>1 DEF Nodes
  <2> QED BY <1>1, <1>3, <2>1, <2>2
<1>8. heap' \in [Cells -> Nodes]
  BY <1>1, <1>3, <1>7
<1>9. TypeOK'
  BY <1>1, <1>3, <1>6, <1>8 DEF TypeOK, Nodes
<1>10. act'[c][Top] = Idle
  BY <1>2, <1>3
<1>11. \A n \in Cells : Is(root'[c]["y"], n) + Is(Owned(act'[c][Top]), n) + act'[c][Top].todo[n]
                           = Is(root[c]["y"], n) + Is(Owned(act[c][Top]), n) + Is(x, n)
  <2>1. ASSUME NEW n \in Cells
        PROVE  Is(Null, n) = 0 /\ NoReferences[n] = 0 /\ Is(x, n) \in {0, 1}
    BY <1>1, BagFacts DEF Is
  <2> QED BY <1>2, <1>6, <1>10, <2>1, IdleFacts
<1>12. TakingOver(c, Top)'
  BY <1>10, IdleFacts DEF TakingOver
<1> QED BY <1>1, <1>2, <1>3, <1>4, <1>5, <1>6, <1>7, <1>9, <1>10, <1>11, <1>12, IdleFacts, ClientStep

(* The reference of a cleared variable is to be dropped.                   *)
LEMMA ClearMapPreserves ==
  ASSUME IInv, NEW c \in Clients, NEW v \in Names, ClearMap(c, v)
  PROVE  IInv' /\ Persists
<1> DEFINE x == root[c][v]
           b == [Idle EXCEPT !.todo = Reference(x)]
<1>1. /\ TypeOK /\ Top \in Paths /\ Null \notin Cells /\ Null \in Pointers
      /\ act \in [Clients -> [Paths -> Activations]] /\ root \in [Clients -> [Names -> Pointers]]
  BY SideFacts, TypeFacts DEF IInv, TypeOK, Activations, Pointers
<1>2. act[c][Top] = Idle
  BY DEF ClearMap, Resting
<1>3. /\ root' = [root EXCEPT ![c][v] = Null] /\ act' = [act EXCEPT ![c][Top].todo = Reference(x)]
      /\ UNCHANGED <<given, heap, due, left>>
  BY DEF ClearMap
<1>4. b \in Activations /\ b.pc = "idle" /\ b.extra = FALSE /\ b.todo = Reference(x)
  BY BagFacts DEF Idle, Activations, PCs, Pointers, Contents
<1>5. Owned(b) = Null
  BY <1>4 DEF Owned, Joining
<1>6. act' = [act EXCEPT ![c][Top] = b]
  BY <1>1, <1>2, <1>3
<1> HIDE DEF x, b
<1>7. /\ act' \in [Clients -> [Paths -> Activations]] /\ act'[c][Top] = b
      /\ \A d \in Clients, q \in Paths : d # c \/ q # Top => act'[d][q] = act[d][q]
  BY <1>1, <1>4, <1>6
<1>8. /\ root' \in [Clients -> [Names -> Pointers]] /\ root'[c][v] = Null
      /\ \A d \in Clients : d # c => root'[d] = root[d]
      /\ \A w \in Names : w # v => root'[c][w] = root[c][w]
  BY <1>1, <1>3
<1>9. TypeOK'
  BY <1>1, <1>3, <1>7, <1>8 DEF TypeOK, Activations
<1>10. \A n \in Cells : Is(root'[c][v], n) + Is(Owned(act'[c][Top]), n) + act'[c][Top].todo[n]
                           = Is(root[c][v], n) + Is(Owned(act[c][Top]), n) + Is(Null, n)
  <2>1. ASSUME NEW n \in Cells
        PROVE  Is(Null, n) = 0 /\ b.todo[n] = Is(root[c][v], n) /\ Is(root[c][v], n) \in {0, 1}
    BY <1>1, <1>4, BagFacts DEF Is, x
  <2>2. Owned(act[c][Top]) = Null
    BY <1>2, IdleFacts
  <2> QED BY <1>5, <1>7, <1>8, <2>1, <2>2
<1>11. TakingOver(c, Top)'
  BY <1>4, <1>7 DEF TakingOver
<1>12. act[c][Top].pc = "idle" /\ act[c][Top].todo = NoReferences
  BY <1>2, IdleFacts
<1>13. \A n \in Cells : n # Null => heap'[n] = heap[n]
  BY <1>3
<1> QED BY <1>1, <1>4, <1>7, <1>8, <1>9, <1>10, <1>11, <1>12, <1>13, ClientStep

(* The reference of the result becomes the variable's, whose old one is to *)
(* be dropped.                                                             *)
LEMMA ReturnPreserves ==
  ASSUME IInv, NEW c \in Clients, Return(c)
  PROVE  IInv' /\ Persists
<1> DEFINE x == root[c]["x"]
           res == act[c][Top].res
           b == [Idle EXCEPT !.todo = Reference(x)]
<1>1. /\ TypeOK /\ Top \in Paths /\ Null \notin Cells /\ Null \in Pointers /\ "x" \in Names
      /\ act \in [Clients -> [Paths -> Activations]] /\ root \in [Clients -> [Names -> Pointers]]
  BY SideFacts, TypeFacts DEF IInv, TypeOK, Activations, Pointers, Names
<1>2. act[c][Top].pc = "done" /\ act[c][Top].todo = NoReferences
  BY DEF Return, At
<1>3. /\ root' = [root EXCEPT ![c]["x"] = res] /\ act' = [act EXCEPT ![c][Top] = b]
      /\ due' = [due EXCEPT ![c] = {}] /\ UNCHANGED <<given, heap, left>>
  BY DEF Return
<1>4. b \in Activations /\ b.pc = "idle" /\ b.extra = FALSE /\ b.todo = Reference(x)
  BY BagFacts DEF Idle, Activations, PCs, Pointers, Contents
<1>5. Owned(b) = Null /\ Owned(act[c][Top]) = res
  BY <1>2, <1>4 DEF Owned, Joining
<1>6. res \in Pointers
  BY <1>1, TypeFacts
<1> HIDE DEF x, res, b
<1>7. /\ act' \in [Clients -> [Paths -> Activations]] /\ act'[c][Top] = b
      /\ \A d \in Clients, q \in Paths : d # c \/ q # Top => act'[d][q] = act[d][q]
  BY <1>1, <1>3, <1>4
<1>8. /\ root' \in [Clients -> [Names -> Pointers]] /\ root'[c]["x"] = res
      /\ \A d \in Clients : d # c => root'[d] = root[d]
      /\ \A w \in Names : w # "x" => root'[c][w] = root[c][w]
  BY <1>1, <1>3, <1>6
<1>9. TypeOK'
  <2>1. due' \in [Clients -> SUBSET Contents]
    BY <1>1, <1>3 DEF TypeOK
  <2> QED BY <1>1, <1>3, <1>7, <1>8, <2>1 DEF TypeOK, Activations
<1>10. \A n \in Cells : Is(root'[c]["x"], n) + Is(Owned(act'[c][Top]), n) + act'[c][Top].todo[n]
                           = Is(root[c]["x"], n) + Is(Owned(act[c][Top]), n) + Is(Null, n)
  <2>1. ASSUME NEW n \in Cells
        PROVE  /\ Is(Null, n) = 0 /\ b.todo[n] = Is(root[c]["x"], n)
               /\ Is(root[c]["x"], n) \in {0, 1} /\ Is(res, n) \in {0, 1}
    BY <1>1, <1>4, BagFacts DEF Is, x
  <2> QED BY <1>5, <1>7, <1>8, <2>1
<1>11. TakingOver(c, Top)'
  BY <1>4, <1>7 DEF TakingOver
<1>12. \A n \in Cells : n # Null => heap'[n] = heap[n]
  BY <1>3
<1> QED BY <1>1, <1>2, <1>4, <1>7, <1>8, <1>9, <1>10, <1>11, <1>12, ClientStep

(* A call that is given a copy borrows from its variable; one that x is    *)
(* moved into takes over nodes of its own, or those that y keeps.          *)
LEMMA BeginPreserves ==
  ASSUME IInv, NEW c \in Clients, Begin(c)
  PROVE  IInv' /\ Persists
<1> DEFINE x == root[c]["x"]
<1>1. /\ TypeOK /\ Base /\ Top \in Paths /\ Null \notin Cells /\ Null \in Pointers
      /\ "x" \in Names /\ "y" \in Names
      /\ heap \in [Cells -> Nodes] /\ root \in [Clients -> [Names -> Pointers]]
      /\ act \in [Clients -> [Paths -> Activations]]
      /\ left \in 0..MaxCalls
  BY BaseOfIInv, SideFacts, HeapType, TypeFacts DEF IInv, TypeOK, Activations, Pointers, Names
<1>2. act[c][Top] = Idle /\ left > 0 /\ left' = left - 1
  BY DEF Begin, Resting
<1>3. PICK K \in given.batches, moved \in BOOLEAN :
        /\ moved => MayMove(c)
        /\ act' = [act EXCEPT ![c][Top] = Entering(x, FALSE, {<<k, left>> : k \in K})]
        /\ due' = [due EXCEPT ![c] = {Inserted(Elements(x), {<<k, left>> : k \in K})}]
        /\ UNCHANGED given
        /\ IF moved
           THEN root' = [root EXCEPT ![c]["x"] = Null] /\ UNCHANGED heap
           ELSE /\ heap' = IF x = Null THEN heap ELSE [heap EXCEPT ![x].cnt = @ + 1]
                /\ UNCHANGED root
  BY Zenon DEF Begin
<1>4. PICK es : es = {<<k, left>> : k \in K}
  OBVIOUS
<1>5. x \in Pointers /\ x \in Kept(c) \union {Null}
  BY <1>1, KeptFacts
<1>6. es \in Contents
  <2>1. K \subseteq Nat
    BY <1>1, GivenAssumption DEF TypeOK, IsGiven
  <2>2. left \in Values
    BY <1>1 DEF Values
  <2> QED BY <1>4, <2>1, <2>2 DEF Contents
<1>7. PICK b : b = Entering(x, FALSE, es)
  OBVIOUS
<1>8. b \in Activations /\ b.pc = "enter" /\ b.extra = FALSE /\ b.p = x /\ b.todo = NoReferences
  <2>1. Idle \in Activations
    BY BagFacts DEF Idle, Activations, PCs, Pointers, Contents
  <2> QED BY <1>5, <1>6, <1>7, <2>1, IdleFacts DEF Entering, Activations, PCs
<1>9. Owned(b) = x
  BY <1>8 DEF Owned
<1>10. due' \in [Clients -> SUBSET Contents]
  <2>1. Inserted(Elements(x), es) \in Contents
    BY <1>1, <1>5, <1>6, ElementsType, InsertedType
  <2> QED BY <1>1, <1>3, <1>4, <2>1 DEF TypeOK
<1>11. left' \in 0..MaxCalls
  BY <1>1, <1>2, BoundsAssumption
<1> HIDE DEF x
<1>12. /\ act' \in [Clients -> [Paths -> Activations]] /\ act'[c][Top] = b
       /\ \A d \in Clients, q \in Paths : d # c \/ q # Top => act'[d][q] = act[d][q]
  BY <1>1, <1>3, <1>7, <1>8, <1>4
<1>13. act[c][Top].pc = "idle" /\ act[c][Top].todo = NoReferences /\ Owned(act[c][Top]) = Null
  BY <1>2, IdleFacts
<1>14. \A n \in Cells : Is(Null, n) = 0 /\ NoReferences[n] = 0 /\ Is(x, n) \in {0, 1}
  BY <1>1, BagFacts DEF Is
<1>15. CASE moved
  <2>1. /\ heap' = heap /\ root' \in [Clients -> [Names -> Pointers]] /\ root'[c]["x"] = Null
        /\ \A d \in Clients : d # c => root'[d] = root[d]
        /\ \A w \in Names : w # "x" => root'[c][w] = root[c][w]
    <3>1. heap' = heap /\ root' = [root EXCEPT ![c]["x"] = Null]
      BY <1>3, <1>15
    <3> QED BY <1>1, <3>1
  <2>2. TypeOK'
    BY <1>1, <1>3, <1>10, <1>11, <1>12, <2>1 DEF TypeOK, Activations, Nodes
  <2>3. TakingOver(c, Top)'
    <3>1. PICK y \in Pointers : y = root[c]["y"] /\ y = root'[c]["y"]
      BY <1>1, <2>1
    <3>2. PICK p \in Pointers : p = x
      BY <1>5
    <3>3. Under(p)' = Under(p) /\ Under(y)' = Under(y)
      BY <1>1, <2>1, <2>2, UnderSame
    <3>4. \A n \in Under(p) : heap[n].cnt = 1 \/ n \in Under(y)
      BY <1>3, <1>15, <3>1, <3>2 DEF MayMove, ref_cnt, x
    <3>5. \A n \in Under(y) : n \in Kept(c)'
      BY <3>1, <3>3 DEF Kept
    <3>6. act'[c][Top].p = p
      BY <1>8, <1>12, <3>2
    <3> QED BY <2>1, <3>3, <3>4, <3>5, <3>6 DEF TakingOver, ref_cnt
  <2>4. \A n \in Cells : Is(root'[c]["x"], n) + Is(Owned(act'[c][Top]), n) + act'[c][Top].todo[n]
                            = Is(root[c]["x"], n) + Is(Owned(act[c][Top]), n) + Is(Null, n)
    BY <1>8, <1>9, <1>12, <1>13, <1>14, <2>1 DEF x
  <2>5. \A n \in Cells : n # Null => heap'[n] = heap[n]
    BY <2>1
  <2> QED BY <1>1, <1>8, <1>12, <1>13, <2>1, <2>2, <2>3, <2>4, <2>5, ClientStep
<1>16. CASE ~moved
  <2>1. root' = root /\ heap' = IF x = Null THEN heap ELSE [heap EXCEPT ![x].cnt = @ + 1]
    BY <1>3, <1>16
  <2>2. /\ heap' \in [Cells -> Nodes]
        /\ \A n \in Cells : n # x => heap'[n] = heap[n]
        /\ x # Null => heap'[x] = [heap[x] EXCEPT !.cnt = @ + 1]
        /\ \A n \in Cells : heap'[n].lc = heap[n].lc /\ heap'[n].rc = heap[n].rc
    <3>1. CASE x = Null
      BY <1>1, <2>1, <3>1
    <3>2. CASE x # Null
      <4>1. x \in Cells /\ heap[x] \in Nodes
        BY <1>1, <1>5, <3>2 DEF Pointers
      <4>2. heap' = [heap EXCEPT ![x].cnt = @ + 1]
        BY <2>1, <3>2
      <4>3. heap'[x] = [heap[x] EXCEPT !.cnt = @ + 1] /\ \A n \in Cells : n # x => heap'[n] = heap[n]
        BY <1>1, <4>1, <4>2
      <4>4. heap'[x] \in Nodes /\ heap'[x].lc = heap[x].lc /\ heap'[x].rc = heap[x].rc
        BY <4>1, <4>3 DEF Nodes
      <4>5. heap' \in [Cells -> Nodes]
        BY <1>1, <4>2, <4>3, <4>4
      <4> QED BY <4>3, <4>4, <4>5
    <3> QED BY <3>1, <3>2
  <2>3. TypeOK'
    BY <1>1, <1>3, <1>10, <1>11, <1>12, <2>1, <2>2 DEF TypeOK, Activations, Nodes
  <2>4. TakingOver(c, Top)'
    <3>1. PICK p : p = x
      OBVIOUS
    <3>2. act'[c][Top].p = p /\ root'[c]["x"] = p
      BY <1>8, <1>12, <2>1, <3>1 DEF x
    <3>3. Under(p)' \subseteq Kept(c)'
      BY <3>2 DEF Kept
    <3> QED BY <3>2, <3>3 DEF TakingOver
  <2>5. \A n \in Cells : Is(root'[c]["x"], n) + Is(Owned(act'[c][Top]), n) + act'[c][Top].todo[n]
                            = Is(root[c]["x"], n) + Is(Owned(act[c][Top]), n) + Is(x, n)
    BY <1>8, <1>9, <1>12, <1>13, <1>14, <2>1 DEF x
  <2>6. x # Null => x \in Kept(c) /\ heap'[x] = [heap[x] EXCEPT !.cnt = @ + 1]
    BY <1>1, <1>5, <2>2
  <2>7. \A n \in Cells : n # x => heap'[n] = heap[n]
    BY <2>2
  <2>8. \A d \in Clients : d # c => root'[d] = root[d]
    BY <2>1
  <2>9. \A w \in Names : w # "x" => root'[c][w] = root[c][w]
    BY <2>1
  <2>10. /\ x \in Pointers /\ "x" \in Names
         /\ act[c][Top].pc = "idle" /\ act[c][Top].todo = NoReferences
         /\ act'[c][Top].pc = "enter" /\ ~act'[c][Top].extra
    BY <1>1, <1>5, <1>8, <1>12, <1>13
  <2>11. \A d \in Clients, q \in Paths : d # c \/ q # Top => act'[d][q] = act[d][q]
    BY <1>12
  <2> QED BY <2>3, <2>4, <2>5, <2>6, <2>7, <2>8, <2>9, <2>10, <2>11, ClientStep
<1> QED BY <1>15, <1>16

-----------------------------------------------------------------------------
(* The initial states: only variables and fields hold references.          *)

(* The nodes the clients start with.                                       *)
LEMMA InitHeap ==
  ASSUME Init, NEW n \in Cells
  PROVE  /\ n \notin DOMAIN given.nodes => heap[n] = FreeCell
         /\ n \in DOMAIN given.nodes =>
              /\ heap[n].kind = given.nodes[n].kind /\ heap[n].kind \in {"block", "regular"}
              /\ heap[n].cnt = Initially(given, n)
              /\ heap[n].lc = given.nodes[n].lc /\ heap[n].rc = given.nodes[n].rc
              /\ {heap[n].lc, heap[n].rc} \subseteq DOMAIN given.nodes \union {Null}
              /\ heap[n].es = {<<k, 0>> : k \in given.nodes[n].keys}
              /\ given.nodes[n].keys \subseteq Nat
              /\ heap[n].kind = "regular" => \E k \in given.nodes[n].keys : given.nodes[n].keys = {k}
              /\ heap[n].kind = "block" => heap[n].lc = Null /\ heap[n].rc = Null
              /\ \/ n \in {given.x, given.y}
                 \/ \E d \in DOMAIN given.nodes : n \in {given.nodes[d].lc, given.nodes[d].rc}
<1>1. IsGiven(given)
  BY GivenAssumption DEF Init
<1>2. heap[n] = IF n \notin DOMAIN given.nodes THEN FreeCell
                ELSE [kind |-> given.nodes[n].kind, cnt |-> Initially(given, n),
                      lc |-> given.nodes[n].lc, rc |-> given.nodes[n].rc,
                      es |-> {<<k, 0>> : k \in given.nodes[n].keys}]
  BY DEF Init
<1>3. CASE n \notin DOMAIN given.nodes
  BY <1>2, <1>3
<1>4. CASE n \in DOMAIN given.nodes
  <2>1. /\ heap[n].kind = given.nodes[n].kind /\ heap[n].cnt = Initially(given, n)
        /\ heap[n].lc = given.nodes[n].lc /\ heap[n].rc = given.nodes[n].rc
        /\ heap[n].es = {<<k, 0>> : k \in given.nodes[n].keys}
    BY <1>2, <1>4
  <2>2. /\ {given.nodes[n].lc, given.nodes[n].rc} \subseteq DOMAIN given.nodes \union {Null}
        /\ given.nodes[n].keys \subseteq Nat
        /\ \/ given.nodes[n].kind = "regular" /\ \E k \in given.nodes[n].keys : given.nodes[n].keys = {k}
           \/ given.nodes[n].kind = "block" /\ given.nodes[n].lc = Null /\ given.nodes[n].rc = Null
        /\ n \in {given.x, given.y} \union
                   UNION {{given.nodes[e].lc, given.nodes[e].rc} : e \in DOMAIN given.nodes}
    BY <1>1, <1>4 DEF IsGiven
  <2> QED BY <1>4, <2>1, <2>2
<1> QED BY <1>3, <1>4

\* What the initial state counts as the references to n.
GivenVariables(g, n) ==
  {cv \in Clients \X Names : n = IF cv[2] = "x" THEN g.x ELSE g.y}
GivenFields(g, n) ==
  {ds \in (DOMAIN g.nodes) \X Sides :
     n = IF ds[2] = "l" THEN g.nodes[ds[1]].lc ELSE g.nodes[ds[1]].rc}

(* The references to a node the clients start with.                        *)
LEMMA InitReferences ==
  ASSUME Init, NEW n \in Cells
  PROVE  /\ Holds(VarAt, n) = GivenVariables(given, n)
         /\ Holds(FieldAt, n) = GivenFields(given, n)
         /\ NOwners(n) = 0 /\ NDrops(n) = 0
<1>1. Null \notin Cells /\ DOMAIN given.nodes \subseteq Cells
  <2>1. Null \notin Cells
    BY BoundsAssumption DEF Cells, Null
  <2>2. IsGiven(given)
    BY GivenAssumption DEF Init
  <2> QED BY <2>1, <2>2 DEF IsGiven
<1>2. \A c \in Clients, q \in Paths : act[c][q] = Idle
  BY DEF Init
<1>3. Holds(VarAt, n) = GivenVariables(given, n)
  <2>1. \A c \in Clients, v \in Names : root[c][v] = IF v = "x" THEN given.x ELSE given.y
    BY DEF Init
  <2> QED BY <2>1 DEF Holds, VarAt, GivenVariables
<1>4. Hollow = {}
  BY <1>2, IdleFacts DEF Hollow, Joining
<1>5. ASSUME NEW d \in Cells, NEW s \in Sides
      PROVE  Field(d, s) = n <=>
               /\ d \in DOMAIN given.nodes
               /\ n = IF s = "l" THEN given.nodes[d].lc ELSE given.nodes[d].rc
  <2>1. CASE d \notin DOMAIN given.nodes
    <3>1. heap[d].kind = "free"
      BY <2>1, InitHeap DEF FreeCell
    <3> QED BY <1>1, <2>1, <3>1 DEF Field, is_regular
  <2>2. CASE d \in DOMAIN given.nodes
    <3>1. /\ heap[d].kind \in {"block", "regular"}
          /\ heap[d].lc = given.nodes[d].lc /\ heap[d].rc = given.nodes[d].rc
          /\ heap[d].kind = "block" => heap[d].lc = Null /\ heap[d].rc = Null
      BY <2>2, InitHeap
    <3> QED BY <1>1, <1>4, <2>2, <3>1 DEF Field, is_regular, Child
  <2> QED BY <2>1, <2>2
<1>6. Holds(FieldAt, n) = GivenFields(given, n)
  BY <1>1, <1>5 DEF Holds, FieldAt, GivenFields
<1>7. NOwners(n) = 0
  <2>1. Holds(OwnedAt, n) = {}
    BY <1>1, <1>2, IdleFacts DEF Holds, OwnedAt
  <2> QED BY <2>1, FS_EmptySet DEF NOwners
<1>8. NDrops(n) = 0
  <2>1. \A p \in DOMAIN TodoAt : TodoAt[p][n] = 0
    BY <1>2, IdleFacts, BagFacts DEF TodoAt
  <2>2. \A p \in DOMAIN TodoAt : {p} \X (1..TodoAt[p][n]) = {}
    BY <2>1
  <2>3. DropsIn(TodoAt, n) = {}
    BY <2>2 DEF DropsIn
  <2> QED BY <2>3, FS_EmptySet DEF NDrops
<1> QED BY <1>3, <1>6, <1>7, <1>8

(* The counts the clients start with are exact.                            *)
LEMMA InitCounts ==
  ASSUME Init, NEW n \in Cells
  PROVE  /\ Initially(given, n) = References(n) /\ Initially(given, n) \in Nat
         /\ n \in DOMAIN given.nodes => Initially(given, n) > 0
         /\ n \notin DOMAIN given.nodes => Initially(given, n) = 0
<1>1. Initially(given, n) = Cardinality(GivenVariables(given, n)) + Cardinality(GivenFields(given, n))
  BY DEF Initially, GivenVariables, GivenFields
<1>2. PICK V, F : V = GivenVariables(given, n) /\ F = GivenFields(given, n)
  OBVIOUS
<1>3. /\ Cardinality(V) \in Nat /\ Cardinality(F) \in Nat
      /\ V # {} => Cardinality(V) >= 1
      /\ F # {} => Cardinality(F) >= 1
  <2>1. V = Holds(VarAt, n) /\ F = Holds(FieldAt, n)
    BY <1>2, InitReferences
  <2>2. /\ Cardinality(V) \in Nat /\ Cardinality(F) \in Nat
        /\ \A p \in DOMAIN VarAt : VarAt[p] = n => Cardinality(V) >= 1
        /\ \A p \in DOMAIN FieldAt : FieldAt[p] = n => Cardinality(F) >= 1
    BY <2>1, TablesAreFinite, HoldsIsFinite
  <2>3. (V # {} => \E p \in DOMAIN VarAt : VarAt[p] = n) /\ (F # {} => \E p \in DOMAIN FieldAt : FieldAt[p] = n)
    BY <2>1 DEF Holds
  <2> QED BY <2>2, <2>3
<1>4. References(n) = Cardinality(V) + Cardinality(F)
  <2>1. NVariables(n) = Cardinality(V) /\ NFields(n) = Cardinality(F) /\ NOwners(n) = 0 /\ NDrops(n) = 0
    BY <1>2, InitReferences DEF NVariables, NFields
  <2> QED BY <1>3, <2>1 DEF References
<1>5. ASSUME n \in DOMAIN given.nodes PROVE V # {} \/ F # {}
  <2>1. CASE n \in {given.x, given.y}
    <3>1. PICK c \in Clients : TRUE
      BY ClientsAssumption
    <3>2. <<c, "x">> \in Clients \X Names /\ <<c, "y">> \in Clients \X Names
      BY DEF Names
    <3> QED BY <1>2, <2>1, <3>2 DEF GivenVariables
  <2>2. ASSUME NEW d \in DOMAIN given.nodes, n \in {given.nodes[d].lc, given.nodes[d].rc}
        PROVE  F # {}
    <3>1. <<d, "l">> \in (DOMAIN given.nodes) \X Sides /\ <<d, "r">> \in (DOMAIN given.nodes) \X Sides
      BY DEF Sides
    <3> QED BY <1>2, <2>2, <3>1 DEF GivenFields
  <2> QED BY <1>5, <2>1, <2>2, InitHeap
<1>6. ASSUME n \notin DOMAIN given.nodes PROVE V = {} /\ F = {}
  <2>1. /\ Null \notin Cells /\ {given.x, given.y} \subseteq DOMAIN given.nodes \union {Null}
        /\ \A d \in DOMAIN given.nodes :
             {given.nodes[d].lc, given.nodes[d].rc} \subseteq DOMAIN given.nodes \union {Null}
    BY BoundsAssumption, GivenAssumption DEF Cells, Null, IsGiven, Init
  <2>2. n \notin {given.x, given.y}
        /\ \A d \in DOMAIN given.nodes : n \notin {given.nodes[d].lc, given.nodes[d].rc}
    BY <1>6, <2>1
  <2> QED BY <1>2, <2>2 DEF GivenVariables, GivenFields
<1>7. V = {} => Cardinality(V) = 0
  BY FS_EmptySet
<1>8. F = {} => Cardinality(F) = 0
  BY FS_EmptySet
<1> QED BY <1>1, <1>2, <1>3, <1>4, <1>5, <1>6, <1>7, <1>8

(* The initial states satisfy the invariant.                               *)
LEMMA InitIInv == Init => IInv
<1> SUFFICES ASSUME Init PROVE IInv
  OBVIOUS
<1>1. /\ IsGiven(given) /\ Null \in Pointers /\ Cells \subseteq Pointers
      /\ given \in Given
  BY GivenAssumption DEF IsGiven, Init, Pointers
<1>2. \A c \in Clients, q \in Paths : act[c][q] = Idle
  BY DEF Init
<1>3. heap \in [Cells -> Nodes]
  <2>1. ASSUME NEW n \in Cells PROVE heap[n] \in Nodes
    <3>1. CASE n \notin DOMAIN given.nodes
      BY <3>1, <1>1, InitHeap DEF FreeCell, Nodes, Kinds, Contents
    <3>2. CASE n \in DOMAIN given.nodes
      <4>1. heap[n] = [kind |-> given.nodes[n].kind, cnt |-> Initially(given, n),
                       lc |-> given.nodes[n].lc, rc |-> given.nodes[n].rc,
                       es |-> {<<k, 0>> : k \in given.nodes[n].keys}]
        BY <3>2 DEF Init
      <4>2. given.nodes[n].kind \in Kinds
        BY <3>2, InitHeap DEF Kinds
      <4>3. given.nodes[n].lc \in Pointers /\ given.nodes[n].rc \in Pointers
        BY <1>1, <3>2, InitHeap DEF IsGiven
      <4>4. {<<k, 0>> : k \in given.nodes[n].keys} \in Contents
        BY <3>2, InitHeap, BoundsAssumption DEF Contents, Values
      <4>5. Initially(given, n) \in Nat
        BY InitCounts
      <4> QED BY <4>1, <4>2, <4>3, <4>4, <4>5 DEF Nodes
    <3> QED BY <3>1, <3>2
  <2>2. heap = [n \in Cells |-> heap[n]]
    BY DEF Init
  <2> QED BY <2>1, <2>2
<1>4. TypeOK
  <2>1. root \in [Clients -> [Names -> Pointers]]
    BY <1>1 DEF Init, IsGiven
  <2>2. act \in [Clients -> [Paths -> Activations]]
    <3>1. Idle \in Activations
      BY <1>1, BagFacts DEF Idle, Activations, PCs, Contents
    <3> QED BY <3>1 DEF Init
  <2>3. due \in [Clients -> SUBSET Contents] /\ left \in 0..MaxCalls
    BY <1>1 DEF Init, IsGiven
  <2> QED BY <1>1, <1>3, <2>1, <2>2, <2>3 DEF TypeOK, Nodes, Activations
<1>5. NodeShape
  <2>1. ASSUME NEW n \in Cells
        PROVE  IF heap[n].kind = "regular" THEN \E e \in heap[n].es : heap[n].es = {e}
                                           ELSE heap[n].lc = Null /\ heap[n].rc = Null
    <3>1. CASE n \notin DOMAIN given.nodes
      BY <3>1, InitHeap DEF FreeCell
    <3>2. CASE n \in DOMAIN given.nodes
      <4>1. ASSUME heap[n].kind = "regular" PROVE \E e \in heap[n].es : heap[n].es = {e}
        <5>1. PICK k \in given.nodes[n].keys : given.nodes[n].keys = {k}
          BY <3>2, <4>1, InitHeap
        <5>2. heap[n].es = {<<k, 0>>}
          BY <3>2, <5>1, InitHeap
        <5> QED BY <5>2
      <4>2. heap[n].kind # "regular" => heap[n].lc = Null /\ heap[n].rc = Null
        BY <3>2, InitHeap
      <4> QED BY <4>1, <4>2
    <3> QED BY <3>1, <3>2
  <2> QED BY <2>1 DEF NodeShape, is_regular
<1>6. Exact
  <2>1. ASSUME NEW n \in Cells
        PROVE  heap[n].cnt = References(n) /\ (heap[n].kind = "free" <=> heap[n].cnt = 0)
    <3>1. CASE n \notin DOMAIN given.nodes
      BY <3>1, InitHeap, InitCounts DEF FreeCell
    <3>2. CASE n \in DOMAIN given.nodes
      BY <3>2, InitHeap, InitCounts
    <3> QED BY <3>1, <3>2
  <2> QED BY <2>1 DEF Exact, ref_cnt
<1>7. ASSUME NEW c \in Clients, NEW q \in Paths
      PROVE  Holding(c, q) /\ Borrowing(c, q) /\ TakingOver(c, q) /\ Forking(c, q)
  <2>1. Holding(c, q) /\ Borrowing(c, q) /\ TakingOver(c, q)
    BY <1>2, IdleFacts DEF Holding, Borrowing, Borrows, TakingOver, Joining
  <2>2. Forking(c, q)
    <3>1. Len(q) < MaxDepth => \A s \in Sides : act[c][Side(q, s)] = Idle
      BY <1>2, PathFacts
    <3> QED BY <1>2, <3>1, IdleFacts DEF Forking, Joining
  <2> QED BY <2>1, <2>2
<1> QED BY <1>4, <1>5, <1>6, <1>7 DEF IInv

-----------------------------------------------------------------------------
(* Every step of an activation preserves the invariant.                    *)
LEMMA WorkPreserves ==
  ASSUME IInv, NEW c \in Clients, NEW path \in Paths, Work(c, path)
  PROVE  IInv' /\ Persists
<1>1. UNCHANGED <<given, root, due, left>>
  BY Zenon DEF Work
<1>2. \/ BuildPart(c, path) \/ ShareSubtree(c, path) \/ EnterFlat(c, path) \/ MergeFlat(c, path)
      \/ Expose(c, path) \/ Single(c, path) \/ Link(c, path) \/ Gather(c, path)
      \/ \E s \in Sides : Heavy(c, path, s) \/ CopySpine(c, path, s) \/ Spine(c, path, s)
  BY Zenon DEF Work
<1>3. CASE BuildPart(c, path)
  BY <1>1, <1>3, BuildPartPreserves
<1>4. CASE ShareSubtree(c, path)
  BY <1>1, <1>4, ShareSubtreePreserves
<1>5. CASE EnterFlat(c, path)
  BY <1>1, <1>5, EnterFlatPreserves
<1>6. CASE MergeFlat(c, path)
  BY <1>1, <1>6, MergeFlatPreserves
<1>7. CASE Expose(c, path)
  BY <1>1, <1>7, ExposePreserves
<1>8. CASE Single(c, path)
  BY <1>1, <1>8, SinglePreserves
<1>9. CASE Link(c, path)
  BY <1>1, <1>9, LinkPreserves
<1>10. CASE Gather(c, path)
  BY <1>1, <1>10, GatherPreserves
<1>11. ASSUME NEW s \in Sides, Heavy(c, path, s) PROVE IInv' /\ Persists
  BY <1>1, <1>11, HeavyPreserves
<1>12. ASSUME NEW s \in Sides, CopySpine(c, path, s) PROVE IInv' /\ Persists
  BY <1>1, <1>12, CopySpinePreserves
<1>13. ASSUME NEW s \in Sides, Spine(c, path, s) PROVE IInv' /\ Persists
  BY <1>1, <1>13, SpinePreserves
<1> QED BY <1>2, <1>3, <1>4, <1>5, <1>6, <1>7, <1>8, <1>9, <1>10, <1>11, <1>12, <1>13

(* So does a step that changes nothing.                                    *)
LEMMA StutterPreserves ==
  ASSUME IInv, UNCHANGED vars
  PROVE  IInv' /\ Persists
<1>1. heap' = heap /\ root' = root /\ act' = act /\ due' = due /\ given' = given /\ left' = left
  BY DEF vars
<1>2. TypeOK' /\ NodeShape' /\ TypeOK /\ Base
  BY <1>1, BaseOfIInv DEF IInv, TypeOK, NodeShape, is_regular
<1>3. Hollow' = Hollow
  BY <1>1 DEF Hollow
<1>4. Exact'
  <2>1. VarAt' = VarAt /\ OwnedAt' = OwnedAt /\ TodoAt' = TodoAt
    BY <1>1 DEF VarAt, OwnedAt, TodoAt
  <2>2. FieldAt' = FieldAt
    BY <1>1, <1>3 DEF FieldAt, Field, is_regular, Child
  <2>3. \A n \in Cells : NVariables(n)' = NVariables(n) /\ NFields(n)' = NFields(n)
    BY <2>1, <2>2 DEF NVariables, NFields, Holds
  <2>4. \A n \in Cells : NOwners(n)' = NOwners(n) /\ NDrops(n)' = NDrops(n)
    BY <2>1 DEF NOwners, NDrops, Holds, DropsIn
  <2>5. \A n \in Cells : References(n)' = References(n)
    BY <2>3, <2>4 DEF References
  <2> QED BY <1>1, <1>2, <2>5 DEF Base, Exact, ref_cnt
<1>5. ASSUME NEW c \in Clients PROVE Harmless(c, {})
  BY <1>1 DEF Harmless, GoesOn
<1>6. PICK c \in Clients : TRUE
  BY ClientsAssumption
<1>7. {} \in SUBSET Family(Top) /\ Top \in Paths
  BY SideFacts
<1> QED BY <1>2, <1>4, <1>5, <1>6, <1>7, StepPreservesIInv

(* Every step preserves the invariant and leaves what is not assigned.     *)
LEMMA StepsPersist ==
  ASSUME IInv, [Next]_vars
  PROVE  IInv' /\ Persists
<1>1. CASE UNCHANGED vars
  BY <1>1, StutterPreserves
<1>2. ASSUME NEW c \in Clients, CopyMap(c) PROVE IInv' /\ Persists
  BY <1>2, CopyMapPreserves
<1>3. ASSUME NEW c \in Clients, NEW v \in Names, ClearMap(c, v) PROVE IInv' /\ Persists
  BY <1>3, ClearMapPreserves
<1>4. ASSUME NEW c \in Clients, Begin(c) PROVE IInv' /\ Persists
  BY <1>4, BeginPreserves
<1>5. ASSUME NEW c \in Clients, Return(c) PROVE IInv' /\ Persists
  BY <1>5, ReturnPreserves
<1>6. ASSUME NEW c \in Clients, NEW path \in Paths, Decrement(c, path) PROVE IInv' /\ Persists
  BY <1>6, DecrementPreserves
<1>7. ASSUME NEW c \in Clients, NEW path \in Paths, Work(c, path) PROVE IInv' /\ Persists
  BY <1>7, WorkPreserves
<1> QED BY <1>1, <1>2, <1>3, <1>4, <1>5, <1>6, <1>7 DEF Next

(* IInv is an invariant.                                                   *)
THEOREM IInvHolds == Spec => []IInv
<1>1. Init => IInv
  BY InitIInv
<1>2. IInv /\ [Next]_vars => IInv'
  BY StepsPersist
<1> QED BY <1>1, <1>2, PTL DEF Spec

(* Every value of the heap, of the variables and of the activations stays  *)
(* what it is declared to be, whatever the clients do (basic_node.h:26-60, *)
(* gc.h:131-194).                                                          *)
THEOREM TypeOKHolds == Spec => []TypeOK
<1>1. IInv => TypeOK
  BY DEF IInv
<1> QED BY <1>1, IInvHolds, PTL

(* The count of every node is the number of references to it at every      *)
(* moment, and it is free if there are none: for any clients, any batches  *)
(* and any maps they start with (basic_node.h:253-291).                    *)
THEOREM CountIsExactHolds == Spec => []CountIsExact
<1>1. IInv => CountIsExact
  BY ExactIsCountIsExact DEF IInv
<1> QED BY <1>1, IInvHolds, PTL

(* A borrowed pointer leads to a node that is not free (gc.h:131-194).     *)
THEOREM BorrowedIsAliveHolds == Spec => []BorrowedIsAlive
<1>1. IInv => BorrowedIsAlive
  <2> SUFFICES ASSUME IInv, NEW c \in Clients, NEW path \in Paths, NEW n \in Cells,
                      Borrows(act[c][path], n)
               PROVE  heap[n].kind # "free"
    BY DEF BorrowedIsAlive
  <2>1. TypeOK /\ Exact /\ Base /\ n \in Kept(c)
    BY BaseOfIInv DEF IInv, Borrowing
  <2>2. \/ \E v \in Names : root[c][v] = n
        \/ \E d \in Cells, s \in Sides : Field(d, s) = n
    BY <2>1, KeptFacts
  <2> QED BY <2>1, <2>2, Unreferenced
<1> QED BY <1>1, IInvHolds, PTL

(* No step changes what a variable holds unless it assigns that variable:  *)
(* an activation reuses in place only nodes that are under no variable     *)
(* (expose and copy_if_needed, sequence_ops.h:65-77, gc.h:59-83).          *)
THEOREM MapsArePersistentHolds == Spec => MapsArePersistent
<1>1. IInv /\ [Next]_vars => [Persists]_vars
  BY StepsPersist
<1> QED BY <1>1, IInvHolds, PTL DEF Spec, MapsArePersistent
=============================================================================
