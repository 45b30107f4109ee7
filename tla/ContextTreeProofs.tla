--------------------------- MODULE ContextTreeProofs ---------------------------
(* Proofs about ContextTree for every set of events, policy and budget. *)
EXTENDS ContextTree, Sequences, WellFoundedInduction, FiniteSetTheorems, TLAPS

-----------------------------------------------------------------------------
(* Sums over finite sets *)

(* Induction over data, without the induction theorems: a set of naturals    *)
(* has a least element, hence a set of finite sets has a smallest one.       *)
LEMMA LeastNat ==
  ASSUME NEW T, T \subseteq Nat, T # {}
  PROVE  \E x \in T : \A y \in T : x <= y
<1> DEFINE R == {ss \in Nat \X Nat : ss[1] < ss[2]}
<1>1. IsWellFoundedOn(R, Nat)
  BY NatLessThanWellFounded, Zenon DEF OpToRel
<1>2. PICK x \in T : \A y \in T : ~(<<y, x>> \in R)
  <2> HIDE DEF R
  <2> QED BY <1>1, WFMin, Zenon
<1>3. \A y \in T : ~(y < x)
  BY <1>2
<1> QED BY <1>3

LEMMA SmallestSet ==
  ASSUME NEW C, C # {}, \A s \in C : IsFiniteSet(s)
  PROVE  \E s \in C : IsFiniteSet(s) /\ \A t : t \subseteq s /\ t # s => t \notin C
<1> DEFINE T == {Cardinality(s) : s \in C}
<1>1. T \subseteq Nat /\ T # {}
  BY FS_CardinalityType
<1>2. PICK k \in T : \A y \in T : k <= y
  <2> HIDE DEF T
  <2> QED BY <1>1, LeastNat
<1>3. PICK s \in C : k = Cardinality(s)
  OBVIOUS
<1>4. ASSUME NEW t \in C, t \subseteq s, t # s
      PROVE  FALSE
  <2>1. Cardinality(t) <= Cardinality(s) /\ Cardinality(t) # Cardinality(s)
    BY <1>4, FS_Subset
  <2>2. Cardinality(t) \in Nat /\ Cardinality(s) \in Nat
    BY FS_CardinalityType
  <2> HIDE DEF T
  <2>3. Cardinality(t) \in T
    BY DEF T
  <2> QED BY <1>2, <1>3, <2>1, <2>2, <2>3
<1> QED BY <1>4

(* MapThenSumSet of a function's values. *)
Sum(f, S) == MapThenSumSet(LAMBDA x : f[x], S)

Some(S) == CHOOSE x \in S : TRUE
Partial(f, S, g) ==
  [s \in SUBSET S |-> IF s = {} THEN 0 ELSE f[Some(s)] + g[s \ {Some(s)}]]
Sums(f, S) == CHOOSE g : g = Partial(f, S, g)

LEMMA SumIs ==
  ASSUME NEW f, NEW S
  PROVE  Sum(f, S) = Sums(f, S)[S]
BY Zenon DEF Sum, MapThenSumSet, MapThenFoldSet, Partial, Some, Sums

LEMMA PartialEmpty ==
  ASSUME NEW f, NEW S, NEW g, g = Partial(f, S, g)
  PROVE  g[{}] = 0
<1>1. {} \in SUBSET S
  OBVIOUS
<1> QED BY <1>1, Zenon DEF Partial

LEMMA PartialAt ==
  ASSUME NEW f, NEW S, NEW g, g = Partial(f, S, g), NEW s, s \subseteq S, s # {}
  PROVE  g[s] = f[Some(s)] + g[s \ {Some(s)}]
BY DEF Partial

LEMMA SomeOf ==
  ASSUME NEW s, s # {}
  PROVE  Some(s) \in s
BY DEF Some

(* Two ways to sum the subsets of two sets agree on the subsets of both. *)
LEMMA PartialsAgree ==
  ASSUME NEW f, NEW S, NEW g, g = Partial(f, S, g),
         NEW T, NEW h, h = Partial(f, T, h),
         NEW s, s \subseteq S, s \subseteq T, IsFiniteSet(s)
  PROVE  g[s] = h[s]
<1> DEFINE C == {t \in SUBSET s : g[t] # h[t]}
<1> SUFFICES ASSUME C # {} PROVE FALSE
  OBVIOUS
<1>1. PICK t \in C : \A u : u \subseteq t /\ u # t => u \notin C
  <2>1. \A u \in C : IsFiniteSet(u)
    BY FS_Subset
  <2> HIDE DEF C
  <2> QED BY <2>1, SmallestSet
<1>2. CASE t = {}
  <2>1. g[{}] = 0 /\ h[{}] = 0
    BY PartialEmpty
  <2>2. g[t] # h[t]
    OBVIOUS
  <2> HIDE DEF C
  <2> QED BY <1>2, <2>1, <2>2, Zenon
<1>3. CASE t # {}
  <2> DEFINE u == t \ {Some(t)}
  <2>1. u \subseteq t /\ u # t
    BY <1>3, SomeOf
  <2>2. g[u] = h[u]
    BY <1>1, <2>1
  <2>3. g[t] = f[Some(t)] + g[u] /\ h[t] = f[Some(t)] + h[u]
    <3>1. t \subseteq S /\ t \subseteq T
      OBVIOUS
    <3> HIDE DEF C
    <3> QED BY <1>3, <3>1, PartialAt
  <2> QED BY <2>2, <2>3
<1> QED BY <1>2, <1>3

(* A finite set can be summed. *)
LEMMA PartialExists ==
  ASSUME NEW f, NEW S, IsFiniteSet(S)
  PROVE  Sums(f, S) = Partial(f, S, Sums(f, S))
<1> DEFINE Def(s) == Sums(f, s) = Partial(f, s, Sums(f, s))
           C == {s \in SUBSET S : ~Def(s)}
<1> SUFFICES ASSUME C # {} PROVE FALSE
  OBVIOUS
<1>1. PICK s \in C : IsFiniteSet(s) /\ \A u : u \subseteq s /\ u # s => u \notin C
  <2>1. \A u \in C : IsFiniteSet(u)
    BY FS_Subset
  <2> HIDE DEF C
  <2> QED BY <2>1, SmallestSet
<1>2. ASSUME NEW u, u \subseteq s, u # s
      PROVE  Def(u) /\ IsFiniteSet(u)
  <2>1. u \notin C /\ u \in SUBSET S
    BY <1>1, <1>2
  <2>2. IsFiniteSet(u)
    BY <1>1, <1>2, FS_Subset
  <2> QED BY <2>1, <2>2
<1> DEFINE g == [t \in SUBSET s |-> IF t = {} THEN 0
                     ELSE f[Some(t)] + Sums(f, t \ {Some(t)})[t \ {Some(t)}]]
<1>3. ASSUME NEW t \in SUBSET s, t # {}
      PROVE  g[t \ {Some(t)}] = Sums(f, t \ {Some(t)})[t \ {Some(t)}]
  <2> DEFINE u == t \ {Some(t)}
             v == u \ {Some(u)}
  <2>1. u \subseteq s /\ u # s
    BY <1>3, SomeOf
  <2>2. Sums(f, u) = Partial(f, u, Sums(f, u))
    BY <1>2, <2>1
  <2> HIDE DEF u
  <2>3. CASE u = {}
    BY <2>1, <2>2, <2>3, PartialEmpty DEF u
  <2>4. CASE u # {}
    <3>1. Sums(f, u)[u] = f[Some(u)] + Sums(f, u)[v]
      BY <2>2, <2>4, PartialAt
    <3>2. v \subseteq u /\ v # s /\ v \subseteq s
      BY <2>1, <2>4, SomeOf
    <3>3. Sums(f, v) = Partial(f, v, Sums(f, v)) /\ IsFiniteSet(v)
      BY <1>2, <3>2
    <3>4. Sums(f, u)[v] = Sums(f, v)[v]
      BY <2>2, <3>2, <3>3, PartialsAgree
    <3>5. g[u] = f[Some(u)] + Sums(f, v)[v]
      BY <2>1, <2>4
    <3> QED BY <3>1, <3>4, <3>5 DEF u
  <2> QED BY <2>3, <2>4
<1>4. g = Partial(f, s, g)
  <2> DEFINE h == Partial(f, s, g)
  <2>1. \A t \in SUBSET s : g[t] = h[t]
    BY <1>3 DEF Partial
  <2>2. h = [t \in SUBSET s |-> h[t]]
    BY DEF Partial
  <2> HIDE DEF h
  <2>3. g = [t \in SUBSET s |-> g[t]]
    OBVIOUS
  <2> HIDE DEF g
  <2>4. g = h
    BY <2>1, <2>2, <2>3
  <2> QED BY <2>4 DEF h
<1> HIDE DEF g
<1>5. Def(s)
  BY <1>4, Zenon DEF Sums
<1> QED BY <1>5

LEMMA SumEmpty ==
  ASSUME NEW f
  PROVE  Sum(f, {}) = 0
<1>1. Sums(f, {}) = Partial(f, {}, Sums(f, {}))
  BY FS_EmptySet, PartialExists
<1>2. Sums(f, {})[{}] = 0
  BY <1>1, PartialEmpty
<1> QED BY <1>2, SumIs

LEMMA SumSome ==
  ASSUME NEW f, NEW S, IsFiniteSet(S), S # {}
  PROVE  Sum(f, S) = f[Some(S)] + Sum(f, S \ {Some(S)})
<1> DEFINE T == S \ {Some(S)}
<1>1. IsFiniteSet(T)
  BY FS_Subset
<1>2. Sums(f, S)[T] = Sums(f, T)[T]
  <2>1. Sums(f, S) = Partial(f, S, Sums(f, S)) /\ Sums(f, T) = Partial(f, T, Sums(f, T))
    BY <1>1, PartialExists
  <2>2. T \subseteq S
    OBVIOUS
  <2> HIDE DEF T
  <2> QED BY <1>1, <2>1, <2>2, PartialsAgree
<1>3. Sums(f, S)[S] = f[Some(S)] + Sums(f, S)[T]
  <2>1. Sums(f, S) = Partial(f, S, Sums(f, S))
    BY PartialExists
  <2> HIDE DEF T
  <2>2. Sums(f, S)[S] = f[Some(S)] + Sums(f, S)[S \ {Some(S)}]
    BY <2>1, PartialAt
  <2> QED BY <2>2 DEF T
<1> QED BY <1>2, <1>3, SumIs

(* Any element may be taken out of a sum of integers first. *)
LEMMA SumRemove ==
  ASSUME NEW f, NEW S, IsFiniteSet(S), \A x \in S : f[x] \in Int
  PROVE  /\ Sum(f, S) \in Int
         /\ \A x \in S : Sum(f, S) = f[x] + Sum(f, S \ {x})
<1> DEFINE P(s) == /\ Sum(f, s) \in Int
                   /\ \A x \in s : Sum(f, s) = f[x] + Sum(f, s \ {x})
           C == {s \in SUBSET S : ~P(s)}
<1> SUFFICES ASSUME C # {} PROVE FALSE
  OBVIOUS
<1>1. PICK s \in C : IsFiniteSet(s) /\ \A u : u \subseteq s /\ u # s => u \notin C
  <2>1. \A u \in C : IsFiniteSet(u)
    BY FS_Subset
  <2> HIDE DEF C
  <2> QED BY <2>1, SmallestSet
<1>2. \A u : u \subseteq s /\ u # s => P(u)
  <2>1. \A u : u \subseteq s /\ u # s => u \notin C /\ u \in SUBSET S
    BY <1>1
  <2> QED BY <2>1
<1>3. CASE s = {}
  <2>1. P({})
    BY SumEmpty
  <2> QED BY <1>3, <2>1
<1>4. CASE s # {}
  <2> DEFINE y == Some(s)
  <2>1. y \in s /\ Sum(f, s) = f[y] + Sum(f, s \ {y})
    BY <1>1, <1>4, SomeOf, SumSome
  <2> HIDE DEF y
  <2>2. \A x \in s : f[x] \in Int
    OBVIOUS
  <2>3. \A x \in s : P(s \ {x})
    BY <1>2
  <2>4. Sum(f, s) \in Int
    BY <2>1, <2>2, <2>3
  <2>5. ASSUME NEW x \in s, x # y
        PROVE  Sum(f, s) = f[x] + Sum(f, s \ {x})
    <3> DEFINE r == (s \ {x}) \ {y}
    <3>1. r = (s \ {y}) \ {x}
      OBVIOUS
    <3>2. Sum(f, s \ {x}) = f[y] + Sum(f, r) /\ Sum(f, s \ {x}) \in Int
      BY <2>1, <2>3, <2>5
    <3>3. Sum(f, s \ {y}) = f[x] + Sum(f, r)
      BY <2>1, <2>3, <2>5, <3>1
    <3>4. P(r)
      <4>1. r \subseteq s /\ r # s
        BY <2>1
      <4> HIDE DEF r
      <4> QED BY <1>2, <4>1
    <3> HIDE DEF r
    <3>5. f[x] \in Int /\ f[y] \in Int /\ Sum(f, r) \in Int
      BY <2>1, <2>2, <3>4
    <3> QED BY <2>1, <3>2, <3>3, <3>5
  <2>6. P(s)
    BY <2>1, <2>4, <2>5
  <2> QED BY <2>6
<1> QED BY <1>3, <1>4
LEMMA SumNat ==
  ASSUME NEW f, NEW S, IsFiniteSet(S), \A x \in S : f[x] \in Nat
  PROVE  Sum(f, S) \in Nat
<1> DEFINE C == {s \in SUBSET S : Sum(f, s) \notin Nat}
<1> SUFFICES ASSUME C # {} PROVE FALSE
  OBVIOUS
<1>1. PICK s \in C : IsFiniteSet(s) /\ \A u : u \subseteq s /\ u # s => u \notin C
  <2>1. \A u \in C : IsFiniteSet(u)
    BY FS_Subset
  <2> HIDE DEF C
  <2> QED BY <2>1, SmallestSet
<1>2. s # {}
  BY SumEmpty
<1>3. PICK x \in s : TRUE
  BY <1>2
<1>4. Sum(f, s \ {x}) \in Nat
  BY <1>1
<1>5. Sum(f, s) = f[x] + Sum(f, s \ {x})
  BY <1>1, SumRemove
<1> QED BY <1>4, <1>5

LEMMA SumAdd ==
  ASSUME NEW f, NEW S, IsFiniteSet(S), NEW x, x \notin S,
         \A y \in S \cup {x} : f[y] \in Int
  PROVE  Sum(f, S \cup {x}) = Sum(f, S) + f[x]
<1>1. IsFiniteSet(S \cup {x})
  BY FS_AddElement
<1>2. (S \cup {x}) \ {x} = S
  OBVIOUS
<1>3. Sum(f, S \cup {x}) = f[x] + Sum(f, S) /\ Sum(f, S) \in Int
  BY <1>1, <1>2, SumRemove
<1> QED BY <1>3

LEMMA SumSame ==
  ASSUME NEW f, NEW g, NEW S, IsFiniteSet(S),
         \A x \in S : f[x] \in Int /\ f[x] = g[x]
  PROVE  Sum(f, S) = Sum(g, S)
<1> DEFINE C == {s \in SUBSET S : Sum(f, s) # Sum(g, s)}
<1> SUFFICES ASSUME C # {} PROVE FALSE
  OBVIOUS
<1>1. PICK s \in C : IsFiniteSet(s) /\ \A u : u \subseteq s /\ u # s => u \notin C
  <2>1. \A u \in C : IsFiniteSet(u)
    BY FS_Subset
  <2> HIDE DEF C
  <2> QED BY <2>1, SmallestSet
<1>2. s # {}
  BY SumEmpty
<1>3. PICK x \in s : TRUE
  BY <1>2
<1>4. Sum(f, s \ {x}) = Sum(g, s \ {x})
  BY <1>1
<1>5. Sum(f, s) = f[x] + Sum(f, s \ {x}) /\ Sum(g, s) = g[x] + Sum(g, s \ {x})
  BY <1>1, SumRemove
<1> QED BY <1>4, <1>5

LEMMA SumUnion ==
  ASSUME NEW f, NEW S, IsFiniteSet(S), NEW T, IsFiniteSet(T), S \cap T = {},
         \A x \in S \cup T : f[x] \in Int
  PROVE  Sum(f, S \cup T) = Sum(f, S) + Sum(f, T)
<1> DEFINE C == {s \in SUBSET S : Sum(f, s \cup T) # Sum(f, s) + Sum(f, T)}
<1> SUFFICES ASSUME C # {} PROVE FALSE
  OBVIOUS
<1>1. PICK s \in C : IsFiniteSet(s) /\ \A u : u \subseteq s /\ u # s => u \notin C
  <2>1. \A u \in C : IsFiniteSet(u)
    BY FS_Subset
  <2> HIDE DEF C
  <2> QED BY <2>1, SmallestSet
<1>2. Sum(f, T) \in Int
  BY SumRemove
<1>3. s # {}
  <2>1. {} \cup T = T /\ Sum(f, {}) = 0
    BY SumEmpty
  <2>2. Sum(f, {} \cup T) = Sum(f, {}) + Sum(f, T)
    BY <1>2, <2>1
  <2> QED BY <2>2
<1>4. PICK x \in s : TRUE
  BY <1>3
<1> DEFINE r == s \ {x}
<1>5. Sum(f, r \cup T) = Sum(f, r) + Sum(f, T)
  <2>1. r \notin C /\ r \in SUBSET S
    BY <1>1
  <2> QED BY <2>1
<1>6. IsFiniteSet(s \cup T) /\ (s \cup T) \ {x} = r \cup T
  <2>1. IsFiniteSet(s \cup T)
    BY <1>1, FS_Union
  <2>2. x \notin T
    OBVIOUS
  <2> QED BY <2>1, <2>2
<1> HIDE DEF r
<1>7. Sum(f, s \cup T) = f[x] + Sum(f, r \cup T)
  BY <1>6, SumRemove
<1>8. Sum(f, s) = f[x] + Sum(f, r) /\ Sum(f, r) \in Int /\ f[x] \in Int
  <2>1. Sum(f, s) = f[x] + Sum(f, s \ {x})
    BY <1>1, SumRemove
  <2>2. IsFiniteSet(s \ {x}) /\ s \ {x} \subseteq S
    BY <1>1, FS_Subset
  <2>3. Sum(f, s \ {x}) \in Int
    BY <2>2, SumRemove
  <2> QED BY <2>1, <2>3 DEF r
<1>9. Sum(f, s \cup T) = Sum(f, s) + Sum(f, T)
  BY <1>2, <1>5, <1>7, <1>8
<1> QED BY <1>9

(* A nonempty set of integers that has a bound has a largest: Max has a      *)
(* choice, and so has findBestParent.                                        *)
LEMMA LargestOf ==
  ASSUME NEW S, S # {}, S \subseteq Int, NEW k \in Int, \A n \in S : n <= k
  PROVE  \E m \in S : \A n \in S : n <= m
<1> DEFINE back == {k - n : n \in S}
<1>1. back \subseteq Nat
  OBVIOUS
<1>2. PICK n \in S : TRUE
  OBVIOUS
<1>3. k - n \in back
  BY <1>2
<1> HIDE DEF back
<1>4. PICK x \in back : \A y \in back : x <= y
  BY <1>1, <1>3, LeastNat
<1>5. PICK m \in S : x = k - m
  BY DEF back
<1>6. ASSUME NEW i \in S PROVE i <= m
  <2>1. k - i \in back
    BY DEF back
  <2>2. x <= k - i
    BY <1>4, <2>1
  <2> QED BY <1>5, <2>2
<1> QED BY <1>6

LEMMA LastTurn ==
  ASSUME NEW k \in Nat, NEW S \in SUBSET (0 .. k), S # {}
  PROVE  \E m \in S : \A n \in S : n <= m
<1>1. S \subseteq Int /\ k \in Int /\ \A n \in S : n <= k
  OBVIOUS
<1> QED BY <1>1, LargestOf

-----------------------------------------------------------------------------
(* Lemmas about one tree *)

(* A fresh tree, the root alone, satisfies the invariant. *)
LEMMA NewTreeInv == TreeInv(NewTree)
<1> DEFINE t == NewTree
<1>1. /\ t.turn = 0 /\ t.root = 0 /\ t.compressed = {}
      /\ t.node = [n \in {0} |-> [type |-> "goal", status |-> "active",
                     parent |-> NoParent, keep |-> FALSE, tokens |-> 0]]
      /\ t = [turn |-> t.turn, root |-> t.root, compressed |-> t.compressed,
              node |-> t.node]
  BY DEF NewTree
<1>2. Nodes(t) = {0}
  BY <1>1 DEF Nodes
<1>3. t.node \in [Nodes(t) -> NodeRecords]
  BY <1>1, <1>2 DEF NodeRecords, NodeTypes, Anchored, NoParent
<1> HIDE DEF t
<1>4. IsTree(t)
  BY <1>1, <1>2, <1>3 DEF IsTree
<1> QED
  <2>1. t.node[0].type = "goal" /\ t.node[0].parent = NoParent
        /\ t.node[0].keep = FALSE
    BY <1>1
  <2>2. ParentsOlder(t) /\ KeptStayActive(t)
    BY <1>2, <2>1 DEF ParentsOlder, KeptStayActive
  <2>3. UniqueChild(t)
    BY <1>2, <2>1 DEF UniqueChild, Active
  <2> QED BY <1>1, <1>4, <2>1, <2>2, <2>3 DEF TreeInv, t

(* The node findBestParent returns, and why nothing compressible hangs from *)
(* it yet: such a child would be active and newer.                          *)
LEMMA BestParent ==
  ASSUME NEW t, TreeInv(t), NEW type
  PROVE  /\ FindBestParent(t, type) \in Nodes(t)
         /\ type \notin Anchored =>
              \A n \in Active(t) : t.node[n].parent # FindBestParent(t, type)
<1> DEFINE p == FindBestParent(t, type)
<1>1. t.turn \in Nat /\ t.root \in Nodes(t) /\ Active(t) \in SUBSET (0 .. t.turn)
  BY DEF TreeInv, IsTree, Active, Nodes
<1>2. CASE type \in Anchored
  BY <1>1, <1>2 DEF FindBestParent
<1>3. CASE type \notin Anchored /\ Active(t) = {}
  BY <1>1, <1>3 DEF FindBestParent
<1>4. CASE type \notin Anchored /\ Active(t) # {}
  <2>1. p = CHOOSE m \in Active(t) : \A n \in Active(t) : n <= m
    BY <1>4 DEF FindBestParent
  <2>2. p \in Active(t) /\ \A n \in Active(t) : n <= p
    BY <2>1, <1>1, <1>4, LastTurn
  <2>3. ASSUME NEW n \in Active(t), t.node[n].parent = p
        PROVE  FALSE
    <3>1. n \in 0 .. t.turn /\ p \in 0 .. t.turn /\ n <= p
      BY <1>1, <2>2
    <3>2. CASE n = 0
      BY <2>3, <3>1, <3>2 DEF TreeInv, NoParent
    <3>3. CASE n # 0
      BY <2>3, <3>1, <3>3 DEF TreeInv, ParentsOlder, Nodes
    <3> QED BY <3>2, <3>3
  <2> QED BY <2>2, <2>3 DEF Active
<1> QED BY <1>2, <1>3, <1>4

(* Every event of the clients has a node type, a protection and a size. *)
LEMMA ClassifyType ==
  ASSUME NEW e \in Events
  PROVE  /\ ClassifyEvent(e) \in NodeTypes
         /\ HasFactsOrDecisions(e) \in BOOLEAN /\ e.tokens \in Nat
BY EventsAssumption
   DEF ClassifyEvent, NodeTypes, Anchored, HasFactsOrDecisions, EventRecords,
       EventTypes

(* AddNode keeps the invariant: the new node is the newest, hangs from an   *)
(* older one, and is the only compressible active child of its parent.      *)
LEMMA AddNodeInv ==
  ASSUME NEW t, TreeInv(t), NEW e \in Events
  PROVE  TreeInv(AddNode(t, e))
<1> DEFINE u == AddNode(t, e)
           new == t.turn + 1
           type == ClassifyEvent(e)
           p == FindBestParent(t, type)
           node == [type |-> type, status |-> "active", parent |-> p,
                    keep |-> HasFactsOrDecisions(e), tokens |-> e.tokens]
<1>1. /\ t.turn \in Nat /\ t.root \in 0 .. t.turn
      /\ t.node \in [0 .. t.turn -> NodeRecords] /\ t.compressed = {}
      /\ t = [turn |-> t.turn, root |-> t.root, compressed |-> t.compressed,
              node |-> t.node]
  BY DEF TreeInv, IsTree, Nodes
<1>2. p \in 0 .. t.turn /\ (type \notin Anchored =>
                              \A n \in Active(t) : t.node[n].parent # p)
  BY BestParent DEF Nodes
<1>3. node \in NodeRecords
  BY <1>1, <1>2, ClassifyType DEF NodeRecords
<1>4. /\ u.turn = new /\ u.root = t.root /\ u.compressed = {}
      /\ u.node = [n \in 0 .. new |-> IF n = new THEN node ELSE t.node[n]]
      /\ u = [turn |-> u.turn, root |-> u.root, compressed |-> u.compressed,
              node |-> u.node]
  <2> DEFINE f == [n \in 0 .. new |-> IF n = new THEN node ELSE t.node[n]]
  <2>1. u = [t EXCEPT !.turn = new, !.node = f]
    BY DEF AddNode
  <2> HIDE DEF u, f, new
  <2>2. u = [turn |-> new, root |-> t.root, compressed |-> t.compressed, node |-> f]
    BY <1>1, <2>1
  <2> QED BY <1>1, <2>2 DEF f
<1> HIDE DEF u, p, node, type
<1>5. /\ Nodes(u) = 0 .. new /\ new \in Nat \ {0} /\ u.node[new] = node
      /\ \A n \in 0 .. t.turn : n \in 0 .. new /\ n # new /\ u.node[n] = t.node[n]
      /\ \A n \in 0 .. new : n # new => n \in 0 .. t.turn
  BY <1>1, <1>4 DEF Nodes
<1>6. IsTree(u)
  BY <1>1, <1>3, <1>4, <1>5 DEF IsTree
<1>7. ParentsOlder(u) /\ u.node[0].parent = NoParent
  <2>1. node.parent = p
    BY DEF node
  <2>2. \A n \in 0 .. new : n # 0 /\ n # new => u.node[n].parent \in 0 .. n - 1
    BY <1>5 DEF TreeInv, ParentsOlder, Nodes
  <2>3. u.node[new].parent \in 0 .. new - 1
    BY <1>1, <1>2, <1>5, <2>1
  <2>4. u.node[0].parent = NoParent
    BY <1>1, <1>5 DEF TreeInv
  <2> QED BY <1>5, <2>2, <2>3, <2>4 DEF ParentsOlder
<1>8. UniqueChild(u)
  <2>1. SUFFICES ASSUME NEW m \in Active(u), NEW n \in Active(u),
                        u.node[m].type \notin Anchored,
                        u.node[n].type \notin Anchored,
                        u.node[m].parent = u.node[n].parent
                 PROVE  m = n
    BY DEF UniqueChild
  <2>2. node.type = type /\ node.parent = p
    BY DEF node
  <2>3. \A i \in Active(u) : i # new => i \in Active(t) /\ u.node[i] = t.node[i]
    BY <1>1, <1>5 DEF Active, Nodes
  <2>4. CASE m # new /\ n # new
    BY <2>1, <2>3, <2>4 DEF TreeInv, UniqueChild
  <2>5. CASE m = new /\ n # new
    BY <1>2, <1>5, <2>1, <2>2, <2>3, <2>5
  <2>6. CASE m # new /\ n = new
    BY <1>2, <1>5, <2>1, <2>2, <2>3, <2>6
  <2> QED BY <2>4, <2>5, <2>6
<1>9. KeptStayActive(u)
  <2>1. node.status = "active"
    BY DEF node
  <2> QED BY <1>5, <2>1 DEF TreeInv, KeptStayActive, Nodes
<1> QED BY <1>4, <1>6, <1>7, <1>8, <1>9 DEF TreeInv, u

(* A branch has at most one compressible node, so none reaches three. *)
LEMMA NothingToCompact ==
  ASSUME NEW t, TreeInv(t), NEW swept
  PROVE  ToCompact(t, swept) = {}
<1> SUFFICES ASSUME NEW p \in Nodes(t),
                    Cardinality(FilterCompressible(t, Branch(t, p))) >= 3
             PROVE  FALSE
  BY DEF ToCompact
<1> DEFINE S == FilterCompressible(t, Branch(t, p))
<1>1. \A m, n \in S : m = n
  BY DEF FilterCompressible, Branch, Candidates, TreeInv, UniqueChild
<1>2. CASE S = {}
  BY <1>2, FS_EmptySet
<1>3. CASE S # {}
  <2>1. PICK m \in S : TRUE
    BY <1>3
  <2>2. S = {m}
    BY <1>1, <2>1
  <2>3. Cardinality(S) = 1
    BY <2>2, FS_Singleton
  <2> QED BY <2>3
<1> QED BY <1>2, <1>3

(* A collection keeps the invariant whatever it sweeps: it compacts nothing *)
(* and archives only nodes without facts or decisions.                      *)
LEMMA RunInv ==
  ASSUME NEW t, TreeInv(t), NEW swept \in SUBSET Candidates(t)
  PROVE  TreeInv(Run(t, swept, {}))
<1> DEFINE f == [n \in Nodes(t) |->
                   IF n \in swept THEN [t.node[n] EXCEPT !.status = "archived"]
                   ELSE t.node[n]]
           u == Run(t, swept, {})
<1>1. /\ t.turn \in Nat /\ t.root \in Nodes(t) /\ t.compressed = {}
      /\ t.node \in [Nodes(t) -> NodeRecords]
      /\ t = [turn |-> t.turn, root |-> t.root, compressed |-> t.compressed,
              node |-> t.node]
  BY DEF TreeInv, IsTree
<1>2. u = [turn |-> t.turn, root |-> t.root, compressed |-> {}, node |-> f]
  <2>1. Archive(t, swept \cup {}) = [t EXCEPT !.node = f]
    BY DEF Archive
  <2>2. UNION {FilterCompressible(t, Branch(t, p)) : p \in {}} = {}
    OBVIOUS
  <2>3. {[parent |-> p, nodes |-> FilterCompressible(t, Branch(t, p))] : p \in {}} = {}
    OBVIOUS
  <2>4. u = [Archive(t, swept \cup {}) EXCEPT !.compressed = @ \cup {}]
    BY <2>2, <2>3 DEF Run
  <2> HIDE DEF u, f
  <2> QED BY <1>1, <2>1, <2>4
<1>3. \A n \in Nodes(t) :
        /\ f[n] \in NodeRecords /\ f[n].parent = t.node[n].parent
        /\ f[n].type = t.node[n].type /\ f[n].keep = t.node[n].keep
        /\ n \notin swept => f[n] = t.node[n]
        /\ n \in swept => f[n].status = "archived" /\ ~t.node[n].keep
  BY <1>1 DEF NodeRecords, Candidates
<1>4. f \in [Nodes(t) -> NodeRecords]
  BY <1>3
<1> HIDE DEF u, f
<1>5. /\ Nodes(u) = Nodes(t) /\ u.node = f /\ u.compressed = {}
      /\ Active(u) \subseteq Active(t)
  <2>1. Nodes(u) = Nodes(t) /\ u.node = f /\ u.compressed = {}
    BY <1>2 DEF Nodes
  <2> QED BY <2>1, <1>3 DEF Active
<1>6. IsTree(u)
  BY <1>1, <1>2, <1>4, <1>5 DEF IsTree
<1>7. ParentsOlder(u) /\ u.node[0].parent = NoParent
  <2>1. 0 \in Nodes(t)
    BY <1>1 DEF Nodes
  <2>2. u.node[0].parent = NoParent
    BY <2>1, <1>3, <1>5 DEF TreeInv
  <2>3. \A n \in Nodes(u) : u.node[n].parent = t.node[n].parent
    BY <1>3, <1>5
  <2> QED BY <1>5, <2>2, <2>3 DEF TreeInv, ParentsOlder
<1>8. UniqueChild(u)
  BY <1>3, <1>5 DEF TreeInv, UniqueChild, Active
<1>9. KeptStayActive(u)
  BY <1>3, <1>5 DEF TreeInv, KeptStayActive
<1> QED BY <1>5, <1>6, <1>7, <1>8, <1>9 DEF TreeInv, u

(* So does a restore, whichever goal of the snapshot becomes the root. *)
LEMMA RestoreInv ==
  ASSUME NEW s, TreeInv(s), NEW root \in Nodes(s)
  PROVE  TreeInv(RestoreFromSnapshot(s, root))
<1> DEFINE u == RestoreFromSnapshot(s, root)
<1>1. /\ s = [turn |-> s.turn, root |-> s.root, compressed |-> s.compressed,
              node |-> s.node]
      /\ u = [s EXCEPT !.root = root]
  BY DEF TreeInv, IsTree, RestoreFromSnapshot
<1> HIDE DEF u
<1>2. u = [turn |-> s.turn, root |-> root, compressed |-> s.compressed,
           node |-> s.node]
  BY <1>1
<1>3. Nodes(u) = Nodes(s) /\ Active(u) = Active(s)
  BY <1>2 DEF Nodes, Active
<1>4. IsTree(u)
  BY <1>2, <1>3 DEF TreeInv, IsTree
<1>5. ParentsOlder(u) /\ UniqueChild(u) /\ KeptStayActive(u)
  BY <1>2, <1>3 DEF TreeInv, ParentsOlder, UniqueChild, KeptStayActive
<1> QED BY <1>2, <1>4, <1>5 DEF TreeInv, u

-----------------------------------------------------------------------------
(* What a tree holds, and what a collection frees *)

LEMMA TokensSum ==
  ASSUME NEW t, NEW S
  PROVE  Tokens(t, S) = Sum([n \in S |-> t.node[n].tokens], S)
<1> DEFINE f == [n \in S |-> t.node[n].tokens]
           Q(g) == [s \in SUBSET S |-> IF s = {} THEN 0 ELSE t.node[Some(s)].tokens + g[s \ {Some(s)}]]
<1>1. Tokens(t, S) = (CHOOSE g : g = Q(g))[S]
  BY Zenon DEF Tokens, MapThenSumSet, MapThenFoldSet, Some
<1>2. ASSUME NEW g PROVE Q(g) = Partial(f, S, g)
  <2>1. \A s \in SUBSET S : s # {} => t.node[Some(s)].tokens = f[Some(s)]
    BY SomeOf
  <2> HIDE DEF f
  <2> QED BY <2>1 DEF Partial
<1> HIDE DEF Q, f
<1>3. (CHOOSE g : g = Q(g)) = (CHOOSE g : g = Partial(f, S, g))
  BY <1>2, Zenon
<1> QED BY <1>1, <1>3, SumIs, Zenon DEF Sums, f

LEMMA TreeFinite ==
  ASSUME NEW t, TreeInv(t), NEW S, S \subseteq Nodes(t)
  PROVE  IsFiniteSet(S) /\ Tokens(t, S) \in Nat
<1>1. IsFiniteSet(S)
  <2>1. t.turn \in Nat
    BY DEF TreeInv, IsTree
  <2>2. IsFiniteSet(0 .. t.turn)
    BY <2>1, FS_Interval
  <2> QED BY <2>2, FS_Subset DEF Nodes
<1>2. \A n \in S : t.node[n].tokens \in Nat
  BY DEF TreeInv, IsTree, NodeRecords
<1> DEFINE f == [n \in S |-> t.node[n].tokens]
<1>3. \A n \in S : f[n] \in Nat
  BY <1>2
<1> HIDE DEF f
<1>4. Sum(f, S) \in Nat
  BY <1>1, <1>3, SumNat
<1> QED BY <1>1, <1>4, TokensSum DEF f

(* Nodes that keep their size keep their sum. *)
LEMMA TokensSame ==
  ASSUME NEW t, TreeInv(t), NEW S, S \subseteq Nodes(t), NEW u,
         \A n \in S : u.node[n].tokens = t.node[n].tokens
  PROVE  Tokens(u, S) = Tokens(t, S)
<1>1. [n \in S |-> u.node[n].tokens] = [n \in S |-> t.node[n].tokens]
  OBVIOUS
<1> QED BY <1>1, TokensSum

LEMMA TokensUnion ==
  ASSUME NEW t, TreeInv(t), NEW S, S \subseteq Nodes(t), NEW T, T \subseteq Nodes(t),
         S \cap T = {}
  PROVE  Tokens(t, S \cup T) = Tokens(t, S) + Tokens(t, T)
<1> DEFINE f == [n \in S \cup T |-> t.node[n].tokens]
           g == [n \in S |-> t.node[n].tokens]
           h == [n \in T |-> t.node[n].tokens]
<1>1. IsFiniteSet(S) /\ IsFiniteSet(T)
  BY TreeFinite
<1>2. \A n \in S \cup T : t.node[n].tokens \in Int
  BY DEF TreeInv, IsTree, NodeRecords
<1>3. /\ \A n \in S \cup T : f[n] \in Int
      /\ \A n \in S : f[n] \in Int /\ f[n] = g[n]
      /\ \A n \in T : f[n] \in Int /\ f[n] = h[n]
  BY <1>2
<1>4. Tokens(t, S \cup T) = Sum(f, S \cup T) /\ Tokens(t, S) = Sum(g, S)
      /\ Tokens(t, T) = Sum(h, T)
  BY TokensSum
<1> HIDE DEF f, g, h
<1>5. Sum(f, S) = Sum(g, S) /\ Sum(f, T) = Sum(h, T)
  BY <1>1, <1>3, SumSame
<1> QED BY <1>1, <1>3, <1>4, <1>5, SumUnion

(* Nothing is added for the branches that were not compacted. *)
LEMMA NothingCompacted ==
  ASSUME NEW t, NEW swept, Tokens(t, swept) \in Nat
  PROVE  TokensFreed(t, swept, {}) = Tokens(t, swept)
<1> DEFINE size(p) == Tokens(t, FilterCompressible(t, Branch(t, p))) - CompressedTokens
           Q(g) == [s \in SUBSET {} |-> IF s = {} THEN 0 ELSE size(Some(s)) + g[s \ {Some(s)}]]
           zero == [s \in SUBSET {} |-> 0]
<1>1. TokensFreed(t, swept, {}) = Tokens(t, swept) + (CHOOSE g : g = Q(g))[{}]
  BY Zenon DEF TokensFreed, MapThenSumSet, MapThenFoldSet, Some
<1> HIDE DEF size
<1>2. ASSUME NEW g PROVE Q(g) = zero
  OBVIOUS
<1>3. zero[{}] = 0
  OBVIOUS
<1> HIDE DEF Q, zero
<1>4. (CHOOSE g : g = Q(g)) = zero
  BY <1>2, Zenon
<1>5. TokensFreed(t, swept, {}) = Tokens(t, swept) + 0
  BY <1>1, <1>3, <1>4, Zenon
<1> QED BY <1>5

-----------------------------------------------------------------------------
(* Depth and width *)

(* depthFrom, along the parents: body is what a node's depth is when below    *)
(* gives its parent's.                                                        *)
Below(t, n, below) ==
  IF n = t.root THEN 0
  ELSE IF t.node[n].parent = NoParent \/ n \in Merged(t) THEN -1
  ELSE LET d == below[t.node[n].parent] IN IF d < 0 THEN -1 ELSE d + 1
IsBelow(t, k, below) == below = [n \in 0 .. k |-> Below(t, n, below)]
Depths(t, k) == CHOOSE below : IsBelow(t, k, below)

(* The depth of a node depends on those of older nodes. *)
LEMMA BelowSame ==
  ASSUME NEW t, TreeInv(t), NEW n \in Nodes(t), NEW f, NEW g,
         \A m \in 0 .. n - 1 : f[m] = g[m]
  PROVE  Below(t, n, f) = Below(t, n, g)
<1>1. n = 0 => t.node[n].parent = NoParent
  BY DEF TreeInv
<1>2. n # 0 => t.node[n].parent \in 0 .. n - 1
  BY DEF TreeInv, ParentsOlder
<1>3. t.node[n].parent # NoParent => f[t.node[n].parent] = g[t.node[n].parent]
  BY <1>1, <1>2
<1> QED BY <1>3 DEF Below

LEMMA DepthsExist ==
  ASSUME NEW t, TreeInv(t), NEW k \in Nodes(t)
  PROVE  IsBelow(t, k, Depths(t, k))
<1> DEFINE Def(i) == \E f : IsBelow(t, i, f)
           C == {i \in Nodes(t) : ~Def(i)}
<1> SUFFICES ASSUME C # {} PROVE FALSE
  BY Zenon DEF Depths
<1>1. Nodes(t) \subseteq Nat /\ C \subseteq Nat /\ \A i \in Nodes(t) : 0 .. i \subseteq Nodes(t)
  BY DEF TreeInv, IsTree, Nodes
<1>2. PICK i \in C : \A j \in C : i <= j
  <2> HIDE DEF C
  <2> QED BY <1>1, LeastNat
<1>3. i \in Nodes(t) /\ i \in Nat /\ ~Def(i)
  BY <1>1
<1>4. PICK f : i # 0 => IsBelow(t, i - 1, f)
  <2>1. i # 0 => i - 1 \in Nodes(t) /\ i - 1 \notin C
    <3>1. i # 0 => i - 1 \in 0 .. i /\ ~(i <= i - 1)
      BY <1>3
    <3> HIDE DEF C
    <3> QED BY <1>1, <1>2, <1>3, <3>1
  <2> QED BY <2>1
<1> DEFINE g == [n \in 0 .. i |-> IF n = i THEN Below(t, i, f) ELSE f[n]]
<1>5. \A n \in 0 .. i - 1 : g[n] = f[n]
  BY <1>3
<1>6. ASSUME NEW n \in 0 .. i PROVE g[n] = Below(t, n, g)
  <2>1. \A m \in 0 .. n - 1 : f[m] = g[m]
    BY <1>3, <1>5
  <2>2. n \in Nodes(t)
    BY <1>1, <1>3
  <2>3. Below(t, n, f) = Below(t, n, g)
    <3> HIDE DEF g
    <3> QED BY <2>1, <2>2, BelowSame
  <2>4. n # i => f[n] = Below(t, n, f)
    <3>1. n # i => n \in 0 .. i - 1 /\ i # 0
      BY <1>3
    <3> QED BY <1>4, <3>1 DEF IsBelow
  <2>5. g[n] = IF n = i THEN Below(t, i, f) ELSE f[n]
    OBVIOUS
  <2> HIDE DEF g
  <2> QED BY <2>3, <2>4, <2>5
<1>7. IsBelow(t, i, g)
  <2>1. g = [n \in 0 .. i |-> g[n]]
    OBVIOUS
  <2> HIDE DEF g
  <2>2. g = [n \in 0 .. i |-> Below(t, n, g)]
    BY <1>6, <2>1
  <2> QED BY <2>2 DEF IsBelow
<1> HIDE DEF g
<1> QED BY <1>3, <1>7

(* The depths of an older tree are those of the tree that grew from it. *)
LEMMA DepthsAgree ==
  ASSUME NEW t, TreeInv(t), NEW u, TreeInv(u), t.turn <= u.turn, u.root = t.root,
         \A n \in Nodes(t) : u.node[n].parent = t.node[n].parent
  PROVE  \A n \in Nodes(t) : Depths(u, u.turn)[n] = Depths(t, t.turn)[n]
<1> DEFINE f == Depths(t, t.turn)
           g == Depths(u, u.turn)
           C == {n \in Nodes(t) : f[n] # g[n]}
<1> SUFFICES ASSUME C # {} PROVE FALSE
  OBVIOUS
<1>1. /\ t.turn \in Nat /\ u.turn \in Nat /\ Nodes(t) = 0 .. t.turn
      /\ Nodes(u) = 0 .. u.turn /\ Merged(t) = {} /\ Merged(u) = {}
  BY DEF TreeInv, IsTree, Nodes, Merged
<1>2. IsBelow(t, t.turn, f) /\ IsBelow(u, u.turn, g)
  <2>1. t.turn \in Nodes(t) /\ u.turn \in Nodes(u)
    BY <1>1
  <2> QED BY <2>1, DepthsExist
<1> HIDE DEF f, g
<1>3. PICK n \in C : \A j \in C : n <= j
  <2>1. C \subseteq Nat
    BY <1>1
  <2> HIDE DEF C
  <2> QED BY <2>1, LeastNat
<1>4. n \in 0 .. t.turn /\ n \in 0 .. u.turn /\ n \in Nodes(t) /\ n \in Nodes(u)
  BY <1>1
<1>5. \A m \in 0 .. n - 1 : f[m] = g[m]
  BY <1>1, <1>3, <1>4
<1>6. f[n] = Below(t, n, f) /\ g[n] = Below(u, n, g)
  BY <1>2, <1>4 DEF IsBelow
<1>7. Below(u, n, g) = Below(t, n, g)
  BY <1>1, <1>4 DEF Below
<1>8. Below(t, n, f) = Below(t, n, g)
  BY <1>4, <1>5, BelowSame
<1> QED BY <1>6, <1>7, <1>8

(* A depth is at most the number of older nodes. *)
LEMMA DepthsBounded ==
  ASSUME NEW t, TreeInv(t)
  PROVE  \A n \in Nodes(t) : Depths(t, t.turn)[n] \in -1 .. n
<1> DEFINE f == Depths(t, t.turn)
           C == {n \in Nodes(t) : f[n] \notin -1 .. n}
<1> SUFFICES ASSUME C # {} PROVE FALSE
  OBVIOUS
<1>1. t.turn \in Nat /\ Nodes(t) = 0 .. t.turn /\ t.turn \in Nodes(t)
  BY DEF TreeInv, IsTree, Nodes
<1>2. IsBelow(t, t.turn, f)
  BY <1>1, DepthsExist
<1> HIDE DEF f
<1>3. PICK n \in C : \A j \in C : n <= j
  <2>1. C \subseteq Nat
    BY <1>1
  <2> HIDE DEF C
  <2> QED BY <2>1, LeastNat
<1>4. n \in 0 .. t.turn /\ n \in Nodes(t) /\ f[n] = Below(t, n, f)
  BY <1>1, <1>2 DEF IsBelow
<1>5. \A m \in 0 .. n - 1 : f[m] \in -1 .. m
  BY <1>1, <1>3, <1>4
<1>6. n = 0 => t.node[n].parent = NoParent
  BY DEF TreeInv
<1>7. n # 0 => t.node[n].parent \in 0 .. n - 1
  BY <1>4 DEF TreeInv, ParentsOlder
<1>8. Below(t, n, f) \in -1 .. n
  <2>1. CASE n = t.root
    BY <1>4, <2>1 DEF Below
  <2>2. CASE n # t.root /\ (t.node[n].parent = NoParent \/ n \in Merged(t))
    BY <1>4, <2>2 DEF Below
  <2>3. CASE n # t.root /\ ~(t.node[n].parent = NoParent \/ n \in Merged(t))
    <3> DEFINE p == t.node[n].parent
    <3>1. p \in 0 .. n - 1
      BY <1>6, <1>7, <2>3
    <3>2. f[p] \in -1 .. p
      BY <1>5, <3>1
    <3>3. Below(t, n, f) = IF f[p] < 0 THEN -1 ELSE f[p] + 1
      BY <2>3 DEF Below
    <3> HIDE DEF p
    <3> QED BY <1>4, <3>1, <3>2, <3>3
  <2> QED BY <2>1, <2>2, <2>3
<1> QED BY <1>4, <1>8

LEMMA DepthIs ==
  ASSUME NEW t, TreeInv(t)
  PROVE  Depth(t) = Max({Depths(t, t.turn)[n] : n \in Nodes(t)})
<1>1. t.compressed = {} /\ Nodes(t) = 0 .. t.turn
  BY DEF TreeInv, Nodes
<1> DEFINE below == Depths(t, t.turn)
           depthOf(c) == IF below[c.parent] < 0 THEN -1 ELSE below[c.parent] + 1
<1>2. Depth(t) = Max({below[n] : n \in Nodes(t)} \cup {depthOf(c) : c \in t.compressed})
  BY <1>1, Zenon DEF Depth, Depths, IsBelow, Below
<1>3. {depthOf(c) : c \in t.compressed} = {}
  BY <1>1
<1> HIDE DEF below, depthOf
<1> QED BY <1>2, <1>3 DEF below

(* Where each value of one set is reached by the other, so is its maximum. *)
LEMMA MaxGrows ==
  ASSUME NEW S, S # {}, S \subseteq Int, NEW T, T \subseteq Int,
         NEW k \in Int, \A y \in T : y <= k,
         \A x \in S : \E y \in T : x <= y
  PROVE  Max(S) \in Int /\ Max(T) \in Int /\ Max(S) <= Max(T)
<1>1. \A x \in S : x <= k
  <2> SUFFICES ASSUME NEW x \in S PROVE x <= k
    OBVIOUS
  <2>1. PICK y \in T : x <= y
    OBVIOUS
  <2>2. x \in Int /\ y \in Int /\ y <= k
    OBVIOUS
  <2> QED BY <2>1, <2>2
<1>2. \E m \in S : \A n \in S : n <= m
  BY <1>1, LargestOf
<1>3. T # {}
  OBVIOUS
<1>4. \E m \in T : \A n \in T : n <= m
  BY <1>3, LargestOf
<1>5. \E m \in S : \A n \in S : m >= n
  BY <1>2
<1>6. \E m \in T : \A n \in T : m >= n
  BY <1>4
<1>7. Max(S) \in S
  BY <1>5, Zenon DEF Max
<1>8. Max(T) \in T /\ \A n \in T : Max(T) >= n
  BY <1>6, Zenon DEF Max
<1>9. PICK y \in T : Max(S) <= y
  BY <1>7
<1>10. Max(S) \in Int /\ Max(T) \in Int /\ y \in Int /\ Max(T) >= y
  BY <1>7, <1>8
<1> QED BY <1>9, <1>10

(* What AddNode leaves alone. *)
LEMMA AddedNode ==
  ASSUME NEW t, TreeInv(t), NEW e \in Events
  PROVE  LET u == AddNode(t, e)
         IN /\ TreeInv(u) /\ u.turn = t.turn + 1 /\ u.root = t.root
            /\ \A n \in Nodes(t) : n \in Nodes(u) /\ u.node[n] = t.node[n]
            /\ Archived(u) = Archived(t)
<1> DEFINE u == AddNode(t, e)
           new == t.turn + 1
<1>1. TreeInv(u)
  BY AddNodeInv
<1>2. /\ t.turn \in Nat
      /\ t = [turn |-> t.turn, root |-> t.root, compressed |-> t.compressed,
              node |-> t.node]
  BY DEF TreeInv, IsTree
<1> DEFINE node == [type |-> ClassifyEvent(e), status |-> "active",
                    parent |-> FindBestParent(t, ClassifyEvent(e)),
                    keep |-> HasFactsOrDecisions(e), tokens |-> e.tokens]
           f == [n \in 0 .. new |-> IF n = new THEN node ELSE t.node[n]]
<1>3. u = [t EXCEPT !.turn = new, !.node = f]
  BY DEF AddNode
<1>4. node.status = "active"
  OBVIOUS
<1> HIDE DEF u, node
<1>5. f[new] = node /\ \A n \in 0 .. t.turn : f[n] = t.node[n]
  BY <1>2
<1> HIDE DEF f
<1>6. u.turn = new /\ u.root = t.root /\ u.node = f
  BY <1>2, <1>3
<1>7. \A n \in Nodes(t) : n \in Nodes(u) /\ u.node[n] = t.node[n]
  BY <1>2, <1>5, <1>6 DEF Nodes
<1>8. \A n \in Nodes(u) : n \in Nodes(t) \/ u.node[n].status = "active"
  BY <1>2, <1>4, <1>5, <1>6 DEF Nodes
<1>9. Archived(u) = Archived(t)
  BY <1>7, <1>8 DEF Archived
<1> QED BY <1>1, <1>6, <1>7, <1>9 DEF u

(* A tree that grows does not become less deep... *)
LEMMA DepthGrows ==
  ASSUME NEW t, TreeInv(t), NEW e \in Events
  PROVE  /\ Depth(t) \in Int /\ Depth(AddNode(t, e)) \in Int
         /\ Depth(t) <= Depth(AddNode(t, e))
<1> DEFINE u == AddNode(t, e)
           f == Depths(t, t.turn)
           g == Depths(u, u.turn)
           S == {f[n] : n \in Nodes(t)}
           T == {g[n] : n \in Nodes(u)}
<1>1. /\ TreeInv(u) /\ u.turn = t.turn + 1 /\ u.root = t.root
      /\ \A n \in Nodes(t) : n \in Nodes(u) /\ u.node[n] = t.node[n]
  BY AddedNode
<1>2. Depth(t) = Max(S) /\ Depth(u) = Max(T)
  BY <1>1, DepthIs
<1> HIDE DEF u
<1>3. /\ t.turn \in Nat /\ 0 \in Nodes(t) /\ Nodes(t) = 0 .. t.turn
      /\ Nodes(u) = 0 .. t.turn + 1
  BY <1>1 DEF TreeInv, IsTree, Nodes
<1>4. \A n \in Nodes(t) : g[n] = f[n]
  <2>1. t.turn <= u.turn
    BY <1>1, <1>3
  <2>2. \A n \in Nodes(t) : u.node[n].parent = t.node[n].parent
    BY <1>1
  <2> QED BY <1>1, <2>1, <2>2, DepthsAgree
<1>5. /\ \A n \in Nodes(t) : f[n] \in -1 .. n
      /\ \A n \in Nodes(u) : g[n] \in -1 .. n
  BY <1>1, DepthsBounded
<1> HIDE DEF f, g
<1>6. /\ S # {} /\ S \subseteq Int /\ T \subseteq Int
      /\ t.turn + 1 \in Int /\ \A y \in T : y <= t.turn + 1
  BY <1>3, <1>5
<1>7. \A x \in S : \E y \in T : x <= y
  <2> SUFFICES ASSUME NEW n \in Nodes(t) PROVE \E y \in T : f[n] <= y
    OBVIOUS
  <2>1. g[n] \in T
    BY <1>1
  <2>2. f[n] <= g[n]
    BY <1>3, <1>4, <1>5
  <2> QED BY <2>1, <2>2
<1> HIDE DEF S, T
<1> QED BY <1>2, <1>6, <1>7, MaxGrows DEF u

(* ... nor less wide. *)
LEMMA WidthGrows ==
  ASSUME NEW t, TreeInv(t), NEW e \in Events
  PROVE  /\ Width(t) \in Int /\ Width(AddNode(t, e)) \in Int
         /\ Width(t) <= Width(AddNode(t, e))
<1> DEFINE u == AddNode(t, e)
           f(p) == Cardinality(ChildIDs(t, p))
           g(p) == Cardinality(ChildIDs(u, p))
           S == {f(p) : p \in Nodes(t)}
           T == {g(p) : p \in Nodes(u)}
<1>1. /\ TreeInv(u) /\ u.turn = t.turn + 1 /\ u.root = t.root
      /\ \A n \in Nodes(t) : n \in Nodes(u) /\ u.node[n] = t.node[n]
  BY AddedNode
<1>2. ASSUME NEW v, TreeInv(v)
      PROVE  /\ \A p : /\ Cardinality(ChildIDs(v, p)) \in Nat
                        /\ Cardinality(ChildIDs(v, p)) <= Cardinality(Nodes(v))
             /\ Cardinality(Nodes(v)) \in Nat
             /\ Width(v) = Max({Cardinality(ChildIDs(v, p)) : p \in Nodes(v)})
             /\ Merged(v) = {} /\ 0 \in Nodes(v)
  <2>1. v.compressed = {} /\ Merged(v) = {} /\ 0 \in Nodes(v)
    BY <1>2 DEF TreeInv, Merged, IsTree, Nodes
  <2>2. IsFiniteSet(Nodes(v)) /\ Cardinality(Nodes(v)) \in Nat
    BY <1>2, TreeFinite, FS_CardinalityType
  <2>3. ASSUME NEW p
        PROVE  /\ Cardinality(ChildIDs(v, p)) \in Nat
               /\ Cardinality(ChildIDs(v, p)) <= Cardinality(Nodes(v))
    <3>1. ChildIDs(v, p) \subseteq Nodes(v)
      BY DEF ChildIDs
    <3> QED BY <2>2, <3>1, FS_Subset, FS_CardinalityType
  <2>4. ASSUME NEW p
        PROVE  Cardinality(ChildIDs(v, p))
                 + Cardinality({c \in v.compressed : c.parent = p})
                 = Cardinality(ChildIDs(v, p))
    <3>1. {c \in v.compressed : c.parent = p} = {}
      BY <2>1
    <3> QED BY <2>3, <3>1, FS_EmptySet
  <2>5. Width(v) = Max({Cardinality(ChildIDs(v, p)) : p \in Nodes(v)})
    <3>1. {Cardinality(ChildIDs(v, p))
             + Cardinality({c \in v.compressed : c.parent = p}) : p \in Nodes(v)}
          = {Cardinality(ChildIDs(v, p)) : p \in Nodes(v)}
      BY <2>4
    <3> QED BY <3>1, Zenon DEF Width
  <2> QED BY <2>1, <2>2, <2>3, <2>5
<1> HIDE DEF u
<1>3. \A p \in Nodes(t) : f(p) <= g(p)
  <2> SUFFICES ASSUME NEW p \in Nodes(t) PROVE f(p) <= g(p)
    OBVIOUS
  <2>1. ChildIDs(t, p) \subseteq ChildIDs(u, p)
    BY <1>1, <1>2 DEF ChildIDs
  <2>2. IsFiniteSet(ChildIDs(u, p))
    <3>1. ChildIDs(u, p) \subseteq Nodes(u)
      BY DEF ChildIDs
    <3> QED BY <1>1, <3>1, TreeFinite
  <2> QED BY <2>1, <2>2, FS_Subset
<1>4. /\ S # {} /\ S \subseteq Int /\ T \subseteq Int
      /\ Cardinality(Nodes(u)) \in Int /\ \A y \in T : y <= Cardinality(Nodes(u))
  <2>1. /\ 0 \in Nodes(t) /\ \A p : f(p) \in Nat
        /\ \A p : g(p) \in Nat /\ g(p) <= Cardinality(Nodes(u))
        /\ Cardinality(Nodes(u)) \in Nat
    BY <1>1, <1>2
  <2> HIDE DEF f, g
  <2> QED BY <2>1
<1>5. \A x \in S : \E y \in T : x <= y
  BY <1>1, <1>3
<1>6. Width(t) = Max(S) /\ Width(u) = Max(T)
  BY <1>1, <1>2
<1> HIDE DEF S, T
<1> QED BY <1>4, <1>5, <1>6, MaxGrows DEF u

-----------------------------------------------------------------------------
(* The specification *)

(* The inductive invariant holds at the start... *)
LEMMA InitIInv == Init => IInv
BY NewTreeInv DEF Init, IInv, IsMetrics, ZeroMetrics

(* ... every step keeps it... *)
LEMMA NextIInv == IInv /\ [Next]_vars => IInv'
<1> SUFFICES ASSUME IInv, [Next]_vars PROVE IInv'
  OBVIOUS
<1>1. /\ TreeInv(tree) /\ \A s \in snapshots : TreeInv(s)
      /\ IsMetrics(metrics) /\ metrics.branchesCompressed = 0
  BY DEF IInv
<1>2. ASSUME NEW e \in Events, ProcessWithoutGC(e) PROVE IInv'
  <2>1. TreeInv(tree')
    BY <1>1, <1>2, AddNodeInv DEF ProcessWithoutGC
  <2>2. /\ metrics' = [metrics EXCEPT !.totalEvents = @ + 1]
        /\ UNCHANGED snapshots
    BY <1>2 DEF ProcessWithoutGC
  <2>3. IsMetrics(metrics') /\ metrics'.branchesCompressed = 0
    BY <1>1, <2>2 DEF IsMetrics
  <2> QED BY <1>1, <2>1, <2>2, <2>3 DEF IInv
<1>3. ASSUME NEW e \in Events, ProcessWithGC(e) PROVE IInv'
  <2> DEFINE t == AddNode(tree, e)
  <2>1. TreeInv(t)
    BY <1>1, AddNodeInv
  <2>2. PICK swept \in SUBSET Candidates(t) :
          \E done \in SUBSET ToCompact(t, swept) :
            /\ tree' = Run(t, swept, done)
            /\ metrics' = [metrics EXCEPT
                 !.totalEvents = @ + 1, !.gcRuns = @ + 1,
                 !.totalTokensSaved = @ + TokensFreed(t, swept, done),
                 !.branchesCompressed = @ + Cardinality(done)]
    BY <1>3 DEF ProcessWithGC
  <2>3. ToCompact(t, swept) = {}
    BY <2>1, NothingToCompact
  <2> HIDE DEF t
  <2>4. /\ tree' = Run(t, swept, {})
        /\ metrics' = [metrics EXCEPT
             !.totalEvents = @ + 1, !.gcRuns = @ + 1,
             !.totalTokensSaved = @ + TokensFreed(t, swept, {}),
             !.branchesCompressed = @ + Cardinality({})]
    BY <2>2, <2>3
  <2>5. TreeInv(tree')
    BY <2>1, <2>4, RunInv
  <2>6. Cardinality({}) = 0
    BY FS_EmptySet
  <2>7. IsMetrics(metrics') /\ metrics'.branchesCompressed = 0
    <3>1. metrics' = [totalEvents |-> metrics.totalEvents + 1,
                      gcRuns |-> metrics.gcRuns + 1,
                      totalTokensSaved |->
                        metrics.totalTokensSaved + TokensFreed(t, swept, {}),
                      branchesCompressed |-> metrics.branchesCompressed + 0]
      BY <1>1, <2>4, <2>6 DEF IsMetrics
    <3> QED BY <1>1, <3>1 DEF IsMetrics
  <2>8. UNCHANGED snapshots
    BY <1>3 DEF ProcessWithGC
  <2> QED BY <1>1, <2>5, <2>7, <2>8 DEF IInv
<1>4. CASE Snapshot
  BY <1>1, <1>4 DEF Snapshot, IInv
<1>5. CASE Restart
  <2>1. TreeInv(tree')
    <3>1. CASE tree' = NewTree
      BY <3>1, NewTreeInv
    <3>2. ASSUME NEW s \in snapshots, NEW root \in Nodes(s),
                 tree' = RestoreFromSnapshot(s, root)
          PROVE  TreeInv(tree')
      BY <1>1, <3>2, RestoreInv
    <3> QED BY <1>5, <3>1, <3>2 DEF Restart
  <2>2. metrics' = ZeroMetrics /\ UNCHANGED snapshots
    BY <1>5 DEF Restart
  <2> QED BY <1>1, <2>1, <2>2 DEF IInv, IsMetrics, ZeroMetrics
<1>6. CASE UNCHANGED vars
  BY <1>1, <1>6 DEF vars, IInv
<1> QED BY <1>2, <1>3, <1>4, <1>5, <1>6 DEF Next

(* ... so it always holds. *)
LEMMA Invariance == Spec => []IInv
BY InitIInv, NextIInv, PTL DEF Spec

(* Every tree, live or restored, has one node per turn and no other. *)
THEOREM TypeCorrect == Spec => []TypeOK
<1>1. IInv => TypeOK
  BY DEF IInv, TypeOK, TreeInv
<1> QED BY <1>1, Invariance, PTL

(* Parents are older than their children: the tree has no cycle. *)
THEOREM ParentsAlwaysOlder == Spec => []AncestorsOlder
<1>1. IInv => AncestorsOlder
  BY DEF IInv, AncestorsOlder, TreeInv
<1> QED BY <1>1, Invariance, PTL

(* The active nodes that could be compacted form a chain... *)
THEOREM ChainOfActiveNodes == Spec => []OneCompressibleChild
<1>1. IInv => OneCompressibleChild
  BY DEF IInv, OneCompressibleChild, TreeInv
<1> QED BY <1>1, Invariance, PTL

(* ... so no policy, however small its limits, makes the collector compact. *)
THEOREM NeverCompacts == Spec => []CompactionNeverFires
<1>1. IInv => CompactionNeverFires
  BY DEF IInv, CompactionNeverFires, TreeInv
<1> QED BY <1>1, Invariance, PTL

(* No scorer, and no choice of what to sweep, archives a fact. *)
THEOREM FactsNeverArchived == Spec => []FactsStayActive
<1>1. IInv => FactsStayActive
  BY DEF IInv, FactsStayActive, TreeInv
<1> QED BY <1>1, Invariance, PTL

(* The tokens the metrics count as saved are those of the archived nodes,    *)
(* but for the ones the tree was restored with.                              *)
SavedInv == archivedAtStart \in Nat /\ SavedMatchesArchived

(* A collection archives what it sweeps. *)
LEMMA SweptByRun ==
  ASSUME NEW t, TreeInv(t), NEW swept \in SUBSET Candidates(t)
  PROVE  LET u == Run(t, swept, {})
         IN /\ u.turn = t.turn /\ u.root = t.root
            /\ Archived(u) = Archived(t) \cup swept
            /\ Active(u) = Active(t) \ swept
            /\ \A n \in Nodes(t) : /\ u.node[n].tokens = t.node[n].tokens
                                   /\ u.node[n].type = t.node[n].type
                                   /\ u.node[n].keep = t.node[n].keep
                                   /\ u.node[n].parent = t.node[n].parent
<1> DEFINE u == Run(t, swept, {})
           f == [n \in Nodes(t) |->
                   IF n \in swept THEN [t.node[n] EXCEPT !.status = "archived"]
                   ELSE t.node[n]]
<1>1. /\ t = [turn |-> t.turn, root |-> t.root, compressed |-> t.compressed,
              node |-> t.node]
      /\ t.node \in [Nodes(t) -> NodeRecords]
  BY DEF TreeInv, IsTree
<1>2. u.turn = t.turn /\ u.root = t.root /\ u.node = f
  <2>1. Archive(t, swept \cup {}) = [t EXCEPT !.node = f]
    BY DEF Archive
  <2>2. UNION {FilterCompressible(t, Branch(t, p)) : p \in {}} = {}
    OBVIOUS
  <2> DEFINE v == Archive(t, swept \cup {})
             none == {[parent |-> p, nodes |-> FilterCompressible(t, Branch(t, p))] : p \in {}}
  <2>3. u = [v EXCEPT !.compressed = @ \cup none]
    BY <2>2 DEF Run
  <2> HIDE DEF u, f, none
  <2>4. v = [turn |-> t.turn, root |-> t.root, compressed |-> t.compressed, node |-> f]
    BY <1>1, <2>1
  <2> HIDE DEF v
  <2> QED BY <2>3, <2>4
<1>3. /\ swept \subseteq Active(t) /\ Active(t) \subseteq Nodes(t)
      /\ swept \cap Archived(t) = {} /\ Archived(t) \subseteq Nodes(t)
  BY DEF Candidates, Active, Archived
<1>4. \A n \in Nodes(t) :
        /\ f[n].tokens = t.node[n].tokens
        /\ f[n].type = t.node[n].type /\ f[n].keep = t.node[n].keep
        /\ f[n].parent = t.node[n].parent
        /\ f[n].status = IF n \in swept THEN "archived" ELSE t.node[n].status
  BY <1>1 DEF NodeRecords
<1> HIDE DEF u, f
<1>5. Nodes(u) = Nodes(t)
  BY <1>2 DEF Nodes
<1>6. Archived(u) = Archived(t) \cup swept
  BY <1>2, <1>3, <1>4, <1>5 DEF Archived
<1>7. Active(u) = Active(t) \ swept
  BY <1>2, <1>3, <1>4, <1>5 DEF Active
<1> QED BY <1>2, <1>4, <1>6, <1>7 DEF u

LEMMA ArchivedByRun ==
  ASSUME NEW t, TreeInv(t), NEW swept \in SUBSET Candidates(t)
  PROVE  LET u == Run(t, swept, {})
         IN Tokens(u, Archived(u)) = Tokens(t, Archived(t)) + Tokens(t, swept)
<1> DEFINE u == Run(t, swept, {})
           old == Archived(t)
<1>1. /\ Archived(u) = old \cup swept
      /\ \A n \in Nodes(t) : u.node[n].tokens = t.node[n].tokens
  BY SweptByRun
<1>2. /\ swept \subseteq Nodes(t) /\ old \subseteq Nodes(t) /\ old \cap swept = {}
      /\ old \cup swept \subseteq Nodes(t)
  BY DEF Candidates, Active, Archived
<1> HIDE DEF u, old
<1>3. Tokens(u, old \cup swept) = Tokens(t, old \cup swept)
  BY <1>1, <1>2, TokensSame
<1>4. Tokens(t, old \cup swept) = Tokens(t, old) + Tokens(t, swept)
  BY <1>2, TokensUnion
<1> QED BY <1>1, <1>3, <1>4 DEF u, old

LEMMA NextSaved ==
  ASSUME IInv, SavedInv, [Next]_vars
  PROVE  SavedInv'
<1>1. /\ TreeInv(tree) /\ IsMetrics(metrics) /\ \A s \in snapshots : TreeInv(s)
      /\ archivedAtStart \in Nat
      /\ metrics.totalTokensSaved = Tokens(tree, Archived(tree)) - archivedAtStart
  BY DEF IInv, SavedInv, SavedMatchesArchived
<1>2. ASSUME NEW e \in Events
      PROVE  LET t == AddNode(tree, e)
             IN TreeInv(t) /\ Tokens(t, Archived(t)) = Tokens(tree, Archived(tree))
  <2> DEFINE t == AddNode(tree, e)
  <2>1. /\ TreeInv(t) /\ Archived(t) = Archived(tree)
        /\ \A n \in Nodes(tree) : t.node[n] = tree.node[n]
    BY <1>1, AddedNode
  <2>2. Archived(tree) \subseteq Nodes(tree)
    BY DEF Archived
  <2> HIDE DEF t
  <2>3. Tokens(t, Archived(tree)) = Tokens(tree, Archived(tree))
    BY <1>1, <2>1, <2>2, TokensSame
  <2> QED BY <2>1, <2>3 DEF t
<1>3. ASSUME NEW e \in Events, ProcessWithoutGC(e) PROVE SavedInv'
  <2>1. /\ tree' = AddNode(tree, e) /\ archivedAtStart' = archivedAtStart
        /\ metrics' = [metrics EXCEPT !.totalEvents = @ + 1]
    BY <1>3 DEF ProcessWithoutGC
  <2>2. metrics'.totalTokensSaved = metrics.totalTokensSaved
    BY <1>1, <2>1 DEF IsMetrics
  <2> QED BY <1>1, <1>2, <2>1, <2>2 DEF SavedInv, SavedMatchesArchived
<1>4. ASSUME NEW e \in Events, ProcessWithGC(e) PROVE SavedInv'
  <2> DEFINE t == AddNode(tree, e)
  <2>1. TreeInv(t) /\ Tokens(t, Archived(t)) = Tokens(tree, Archived(tree))
    BY <1>2
  <2>2. PICK swept \in SUBSET Candidates(t) :
          \E done \in SUBSET ToCompact(t, swept) :
            /\ tree' = Run(t, swept, done)
            /\ metrics' = [metrics EXCEPT
                 !.totalEvents = @ + 1, !.gcRuns = @ + 1,
                 !.totalTokensSaved = @ + TokensFreed(t, swept, done),
                 !.branchesCompressed = @ + Cardinality(done)]
    BY <1>4 DEF ProcessWithGC
  <2>3. archivedAtStart' = archivedAtStart
    BY <1>4 DEF ProcessWithGC
  <2> HIDE DEF t
  <2>4. /\ tree' = Run(t, swept, {})
        /\ metrics'.totalTokensSaved
             = metrics.totalTokensSaved + TokensFreed(t, swept, {})
    <3>1. ToCompact(t, swept) = {}
      BY <2>1, NothingToCompact
    <3>2. /\ tree' = Run(t, swept, {})
          /\ metrics' = [metrics EXCEPT
               !.totalEvents = @ + 1, !.gcRuns = @ + 1,
               !.totalTokensSaved = @ + TokensFreed(t, swept, {}),
               !.branchesCompressed = @ + Cardinality({})]
      BY <2>2, <3>1
    <3>3. metrics = [totalEvents |-> metrics.totalEvents, gcRuns |-> metrics.gcRuns,
                     totalTokensSaved |-> metrics.totalTokensSaved,
                     branchesCompressed |-> metrics.branchesCompressed]
      BY <1>1 DEF IsMetrics
    <3> QED BY <3>2, <3>3
  <2>5. Tokens(t, swept) \in Nat /\ Tokens(tree, Archived(tree)) \in Nat
    <3>1. swept \subseteq Nodes(t) /\ Archived(tree) \subseteq Nodes(tree)
      BY DEF Candidates, Active, Archived
    <3> QED BY <1>1, <2>1, <3>1, TreeFinite
  <2>6. TokensFreed(t, swept, {}) = Tokens(t, swept)
    BY <2>5, NothingCompacted
  <2>7. Tokens(tree', Archived(tree')) = Tokens(t, Archived(t)) + Tokens(t, swept)
    BY <2>1, <2>4, ArchivedByRun
  <2> QED BY <1>1, <2>1, <2>3, <2>4, <2>5, <2>6, <2>7 DEF SavedInv, SavedMatchesArchived
<1>5. CASE Snapshot
  BY <1>1, <1>5 DEF Snapshot, SavedInv, SavedMatchesArchived
<1>6. CASE Restart
  <2>1. IInv'
    BY NextIInv
  <2>2. Tokens(tree', Archived(tree')) \in Nat
    <3>1. Archived(tree') \subseteq Nodes(tree')
      BY DEF Archived
    <3>2. TreeInv(tree')
      BY <2>1 DEF IInv
    <3> QED BY <3>1, <3>2, TreeFinite
  <2>3. archivedAtStart' = Tokens(tree', Archived(tree')) /\ metrics' = ZeroMetrics
    BY <1>6 DEF Restart
  <2>4. metrics'.totalTokensSaved = 0
    BY <2>3 DEF ZeroMetrics
  <2> QED BY <2>2, <2>3, <2>4 DEF SavedInv, SavedMatchesArchived
<1>7. CASE UNCHANGED vars
  BY <1>1, <1>7 DEF vars, SavedInv, SavedMatchesArchived
<1> QED BY <1>3, <1>4, <1>5, <1>6, <1>7 DEF Next

LEMMA InitSaved == Init => SavedInv
<1> SUFFICES ASSUME Init PROVE SavedInv
  OBVIOUS
<1>1. tree = NewTree /\ metrics.totalTokensSaved = 0 /\ archivedAtStart = 0
  BY DEF Init, ZeroMetrics
<1>2. Archived(NewTree) = {}
  BY DEF Archived, Nodes, NewTree
<1>3. Tokens(NewTree, {}) = 0
  <2>1. Tokens(NewTree, {}) = Sum([n \in {} |-> NewTree.node[n].tokens], {})
    BY TokensSum
  <2> QED BY <2>1, SumEmpty
<1> QED BY <1>1, <1>2, <1>3 DEF SavedInv, SavedMatchesArchived

(* The metric counts every archived token once and nothing else, whatever is *)
(* swept and however often the session is restored.                          *)
THEOREM SavedIsArchived == Spec => []SavedMatchesArchived
<1>1. SavedInv => SavedMatchesArchived
  BY DEF SavedInv
<1> QED BY <1>1, InitSaved, NextSaved, Invariance, PTL DEF Spec

(* A tree that has become too deep or too wide stays so: each event it still *)
(* gets runs the collector.                                                  *)
THEOREM PressureIsPermanent == Spec => StructuralPressureIsPermanent
<1> DEFINE Pressed == Depth(tree) > MaxTreeDepth \/ Width(tree) > MaxChildrenPerNode
           Step == /\ metrics'.totalEvents = metrics.totalEvents + 1
                   /\ Pressed
                   => metrics'.gcRuns = metrics.gcRuns + 1
<1>1. ASSUME IInv, [Next]_vars, metrics'.totalEvents = metrics.totalEvents + 1, Pressed
      PROVE  metrics'.gcRuns = metrics.gcRuns + 1
  <2>1. IsMetrics(metrics) /\ TreeInv(tree)
    BY <1>1 DEF IInv
  <2>2. ASSUME NEW e \in Events PROVE ~ProcessWithoutGC(e)
    <3> DEFINE t == AddNode(tree, e)
    <3>1. /\ Depth(tree) \in Int /\ Depth(t) \in Int /\ Depth(tree) <= Depth(t)
          /\ Width(tree) \in Int /\ Width(t) \in Int /\ Width(tree) <= Width(t)
      BY <2>1, DepthGrows, WidthGrows
    <3> HIDE DEF t
    <3>2. Depth(t) > MaxTreeDepth \/ Width(t) > MaxChildrenPerNode
      BY <1>1, <3>1, PolicyAssumption
    <3>3. ShouldRun(t, FALSE)
      BY <3>2, Zenon DEF ShouldRun
    <3> QED BY <3>3 DEF ProcessWithoutGC, t
  <2>3. ASSUME NEW e \in Events, ProcessWithGC(e)
        PROVE  metrics'.gcRuns = metrics.gcRuns + 1
    BY <2>1, <2>3 DEF ProcessWithGC, IsMetrics
  <2>4. ~Snapshot /\ ~UNCHANGED vars
    BY <1>1, <2>1 DEF Snapshot, vars, IsMetrics
  <2>5. ~Restart
    <3>1. ZeroMetrics.totalEvents = 0 /\ metrics.totalEvents \in Nat
      BY <2>1 DEF ZeroMetrics, IsMetrics
    <3> QED BY <1>1, <3>1 DEF Restart
  <2> QED BY <1>1, <2>2, <2>3, <2>4, <2>5 DEF Next
<1>2. IInv /\ [Next]_vars => [Step]_vars
  BY <1>1
<1> QED BY <1>2, Invariance, PTL DEF Spec, StructuralPressureIsPermanent
-----------------------------------------------------------------------------
(* The tree is a log *)

LEMMA ContentIs ==
  ASSUME NEW t, TreeInv(t)
  PROVE  /\ Content(t) \in Seq(NodeRecords) /\ Len(Content(t)) = t.turn
         /\ DOMAIN Content(t) = 1 .. t.turn
         /\ \A n \in 1 .. t.turn :
              Content(t)[n] = [type |-> t.node[n].type, status |-> "active",
                               parent |-> t.node[n].parent,
                               keep |-> t.node[n].keep, tokens |-> t.node[n].tokens]
<1>1. t.turn \in Nat /\ \A n \in 1 .. t.turn : t.node[n] \in NodeRecords
  BY DEF TreeInv, IsTree, Nodes
<1>2. \A x \in NodeRecords :
        /\ [x EXCEPT !.status = "active"] \in NodeRecords
        /\ [x EXCEPT !.status = "active"]
             = [type |-> x.type, status |-> "active", parent |-> x.parent,
                keep |-> x.keep, tokens |-> x.tokens]
  BY DEF NodeRecords
<1> DEFINE c == Content(t)
<1>3. c = [n \in 1 .. t.turn |-> [t.node[n] EXCEPT !.status = "active"]]
  BY DEF Content
<1> HIDE DEF c
<1>4. \A n \in 1 .. t.turn :
        c[n] \in NodeRecords /\ c[n] = [t.node[n] EXCEPT !.status = "active"]
  BY <1>1, <1>2, <1>3
<1>5. c = [n \in 1 .. t.turn |-> c[n]] /\ DOMAIN c = 1 .. t.turn
  BY <1>3
<1>6. c \in Seq(NodeRecords) /\ Len(c) = t.turn
  <2>1. c \in [1 .. t.turn -> NodeRecords]
    BY <1>4, <1>5
  <2>2. \A k \in Nat : \A f \in [1 .. k -> NodeRecords] :
          f \in Seq(NodeRecords) /\ Len(f) = k
    OBVIOUS
  <2> QED BY <1>1, <2>1, <2>2
<1> QED BY <1>1, <1>2, <1>4, <1>5, <1>6 DEF c

(* Two trees with the same nodes, but for their status, say the same. *)
LEMMA SameContent ==
  ASSUME NEW t, TreeInv(t), NEW u, TreeInv(u), u.turn = t.turn,
         \A n \in Nodes(t) :
           /\ u.node[n].type = t.node[n].type /\ u.node[n].parent = t.node[n].parent
           /\ u.node[n].keep = t.node[n].keep /\ u.node[n].tokens = t.node[n].tokens
  PROVE  Content(u) = Content(t)
<1>1. t.turn \in Nat /\ 1 .. t.turn \subseteq Nodes(t)
  BY DEF TreeInv, IsTree, Nodes
<1>2. /\ DOMAIN Content(t) = 1 .. t.turn /\ DOMAIN Content(u) = 1 .. t.turn
      /\ \A n \in 1 .. t.turn : Content(u)[n] = Content(t)[n]
  <2> DEFINE c == Content(t)
             d == Content(u)
  <2>1. /\ DOMAIN c = 1 .. t.turn
        /\ \A n \in 1 .. t.turn :
             c[n] = [type |-> t.node[n].type, status |-> "active",
                     parent |-> t.node[n].parent,
                     keep |-> t.node[n].keep, tokens |-> t.node[n].tokens]
    BY ContentIs
  <2>2. /\ DOMAIN d = 1 .. t.turn
        /\ \A n \in 1 .. t.turn :
             d[n] = [type |-> u.node[n].type, status |-> "active",
                     parent |-> u.node[n].parent,
                     keep |-> u.node[n].keep, tokens |-> u.node[n].tokens]
    BY ContentIs
  <2> HIDE DEF c, d
  <2>3. \A n \in 1 .. t.turn : d[n] = c[n]
    BY <1>1, <2>1, <2>2
  <2> QED BY <2>1, <2>2, <2>3 DEF c, d
<1>3. /\ Content(t) = [n \in DOMAIN Content(t) |-> Content(t)[n]]
      /\ Content(u) = [n \in DOMAIN Content(u) |-> Content(u)[n]]
  BY DEF Content
<1> QED BY <1>2, <1>3

(* An event extends the log by its node. *)
LEMMA ContentAdded ==
  ASSUME NEW t, TreeInv(t), NEW e \in Events, t.turn < MaxTurns
  PROVE  \E x \in Entries : Content(AddNode(t, e)) = Append(Content(t), x)
<1> DEFINE u == AddNode(t, e)
           p == FindBestParent(t, ClassifyEvent(e))
           x == [type |-> ClassifyEvent(e), status |-> "active", parent |-> p,
                 keep |-> HasFactsOrDecisions(e), tokens |-> e.tokens]
<1>1. /\ t.turn \in Nat
      /\ t = [turn |-> t.turn, root |-> t.root, compressed |-> t.compressed,
              node |-> t.node]
  BY DEF TreeInv, IsTree
<1>2. p \in 0 .. MaxTurns
  BY <1>1, BestParent, BoundsAssumption DEF Nodes
<1>3. x \in Entries
  BY <1>2 DEF Entries
<1>4. /\ TreeInv(u) /\ u.turn = t.turn + 1
      /\ \A n \in Nodes(t) : u.node[n] = t.node[n]
  BY AddedNode
<1>5. u.node[t.turn + 1] = x
  BY <1>1 DEF AddNode
<1> HIDE DEF u, p
<1>6. /\ x = [type |-> x.type, status |-> "active", parent |-> x.parent,
              keep |-> x.keep, tokens |-> x.tokens]
      /\ x \in NodeRecords
  BY <1>2, ClassifyType, BoundsAssumption DEF NodeRecords
<1> HIDE DEF x
<1>7. /\ Content(t) \in Seq(NodeRecords) /\ Len(Content(t)) = t.turn
      /\ DOMAIN Content(u) = 1 .. t.turn + 1
      /\ \A n \in 1 .. t.turn : Content(u)[n] = Content(t)[n]
      /\ Content(u)[t.turn + 1] = x
  <2>1. 1 .. t.turn \subseteq Nodes(t) /\ 1 .. t.turn \subseteq 1 .. t.turn + 1
        /\ t.turn + 1 \in 1 .. t.turn + 1
    BY <1>1 DEF Nodes
  <2> DEFINE c == Content(t)
             d == Content(u)
  <2>2. /\ c \in Seq(NodeRecords) /\ Len(c) = t.turn
        /\ \A n \in 1 .. t.turn :
             c[n] = [type |-> t.node[n].type, status |-> "active",
                     parent |-> t.node[n].parent,
                     keep |-> t.node[n].keep, tokens |-> t.node[n].tokens]
    BY ContentIs
  <2>3. /\ DOMAIN d = 1 .. u.turn
        /\ \A n \in 1 .. u.turn :
             d[n] = [type |-> u.node[n].type, status |-> "active",
                     parent |-> u.node[n].parent,
                     keep |-> u.node[n].keep, tokens |-> u.node[n].tokens]
    BY <1>4, ContentIs
  <2> HIDE DEF c, d
  <2>4. \A n \in 1 .. t.turn : d[n] = c[n]
    BY <1>4, <2>1, <2>2, <2>3
  <2>5. d[t.turn + 1] = x
    BY <1>4, <1>5, <1>6, <2>1, <2>3
  <2> QED BY <1>4, <2>2, <2>3, <2>4, <2>5 DEF c, d
<1>8. Content(u) = [n \in 1 .. t.turn + 1 |-> Content(u)[n]]
  BY <1>4 DEF Content
<1>9. Content(u) = Append(Content(t), x)
  <2> DEFINE c == Content(t)
             d == Content(u)
  <2> HIDE DEF c, d
  <2>1. /\ c \in Seq(NodeRecords) /\ Len(c) = t.turn
        /\ \A n \in 1 .. t.turn : d[n] = c[n]
        /\ d[t.turn + 1] = x /\ d = [n \in 1 .. t.turn + 1 |-> d[n]]
    BY <1>7, <1>8 DEF c, d
  <2> DEFINE a == Append(c, x)
  <2>2. /\ a \in Seq(NodeRecords) /\ Len(a) = t.turn + 1 /\ a[t.turn + 1] = x
        /\ \A n \in 1 .. t.turn : a[n] = c[n]
    BY <1>1, <1>6, <2>1
  <2> HIDE DEF a
  <2>3. a = [n \in 1 .. t.turn + 1 |-> a[n]]
    BY <2>2
  <2>4. \A n \in 1 .. t.turn + 1 : n \in 1 .. t.turn \/ n = t.turn + 1
    BY <1>1
  <2>5. \A n \in 1 .. t.turn + 1 : a[n] = d[n]
    BY <2>1, <2>2, <2>4
  <2>6. a = d
    BY <2>1, <2>3, <2>5
  <2> QED BY <2>6 DEF a, c, d
<1> QED BY <1>3, <1>9 DEF u

(* A collection rewrites statuses and nothing else. *)
LEMMA ContentSwept ==
  ASSUME NEW t, TreeInv(t), NEW swept \in SUBSET Candidates(t)
  PROVE  Content(Run(t, swept, {})) = Content(t)
<1> DEFINE u == Run(t, swept, {})
<1>1. TreeInv(u) /\ u.turn = t.turn
      /\ \A n \in Nodes(t) :
           /\ u.node[n].type = t.node[n].type /\ u.node[n].parent = t.node[n].parent
           /\ u.node[n].keep = t.node[n].keep /\ u.node[n].tokens = t.node[n].tokens
  BY RunInv, SweptByRun
<1> HIDE DEF u
<1>2. Content(u) = Content(t)
  BY <1>1, SameContent
<1> QED BY <1>2 DEF u

(* There is one latest snapshot. *)
OneSnapshot == snapshots = {} \/ \E s : snapshots = {s}

LEMMA OneSnapshotNext == OneSnapshot /\ [Next]_vars => OneSnapshot'
BY DEF OneSnapshot, Next, ProcessWithoutGC, ProcessWithGC, Snapshot, Restart, vars

LEMMA SavedIs ==
  ASSUME NEW s, snapshots = {s}
  PROVE  SavedContent = Content(s)
BY DEF SavedContent

LEMMA LogStep == IInv /\ OneSnapshot /\ [Next]_vars
                   => \/ tree' = NewTree \/ Log!Next \/ UNCHANGED Log!vars
<1> SUFFICES ASSUME IInv, OneSnapshot, [Next]_vars, tree' # NewTree
             PROVE  Log!Next \/ UNCHANGED Log!vars
  OBVIOUS
<1>1. TreeInv(tree) /\ \A s \in snapshots : TreeInv(s)
  BY DEF IInv
<1>2. ASSUME UNCHANGED snapshots PROVE UNCHANGED SavedContent
  BY <1>2 DEF SavedContent
<1>3. ASSUME NEW e \in Events, ProcessWithoutGC(e) PROVE Log!Extend
  <2>1. /\ tree.turn < MaxTurns /\ tree' = AddNode(tree, e) /\ UNCHANGED snapshots
    BY <1>3 DEF ProcessWithoutGC
  <2>2. \E x \in Entries : Content(tree') = Append(Content(tree), x)
    BY <1>1, <2>1, ContentAdded
  <2> QED BY <1>2, <2>1, <2>2 DEF Log!Extend
<1>4. ASSUME NEW e \in Events, ProcessWithGC(e) PROVE Log!Extend
  <2> DEFINE t == AddNode(tree, e)
  <2>1. TreeInv(t) /\ tree.turn < MaxTurns /\ UNCHANGED snapshots
    BY <1>1, <1>4, AddNodeInv DEF ProcessWithGC
  <2>2. PICK swept \in SUBSET Candidates(t) :
          \E done \in SUBSET ToCompact(t, swept) : tree' = Run(t, swept, done)
    BY <1>4 DEF ProcessWithGC
  <2>3. tree' = Run(t, swept, {})
    BY <2>1, <2>2, NothingToCompact
  <2>4. \E x \in Entries : Content(t) = Append(Content(tree), x)
    BY <1>1, <2>1, ContentAdded
  <2> HIDE DEF t
  <2>5. Content(tree') = Content(t)
    BY <2>1, <2>3, ContentSwept
  <2> QED BY <1>2, <2>1, <2>4, <2>5 DEF Log!Extend
<1>5. CASE Snapshot
  <2>1. snapshots' = {tree} /\ tree' = tree
    BY <1>5 DEF Snapshot
  <2>2. SavedContent' = Content(tree)
    BY <2>1 DEF SavedContent
  <2> QED BY <2>1, <2>2 DEF Log!Next, Log!Save
<1>6. CASE Restart
  <2>1. PICK s \in snapshots : \E root \in Nodes(s) : tree' = RestoreFromSnapshot(s, root)
    BY <1>6 DEF Restart
  <2>2. PICK root \in Nodes(s) : tree' = [s EXCEPT !.root = root]
    BY <2>1 DEF RestoreFromSnapshot
  <2>3. TreeInv(s) /\ TreeInv(tree')
    BY <1>1, <2>1, <2>2, RestoreInv DEF RestoreFromSnapshot
  <2>4. tree'.turn = s.turn /\ tree'.node = s.node
    BY <2>2, <2>3 DEF TreeInv, IsTree
  <2>5. Content(tree') = Content(s)
    BY <2>4 DEF Content
  <2>6. SavedContent = Content(s) /\ UNCHANGED snapshots
    BY <1>6, <2>1, SavedIs DEF OneSnapshot, Restart
  <2> QED BY <1>2, <2>5, <2>6 DEF Log!Next, Log!FallBack
<1>7. CASE UNCHANGED vars
  BY <1>7, <1>2 DEF vars, Log!vars
<1> QED BY <1>3, <1>4, <1>5, <1>6, <1>7 DEF Next, Log!Next

(* Whatever the policy, the scores and the outcome of a collection, the tree *)
(* is the log of the session's events: a turn adds its node, a collection    *)
(* takes none away and a restore brings back what the snapshot held.         *)
THEOREM CollectionsNeverForget == Spec => CollectionsKeepTheLog
<1>1. Init => Log!Init /\ OneSnapshot
  <2>1. NewTree.turn = 0
    BY DEF NewTree
  <2>2. Content(NewTree) = <<>>
    BY <2>1 DEF Content
  <2> QED BY <2>2 DEF Init, Log!Init, SavedContent, OneSnapshot
<1>2. IInv /\ OneSnapshot /\ [Next]_vars
        => [tree' = NewTree \/ Log!Next \/ UNCHANGED Log!vars]_vars
  BY LogStep
<1> QED BY <1>1, <1>2, OneSnapshotNext, Invariance, PTL DEF Spec, CollectionsKeepTheLog
=============================================================================
