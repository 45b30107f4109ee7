-------------------------- MODULE SemanticMemoryProofs --------------------------
(* Proofs about SemanticMemory for every number of events, starts, crashes   *)
(* and failures of the store, and every number of hits.                      *)
EXTENDS SemanticMemory, FiniteSetTheorems, TLAPS

-----------------------------------------------------------------------------
(* The invariant *)

(* A session that is not there has no compilation, and only a reconciliation *)
(* has nodes to move.                                                        *)
Shape ==
  /\ pc = "none" => /\ tree = <<>> /\ at = "ready"
                    /\ seen = {} /\ begun = {} /\ result = {}
  /\ pc # "reconcile" => gone = {} /\ moving = None
  /\ pc \in {"embed", "again"} =>
       /\ tree # <<>>
       /\ tree[Len(tree)].status = "active" /\ tree[Len(tree)].vec = None
  /\ pc = "upsert" => tree # <<>> /\ tree[Len(tree)].status = "active"

(* The node the worker has added and not yet written. *)
Unwritten == IF pc \in {"embed", "again", "upsert"} THEN {Len(tree)} ELSE {}

(* The nodes that belong into each index while nodes are moved. *)
InActive == {n \in DOMAIN tree : tree[n].vec # None
                                   /\ (tree[n].status = "active" \/ n \in gone)}
InArchive == {n \in DOMAIN tree : tree[n].vec # None /\ tree[n].status = "archived"
                                   /\ (n \notin gone \/ n = moving)}

Holds(index, S) == index = [n \in S |-> tree[n].vec]

(* With nothing lost the documents are the nodes the worker has written, and *)
(* between sessions they are the snapshot.                                   *)
DocsAreNodes ==
  /\ DOMAIN docs = DOMAIN tree \ Unwritten
  /\ \A n \in DOMAIN docs :
       IF pc = "reconcile" THEN docs[n].vec = tree[n].vec ELSE docs[n] = tree[n]

NothingLost ==
  /\ pc # "none" => /\ Holds(active, InActive) /\ Holds(archive, InArchive)
                    /\ DocsAreNodes
  /\ pc = "nodes" => snapshot = tree
  /\ pc = "none" => /\ DOMAIN docs = DOMAIN snapshot
                    /\ \A n \in DOMAIN docs : docs[n] = snapshot[n]

MirrorInv == crashes = 0 /\ failures = 0 => NothingLost

(* Whatever is lost in a crash, a document holds what a node or the snapshot *)
(* held before it: an embedding, and that it was archived.                   *)
Keeps(n, node) ==
  /\ n \in DOMAIN docs
  /\ node.vec # None => docs[n].vec # None
  /\ node.status = "archived" => docs[n].status = "archived"

Remembered ==
  /\ \A n \in DOMAIN snapshot : Keeps(n, snapshot[n])
  /\ \A n \in DOMAIN tree \ Unwritten :
       /\ n \in DOMAIN docs
       /\ tree[n].vec # None => docs[n].vec # None
       /\ pc # "reconcile" => Keeps(n, tree[n])
  /\ pc # "none" =>
       \A n \in DOMAIN snapshot :
         n \in DOMAIN tree /\ (snapshot[n].status = "archived"
                                => tree[n].status = "archived")

(* An embedded node is in an index; an archived one in that of the archive,  *)
(* or still to be moved there.                                               *)
Indexed ==
  /\ \A n \in DOMAIN tree : tree[n].vec # None =>
       /\ n \in DOMAIN active \cup DOMAIN archive
       /\ tree[n].status = "archived" =>
            n \in DOMAIN archive \/ (n \in gone /\ n \in DOMAIN active)
  /\ moving # None => moving \in DOMAIN archive

(* What a compilation ought to consider and has not read is archived, and    *)
(* has been found or will be by the query to come.                           *)
Found(n) ==
  CASE at = "archive" -> n \in DOMAIN hitsA \cup DOMAIN archive
    [] at = "join" -> n \in DOMAIN hitsA \cup DOMAIN hitsZ
    [] OTHER -> TRUE

Compiling ==
  at # "ready" => \A n \in begun \ seen :
    tree[n].status = "archived" /\ tree[n].vec # None
      /\ (TopK >= MaxEvents => Found(n))

SearchInv == failures = 0 => Remembered /\ Indexed /\ Compiling

-----------------------------------------------------------------------------
(* What the steps do to the tree, the indexes and the documents *)

LEMMA Finds ==
  /\ \A e \in Events : e \in Nat /\ e # None
  /\ \A n \in Turns : n \in Nat /\ n # None
  /\ \A r \in NodeRecords :
       /\ r.event \in Events /\ r.vec \in Events \cup {None}
       /\ r.status \in {"active", "archived"}
BY BoundsAssumption DEF Events, Turns, None, NodeRecords

LEMMA TreeType ==
  ASSUME TypeOK
  PROVE  /\ tree \in Seq(NodeRecords) /\ Len(tree) \in Nat
         /\ DOMAIN tree = 1 .. Len(tree) /\ DOMAIN tree \subseteq Turns
         /\ \A n \in DOMAIN tree : tree[n] \in NodeRecords
<1> QED BY BoundsAssumption DEF TypeOK, Turns

(* The tree of an embedded node. *)
LEMMA EmbedTree ==
  ASSUME TypeOK, tree # <<>>,
         tree' = [tree EXCEPT ![Len(tree)].vec = tree[Len(tree)].event]
  PROVE  /\ tree' \in Seq(NodeRecords) /\ Len(tree') = Len(tree)
         /\ DOMAIN tree' = DOMAIN tree /\ Len(tree) \in DOMAIN tree
         /\ \A n \in DOMAIN tree :
              tree'[n] = IF n = Len(tree) THEN [tree[n] EXCEPT !.vec = tree[n].event]
                         ELSE tree[n]
<1> DEFINE F(n) == IF n = Len(tree) THEN [tree[n] EXCEPT !.vec = tree[n].event]
                   ELSE tree[n]
<1>1. Len(tree) \in DOMAIN tree
  BY TreeType
<1>2. tree' = [n \in DOMAIN tree |-> F(n)]
  BY <1>1, TreeType
<1>3. \A n \in DOMAIN tree : F(n) \in NodeRecords
  BY TreeType, Finds DEF NodeRecords
<1>4. tree' \in Seq(NodeRecords) /\ Len(tree') = Len(tree)
  <2> HIDE DEF F
  <2> QED BY <1>2, <1>3, TreeType
<1> QED BY <1>1, <1>2, <1>4

(* The tree after a sweep. *)
LEMMA SweepTree ==
  ASSUME TypeOK, NEW swept \in SUBSET Nodes("active"),
         tree' = [n \in DOMAIN tree |->
                    IF n \in swept THEN [tree[n] EXCEPT !.status = "archived"]
                    ELSE tree[n]]
  PROVE  /\ tree' \in Seq(NodeRecords) /\ Len(tree') = Len(tree)
         /\ DOMAIN tree' = DOMAIN tree /\ swept \subseteq DOMAIN tree
         /\ \A n \in DOMAIN tree :
              /\ tree'[n].event = tree[n].event /\ tree'[n].vec = tree[n].vec
              /\ tree'[n].status = IF n \in swept THEN "archived" ELSE tree[n].status
              /\ n \notin swept => tree'[n] = tree[n]
              /\ n \in swept => tree[n].status = "active"
<1> DEFINE F(n) == IF n \in swept THEN [tree[n] EXCEPT !.status = "archived"]
                   ELSE tree[n]
<1>1. swept \subseteq DOMAIN tree /\ \A n \in swept : tree[n].status = "active"
  BY DEF Nodes
<1>2. tree' = [n \in DOMAIN tree |-> F(n)]
  OBVIOUS
<1>3. \A n \in DOMAIN tree : F(n) \in NodeRecords
  BY TreeType DEF NodeRecords
<1>4. tree' \in Seq(NodeRecords) /\ Len(tree') = Len(tree)
  <2> HIDE DEF F
  <2> QED BY <1>2, <1>3, TreeType
<1>5. ASSUME NEW n \in DOMAIN tree
      PROVE  /\ F(n).event = tree[n].event /\ F(n).vec = tree[n].vec
             /\ F(n).status = IF n \in swept THEN "archived" ELSE tree[n].status
  BY TreeType DEF NodeRecords
<1> QED BY <1>1, <1>2, <1>4, <1>5

(* The tree with one more node. *)
LEMMA GrownTree ==
  ASSUME TypeOK, AddNode
  PROVE  /\ tree' \in Seq(NodeRecords) /\ Len(tree') = Len(tree) + 1
         /\ DOMAIN tree' = DOMAIN tree \cup {Len(tree')} /\ Len(tree') \notin DOMAIN tree
         /\ tree'[Len(tree')] = [event |-> received', status |-> "active", vec |-> None]
         /\ \A n \in DOMAIN tree : tree'[n] = tree[n]
<1> DEFINE r == [event |-> received', status |-> "active", vec |-> None]
<1>1. received' \in Events
  BY BoundsAssumption DEF AddNode, TypeOK, Events
<1>2. r \in NodeRecords
  BY <1>1 DEF NodeRecords
<1>3. tree' = Append(tree, r)
  BY DEF AddNode
<1> HIDE DEF r
<1>4. QED BY <1>2, <1>3, TreeType DEF r

LEMMA IndexEntries ==
  ASSUME NEW f, IsIndex(f)
  PROVE  DOMAIN f \in SUBSET Turns /\ \A i \in DOMAIN f : f[i] \in Events
BY DEF IsIndex

LEMMA OnlyIndex ==
  ASSUME NEW f, IsIndex(f), NEW S \in SUBSET DOMAIN f,
         NEW g, g = [i \in S |-> f[i]]
  PROVE  \E T \in SUBSET Turns : g \in [T -> Events]
BY DEF IsIndex

LEMMA LoadedIndex ==
  ASSUME TypeOK, NEW status
  PROVE  IsIndex(LoadEmbeddings(status))
<1> DEFINE S == {m \in DOMAIN docs : docs[m].status = status /\ docs[m].vec # None}
<1>1. S \in SUBSET Turns /\ \A n \in S : docs[n].vec \in Events
  BY Finds DEF TypeOK
<1>2. LoadEmbeddings(status) \in [S -> Events]
  BY <1>1 DEF LoadEmbeddings
<1> QED BY <1>1, <1>2 DEF IsIndex

LEMMA EmptyIndex == IsIndex(Empty) /\ DOMAIN Empty = {}
BY DEF IsIndex, Empty

(* A written document: the node, with the embedding of the document it      *)
(* replaces if the node has none.                                           *)
LEMMA UpsertDocs ==
  ASSUME TypeOK, NEW S \in SUBSET DOMAIN tree, Upsert(S)
  PROVE  /\ DOMAIN docs' = DOMAIN docs \cup S
         /\ \A n \in DOMAIN docs' \ S : docs'[n] = docs[n]
         /\ \A n \in S :
              /\ docs'[n] \in NodeRecords
              /\ docs'[n].status = tree[n].status
              /\ docs'[n].vec = IF tree[n].vec = None /\ n \in DOMAIN docs
                                THEN docs[n].vec ELSE tree[n].vec
              /\ docs'[n].vec = tree[n].vec => docs'[n] = tree[n]
<1>1. ASSUME NEW n \in S PROVE docs'[n] = Stored(n) /\ tree[n] \in NodeRecords
  BY TreeType DEF Upsert
<1>2. \A n \in DOMAIN docs : docs[n] \in NodeRecords
  BY DEF TypeOK
<1>3. ASSUME NEW n \in S
      PROVE  /\ Stored(n) \in NodeRecords
             /\ Stored(n).status = tree[n].status
             /\ Stored(n).vec = IF tree[n].vec = None /\ n \in DOMAIN docs
                                THEN docs[n].vec ELSE tree[n].vec
             /\ Stored(n).vec = tree[n].vec => Stored(n) = tree[n]
  BY <1>1, <1>2 DEF Stored, NodeRecords
<1> QED BY <1>1, <1>3 DEF Upsert

-----------------------------------------------------------------------------
(* Type correctness *)

Typed == TypeOK /\ Shape

LEMMA TypeInit == Init => Typed
<1> SUFFICES ASSUME Init PROVE Typed
  OBVIOUS
<1>1. active = Empty /\ hitsA = Empty /\ archive = Empty /\ hitsZ = Empty
  BY DEF Init, Active!Init, Archive!Init, Empty
<1>2. <<>> \in Seq(NodeRecords) /\ Len(<<>>) = 0 /\ DOMAIN <<>> = {}
  OBVIOUS
<1>3. IsIndex(active) /\ IsIndex(hitsA) /\ IsIndex(archive) /\ IsIndex(hitsZ)
  BY <1>1, EmptyIndex
<1>4. DOMAIN docs = {}
  BY <1>2 DEF Init, Empty
<1>5. TypeOK
  <2>1. tree \in Seq(NodeRecords) /\ Len(tree) <= received
        /\ snapshot \in Seq(NodeRecords) /\ Len(snapshot) <= received
    BY <1>2 DEF Init
  <2>2. /\ received \in 0 .. MaxEvents /\ starts \in 0 .. MaxStarts
        /\ crashes \in 0 .. MaxCrashes /\ failures \in 0 .. MaxFailures
    BY BoundsAssumption DEF Init
  <2> QED BY <1>3, <1>4, <2>1, <2>2 DEF Init, TypeOK
<1> QED BY <1>5 DEF Init, Typed, Shape

LEMMA SetOfLoads == IsFiniteSet({"snapshot", "active", "archived"})
<1>1. IsFiniteSet({}) /\ {} \cup {"snapshot"} = {"snapshot"}
        /\ {"snapshot"} \cup {"active"} = {"snapshot", "active"}
        /\ {"snapshot", "active"} \cup {"archived"} = {"snapshot", "active", "archived"}
  BY FS_EmptySet
<1>2. IsFiniteSet({"snapshot"})
  BY <1>1, FS_AddElement
<1>3. IsFiniteSet({"snapshot", "active"})
  BY <1>1, <1>2, FS_AddElement
<1> QED BY <1>1, <1>3, FS_AddElement

LEMMA GetOrCreateTypes == Typed /\ GetOrCreate => Typed'
<1> SUFFICES ASSUME Typed, GetOrCreate PROVE Typed'
  OBVIOUS
<1> USE DEF Typed
<1>1. PICK failed \in SUBSET {"snapshot", "active", "archived"} :
        /\ failures' = failures + Cardinality(failed)
        /\ failures' <= MaxFailures
        /\ tree' = IF "snapshot" \in failed THEN <<>> ELSE snapshot
        /\ active' = IF "active" \in failed THEN Empty ELSE LoadEmbeddings("active")
        /\ archive' = IF "archived" \in failed THEN Empty
                      ELSE LoadEmbeddings("archived")
  BY DEF GetOrCreate
<1>2. IsFiniteSet(failed)
  BY SetOfLoads, FS_Subset
<1>3. failures' \in 0 .. MaxFailures
  BY <1>1, <1>2, FS_CardinalityType, BoundsAssumption DEF TypeOK
<1>4. IsIndex(active)' /\ IsIndex(archive)' /\ IsIndex(hitsA)' /\ IsIndex(hitsZ)'
  BY <1>1, LoadedIndex, EmptyIndex DEF TypeOK, GetOrCreate, IsIndex
<1>5. <<>> \in Seq(NodeRecords) /\ Len(<<>>) = 0
  OBVIOUS
<1>6. tree' \in Seq(NodeRecords) /\ Len(tree') <= received' /\ received' = received
  BY <1>1, <1>5 DEF TypeOK, GetOrCreate
<1>7. starts' \in 0 .. MaxStarts
  BY BoundsAssumption DEF TypeOK, GetOrCreate
<1>8. gone' = {} /\ moving' = None /\ seen' = {} /\ begun' = {} /\ result' = {}
  BY DEF Shape, GetOrCreate, compileVars
<1> QED BY <1>3, <1>4, <1>6, <1>7, <1>8
     DEF TypeOK, Shape, GetOrCreate, Nodes, compileVars, storeVars

LEMMA AddNodeTypes == Typed /\ AddNode => Typed'
<1> SUFFICES ASSUME Typed, AddNode PROVE Typed'
  OBVIOUS
<1> USE DEF Typed
<1>1. received' \in 0 .. MaxEvents /\ received' = received + 1
  BY BoundsAssumption DEF TypeOK, AddNode
<1>2. tree' # <<>> /\ tree'[Len(tree')].status = "active" /\ tree'[Len(tree')].vec = None
  BY GrownTree, TreeType
<1>3. gone' = {} /\ moving' = None
  BY DEF AddNode, Shape
<1>4. IsIndex(active)' /\ IsIndex(archive)' /\ IsIndex(hitsA)' /\ IsIndex(hitsZ)'
  BY DEF TypeOK, AddNode, IsIndex, indexVars
<1>5. tree' \in Seq(NodeRecords) /\ Len(tree') <= received' /\ DOMAIN tree \subseteq DOMAIN tree'
  BY GrownTree, TreeType, <1>1 DEF TypeOK
<1> QED BY <1>1, <1>2, <1>3, <1>4, <1>5
     DEF TypeOK, Shape, AddNode, Nodes, compileVars, storeVars

LEMMA EmbedTypes == Typed /\ Embed => Typed'
<1> SUFFICES ASSUME Typed, Embed PROVE Typed'
  OBVIOUS
<1> USE DEF Typed
<1>1. PICK answer \in Answers :
        /\ pc' = IF AskAgain(answer) THEN "again" ELSE "upsert"
        /\ \/ /\ answer = "vector"
              /\ tree' = [tree EXCEPT ![Len(tree)].vec = tree[Len(tree)].event]
              /\ Active!Insert(Len(tree), tree[Len(tree)].event)
           \/ answer # "vector" /\ UNCHANGED <<tree, active, hitsA>>
  BY DEF Embed
<1>2. tree # <<>> /\ Len(tree) \in DOMAIN tree /\ tree[Len(tree)].status = "active"
  BY TreeType DEF Shape, Embed
<1>3. UNCHANGED <<gone, moving, leaving, received, starts, archive, hitsZ,
                  at, seen, result, begun, docs, snapshot, crashes, failures>>
  BY DEF Embed, compileVars, storeVars
<1>4. IsIndex(archive)' /\ IsIndex(hitsZ)'
  BY <1>3 DEF TypeOK, IsIndex
<1>5. CASE answer = "vector"
  <2>1. /\ tree' \in Seq(NodeRecords) /\ Len(tree') = Len(tree)
        /\ DOMAIN tree' = DOMAIN tree
        /\ \A n \in DOMAIN tree : tree'[n].status = tree[n].status
    BY <1>1, <1>2, <1>5, EmbedTree, TreeType DEF NodeRecords
  <2>2. IsIndex(active)' /\ IsIndex(hitsA)'
    <3>1. Len(tree) \in Turns /\ tree[Len(tree)].event \in Events
      BY <1>2, TreeType, Finds
    <3>2. active' = [i \in DOMAIN active \cup {Len(tree)} |->
                       IF i = Len(tree) THEN tree[Len(tree)].event ELSE active[i]]
      BY <1>1, <1>5 DEF Active!Insert
    <3>3. \E S \in SUBSET Turns : active' \in [S -> Events]
      <4>1. DOMAIN active \cup {Len(tree)} \in SUBSET Turns
              /\ \A i \in DOMAIN active : active[i] \in Events
        BY <3>1, IndexEntries DEF TypeOK
      <4>2. active' \in [DOMAIN active \cup {Len(tree)} -> Events]
        BY <3>1, <3>2, <4>1
      <4> QED BY <4>1, <4>2
    <3>4. IsIndex(hitsA)'
      BY <1>1, <1>5 DEF Active!Insert, TypeOK, IsIndex
    <3> QED BY <3>3, <3>4 DEF IsIndex
  <2>3. pc' = "upsert" /\ tree' # <<>> /\ tree'[Len(tree')].status = "active"
    BY <1>1, <1>2, <1>5, <2>1, TreeType DEF AskAgain
  <2> QED BY <1>2, <1>3, <1>4, <2>1, <2>2, <2>3 DEF TypeOK, Shape, Nodes, Embed
<1>6. CASE answer # "vector"
  <2>1. UNCHANGED <<tree, active, hitsA>> /\ pc' \in {"again", "upsert"}
    BY <1>1, <1>6
  <2>2. IsIndex(active)' /\ IsIndex(hitsA)'
    BY <2>1 DEF TypeOK, IsIndex
  <2> QED BY <1>2, <1>3, <1>4, <2>1, <2>2 DEF TypeOK, Shape, Nodes, Embed
<1> QED BY <1>5, <1>6

(* A step of the worker that writes documents, or fails to. *)
LEMMA WriteTypes ==
  ASSUME Typed, NEW S \in SUBSET DOMAIN tree,
         \/ Succeeds /\ Upsert(S)
         \/ Fails /\ UNCHANGED docs
  PROVE  /\ DOMAIN docs' \subseteq Turns
         /\ \A n \in DOMAIN docs' : docs'[n] \in NodeRecords
         /\ failures' \in 0 .. MaxFailures
<1>1. CASE Succeeds /\ Upsert(S)
  <2>1. /\ DOMAIN docs' = DOMAIN docs \cup S
        /\ \A n \in DOMAIN docs' \ S : docs'[n] = docs[n]
        /\ \A n \in S : docs'[n] \in NodeRecords
    BY <1>1, UpsertDocs DEF Typed
  <2>2. \A n \in DOMAIN docs : docs[n] \in NodeRecords
    BY DEF Typed, TypeOK
  <2>3. failures' \in 0 .. MaxFailures /\ DOMAIN docs \subseteq Turns
    BY <1>1 DEF Typed, TypeOK, Succeeds
  <2> QED BY <2>1, <2>2, <2>3, TreeType DEF Typed
<1>2. CASE Fails /\ UNCHANGED docs
  BY <1>2, BoundsAssumption DEF Typed, TypeOK, Fails
<1> QED BY <1>1, <1>2

(* A step that leaves the indexes alone. *)
LEMMA SameIndexes ==
  TypeOK /\ UNCHANGED indexVars
    => IsIndex(active)' /\ IsIndex(hitsA)' /\ IsIndex(archive)' /\ IsIndex(hitsZ)'
BY DEF TypeOK, IsIndex, indexVars

LEMMA UpsertTypes == Typed /\ UpsertNode => Typed'
<1> SUFFICES ASSUME Typed, UpsertNode PROVE Typed'
  OBVIOUS
<1>1. Len(tree) \in DOMAIN tree
  BY TreeType DEF Typed, Shape, UpsertNode
<1>2. /\ DOMAIN docs' \subseteq Turns
      /\ \A n \in DOMAIN docs' : docs'[n] \in NodeRecords
      /\ failures' \in 0 .. MaxFailures
  BY <1>1, WriteTypes DEF UpsertNode
<1> QED BY <1>2, SameIndexes
     DEF Typed, TypeOK, Shape, UpsertNode, Nodes, compileVars

LEMMA CollectTypes == Typed /\ Collect => Typed'
<1> SUFFICES ASSUME Typed, Collect PROVE Typed'
  OBVIOUS
<1> USE DEF Typed
<1>1. PICK swept \in SUBSET Nodes("active") :
        /\ tree' = [n \in DOMAIN tree |->
                      IF n \in swept THEN [tree[n] EXCEPT !.status = "archived"]
                      ELSE tree[n]]
        /\ gone' = swept
        /\ pc' = IF swept = {} THEN "select" ELSE "reconcile"
  BY DEF Collect
<1>2. /\ tree' \in Seq(NodeRecords) /\ Len(tree') = Len(tree)
      /\ DOMAIN tree' = DOMAIN tree
      /\ \A n \in swept : n \in DOMAIN tree' /\ tree'[n].status = "archived"
  <2>1. swept \subseteq DOMAIN tree
    BY DEF Nodes
  <2>2. /\ tree' \in Seq(NodeRecords) /\ Len(tree') = Len(tree)
        /\ DOMAIN tree' = DOMAIN tree
        /\ \A n \in DOMAIN tree :
             tree'[n].status = IF n \in swept THEN "archived" ELSE tree[n].status
    BY <1>1, SweepTree
  <2> QED BY <2>1, <2>2
<1>3. gone' \subseteq Nodes("archived")' /\ moving' = None
  BY <1>1, <1>2 DEF Nodes, Collect, Shape
<1> QED BY <1>1, <1>2, <1>3, SameIndexes
     DEF TypeOK, Shape, Collect, compileVars, storeVars

LEMMA InsertTypes == ASSUME Typed, NEW n \in Turns, ReconcileInsert(n) PROVE Typed'
<1> USE DEF Typed
<1>1. n \in DOMAIN tree /\ tree[n].vec \in Events
  BY TreeType, Finds DEF ReconcileInsert, TypeOK, Nodes
<1>2. IsIndex(active)' /\ IsIndex(hitsA)' /\ IsIndex(archive)' /\ IsIndex(hitsZ)'
  <2>1. archive' = [i \in DOMAIN archive \cup {n} |->
                      IF i = n THEN tree[n].vec ELSE archive[i]]
    BY DEF ReconcileInsert, Archive!Insert
  <2>2. \E S \in SUBSET Turns : archive' \in [S -> Events]
    <3>1. DOMAIN archive \cup {n} \in SUBSET Turns
            /\ \A i \in DOMAIN archive : archive[i] \in Events
      BY IndexEntries DEF TypeOK
    <3>2. archive' \in [DOMAIN archive \cup {n} -> Events]
      BY <1>1, <2>1, <3>1
    <3> QED BY <3>1, <3>2
  <2>3. UNCHANGED <<active, hitsA, hitsZ>>
    BY DEF ReconcileInsert, Archive!Insert
  <2> QED BY <2>2, <2>3 DEF TypeOK, IsIndex
<1> QED BY <1>1, <1>2 DEF TypeOK, Shape, ReconcileInsert, Nodes, compileVars, storeVars

LEMMA DeleteTypes == ASSUME Typed, NEW n \in Turns, ReconcileDelete(n) PROVE Typed'
<1> USE DEF Typed
<1>1. IsIndex(active)' /\ IsIndex(hitsA)' /\ IsIndex(archive)' /\ IsIndex(hitsZ)'
  <2>1. active' = [i \in DOMAIN active \ {n} |-> active[i]]
    BY DEF ReconcileDelete, Active!Delete, Active!Only
  <2>2. IsIndex(active)'
    BY <2>1, OnlyIndex DEF TypeOK, IsIndex
  <2>3. UNCHANGED <<archive, hitsA, hitsZ>>
    BY DEF ReconcileDelete, Active!Delete
  <2> QED BY <2>2, <2>3 DEF TypeOK, IsIndex
<1> QED BY <1>1 DEF TypeOK, Shape, ReconcileDelete, Nodes, compileVars, storeVars

LEMMA PersistTypes == Typed /\ PersistSweep => Typed'
<1> SUFFICES ASSUME Typed, PersistSweep PROVE Typed'
  OBVIOUS
<1>1. /\ DOMAIN docs' \subseteq Turns
      /\ \A n \in DOMAIN docs' : docs'[n] \in NodeRecords
      /\ failures' \in 0 .. MaxFailures
  BY WriteTypes DEF PersistSweep
<1>2. moving' = None
  BY DEF PersistSweep, Typed, TypeOK
<1> QED BY <1>1, <1>2, SameIndexes
     DEF Typed, TypeOK, Shape, PersistSweep, Nodes, compileVars

LEMMA ForgetTypes ==
  ASSUME Typed, Forget,
         /\ DOMAIN docs' \subseteq Turns
         /\ \A n \in DOMAIN docs' : docs'[n] \in NodeRecords
         /\ failures' \in 0 .. MaxFailures /\ crashes' \in 0 .. MaxCrashes,
         UNCHANGED snapshot
  PROVE  Typed'
<1>1. IsIndex(active)' /\ IsIndex(hitsA)' /\ IsIndex(archive)' /\ IsIndex(hitsZ)'
  BY EmptyIndex DEF Forget, IsIndex
<1>2. <<>> \in Seq(NodeRecords) /\ Len(<<>>) = 0 /\ DOMAIN <<>> = {}
  OBVIOUS
<1>3. Len(snapshot') <= received' /\ 0 <= received'
  BY DEF Typed, TypeOK, Forget
<1>4. TypeOK'
  BY <1>1, <1>2, <1>3 DEF Typed, TypeOK, Forget
<1> QED BY <1>4 DEF Typed, Shape, Forget

LEMMA SaveTypes == Typed /\ (Tick \/ SaveSnapshot \/ SaveNodes \/ Crash) => Typed'
<1> SUFFICES ASSUME Typed PROVE Tick \/ SaveSnapshot \/ SaveNodes \/ Crash => Typed'
  OBVIOUS
<1>1. ASSUME Tick PROVE Typed'
  BY <1>1, SameIndexes DEF Typed, TypeOK, Shape, Tick, Nodes, compileVars, storeVars
<1>2. ASSUME SaveSnapshot PROVE Typed'
  <2>1. failures' \in 0 .. MaxFailures
    BY <1>2, BoundsAssumption DEF SaveSnapshot, Typed, TypeOK, Succeeds, Fails
  <2>2. snapshot' \in Seq(NodeRecords) /\ Len(snapshot') <= received
    BY <1>2 DEF SaveSnapshot, Typed, TypeOK
  <2> QED BY <1>2, <2>1, <2>2, SameIndexes
       DEF Typed, TypeOK, Shape, SaveSnapshot, Nodes, compileVars
<1>3. ASSUME SaveNodes PROVE Typed'
  <2>1. /\ DOMAIN docs' \subseteq Turns
        /\ \A n \in DOMAIN docs' : docs'[n] \in NodeRecords
        /\ failures' \in 0 .. MaxFailures
    BY <1>3, WriteTypes DEF SaveNodes
  <2>2. CASE Forget
    BY <1>3, <2>1, <2>2, ForgetTypes DEF SaveNodes, Typed, TypeOK
  <2>3. CASE /\ ~leaving /\ pc' = "select"
             /\ UNCHANGED <<tree, gone, moving, leaving, received, starts, indexVars,
                            compileVars>>
    BY <1>3, <2>1, <2>3, SameIndexes
    DEF Typed, TypeOK, Shape, SaveNodes, Nodes, compileVars
  <2> QED BY <1>3, <2>2, <2>3 DEF SaveNodes
<1>4. ASSUME Crash PROVE Typed'
  <2>1. crashes' \in 0 .. MaxCrashes
    BY <1>4, BoundsAssumption DEF Crash, Typed, TypeOK
  <2> QED BY <1>4, <2>1, ForgetTypes DEF Crash, Typed, TypeOK, storeVars
<1> QED BY <1>1, <1>2, <1>3, <1>4

LEMMA CompileTypes == Typed /\ CompilePrompt => Typed'
<1> SUFFICES ASSUME Typed, CompilePrompt PROVE Typed'
  OBVIOUS
<1>1. UNCHANGED <<workerVars, active, archive, storeVars, crashes, failures>>
  BY DEF CompilePrompt, ReadActive, Fallback, QueryActive, QueryArchive, Join,
         indexVars, Active!Query, Archive!Query
<1>2. pc # "none"
  BY DEF CompilePrompt, ReadActive, Fallback, QueryActive, QueryArchive, Join,
         Typed, Shape
<1>3. IsIndex(hitsA)' /\ IsIndex(hitsZ)'
  <2>1. CASE UNCHANGED <<hitsA, hitsZ>>
    BY <2>1 DEF Typed, TypeOK, IsIndex
  <2>2. CASE QueryActive
    BY <2>2, OnlyIndex
    DEF QueryActive, Active!Query, Active!Only, Typed, TypeOK, IsIndex
  <2>3. CASE QueryArchive
    BY <2>3, OnlyIndex
    DEF QueryArchive, Archive!Query, Archive!Only, Typed, TypeOK, IsIndex
  <2> QED BY <2>1, <2>2, <2>3 DEF CompilePrompt, ReadActive, Fallback, Join, indexVars
<1>4. IsIndex(active)' /\ IsIndex(archive)'
  BY <1>1 DEF Typed, TypeOK, IsIndex
<1>5. /\ at' \in {"ready", "embed", "archive", "join"}
      /\ seen' \subseteq DOMAIN tree /\ begun' \subseteq DOMAIN tree
      /\ result' \subseteq DOMAIN tree
  BY DEF CompilePrompt, ReadActive, Fallback, QueryActive, QueryArchive, Join,
         Typed, TypeOK, Nodes
<1> QED BY <1>1, <1>2, <1>3, <1>4, <1>5
     DEF Typed, TypeOK, Shape, Nodes, workerVars, storeVars

LEMMA TypeNext == Typed /\ [Next]_vars => Typed'
<1>1. Typed /\ UNCHANGED vars => Typed'
  BY SameIndexes
  DEF Typed, TypeOK, Shape, Nodes, vars, indexVars, workerVars, compileVars, storeVars
<1> QED BY <1>1, GetOrCreateTypes, AddNodeTypes, EmbedTypes, UpsertTypes, CollectTypes,
           InsertTypes, DeleteTypes, PersistTypes, SaveTypes, CompileTypes
        DEF Next, Worker

(* Prompts are only ever made of nodes of the tree, and the worker, the      *)
(* indexes, the documents and the snapshot stay what they are: SemanticMemory *)
(* keeps its types, through failed embeddings, failed writes and crashes.    *)
THEOREM TypeCorrect == Spec => []TypeOK
<1>1. Typed => TypeOK
  BY DEF Typed
<1> QED BY <1>1, TypeInit, TypeNext, PTL DEF Spec

-----------------------------------------------------------------------------
(* The indexes mirror the tree *)

LEMMA Counts ==
  ASSUME Typed, [Next]_vars
  PROVE  /\ crashes' = 0 => crashes = 0
         /\ failures' = 0 => failures = 0
<1>1. crashes \in Nat /\ failures \in Nat
  BY BoundsAssumption DEF Typed, TypeOK
<1>2. ASSUME GetOrCreate PROVE failures' = 0 => failures = 0
  <2>1. PICK failed \in SUBSET {"snapshot", "active", "archived"} :
          failures' = failures + Cardinality(failed)
    BY <1>2 DEF GetOrCreate
  <2>2. Cardinality(failed) \in Nat
    BY SetOfLoads, FS_CardinalityType, FS_Subset
  <2> QED BY <1>1, <2>1, <2>2
<1> QED
  BY <1>1, <1>2
  DEF Next, Worker, CompilePrompt, GetOrCreate, AddNode, Embed, UpsertNode, Collect,
      ReconcileInsert, ReconcileDelete, PersistSweep, Tick, SaveSnapshot, SaveNodes,
      Crash, ReadActive, Fallback, QueryActive, QueryArchive, Join, Succeeds, Fails,
      vars, storeVars

(* With no failed load the session is the one that was left. *)
LEMMA WholeLoad ==
  ASSUME Typed, GetOrCreate, failures = 0, failures' = 0
  PROVE  /\ tree' = snapshot
         /\ active' = LoadEmbeddings("active") /\ archive' = LoadEmbeddings("archived")
<1>1. PICK failed \in SUBSET {"snapshot", "active", "archived"} :
        /\ failures' = failures + Cardinality(failed)
        /\ failures' <= MaxFailures
        /\ tree' = IF "snapshot" \in failed THEN <<>> ELSE snapshot
        /\ active' = IF "active" \in failed THEN Empty ELSE LoadEmbeddings("active")
        /\ archive' = IF "archived" \in failed THEN Empty
                      ELSE LoadEmbeddings("archived")
  BY DEF GetOrCreate
<1>2. IsFiniteSet(failed) /\ Cardinality(failed) \in Nat
  BY SetOfLoads, FS_CardinalityType, FS_Subset
<1>3. failed = {}
  BY <1>1, <1>2, FS_EmptySet
<1> QED BY <1>1, <1>3

LEMMA CreateMirrors ==
  ASSUME Typed, NothingLost, GetOrCreate, failures = 0, failures' = 0
  PROVE  NothingLost'
<1>1. /\ tree' = snapshot /\ docs' = docs /\ pc' = "select" /\ gone' = {}
      /\ moving' = None
  BY WholeLoad DEF GetOrCreate, storeVars, Typed, Shape
<1>2. /\ DOMAIN docs = DOMAIN tree'
      /\ \A n \in DOMAIN docs : docs[n] = tree'[n]
  BY <1>1 DEF NothingLost, GetOrCreate
<1>3. DocsAreNodes'
  BY <1>1, <1>2 DEF DocsAreNodes, Unwritten
<1>4. Holds(active, InActive)'
  <2>1. {m \in DOMAIN docs : docs[m].status = "active" /\ docs[m].vec # None} = InActive'
    BY <1>1, <1>2 DEF InActive
  <2>2. active' = [n \in InActive' |-> docs[n].vec]
    BY <2>1, WholeLoad DEF LoadEmbeddings
  <2>3. \A n \in InActive' : docs[n].vec = tree'[n].vec
    BY <1>2 DEF InActive
  <2> QED BY <2>2, <2>3 DEF Holds
<1>5. Holds(archive, InArchive)'
  <2>1. {m \in DOMAIN docs : docs[m].status = "archived" /\ docs[m].vec # None}
          = InArchive'
    BY <1>1, <1>2 DEF InArchive
  <2>2. archive' = [n \in InArchive' |-> docs[n].vec]
    BY <2>1, WholeLoad DEF LoadEmbeddings
  <2>3. \A n \in InArchive' : docs[n].vec = tree'[n].vec
    BY <1>2 DEF InArchive
  <2> QED BY <2>2, <2>3 DEF Holds
<1> QED BY <1>1, <1>3, <1>4, <1>5 DEF NothingLost

LEMMA AddNodeMirrors ==
  ASSUME Typed, NothingLost, AddNode
  PROVE  NothingLost'
<1>1. /\ pc = "select" /\ pc' = "embed" /\ gone' = gone /\ moving' = moving
      /\ active' = active /\ archive' = archive /\ docs' = docs
  BY DEF AddNode, indexVars, storeVars
<1>2. /\ DOMAIN tree' = DOMAIN tree \cup {Len(tree')} /\ Len(tree') \notin DOMAIN tree
      /\ tree'[Len(tree')].vec = None
      /\ \A n \in DOMAIN tree : tree'[n] = tree[n]
  BY GrownTree DEF Typed
<1>3. InActive' = InActive
  BY <1>1, <1>2 DEF InActive
<1>4. InArchive' = InArchive
  BY <1>1, <1>2 DEF InArchive
<1>5. InActive \subseteq DOMAIN tree /\ InArchive \subseteq DOMAIN tree
  BY DEF InActive, InArchive
<1>6. Holds(active, InActive)' /\ Holds(archive, InArchive)'
  <2>1. Holds(active, InActive) /\ Holds(archive, InArchive)
    BY <1>1 DEF NothingLost
  <2> QED BY <1>1, <1>2, <1>3, <1>4, <1>5, <2>1 DEF Holds
<1>7. DocsAreNodes'
  <2>1. DOMAIN docs = DOMAIN tree /\ \A n \in DOMAIN docs : docs[n] = tree[n]
    BY <1>1 DEF NothingLost, DocsAreNodes, Unwritten
  <2> QED BY <1>1, <1>2, <2>1 DEF DocsAreNodes, Unwritten
<1> QED BY <1>1, <1>6, <1>7 DEF NothingLost

LEMMA EmbedMirrors ==
  ASSUME Typed, NothingLost, Embed
  PROVE  NothingLost'
<1>1. PICK answer \in Answers :
        /\ pc' = IF AskAgain(answer) THEN "again" ELSE "upsert"
        /\ \/ /\ answer = "vector"
              /\ tree' = [tree EXCEPT ![Len(tree)].vec = tree[Len(tree)].event]
              /\ Active!Insert(Len(tree), tree[Len(tree)].event)
           \/ answer # "vector" /\ UNCHANGED <<tree, active, hitsA>>
  BY DEF Embed
<1>2. /\ pc \in {"embed", "again"} /\ pc' \in {"again", "upsert"}
      /\ UNCHANGED <<gone, moving, archive, docs>>
  BY <1>1 DEF Embed, storeVars
<1>3. Holds(active, InActive) /\ Holds(archive, InArchive) /\ DocsAreNodes
  BY <1>2 DEF NothingLost
<1>4. CASE answer = "vector"
  <2> DEFINE k == Len(tree)
  <2>1. /\ tree # <<>> /\ tree[k].status = "active" /\ tree[k].vec = None
    BY <1>2 DEF Typed, Shape
  <2>2. /\ DOMAIN tree' = DOMAIN tree /\ k \in DOMAIN tree /\ Len(tree') = k
        /\ tree'[k].vec = tree[k].event /\ tree'[k].status = "active"
        /\ tree[k].event # None
        /\ \A n \in DOMAIN tree \ {k} : tree'[n] = tree[n]
    <3>1. tree[k] \in NodeRecords /\ k \in DOMAIN tree
      BY <2>1, TreeType DEF Typed
    <3>2. [tree[k] EXCEPT !.vec = tree[k].event].vec = tree[k].event
            /\ [tree[k] EXCEPT !.vec = tree[k].event].status = tree[k].status
      BY <3>1 DEF NodeRecords
    <3> QED BY <1>1, <1>4, <2>1, <3>1, <3>2, EmbedTree, Finds DEF Typed
  <2> HIDE DEF k
  <2>3. k \notin gone
    BY <1>2, <2>2 DEF Typed, Shape
  <2>4. InActive' = InActive \cup {k} /\ k \notin InActive
    BY <1>2, <2>1, <2>2 DEF InActive
  <2>5. InArchive' = InArchive /\ k \notin InArchive
    BY <1>2, <2>1, <2>2 DEF InArchive
  <2>6. Holds(active, InActive)'
    <3>1. active' = [i \in DOMAIN active \cup {k} |->
                       IF i = k THEN tree[k].event ELSE active[i]]
      BY <1>1, <1>4 DEF Active!Insert, k
    <3>2. DOMAIN active = InActive /\ \A i \in InActive : active[i] = tree[i].vec
      BY <1>3 DEF Holds
    <3>3. InActive \subseteq DOMAIN tree
      BY DEF InActive
    <3>4. \A i \in InActive' : active'[i] = tree'[i].vec
      BY <2>2, <2>4, <3>1, <3>2, <3>3
    <3> QED BY <2>4, <3>1, <3>2, <3>4 DEF Holds
  <2>7. Holds(archive, InArchive)'
    <3>1. \A i \in InArchive : tree'[i].vec = tree[i].vec
      BY <2>2, <2>5 DEF InArchive
    <3> QED BY <1>2, <1>3, <2>5, <3>1 DEF Holds
  <2>8. DocsAreNodes'
    <3>1. DOMAIN docs = DOMAIN tree \ {k} /\ \A n \in DOMAIN docs : docs[n] = tree[n]
      BY <1>2, <1>3 DEF DocsAreNodes, Unwritten, k
    <3> QED BY <1>2, <2>2, <3>1 DEF DocsAreNodes, Unwritten
  <2> QED BY <1>2, <2>6, <2>7, <2>8 DEF NothingLost
<1>5. CASE answer # "vector"
  <2>1. UNCHANGED <<tree, active, gone, moving, archive, docs>>
    BY <1>1, <1>2, <1>5
  <2>2. Holds(active, InActive)' /\ Holds(archive, InArchive)' /\ DocsAreNodes'
    BY <1>2, <1>3, <2>1 DEF Holds, InActive, InArchive, DocsAreNodes, Unwritten
  <2> QED BY <1>2, <2>2 DEF NothingLost
<1> QED BY <1>4, <1>5

LEMMA UpsertMirrors ==
  ASSUME Typed, NothingLost, UpsertNode, failures' = 0
  PROVE  NothingLost'
<1>1. /\ pc = "upsert" /\ pc' = "collect" /\ Upsert({Len(tree)})
      /\ UNCHANGED <<tree, gone, moving, active, archive>>
  BY BoundsAssumption DEF UpsertNode, Fails, Typed, TypeOK, indexVars
<1>2. Holds(active, InActive) /\ Holds(archive, InArchive) /\ DocsAreNodes
  BY <1>1 DEF NothingLost
<1>3. Holds(active, InActive)' /\ Holds(archive, InArchive)'
  BY <1>1, <1>2 DEF Holds, InActive, InArchive
<1>4. Len(tree) \in DOMAIN tree
  BY <1>1, TreeType DEF Typed, Shape
<1>5. DOMAIN docs = DOMAIN tree \ {Len(tree)} /\ \A n \in DOMAIN docs : docs[n] = tree[n]
  BY <1>1, <1>2 DEF DocsAreNodes, Unwritten
<1>6. /\ DOMAIN docs' = DOMAIN docs \cup {Len(tree)}
      /\ \A n \in DOMAIN docs' \ {Len(tree)} : docs'[n] = docs[n]
      /\ docs'[Len(tree)] = tree[Len(tree)]
  BY <1>1, <1>4, <1>5, UpsertDocs DEF Typed
<1>7. DocsAreNodes'
  BY <1>1, <1>4, <1>5, <1>6 DEF DocsAreNodes, Unwritten
<1> QED BY <1>1, <1>3, <1>7 DEF NothingLost

LEMMA CollectMirrors ==
  ASSUME Typed, NothingLost, Collect
  PROVE  NothingLost'
<1>1. PICK swept \in SUBSET Nodes("active") :
        /\ tree' = [n \in DOMAIN tree |->
                      IF n \in swept THEN [tree[n] EXCEPT !.status = "archived"]
                      ELSE tree[n]]
        /\ gone' = swept
        /\ pc' = IF swept = {} THEN "select" ELSE "reconcile"
  BY DEF Collect
<1>2. /\ pc = "collect" /\ gone = {} /\ moving = None
      /\ UNCHANGED <<moving, active, archive, docs>>
  BY DEF Collect, indexVars, storeVars, Typed, Shape
<1>3. Holds(active, InActive) /\ Holds(archive, InArchive) /\ DocsAreNodes
  BY <1>2 DEF NothingLost
<1>4. /\ DOMAIN tree' = DOMAIN tree /\ swept \subseteq DOMAIN tree
      /\ \A n \in DOMAIN tree :
           /\ tree'[n].vec = tree[n].vec
           /\ tree'[n].status = IF n \in swept THEN "archived" ELSE tree[n].status
           /\ n \notin swept => tree'[n] = tree[n]
           /\ n \in swept => tree[n].status = "active"
  BY <1>1, SweepTree DEF Typed
<1>5. \A n \in DOMAIN tree : tree[n].status \in {"active", "archived"} /\ n # None
  BY TreeType, Finds DEF Typed
<1>6. InActive' = InActive /\ InActive \subseteq DOMAIN tree
  BY <1>1, <1>2, <1>4, <1>5 DEF InActive
<1>7. InArchive' = InArchive /\ InArchive \subseteq DOMAIN tree
  BY <1>1, <1>2, <1>4, <1>5 DEF InArchive
<1>8. Holds(active, InActive)' /\ Holds(archive, InArchive)'
  BY <1>2, <1>3, <1>4, <1>6, <1>7 DEF Holds
<1>9. DocsAreNodes'
  <2>1. DOMAIN docs = DOMAIN tree /\ \A n \in DOMAIN docs : docs[n] = tree[n]
    BY <1>2, <1>3 DEF DocsAreNodes, Unwritten
  <2> QED BY <1>1, <1>2, <1>4, <2>1 DEF DocsAreNodes, Unwritten
<1>10. pc' \in {"select", "reconcile"}
  BY <1>1
<1> QED BY <1>8, <1>9, <1>10 DEF NothingLost

LEMMA InsertMirrors ==
  ASSUME Typed, NothingLost, NEW n \in Turns, ReconcileInsert(n)
  PROVE  NothingLost'
<1>1. /\ pc = "reconcile" /\ pc' = pc /\ moving = None /\ moving' = n
      /\ n \in gone /\ tree[n].vec # None
      /\ UNCHANGED <<tree, gone, active, docs>>
  BY DEF ReconcileInsert, storeVars
<1>2. Holds(active, InActive) /\ Holds(archive, InArchive) /\ DocsAreNodes
  BY <1>1 DEF NothingLost
<1>3. n \in DOMAIN tree /\ tree[n].status = "archived"
  BY <1>1 DEF Typed, TypeOK, Nodes
<1>4. \A m \in DOMAIN tree : m # None
  BY TreeType, Finds DEF Typed
<1>5. InArchive' = InArchive \cup {n}
  BY <1>1, <1>3, <1>4 DEF InArchive
<1>6. Holds(archive, InArchive)'
  <2>1. archive' = [i \in DOMAIN archive \cup {n} |->
                      IF i = n THEN tree[n].vec ELSE archive[i]]
    BY DEF ReconcileInsert, Archive!Insert
  <2>2. DOMAIN archive = InArchive /\ \A i \in InArchive : archive[i] = tree[i].vec
    BY <1>2 DEF Holds
  <2> QED BY <1>1, <1>5, <2>1, <2>2 DEF Holds
<1>7. Holds(active, InActive)' /\ DocsAreNodes'
  BY <1>1, <1>2 DEF Holds, InActive, DocsAreNodes, Unwritten
<1> QED BY <1>1, <1>6, <1>7 DEF NothingLost

LEMMA DeleteMirrors ==
  ASSUME Typed, NothingLost, NEW n \in Turns, ReconcileDelete(n)
  PROVE  NothingLost'
<1>1. /\ pc = "reconcile" /\ pc' = pc /\ n \in gone /\ gone' = gone \ {n}
      /\ moving = n \/ (moving = None /\ tree[n].vec = None)
      /\ moving' = None
      /\ UNCHANGED <<tree, archive, docs>>
  BY DEF ReconcileDelete, storeVars
<1>2. Holds(active, InActive) /\ Holds(archive, InArchive) /\ DocsAreNodes
  BY <1>1 DEF NothingLost
<1>3. n \in DOMAIN tree /\ tree[n].status = "archived"
  BY <1>1 DEF Typed, TypeOK, Nodes
<1>4. \A m \in DOMAIN tree : m # None
  BY TreeType, Finds DEF Typed
<1>5. InArchive' = InArchive
  BY <1>1, <1>3, <1>4 DEF InArchive
<1>6. InActive' = InActive \ {n}
  BY <1>1, <1>3 DEF InActive
<1>7. Holds(active, InActive)'
  <2>1. active' = [i \in DOMAIN active \ {n} |-> active[i]]
    BY DEF ReconcileDelete, Active!Delete, Active!Only
  <2>2. DOMAIN active = InActive /\ \A i \in InActive : active[i] = tree[i].vec
    BY <1>2 DEF Holds
  <2> QED BY <1>1, <1>6, <2>1, <2>2 DEF Holds
<1>8. Holds(archive, InArchive)' /\ DocsAreNodes'
  BY <1>1, <1>2, <1>5 DEF Holds, DocsAreNodes, Unwritten
<1> QED BY <1>1, <1>7, <1>8 DEF NothingLost

LEMMA PersistMirrors ==
  ASSUME Typed, NothingLost, PersistSweep, failures' = 0
  PROVE  NothingLost'
<1>1. /\ pc = "reconcile" /\ pc' = "select" /\ Upsert(DOMAIN tree)
      /\ UNCHANGED <<tree, gone, moving, active, archive>>
  BY BoundsAssumption DEF PersistSweep, Fails, Typed, TypeOK, indexVars
<1>2. Holds(active, InActive) /\ Holds(archive, InArchive) /\ DocsAreNodes
  BY <1>1 DEF NothingLost
<1>3. Holds(active, InActive)' /\ Holds(archive, InArchive)'
  BY <1>1, <1>2 DEF Holds, InActive, InArchive
<1>4. DOMAIN docs = DOMAIN tree /\ \A n \in DOMAIN docs : docs[n].vec = tree[n].vec
  BY <1>1, <1>2 DEF DocsAreNodes, Unwritten
<1>5. DOMAIN docs' = DOMAIN tree /\ \A n \in DOMAIN docs' : docs'[n] = tree[n]
  BY <1>1, <1>4, UpsertDocs DEF Typed
<1>6. DocsAreNodes'
  BY <1>1, <1>5 DEF DocsAreNodes, Unwritten
<1> QED BY <1>1, <1>3, <1>6 DEF NothingLost

LEMMA SaveMirrors ==
  ASSUME Typed, NothingLost, Tick \/ SaveSnapshot \/ SaveNodes, failures' = 0
  PROVE  NothingLost'
<1>1. pc \in {"select", "snapshot", "nodes"}
  BY DEF Tick, SaveSnapshot, SaveNodes
<1>2. /\ Holds(active, InActive) /\ Holds(archive, InArchive)
      /\ DOMAIN docs = DOMAIN tree /\ \A n \in DOMAIN docs : docs[n] = tree[n]
  BY <1>1 DEF NothingLost, DocsAreNodes, Unwritten
<1>3. ASSUME UNCHANGED <<tree, gone, moving, active, archive>>,
             pc' \in {"select", "snapshot", "nodes"},
             DOMAIN docs' = DOMAIN tree, \A n \in DOMAIN docs' : docs'[n] = tree[n]
      PROVE  /\ pc' # "none"
             /\ Holds(active, InActive)' /\ Holds(archive, InArchive)' /\ DocsAreNodes'
  BY <1>2, <1>3 DEF Holds, InActive, InArchive, DocsAreNodes, Unwritten
<1>4. CASE Tick
  BY <1>2, <1>3, <1>4 DEF Tick, indexVars, storeVars, NothingLost
<1>5. CASE SaveSnapshot
  <2>1. snapshot' = tree
    BY <1>5, BoundsAssumption DEF SaveSnapshot, Fails, Typed, TypeOK
  <2> QED BY <1>2, <1>3, <1>5, <2>1 DEF SaveSnapshot, indexVars, NothingLost
<1>6. CASE SaveNodes
  <2>1. Upsert(DOMAIN tree) /\ snapshot' = snapshot /\ snapshot = tree
    BY <1>6, BoundsAssumption DEF SaveNodes, Fails, Typed, TypeOK, NothingLost
  <2>2. DOMAIN docs' = DOMAIN tree /\ \A n \in DOMAIN docs' : docs'[n] = tree[n]
    BY <1>2, <2>1, UpsertDocs DEF Typed
  <2>3. CASE Forget
    BY <2>1, <2>2, <2>3 DEF Forget, NothingLost
  <2>4. CASE /\ ~leaving /\ pc' = "select"
             /\ UNCHANGED <<tree, gone, moving, leaving, received, starts, indexVars,
                            compileVars>>
    BY <1>3, <2>2, <2>4 DEF NothingLost, indexVars
  <2> QED BY <1>6, <2>3, <2>4 DEF SaveNodes
<1> QED BY <1>4, <1>5, <1>6

LEMMA CompileMirrors ==
  ASSUME NothingLost, UNCHANGED <<workerVars, active, archive, storeVars>>
  PROVE  NothingLost'
BY DEF NothingLost, Holds, InActive, InArchive, DocsAreNodes, Unwritten,
       workerVars, storeVars

LEMMA MirrorNext == Typed /\ MirrorInv /\ [Next]_vars => MirrorInv'
<1> SUFFICES ASSUME Typed, MirrorInv, [Next]_vars, crashes' = 0, failures' = 0
             PROVE  NothingLost'
  BY DEF MirrorInv
<1>1. NothingLost /\ failures = 0 /\ crashes = 0
  BY Counts DEF MirrorInv
<1>2. ~Crash
  BY <1>1 DEF Crash
<1>3. CASE CompilePrompt \/ UNCHANGED vars
  <2>1. UNCHANGED <<workerVars, active, archive, storeVars>>
    BY <1>3 DEF CompilePrompt, ReadActive, Fallback, QueryActive, QueryArchive, Join,
                indexVars, Active!Query, Archive!Query, vars
  <2> QED BY <1>1, <2>1, CompileMirrors
<1> QED
  BY <1>1, <1>2, <1>3, CreateMirrors, AddNodeMirrors, EmbedMirrors, UpsertMirrors,
     CollectMirrors, InsertMirrors, DeleteMirrors, PersistMirrors, SaveMirrors
  DEF Next, Worker

(* As long as the process has not crashed and the store has not failed, the  *)
(* active index holds between two events exactly the embeddings of the       *)
(* active nodes, and the archive index those of the archived ones: every     *)
(* step of reconcileSemanticIndices included, and every idle shutdown after  *)
(* which GetOrCreate rebuilds them from the documents.                       *)
THEOREM IndexesAlwaysMirror == Spec => []IndexesMirrorTree
<1>1. Init => MirrorInv
  BY DEF Init, MirrorInv, NothingLost, Empty
<1>2. Typed /\ MirrorInv => IndexesMirrorTree
  <2> SUFFICES ASSUME Typed, MirrorInv, pc = "select", crashes = 0, failures = 0
               PROVE  active = Embedded("active") /\ archive = Embedded("archived")
    BY DEF IndexesMirrorTree
  <2>1. Holds(active, InActive) /\ Holds(archive, InArchive)
    BY DEF MirrorInv, NothingLost
  <2>2. gone = {}
    BY DEF Typed, Shape
  <2>3. InActive = {m \in Nodes("active") : tree[m].vec # None}
    BY <2>2 DEF InActive, Nodes
  <2>4. InArchive = {m \in Nodes("archived") : tree[m].vec # None}
    BY <2>2 DEF InArchive, Nodes
  <2> QED BY <2>1, <2>3, <2>4 DEF Holds, Embedded
<1> QED BY <1>1, <1>2, TypeInit, TypeNext, MirrorNext, PTL DEF Spec

-----------------------------------------------------------------------------
(* What the documents remember *)

(* Writing nodes of the tree forgets nothing the documents hold of the       *)
(* snapshot and of the other nodes.                                          *)
LEMMA UpsertKeeps ==
  ASSUME Typed, Remembered, pc # "none", NEW S \in SUBSET DOMAIN tree, Upsert(S),
         UNCHANGED snapshot
  PROVE  /\ \A n \in DOMAIN snapshot : Keeps(n, snapshot[n])'
         /\ DOMAIN docs' = DOMAIN docs \cup S
         /\ \A n \in DOMAIN docs' \ S : docs'[n] = docs[n]
         /\ \A n \in S : /\ tree[n].vec # None => docs'[n].vec # None
                         /\ docs'[n].status = tree[n].status
<1>1. /\ DOMAIN docs' = DOMAIN docs \cup S
      /\ \A n \in DOMAIN docs' \ S : docs'[n] = docs[n]
      /\ \A n \in S :
           /\ docs'[n].status = tree[n].status
           /\ docs'[n].vec = IF tree[n].vec = None /\ n \in DOMAIN docs
                             THEN docs[n].vec ELSE tree[n].vec
  BY UpsertDocs DEF Typed
<1>2. ASSUME NEW n \in DOMAIN snapshot
      PROVE  Keeps(n, snapshot[n])'
  <2>1. /\ Keeps(n, snapshot[n])
        /\ snapshot[n].status = "archived" => tree[n].status = "archived"
    BY DEF Remembered
  <2>2. CASE n \in S
    BY <1>1, <2>1, <2>2 DEF Keeps
  <2>3. CASE n \notin S
    BY <1>1, <2>1, <2>3 DEF Keeps
  <2> QED BY <2>2, <2>3
<1>3. \A n \in S : tree[n].vec # None => docs'[n].vec # None
  BY <1>1
<1> QED BY <1>1, <1>2, <1>3

LEMMA RememberedNext ==
  ASSUME Typed, Remembered, [Next]_vars, failures = 0, failures' = 0
  PROVE  Remembered'
<1> DEFINE Snap == \A n \in DOMAIN snapshot : Keeps(n, snapshot[n])
           Written == \A n \in DOMAIN tree \ Unwritten :
                        /\ n \in DOMAIN docs
                        /\ tree[n].vec # None => docs[n].vec # None
                        /\ pc # "reconcile" => Keeps(n, tree[n])
           Older == pc # "none" =>
                      \A n \in DOMAIN snapshot :
                        n \in DOMAIN tree /\ (snapshot[n].status = "archived"
                                               => tree[n].status = "archived")
<1>1. Snap /\ Written /\ Older
  BY DEF Remembered
<1>2. ASSUME Snap', Written', Older' PROVE Remembered'
  BY <1>2 DEF Remembered
<1>3. ASSUME UNCHANGED storeVars PROVE Snap'
  BY <1>1, <1>3 DEF Keeps, storeVars
<1>4. ASSUME UNCHANGED <<storeVars, tree>>, pc' # "none", pc # "none",
             Unwritten' = Unwritten, pc = "reconcile" => pc' = "reconcile"
      PROVE  Remembered'
  BY <1>1, <1>2, <1>3, <1>4 DEF Keeps, storeVars
<1>5. CASE CompilePrompt \/ UNCHANGED vars
  <2>1. UNCHANGED <<workerVars, storeVars>>
    BY <1>5 DEF CompilePrompt, ReadActive, Fallback, QueryActive, QueryArchive, Join, vars
  <2> QED BY <1>1, <1>2, <2>1 DEF Keeps, Unwritten, storeVars, workerVars
<1>6. CASE GetOrCreate
  <2>1. tree' = snapshot /\ UNCHANGED storeVars /\ pc' = "select"
    BY <1>6, WholeLoad DEF GetOrCreate
  <2>2. Written'
    BY <1>1, <2>1 DEF Keeps, storeVars
  <2>3. Older'
    BY <2>1 DEF storeVars
  <2> QED BY <1>2, <1>3, <2>1, <2>2, <2>3
<1>7. CASE AddNode
  <2>1. /\ DOMAIN tree' = DOMAIN tree \cup {Len(tree')} /\ Len(tree') \notin DOMAIN tree
        /\ \A n \in DOMAIN tree : tree'[n] = tree[n]
    BY <1>7, GrownTree DEF Typed
  <2>2. UNCHANGED storeVars /\ pc = "select" /\ pc' = "embed"
    BY <1>7 DEF AddNode
  <2>3. Written'
    BY <1>1, <2>1, <2>2 DEF Unwritten, Keeps, storeVars
  <2>4. Older'
    BY <1>1, <2>1, <2>2 DEF storeVars
  <2> QED BY <1>2, <1>3, <2>2, <2>3, <2>4
<1>8. CASE Embed
  <2>1. UNCHANGED storeVars /\ pc \in {"embed", "again"} /\ pc' \in {"again", "upsert"}
    BY <1>8 DEF Embed
  <2>2. /\ DOMAIN tree' = DOMAIN tree /\ Len(tree') = Len(tree)
        /\ \A n \in DOMAIN tree : tree'[n].status = tree[n].status
        /\ \A n \in DOMAIN tree \ {Len(tree)} : tree'[n] = tree[n]
    <3>1. CASE UNCHANGED tree
      BY <3>1
    <3>2. CASE tree' = [tree EXCEPT ![Len(tree)].vec = tree[Len(tree)].event]
      <4>1. tree # <<>>
        BY <2>1 DEF Typed, Shape
      <4>2. /\ DOMAIN tree' = DOMAIN tree /\ Len(tree') = Len(tree)
            /\ \A n \in DOMAIN tree :
                 tree'[n] = IF n = Len(tree) THEN [tree[n] EXCEPT !.vec = tree[n].event]
                            ELSE tree[n]
        BY <3>2, <4>1, EmbedTree DEF Typed
      <4>3. \A n \in DOMAIN tree : tree[n] \in NodeRecords
        BY TreeType DEF Typed
      <4> QED BY <4>2, <4>3 DEF NodeRecords
    <3> QED BY <1>8, <3>1, <3>2 DEF Embed
  <2>3. Written'
    BY <1>1, <2>1, <2>2 DEF Unwritten, Keeps, storeVars
  <2>4. Older'
    BY <1>1, <2>1, <2>2 DEF storeVars
  <2> QED BY <1>2, <1>3, <2>1, <2>3, <2>4
<1>9. CASE UpsertNode
  <2>1. /\ Upsert({Len(tree)}) /\ pc = "upsert" /\ pc' = "collect"
        /\ UNCHANGED <<tree, snapshot>>
    BY <1>9, BoundsAssumption DEF UpsertNode, Fails, Typed, TypeOK
  <2>2. Len(tree) \in DOMAIN tree
    BY <2>1, TreeType DEF Typed, Shape
  <2>3. Snap' /\ Written'
    <3>1. /\ \A n \in DOMAIN snapshot : Keeps(n, snapshot[n])'
          /\ DOMAIN docs' = DOMAIN docs \cup {Len(tree)}
          /\ \A n \in DOMAIN docs' \ {Len(tree)} : docs'[n] = docs[n]
          /\ tree[Len(tree)].vec # None => docs'[Len(tree)].vec # None
          /\ docs'[Len(tree)].status = tree[Len(tree)].status
      BY <2>1, <2>2, UpsertKeeps
    <3> QED BY <1>1, <2>1, <3>1 DEF Unwritten, Keeps
  <2>4. Older'
    BY <1>1, <2>1
  <2> QED BY <1>2, <2>3, <2>4
<1>10. CASE Collect
  <2>1. PICK swept \in SUBSET Nodes("active") :
          /\ tree' = [n \in DOMAIN tree |->
                        IF n \in swept THEN [tree[n] EXCEPT !.status = "archived"]
                        ELSE tree[n]]
          /\ pc' = IF swept = {} THEN "select" ELSE "reconcile"
    BY <1>10 DEF Collect
  <2>2. /\ DOMAIN tree' = DOMAIN tree
        /\ \A n \in DOMAIN tree :
             /\ tree'[n].vec = tree[n].vec
             /\ tree'[n].status = IF n \in swept THEN "archived" ELSE tree[n].status
             /\ n \notin swept => tree'[n] = tree[n]
    BY <2>1, SweepTree DEF Typed
  <2>3. UNCHANGED storeVars /\ pc = "collect" /\ pc' \in {"select", "reconcile"}
    BY <1>10, <2>1 DEF Collect
  <2>4. Written'
    BY <1>1, <2>1, <2>2, <2>3 DEF Unwritten, Keeps, storeVars
  <2>5. Older'
    BY <1>1, <2>2, <2>3 DEF storeVars
  <2> QED BY <1>2, <1>3, <2>3, <2>4, <2>5
<1>11. CASE \E n \in Turns : ReconcileInsert(n) \/ ReconcileDelete(n)
  <2>1. UNCHANGED <<storeVars, tree, pc>> /\ pc = "reconcile"
    BY <1>11 DEF ReconcileInsert, ReconcileDelete
  <2> QED BY <1>4, <2>1 DEF Unwritten
<1>12. CASE PersistSweep
  <2>1. Upsert(DOMAIN tree) /\ pc = "reconcile" /\ pc' = "select"
          /\ UNCHANGED <<tree, snapshot>>
    BY <1>12, BoundsAssumption DEF PersistSweep, Fails, Typed, TypeOK
  <2>2. Snap' /\ Written'
    <3>1. /\ \A n \in DOMAIN snapshot : Keeps(n, snapshot[n])'
          /\ DOMAIN docs' = DOMAIN docs \cup DOMAIN tree
          /\ \A n \in DOMAIN tree : /\ tree[n].vec # None => docs'[n].vec # None
                                    /\ docs'[n].status = tree[n].status
      BY <2>1, UpsertKeeps
    <3> QED BY <2>1, <3>1 DEF Unwritten, Keeps
  <2> QED BY <1>1, <1>2, <2>1, <2>2
<1>13. CASE Tick
  <2>1. UNCHANGED <<storeVars, tree>> /\ pc = "select" /\ pc' = "snapshot"
    BY <1>13 DEF Tick
  <2> QED BY <1>4, <2>1 DEF Unwritten
<1>14. CASE SaveSnapshot
  <2>1. /\ snapshot' = tree /\ UNCHANGED <<tree, docs>>
        /\ pc = "snapshot" /\ pc' = "nodes"
    BY <1>14, BoundsAssumption DEF SaveSnapshot, Fails, Typed, TypeOK
  <2> QED BY <1>1, <1>2, <2>1 DEF Unwritten, Keeps
<1>15. CASE SaveNodes
  <2>1. Upsert(DOMAIN tree) /\ pc = "nodes" /\ UNCHANGED snapshot
    BY <1>15, BoundsAssumption DEF SaveNodes, Fails, Typed, TypeOK
  <2>2. /\ \A n \in DOMAIN snapshot : Keeps(n, snapshot[n])'
        /\ DOMAIN docs' = DOMAIN docs \cup DOMAIN tree
        /\ \A n \in DOMAIN tree : /\ tree[n].vec # None => docs'[n].vec # None
                                  /\ docs'[n].status = tree[n].status
    BY <2>1, UpsertKeeps
  <2>3. CASE Forget
    BY <1>2, <2>1, <2>2, <2>3 DEF Forget
  <2>4. CASE pc' = "select" /\ UNCHANGED tree
    BY <1>1, <1>2, <2>1, <2>2, <2>4 DEF Unwritten, Keeps
  <2> QED BY <1>15, <2>3, <2>4 DEF SaveNodes
<1>16. CASE Crash
  <2>1. UNCHANGED storeVars /\ tree' = <<>> /\ pc' = "none"
    BY <1>16 DEF Crash, Forget
  <2> QED BY <1>2, <1>3, <2>1
<1> QED BY <1>5, <1>6, <1>7, <1>8, <1>9, <1>10, <1>11, <1>12, <1>13, <1>14, <1>15, <1>16
        DEF Next, Worker

-----------------------------------------------------------------------------
(* What the indexes hold for a compilation *)

LEMMA IndexedNext ==
  ASSUME Typed, Remembered, Indexed, [Next]_vars, failures = 0, failures' = 0
  PROVE  Indexed'
<1>1. CASE CompilePrompt \/ UNCHANGED vars
  <2>1. UNCHANGED <<workerVars, active, archive>>
    BY <1>1 DEF CompilePrompt, ReadActive, Fallback, QueryActive, QueryArchive, Join,
                indexVars, Active!Query, Archive!Query, vars
  <2> QED BY <2>1 DEF Indexed, workerVars
<1>2. CASE GetOrCreate
  <2>1. /\ tree' = snapshot /\ moving' = None
        /\ active' = LoadEmbeddings("active") /\ archive' = LoadEmbeddings("archived")
    BY <1>2, WholeLoad DEF GetOrCreate, Typed, Shape
  <2>2. ASSUME NEW n \in DOMAIN snapshot, snapshot[n].vec # None
        PROVE  /\ n \in DOMAIN active' \cup DOMAIN archive'
               /\ snapshot[n].status = "archived" => n \in DOMAIN archive'
    <3>1. Keeps(n, snapshot[n])
      BY DEF Remembered
    <3>2. docs[n].status \in {"active", "archived"}
      BY <3>1, Finds DEF Keeps, Typed, TypeOK
    <3> QED BY <2>1, <2>2, <3>1, <3>2 DEF Keeps, LoadEmbeddings
  <2> QED BY <2>1, <2>2 DEF Indexed
<1>3. CASE AddNode
  <2>1. /\ DOMAIN tree' = DOMAIN tree \cup {Len(tree')} /\ Len(tree') \notin DOMAIN tree
        /\ tree'[Len(tree')].vec = None
        /\ \A n \in DOMAIN tree : tree'[n] = tree[n]
    <3>1. tree'[Len(tree')] = [event |-> received', status |-> "active", vec |-> None]
      BY <1>3, GrownTree DEF Typed
    <3>2. tree'[Len(tree')].vec = None
      BY <3>1
    <3> QED BY <1>3, <3>2, GrownTree DEF Typed
  <2>2. UNCHANGED <<gone, moving, active, archive>>
    BY <1>3 DEF AddNode, indexVars
  <2> QED BY <2>1, <2>2 DEF Indexed
<1>4. CASE Embed
  <2>1. UNCHANGED <<gone, moving, archive>> /\ pc \in {"embed", "again"}
    BY <1>4 DEF Embed
  <2>2. CASE UNCHANGED <<tree, active>>
    BY <2>1, <2>2 DEF Indexed
  <2>3. CASE /\ tree' = [tree EXCEPT ![Len(tree)].vec = tree[Len(tree)].event]
             /\ Active!Insert(Len(tree), tree[Len(tree)].event)
    <3>1. tree # <<>> /\ tree[Len(tree)].status = "active"
      BY <2>1 DEF Typed, Shape
    <3>2. /\ DOMAIN tree' = DOMAIN tree
          /\ \A n \in DOMAIN tree :
               tree'[n] = IF n = Len(tree) THEN [tree[n] EXCEPT !.vec = tree[n].event]
                          ELSE tree[n]
      BY <2>3, <3>1, EmbedTree DEF Typed
    <3>3. \A n \in DOMAIN tree : tree[n] \in NodeRecords
      BY TreeType DEF Typed
    <3>4. DOMAIN active' = DOMAIN active \cup {Len(tree)}
      BY <2>3 DEF Active!Insert
    <3>5. \A n \in DOMAIN tree : tree'[n].status = tree[n].status
      BY <3>2, <3>3 DEF NodeRecords
    <3> QED BY <2>1, <3>1, <3>2, <3>4, <3>5 DEF Indexed
  <2> QED BY <1>4, <2>2, <2>3 DEF Embed
<1>5. CASE Collect
  <2>1. PICK swept \in SUBSET Nodes("active") :
          /\ tree' = [n \in DOMAIN tree |->
                        IF n \in swept THEN [tree[n] EXCEPT !.status = "archived"]
                        ELSE tree[n]]
          /\ gone' = swept
    BY <1>5 DEF Collect
  <2>2. /\ DOMAIN tree' = DOMAIN tree
        /\ \A n \in DOMAIN tree :
             /\ tree'[n].vec = tree[n].vec
             /\ tree'[n].status = IF n \in swept THEN "archived" ELSE tree[n].status
    BY <2>1, SweepTree DEF Typed
  <2>3. UNCHANGED <<moving, active, archive>> /\ gone = {}
    BY <1>5 DEF Collect, indexVars, Typed, Shape
  <2> QED BY <2>1, <2>2, <2>3 DEF Indexed
<1>6. ASSUME NEW n \in Turns, ReconcileInsert(n) PROVE Indexed'
  <2>1. /\ DOMAIN archive' = DOMAIN archive \cup {n} /\ moving' = n
        /\ UNCHANGED <<tree, gone, active>>
    BY <1>6 DEF ReconcileInsert, Archive!Insert
  <2> QED BY <2>1 DEF Indexed
<1>7. ASSUME NEW n \in Turns, ReconcileDelete(n) PROVE Indexed'
  <2>1. /\ DOMAIN active' = DOMAIN active \ {n} /\ gone' = gone \ {n}
        /\ moving = n \/ tree[n].vec = None
        /\ moving' = None
        /\ UNCHANGED <<tree, archive>>
    BY <1>7 DEF ReconcileDelete, Active!Delete, Active!Only
  <2>2. tree[n].vec # None => n \in DOMAIN archive
    BY <1>7, <2>1, Finds DEF Indexed
  <2> QED BY <2>1, <2>2 DEF Indexed
<1>8. CASE Forget
  <2>1. tree' = <<>> /\ moving' = None
    BY <1>8 DEF Forget
  <2> QED BY <2>1 DEF Indexed
<1>9. CASE UNCHANGED <<tree, gone, moving, active, archive>>
  BY <1>9 DEF Indexed
<1> QED
  BY <1>1, <1>2, <1>3, <1>4, <1>5, <1>6, <1>7, <1>8, <1>9
  DEF Next, Worker, UpsertNode, PersistSweep, Tick, SaveSnapshot, SaveNodes, Crash,
      indexVars

(* The instances count as FiniteSets does. *)
LEMMA SameCardinality ==
  \A S : Active!Cardinality(S) = Cardinality(S) /\ Archive!Cardinality(S) = Cardinality(S)
BY DEF Active!Cardinality, Archive!Cardinality, Cardinality

(* A query for as many hits as there can be entries answers with all.        *)
LEMMA WholeQuery ==
  ASSUME Typed, TopK >= MaxEvents
  PROVE  /\ Active!Query(TopK) => DOMAIN hitsA' = DOMAIN active
         /\ Archive!Query(TopK) => DOMAIN hitsZ' = DOMAIN archive
<1>1. ASSUME NEW S \in SUBSET Turns
      PROVE  /\ IsFiniteSet(S) /\ Cardinality(S) \in Nat /\ Cardinality(S) <= TopK
             /\ \A hits \in SUBSET S : Cardinality(hits) = Cardinality(S) => hits = S
  <2>1. IsFiniteSet(Turns) /\ Cardinality(Turns) = MaxEvents
    <3>1. 0 <= MaxEvents /\ MaxEvents \in Int /\ MaxEvents - 1 + 1 = MaxEvents
      BY BoundsAssumption
    <3> QED BY <3>1, FS_Interval DEF Turns
  <2>2. IsFiniteSet(S) /\ Cardinality(S) <= MaxEvents /\ Cardinality(S) \in Nat
    BY <2>1, FS_Subset, FS_CardinalityType
  <2>3. \A hits \in SUBSET S : Cardinality(hits) = Cardinality(S) => hits = S
    BY <2>2, FS_Subset
  <2> QED BY <2>2, <2>3, BoundsAssumption, TopKAssumption
<1>2. DOMAIN active \in SUBSET Turns /\ DOMAIN archive \in SUBSET Turns
  BY IndexEntries DEF Typed, TypeOK
<1>3. ASSUME Active!Query(TopK) PROVE DOMAIN hitsA' = DOMAIN active
  <2>1. PICK hits \in SUBSET DOMAIN active :
          /\ Cardinality(hits) = Active!Least(TopK, Cardinality(DOMAIN active))
          /\ hitsA' = Active!Only(active, hits)
    BY <1>3, SameCardinality DEF Active!Query
  <2>2. Cardinality(hits) = Cardinality(DOMAIN active)
    BY <1>1, <1>2, <2>1, TopKAssumption DEF Active!Least
  <2> QED BY <1>1, <1>2, <2>1, <2>2 DEF Active!Only
<1>4. ASSUME Archive!Query(TopK) PROVE DOMAIN hitsZ' = DOMAIN archive
  <2>1. PICK hits \in SUBSET DOMAIN archive :
          /\ Cardinality(hits) = Archive!Least(TopK, Cardinality(DOMAIN archive))
          /\ hitsZ' = Archive!Only(archive, hits)
    BY <1>4, SameCardinality DEF Archive!Query
  <2>2. Cardinality(hits) = Cardinality(DOMAIN archive)
    BY <1>1, <1>2, <2>1, TopKAssumption DEF Archive!Least
  <2> QED BY <1>1, <1>2, <2>1, <2>2 DEF Archive!Only
<1> QED BY <1>3, <1>4

-----------------------------------------------------------------------------
(* What a compilation finds *)

(* While a session lives its nodes stay, archived ones stay archived and     *)
(* embedded ones embedded, and nothing leaves the archive index.             *)
LEMMA NothingLeaves ==
  ASSUME Typed, Worker, ~Forget
  PROVE  /\ UNCHANGED <<compileVars, hitsA, hitsZ>>
         /\ DOMAIN archive \subseteq DOMAIN archive'
         /\ \A n \in DOMAIN tree :
              /\ tree[n].status = "archived" => tree'[n].status = "archived"
              /\ tree[n].vec # None => tree'[n].vec # None
<1> DEFINE Stays == \A n \in DOMAIN tree :
                      /\ tree[n].status = "archived" => tree'[n].status = "archived"
                      /\ tree[n].vec # None => tree'[n].vec # None
<1>1. CASE AddNode
  BY <1>1, GrownTree DEF Typed, AddNode, indexVars
<1>2. CASE Embed
  <2>1. UNCHANGED <<archive, hitsA, hitsZ, compileVars>> /\ pc \in {"embed", "again"}
    BY <1>2 DEF Embed, Active!Insert
  <2>2. CASE UNCHANGED tree
    BY <2>1, <2>2
  <2>3. CASE tree' = [tree EXCEPT ![Len(tree)].vec = tree[Len(tree)].event]
    <3>1. tree # <<>>
      BY <2>1 DEF Typed, Shape
    <3>2. \A n \in DOMAIN tree :
            tree'[n] = IF n = Len(tree) THEN [tree[n] EXCEPT !.vec = tree[n].event]
                       ELSE tree[n]
      BY <2>3, <3>1, EmbedTree DEF Typed
    <3>3. \A n \in DOMAIN tree : tree[n] \in NodeRecords /\ tree[n].event # None
      BY TreeType, Finds DEF Typed
    <3>4. Stays
      BY <3>2, <3>3 DEF NodeRecords
    <3> QED BY <2>1, <3>4
  <2> QED BY <1>2, <2>2, <2>3 DEF Embed
<1>3. CASE Collect
  <2>1. PICK swept \in SUBSET Nodes("active") :
          tree' = [n \in DOMAIN tree |->
                     IF n \in swept THEN [tree[n] EXCEPT !.status = "archived"]
                     ELSE tree[n]]
    BY <1>3 DEF Collect
  <2>2. Stays
    BY <2>1, SweepTree DEF Typed
  <2> QED BY <1>3, <2>2 DEF Collect, indexVars
<1>4. CASE \E n \in Turns : ReconcileInsert(n) \/ ReconcileDelete(n)
  BY <1>4 DEF ReconcileInsert, ReconcileDelete, Archive!Insert, Active!Delete
<1>5. CASE UpsertNode \/ PersistSweep \/ Tick \/ SaveSnapshot \/ SaveNodes
  BY <1>5 DEF UpsertNode, PersistSweep, Tick, SaveSnapshot, SaveNodes, indexVars
<1> QED BY <1>1, <1>2, <1>3, <1>4, <1>5 DEF Worker

LEMMA CompilingNext ==
  ASSUME Typed, Indexed, Compiling, [Next]_vars
  PROVE  Compiling'
<1>1. CASE at' = "ready"
  BY <1>1 DEF Compiling
<1>2. CASE UNCHANGED vars
  BY <1>2 DEF vars, workerVars, compileVars, indexVars, Compiling, Found
<1>3. CASE GetOrCreate
  <2>1. at' = "ready"
    BY <1>3 DEF GetOrCreate, Typed, Shape, compileVars
  <2> QED BY <1>1, <2>1
<1>4. CASE Worker /\ ~Forget
  <2>1. begun \subseteq DOMAIN tree
    BY DEF Typed, TypeOK
  <2> QED BY <1>4, <2>1, NothingLeaves DEF Compiling, Found, compileVars
<1>5. CASE ReadActive
  <2>1. at' = "embed" /\ UNCHANGED tree
          /\ seen' = Nodes("active")
          /\ begun' = Nodes("active") \cup {n \in Nodes("archived") : tree[n].vec # None}
    BY <1>5 DEF ReadActive, workerVars
  <2> QED BY <2>1 DEF Compiling, Found, Nodes
<1>6. CASE QueryActive
  <2>1. at = "embed" /\ at' = "archive" /\ UNCHANGED <<tree, archive, begun, seen>>
          /\ Active!Query(TopK)
    BY <1>6 DEF QueryActive, workerVars
  <2>2. begun \subseteq DOMAIN tree
    BY DEF Typed, TypeOK
  <2>3. TopK >= MaxEvents => DOMAIN hitsA' = DOMAIN active
    BY <2>1, WholeQuery
  <2> QED BY <2>1, <2>2, <2>3 DEF Compiling, Found, Indexed
<1>7. CASE QueryArchive
  <2>1. at = "archive" /\ at' = "join" /\ UNCHANGED <<tree, hitsA, begun, seen>>
          /\ Archive!Query(TopK)
    BY <1>7 DEF QueryArchive, workerVars
  <2>2. TopK >= MaxEvents => DOMAIN hitsZ' = DOMAIN archive
    BY <2>1, WholeQuery
  <2> QED BY <2>1, <2>2 DEF Compiling, Found
<1>8. CASE Fallback \/ Join \/ Crash \/ Forget
  BY <1>1, <1>8 DEF Fallback, Join, Crash, Forget
<1> QED BY <1>2, <1>3, <1>4, <1>5, <1>6, <1>7, <1>8 DEF Next, CompilePrompt

LEMMA SearchNext == Typed /\ SearchInv /\ [Next]_vars => SearchInv'
<1> SUFFICES ASSUME Typed, SearchInv, [Next]_vars, failures' = 0
             PROVE  Remembered' /\ Indexed' /\ Compiling'
  BY DEF SearchInv
<1>1. failures = 0
  BY Counts
<1> QED BY <1>1, RememberedNext, IndexedNext, CompilingNext DEF SearchInv

(* A semantic compilation that may query for everything misses no active     *)
(* node and no embedded one, whatever the worker archives and moves          *)
(* between its reading of the tree and its two queries, and also after a     *)
(* crash, when the indexes are rebuilt from documents that are ahead of the  *)
(* snapshot.                                                                 *)
THEOREM NothingIsMissed == Spec => NothingEmbeddedIsMissed
<1> DEFINE Complete ==
      at = "join" /\ at' = "ready" /\ pc' # "none" /\ failures = 0 /\ TopK >= MaxEvents
        => begun \subseteq result'
<1>1. Init => SearchInv
  <2> SUFFICES ASSUME Init PROVE Remembered /\ Indexed /\ Compiling
    BY DEF SearchInv
  <2>1. tree = <<>> /\ snapshot = <<>> /\ pc = "none" /\ at = "ready" /\ moving = None
    BY DEF Init
  <2> QED BY <2>1 DEF Remembered, Indexed, Compiling
<1>2. Typed /\ SearchInv /\ [Next]_vars => [Complete]_vars
  <2> SUFFICES ASSUME Typed, SearchInv, Next, at = "join", at' = "ready", pc' # "none",
                      failures = 0, TopK >= MaxEvents
               PROVE  begun \subseteq result'
    OBVIOUS
  <2>1. Join
    <3>1. ~Forget
      BY DEF Forget
    <3>2. ~Worker
      BY <3>1, NothingLeaves DEF compileVars
    <3>3. ~GetOrCreate
      BY DEF GetOrCreate, compileVars
    <3> QED BY <3>1, <3>2, <3>3
         DEF Next, CompilePrompt, ReadActive, Fallback, QueryActive, QueryArchive, Crash
  <2>2. ASSUME NEW n \in begun, n \notin seen PROVE n \in result'
    <3>1. n \in DOMAIN tree
      BY DEF Typed, TypeOK
    <3>2. tree[n].status = "archived" /\ n \in DOMAIN hitsA \cup DOMAIN hitsZ
      BY <2>2 DEF SearchInv, Compiling, Found
    <3> QED BY <2>1, <3>1, <3>2 DEF Join
  <2> QED BY <2>1, <2>2 DEF Join
<1> QED BY <1>1, <1>2, TypeInit, TypeNext, SearchNext, PTL
     DEF Spec, NothingEmbeddedIsMissed
-----------------------------------------------------------------------------
(* The events of the session are a durable log *)

LEMMA SameEvents ==
  ASSUME NEW t, NEW u, DOMAIN u = DOMAIN t, \A n \in DOMAIN t : u[n].event = t[n].event
  PROVE  EventsOf(u) = EventsOf(t)
BY DEF EventsOf

LEMMA EventsType ==
  ASSUME NEW t \in Seq(NodeRecords)
  PROVE  /\ EventsOf(t) \in Seq(Events) /\ Len(EventsOf(t)) = Len(t)
         /\ \A n \in 1 .. Len(t) : EventsOf(t)[n] = t[n].event
<1>1. Len(t) \in Nat /\ DOMAIN t = 1 .. Len(t)
  OBVIOUS
<1>2. \A n \in 1 .. Len(t) : t[n].event \in Events
  BY Finds
<1>3. EventsOf(t) = [n \in 1 .. Len(t) |-> t[n].event]
  BY <1>1 DEF EventsOf
<1> DEFINE c == EventsOf(t)
<1> HIDE DEF c
<1>4. c \in [1 .. Len(t) -> Events] /\ \A n \in 1 .. Len(t) : c[n] = t[n].event
  BY <1>2, <1>3 DEF c
<1>5. \A k \in Nat : \A f \in [1 .. k -> Events] : f \in Seq(Events) /\ Len(f) = k
  OBVIOUS
<1> QED BY <1>1, <1>4, <1>5 DEF c

LEMMA NoEvents == EventsOf(<<>>) = <<>>
<1> DEFINE none == <<>>
<1>1. none \in Seq(NodeRecords) /\ Len(none) = 0
  OBVIOUS
<1> HIDE DEF none
<1>2. EventsOf(none) \in Seq(Events) /\ Len(EventsOf(none)) = 0
  BY <1>1, EventsType
<1>3. EventsOf(none) = <<>>
  BY <1>2
<1> QED BY <1>3 DEF none

(* An event extends the log. *)
LEMMA EventAdded ==
  ASSUME TypeOK, AddNode
  PROVE  received' \in Events /\ EventsOf(tree') = Append(EventsOf(tree), received')
<1> DEFINE c == EventsOf(tree)
           d == EventsOf(tree')
           a == Append(c, received')
<1>1. received' \in Events
  BY BoundsAssumption DEF AddNode, TypeOK, Events
<1>2. /\ tree \in Seq(NodeRecords) /\ Len(tree) \in Nat /\ DOMAIN tree = 1 .. Len(tree)
      /\ tree' \in Seq(NodeRecords) /\ Len(tree') = Len(tree) + 1
      /\ tree'[Len(tree) + 1].event = received'
      /\ \A n \in 1 .. Len(tree) : tree'[n] = tree[n]
  BY TreeType, GrownTree
<1>3. /\ c \in Seq(Events) /\ Len(c) = Len(tree)
      /\ \A n \in 1 .. Len(tree) : c[n] = tree[n].event
  BY <1>2, EventsType
<1>4. /\ d \in Seq(Events) /\ Len(d) = Len(tree) + 1
      /\ \A n \in 1 .. Len(tree) + 1 : d[n] = tree'[n].event
  BY <1>2, EventsType
<1> HIDE DEF c, d
<1>5. /\ a \in Seq(Events) /\ Len(a) = Len(tree) + 1
      /\ a[Len(tree) + 1] = received' /\ \A n \in 1 .. Len(tree) : a[n] = c[n]
  BY <1>1, <1>2, <1>3
<1> HIDE DEF a
<1>6. \A n \in 1 .. Len(tree) + 1 : n \in 1 .. Len(tree) \/ n = Len(tree) + 1
  BY <1>2
<1>7. \A n \in 1 .. Len(tree) + 1 : a[n] = d[n]
  BY <1>2, <1>3, <1>4, <1>5, <1>6
<1>8. /\ a = [n \in 1 .. Len(tree) + 1 |-> a[n]]
      /\ d = [n \in 1 .. Len(tree) + 1 |-> d[n]]
  BY <1>4, <1>5
<1>9. a = d
  BY <1>7, <1>8
<1> QED BY <1>1, <1>9 DEF a, c, d

(* What the worker does to a node leaves its event and its place alone. *)
LEMMA EventsStay ==
  ASSUME Typed, Embed \/ Collect
  PROVE  EventsOf(tree') = EventsOf(tree)
<1>1. CASE Embed
  <2>1. \/ tree' = [tree EXCEPT ![Len(tree)].vec = tree[Len(tree)].event]
        \/ tree' = tree
    BY <1>1 DEF Embed
  <2>2. ASSUME tree' = [tree EXCEPT ![Len(tree)].vec = tree[Len(tree)].event]
        PROVE  EventsOf(tree') = EventsOf(tree)
    <3>1. tree # <<>>
      BY <1>1 DEF Embed, Typed, Shape
    <3>2. DOMAIN tree' = DOMAIN tree /\ \A n \in DOMAIN tree : tree'[n].event = tree[n].event
      BY <2>2, <3>1, EmbedTree, TreeType DEF Typed, NodeRecords
    <3> QED BY <3>2, SameEvents
  <2> QED BY <2>1, <2>2
<1>2. CASE Collect
  <2>1. DOMAIN tree' = DOMAIN tree /\ \A n \in DOMAIN tree : tree'[n].event = tree[n].event
    BY <1>2, SweepTree DEF Collect, Typed
  <2> QED BY <2>1, SameEvents
<1> QED BY <1>1, <1>2

LEMMA LogStep == Typed /\ [Next]_vars => [Log!Next]_(Log!vars)
<1> SUFFICES ASSUME Typed, [Next]_vars PROVE Log!Next \/ UNCHANGED Log!vars
  OBVIOUS
<1>1. failures \in Nat /\ TypeOK
  BY BoundsAssumption DEF Typed, TypeOK
<1>2. ASSUME UNCHANGED <<History, snapshot>>, Succeeds \/ Fails
      PROVE  Log!Next \/ UNCHANGED Log!vars
  <2>1. UNCHANGED EventsOf(snapshot)
    BY <1>2
  <2> QED BY <1>1, <1>2, <2>1 DEF Succeeds, Fails, Log!Next, Log!Fault, Log!vars
<1>3. ASSUME UNCHANGED <<pc, tree, snapshot, failures>>
      PROVE  UNCHANGED Log!vars
  BY <1>3 DEF History, Log!vars
<1>4. CASE GetOrCreate
  <2>1. PICK failed \in SUBSET {"snapshot", "active", "archived"} :
          /\ failures' = failures + Cardinality(failed)
          /\ tree' = IF "snapshot" \in failed THEN <<>> ELSE snapshot
    BY <1>4 DEF GetOrCreate
  <2>2. IsFiniteSet(failed) /\ Cardinality(failed) \in Nat
    BY SetOfLoads, FS_CardinalityType, FS_Subset
  <2>3. /\ History = EventsOf(snapshot) /\ History' = EventsOf(tree')
        /\ UNCHANGED EventsOf(snapshot)
    BY <1>4 DEF GetOrCreate, History, storeVars
  <2>4. CASE "snapshot" \in failed
    <3>1. Cardinality(failed) # 0
      BY <2>2, <2>4, FS_EmptySet
    <3>2. History' = <<>>
      BY <2>1, <2>3, <2>4, NoEvents
    <3> QED BY <1>1, <2>1, <2>2, <2>3, <3>1, <3>2 DEF Log!Next, Log!StartOver
  <2>5. CASE "snapshot" \notin failed
    BY <1>1, <2>1, <2>2, <2>3, <2>5 DEF Log!Next, Log!FallBack
  <2> QED BY <2>4, <2>5
<1>5. CASE AddNode
  <2>1. UNCHANGED <<EventsOf(snapshot), failures>> /\ History = EventsOf(tree)
        /\ History' = EventsOf(tree')
    BY <1>5 DEF AddNode, storeVars, History
  <2> QED BY <1>1, <1>5, <2>1, EventAdded DEF Log!Next, Log!Extend
<1>6. CASE Embed \/ Collect
  <2>1. UNCHANGED <<EventsOf(snapshot), failures>> /\ History = EventsOf(tree)
        /\ History' = EventsOf(tree')
    BY <1>6 DEF Embed, Collect, storeVars, History
  <2> QED BY <1>6, <2>1, EventsStay DEF Log!vars
<1>7. CASE UpsertNode \/ PersistSweep
  <2>1. UNCHANGED <<History, snapshot>> /\ (Succeeds \/ Fails)
    BY <1>7 DEF UpsertNode, PersistSweep, History
  <2> QED BY <1>2, <2>1
<1>8. CASE Tick
  BY <1>8 DEF Tick, History, storeVars, Log!vars
<1>9. CASE SaveSnapshot
  <2>1. UNCHANGED History /\ History = EventsOf(tree)
    BY <1>9 DEF SaveSnapshot, History
  <2>2. CASE Succeeds /\ snapshot' = tree
    BY <2>1, <2>2 DEF Succeeds, Log!Next, Log!Save
  <2>3. CASE Fails /\ UNCHANGED snapshot
    BY <1>2, <2>1, <2>3
  <2> QED BY <1>9, <2>2, <2>3 DEF SaveSnapshot
<1>10. CASE SaveNodes
  <2>1. UNCHANGED snapshot /\ (Succeeds \/ Fails)
    BY <1>10 DEF SaveNodes
  <2>2. CASE Forget
    BY <1>1, <2>1, <2>2
    DEF Forget, History, Succeeds, Fails, Log!Next, Log!FallBack
  <2>3. CASE pc' = "select" /\ UNCHANGED tree
    <3>1. UNCHANGED History
      BY <1>10, <2>3 DEF SaveNodes, History
    <3> QED BY <1>2, <2>1, <3>1
  <2> QED BY <1>10, <2>2, <2>3 DEF SaveNodes
<1>11. CASE Crash
  BY <1>1, <1>11 DEF Crash, Forget, storeVars, History, Log!Next, Log!FallBack
<1>12. CASE CompilePrompt \/ UNCHANGED vars
           \/ \E n \in Turns : ReconcileInsert(n) \/ ReconcileDelete(n)
  <2>1. UNCHANGED <<pc, tree, snapshot, failures>>
    BY <1>12 DEF CompilePrompt, ReadActive, Fallback, QueryActive, QueryArchive, Join,
                 ReconcileInsert, ReconcileDelete, workerVars, storeVars, vars
  <2> QED BY <1>3, <2>1
<1> QED BY <1>4, <1>5, <1>6, <1>7, <1>8, <1>9, <1>10, <1>11, <1>12 DEF Next, Worker

(* Embedding a node, archiving it and moving it between the indexes leave    *)
(* the session's history alone, and what a shutdown or a crash leaves of it  *)
(* is the snapshot, whole: the semantic memory implements DurableLog.        *)
THEOREM ImplementsDurableLog == Spec => ImplementsLog
<1>1. Init => Log!Init
  BY NoEvents DEF Init, Log!Init, History
<1> QED BY <1>1, TypeInit, TypeNext, LogStep, PTL DEF Spec, ImplementsLog, Log!Spec
=============================================================================
