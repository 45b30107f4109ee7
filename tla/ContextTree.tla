------------------------------ MODULE ContextTree ------------------------------
(***************************************************************************)
(* The context tree of one session and its garbage collector:              *)
(*   internal/statetree/tree.go, internal/gc/gc.go, the tree part of       *)
(*   Manager.processEvent and the snapshot and restore of                  *)
(*   internal/session/manager.go.                                          *)
(*                                                                         *)
(* NodeID is node_<session>_<turn>, so an event's node is named here by    *)
(* its TurnNumber; 0 is the root of NewTree.  Compressed branches have     *)
(* ids of their own (a nanosecond clock) and are kept as a set of records. *)
(*                                                                         *)
(* A payload is what the code tells apart in it: whether it contains a     *)
(* rule word, whether it is blank, and whether a fact is found in it.      *)
(* Retention scores are left open: Run may sweep ANY subset of the nodes   *)
(* the mark phase lets through, and the mean relevance may be low or not.  *)
(***************************************************************************)
EXTENDS Integers, FiniteSets, FiniteSetsExt

CONSTANTS
  Events,              \* the events clients send
  MaxTurns,            \* bound on the turns of one tree
  MaxSnapshotTurn,     \* bound on the turns of a tree that is snapshotted
  TokenBudget,         \* SessionState.TokenBudget, positive; not updated here
  SoftLimit,           \* int(budget * SweepHeadroomRatio); TokenBudget when off
  MaxActiveNodes,      \* gc.Policy, 0 disables
  MaxTreeDepth,        \* gc.Policy
  MaxChildrenPerNode,  \* gc.Policy
  CompressedTokens     \* TokenCount of the node a Compressor returns

EventTypes == {"user_prompt", "agent_prompt", "llm_response", "tool_call",
               "tool_result", "error", "retry", "gc_trigger",
               "branch_compression", "state_snapshot", "system"}

EventRecords == [type : EventTypes, rule : BOOLEAN,
                 text : {"blank", "plain", "facts"}, tokens : Nat]

ASSUME EventsAssumption == Events \subseteq EventRecords
ASSUME BoundsAssumption == MaxTurns \in Nat /\ MaxSnapshotTurn \in Nat
ASSUME PolicyAssumption ==
  /\ TokenBudget \in Nat \ {0} /\ SoftLimit \in Nat
  /\ MaxActiveNodes \in Nat /\ MaxTreeDepth \in Nat
  /\ MaxChildrenPerNode \in Nat /\ CompressedTokens \in Nat

VARIABLES
  tree,             \* Manager.sessions[id].Tree
  snapshots,        \* the latest document of the snapshots collection, or {}
  metrics,          \* SessionState.Metrics, in memory only
  archivedAtStart   \* history: tokens already archived when this tree was built

vars == <<tree, snapshots, metrics, archivedAtStart>>

-----------------------------------------------------------------------------
(* Nodes *)

NoParent == -1
Anchored == {"goal", "constraint"}  \* the types that attach to the root
NodeTypes == Anchored \cup {"decision", "attempt", "tool_result", "issue",
                            "background"}

NodeRecords == [type : NodeTypes, status : {"active", "archived"},
                parent : Int, keep : BOOLEAN, tokens : Nat]

ClassifyEvent(e) ==
  CASE e.type = "user_prompt"         -> IF e.rule THEN "constraint" ELSE "goal"
    [] e.type = "tool_call"           -> "attempt"
    [] e.type = "tool_result"         -> "tool_result"
    [] e.type = "llm_response"        -> "decision"
    [] e.type \in {"error", "retry"}  -> "issue"
    [] OTHER                          -> "background"

(* shouldDeferSweepFacts of the node ExtractFromEvent fills in: an event of *)
(* any type may carry facts, and an assistant reply that is not blank       *)
(* always yields a decision (its first sentence when nothing else).         *)
HasFactsOrDecisions(e) ==
  \/ e.text = "facts"
  \/ e.type = "llm_response" /\ e.text # "blank"

Nodes(t) == 0 .. t.turn
Active(t) == {n \in Nodes(t) : t.node[n].status = "active"}
Archived(t) == {n \in Nodes(t) : t.node[n].status = "archived"}
Merged(t) == UNION {c.nodes : c \in t.compressed}
ChildIDs(t, p) == {n \in Nodes(t) : t.node[n].parent = p} \ Merged(t)
Tokens(t, S) == MapThenSumSet(LAMBDA n : t.node[n].tokens, S)

NewTree ==
  [turn |-> 0, root |-> 0, compressed |-> {},
   node |-> [n \in {0} |-> [type |-> "goal", status |-> "active",
                            parent |-> NoParent, keep |-> FALSE, tokens |-> 0]]]

FindBestParent(t, type) ==
  IF type \in Anchored \/ Active(t) = {} THEN t.root
  ELSE CHOOSE m \in Active(t) : \A n \in Active(t) : n <= m

(* IncrementTurn and AddNode, which the worker calls back to back. *)
AddNode(t, e) ==
  LET new == t.turn + 1
      type == ClassifyEvent(e)
  IN [t EXCEPT
       !.turn = new,
       !.node = [n \in 0 .. new |->
                   IF n = new
                   THEN [type |-> type, status |-> "active",
                         parent |-> FindBestParent(t, type),
                         keep |-> HasFactsOrDecisions(e), tokens |-> e.tokens]
                   ELSE t.node[n]]]

-----------------------------------------------------------------------------
(* The collector *)

(* depthFrom(rootID, 0), and the largest ChildIDs (a compressed branch is a *)
(* child of its parent and has none).                                       *)
Depth(t) ==
  LET below[n \in Nodes(t)] ==
        IF n = t.root THEN 0
        ELSE IF t.node[n].parent = NoParent \/ n \in Merged(t) THEN -1
        ELSE LET d == below[t.node[n].parent] IN IF d < 0 THEN -1 ELSE d + 1
      depthOf(c) == IF below[c.parent] < 0 THEN -1 ELSE below[c.parent] + 1
  IN Max({below[n] : n \in Nodes(t)} \cup {depthOf(c) : c \in t.compressed})

Width(t) ==
  Max({Cardinality(ChildIDs(t, p))
         + Cardinality({c \in t.compressed : c.parent = p}) : p \in Nodes(t)})

(* Faulty variants of a definition, which the properties must tell from it,  *)
(* stand just before it and bear its name with a suffix.                     *)
ShouldRun_NoStructure(t, lowRelevance) ==
  \/ Tokens(t, Active(t)) > SoftLimit
  \/ MaxActiveNodes > 0 /\ Cardinality(Active(t)) > MaxActiveNodes
  \/ Active(t) # {} /\ lowRelevance

(* The triggers that do not depend on scores; no node is ever "resolved",   *)
(* so the last trigger of the code cannot fire.                             *)
ShouldRun(t, lowRelevance) ==
  \/ Tokens(t, Active(t)) > TokenBudget
  \/ Tokens(t, Active(t)) > SoftLimit
  \/ MaxActiveNodes > 0 /\ Cardinality(Active(t)) > MaxActiveNodes
  \/ Depth(t) > MaxTreeDepth
  \/ Width(t) > MaxChildrenPerNode
  \/ Active(t) # {} /\ lowRelevance

Candidates_NoDefer(t) == Active(t)

(* MARK: nodes with facts or decisions are skipped before both lists. *)
Candidates(t) == {n \in Active(t) : ~t.node[n].keep}
Branch(t, p) == {n \in Candidates(t) : t.node[n].parent = p}
FilterCompressible(t, S) == {n \in S : t.node[n].type \notin Anchored}

ToCompact_NoMinimum(t, swept) ==
  {p \in Nodes(t) :
     /\ \/ Cardinality(Branch(t, p)) >= MaxChildrenPerNode
        \/ Branch(t, p) \subseteq swept
     /\ FilterCompressible(t, Branch(t, p)) # {}}

(* COMPACT: the branches handed to the compressor once swept is archived:   *)
(* wide, or left without an active node, with three nodes to compress.      *)
ToCompact(t, swept) ==
  {p \in Nodes(t) :
     /\ \/ Cardinality(Branch(t, p)) >= MaxChildrenPerNode
        \/ Branch(t, p) \subseteq swept
     /\ Cardinality(FilterCompressible(t, Branch(t, p))) >= 3}

Archive_Unlinks(t, S) ==
  [t EXCEPT !.node =
     [n \in Nodes(t) |->
        IF n \in S THEN [t.node[n] EXCEPT !.status = "archived", !.parent = t.root]
        ELSE t.node[n]]]

Archive(t, S) ==
  [t EXCEPT !.node =
     [n \in Nodes(t) |-> IF n \in S THEN [t.node[n] EXCEPT !.status = "archived"]
                         ELSE t.node[n]]]

(* GarbageCollector.Run: sweep, then compact the branches in done, those of *)
(* ToCompact whose Compress call succeeds.                                  *)
Run(t, swept, done) ==
  LET branch(p) == FilterCompressible(t, Branch(t, p))
  IN [Archive(t, swept \cup UNION {branch(p) : p \in done})
        EXCEPT !.compressed =
          @ \cup {[parent |-> p, nodes |-> branch(p)] : p \in done}]

TokensFreed_Marked(t, swept, done) == Tokens(t, Candidates(t))

(* GCResult.TokensFreed *)
TokensFreed(t, swept, done) ==
  Tokens(t, swept)
    + MapThenSumSet(LAMBDA p : Tokens(t, FilterCompressible(t, Branch(t, p)))
                               - CompressedTokens, done)

-----------------------------------------------------------------------------
(* The session worker *)

ZeroMetrics == [totalEvents |-> 0, gcRuns |-> 0, totalTokensSaved |-> 0,
                branchesCompressed |-> 0]

Init ==
  /\ tree = NewTree
  /\ snapshots = {}
  /\ metrics = ZeroMetrics
  /\ archivedAtStart = 0

(* processEvent when ShouldRun is false... *)
ProcessWithoutGC(e) ==
  LET t == AddNode(tree, e) IN
  /\ tree.turn < MaxTurns
  /\ ~ShouldRun(t, FALSE)
  /\ tree' = t
  /\ metrics' = [metrics EXCEPT !.totalEvents = @ + 1]
  /\ UNCHANGED <<snapshots, archivedAtStart>>

(* ... and when it is true. *)
ProcessWithGC(e) ==
  LET t == AddNode(tree, e) IN
  /\ tree.turn < MaxTurns
  /\ \E lowRelevance \in BOOLEAN : ShouldRun(t, lowRelevance)
  /\ \E swept \in SUBSET Candidates(t) :
       \E done \in SUBSET ToCompact(t, swept) :
         /\ tree' = Run(t, swept, done)
         /\ metrics' = [metrics EXCEPT
              !.totalEvents = @ + 1, !.gcRuns = @ + 1,
              !.totalTokensSaved = @ + TokensFreed(t, swept, done),
              !.branchesCompressed = @ + Cardinality(done)]
  /\ UNCHANGED <<snapshots, archivedAtStart>>

(* snapshotSession; a failed insert is only logged and changes nothing. *)
Snapshot ==
  /\ tree.turn <= MaxSnapshotTurn
  /\ snapshots' = {tree}
  /\ UNCHANGED <<tree, metrics, archivedAtStart>>

(* GetOrCreate after a crash or an idle shutdown: RestoreFromSnapshot takes *)
(* for root the last goal (or parentless node) of the snapshot, whose order *)
(* is that of a Go map.  When there is no snapshot, or loading it fails,    *)
(* the session starts from NewTree.  Metrics always start from zero.        *)
RestoreFromSnapshot(s, root) == [s EXCEPT !.root = root]

Restart ==
  /\ \/ \E s \in snapshots :
          \E root \in {n \in Nodes(s) : s.node[n].type = "goal"} :
            tree' = RestoreFromSnapshot(s, root)
     \/ tree' = NewTree
  /\ metrics' = ZeroMetrics
  /\ archivedAtStart' = Tokens(tree', Archived(tree'))
  /\ UNCHANGED snapshots

Next ==
  \/ \E e \in Events : ProcessWithoutGC(e) \/ ProcessWithGC(e)
  \/ Snapshot
  \/ Restart

Spec == Init /\ [][Next]_vars
-----------------------------------------------------------------------------
(* Properties *)

IsTree(t) ==
  /\ t = [turn |-> t.turn, root |-> t.root, compressed |-> t.compressed,
          node |-> t.node]
  /\ t.turn \in Nat /\ t.root \in Nodes(t)
  /\ t.node \in [Nodes(t) -> NodeRecords]
  /\ t.compressed \in SUBSET [parent : Nodes(t), nodes : SUBSET Nodes(t)]

IsMetrics(m) ==
  /\ m = [totalEvents |-> m.totalEvents, gcRuns |-> m.gcRuns,
          totalTokensSaved |-> m.totalTokensSaved,
          branchesCompressed |-> m.branchesCompressed]
  /\ m.totalEvents \in Nat /\ m.gcRuns \in 0 .. m.totalEvents

(* A tree holds exactly the nodes of the turns 0..turnCount, one per turn,  *)
(* also after a restore has recomputed turnCount: IncrementTurn never hands *)
(* out the id of a node the tree already has.  The metrics count at most    *)
(* one collection per event (what totalTokensSaved is worth is said by      *)
(* SavedMatchesArchived).                                                   *)
TypeOK ==
  /\ IsTree(tree)
  /\ \A s \in snapshots : IsTree(s)
  /\ IsMetrics(metrics)

(* A node's parent is an older node of the tree, so depthFrom terminates    *)
(* and no id in ChildIDs or ParentID dangles, restored trees included.      *)
ParentsOlder(t) ==
  \A n \in Nodes(t) \ {0} : t.node[n].parent \in 0 .. n - 1

AncestorsOlder == ParentsOlder(tree)

(* findBestParent hangs each node that is not a goal or a constraint from   *)
(* the newest active node, so a node never has two such active children:    *)
(* the active set is a chain.                                               *)
UniqueChild(t) ==
  \A m, n \in Active(t) :
    /\ t.node[m].type \notin Anchored /\ t.node[n].type \notin Anchored
    /\ t.node[m].parent = t.node[n].parent
    => m = n

OneCompressibleChild == UniqueChild(tree)

(* Hence the compact phase, which wants three compressible active children  *)
(* of one parent, never compresses anything: no compressed_branch node is   *)
(* ever created and BranchesCompressed stays zero.                          *)
CompactionNeverFires == tree.compressed = {} /\ metrics.branchesCompressed = 0

(* "Nodes with any Facts or Decisions are never swept" (README): neither    *)
(* the sweep nor the compaction archives one, and a restore keeps it.       *)
KeptStayActive(t) ==
  \A n \in Nodes(t) : t.node[n].keep => t.node[n].status = "active"

FactsStayActive == KeptStayActive(tree)

(* What one tree keeps true: the inductive strengthening of the above.  The *)
(* root is the only parentless node, and nothing has been compressed.       *)
TreeInv(t) ==
  /\ IsTree(t)
  /\ t.node[0].parent = NoParent
  /\ ParentsOlder(t)
  /\ UniqueChild(t)
  /\ t.compressed = {}
  /\ KeptStayActive(t)

IInv ==
  /\ TreeInv(tree)
  /\ \A s \in snapshots : TreeInv(s)
  /\ IsMetrics(metrics)
  /\ metrics.branchesCompressed = 0

(* TotalTokensSaved is the size of what this incarnation archived: no node  *)
(* is counted twice, by the sweep and by the compaction of its branch.      *)
SavedMatchesArchived ==
  metrics.totalTokensSaved = Tokens(tree, Archived(tree)) - archivedAtStart

(* Sweeping does not take a node out of ChildIDs, so within an incarnation  *)
(* depth and width never decrease: once the depth or the width trigger      *)
(* fires, the collector runs at every later event.                          *)
StructuralPressureIsPermanent ==
  [][/\ metrics'.totalEvents = metrics.totalEvents + 1
     /\ Depth(tree) > MaxTreeDepth \/ Width(tree) > MaxChildrenPerNode
     => metrics'.gcRuns = metrics.gcRuns + 1]_vars

(* What a node is worth to those who read it back: all but its status.      *)
Content(t) == [n \in 1 .. t.turn |-> [t.node[n] EXCEPT !.status = "active"]]

(* README "No data is ever deleted": whatever a collection archives or      *)
(* compresses, the tree goes on being the log DurableLog describes, which   *)
(* an event extends and a restore takes back to the snapshot, whole.  When  *)
(* the snapshot cannot be loaded the session starts from NewTree.           *)
SavedContent == IF snapshots = {} THEN <<>> ELSE Content(CHOOSE s \in snapshots : TRUE)
Entries == {[type |-> ClassifyEvent(e), status |-> "active", parent |-> n,
             keep |-> HasFactsOrDecisions(e), tokens |-> e.tokens] :
              e \in Events, n \in 0 .. MaxTurns}
Log == INSTANCE DurableLog WITH
  Entry <- Entries, log <- Content(tree), saved <- SavedContent, faults <- 0
CollectionsKeepTheLog ==
  Log!Init /\ [][tree' = NewTree \/ Log!Next \/ UNCHANGED Log!vars]_vars

(* tree.go:236, "Goals and constraints attach to root."  After a restore    *)
(* the root is any goal of the snapshot.                                    *)
GoalsAttachToRoot ==
  \A n \in Nodes(tree) \ {0} : tree.node[n].type \in Anchored
                               => tree.node[n].parent = 0
=============================================================================
