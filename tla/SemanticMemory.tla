----------------------------- MODULE SemanticMemory -----------------------------
(***************************************************************************)
(* The semantic memory of a session: its nodes' embeddings in the active   *)
(* and the archive index, the worker that moves them when the collector    *)
(* archives nodes, and the prompt compilation that queries both meanwhile. *)
(*   internal/session/manager.go         GetOrCreate, CompilePrompt,       *)
(*                                       processEvent, snapshotSession,    *)
(*                                       reconcileSemanticIndices          *)
(*   internal/session/semantic_merge.go  MergeSemanticHits,                *)
(*                                       NodesForSemanticCompile           *)
(*   internal/store/mongo.go             embeddings in state_nodes         *)
(* The indexes are the ones of LiveIndex, which VectorIndex implements.    *)
(*                                                                         *)
(* Events are numbered in the order the worker receives them and stand for *)
(* their own embeddings; a node is named by its turn.  The collector may   *)
(* archive any active nodes (what it may not is in ContextTree).  The      *)
(* embedding service may fail at any time.                                 *)
(***************************************************************************)
EXTENDS Integers, Sequences, FiniteSets

CONSTANTS
  MaxEvents,    \* bound on the events the session receives
  TopK,         \* topKAtCompile and archiveTopK
  MaxStarts,    \* bound on the times the session is created
  MaxCrashes,   \* bound on the crashes
  MaxFailures   \* bound on the failed operations of the store

ASSUME BoundsAssumption ==
  /\ MaxEvents \in Nat /\ MaxStarts \in Nat
  /\ MaxCrashes \in Nat /\ MaxFailures \in Nat
ASSUME TopKAssumption == TopK \in Nat \ {0}

Events == 1 .. MaxEvents
Turns == 1 .. MaxEvents
None == 0        \* no embedding

NodeRecords == [event : Events, status : {"active", "archived"},
                vec : Events \cup {None}]

VARIABLES
  (* the session and its worker *)
  pc,        \* where the worker is, "none" when there is no session
  tree,      \* Tree, one node per turn
  gone,      \* reconcileSemanticIndices: nodes still to be moved
  moving,    \* the one of them that is in both indexes, or None
  leaving,   \* the snapshot being taken is that of an idle shutdown
  received,  \* events received so far
  starts,
  (* the indexes, and the hits of the compilation's queries *)
  active, hitsA, archive, hitsZ,
  (* one CompilePrompt *)
  at,        \* where it is
  seen,      \* the active nodes it has read
  result,    \* the nodes it hands to the compiler
  begun,     \* history: the nodes it ought to consider
  (* MongoDB *)
  docs,      \* collection state_nodes
  snapshot,  \* the latest document of collection snapshots
  crashes, failures

indexVars == <<active, hitsA, archive, hitsZ>>
workerVars == <<pc, tree, gone, moving, leaving, received, starts>>
compileVars == <<at, seen, result, begun>>
storeVars == <<docs, snapshot>>
vars == <<indexVars, workerVars, compileVars, storeVars, crashes, failures>>

Active == INSTANCE LiveIndex WITH
  live <- active, answer <- hitsA, Ids <- Turns, Vectors <- Events, MaxK <- TopK
Archive == INSTANCE LiveIndex WITH
  live <- archive, answer <- hitsZ, Ids <- Turns, Vectors <- Events, MaxK <- TopK

Empty == <<>>

Init ==
  /\ pc = "none" /\ tree = <<>> /\ gone = {} /\ moving = None
  /\ leaving = FALSE /\ received = 0 /\ starts = 0
  /\ Active!Init /\ Archive!Init
  /\ at = "ready" /\ seen = {} /\ result = {} /\ begun = {}
  /\ docs = Empty /\ snapshot = <<>>
  /\ crashes = 0 /\ failures = 0

(* An operation of the store succeeds, or fails and is logged. *)
Succeeds == UNCHANGED failures
Fails == failures < MaxFailures /\ failures' = failures + 1

Nodes(status) == {n \in DOMAIN tree : tree[n].status = status}

-----------------------------------------------------------------------------
(* The store *)

(* $set leaves the embedding of a document alone when the node has none     *)
(* (bson omitempty).                                                        *)
Stored(n) ==
  [tree[n] EXCEPT !.vec = IF @ = None /\ n \in DOMAIN docs THEN docs[n].vec ELSE @]

Upsert(S) ==
  docs' = [n \in DOMAIN docs \cup S |-> IF n \in S THEN Stored(n) ELSE docs[n]]

(* LoadNodeEmbeddings and LoadArchivedNodeEmbeddings *)
LoadEmbeddings(status) ==
  [n \in {m \in DOMAIN docs : docs[m].status = status /\ docs[m].vec # None}
     |-> docs[n].vec]

(* GetOrCreate: a load that fails leaves its part of the session empty. *)
GetOrCreate ==
  /\ pc = "none" /\ starts < MaxStarts
  /\ \E failed \in SUBSET {"snapshot", "active", "archived"} :
       /\ failures' = failures + Cardinality(failed)
       /\ failures' <= MaxFailures
       /\ tree' = IF "snapshot" \in failed THEN <<>> ELSE snapshot
       /\ active' = IF "active" \in failed THEN Empty ELSE LoadEmbeddings("active")
       /\ archive' = IF "archived" \in failed THEN Empty
                     ELSE LoadEmbeddings("archived")
  /\ pc' = "select" /\ starts' = starts + 1
  /\ UNCHANGED <<gone, moving, leaving, received, hitsA, hitsZ, compileVars,
                 storeVars, crashes>>

-----------------------------------------------------------------------------
(* processEvent *)

AddNode ==
  /\ pc = "select" /\ received < MaxEvents
  /\ received' = received + 1
  /\ tree' = Append(tree, [event |-> received', status |-> "active", vec |-> None])
  /\ pc' = "embed"
  /\ UNCHANGED <<gone, moving, leaving, starts, indexVars, compileVars, storeVars,
                 crashes, failures>>

(* What a request to the embedding service comes back with: an embedding,   *)
(* an error that may pass (of the network, of the server), or one that will *)
(* not (of the request, or an answer without an embedding).                 *)
Answers == {"vector", "transient", "permanent"}
(* The provider asks once more after an error that may pass. *)
AskAgain(answer) == answer = "transient" /\ pc = "embed"

(* The node of the event is embedded and inserted, or stays without. *)
Embed ==
  LET n == Len(tree) IN
  /\ pc \in {"embed", "again"}
  /\ \E answer \in Answers :
       /\ pc' = IF AskAgain(answer) THEN "again" ELSE "upsert"
       /\ \/ /\ answer = "vector"
             /\ tree' = [tree EXCEPT ![n].vec = tree[n].event]
             /\ Active!Insert(n, tree[n].event)
          \/ answer # "vector" /\ UNCHANGED <<tree, active, hitsA>>
  /\ UNCHANGED <<gone, moving, leaving, received, starts, archive, hitsZ,
                 compileVars, storeVars, crashes, failures>>

UpsertNode ==
  /\ pc = "upsert"
  /\ pc' = "collect"
  /\ \/ Succeeds /\ Upsert({Len(tree)})
     \/ Fails /\ UNCHANGED docs
  /\ UNCHANGED <<tree, gone, moving, leaving, received, starts, indexVars,
                 compileVars, snapshot, crashes>>

(* The collector archives nodes, if it runs and finds any. *)
Collect ==
  /\ pc = "collect"
  /\ \E swept \in SUBSET Nodes("active") :
       /\ tree' = [n \in DOMAIN tree |->
                     IF n \in swept THEN [tree[n] EXCEPT !.status = "archived"]
                     ELSE tree[n]]
       /\ gone' = swept
       /\ pc' = IF swept = {} THEN "select" ELSE "reconcile"
  /\ UNCHANGED <<moving, leaving, received, starts, indexVars, compileVars,
                 storeVars, crashes, failures>>

(* reconcileSemanticIndices takes the nodes in any order: into the archive  *)
(* index when embedded ...                                                  *)
ReconcileInsert(n) ==
  /\ pc = "reconcile" /\ moving = None /\ n \in gone /\ tree[n].vec # None
  /\ Archive!Insert(n, tree[n].vec)
  /\ moving' = n
  /\ UNCHANGED <<pc, tree, gone, leaving, received, starts, active, hitsA,
                 compileVars, storeVars, crashes, failures>>

(* Faulty variants of a definition, which the properties must tell from it, *)
(* stand just before it and bear its name with a suffix.                    *)
ReconcileDelete_Never(n) ==
  /\ pc = "reconcile" /\ n \in gone
  /\ moving = n \/ (moving = None /\ tree[n].vec = None)
  /\ gone' = gone \ {n} /\ moving' = None
  /\ UNCHANGED <<pc, tree, leaving, received, starts, indexVars, compileVars,
                 storeVars, crashes, failures>>

(* ... and then out of the active one. *)
ReconcileDelete(n) ==
  /\ pc = "reconcile" /\ n \in gone
  /\ moving = n \/ (moving = None /\ tree[n].vec = None)
  /\ Active!Delete(n)
  /\ gone' = gone \ {n} /\ moving' = None
  /\ UNCHANGED <<pc, tree, leaving, received, starts, archive, hitsZ,
                 compileVars, storeVars, crashes, failures>>

(* After a sweep every node is written. *)
PersistSweep ==
  /\ pc = "reconcile" /\ gone = {}
  /\ pc' = "select"
  /\ \/ Succeeds /\ Upsert(DOMAIN tree)
     \/ Fails /\ UNCHANGED docs
  /\ UNCHANGED <<tree, gone, moving, leaving, received, starts, indexVars,
                 compileVars, snapshot, crashes>>

-----------------------------------------------------------------------------
(* Snapshots, idle shutdowns and crashes *)

Tick ==
  /\ pc = "select"
  /\ pc' = "snapshot" /\ leaving' \in BOOLEAN
  /\ UNCHANGED <<tree, gone, moving, received, starts, indexVars, compileVars,
                 storeVars, crashes, failures>>

SaveSnapshot_ActiveOnly ==
  /\ pc = "snapshot"
  /\ pc' = "nodes"
  /\ \/ Succeeds /\ snapshot' = SelectSeq(tree, LAMBDA r : r.status = "active")
     \/ Fails /\ UNCHANGED snapshot
  /\ UNCHANGED <<tree, gone, moving, leaving, received, starts, indexVars,
                 compileVars, docs, crashes>>

SaveSnapshot ==
  /\ pc = "snapshot"
  /\ pc' = "nodes"
  /\ \/ Succeeds /\ snapshot' = tree
     \/ Fails /\ UNCHANGED snapshot
  /\ UNCHANGED <<tree, gone, moving, leaving, received, starts, indexVars,
                 compileVars, docs, crashes>>

(* What a session loses with its memory; compilations are cut short with it. *)
Forget ==
  /\ pc' = "none" /\ tree' = <<>> /\ gone' = {} /\ moving' = None
  /\ leaving' = FALSE
  /\ active' = Empty /\ hitsA' = Empty /\ archive' = Empty /\ hitsZ' = Empty
  /\ at' = "ready" /\ seen' = {} /\ result' = {} /\ begun' = {}
  /\ UNCHANGED <<received, starts>>

SaveNodes ==
  /\ pc = "nodes"
  /\ \/ Succeeds /\ Upsert(DOMAIN tree)
     \/ Fails /\ UNCHANGED docs
  /\ \/ leaving /\ Forget
     \/ /\ ~leaving /\ pc' = "select"
        /\ UNCHANGED <<tree, gone, moving, leaving, received, starts, indexVars,
                       compileVars>>
  /\ UNCHANGED <<snapshot, crashes>>

Crash ==
  /\ pc # "none" /\ crashes < MaxCrashes
  /\ crashes' = crashes + 1
  /\ Forget
  /\ UNCHANGED <<storeVars, failures>>

-----------------------------------------------------------------------------
(* CompilePrompt *)

(* It reads the active nodes.  It ought to consider them, and the archived  *)
(* nodes that have an embedding.                                            *)
ReadActive ==
  /\ pc # "none" /\ at = "ready"
  /\ at' = "embed"
  /\ seen' = Nodes("active")
  /\ begun' = Nodes("active") \cup {n \in Nodes("archived") : tree[n].vec # None}
  /\ UNCHANGED <<result, workerVars, indexVars, storeVars, crashes, failures>>

(* The user message could not be embedded, or its vector does not fit an    *)
(* index: only the active nodes.                                            *)
Fallback ==
  /\ at \in {"embed", "archive"}
  /\ at' = "ready" /\ result' = seen
  /\ UNCHANGED <<seen, begun, workerVars, indexVars, storeVars, crashes, failures>>

QueryActive ==
  /\ at = "embed"
  /\ at' = "archive"
  /\ Active!Query(TopK)
  /\ UNCHANGED <<seen, result, begun, workerVars, archive, hitsZ, storeVars,
                 crashes, failures>>

QueryArchive ==
  /\ at = "archive"
  /\ at' = "join"
  /\ Archive!Query(TopK)
  /\ UNCHANGED <<seen, result, begun, workerVars, active, hitsA, storeVars,
                 crashes, failures>>

(* The hits that are archived nodes of the tree by now join the nodes read. *)
Join ==
  /\ at = "join"
  /\ at' = "ready"
  /\ result' = seen \cup {n \in DOMAIN hitsA \cup DOMAIN hitsZ :
                            n \in DOMAIN tree /\ tree[n].status = "archived"}
  /\ UNCHANGED <<seen, begun, workerVars, indexVars, storeVars, crashes, failures>>

Worker ==
  \/ AddNode \/ Embed \/ UpsertNode \/ Collect
  \/ \E n \in Turns : ReconcileInsert(n) \/ ReconcileDelete(n)
  \/ PersistSweep \/ Tick \/ SaveSnapshot \/ SaveNodes

CompilePrompt_ArchiveFirst ==
  \/ ReadActive \/ Fallback \/ Join
  \/ /\ at = "embed" /\ at' = "archive" /\ Archive!Query(TopK)
     /\ UNCHANGED <<seen, result, begun, workerVars, active, hitsA, storeVars,
                    crashes, failures>>
  \/ /\ at = "archive" /\ at' = "join" /\ Active!Query(TopK)
     /\ UNCHANGED <<seen, result, begun, workerVars, archive, hitsZ, storeVars,
                    crashes, failures>>

CompilePrompt == ReadActive \/ Fallback \/ QueryActive \/ QueryArchive \/ Join

Next == GetOrCreate \/ Worker \/ CompilePrompt \/ Crash

Spec == Init /\ [][Next]_vars
-----------------------------------------------------------------------------
(* Properties *)

IsIndex(f) == \E S \in SUBSET Turns : f \in [S -> Events]

(* A prompt is only ever made of nodes of the tree, whatever the indexes    *)
(* come back with, and nodes without an embedding are never moved.          *)
TypeOK ==
  /\ pc \in {"none", "select", "embed", "again", "upsert", "collect",
             "reconcile", "snapshot", "nodes"}
  /\ tree \in Seq(NodeRecords) /\ Len(tree) <= received
  /\ gone \subseteq Nodes("archived") /\ moving \in gone \cup {None}
  /\ leaving \in BOOLEAN
  /\ received \in 0 .. MaxEvents /\ starts \in 0 .. MaxStarts
  /\ IsIndex(active) /\ IsIndex(hitsA) /\ IsIndex(archive) /\ IsIndex(hitsZ)
  /\ at \in {"ready", "embed", "archive", "join"}
  /\ seen \subseteq DOMAIN tree /\ begun \subseteq DOMAIN tree
  /\ result \subseteq DOMAIN tree
  /\ DOMAIN docs \subseteq Turns /\ \A n \in DOMAIN docs : docs[n] \in NodeRecords
  /\ snapshot \in Seq(NodeRecords) /\ Len(snapshot) <= received
  /\ crashes \in 0 .. MaxCrashes /\ failures \in 0 .. MaxFailures

Embedded(status) ==
  [n \in {m \in Nodes(status) : tree[m].vec # None} |-> tree[n].vec]

(* Between events, as long as the process has not crashed and the store has *)
(* not failed, the active index holds exactly the embeddings of the active  *)
(* nodes and the archive index those of the archived ones, idle shutdowns   *)
(* and rebuilt indexes included.                                            *)
IndexesMirrorTree ==
  pc = "select" /\ crashes = 0 /\ failures = 0 =>
    active = Embedded("active") /\ archive = Embedded("archived")

(* The events of the session's nodes are the log DurableLog describes: as   *)
(* they are embedded, archived and moved between the indexes none is lost,  *)
(* repeated or put in another place, and between sessions the log is what   *)
(* the snapshot holds.                                                      *)
EventsOf(t) == [n \in DOMAIN t |-> t[n].event]
History == IF pc = "none" THEN EventsOf(snapshot) ELSE EventsOf(tree)
Log == INSTANCE DurableLog WITH
  Entry <- Events, log <- History, saved <- EventsOf(snapshot), faults <- failures
ImplementsLog == Log!Spec

(* A semantic compilation that may query for everything misses no active    *)
(* node and no embedded one, also when the collector archives nodes and     *)
(* moves their embeddings between its reading of the tree and its two       *)
(* queries: what leaves the active index before the one is in the archive   *)
(* index before the other.                                                  *)
NothingEmbeddedIsMissed ==
  [][at = "join" /\ at' = "ready" /\ pc' # "none" /\ failures = 0
       /\ TopK >= MaxEvents
       => begun \subseteq result']_vars
=============================================================================
