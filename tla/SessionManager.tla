----------------------------- MODULE SessionManager -----------------------------
(***************************************************************************)
(* One session as the gateway's handlers, the session manager, its worker  *)
(* goroutine and MongoDB see it:                                           *)
(*   internal/session/manager.go   GetOrCreate, EnqueueEvent,              *)
(*                                 sessionWorker, processEvent,            *)
(*                                 snapshotSession                         *)
(*   internal/gateway/server.go    CaptureEvent, Run, TriggerGC (callers)  *)
(*   internal/store/mongo.go       what each write leaves behind           *)
(*                                                                         *)
(* Each SessionState the manager creates is an incarnation: a tree, a      *)
(* channel and a worker.  A tree is the sequence of the events whose nodes *)
(* it holds: the node of turn i is the node of its i-th event (the shape   *)
(* and the collection of the tree are in ContextTree).  Every write to the *)
(* store may fail; the code logs the error and goes on.                    *)
(*                                                                         *)
(* A crash loses the memory of the process.  So does SIGTERM: GracefulStop *)
(* waits for the handlers but nothing cancels or awaits the workers.       *)
(***************************************************************************)
EXTENDS Integers, Sequences

CONSTANTS
  Clients,          \* concurrent callers of the gateway
  MaxEvents,        \* bound on the events of one client
  ChannelBuffer,    \* capacity of SessionState.EventChan
  MayStall,         \* may goroutines stall for as long as the idle timeout?
  MetricsEvery,     \* metrics are persisted every so many events (5)
  MaxIncarnations,  \* bound on the times the session is created
  MaxCrashes,       \* bound on the crashes
  MaxFailures       \* bound on the failed operations of the store

ASSUME BoundsAssumption ==
  /\ MaxEvents \in Nat /\ MaxIncarnations \in Nat
  /\ MaxCrashes \in Nat /\ MaxFailures \in Nat
ASSUME ConfigAssumption ==
  ChannelBuffer \in Nat /\ MetricsEvery \in Nat \ {0} /\ MayStall \in BOOLEAN

Events == Clients \X (1 .. MaxEvents)  \* <<c, n>> is the n-th event of c
None == <<>>                           \* no event
Incarnations == 1 .. MaxIncarnations
NoSession == 0

VARIABLES
  (* Manager.sessions *)
  current,     \* the incarnation in the map, or NoSession
  created,     \* how many there have been
  (* one SessionState and its worker, for each incarnation *)
  pc,          \* where the worker is
  queue,       \* EventChan
  busy,        \* the event in the worker's hands
  tree,        \* Tree
  idle,        \* time.Since(LastActivity) > idleTimeout
  leaving,     \* the snapshot being taken is that of an idle shutdown
  total,       \* Metrics.TotalEvents
  (* the handlers *)
  at, kind, handle, sent,
  (* MongoDB *)
  events,      \* collection events, in order of insertion
  nodes,       \* collection state_nodes: the event whose node has this turn
  snapshot,    \* the latest document of collection snapshots
  savedTotal,  \* collection session_metrics, total_events
  (* bounds and history *)
  crashes, failures,
  processed    \* events that have had a node in some tree

mapVars == <<current, created>>
workerVars == <<pc, queue, busy, tree, idle, leaving, total>>
clientVars == <<at, kind, handle, sent>>
storeVars == <<events, nodes, snapshot, savedTotal>>
vars == <<mapVars, workerVars, clientVars, storeVars, crashes, failures, processed>>

Init ==
  /\ current = NoSession /\ created = 0
  /\ pc = [i \in Incarnations |-> "none"]
  /\ queue = [i \in Incarnations |-> <<>>]
  /\ busy = [i \in Incarnations |-> None]
  /\ tree = [i \in Incarnations |-> <<>>]
  /\ idle = [i \in Incarnations |-> FALSE]
  /\ leaving = [i \in Incarnations |-> FALSE]
  /\ total = [i \in Incarnations |-> 0]
  /\ at = [c \in Clients |-> "ready"]
  /\ kind = [c \in Clients |-> "capture"]
  /\ handle = [c \in Clients |-> NoSession]
  /\ sent = [c \in Clients |-> 0]
  /\ events = <<>> /\ snapshot = <<>> /\ savedTotal = 0
  /\ nodes = [n \in {} |-> None]
  /\ crashes = 0 /\ failures = 0
  /\ processed = {}

(* An operation of the store succeeds, or fails and is logged. *)
Succeeds == UNCHANGED failures
Fails == failures < MaxFailures /\ failures' = failures + 1

-----------------------------------------------------------------------------
(* The handlers *)

Touch(i) == idle' = [idle EXCEPT ![i] = FALSE]

(* A handler starts, Run or one that only captures an event (CaptureEvent,  *)
(* and TriggerGC, whose trigger is an event like the others): the           *)
(* read-locked half of GetOrCreate.                                         *)
Call(c, k) ==
  /\ at[c] = "ready" /\ sent[c] < MaxEvents
  /\ kind' = [kind EXCEPT ![c] = k]
  /\ sent' = [sent EXCEPT ![c] = @ + 1]
  /\ \/ /\ current # NoSession
        /\ Touch(current)
        /\ at' = [at EXCEPT ![c] = "enqueue"]
     \/ /\ current = NoSession
        /\ at' = [at EXCEPT ![c] = "missed"]
        /\ UNCHANGED idle
  /\ UNCHANGED <<mapVars, pc, queue, busy, tree, leaving, total, handle,
                 storeVars, crashes, failures, processed>>

(* Faulty variants of a definition, which the properties must tell from it, *)
(* stand just before it and bear its name with a suffix.                    *)
NewSession_NoRestore ==
  LET i == created + 1 IN
  /\ created < MaxIncarnations
  /\ created' = i /\ current' = i
  /\ pc' = [pc EXCEPT ![i] = "select"]
  /\ UNCHANGED <<tree, queue, busy, idle, leaving, total, failures>>

NewSession_RequestContext ==
  LET i == created + 1 IN
  /\ created < MaxIncarnations
  /\ created' = i /\ current' = i
  /\ pc' = [pc EXCEPT ![i] = "done"]
  /\ tree' = [tree EXCEPT ![i] = snapshot]
  /\ UNCHANGED <<queue, busy, idle, leaving, total, failures>>

(* A new SessionState, with the tree of the latest snapshot; when loading   *)
(* it fails the session starts from an empty tree all the same.             *)
NewSession ==
  LET i == created + 1 IN
  /\ created < MaxIncarnations
  /\ created' = i /\ current' = i
  /\ pc' = [pc EXCEPT ![i] = "select"]
  /\ \/ Succeeds /\ tree' = [tree EXCEPT ![i] = snapshot]
     \/ Fails /\ tree' = [tree EXCEPT ![i] = <<>>]
  /\ UNCHANGED <<queue, busy, idle, leaving, total>>

GetOrCreate_NoDoubleCheck(c) ==
  /\ at[c] = "missed"
  /\ at' = [at EXCEPT ![c] = "enqueue"]
  /\ NewSession
  /\ UNCHANGED <<kind, handle, sent, storeVars, crashes, processed>>

(* The write-locked half of GetOrCreate. *)
GetOrCreate(c) ==
  /\ at[c] = "missed"
  /\ at' = [at EXCEPT ![c] = "enqueue"]
  /\ \/ /\ current # NoSession
        /\ Touch(current)
        /\ UNCHANGED <<mapVars, pc, queue, busy, tree, leaving, total, failures>>
     \/ current = NoSession /\ NewSession
  /\ UNCHANGED <<kind, handle, sent, storeVars, crashes, processed>>

(* What a handler does after EnqueueEvent: Run goes on to the model. *)
Return(c) ==
  at' = [at EXCEPT ![c] = IF kind[c] = "run" THEN "llm" ELSE "ready"]

(* EnqueueEvent finds the session, if there is one... *)
EnqueueLookup(c) ==
  /\ at[c] = "enqueue"
  /\ \/ /\ current # NoSession
        /\ handle' = [handle EXCEPT ![c] = current]
        /\ at' = [at EXCEPT ![c] = "send"]
     \/ current = NoSession /\ Return(c) /\ UNCHANGED handle
  /\ UNCHANGED <<mapVars, workerVars, kind, sent, storeVars, crashes, failures,
                 processed>>

(* ... and, no longer holding the lock, sends without blocking. *)
EnqueueSend(c) ==
  LET i == handle[c] IN
  /\ at[c] = "send"
  /\ Return(c)
  /\ handle' = [handle EXCEPT ![c] = NoSession]
  /\ \/ /\ Len(queue[i]) < ChannelBuffer
        /\ queue' = [queue EXCEPT ![i] = Append(@, <<c, sent[c]>>)]
     \/ Len(queue[i]) >= ChannelBuffer /\ UNCHANGED queue
  /\ UNCHANGED <<mapVars, pc, busy, tree, idle, leaving, total, kind, sent,
                 storeVars, crashes, failures, processed>>

(* The model: an answer, or an error (the request cannot be made or read,   *)
(* another status than 200, no choices); one request, never repeated.       *)
Completions == {"answer", "error"}

(* An answer is enqueued without creating the session again first.          *)
Generate(c) ==
  /\ at[c] = "llm"
  /\ \E result \in Completions :
       \/ /\ result = "error"
          /\ at' = [at EXCEPT ![c] = "ready"] /\ UNCHANGED <<kind, sent>>
       \/ /\ result = "answer"
          /\ sent[c] < MaxEvents
          /\ sent' = [sent EXCEPT ![c] = @ + 1]
          /\ kind' = [kind EXCEPT ![c] = "capture"]
          /\ at' = [at EXCEPT ![c] = "enqueue"]
  /\ UNCHANGED <<mapVars, workerVars, handle, storeVars, crashes, failures,
                 processed>>

(* Time passes without a call: the session has been idle for too long.      *)
(* Unless goroutines may stall, none is then about to take a step.          *)
GoIdle ==
  /\ current # NoSession /\ ~idle[current]
  /\ MayStall \/ /\ pc[current] = "select" /\ queue[current] = <<>>
                 /\ \A c \in Clients : at[c] \notin {"enqueue", "send"}
  /\ idle' = [idle EXCEPT ![current] = TRUE]
  /\ UNCHANGED <<mapVars, pc, queue, busy, tree, leaving, total, clientVars,
                 storeVars, crashes, failures, processed>>

-----------------------------------------------------------------------------
(* The worker *)

Goto(i, l) == pc' = [pc EXCEPT ![i] = l]

Receive_AnyEvent(i) ==
  /\ pc[i] = "select" /\ queue[i] # <<>>
  /\ \E k \in DOMAIN queue[i] :
       /\ busy' = [busy EXCEPT ![i] = queue[i][k]]
       /\ queue' = [queue EXCEPT ![i] =
                      SubSeq(@, 1, k - 1) \o SubSeq(@, k + 1, Len(@))]
  /\ Goto(i, "append")
  /\ UNCHANGED <<mapVars, tree, idle, leaving, total, clientVars, storeVars,
                 crashes, failures, processed>>

Receive(i) ==
  /\ pc[i] = "select" /\ queue[i] # <<>>
  /\ busy' = [busy EXCEPT ![i] = Head(queue[i])]
  /\ queue' = [queue EXCEPT ![i] = Tail(@)]
  /\ Goto(i, "append")
  /\ UNCHANGED <<mapVars, tree, idle, leaving, total, clientVars, storeVars,
                 crashes, failures, processed>>

(* processEvent 1: the raw event; its Sequence is not assigned yet. *)
AppendEvent(i) ==
  /\ pc[i] = "append"
  /\ Goto(i, "add")
  /\ \/ Succeeds /\ events' = Append(events, [event |-> busy[i], sequence |-> 0])
     \/ Fails /\ UNCHANGED events
  /\ UNCHANGED <<mapVars, queue, busy, tree, idle, leaving, total, clientVars,
                 nodes, snapshot, savedTotal, crashes, processed>>

(* 2 and 3: the next turn's node, embedded or not. *)
AddNode(i) ==
  /\ pc[i] = "add"
  /\ Goto(i, "persist")
  /\ tree' = [tree EXCEPT ![i] = Append(@, busy[i])]
  /\ processed' = processed \cup {busy[i]}
  /\ UNCHANGED <<mapVars, queue, busy, idle, leaving, total, clientVars,
                 storeVars, crashes, failures>>

(* Upserts of state_nodes by session and node id, which names the turn. *)
WriteNode(t, n) == nodes' = [k \in DOMAIN nodes \cup {n} |->
                               IF k = n THEN t[n] ELSE nodes[k]]
WriteNodes(t) == nodes' = [k \in DOMAIN nodes \cup DOMAIN t |->
                             IF k \in DOMAIN t THEN t[k] ELSE nodes[k]]

(* 4: the node itself. *)
UpsertNode(i) ==
  /\ pc[i] = "persist"
  /\ Goto(i, "collect")
  /\ \/ Succeeds /\ WriteNode(tree[i], Len(tree[i]))
     \/ Fails /\ UNCHANGED nodes
  /\ UNCHANGED <<mapVars, queue, busy, tree, idle, leaving, total, clientVars,
                 events, snapshot, savedTotal, crashes, processed>>

(* 5 to 7: scores, metrics, and a collection, which writes every node if it *)
(* archived one.                                                            *)
Collect(i) ==
  /\ pc[i] = "collect"
  /\ Goto(i, "metrics")
  /\ total' = [total EXCEPT ![i] = @ + 1]
  /\ \/ Succeeds /\ (UNCHANGED nodes \/ WriteNodes(tree[i]))
     \/ Fails /\ UNCHANGED nodes
  /\ UNCHANGED <<mapVars, queue, busy, tree, idle, leaving, clientVars,
                 events, snapshot, savedTotal, crashes, processed>>

PersistMetrics(i) ==
  /\ pc[i] = "metrics"
  /\ Goto(i, "select")
  /\ busy' = [busy EXCEPT ![i] = None]
  /\ \/ total[i] % MetricsEvery # 0 /\ UNCHANGED <<savedTotal, failures>>
     \/ total[i] % MetricsEvery = 0 /\ Succeeds /\ savedTotal' = total[i]
     \/ total[i] % MetricsEvery = 0 /\ Fails /\ UNCHANGED savedTotal
  /\ UNCHANGED <<mapVars, queue, tree, idle, leaving, total, clientVars,
                 events, nodes, snapshot, crashes, processed>>

(* The snapshot ticker. *)
SnapshotTick(i) ==
  /\ pc[i] = "select"
  /\ Goto(i, "snapshot")
  /\ UNCHANGED <<mapVars, queue, busy, tree, idle, leaving, total, clientVars,
                 storeVars, crashes, failures, processed>>

IdleTick_NoSnapshot(i) ==
  /\ pc[i] = "select" /\ idle[i]
  /\ Goto(i, "delete")
  /\ leaving' = [leaving EXCEPT ![i] = TRUE]
  /\ UNCHANGED <<mapVars, queue, busy, tree, idle, total, clientVars,
                 storeVars, crashes, failures, processed>>

(* The idle check finds LastActivity too old. *)
IdleTick(i) ==
  /\ pc[i] = "select" /\ idle[i]
  /\ Goto(i, "snapshot")
  /\ leaving' = [leaving EXCEPT ![i] = TRUE]
  /\ UNCHANGED <<mapVars, queue, busy, tree, idle, total, clientVars,
                 storeVars, crashes, failures, processed>>

(* snapshotSession: the snapshot, then every node, then the metrics. *)
SaveSnapshot(i) ==
  /\ pc[i] = "snapshot"
  /\ Goto(i, "upsert")
  /\ \/ Succeeds /\ snapshot' = tree[i]
     \/ Fails /\ UNCHANGED snapshot
  /\ UNCHANGED <<mapVars, queue, busy, tree, idle, leaving, total, clientVars,
                 events, nodes, savedTotal, crashes, processed>>

SaveNodes(i) ==
  /\ pc[i] = "upsert"
  /\ Goto(i, "total")
  /\ \/ Succeeds /\ WriteNodes(tree[i])
     \/ Fails /\ UNCHANGED nodes
  /\ UNCHANGED <<mapVars, queue, busy, tree, idle, leaving, total, clientVars,
                 events, snapshot, savedTotal, crashes, processed>>

SaveMetrics(i) ==
  /\ pc[i] = "total"
  /\ Goto(i, IF leaving[i] THEN "delete" ELSE "select")
  /\ \/ Succeeds /\ savedTotal' = total[i]
     \/ Fails /\ UNCHANGED savedTotal
  /\ UNCHANGED <<mapVars, queue, busy, tree, idle, leaving, total, clientVars,
                 events, nodes, snapshot, crashes, processed>>

(* The worker of an idle session takes it out of the map and returns; what  *)
(* reached its channel meanwhile stays there.                               *)
Delete(i) ==
  /\ pc[i] = "delete"
  /\ Goto(i, "done")
  /\ current' = NoSession
  /\ UNCHANGED <<created, queue, busy, tree, idle, leaving, total, clientVars,
                 storeVars, crashes, failures, processed>>

-----------------------------------------------------------------------------
Crash ==
  /\ crashes < MaxCrashes
  /\ crashes' = crashes + 1
  /\ current' = NoSession
  /\ pc' = [i \in Incarnations |-> IF pc[i] = "none" THEN "none" ELSE "done"]
  /\ queue' = [i \in Incarnations |-> <<>>]
  /\ busy' = [i \in Incarnations |-> None]
  /\ tree' = [i \in Incarnations |-> <<>>]
  /\ idle' = [i \in Incarnations |-> FALSE]
  /\ leaving' = [i \in Incarnations |-> FALSE]
  /\ total' = [i \in Incarnations |-> 0]
  /\ at' = [c \in Clients |-> "ready"]
  /\ handle' = [c \in Clients |-> NoSession]
  /\ UNCHANGED <<created, kind, sent, storeVars, failures, processed>>

Handler(c) ==
  \/ \E k \in {"capture", "run"} : Call(c, k)
  \/ GetOrCreate(c) \/ EnqueueLookup(c) \/ EnqueueSend(c) \/ Generate(c)

Process(i) == AppendEvent(i) \/ AddNode(i) \/ UpsertNode(i) \/ Collect(i)
              \/ PersistMetrics(i)

SnapshotSession(i) == SaveSnapshot(i) \/ SaveNodes(i) \/ SaveMetrics(i)

Worker(i) == Receive(i) \/ Process(i) \/ SnapshotTick(i) \/ IdleTick(i)
             \/ SnapshotSession(i) \/ Delete(i)

Next ==
  \/ \E c \in Clients : Handler(c)
  \/ \E i \in Incarnations : Worker(i)
  \/ GoIdle
  \/ Crash

Spec == Init /\ [][Next]_vars

(* A goroutine that can take a step does (the store's calls time out), and  *)
(* select picks among its ready cases at random, so a channel that is ready *)
(* again and again is received from.  Callers, ticks and crashes owe        *)
(* nothing.                                                                 *)
Fairness == \A i \in Incarnations :
              /\ WF_vars(Process(i) \/ SnapshotSession(i) \/ Delete(i))
              /\ SF_vars(Receive(i))

FairSpec == Spec /\ Fairness
-----------------------------------------------------------------------------
(* Properties *)

Live(i) == pc[i] \notin {"none", "done"}
Busy(i) == pc[i] \in {"append", "add", "persist", "collect", "metrics"}
History == IF current = NoSession THEN snapshot ELSE tree[current]
Elements(s) == {s[k] : k \in DOMAIN s}
Archive == {events[k].event : k \in DOMAIN events}

MapOK ==
  /\ current \in {NoSession} \cup Incarnations
  /\ created \in 0 .. MaxIncarnations

WorkersOK ==
  /\ pc \in [Incarnations -> {"none", "select", "append", "add", "persist",
                              "collect", "metrics", "snapshot", "upsert",
                              "total", "delete", "done"}]
  /\ queue \in [Incarnations -> Seq(Events)]
  /\ \A i \in Incarnations : Len(queue[i]) <= ChannelBuffer
  /\ busy \in [Incarnations -> Events \cup {None}]
  /\ \A i \in Incarnations : Busy(i) <=> busy[i] # None
  /\ tree \in [Incarnations -> Seq(Events)]
  /\ \A i \in Incarnations : pc[i] = "persist" => tree[i] # <<>>
  /\ idle \in [Incarnations -> BOOLEAN]
  /\ leaving \in [Incarnations -> BOOLEAN]
  /\ total \in [Incarnations -> Nat]

HandlersOK ==
  /\ at \in [Clients -> {"ready", "missed", "enqueue", "send", "llm"}]
  /\ kind \in [Clients -> {"capture", "run"}]
  /\ handle \in [Clients -> {NoSession} \cup Incarnations]
  /\ sent \in [Clients -> 0 .. MaxEvents]
  /\ \A c \in Clients : at[c] # "ready" => sent[c] > 0
  /\ \A c \in Clients : at[c] = "send" => handle[c] # NoSession

StoreOK ==
  /\ events \in Seq([event : Events, sequence : Nat])
  /\ DOMAIN nodes \subseteq Nat
  /\ \A n \in DOMAIN nodes : nodes[n] \in Events
  /\ snapshot \in Seq(Events)
  /\ savedTotal \in Nat
  /\ crashes \in 0 .. MaxCrashes /\ failures \in 0 .. MaxFailures
  /\ processed \subseteq Events

(* The worker holds an event exactly while it processes one, EventChan      *)
(* never exceeds its capacity, and every collection holds real events.      *)
TypeOK == MapOK /\ WorkersOK /\ HandlersOK /\ StoreOK

(* README "each session has exactly one worker goroutine": a worker that    *)
(* can still write is the one of the session in the map, also while an idle *)
(* session is being shut down and created again.                            *)
OneWorker == \A i \in Incarnations : Live(i) => current = i

(* The events of one client have their turns in the order the client sent   *)
(* them, through full channels, idle shutdowns, crashes and restores.       *)
ClientOrder ==
  \A j, k \in DOMAIN History :
    j < k /\ History[j][1] = History[k][1] => History[j][2] < History[k][2]

(* As long as the process has not crashed and the store has not failed, an  *)
(* idle shutdown and the next GetOrCreate forget no event.                  *)
NothingForgotten ==
  crashes = 0 /\ failures = 0 => processed = Elements(History)

(* Unless the store failed, the raw event behind every node of the session, *)
(* in memory or in a collection, is in the archive of raw events.           *)
RawEventsArchived ==
  failures = 0 =>
    Elements(History) \cup Elements(snapshot) \cup Elements(nodes)
      \subseteq Archive

(* What makes the last two inductive: what a snapshot that is being taken   *)
(* has saved, and where every event that may get a node comes from.         *)
SavedWhole ==
  failures = 0 =>
    \A i \in Incarnations :
      pc[i] \in {"upsert", "total", "delete"} => snapshot = tree[i]

ArchivedFirst ==
  failures = 0 =>
    /\ \A i \in Incarnations :
         /\ Elements(tree[i]) \subseteq Archive
         /\ pc[i] = "add" => busy[i] \in Archive
    /\ Elements(snapshot) \cup Elements(nodes) \subseteq Archive

(* The history of the session is the log DurableLog describes. *)
Log == INSTANCE DurableLog WITH
         Entry <- Events, log <- History, saved <- snapshot, faults <- failures
ImplementsLog == Log!Spec

(* An event in the channel of the session in the map is processed, unless   *)
(* that incarnation is shut down or crashes: no session accepts events that *)
(* it never processes.                                                      *)
QueueDrains ==
  \A i \in Incarnations : \A e \in Events :
    e \in Elements(queue[i]) ~> e \in Elements(tree[i]) \/ current # i

(* manager.go:176, no "zombie session that accepts enqueues but never       *)
(* processes them": without a crash an accepted event is processed.         *)
AcceptedIsProcessed ==
  \A e \in Events :
    (\E i \in Incarnations : e \in Elements(queue[i])) ~> e \in processed

(* README "No data is ever deleted": a document of state_nodes keeps        *)
(* describing the event it was written for, also when the session is shut   *)
(* down and created again; not after a crash, when the turns since the      *)
(* snapshot are handed out a second time, nor when a snapshot failed.       *)
NodesKeepTheirEvent ==
  [][crashes' = 0 /\ failures' = 0 =>
       \A n \in DOMAIN nodes : n \in DOMAIN nodes' /\ nodes'[n] = nodes[n]]_vars
=============================================================================
