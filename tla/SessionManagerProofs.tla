-------------------------- MODULE SessionManagerProofs --------------------------
(* Proofs about SessionManager for every number of clients, incarnations,    *)
(* crashes and failures of the store, and every capacity of the channel; and *)
(* about GatewayRun, that Run leaves the session as SessionManager has it,   *)
(* and that its prompts are the past of its answers.                         *)
EXTENDS GatewayRun, TLAPS

-----------------------------------------------------------------------------
(* Type correctness *)

(* An event is not the absence of one. *)
LEMMA EventsAreEvents == \A e \in Events : e # None
BY DEF Events, None

(* The facts about one incarnation... *)
WorkerOK(i) ==
  /\ pc[i] \in {"none", "select", "append", "add", "persist", "collect",
                "metrics", "snapshot", "upsert", "total", "delete", "done"}
  /\ queue[i] \in Seq(Events) /\ Len(queue[i]) <= ChannelBuffer
  /\ busy[i] \in Events \cup {None} /\ (Busy(i) <=> busy[i] # None)
  /\ tree[i] \in Seq(Events) /\ (pc[i] = "persist" => tree[i] # <<>>)
  /\ idle[i] \in BOOLEAN /\ leaving[i] \in BOOLEAN /\ total[i] \in Nat

OnlyAt(i, f, g) ==
  g = [j \in Incarnations |-> g[j]] /\ \A j \in Incarnations \ {i} : g[j] = f[j]

(* ... and a step that changes one incarnation only. *)
StepOf(i) ==
  /\ OnlyAt(i, pc, pc') /\ OnlyAt(i, queue, queue') /\ OnlyAt(i, busy, busy')
  /\ OnlyAt(i, tree, tree') /\ OnlyAt(i, idle, idle')
  /\ OnlyAt(i, leaving, leaving') /\ OnlyAt(i, total, total')

(* The facts about the incarnations follow from those about the one that     *)
(* took the step.                                                            *)
LEMMA OneAtATime ==
  ASSUME WorkersOK, NEW i \in Incarnations, StepOf(i), WorkerOK(i)'
  PROVE  WorkersOK'
<1>1. ASSUME NEW j \in Incarnations PROVE WorkerOK(j)'
  <2>1. CASE j = i
    BY <2>1
  <2>2. CASE j # i
    BY <2>2 DEF StepOf, OnlyAt, WorkersOK, WorkerOK, Busy
  <2> QED BY <2>1, <2>2
<1> QED BY <1>1 DEF StepOf, OnlyAt, WorkersOK, WorkerOK, Busy

(* Every action keeps what is true of the incarnations. *)
LEMMA NewSessionWorkers ==
  ASSUME TypeOK, OneWorker, current = NoSession, NewSession
  PROVE  WorkersOK'
<1>1. PICK i \in Incarnations : i = created + 1
  BY BoundsAssumption DEF TypeOK, MapOK, NewSession, Incarnations
<1>2. /\ pc' = [pc EXCEPT ![i] = "select"]
      /\ tree' = [tree EXCEPT ![i] = snapshot] \/ tree' = [tree EXCEPT ![i] = <<>>]
      /\ UNCHANGED <<queue, busy, idle, leaving, total>>
  BY <1>1 DEF NewSession
<1>3. busy[i] = None
  BY <1>1 DEF TypeOK, WorkersOK, OneWorker, Live, Busy, NoSession, Incarnations
<1>4. snapshot \in Seq(Events)
  BY DEF TypeOK, StoreOK
<1>5. StepOf(i)
  BY <1>1, <1>2 DEF TypeOK, WorkersOK, StepOf, OnlyAt
<1>6. WorkerOK(i)'
  <2>1. pc'[i] = "select" /\ tree'[i] \in Seq(Events)
    <3>1. pc'[i] = "select" /\ (tree'[i] = snapshot \/ tree'[i] = <<>>)
      BY <1>2 DEF TypeOK, WorkersOK
    <3>2. <<>> \in Seq(Events)
      OBVIOUS
    <3> QED BY <3>1, <3>2, <1>4
  <2>2. WorkerOK(i)
    BY DEF TypeOK, WorkersOK, WorkerOK, Busy
  <2>3. UNCHANGED <<queue, busy, idle, leaving, total>>
    BY <1>2
  <2> QED BY <1>3, <2>1, <2>2, <2>3 DEF WorkerOK, Busy
<1> QED BY <1>1, <1>5, <1>6, OneAtATime DEF TypeOK

(* Refreshing LastActivity disturbs nothing else. *)
LEMMA TouchWorkers ==
  ASSUME WorkersOK, NEW i \in Incarnations, Touch(i),
         UNCHANGED <<pc, queue, busy, tree, leaving, total>>
  PROVE  WorkersOK'
BY DEF Touch, WorkersOK, Busy

(* The send in EnqueueEvent respects the capacity of the channel. *)
LEMMA SendWorkers ==
  ASSUME TypeOK, NEW c \in Clients, EnqueueSend(c)
  PROVE  WorkersOK'
<1>1. handle[c] \in Incarnations
  BY DEF EnqueueSend, TypeOK, HandlersOK
<1>2. <<c, sent[c]>> \in Events
  <2>1. sent[c] \in 1 .. MaxEvents
    BY BoundsAssumption DEF EnqueueSend, TypeOK, HandlersOK
  <2> QED BY <2>1 DEF Events
<1>3. PICK i \in Incarnations : i = handle[c]
  BY <1>1
<1>4. PICK e \in Events : e = <<c, sent[c]>>
  BY <1>2
<1>5. queue[i] \in Seq(Events)
  BY DEF TypeOK, WorkersOK
<1>6. /\ \/ Len(queue[i]) < ChannelBuffer /\ queue' = [queue EXCEPT ![i] = Append(queue[i], e)]
         \/ UNCHANGED queue
      /\ UNCHANGED <<pc, busy, tree, idle, leaving, total>>
  BY <1>3, <1>4 DEF EnqueueSend
<1>7. CASE UNCHANGED queue
  BY <1>6, <1>7 DEF TypeOK, WorkersOK, Busy
<1>8. CASE Len(queue[i]) < ChannelBuffer /\ queue' = [queue EXCEPT ![i] = Append(queue[i], e)]
  <2>1. Append(queue[i], e) \in Seq(Events) /\ Len(Append(queue[i], e)) <= ChannelBuffer
    BY <1>5, <1>8, ConfigAssumption
  <2>2. StepOf(i)
    BY <1>5, <1>6, <1>8 DEF TypeOK, WorkersOK, StepOf, OnlyAt
  <2>3. queue'[i] = Append(queue[i], e)
    BY <1>5, <1>8 DEF TypeOK, WorkersOK
  <2>4. WorkerOK(i)'
    BY <1>5, <1>6, <2>1, <2>3 DEF TypeOK, WorkersOK, WorkerOK, Busy
  <2> QED BY <1>5, <2>2, <2>4, OneAtATime DEF TypeOK
<1> QED BY <1>6, <1>7, <1>8

(* Receiving hands the worker the head of its channel. *)
LEMMA ReceiveWorkers ==
  ASSUME WorkersOK, NEW i \in Incarnations, Receive(i)
  PROVE  WorkersOK'
<1>1. StepOf(i)
  BY DEF Receive, Goto, WorkersOK, StepOf, OnlyAt
<1>2. /\ pc'[i] = "append" /\ busy'[i] = Head(queue[i]) /\ queue'[i] = Tail(queue[i])
      /\ queue[i] \in Seq(Events) /\ queue[i] # <<>> /\ Len(queue[i]) <= ChannelBuffer
      /\ UNCHANGED <<tree, idle, leaving, total>>
  BY DEF Receive, Goto, WorkersOK
<1>3. Head(queue[i]) \in Events /\ Tail(queue[i]) \in Seq(Events)
      /\ Len(Tail(queue[i])) <= Len(queue[i])
  BY <1>2
<1>4. WorkerOK(i)'
  BY <1>2, <1>3, EventsAreEvents, ConfigAssumption DEF WorkerOK, WorkersOK, Busy
<1> QED BY <1>1, <1>4, OneAtATime

(* The steps of processEvent keep the event in hand until the last of them. *)
LEMMA ProcessWorkers ==
  ASSUME WorkersOK, NEW i \in Incarnations, Process(i)
  PROVE  WorkersOK'
<1>1. StepOf(i)
  BY DEF Process, AppendEvent, AddNode, UpsertNode, Collect, PersistMetrics, Goto,
         WorkersOK, StepOf, OnlyAt
<1>2. WorkerOK(i)
  BY DEF WorkersOK, WorkerOK, Busy
<1>3. CASE AppendEvent(i)
  BY <1>2, <1>3 DEF AppendEvent, Goto, WorkersOK, WorkerOK, Busy
<1>4. CASE AddNode(i)
  <2>1. busy[i] \in Events
    BY <1>2, <1>4 DEF AddNode, WorkerOK, Busy
  <2>2. Append(tree[i], busy[i]) \in Seq(Events) /\ Append(tree[i], busy[i]) # <<>>
    BY <1>2, <2>1 DEF WorkerOK
  <2>3. tree'[i] = Append(tree[i], busy[i]) /\ pc'[i] = "persist"
        /\ UNCHANGED <<queue, busy, idle, leaving, total>>
    BY <1>4 DEF AddNode, Goto, WorkersOK
  <2>4. WorkerOK(i)'
    BY <1>2, <1>4, <2>2, <2>3 DEF AddNode, WorkerOK, Busy
  <2> QED BY <1>1, <2>4, OneAtATime
<1>5. CASE UpsertNode(i)
  BY <1>2, <1>5 DEF UpsertNode, Goto, WorkersOK, WorkerOK, Busy
<1>6. CASE Collect(i)
  <2>1. WorkerOK(i)'
    BY <1>2, <1>6 DEF Collect, Goto, WorkersOK, WorkerOK, Busy
  <2> QED BY <1>1, <2>1, OneAtATime
<1>7. CASE PersistMetrics(i)
  <2>1. WorkerOK(i)'
    BY <1>2, <1>7 DEF PersistMetrics, Goto, WorkersOK, WorkerOK, Busy
  <2> QED BY <1>1, <2>1, OneAtATime
<1> QED BY <1>3, <1>4, <1>5, <1>6, <1>7 DEF Process

(* Ticks, snapshots and the end of the worker touch neither channel nor tree. *)
LEMMA SnapshotWorkers ==
  ASSUME WorkersOK, NEW i \in Incarnations,
         SnapshotTick(i) \/ IdleTick(i) \/ SnapshotSession(i) \/ Delete(i)
  PROVE  WorkersOK'
<1>1. StepOf(i)
  BY DEF SnapshotTick, IdleTick, SnapshotSession, SaveSnapshot, SaveNodes,
         SaveMetrics, Delete, Goto, WorkersOK, StepOf, OnlyAt
<1>2. /\ pc[i] \in {"select", "snapshot", "upsert", "total", "delete"}
      /\ pc'[i] \in {"select", "snapshot", "upsert", "total", "delete", "done"}
      /\ leaving'[i] \in BOOLEAN
      /\ UNCHANGED <<queue, busy, tree, idle, total>>
  BY DEF SnapshotTick, IdleTick, SnapshotSession, SaveSnapshot, SaveNodes,
         SaveMetrics, Delete, Goto, WorkersOK
<1>3. WorkerOK(i)'
  BY <1>2 DEF WorkersOK, WorkerOK, Busy
<1> QED BY <1>1, <1>3, OneAtATime

(* A crash leaves empty incarnations. *)
LEMMA CrashWorkers ==
  ASSUME WorkersOK, Crash
  PROVE  WorkersOK'
<1>1. Len(<<>>) <= ChannelBuffer /\ <<>> \in Seq(Events)
  BY ConfigAssumption
<1> QED BY <1>1 DEF Crash, WorkersOK, Busy

(* What the store writes are documents of real nodes. *)
LEMMA WritesOK ==
  ASSUME StoreOK, NEW t \in Seq(Events)
  PROVE  /\ WriteNodes(t) =>
              DOMAIN nodes' \subseteq Nat /\ \A n \in DOMAIN nodes' : nodes'[n] \in Events
         /\ t # <<>> /\ WriteNode(t, Len(t)) =>
              DOMAIN nodes' \subseteq Nat /\ \A n \in DOMAIN nodes' : nodes'[n] \in Events
<1>1. DOMAIN t = 1 .. Len(t) /\ Len(t) \in Nat /\ \A n \in DOMAIN t : t[n] \in Events
  OBVIOUS
<1>2. ASSUME WriteNodes(t)
      PROVE  DOMAIN nodes' \subseteq Nat /\ \A n \in DOMAIN nodes' : nodes'[n] \in Events
  BY <1>1, <1>2 DEF WriteNodes, StoreOK
<1>3. ASSUME t # <<>>, WriteNode(t, Len(t))
      PROVE  DOMAIN nodes' \subseteq Nat /\ \A n \in DOMAIN nodes' : nodes'[n] \in Events
  <2>1. Len(t) \in DOMAIN t
    BY <1>1, <1>3
  <2> QED BY <1>1, <1>3, <2>1 DEF WriteNode, StoreOK
<1> QED BY <1>2, <1>3

(* TypeOK holds before the first call... *)
LEMMA TypeInit == Init => TypeOK
<1> SUFFICES ASSUME Init PROVE TypeOK
  OBVIOUS
<1>1. MapOK
  BY BoundsAssumption DEF Init, MapOK
<1>2. WorkersOK
  BY ConfigAssumption DEF Init, WorkersOK, Busy
<1>3. HandlersOK
  BY BoundsAssumption DEF Init, HandlersOK
<1>4. StoreOK
  BY BoundsAssumption DEF Init, StoreOK
<1> QED BY <1>1, <1>2, <1>3, <1>4 DEF TypeOK

(* Every step of a handler keeps the types... *)
LEMMA HandlerTypes ==
  ASSUME TypeOK, OneWorker, NEW c \in Clients, Handler(c)
  PROVE  TypeOK'
<1> USE BoundsAssumption DEF TypeOK
<1>1. ASSUME NEW k \in {"capture", "run"}, Call(c, k) PROVE TypeOK'
  <2>1. MapOK' /\ StoreOK'
    BY <1>1 DEF Call, mapVars, storeVars, MapOK, StoreOK
  <2>2. WorkersOK'
    <3>1. CASE current # NoSession
      BY <1>1, <3>1, TouchWorkers DEF Call, MapOK
    <3>2. CASE current = NoSession
      BY <1>1, <3>2 DEF Call, WorkersOK, Busy
    <3> QED BY <3>1, <3>2
  <2>3. HandlersOK'
    BY <1>1 DEF Call, HandlersOK
  <2> QED BY <2>1, <2>2, <2>3
<1>2. CASE GetOrCreate(c)
  <2>1. MapOK'
    BY <1>2 DEF GetOrCreate, NewSession, mapVars, MapOK, Incarnations
  <2>2. WorkersOK'
    <3>1. CASE current # NoSession
      BY <1>2, <3>1, TouchWorkers DEF GetOrCreate, MapOK
    <3>2. CASE current = NoSession
      BY <1>2, <3>2, NewSessionWorkers DEF GetOrCreate
    <3> QED BY <3>1, <3>2
  <2>3. HandlersOK'
    BY <1>2 DEF GetOrCreate, HandlersOK
  <2>4. StoreOK'
    BY <1>2 DEF GetOrCreate, NewSession, Succeeds, Fails, storeVars, StoreOK
  <2> QED BY <2>1, <2>2, <2>3, <2>4
<1>3. CASE EnqueueLookup(c)
  <2>1. MapOK' /\ StoreOK'
    BY <1>3 DEF EnqueueLookup, mapVars, storeVars, MapOK, StoreOK
  <2>2. WorkersOK'
    BY <1>3 DEF EnqueueLookup, workerVars, WorkersOK, Busy
  <2>3. HandlersOK'
    BY <1>3 DEF EnqueueLookup, Return, HandlersOK, MapOK
  <2> QED BY <2>1, <2>2, <2>3
<1>4. CASE EnqueueSend(c)
  <2>1. MapOK' /\ StoreOK'
    BY <1>4 DEF EnqueueSend, mapVars, storeVars, MapOK, StoreOK
  <2>2. HandlersOK'
    BY <1>4 DEF EnqueueSend, Return, HandlersOK
  <2> QED BY <1>4, <2>1, <2>2, SendWorkers
<1>5. CASE Generate(c)
  <2>1. MapOK' /\ StoreOK'
    BY <1>5 DEF Generate, mapVars, storeVars, MapOK, StoreOK
  <2>2. WorkersOK'
    BY <1>5 DEF Generate, workerVars, WorkersOK, Busy
  <2>3. HandlersOK'
    BY <1>5 DEF Generate, HandlersOK
  <2> QED BY <2>1, <2>2, <2>3
<1> QED BY <1>1, <1>2, <1>3, <1>4, <1>5 DEF Handler

(* ... and so does every step of a worker. *)
LEMMA WorkerTypes ==
  ASSUME TypeOK, NEW i \in Incarnations, Worker(i)
  PROVE  TypeOK'
<1> USE BoundsAssumption DEF TypeOK
<1>1. WorkersOK'
  BY ReceiveWorkers, ProcessWorkers, SnapshotWorkers DEF Worker
<1>2. MapOK' /\ HandlersOK'
  BY DEF Worker, Receive, Process, AppendEvent, AddNode, UpsertNode, Collect,
         PersistMetrics, SnapshotTick, IdleTick, SnapshotSession, SaveSnapshot,
         SaveNodes, SaveMetrics, Delete, mapVars, clientVars, MapOK, HandlersOK
<1>3. StoreOK'
  <2>1. tree[i] \in Seq(Events) /\ total[i] \in Nat
    BY DEF WorkersOK
  <2>2. CASE Receive(i) \/ SnapshotTick(i) \/ IdleTick(i) \/ Delete(i)
    BY <2>2 DEF Receive, SnapshotTick, IdleTick, Delete, storeVars, StoreOK
  <2>3. CASE AppendEvent(i)
    <3>1. busy[i] \in Events
      BY <2>3 DEF AppendEvent, WorkersOK, Busy
    <3>2. Append(events, [event |-> busy[i], sequence |-> 0])
            \in Seq([event : Events, sequence : Nat])
      BY <3>1 DEF StoreOK
    <3>3. events' \in Seq([event : Events, sequence : Nat])
      BY <2>3, <3>2 DEF AppendEvent, StoreOK
    <3>4. failures' \in 0 .. MaxFailures
          /\ UNCHANGED <<nodes, snapshot, savedTotal, crashes, processed>>
      BY <2>3 DEF AppendEvent, Succeeds, Fails, StoreOK
    <3> QED BY <3>3, <3>4 DEF StoreOK
  <2>4. CASE AddNode(i)
    <3>1. busy[i] \in Events
      BY <2>4 DEF AddNode, WorkersOK, Busy
    <3> QED BY <2>4, <3>1 DEF AddNode, storeVars, StoreOK
  <2>5. CASE UpsertNode(i)
    <3>1. tree[i] # <<>>
      BY <2>5 DEF UpsertNode, WorkersOK
    <3>2. CASE UNCHANGED nodes
      BY <2>5, <3>2 DEF UpsertNode, Succeeds, Fails, StoreOK
    <3>3. CASE Succeeds /\ WriteNode(tree[i], Len(tree[i]))
      BY <2>1, <2>5, <3>1, <3>3, WritesOK DEF UpsertNode, Succeeds, StoreOK
    <3> QED BY <2>5, <3>2, <3>3 DEF UpsertNode
  <2>6. CASE Collect(i)
    <3>1. CASE UNCHANGED nodes
      BY <2>6, <3>1 DEF Collect, Succeeds, Fails, StoreOK
    <3>2. CASE Succeeds /\ WriteNodes(tree[i])
      BY <2>1, <2>6, <3>2, WritesOK DEF Collect, Succeeds, StoreOK
    <3> QED BY <2>6, <3>1, <3>2 DEF Collect
  <2>7. CASE PersistMetrics(i)
    BY <2>1, <2>7 DEF PersistMetrics, Succeeds, Fails, StoreOK
  <2>8. CASE SaveSnapshot(i)
    BY <2>1, <2>8 DEF SaveSnapshot, Succeeds, Fails, StoreOK
  <2>9. CASE SaveNodes(i)
    <3>1. CASE UNCHANGED nodes
      BY <2>9, <3>1 DEF SaveNodes, Succeeds, Fails, StoreOK
    <3>2. CASE Succeeds /\ WriteNodes(tree[i])
      BY <2>1, <2>9, <3>2, WritesOK DEF SaveNodes, Succeeds, StoreOK
    <3> QED BY <2>9, <3>1, <3>2 DEF SaveNodes
  <2>10. CASE SaveMetrics(i)
    BY <2>1, <2>10 DEF SaveMetrics, Succeeds, Fails, StoreOK
  <2> QED BY <2>2, <2>3, <2>4, <2>5, <2>6, <2>7, <2>8, <2>9, <2>10
          DEF Worker, Process, SnapshotSession
<1> QED BY <1>1, <1>2, <1>3

(* ... and every step keeps it, given that there is one worker: otherwise a   *)
(* new session could find its incarnation already in use.                    *)
LEMMA TypeNext == TypeOK /\ OneWorker /\ [Next]_vars => TypeOK'
<1> SUFFICES ASSUME TypeOK, OneWorker, [Next]_vars PROVE TypeOK'
  OBVIOUS
<1>1. ASSUME NEW c \in Clients, Handler(c) PROVE TypeOK'
  BY <1>1, HandlerTypes
<1>2. ASSUME NEW i \in Incarnations, Worker(i) PROVE TypeOK'
  BY <1>2, WorkerTypes
<1>3. CASE GoIdle
  <2>1. WorkersOK'
    BY <1>3 DEF GoIdle, TypeOK, WorkersOK, Busy
  <2> QED BY <1>3, <2>1 DEF GoIdle, mapVars, clientVars, storeVars, TypeOK,
                            MapOK, HandlersOK, StoreOK
<1>4. CASE Crash
  <2>1. MapOK' /\ HandlersOK' /\ StoreOK'
    BY <1>4, BoundsAssumption DEF Crash, storeVars, TypeOK, MapOK, HandlersOK, StoreOK
  <2> QED BY <1>4, <2>1, CrashWorkers DEF TypeOK
<1>5. CASE UNCHANGED vars
  BY <1>5 DEF vars, mapVars, workerVars, clientVars, storeVars, TypeOK, MapOK,
              WorkersOK, Busy, HandlersOK, StoreOK
<1> QED BY <1>1, <1>2, <1>3, <1>4, <1>5 DEF Next

-----------------------------------------------------------------------------
(* One worker *)

(* Only the worker of the session in the map can take a step that writes,   *)
(* and the map entry and its worker come and go together.                   *)
LEMMA OneWorkerInit == Init => OneWorker
BY DEF Init, OneWorker, Live

(* Per action: a session is created only when the map has none, hence when   *)
(* no worker is live; every other step is of the live worker itself.         *)
LEMMA OneWorkerNext == TypeOK /\ OneWorker /\ [Next]_vars => OneWorker'
<1> SUFFICES ASSUME TypeOK, OneWorker, [Next]_vars PROVE OneWorker'
  OBVIOUS
<1>1. ASSUME NEW c \in Clients, Handler(c) PROVE OneWorker'
  <2>1. CASE GetOrCreate(c) /\ current = NoSession
    <3>1. \A i \in Incarnations : ~Live(i)
      BY <2>1 DEF OneWorker, NoSession, Incarnations
    <3>2. current' = created + 1 /\ pc' = [pc EXCEPT ![created + 1] = "select"]
      BY <2>1 DEF GetOrCreate, NewSession
    <3> QED BY <3>1, <3>2 DEF TypeOK, WorkersOK, OneWorker, Live
  <2>2. CASE ~(GetOrCreate(c) /\ current = NoSession)
    <3>1. UNCHANGED <<current, pc>>
      BY <1>1, <2>2 DEF Handler, Call, GetOrCreate, EnqueueLookup, EnqueueSend,
                        Generate, mapVars, workerVars
    <3> QED BY <3>1 DEF OneWorker, Live
  <2> QED BY <2>1, <2>2
<1>2. ASSUME NEW i \in Incarnations, Worker(i) PROVE OneWorker'
  <2>1. Live(i) /\ \A j \in Incarnations : j # i => pc'[j] = pc[j]
    BY <1>2 DEF Worker, Receive, Process, AppendEvent, AddNode, UpsertNode, Collect,
         PersistMetrics, SnapshotTick, IdleTick, SnapshotSession, SaveSnapshot,
         SaveNodes, SaveMetrics, Delete, Goto, Live, TypeOK, WorkersOK
  <2>2. current = i /\ \A j \in Incarnations : j # i => ~Live(j)
    BY <2>1 DEF OneWorker
  <2>3. current' = i \/ pc'[i] = "done"
    <3>1. CASE Delete(i)
      BY <3>1 DEF Delete, Goto, TypeOK, WorkersOK
    <3>2. CASE ~Delete(i)
      BY <1>2, <2>2, <3>2 DEF Worker, Receive, Process, AppendEvent, AddNode,
         UpsertNode, Collect, PersistMetrics, SnapshotTick, IdleTick,
         SnapshotSession, SaveSnapshot, SaveNodes, SaveMetrics, mapVars
    <3> QED BY <3>1, <3>2
  <2> QED BY <2>1, <2>2, <2>3 DEF OneWorker, Live
<1>3. CASE GoIdle
  BY <1>3 DEF GoIdle, mapVars, OneWorker, Live
<1>4. CASE Crash
  BY <1>4 DEF Crash, OneWorker, Live
<1>5. CASE UNCHANGED vars
  BY <1>5 DEF vars, mapVars, workerVars, OneWorker, Live
<1> QED BY <1>1, <1>2, <1>3, <1>4, <1>5 DEF Next

(* The channel never exceeds its capacity, the worker holds an event exactly *)
(* while it processes one, and what is stored is what was sent.              *)
THEOREM TypeCorrect == Spec => []TypeOK
<1>1. Init => TypeOK /\ OneWorker
  BY TypeInit, OneWorkerInit
<1>2. TypeOK /\ OneWorker /\ [Next]_vars => (TypeOK /\ OneWorker)'
  BY TypeNext, OneWorkerNext
<1> QED BY <1>1, <1>2, PTL DEF Spec

(* "Each session has exactly one worker goroutine", with any number of       *)
(* clients, of idle shutdowns and of crashes.                                *)
THEOREM SingleWriter == Spec => []OneWorker
<1>1. Init => TypeOK /\ OneWorker
  BY TypeInit, OneWorkerInit
<1>2. TypeOK /\ OneWorker /\ [Next]_vars => (TypeOK /\ OneWorker)'
  BY TypeNext, OneWorkerNext
<1> QED BY <1>1, <1>2, PTL DEF Spec

-----------------------------------------------------------------------------
(* The history of the session *)

(* What a step of the session's own worker does to it. *)
LEMMA WorkerIsCurrent ==
  ASSUME TypeOK, OneWorker, NEW i \in Incarnations, Worker(i)
  PROVE  current = i /\ History = tree[i]
BY DEF Worker, Receive, Process, AppendEvent, AddNode, UpsertNode, Collect,
       PersistMetrics, SnapshotTick, IdleTick, SnapshotSession, SaveSnapshot,
       SaveNodes, SaveMetrics, Delete, OneWorker, Live, History, Incarnations,
       NoSession

(* The refinement mapping: initial states... *)
LEMMA LogInit == Init => Log!Init
BY DEF Init, Log!Init, History

(* ... and steps. *)
LEMMA LogNext == TypeOK /\ OneWorker /\ [Next]_vars => [Log!Next]_(Log!vars)
<1> SUFFICES ASSUME TypeOK, OneWorker, [Next]_vars PROVE [Log!Next]_(Log!vars)
  OBVIOUS
<1> USE DEF Log!Next, Log!vars
<1> failures \in Nat
  BY BoundsAssumption DEF TypeOK, StoreOK
<1>1. ASSUME NEW c \in Clients, Handler(c) PROVE [Log!Next]_(Log!vars)
  <2>1. CASE GetOrCreate(c) /\ current = NoSession
    <3>1. PICK i \in Incarnations : i = created + 1
      BY <2>1, BoundsAssumption DEF GetOrCreate, NewSession, TypeOK, MapOK, Incarnations
    <3>2. current' = i /\ i # NoSession /\ UNCHANGED snapshot
          /\ History = snapshot /\ History' = tree'[i]
      BY <2>1, <3>1 DEF GetOrCreate, NewSession, History, storeVars, Incarnations, NoSession
    <3>3. CASE Succeeds /\ tree' = [tree EXCEPT ![i] = snapshot]
      BY <3>2, <3>3 DEF Succeeds, TypeOK, WorkersOK
    <3>4. CASE Fails /\ tree' = [tree EXCEPT ![i] = <<>>]
      <4>1. History' = <<>> /\ failures' = failures + 1
        BY <3>2, <3>4 DEF Fails, TypeOK, WorkersOK
      <4> QED BY <3>2, <4>1 DEF Log!StartOver
    <3> QED BY <2>1, <3>1, <3>3, <3>4 DEF GetOrCreate, NewSession
  <2>2. CASE ~(GetOrCreate(c) /\ current = NoSession)
    BY <1>1, <2>2 DEF Handler, Call, GetOrCreate, EnqueueLookup, EnqueueSend,
                      Generate, mapVars, workerVars, storeVars, History
  <2> QED BY <2>1, <2>2
<1>2. ASSUME NEW i \in Incarnations, Worker(i) PROVE [Log!Next]_(Log!vars)
  <2>1. current = i /\ i # NoSession /\ History = tree[i]
    BY <1>2, WorkerIsCurrent DEF Incarnations, NoSession
  <2>2. CASE Receive(i) \/ SnapshotTick(i) \/ IdleTick(i)
    BY <2>2 DEF Receive, SnapshotTick, IdleTick, mapVars, storeVars, History
  <2>3. CASE AppendEvent(i) \/ UpsertNode(i) \/ Collect(i) \/ PersistMetrics(i)
             \/ SaveNodes(i) \/ SaveMetrics(i)
    <3>1. UNCHANGED <<current, tree, snapshot>> /\ (Succeeds \/ Fails)
      BY <2>3 DEF AppendEvent, UpsertNode, Collect, PersistMetrics, SaveNodes,
                  SaveMetrics, mapVars, Succeeds
    <3>2. UNCHANGED <<History, snapshot>>
      BY <3>1 DEF History
    <3> QED BY <3>1, <3>2 DEF Succeeds, Fails, Log!Fault
  <2>4. CASE AddNode(i)
    <3>1. busy[i] \in Events
      BY <2>4 DEF AddNode, TypeOK, WorkersOK, Busy
    <3>2. History' = Append(tree[i], busy[i]) /\ UNCHANGED <<snapshot, failures>>
      BY <2>1, <2>4 DEF AddNode, mapVars, storeVars, History, TypeOK, WorkersOK
    <3> QED BY <2>1, <3>1, <3>2 DEF Log!Extend
  <2>5. CASE SaveSnapshot(i)
    <3>1. UNCHANGED History
      BY <2>1, <2>5 DEF SaveSnapshot, mapVars, History
    <3>2. CASE Succeeds /\ snapshot' = tree[i]
      BY <2>1, <3>1, <3>2 DEF Succeeds, Log!Save
    <3>3. CASE Fails /\ UNCHANGED snapshot
      BY <3>1, <3>3 DEF Fails, Log!Fault
    <3> QED BY <2>5, <3>2, <3>3 DEF SaveSnapshot
  <2>6. CASE Delete(i)
    BY <2>6 DEF Delete, storeVars, History, Log!FallBack
  <2> QED BY <1>2, <2>2, <2>3, <2>4, <2>5, <2>6 DEF Worker, Process, SnapshotSession
<1>3. CASE GoIdle
  BY <1>3 DEF GoIdle, mapVars, storeVars, History
<1>4. CASE Crash
  BY <1>4 DEF Crash, storeVars, History, Log!FallBack
<1>5. CASE UNCHANGED vars
  BY <1>5 DEF vars, mapVars, workerVars, storeVars, History
<1> QED BY <1>1, <1>2, <1>3, <1>4, <1>5 DEF Next

(* Through crashes, idle shutdowns and failures of the store, the history of *)
(* the session only grows by one turn, or falls back to the latest snapshot  *)
(* whole; only a failed load of that snapshot makes it start over.           *)
THEOREM ImplementsDurableLog == Spec => ImplementsLog
<1>1. Init => TypeOK /\ OneWorker
  BY TypeInit, OneWorkerInit
<1>2. TypeOK /\ OneWorker /\ [Next]_vars => (TypeOK /\ OneWorker)'
  BY TypeNext, OneWorkerNext
<1> QED BY <1>1, <1>2, LogInit, LogNext, PTL DEF Spec, ImplementsLog, Log!Spec

-----------------------------------------------------------------------------
(* The line of a session: what has a node, what the worker is about to give  *)
(* one, what waits in the channel.                                           *)

InHand(i) == IF pc[i] \in {"append", "add"} THEN <<busy[i]>> ELSE <<>>
Line(i) == tree[i] \o InHand(i) \o queue[i]

Continues(a, b) == DOMAIN a \subseteq DOMAIN b /\ \A k \in DOMAIN a : b[k] = a[k]

(* As long as the incarnation is the one in the map, its line stays, and its *)
(* tree too, which is its beginning.                                         *)
StaysInLine(i) == Continues(Line(i), Line(i)') /\ Len(tree[i]) <= Len(tree'[i])

LEMMA TwoInARow ==
  ASSUME NEW S, NEW a \in Seq(S), NEW b \in Seq(S)
  PROVE  /\ a \o b \in Seq(S) /\ Len(a \o b) = Len(a) + Len(b)
         /\ \A k \in 1 .. Len(a) + Len(b) :
              (a \o b)[k] = IF k <= Len(a) THEN a[k] ELSE b[k - Len(a)]
OBVIOUS

LEMMA ThreeInARow ==
  ASSUME NEW S, NEW a \in Seq(S), NEW b \in Seq(S), NEW c \in Seq(S)
  PROVE  /\ a \o b \o c \in Seq(S) /\ Len(a \o b \o c) = Len(a) + Len(b) + Len(c)
         /\ DOMAIN (a \o b \o c) = 1 .. Len(a) + Len(b) + Len(c)
         /\ \A k \in 1 .. Len(a) + Len(b) + Len(c) :
              (a \o b \o c)[k] = IF k <= Len(a) THEN a[k]
                                ELSE IF k <= Len(a) + Len(b) THEN b[k - Len(a)]
                                ELSE c[k - Len(a) - Len(b)]
<1> DEFINE d == a \o b
           e == d \o c
<1>0. Len(a) \in Nat /\ Len(b) \in Nat /\ Len(c) \in Nat
  OBVIOUS
<1>t. d \in Seq(S)
  OBVIOUS
<1>1. d \in Seq(S) /\ Len(d) = Len(a) + Len(b)
      /\ \A k \in 1 .. Len(a) + Len(b) : d[k] = IF k <= Len(a) THEN a[k] ELSE b[k - Len(a)]
  BY TwoInARow
<1> HIDE DEF d
<1>2. e \in Seq(S) /\ Len(e) = Len(d) + Len(c)
      /\ \A k \in 1 .. Len(d) + Len(c) : e[k] = IF k <= Len(d) THEN d[k] ELSE c[k - Len(d)]
  BY <1>t, TwoInARow
<1>3. DOMAIN e = 1 .. Len(a) + Len(b) + Len(c)
  BY <1>1, <1>2
<1> HIDE DEF e
<1>4. ASSUME NEW k \in 1 .. Len(a) + Len(b) + Len(c)
      PROVE  e[k] = IF k <= Len(a) THEN a[k]
                    ELSE IF k <= Len(a) + Len(b) THEN b[k - Len(a)]
                    ELSE c[k - Len(a) - Len(b)]
  <2>1. CASE k <= Len(a) + Len(b)
    <3>1. k \in 1 .. Len(a) + Len(b) /\ k \in 1 .. Len(d) + Len(c)
      BY <1>0, <1>1, <2>1
    <3> QED BY <1>0, <1>1, <1>2, <2>1, <3>1
  <2>2. CASE k > Len(a) + Len(b)
    <3>1. k \in 1 .. Len(d) + Len(c) /\ ~(k <= Len(d)) /\ ~(k <= Len(a))
          /\ k - Len(d) = k - Len(a) - Len(b)
      BY <1>0, <1>1, <2>2
    <3> QED BY <1>2, <2>2, <3>1
  <2> QED BY <1>0, <2>1, <2>2
<1> QED BY <1>1, <1>2, <1>3, <1>4 DEF d, e

(* Something joins the line, its first in the channel is taken, or gets its  *)
(* node.                                                                     *)
LEMMA Joins ==
  ASSUME NEW S, NEW t \in Seq(S), NEW h \in Seq(S), NEW q \in Seq(S), NEW x \in S
  PROVE  Continues(t \o h \o q, t \o h \o Append(q, x))
<1> DEFINE r == Append(q, x)
<1>t. r \in Seq(S)
  OBVIOUS
<1>1. r \in Seq(S) /\ Len(r) = Len(q) + 1 /\ \A k \in 1 .. Len(q) : r[k] = q[k]
  OBVIOUS
<1>2. Len(t) \in Nat /\ Len(h) \in Nat /\ Len(q) \in Nat
  OBVIOUS
<1> HIDE DEF r
<1>3. /\ DOMAIN (t \o h \o q) = 1 .. Len(t) + Len(h) + Len(q)
      /\ DOMAIN (t \o h \o r) = 1 .. Len(t) + Len(h) + Len(q) + 1
  <2>1. /\ DOMAIN (t \o h \o q) = 1 .. Len(t) + Len(h) + Len(q)
        /\ DOMAIN (t \o h \o r) = 1 .. Len(t) + Len(h) + Len(r)
    BY <1>t, ThreeInARow
  <2> QED BY <1>1, <1>2, <2>1
<1>4. ASSUME NEW k \in 1 .. Len(t) + Len(h) + Len(q)
      PROVE  (t \o h \o r)[k] = (t \o h \o q)[k]
  <2> k \in 1 .. Len(t) + Len(h) + Len(r)
    BY <1>1, <1>2
  <2>1. (t \o h \o q)[k] = IF k <= Len(t) THEN t[k]
                           ELSE IF k <= Len(t) + Len(h) THEN h[k - Len(t)]
                           ELSE q[k - Len(t) - Len(h)]
    BY ThreeInARow
  <2>2. (t \o h \o r)[k] = IF k <= Len(t) THEN t[k]
                           ELSE IF k <= Len(t) + Len(h) THEN h[k - Len(t)]
                           ELSE r[k - Len(t) - Len(h)]
    BY <1>t, ThreeInARow
  <2>3. CASE k <= Len(t) + Len(h)
    BY <2>1, <2>2, <2>3
  <2>4. CASE k > Len(t) + Len(h)
    <3>1. k - Len(t) - Len(h) \in 1 .. Len(q)
      BY <1>2, <2>4
    <3>2. r[k - Len(t) - Len(h)] = q[k - Len(t) - Len(h)]
      BY <1>1, <3>1
    <3>3. ~(k <= Len(t)) /\ ~(k <= Len(t) + Len(h))
      BY <1>2, <2>4
    <3> QED BY <2>1, <2>2, <3>2, <3>3
  <2> QED BY <1>2, <2>3, <2>4
<1> QED BY <1>2, <1>3, <1>4 DEF Continues, r

LEMMA IsTaken ==
  ASSUME NEW S, NEW t \in Seq(S), NEW q \in Seq(S), q # <<>>
  PROVE  Continues(t \o <<>> \o q, t \o <<Head(q)>> \o Tail(q))
<1> DEFINE r == Tail(q)
           e == <<>>
           h == <<Head(q)>>
<1>t. r \in Seq(S) /\ e \in Seq(S) /\ h \in Seq(S)
  OBVIOUS
<1>1. r \in Seq(S) /\ Len(q) = Len(r) + 1 /\ \A k \in 1 .. Len(r) : r[k] = q[k + 1]
  OBVIOUS
<1>2. e \in Seq(S) /\ Len(e) = 0 /\ h \in Seq(S) /\ Len(h) = 1 /\ h[1] = q[1]
  OBVIOUS
<1>3. Len(t) \in Nat /\ Len(r) \in Nat
  BY <1>1
<1> HIDE DEF r, e, h
<1>4. /\ DOMAIN (t \o e \o q) = 1 .. Len(t) + Len(r) + 1
      /\ DOMAIN (t \o h \o r) = 1 .. Len(t) + Len(r) + 1
  <2>1. Len(t) + Len(e) + Len(q) = Len(t) + Len(r) + 1
        /\ Len(t) + Len(h) + Len(r) = Len(t) + Len(r) + 1
    BY <1>1, <1>2, <1>3
  <2>2. /\ DOMAIN (t \o e \o q) = 1 .. Len(t) + Len(e) + Len(q)
        /\ DOMAIN (t \o h \o r) = 1 .. Len(t) + Len(h) + Len(r)
    BY <1>t, ThreeInARow
  <2> QED BY <2>1, <2>2
<1>5. ASSUME NEW k \in 1 .. Len(t) + Len(r) + 1
      PROVE  (t \o h \o r)[k] = (t \o e \o q)[k]
  <2> k \in 1 .. Len(t) + Len(e) + Len(q) /\ k \in 1 .. Len(t) + Len(h) + Len(r)
    BY <1>1, <1>2, <1>3
  <2>1. (t \o e \o q)[k] = IF k <= Len(t) THEN t[k]
                           ELSE IF k <= Len(t) + Len(e) THEN e[k - Len(t)]
                           ELSE q[k - Len(t) - Len(e)]
    BY <1>t, ThreeInARow
  <2>2. (t \o h \o r)[k] = IF k <= Len(t) THEN t[k]
                           ELSE IF k <= Len(t) + Len(h) THEN h[k - Len(t)]
                           ELSE r[k - Len(t) - Len(h)]
    BY <1>t, ThreeInARow
  <2>3. CASE k <= Len(t)
    BY <1>2, <1>3, <2>1, <2>2, <2>3
  <2>4. CASE k = Len(t) + 1
    <3>1. (t \o e \o q)[k] = q[1] /\ (t \o h \o r)[k] = h[1]
      BY <1>2, <1>3, <2>1, <2>2, <2>4
    <3> QED BY <1>2, <3>1
  <2>5. CASE k > Len(t) + 1
    <3>1. k - Len(t) - 1 \in 1 .. Len(r)
      BY <1>3, <2>5
    <3>2. r[k - Len(t) - 1] = q[k - Len(t) - 1 + 1]
      BY <1>1, <3>1
    <3>3. (t \o e \o q)[k] = q[k - Len(t)] /\ (t \o h \o r)[k] = r[k - Len(t) - 1]
      BY <1>2, <1>3, <2>1, <2>2, <2>5
    <3>4. k - Len(t) - 1 + 1 = k - Len(t)
      BY <1>3
    <3> QED BY <3>2, <3>3, <3>4
  <2> QED BY <1>3, <2>3, <2>4, <2>5
<1> QED BY <1>4, <1>5 DEF Continues, r, e, h

LEMMA GetsItsNode ==
  ASSUME NEW S, NEW t \in Seq(S), NEW q \in Seq(S), NEW x \in S
  PROVE  Continues(t \o <<x>> \o q, Append(t, x) \o <<>> \o q)
<1> DEFINE u == Append(t, x)
           e == <<>>
           h == <<x>>
<1>t. u \in Seq(S) /\ e \in Seq(S) /\ h \in Seq(S)
  OBVIOUS
<1>1. u \in Seq(S) /\ Len(u) = Len(t) + 1 /\ u[Len(t) + 1] = x
      /\ \A k \in 1 .. Len(t) : u[k] = t[k]
  OBVIOUS
<1>2. e \in Seq(S) /\ Len(e) = 0 /\ h \in Seq(S) /\ Len(h) = 1 /\ h[1] = x
  OBVIOUS
<1>3. Len(t) \in Nat /\ Len(q) \in Nat
  OBVIOUS
<1> HIDE DEF u, e, h
<1>4. /\ DOMAIN (t \o h \o q) = 1 .. Len(t) + 1 + Len(q)
      /\ DOMAIN (u \o e \o q) = 1 .. Len(t) + 1 + Len(q)
  <2>1. Len(t) + Len(h) + Len(q) = Len(t) + 1 + Len(q)
        /\ Len(u) + Len(e) + Len(q) = Len(t) + 1 + Len(q)
    BY <1>1, <1>2, <1>3
  <2>2. /\ DOMAIN (t \o h \o q) = 1 .. Len(t) + Len(h) + Len(q)
        /\ DOMAIN (u \o e \o q) = 1 .. Len(u) + Len(e) + Len(q)
    BY <1>t, ThreeInARow
  <2> QED BY <2>1, <2>2
<1>5. ASSUME NEW k \in 1 .. Len(t) + 1 + Len(q)
      PROVE  (u \o e \o q)[k] = (t \o h \o q)[k]
  <2> k \in 1 .. Len(t) + Len(h) + Len(q) /\ k \in 1 .. Len(u) + Len(e) + Len(q)
    BY <1>1, <1>2, <1>3
  <2>1. (t \o h \o q)[k] = IF k <= Len(t) THEN t[k]
                           ELSE IF k <= Len(t) + Len(h) THEN h[k - Len(t)]
                           ELSE q[k - Len(t) - Len(h)]
    BY <1>t, ThreeInARow
  <2>2. (u \o e \o q)[k] = IF k <= Len(u) THEN u[k]
                           ELSE IF k <= Len(u) + Len(e) THEN e[k - Len(u)]
                           ELSE q[k - Len(u) - Len(e)]
    BY <1>t, ThreeInARow
  <2> QED BY <1>1, <1>2, <1>3, <2>1, <2>2
<1> QED BY <1>4, <1>5 DEF Continues, u, e, h

LEMMA LineIsASequence ==
  ASSUME TypeOK, NEW i \in Incarnations
  PROVE  tree[i] \in Seq(Events) /\ InHand(i) \in Seq(Events) /\ queue[i] \in Seq(Events)
<1>1. tree[i] \in Seq(Events) /\ queue[i] \in Seq(Events)
  BY DEF TypeOK, WorkersOK
<1>2. pc[i] \in {"append", "add"} => busy[i] \in Events
  BY DEF TypeOK, WorkersOK, Busy
<1> QED BY <1>1, <1>2 DEF InHand

LEMMA LineStep ==
  ASSUME TypeOK, OneWorker, [Next]_vars, NEW i \in Incarnations, current = i, current' = i
  PROVE  StaysInLine(i)
<1> i # NoSession
  BY DEF Incarnations, NoSession
<1>t. tree[i] \in Seq(Events) /\ InHand(i) \in Seq(Events) /\ queue[i] \in Seq(Events)
  BY LineIsASequence
<1>0. ASSUME UNCHANGED <<tree[i], queue[i], InHand(i)>> PROVE StaysInLine(i)
  BY <1>0, <1>t DEF StaysInLine, Continues, Line
<1>1. ASSUME NEW c \in Clients, Handler(c) PROVE StaysInLine(i)
  <2>1. UNCHANGED <<tree, pc, busy>>
    BY <1>1 DEF Handler, Call, GetOrCreate, NewSession, EnqueueLookup, EnqueueSend,
                Generate, workerVars, mapVars
  <2>2. UNCHANGED InHand(i)
    BY <2>1 DEF InHand
  <2>3. CASE queue'[i] = queue[i]
    BY <1>0, <2>1, <2>2, <2>3
  <2>4. CASE queue'[i] # queue[i]
    <3>1. EnqueueSend(c)
      BY <1>1, <2>4 DEF Handler, Call, GetOrCreate, NewSession, EnqueueLookup,
                        EnqueueSend, Generate, workerVars, mapVars
    <3>2. queue'[i] = Append(queue[i], <<c, sent[c]>>)
      BY <2>4, <3>1 DEF EnqueueSend, TypeOK, WorkersOK
    <3>3. <<c, sent[c]>> \in Events
      BY <3>1 DEF EnqueueSend, TypeOK, HandlersOK, Events
    <3>4. Line(i)' = tree[i] \o InHand(i) \o Append(queue[i], <<c, sent[c]>>)
      BY <2>1, <2>2, <3>2 DEF Line
    <3> QED BY <1>t, <2>1, <3>3, <3>4, Joins DEF StaysInLine, Line
  <2> QED BY <2>3, <2>4
<1>2. ASSUME NEW j \in Incarnations, Worker(j) PROVE StaysInLine(i)
  <2>1. j = i
    BY <1>2, WorkerIsCurrent
  <2>2. CASE Receive(i)
    <3>1. queue[i] # <<>> /\ tree' = tree /\ queue'[i] = Tail(queue[i])
          /\ InHand(i) = <<>> /\ InHand(i)' = <<Head(queue[i])>>
      BY <2>2 DEF Receive, Goto, InHand, TypeOK, WorkersOK
    <3>2. Line(i) = tree[i] \o <<>> \o queue[i]
          /\ Line(i)' = tree[i] \o <<Head(queue[i])>> \o Tail(queue[i])
      BY <3>1 DEF Line
    <3> QED BY <1>t, <3>1, <3>2, IsTaken DEF StaysInLine
  <2>3. CASE AddNode(i)
    <3>1. tree'[i] = Append(tree[i], busy[i]) /\ queue' = queue
          /\ InHand(i) = <<busy[i]>> /\ InHand(i)' = <<>> /\ busy[i] \in Events
      BY <2>3 DEF AddNode, Goto, InHand, TypeOK, WorkersOK, Busy
    <3>2. Line(i) = tree[i] \o <<busy[i]>> \o queue[i]
          /\ Line(i)' = Append(tree[i], busy[i]) \o <<>> \o queue[i]
      BY <3>1 DEF Line
    <3>3. Len(tree[i]) <= Len(tree'[i])
      BY <1>t, <3>1
    <3> QED BY <1>t, <3>1, <3>2, <3>3, GetsItsNode DEF StaysInLine
  <2>4. CASE ~Receive(i) /\ ~AddNode(i)
    <3>1. UNCHANGED <<tree, queue>>
      BY <1>2, <2>1, <2>4 DEF Worker, Process, SnapshotSession, AppendEvent, UpsertNode,
         Collect, PersistMetrics, SnapshotTick, IdleTick, SaveSnapshot, SaveNodes,
         SaveMetrics, Delete
    <3>2. UNCHANGED InHand(i)
      BY <1>2, <2>1, <2>4 DEF Worker, Process, SnapshotSession, AppendEvent, UpsertNode,
         Collect, PersistMetrics, SnapshotTick, IdleTick, SaveSnapshot, SaveNodes,
         SaveMetrics, Delete, Goto, InHand, TypeOK, WorkersOK
    <3> QED BY <1>0, <3>1, <3>2
  <2> QED BY <2>2, <2>3, <2>4
<1>3. CASE GoIdle
  BY <1>0, <1>3 DEF GoIdle, InHand
<1>4. CASE Crash
  BY <1>4 DEF Crash
<1>5. CASE UNCHANGED vars
  BY <1>0, <1>5 DEF vars, workerVars, InHand
<1> QED BY <1>1, <1>2, <1>3, <1>4, <1>5 DEF Next

(* manager.go:176, no "zombie session that accepts enqueues but never        *)
(* processes them": nothing but the end of its incarnation takes an accepted *)
(* event out of the line, lets another pass it, or takes a turn back.        *)
THEOREM AcceptedStays ==
  Spec => [][\A i \in Incarnations : current = i /\ current' = i => StaysInLine(i)]_vars
<1> DEFINE Stays == \A i \in Incarnations : current = i /\ current' = i => StaysInLine(i)
<1>1. Init => TypeOK /\ OneWorker
  BY TypeInit, OneWorkerInit
<1>2. TypeOK /\ OneWorker /\ [Next]_vars => (TypeOK /\ OneWorker)'
  BY TypeNext, OneWorkerNext
<1>3. TypeOK /\ OneWorker /\ [Next]_vars => [Stays]_vars
  BY LineStep
<1> QED BY <1>1, <1>2, <1>3, PTL DEF Spec

-----------------------------------------------------------------------------
(* What is forgotten, and what the archive of raw events holds *)

(* What Append adds to the elements of a sequence. *)
LEMMA ElementsAppend ==
  ASSUME NEW S, NEW s \in Seq(S), NEW e \in S
  PROVE  Elements(Append(s, e)) = Elements(s) \cup {e}
<1>1. DOMAIN Append(s, e) = DOMAIN s \cup {Len(s) + 1}
  OBVIOUS
<1>2. \A k \in DOMAIN s : Append(s, e)[k] = s[k]
  OBVIOUS
<1>3. Append(s, e)[Len(s) + 1] = e
  OBVIOUS
<1> QED BY <1>1, <1>2, <1>3 DEF Elements

(* The empty sequence has no elements. *)
LEMMA ElementsEmpty == Elements(<<>>) = {}
BY DEF Elements

(* Between a snapshot and the end of the worker the tree does not change. *)
LEMMA SavedWholeNext ==
  TypeOK /\ OneWorker /\ SavedWhole /\ [Next]_vars => SavedWhole'
<1> SUFFICES ASSUME TypeOK, OneWorker, SavedWhole, [Next]_vars, failures' = 0,
                    NEW j \in Incarnations, pc'[j] \in {"upsert", "total", "delete"}
             PROVE  snapshot' = tree'[j]
  BY DEF SavedWhole
<1>0. UNCHANGED failures => failures = 0
  OBVIOUS
<1>1. ASSUME NEW c \in Clients, Handler(c) PROVE snapshot' = tree'[j]
  <2>1. UNCHANGED snapshot /\ failures = 0
    BY <1>1 DEF Handler, Call, GetOrCreate, NewSession, Succeeds, Fails,
                EnqueueLookup, EnqueueSend, Generate, storeVars, TypeOK, StoreOK
  <2>2. pc'[j] = pc[j] /\ tree'[j] = tree[j]
    BY <1>1 DEF Handler, Call, GetOrCreate, NewSession, EnqueueLookup, EnqueueSend,
                Generate, workerVars, TypeOK, WorkersOK
  <2> QED BY <2>1, <2>2 DEF SavedWhole
<1>2. ASSUME NEW i \in Incarnations, Worker(i) PROVE snapshot' = tree'[j]
  <2>1. failures = 0 /\ UNCHANGED failures
    BY <1>2 DEF Worker, Receive, Process, AppendEvent, AddNode, UpsertNode, Collect,
         PersistMetrics, SnapshotTick, IdleTick, SnapshotSession, SaveSnapshot,
         SaveNodes, SaveMetrics, Delete, Succeeds, Fails, TypeOK, StoreOK
  <2>2. Live(i) /\ (j # i => pc'[j] = pc[j])
    BY <1>2 DEF Worker, Receive, Process, AppendEvent, AddNode, UpsertNode, Collect,
         PersistMetrics, SnapshotTick, IdleTick, SnapshotSession, SaveSnapshot,
         SaveNodes, SaveMetrics, Delete, Goto, Live, TypeOK, WorkersOK
  <2>3. j = i
    BY <2>2 DEF OneWorker, Live
  <2>4. CASE SaveSnapshot(i)
    BY <2>1, <2>3, <2>4 DEF SaveSnapshot, Fails, TypeOK, StoreOK
  <2>5. CASE SaveNodes(i) \/ SaveMetrics(i)
    BY <2>1, <2>3, <2>5 DEF SaveNodes, SaveMetrics, SavedWhole
  <2>6. CASE ~(SaveSnapshot(i) \/ SaveNodes(i) \/ SaveMetrics(i))
    BY <1>2, <2>3, <2>6 DEF Worker, Receive, Process, AppendEvent, AddNode, UpsertNode,
         Collect, PersistMetrics, SnapshotTick, IdleTick, SnapshotSession, Delete,
         Goto, TypeOK, WorkersOK
  <2> QED BY <2>4, <2>5, <2>6
<1>3. CASE GoIdle
  BY <1>3 DEF GoIdle, storeVars, SavedWhole
<1>4. CASE Crash
  BY <1>4 DEF Crash
<1>5. CASE UNCHANGED vars
  BY <1>5 DEF vars, workerVars, storeVars, SavedWhole
<1> QED BY <1>1, <1>2, <1>3, <1>4, <1>5 DEF Next

(* The deletion of the session leaves the snapshot for its history: by        *)
(* SavedWhole they are the same.                                             *)
LEMMA NothingForgottenNext ==
  TypeOK /\ OneWorker /\ SavedWhole /\ NothingForgotten /\ [Next]_vars
    => NothingForgotten'
<1> SUFFICES ASSUME TypeOK, OneWorker, SavedWhole, NothingForgotten, [Next]_vars,
                    crashes' = 0, failures' = 0
             PROVE  processed' = Elements(History')
  BY DEF NothingForgotten, Elements, History
<1>1. ASSUME NEW c \in Clients, Handler(c) PROVE processed' = Elements(History')
  <2>1. UNCHANGED <<snapshot, processed, crashes>> /\ failures = 0
    BY <1>1 DEF Handler, Call, GetOrCreate, NewSession, Succeeds, Fails,
                EnqueueLookup, EnqueueSend, Generate, storeVars, TypeOK, StoreOK
  <2>2. CASE GetOrCreate(c) /\ current = NoSession
    <3>1. PICK i \in Incarnations : i = created + 1
      BY <2>2, BoundsAssumption DEF GetOrCreate, NewSession, TypeOK, MapOK, Incarnations
    <3>2. tree' = [tree EXCEPT ![i] = snapshot] /\ current' = i
      BY <2>1, <2>2, <3>1 DEF GetOrCreate, NewSession, Fails, TypeOK, StoreOK
    <3>3. History' = History
      BY <2>1, <2>2, <3>2 DEF History, TypeOK, WorkersOK, Incarnations, NoSession
    <3> QED BY <2>1, <3>3 DEF NothingForgotten
  <2>3. CASE ~(GetOrCreate(c) /\ current = NoSession)
    <3>1. UNCHANGED <<current, tree>>
      BY <1>1, <2>3 DEF Handler, Call, GetOrCreate, EnqueueLookup, EnqueueSend,
                        Generate, mapVars, workerVars
    <3> QED BY <2>1, <3>1 DEF NothingForgotten, History
  <2> QED BY <2>2, <2>3
<1>2. ASSUME NEW i \in Incarnations, Worker(i) PROVE processed' = Elements(History')
  <2>1. current = i /\ i # NoSession /\ History = tree[i]
    BY <1>2, WorkerIsCurrent DEF Incarnations, NoSession
  <2>2. failures = 0 /\ UNCHANGED crashes
    BY <1>2 DEF Worker, Receive, Process, AppendEvent, AddNode, UpsertNode, Collect,
         PersistMetrics, SnapshotTick, IdleTick, SnapshotSession, SaveSnapshot,
         SaveNodes, SaveMetrics, Delete, Succeeds, Fails, TypeOK, StoreOK
  <2>3. processed = Elements(tree[i])
    BY <2>1, <2>2 DEF NothingForgotten
  <2>4. CASE AddNode(i)
    <3>1. busy[i] \in Events /\ tree[i] \in Seq(Events)
      BY <2>4 DEF AddNode, TypeOK, WorkersOK, Busy
    <3>2. History' = Append(tree[i], busy[i]) /\ processed' = processed \cup {busy[i]}
      BY <2>1, <2>4 DEF AddNode, mapVars, History, TypeOK, WorkersOK
    <3> QED BY <2>3, <3>1, <3>2, ElementsAppend
  <2>5. CASE Delete(i)
    <3>1. snapshot = tree[i]
      BY <2>2, <2>5 DEF Delete, SavedWhole
    <3>2. History' = snapshot /\ UNCHANGED processed
      BY <2>5 DEF Delete, History, storeVars
    <3> QED BY <2>3, <3>1, <3>2
  <2>6. CASE ~(AddNode(i) \/ Delete(i))
    <3>1. UNCHANGED <<current, tree, processed>>
      BY <1>2, <2>6 DEF Worker, Receive, Process, AppendEvent, UpsertNode, Collect,
         PersistMetrics, SnapshotTick, IdleTick, SnapshotSession, SaveSnapshot,
         SaveNodes, SaveMetrics, mapVars
    <3> QED BY <2>1, <2>3, <3>1 DEF History
  <2> QED BY <2>4, <2>5, <2>6
<1>3. CASE GoIdle
  BY <1>3 DEF GoIdle, mapVars, storeVars, History, NothingForgotten
<1>4. CASE Crash
  BY <1>4 DEF Crash, TypeOK, StoreOK
<1>5. CASE UNCHANGED vars
  BY <1>5 DEF vars, mapVars, workerVars, storeVars, History, NothingForgotten
<1> QED BY <1>1, <1>2, <1>3, <1>4, <1>5 DEF Next

(* An idle shutdown followed by a new GetOrCreate forgets no event, as long  *)
(* as the process does not crash and the store does not fail.                *)
THEOREM IdleShutdownForgetsNothing == Spec => []NothingForgotten
<1>1. Init => TypeOK /\ OneWorker /\ SavedWhole /\ NothingForgotten
  BY TypeInit, OneWorkerInit, ElementsEmpty
     DEF Init, SavedWhole, NothingForgotten, History
<1>2. TypeOK /\ OneWorker /\ SavedWhole /\ NothingForgotten /\ [Next]_vars
        => (TypeOK /\ OneWorker /\ SavedWhole /\ NothingForgotten)'
  BY TypeNext, OneWorkerNext, SavedWholeNext, NothingForgottenNext
<1> QED BY <1>1, <1>2, PTL DEF Spec

(* The archive of raw events only grows, and grows by the event in hand. *)
LEMMA ArchiveAppend ==
  ASSUME TypeOK, NEW e \in Events, NEW r \in [event : Events, sequence : Nat],
         r.event = e, events' = Append(events, r)
  PROVE  Archive' = Archive \cup {e}
<1>1. events \in Seq([event : Events, sequence : Nat])
  BY DEF TypeOK, StoreOK
<1>2. DOMAIN events' = DOMAIN events \cup {Len(events) + 1}
  BY <1>1
<1>3. \A k \in DOMAIN events : events'[k] = events[k]
  BY <1>1
<1>4. events'[Len(events) + 1] = r
  BY <1>1
<1> QED BY <1>2, <1>3, <1>4 DEF Archive

(* What is written to state_nodes is of the tree or was there before. *)
LEMMA WritesOfTree ==
  ASSUME NEW t \in Seq(Events)
  PROVE  /\ WriteNodes(t) => Elements(nodes') \subseteq Elements(nodes) \cup Elements(t)
         /\ t # <<>> /\ WriteNode(t, Len(t)) =>
              Elements(nodes') \subseteq Elements(nodes) \cup Elements(t)
<1>1. WriteNodes(t) => Elements(nodes') \subseteq Elements(nodes) \cup Elements(t)
  BY DEF WriteNodes, Elements
<1>2. t # <<>> => Len(t) \in DOMAIN t
  OBVIOUS
<1>3. t # <<>> /\ WriteNode(t, Len(t)) =>
        Elements(nodes') \subseteq Elements(nodes) \cup Elements(t)
  BY <1>2 DEF WriteNode, Elements
<1> QED BY <1>1, <1>3

(* While the store has not failed, an event is in the archive before it gets *)
(* a node, and trees, snapshots and nodes are only made of such events.      *)
LEMMA ArchivedFirstNext ==
  TypeOK /\ ArchivedFirst /\ [Next]_vars => ArchivedFirst'
<1> SUFFICES ASSUME TypeOK, ArchivedFirst, [Next]_vars, failures' = 0
             PROVE  /\ \A j \in Incarnations :
                         /\ Elements(tree'[j]) \subseteq Archive'
                         /\ pc'[j] = "add" => busy'[j] \in Archive'
                    /\ Elements(snapshot') \cup Elements(nodes') \subseteq Archive'
  BY DEF ArchivedFirst, Elements, Archive
<1> DEFINE Goal == /\ \A j \in Incarnations :
                        /\ Elements(tree'[j]) \subseteq Archive'
                        /\ pc'[j] = "add" => busy'[j] \in Archive'
                   /\ Elements(snapshot') \cup Elements(nodes') \subseteq Archive'
<1>0. UNCHANGED events => Archive' = Archive
  BY DEF Archive
<1>1. ASSUME NEW c \in Clients, Handler(c) PROVE Goal
  <2>1. UNCHANGED <<events, nodes, snapshot, busy>> /\ failures = 0
    BY <1>1 DEF Handler, Call, GetOrCreate, NewSession, Succeeds, Fails,
                EnqueueLookup, EnqueueSend, Generate, storeVars, workerVars,
                TypeOK, StoreOK
  <2>2. CASE GetOrCreate(c) /\ current = NoSession
    <3>1. PICK i \in Incarnations : i = created + 1
      BY <2>2, BoundsAssumption DEF GetOrCreate, NewSession, TypeOK, MapOK, Incarnations
    <3>2. tree' = [tree EXCEPT ![i] = snapshot] /\ pc' = [pc EXCEPT ![i] = "select"]
      BY <2>1, <2>2, <3>1 DEF GetOrCreate, NewSession, Fails, TypeOK, StoreOK
    <3>3. ASSUME NEW j \in Incarnations
          PROVE  /\ tree'[j] = tree[j] \/ tree'[j] = snapshot
                 /\ pc'[j] = "add" => pc[j] = "add"
      BY <3>2 DEF TypeOK, WorkersOK
    <3> QED BY <1>0, <2>1, <3>3 DEF ArchivedFirst
  <2>3. CASE ~(GetOrCreate(c) /\ current = NoSession)
    <3>1. UNCHANGED <<tree, pc>>
      BY <1>1, <2>3 DEF Handler, Call, GetOrCreate, EnqueueLookup, EnqueueSend,
                        Generate, mapVars, workerVars
    <3> QED BY <1>0, <2>1, <3>1 DEF ArchivedFirst
  <2> QED BY <2>2, <2>3
<1>2. ASSUME NEW i \in Incarnations, Worker(i) PROVE Goal
  <2>1. failures = 0
    BY <1>2 DEF Worker, Receive, Process, AppendEvent, AddNode, UpsertNode, Collect,
         PersistMetrics, SnapshotTick, IdleTick, SnapshotSession, SaveSnapshot,
         SaveNodes, SaveMetrics, Delete, Succeeds, Fails, TypeOK, StoreOK
  <2>2. tree[i] \in Seq(Events)
    BY DEF TypeOK, WorkersOK
  <2>3. CASE AppendEvent(i)
    <3>1. busy[i] \in Events
      BY <2>3 DEF AppendEvent, TypeOK, WorkersOK, Busy
    <3>2. events' = Append(events, [event |-> busy[i], sequence |-> 0])
      BY <2>1, <2>3 DEF AppendEvent, Fails
    <3>3. Archive' = Archive \cup {busy[i]}
      BY <3>1, <3>2, ArchiveAppend
    <3>4. UNCHANGED <<tree, busy, nodes, snapshot>>
          /\ \A j \in Incarnations \ {i} : pc'[j] = pc[j]
      BY <2>3 DEF AppendEvent, Goto, TypeOK, WorkersOK
    <3> QED BY <2>1, <3>3, <3>4 DEF ArchivedFirst
  <2>4. CASE AddNode(i)
    <3>1. busy[i] \in Events /\ busy[i] \in Archive
      BY <2>1, <2>4 DEF AddNode, TypeOK, WorkersOK, Busy, ArchivedFirst
    <3>2. Elements(Append(tree[i], busy[i])) = Elements(tree[i]) \cup {busy[i]}
      BY <2>2, <3>1, ElementsAppend
    <3>3. /\ UNCHANGED <<events, nodes, snapshot, busy>>
          /\ tree'[i] = Append(tree[i], busy[i]) /\ pc'[i] # "add"
          /\ \A j \in Incarnations \ {i} : tree'[j] = tree[j] /\ pc'[j] = pc[j]
      BY <2>4 DEF AddNode, Goto, storeVars, TypeOK, WorkersOK
    <3> QED BY <1>0, <2>1, <3>1, <3>2, <3>3 DEF ArchivedFirst
  <2>5. CASE ~(AppendEvent(i) \/ AddNode(i))
    <3>1. UNCHANGED <<events, tree>>
      BY <1>2, <2>5 DEF Worker, Receive, Process, UpsertNode, Collect, PersistMetrics,
         SnapshotTick, IdleTick, SnapshotSession, SaveSnapshot, SaveNodes,
         SaveMetrics, Delete, storeVars
    <3>2. ASSUME NEW j \in Incarnations, pc'[j] = "add"
          PROVE  pc[j] = "add" /\ busy'[j] = busy[j]
      BY <1>2, <2>5, <3>2 DEF Worker, Receive, Process, UpsertNode, Collect,
         PersistMetrics, SnapshotTick, IdleTick, SnapshotSession, SaveSnapshot,
         SaveNodes, SaveMetrics, Delete, Goto, TypeOK, WorkersOK
    <3>3. snapshot' = snapshot \/ snapshot' = tree[i]
      BY <1>2, <2>5 DEF Worker, Receive, Process, UpsertNode, Collect, PersistMetrics,
         SnapshotTick, IdleTick, SnapshotSession, SaveSnapshot, SaveNodes,
         SaveMetrics, Delete, storeVars
    <3>4. Elements(nodes') \subseteq Elements(nodes) \cup Elements(tree[i])
      <4>1. CASE UNCHANGED nodes
        BY <4>1
      <4>2. CASE WriteNodes(tree[i])
        BY <2>2, <4>2, WritesOfTree
      <4>3. CASE UpsertNode(i) /\ WriteNode(tree[i], Len(tree[i]))
        <5>1. tree[i] # <<>>
          BY <4>3 DEF UpsertNode, TypeOK, WorkersOK
        <5> QED BY <2>2, <4>3, <5>1, WritesOfTree
      <4> QED BY <1>2, <2>5, <4>1, <4>2, <4>3 DEF Worker, Receive, Process,
         UpsertNode, Collect, PersistMetrics, SnapshotTick, IdleTick,
         SnapshotSession, SaveSnapshot, SaveNodes, SaveMetrics, Delete, storeVars
    <3> QED BY <1>0, <2>1, <3>1, <3>2, <3>3, <3>4 DEF ArchivedFirst
  <2> QED BY <2>3, <2>4, <2>5
<1>3. CASE GoIdle
  BY <1>0, <1>3 DEF GoIdle, storeVars, ArchivedFirst
<1>4. CASE Crash
  <2>1. \A j \in Incarnations : tree'[j] = <<>> /\ pc'[j] # "add"
    BY <1>4 DEF Crash
  <2>2. UNCHANGED <<events, nodes, snapshot, failures>>
    BY <1>4 DEF Crash, storeVars
  <2> QED BY <1>0, <2>1, <2>2, ElementsEmpty DEF ArchivedFirst
<1>5. CASE UNCHANGED vars
  BY <1>0, <1>5 DEF vars, workerVars, storeVars, ArchivedFirst
<1> QED BY <1>1, <1>2, <1>3, <1>4, <1>5 DEF Next

(* Unless the store failed, no node of the session, in memory, in the latest *)
(* snapshot or in state_nodes, describes an event the archive does not hold: *)
(* processEvent writes the raw event before it touches the tree.             *)
THEOREM EveryNodeHasItsEvent == Spec => []RawEventsArchived
<1>1. Init => TypeOK /\ OneWorker /\ ArchivedFirst
  <2>1. Init => ArchivedFirst
    BY ElementsEmpty DEF Init, ArchivedFirst, Elements
  <2> QED BY <2>1, TypeInit, OneWorkerInit
<1>2. TypeOK /\ OneWorker /\ ArchivedFirst /\ [Next]_vars
        => (TypeOK /\ OneWorker /\ ArchivedFirst)'
  BY TypeNext, OneWorkerNext, ArchivedFirstNext
<1>3. TypeOK /\ ArchivedFirst => RawEventsArchived
  <2>1. MapOK /\ ArchivedFirst => RawEventsArchived
    BY DEF ArchivedFirst, RawEventsArchived, History, MapOK
  <2> QED BY <2>1 DEF TypeOK
<1> QED BY <1>1, <1>2, <1>3, PTL DEF Spec

-----------------------------------------------------------------------------
(* The documents of state_nodes *)

NodesOfHistory ==
  crashes = 0 /\ failures = 0 =>
    \A n \in DOMAIN nodes : n \in DOMAIN History /\ nodes[n] = History[n]

(* Crashes and failures are only counted up. *)
LEMMA FaultsGrow ==
  ASSUME TypeOK, [Next]_vars, crashes' = 0, failures' = 0
  PROVE  crashes = 0 /\ failures = 0 /\ ~Crash
<1> USE DEF TypeOK, StoreOK
<1>1. ASSUME NEW c \in Clients, Handler(c) PROVE crashes = 0 /\ failures = 0 /\ ~Crash
  BY <1>1 DEF Handler, Call, GetOrCreate, NewSession, Succeeds, Fails, EnqueueLookup,
              EnqueueSend, Generate, Crash
<1>2. ASSUME NEW i \in Incarnations, Worker(i)
      PROVE  crashes = 0 /\ failures = 0 /\ ~Crash
  BY <1>2 DEF Worker, Receive, Process, AppendEvent, AddNode, UpsertNode, Collect,
         PersistMetrics, SnapshotTick, IdleTick, SnapshotSession, SaveSnapshot,
         SaveNodes, SaveMetrics, Delete, Succeeds, Fails, Crash
<1>3. ~Crash
  BY DEF Crash
<1> QED BY <1>1, <1>2, <1>3 DEF Next, GoIdle, vars

(* With neither, the history of the session is only ever extended. *)
LEMMA HistoryGrows ==
  ASSUME TypeOK, OneWorker, SavedWhole, [Next]_vars, crashes' = 0, failures' = 0
  PROVE  \A n \in DOMAIN History : n \in DOMAIN History' /\ History'[n] = History[n]
<1> DEFINE Goal ==
      \A n \in DOMAIN History : n \in DOMAIN History' /\ History'[n] = History[n]
<1>0. crashes = 0 /\ failures = 0 /\ ~Crash
  BY FaultsGrow
<1>1. ASSUME NEW c \in Clients, Handler(c) PROVE Goal
  <2>1. UNCHANGED snapshot
    BY <1>1 DEF Handler, Call, GetOrCreate, EnqueueLookup, EnqueueSend, Generate,
                storeVars
  <2>2. CASE GetOrCreate(c) /\ current = NoSession
    <3>1. PICK i \in Incarnations : i = created + 1
      BY <2>2, BoundsAssumption DEF GetOrCreate, NewSession, TypeOK, MapOK, Incarnations
    <3>2. tree' = [tree EXCEPT ![i] = snapshot] /\ current' = i
      BY <1>0, <2>2, <3>1 DEF GetOrCreate, NewSession, Fails, TypeOK, StoreOK
    <3>3. History' = History
      BY <2>1, <2>2, <3>2 DEF History, TypeOK, WorkersOK, Incarnations, NoSession
    <3> QED BY <3>3
  <2>3. CASE ~(GetOrCreate(c) /\ current = NoSession)
    <3>1. UNCHANGED <<current, tree>>
      BY <1>1, <2>3 DEF Handler, Call, GetOrCreate, EnqueueLookup, EnqueueSend,
                        Generate, mapVars, workerVars
    <3> QED BY <2>1, <3>1 DEF History
  <2> QED BY <2>2, <2>3
<1>2. ASSUME NEW i \in Incarnations, Worker(i) PROVE Goal
  <2>1. current = i /\ i # NoSession /\ History = tree[i] /\ tree[i] \in Seq(Events)
    BY <1>2, WorkerIsCurrent DEF Incarnations, NoSession, TypeOK, WorkersOK
  <2>2. CASE AddNode(i)
    <3>1. busy[i] \in Events
      BY <2>2 DEF AddNode, TypeOK, WorkersOK, Busy
    <3>2. History' = Append(tree[i], busy[i])
      BY <2>1, <2>2 DEF AddNode, mapVars, History, TypeOK, WorkersOK
    <3> QED BY <2>1, <3>1, <3>2
  <2>3. CASE Delete(i)
    <3>1. snapshot = tree[i] /\ History' = snapshot
      BY <1>0, <2>3 DEF Delete, SavedWhole, History, storeVars
    <3> QED BY <2>1, <3>1
  <2>4. CASE ~(AddNode(i) \/ Delete(i))
    <3>1. UNCHANGED <<current, tree>>
      BY <1>2, <2>4 DEF Worker, Receive, Process, AppendEvent, UpsertNode, Collect,
         PersistMetrics, SnapshotTick, IdleTick, SnapshotSession, SaveSnapshot,
         SaveNodes, SaveMetrics, mapVars
    <3> QED BY <2>1, <3>1 DEF History
  <2> QED BY <2>2, <2>3, <2>4
<1>3. CASE GoIdle
  BY <1>3 DEF GoIdle, mapVars, storeVars, History
<1>4. CASE UNCHANGED vars
  BY <1>4 DEF vars, mapVars, workerVars, storeVars, History
<1> QED BY <1>0, <1>1, <1>2, <1>3, <1>4 DEF Next

(* What is written to state_nodes is the history, turn by turn.              *)
LEMMA NodesWritten ==
  ASSUME TypeOK, OneWorker, [Next]_vars
  PROVE  /\ DOMAIN nodes \subseteq DOMAIN nodes'
         /\ \A n \in DOMAIN nodes' : \/ n \in DOMAIN nodes /\ nodes'[n] = nodes[n]
                                     \/ n \in DOMAIN History /\ nodes'[n] = History[n]
<1> DEFINE Goal ==
      /\ DOMAIN nodes \subseteq DOMAIN nodes'
      /\ \A n \in DOMAIN nodes' : \/ n \in DOMAIN nodes /\ nodes'[n] = nodes[n]
                                  \/ n \in DOMAIN History /\ nodes'[n] = History[n]
<1>1. CASE UNCHANGED nodes
  BY <1>1
<1>2. ASSUME NEW i \in Incarnations, Worker(i) PROVE Goal
  <2>1. History = tree[i] /\ tree[i] \in Seq(Events)
    BY <1>2, WorkerIsCurrent DEF TypeOK, WorkersOK
  <2>2. CASE WriteNodes(tree[i])
    BY <2>1, <2>2 DEF WriteNodes
  <2>3. CASE UpsertNode(i) /\ WriteNode(tree[i], Len(tree[i]))
    <3>1. tree[i] # <<>>
      BY <2>3 DEF UpsertNode, TypeOK, WorkersOK
    <3>2. Len(tree[i]) \in DOMAIN tree[i]
      BY <2>1, <3>1
    <3> QED BY <2>1, <2>3, <3>2 DEF WriteNode
  <2> QED BY <1>1, <1>2, <2>2, <2>3 DEF Worker, Receive, Process, AppendEvent, AddNode,
         UpsertNode, Collect, PersistMetrics, SnapshotTick, IdleTick, SnapshotSession,
         SaveSnapshot, SaveNodes, SaveMetrics, Delete, storeVars
<1>3. ASSUME NEW c \in Clients, Handler(c) PROVE UNCHANGED nodes
  BY <1>3 DEF Handler, Call, GetOrCreate, EnqueueLookup, EnqueueSend, Generate, storeVars
<1> QED BY <1>1, <1>2, <1>3 DEF Next, GoIdle, Crash, vars, storeVars

LEMMA NodesOfHistoryNext ==
  TypeOK /\ OneWorker /\ SavedWhole /\ NodesOfHistory /\ [Next]_vars => NodesOfHistory'
<1> SUFFICES ASSUME TypeOK, OneWorker, SavedWhole, NodesOfHistory, [Next]_vars,
                    crashes' = 0, failures' = 0, NEW n \in DOMAIN nodes'
             PROVE  n \in DOMAIN History' /\ nodes'[n] = History'[n]
  BY DEF NodesOfHistory
<1>1. n \in DOMAIN History /\ nodes'[n] = History[n]
  BY FaultsGrow, NodesWritten DEF NodesOfHistory
<1> QED BY <1>1, HistoryGrows

(* A document of state_nodes keeps describing the event it was written for:  *)
(* turns are handed out again only after a crash, or when a snapshot could   *)
(* not be written or read, never by an idle shutdown and a new session.      *)
THEOREM DocumentsKeepTheirEvent == Spec => NodesKeepTheirEvent
<1> DEFINE Inv == TypeOK /\ OneWorker /\ SavedWhole /\ NodesOfHistory
           Kept == crashes' = 0 /\ failures' = 0 =>
                     \A n \in DOMAIN nodes : n \in DOMAIN nodes' /\ nodes'[n] = nodes[n]
<1>1. Init => Inv
  BY TypeInit, OneWorkerInit DEF Init, SavedWhole, NodesOfHistory
<1>2. Inv /\ [Next]_vars => Inv'
  BY TypeNext, OneWorkerNext, SavedWholeNext, NodesOfHistoryNext
<1>3. Inv /\ [Next]_vars => [Kept]_vars
  <2> SUFFICES ASSUME Inv, [Next]_vars, crashes' = 0, failures' = 0,
                      NEW n \in DOMAIN nodes
               PROVE  n \in DOMAIN nodes' /\ nodes'[n] = nodes[n]
    OBVIOUS
  <2>1. nodes[n] = History[n]
    BY FaultsGrow DEF NodesOfHistory
  <2> QED BY <2>1, NodesWritten
<1> QED BY <1>1, <1>2, <1>3, PTL DEF Spec, NodesKeepTheirEvent

-----------------------------------------------------------------------------
(* The order of events *)

LEMMA ElementsOf ==
  ASSUME NEW S, NEW s \in Seq(S)
  PROVE  /\ \A e \in Elements(s) : e \in S
         /\ s # <<>> => Head(s) \in Elements(s) /\ Elements(Tail(s)) \subseteq Elements(s)
<1>1. \A e \in Elements(s) : e \in S
  BY DEF Elements
<1>2. ASSUME s # <<>>
      PROVE  Head(s) \in Elements(s) /\ Elements(Tail(s)) \subseteq Elements(s)
  <2>1. Head(s) = s[1] /\ 1 \in DOMAIN s
    BY <1>2
  <2>2. \A k \in DOMAIN Tail(s) : Tail(s)[k] = s[k + 1] /\ k + 1 \in DOMAIN s
    BY <1>2
  <2> QED BY <2>1, <2>2 DEF Elements
<1> QED BY <1>1, <1>2

(* Where everything comes from in a step of the session. *)
LEMMA WhereFrom ==
  ASSUME TypeOK, [Next]_vars, NEW i \in Incarnations
  PROVE  /\ Elements(tree'[i]) \subseteq
              Elements(tree[i]) \cup Elements(snapshot) \cup ({busy[i]} \ {None})
         /\ \A e \in Elements(queue'[i]) :
              \/ e \in Elements(queue[i])
              \/ \E c \in Clients : EnqueueSend(c) /\ handle[c] = i /\ e = <<c, sent[c]>>
         /\ busy'[i] # None => busy'[i] = busy[i] \/ busy'[i] \in Elements(queue[i])
         /\ snapshot' = snapshot \/ \E j \in Incarnations : snapshot' = tree[j]
<1> DEFINE Goal ==
      /\ Elements(tree'[i]) \subseteq
           Elements(tree[i]) \cup Elements(snapshot) \cup ({busy[i]} \ {None})
      /\ \A e \in Elements(queue'[i]) :
           \/ e \in Elements(queue[i])
           \/ \E c \in Clients : EnqueueSend(c) /\ handle[c] = i /\ e = <<c, sent[c]>>
      /\ busy'[i] # None => busy'[i] = busy[i] \/ busy'[i] \in Elements(queue[i])
      /\ snapshot' = snapshot \/ \E j \in Incarnations : snapshot' = tree[j]
<1>1. tree[i] \in Seq(Events) /\ queue[i] \in Seq(Events) /\ busy[i] \in Events \cup {None}
  BY DEF TypeOK, WorkersOK
<1>2. ASSUME UNCHANGED <<tree, queue, busy, snapshot>> PROVE Goal
  BY <1>2
<1>3. ASSUME NEW c \in Clients, Handler(c) PROVE Goal
  <2>1. CASE EnqueueSend(c)
    <3>1. UNCHANGED <<tree, busy, snapshot>> /\ handle[c] \in Incarnations
      BY <2>1 DEF EnqueueSend, storeVars, TypeOK, HandlersOK
    <3>2. <<c, sent[c]>> \in Events
      BY <2>1, BoundsAssumption DEF EnqueueSend, TypeOK, HandlersOK, Events
    <3>3. CASE queue'[i] = queue[i]
      BY <3>1, <3>3
    <3>4. CASE queue'[i] # queue[i]
      <4>1. handle[c] = i /\ queue'[i] = Append(queue[i], <<c, sent[c]>>)
        BY <2>1, <3>1, <3>4 DEF EnqueueSend, TypeOK, WorkersOK
      <4>2. Elements(queue'[i]) = Elements(queue[i]) \cup {<<c, sent[c]>>}
        BY <1>1, <3>2, <4>1, ElementsAppend
      <4> QED BY <2>1, <3>1, <4>1, <4>2
    <3> QED BY <3>3, <3>4
  <2>2. CASE GetOrCreate(c)
    <3>1. UNCHANGED <<queue, busy, snapshot>>
      BY <2>2 DEF GetOrCreate, NewSession, storeVars
    <3>2. tree'[i] = tree[i] \/ tree'[i] = snapshot \/ tree'[i] = <<>>
      BY <2>2 DEF GetOrCreate, NewSession, TypeOK, WorkersOK
    <3> QED BY <3>1, <3>2, ElementsEmpty
  <2>3. CASE ~(EnqueueSend(c) \/ GetOrCreate(c))
    <3>1. UNCHANGED <<tree, queue, busy, snapshot>>
      BY <1>3, <2>3 DEF Handler, Call, EnqueueLookup, Generate, workerVars, storeVars
    <3> QED BY <1>2, <3>1
  <2> QED BY <2>1, <2>2, <2>3
<1>4. ASSUME NEW j \in Incarnations, Worker(j) PROVE Goal
  <2>1. CASE Receive(j)
    <3>1. UNCHANGED <<tree, snapshot>>
      BY <2>1 DEF Receive, storeVars
    <3>2. CASE j # i
      <4>1. queue'[i] = queue[i] /\ busy'[i] = busy[i]
        BY <2>1, <3>2 DEF Receive, TypeOK, WorkersOK
      <4> QED BY <3>1, <4>1
    <3>3. CASE j = i
      <4>1. queue[i] # <<>> /\ queue'[i] = Tail(queue[i]) /\ busy'[i] = Head(queue[i])
        BY <2>1, <3>3 DEF Receive, TypeOK, WorkersOK
      <4>2. Head(queue[i]) \in Elements(queue[i])
            /\ Elements(Tail(queue[i])) \subseteq Elements(queue[i])
        BY <1>1, <4>1, ElementsOf
      <4> QED BY <3>1, <4>1, <4>2
    <3> QED BY <3>2, <3>3
  <2>2. CASE AddNode(j)
    <3>1. UNCHANGED <<queue, busy, snapshot>>
      BY <2>2 DEF AddNode, storeVars
    <3>2. CASE j # i
      <4>1. tree'[i] = tree[i]
        BY <2>2, <3>2 DEF AddNode, TypeOK, WorkersOK
      <4> QED BY <3>1, <4>1
    <3>3. CASE j = i
      <4>1. busy[i] \in Events /\ busy[i] # None
        BY <2>2, <3>3 DEF AddNode, TypeOK, WorkersOK, Busy
      <4>2. tree'[i] = Append(tree[i], busy[i])
        BY <2>2, <3>3 DEF AddNode, TypeOK, WorkersOK
      <4>3. Elements(tree'[i]) = Elements(tree[i]) \cup {busy[i]}
        BY <1>1, <4>1, <4>2, ElementsAppend
      <4> QED BY <3>1, <4>1, <4>3
    <3> QED BY <3>2, <3>3
  <2>3. CASE ~(Receive(j) \/ AddNode(j))
    <3>1. UNCHANGED <<tree, queue>> /\ (busy'[i] = busy[i] \/ busy'[i] = None)
          /\ (snapshot' = snapshot \/ snapshot' = tree[j])
      BY <1>4, <2>3 DEF Worker, Process, AppendEvent, UpsertNode, Collect, PersistMetrics,
         SnapshotTick, IdleTick, SnapshotSession, SaveSnapshot, SaveNodes,
         SaveMetrics, Delete, storeVars, TypeOK, WorkersOK
    <3> QED BY <3>1
  <2> QED BY <2>1, <2>2, <2>3
<1>5. CASE GoIdle
  BY <1>2, <1>5 DEF GoIdle, storeVars
<1>6. CASE Crash
  <2>1. tree'[i] = <<>> /\ queue'[i] = <<>> /\ busy'[i] = None /\ UNCHANGED snapshot
    BY <1>6 DEF Crash, storeVars
  <2> QED BY <2>1, ElementsEmpty
<1>7. CASE UNCHANGED vars
  BY <1>2, <1>7 DEF vars, workerVars, storeVars
<1> QED BY <1>3, <1>4, <1>5, <1>6, <1>7 DEF Next

(* Clients only send more. *)
LEMMA SentGrows ==
  ASSUME TypeOK, [Next]_vars
  PROVE  \A c \in Clients : sent'[c] >= sent[c]
<1>1. \A c \in Clients : sent[c] \in Nat
  BY DEF TypeOK, HandlersOK
<1>2. ASSUME NEW c \in Clients, Handler(c) PROVE \A d \in Clients : sent'[d] >= sent[d]
  <2>1. UNCHANGED sent \/ sent' = [sent EXCEPT ![c] = sent[c] + 1]
    BY <1>2 DEF Handler, Call, GetOrCreate, EnqueueLookup, EnqueueSend, Generate
  <2> QED BY <1>1, <2>1 DEF TypeOK, HandlersOK
<1>3. CASE \A c \in Clients : ~Handler(c)
  <2>1. UNCHANGED sent
    BY <1>3 DEF Next, Worker, Receive, Process, AppendEvent, AddNode, UpsertNode,
         Collect, PersistMetrics, SnapshotTick, IdleTick, SnapshotSession, SaveSnapshot,
         SaveNodes, SaveMetrics, Delete, GoIdle, Crash, vars, clientVars
  <2> QED BY <1>1, <2>1
<1> QED BY <1>2, <1>3

(* What of a client's events may have been enqueued: not the one a handler   *)
(* still has to send.                                                        *)
Latest(c) == IF at[c] \in {"missed", "enqueue", "send"} THEN sent[c] - 1 ELSE sent[c]
Enqueued(e) == e[2] <= Latest(e[1])
SentFirst ==
  /\ \A i \in Incarnations :
       /\ \A e \in Elements(tree[i]) \cup Elements(queue[i]) : Enqueued(e)
       /\ busy[i] # None => Enqueued(busy[i])
  /\ \A e \in Elements(snapshot) : Enqueued(e)

LEMMA LatestGrows ==
  ASSUME TypeOK, [Next]_vars, TypeOK'
  PROVE  /\ \A c \in Clients : /\ Latest(c) \in Int /\ Latest(c)' \in Int
                               /\ Latest(c)' >= Latest(c)
         /\ \A c \in Clients : EnqueueSend(c) => Latest(c)' = sent[c] /\ Latest(c) < sent[c]
<1>1. \A c \in Clients : sent[c] \in Nat /\ sent'[c] \in Nat
  BY DEF TypeOK, HandlersOK
<1>2. ASSUME NEW c \in Clients, Handler(c)
      PROVE  \A d \in Clients : Latest(d)' >= Latest(d)
  <2>1. \A d \in Clients \ {c} : at'[d] = at[d] /\ sent'[d] = sent[d]
    BY <1>2 DEF Handler, Call, GetOrCreate, EnqueueLookup, EnqueueSend, Generate, Return,
                TypeOK, HandlersOK
  <2>2. \/ sent'[c] = sent[c] + 1 /\ at[c] \notin {"missed", "enqueue", "send"}
        \/ sent'[c] = sent[c] /\ at[c] \in {"missed", "enqueue", "send"}
        \/ sent'[c] = sent[c] /\ at'[c] = "ready"
    BY <1>2 DEF Handler, Call, GetOrCreate, EnqueueLookup, EnqueueSend, Generate,
                TypeOK, HandlersOK
  <2> QED BY <1>1, <2>1, <2>2 DEF Latest
<1>3. CASE Crash
  <2>1. \A c \in Clients : at'[c] = "ready" /\ sent'[c] = sent[c]
    BY <1>3 DEF Crash
  <2> QED BY <1>1, <2>1 DEF Latest, Crash, EnqueueSend
<1>4. CASE ~Crash /\ \A c \in Clients : ~Handler(c)
  <2>1. UNCHANGED <<at, sent>>
    BY <1>4 DEF Next, Worker, Receive, Process, AppendEvent, AddNode, UpsertNode,
         Collect, PersistMetrics, SnapshotTick, IdleTick, SnapshotSession, SaveSnapshot,
         SaveNodes, SaveMetrics, Delete, GoIdle, vars, clientVars
  <2>2. \A c \in Clients : ~EnqueueSend(c)
    BY <1>4 DEF Handler
  <2> QED BY <1>1, <2>1, <2>2 DEF Latest
<1>5. ASSUME NEW c \in Clients, EnqueueSend(c)
      PROVE  Latest(c)' = sent[c] /\ Latest(c) < sent[c]
  <2>1. at[c] = "send" /\ at'[c] \notin {"missed", "enqueue", "send"} /\ sent'[c] = sent[c]
    BY <1>5 DEF EnqueueSend, Return, TypeOK, HandlersOK
  <2> QED BY <1>1, <2>1 DEF Latest
<1>6. \A c \in Clients : Latest(c) \in Int /\ Latest(c)' \in Int
  BY <1>1 DEF Latest
<1> QED BY <1>2, <1>3, <1>4, <1>5, <1>6

LEMMA SentFirstNext == TypeOK /\ SentFirst /\ [Next]_vars /\ TypeOK' => SentFirst'
<1> SUFFICES ASSUME TypeOK, SentFirst, [Next]_vars, TypeOK' PROVE SentFirst'
  OBVIOUS
<1>1. \A c \in Clients : Latest(c) \in Int /\ Latest(c)' \in Int /\ Latest(c)' >= Latest(c)
  BY LatestGrows
<1>2. ASSUME NEW e \in Events, Enqueued(e) PROVE Enqueued(e)'
  <2>1. e[1] \in Clients /\ e[2] \in Nat
    BY DEF Events
  <2> QED BY <1>1, <1>2, <2>1 DEF Enqueued
<1>3. ASSUME NEW i \in Incarnations
      PROVE  /\ \A e \in Elements(tree[i]) \cup Elements(queue[i]) : e \in Events /\ Enqueued(e)
             /\ busy[i] # None => busy[i] \in Events /\ Enqueued(busy[i])
  <2>1. tree[i] \in Seq(Events) /\ queue[i] \in Seq(Events) /\ busy[i] \in Events \cup {None}
    BY DEF TypeOK, WorkersOK
  <2> QED BY <2>1, ElementsOf DEF SentFirst
<1>4. \A e \in Elements(snapshot) : e \in Events /\ Enqueued(e)
  <2>1. snapshot \in Seq(Events)
    BY DEF TypeOK, StoreOK
  <2> QED BY <2>1, ElementsOf DEF SentFirst
<1>5. ASSUME NEW i \in Incarnations
      PROVE  /\ \A e \in Elements(tree'[i]) \cup Elements(queue'[i]) : Enqueued(e)'
             /\ busy'[i] # None => Enqueued(busy[i])'
  <2>1. ASSUME NEW e \in Elements(tree'[i]) PROVE Enqueued(e)'
    <3>1. e \in Elements(tree[i]) \/ e \in Elements(snapshot) \/ (e = busy[i] /\ busy[i] # None)
      BY WhereFrom
    <3> QED BY <1>2, <1>3, <1>4, <3>1
  <2>2. ASSUME NEW e \in Elements(queue'[i]) PROVE Enqueued(e)'
    <3>1. e \in Elements(queue[i]) \/ \E c \in Clients : EnqueueSend(c) /\ e = <<c, sent[c]>>
      BY WhereFrom
    <3>2. CASE e \in Elements(queue[i])
      BY <1>2, <1>3, <3>2
    <3>3. ASSUME NEW c \in Clients, EnqueueSend(c), e = <<c, sent[c]>> PROVE Enqueued(e)'
      <4>1. Latest(c)' = sent[c] /\ sent[c] \in Nat
        BY <3>3, LatestGrows DEF TypeOK, HandlersOK
      <4> QED BY <3>3, <4>1 DEF Enqueued
    <3> QED BY <3>1, <3>2, <3>3
  <2>3. busy'[i] # None => Enqueued(busy[i])'
    <3>1. busy'[i] # None => busy'[i] = busy[i] \/ busy'[i] \in Elements(queue[i])
      BY WhereFrom
    <3>2. ASSUME busy'[i] # None PROVE \E e \in Events : e = busy'[i] /\ Enqueued(e)'
      BY <1>2, <1>3, <3>1, <3>2
    <3> QED BY <3>2 DEF Enqueued
  <2> QED BY <2>1, <2>2, <2>3
<1>6. \A e \in Elements(snapshot') : Enqueued(e)'
  <2>1. snapshot' = snapshot \/ \E j \in Incarnations : snapshot' = tree[j]
    <3>1. CASE Incarnations = {}
      <4>1. \A i \in Incarnations : ~Worker(i)
        BY <3>1
      <4> QED BY <4>1 DEF Next, Handler, Call, GetOrCreate, NewSession,
                   EnqueueLookup, EnqueueSend, Generate, GoIdle, Crash, vars, storeVars
    <3>2. CASE Incarnations # {}
      <4>1. PICK i : i \in Incarnations
        BY <3>2
      <4> QED BY <4>1, WhereFrom
    <3> QED BY <3>1, <3>2
  <2>2. ASSUME NEW e \in Elements(snapshot') PROVE Enqueued(e)'
    <3>1. e \in Elements(snapshot) \/ \E j \in Incarnations : e \in Elements(tree[j])
      BY <2>1
    <3> QED BY <1>2, <1>3, <1>4, <3>1
  <2> QED BY <2>2
<1> QED BY <1>5, <1>6 DEF SentFirst, Elements

(* One client's events, earlier before later: within the tree, from the tree *)
(* over the worker's hands to the channel, and within the channel.           *)
Before(e, f) == e[1] = f[1] => e[2] < f[2]
Ordered(s) == \A j, k \in DOMAIN s : j < k => Before(s[j], s[k])
AllBefore(s, e) == \A d \in Elements(s) : Before(d, e)
AllAfter(s, e) == \A f \in Elements(s) : Before(e, f)

LineOrdered(i) ==
  /\ Ordered(tree[i]) /\ Ordered(queue[i])
  /\ \A e \in Elements(queue[i]) : AllBefore(tree[i], e)
  /\ pc[i] \in {"append", "add"} => AllBefore(tree[i], busy[i]) /\ AllAfter(queue[i], busy[i])

(* Nobody holds a session that was not created yet. *)
Births ==
  /\ current <= created
  /\ \A i \in Incarnations : /\ pc[i] = "none" <=> i > created
                             /\ i > created => queue[i] = <<>>
  /\ \A c \in Clients : handle[c] <= created

InOrder == Ordered(snapshot) /\ \A i \in Incarnations : LineOrdered(i)

LEMMA OrderedAppend ==
  ASSUME NEW s \in Seq(Events), NEW e \in Events, Ordered(s), AllBefore(s, e)
  PROVE  Ordered(Append(s, e))
<1> SUFFICES ASSUME NEW j \in DOMAIN Append(s, e), NEW k \in DOMAIN Append(s, e), j < k
             PROVE  Before(Append(s, e)[j], Append(s, e)[k])
  BY DEF Ordered
<1>1. j \in DOMAIN s /\ Append(s, e)[j] = s[j] /\ s[j] \in Elements(s)
  BY DEF Elements
<1>2. CASE k \in DOMAIN s
  <2>1. Append(s, e)[k] = s[k]
    BY <1>2
  <2> QED BY <1>1, <1>2, <2>1 DEF Ordered
<1>3. CASE k \notin DOMAIN s
  <2>1. Append(s, e)[k] = e
    BY <1>3
  <2> QED BY <1>1, <2>1 DEF AllBefore
<1> QED BY <1>2, <1>3

LEMMA OrderedTail ==
  ASSUME NEW s \in Seq(Events), s # <<>>, Ordered(s)
  PROVE  Ordered(Tail(s)) /\ AllAfter(Tail(s), Head(s))
<1>1. Head(s) = s[1] /\ 1 \in DOMAIN s
  OBVIOUS
<1>2. \A k \in DOMAIN Tail(s) : Tail(s)[k] = s[k + 1] /\ k + 1 \in DOMAIN s /\ 1 < k + 1
  OBVIOUS
<1>3. Ordered(Tail(s))
  <2> SUFFICES ASSUME NEW j \in DOMAIN Tail(s), NEW k \in DOMAIN Tail(s), j < k
               PROVE  Before(Tail(s)[j], Tail(s)[k])
    BY DEF Ordered
  <2>1. j + 1 < k + 1
    OBVIOUS
  <2> QED BY <1>2, <2>1 DEF Ordered
<1>4. AllAfter(Tail(s), Head(s))
  BY <1>1, <1>2 DEF AllAfter, Elements, Ordered
<1> QED BY <1>3, <1>4

LEMMA BirthsNext == TypeOK /\ Births /\ [Next]_vars => Births'
<1> SUFFICES ASSUME TypeOK, Births, [Next]_vars PROVE Births'
  OBVIOUS
<1>0. created \in Nat /\ current \in Nat /\ Incarnations \subseteq Nat
  BY BoundsAssumption DEF TypeOK, MapOK, Incarnations, NoSession
<1>1. ASSUME NEW c \in Clients, Handler(c) PROVE Births'
  <2>1. CASE GetOrCreate(c) /\ current = NoSession
    <3>1. PICK i \in Incarnations : i = created + 1
      BY <2>1, BoundsAssumption DEF GetOrCreate, NewSession, TypeOK, MapOK, Incarnations
    <3>2. /\ current' = i /\ created' = i /\ UNCHANGED <<queue, handle>>
          /\ pc' = [pc EXCEPT ![i] = "select"]
      BY <2>1, <3>1 DEF GetOrCreate, NewSession
    <3>3. \A j \in Incarnations : (pc'[j] = "none" <=> j > i) /\ (j > i => queue'[j] = <<>>)
      BY <1>0, <3>1, <3>2 DEF Births, TypeOK, WorkersOK
    <3>4. \A d \in Clients : handle'[d] <= i
      <4>1. \A d \in Clients : handle[d] \in Nat /\ handle[d] <= created
        <5>1. \A d \in Clients : handle[d] = 0 \/ handle[d] \in Incarnations
          BY DEF TypeOK, HandlersOK, NoSession
        <5>2. \A d \in Clients : handle[d] <= created
          BY DEF Births
        <5>3. \A d \in Clients : handle[d] \in Nat
          BY <5>1, BoundsAssumption DEF Incarnations
        <5> QED BY <5>2, <5>3
      <4> QED BY <1>0, <3>1, <3>2, <4>1
    <3> QED BY <1>0, <3>2, <3>3, <3>4 DEF Births
  <2>2. CASE EnqueueSend(c)
    <3>1. handle[c] \in Incarnations /\ handle[c] <= created
      BY <2>2 DEF EnqueueSend, Births, TypeOK, HandlersOK
    <3>2. UNCHANGED <<current, created, pc>>
      BY <2>2 DEF EnqueueSend, mapVars
    <3>3. \A j \in Incarnations : j > created => queue'[j] = <<>>
      <4>1. \A j \in Incarnations : j # handle[c] => queue'[j] = queue[j]
        BY <2>2 DEF EnqueueSend, TypeOK, WorkersOK
      <4> QED BY <1>0, <3>1, <4>1 DEF Births
    <3>4. \A d \in Clients : handle'[d] <= created
      BY <1>0, <2>2 DEF EnqueueSend, Births, TypeOK, HandlersOK, NoSession
    <3> QED BY <3>2, <3>3, <3>4 DEF Births
  <2>3. CASE ~(GetOrCreate(c) /\ current = NoSession) /\ ~EnqueueSend(c)
    <3>1. UNCHANGED <<current, created, pc, queue>>
      BY <1>1, <2>3 DEF Handler, Call, GetOrCreate, EnqueueLookup, Generate, mapVars, workerVars
    <3>2. UNCHANGED handle \/ handle' = [handle EXCEPT ![c] = current]
      BY <1>1, <2>3 DEF Handler, Call, GetOrCreate, EnqueueLookup, Generate
    <3>3. \A d \in Clients : handle'[d] <= created
      BY <3>2 DEF Births, TypeOK, HandlersOK
    <3> QED BY <3>1, <3>3 DEF Births
  <2> QED BY <2>1, <2>2, <2>3
<1>2. ASSUME NEW i \in Incarnations, Worker(i) PROVE Births'
  <2>1. /\ pc[i] # "none" /\ pc'[i] # "none"
        /\ \A j \in Incarnations \ {i} : pc'[j] = pc[j] /\ queue'[j] = queue[j]
        /\ UNCHANGED <<created, handle>> /\ (current' = current \/ current' = NoSession)
    BY <1>2 DEF Worker, Receive, Process, AppendEvent, AddNode, UpsertNode, Collect,
         PersistMetrics, SnapshotTick, IdleTick, SnapshotSession, SaveSnapshot,
         SaveNodes, SaveMetrics, Delete, Goto, TypeOK, WorkersOK, mapVars, clientVars
  <2>2. current' <= created /\ \A c \in Clients : handle'[c] <= created
    BY <1>0, <2>1 DEF Births, NoSession
  <2>3. ~(i > created)
    BY <2>1 DEF Births
  <2>4. ASSUME NEW j \in Incarnations
        PROVE  (pc'[j] = "none" <=> j > created) /\ (j > created => queue'[j] = <<>>)
    <3>1. CASE j = i
      BY <2>1, <2>3, <3>1
    <3>2. CASE j # i
      BY <2>1, <3>2 DEF Births
    <3> QED BY <3>1, <3>2
  <2> QED BY <2>1, <2>2, <2>4 DEF Births
<1>3. CASE GoIdle
  BY <1>3 DEF GoIdle, mapVars, clientVars, Births
<1>4. CASE Crash
  BY <1>0, <1>4 DEF Crash, Births, NoSession
<1>5. CASE UNCHANGED vars
  BY <1>5 DEF vars, mapVars, workerVars, clientVars, Births
<1> QED BY <1>1, <1>2, <1>3, <1>4, <1>5 DEF Next

LEMMA InOrderNext ==
  TypeOK /\ SentFirst /\ Births /\ InOrder /\ [Next]_vars /\ TypeOK' => InOrder'
<1> SUFFICES ASSUME TypeOK, SentFirst, Births, InOrder, [Next]_vars, TypeOK' PROVE InOrder'
  OBVIOUS
<1>1. \A i \in Incarnations : /\ tree[i] \in Seq(Events) /\ queue[i] \in Seq(Events)
                              /\ busy[i] \in Events \cup {None}
  BY DEF TypeOK, WorkersOK
<1>2. ASSUME UNCHANGED <<tree, queue, busy, pc, snapshot>> PROVE InOrder'
  BY <1>2 DEF InOrder, LineOrdered, Ordered, AllBefore, AllAfter, Elements
<1>e. Ordered(<<>>)
  BY DEF Ordered
<1>3. ASSUME NEW c \in Clients, Handler(c) PROVE InOrder'
  <2>1. CASE GetOrCreate(c) /\ current = NoSession
    <3>1. PICK i \in Incarnations : i = created + 1
      BY <2>1, BoundsAssumption DEF GetOrCreate, NewSession, TypeOK, MapOK, Incarnations
    <3>2. /\ UNCHANGED <<queue, busy, snapshot>> /\ pc' = [pc EXCEPT ![i] = "select"]
          /\ tree' = [tree EXCEPT ![i] = snapshot] \/ tree' = [tree EXCEPT ![i] = <<>>]
      BY <2>1, <3>1 DEF GetOrCreate, NewSession, storeVars
    <3>3. queue[i] = <<>>
      BY <3>1 DEF Births, TypeOK, MapOK
    <3>4. LineOrdered(i)'
      <4>1. pc'[i] = "select" /\ queue'[i] = <<>> /\ (tree'[i] = snapshot \/ tree'[i] = <<>>)
        BY <3>2, <3>3 DEF TypeOK, WorkersOK
      <4> QED BY <1>e, <4>1, ElementsEmpty DEF InOrder, LineOrdered, Elements, Ordered
    <3>5. ASSUME NEW j \in Incarnations, j # i PROVE LineOrdered(j)'
      <4>1. tree'[j] = tree[j] /\ queue'[j] = queue[j] /\ busy'[j] = busy[j] /\ pc'[j] = pc[j]
        BY <3>2, <3>5 DEF TypeOK, WorkersOK
      <4> QED BY <4>1 DEF InOrder, LineOrdered, Elements, AllBefore, AllAfter, Ordered
    <3> QED BY <3>2, <3>4, <3>5 DEF InOrder, Ordered
  <2>2. CASE EnqueueSend(c)
    <3>1. PICK i \in Incarnations : i = handle[c]
      BY <2>2 DEF EnqueueSend, TypeOK, HandlersOK
    <3>2. PICK e \in Events : e = <<c, sent[c]>>
      <4>1. sent[c] \in 1 .. MaxEvents
        BY <2>2, BoundsAssumption DEF EnqueueSend, TypeOK, HandlersOK
      <4> QED BY <4>1 DEF Events
    <3>3. ASSUME NEW d \in Events, Enqueued(d) PROVE Before(d, e)
      <4>1. Latest(c) < sent[c] /\ Latest(c) \in Int /\ sent[c] \in Nat
        BY <2>2, LatestGrows DEF TypeOK, HandlersOK
      <4>2. d[1] = c => d[2] <= Latest(c)
        BY <3>3 DEF Enqueued
      <4>3. d[2] \in Nat /\ e[1] = c /\ e[2] = sent[c]
        BY <3>2 DEF Events
      <4> QED BY <4>1, <4>2, <4>3 DEF Before
    <3>4. AllBefore(tree[i], e) /\ AllBefore(queue[i], e) /\ (busy[i] # None => Before(busy[i], e))
      <4>1. \A d \in Elements(tree[i]) \cup Elements(queue[i]) : d \in Events
        BY <1>1, ElementsOf
      <4>2. /\ \A d \in Elements(tree[i]) \cup Elements(queue[i]) : Enqueued(d)
            /\ busy[i] # None => Enqueued(busy[i]) /\ busy[i] \in Events
        BY <1>1 DEF SentFirst
      <4> QED BY <3>3, <4>1, <4>2 DEF AllBefore
    <3>5. /\ UNCHANGED <<tree, busy, pc, snapshot>>
          /\ \A j \in Incarnations \ {i} : queue'[j] = queue[j]
          /\ queue'[i] = queue[i] \/ queue'[i] = Append(queue[i], e)
      BY <2>2, <3>1, <3>2 DEF EnqueueSend, storeVars, TypeOK, WorkersOK
    <3>6. LineOrdered(i)'
      <4>1. CASE queue'[i] = queue[i]
        BY <3>5, <4>1 DEF InOrder, LineOrdered, Elements, AllBefore, AllAfter, Ordered
      <4>2. CASE queue'[i] = Append(queue[i], e)
        <5>1. Ordered(queue'[i])
          BY <1>1, <3>4, <4>2, OrderedAppend DEF InOrder, LineOrdered
        <5>2. Elements(queue'[i]) = Elements(queue[i]) \cup {e}
          BY <1>1, <4>2, ElementsAppend
        <5>3. \A f \in Elements(queue'[i]) : AllBefore(tree[i], f)
          BY <3>4, <5>2 DEF InOrder, LineOrdered
        <5>4. pc[i] \in {"append", "add"} => AllAfter(queue'[i], busy[i])
          <6>1. pc[i] \in {"append", "add"} => busy[i] # None
            BY DEF TypeOK, WorkersOK, Busy
          <6> QED BY <3>4, <5>2, <6>1 DEF InOrder, LineOrdered, AllAfter
        <5> QED BY <3>5, <5>1, <5>3, <5>4
                DEF InOrder, LineOrdered, Elements, AllBefore, AllAfter, Ordered
      <4> QED BY <3>5, <4>1, <4>2
    <3>7. ASSUME NEW j \in Incarnations, j # i PROVE LineOrdered(j)'
      <4>1. queue'[j] = queue[j] /\ tree'[j] = tree[j] /\ busy'[j] = busy[j] /\ pc'[j] = pc[j]
        BY <3>5, <3>7
      <4> QED BY <4>1 DEF InOrder, LineOrdered, Elements, AllBefore, AllAfter, Ordered
    <3> QED BY <3>5, <3>6, <3>7 DEF InOrder, Ordered
  <2>3. CASE ~(GetOrCreate(c) /\ current = NoSession) /\ ~EnqueueSend(c)
    <3>1. UNCHANGED <<tree, queue, busy, pc, snapshot>>
      BY <1>3, <2>3 DEF Handler, Call, GetOrCreate, EnqueueLookup, Generate, workerVars, storeVars
    <3> QED BY <1>2, <3>1
  <2> QED BY <2>1, <2>2, <2>3
<1>4. ASSUME NEW i \in Incarnations, Worker(i) PROVE InOrder'
  <2>1. \A j \in Incarnations \ {i} : /\ tree'[j] = tree[j] /\ queue'[j] = queue[j]
                                      /\ busy'[j] = busy[j] /\ pc'[j] = pc[j]
    BY <1>4 DEF Worker, Receive, Process, AppendEvent, AddNode, UpsertNode, Collect,
         PersistMetrics, SnapshotTick, IdleTick, SnapshotSession, SaveSnapshot,
         SaveNodes, SaveMetrics, Delete, Goto, TypeOK, WorkersOK
  <2>2. ASSUME NEW j \in Incarnations, j # i PROVE LineOrdered(j)'
    BY <2>1, <2>2 DEF InOrder, LineOrdered, Elements, AllBefore, AllAfter, Ordered
  <2>3. Ordered(snapshot')
    <3>1. snapshot' = snapshot \/ snapshot' = tree[i]
      BY <1>4 DEF Worker, Receive, Process, AppendEvent, AddNode, UpsertNode, Collect,
         PersistMetrics, SnapshotTick, IdleTick, SnapshotSession, SaveSnapshot,
         SaveNodes, SaveMetrics, Delete, storeVars
    <3> QED BY <3>1 DEF InOrder, LineOrdered
  <2>4. LineOrdered(i)'
    <3>1. CASE Receive(i)
      <4>1. /\ queue[i] # <<>> /\ queue'[i] = Tail(queue[i]) /\ busy'[i] = Head(queue[i])
            /\ tree'[i] = tree[i]
        BY <3>1 DEF Receive, TypeOK, WorkersOK
      <4>2. Ordered(Tail(queue[i])) /\ AllAfter(Tail(queue[i]), Head(queue[i]))
        BY <1>1, <4>1, OrderedTail DEF InOrder, LineOrdered
      <4>3. Head(queue[i]) \in Elements(queue[i])
            /\ Elements(Tail(queue[i])) \subseteq Elements(queue[i])
        BY <1>1, <4>1, ElementsOf
      <4>4. AllBefore(tree[i], Head(queue[i]))
            /\ \A f \in Elements(Tail(queue[i])) : AllBefore(tree[i], f)
        BY <4>3 DEF InOrder, LineOrdered
      <4>5. Ordered(tree[i])
        BY DEF InOrder, LineOrdered
      <4> QED BY <4>1, <4>2, <4>4, <4>5 DEF LineOrdered, Elements, AllBefore, AllAfter, Ordered
    <3>2. CASE AddNode(i)
      <4>1. /\ busy[i] \in Events /\ tree'[i] = Append(tree[i], busy[i])
            /\ pc'[i] = "persist" /\ queue'[i] = queue[i]
        BY <3>2 DEF AddNode, Goto, TypeOK, WorkersOK, Busy
      <4>2. AllBefore(tree[i], busy[i]) /\ AllAfter(queue[i], busy[i]) /\ Ordered(tree[i])
            /\ Ordered(queue[i]) /\ \A f \in Elements(queue[i]) : AllBefore(tree[i], f)
        BY <3>2 DEF AddNode, InOrder, LineOrdered
      <4>3. Ordered(tree'[i])
        BY <1>1, <4>1, <4>2, OrderedAppend
      <4>4. Elements(tree'[i]) = Elements(tree[i]) \cup {busy[i]}
        BY <1>1, <4>1, ElementsAppend
      <4>5. \A f \in Elements(queue[i]) : \A d \in Elements(tree'[i]) : Before(d, f)
        BY <4>2, <4>4 DEF AllBefore, AllAfter
      <4>6. Ordered(queue'[i]) /\ \A f \in Elements(queue'[i]) : \A d \in Elements(tree'[i]) : Before(d, f)
        BY <4>1, <4>2, <4>5
      <4> QED BY <4>1, <4>3, <4>6 DEF LineOrdered, AllBefore, Elements, Ordered
    <3>3. CASE ~(Receive(i) \/ AddNode(i))
      <4>1. /\ UNCHANGED <<tree, queue>>
            /\ pc'[i] \in {"append", "add"} =>
                 pc[i] \in {"append", "add"} /\ busy'[i] = busy[i]
        BY <1>4, <3>3 DEF Worker, Process, AppendEvent, UpsertNode, Collect,
         PersistMetrics, SnapshotTick, IdleTick, SnapshotSession, SaveSnapshot,
         SaveNodes, SaveMetrics, Delete, Goto, TypeOK, WorkersOK
      <4> QED BY <4>1 DEF InOrder, LineOrdered, Elements, AllBefore, AllAfter, Ordered
    <3> QED BY <3>1, <3>2, <3>3
  <2> QED BY <2>2, <2>3, <2>4 DEF InOrder, Ordered
<1>5. CASE GoIdle
  BY <1>2, <1>5 DEF GoIdle, storeVars
<1>6. CASE Crash
  <2>1. /\ \A i \in Incarnations : /\ tree'[i] = <<>> /\ queue'[i] = <<>>
                                   /\ pc'[i] \notin {"append", "add"}
        /\ snapshot' = snapshot
    BY <1>6 DEF Crash, storeVars
  <2> QED BY <1>e, <2>1, ElementsEmpty DEF InOrder, LineOrdered, Elements, Ordered
<1>7. CASE UNCHANGED vars
  BY <1>2, <1>7 DEF vars, workerVars, storeVars
<1> QED BY <1>3, <1>4, <1>5, <1>6, <1>7 DEF Next

(* The events of one client have their turns in the order the client sent    *)
(* them, through full channels, idle shutdowns that overlap re-creations,    *)
(* crashes and restores.                                                     *)
THEOREM ClientsStayInOrder == Spec => []ClientOrder
<1> DEFINE Inv == TypeOK /\ OneWorker /\ SentFirst /\ Births /\ InOrder
<1>1. Init => Inv
  <2> SUFFICES ASSUME Init PROVE Inv
    OBVIOUS
  <2>1. /\ snapshot = <<>> /\ created = 0 /\ current = 0
        /\ \A i \in Incarnations : /\ tree[i] = <<>> /\ queue[i] = <<>> /\ busy[i] = None
                                   /\ pc[i] = "none"
        /\ \A c \in Clients : handle[c] = 0
    BY DEF Init, NoSession
  <2>2. SentFirst /\ InOrder
    BY <2>1, ElementsEmpty DEF SentFirst, InOrder, LineOrdered, Ordered
  <2>3. Births
    BY <2>1, BoundsAssumption DEF Births, Incarnations
  <2> QED BY <2>2, <2>3, TypeInit, OneWorkerInit
<1>2. Inv /\ [Next]_vars => Inv'
  BY TypeNext, OneWorkerNext, SentFirstNext, BirthsNext, InOrderNext
<1>3. Inv => ClientOrder
  <2> SUFFICES ASSUME Inv PROVE ClientOrder
    OBVIOUS
  <2>1. Ordered(History)
    BY DEF InOrder, LineOrdered, History, TypeOK, MapOK
  <2> QED BY <2>1 DEF Ordered, Before, ClientOrder
<1> QED BY <1>1, <1>2, <1>3, PTL DEF Spec

-----------------------------------------------------------------------------
(* Prefixes *)

(* IsPrefix, element by element. *)
LEMMA PrefixElements ==
  ASSUME NEW S, NEW s \in Seq(S), NEW t \in Seq(S)
  PROVE  IsPrefix(s, t) <=> Len(s) <= Len(t) /\ \A k \in 1 .. Len(s) : s[k] = t[k]
<1>1. ASSUME IsPrefix(s, t)
      PROVE  Len(s) <= Len(t) /\ \A k \in 1 .. Len(s) : s[k] = t[k]
  <2>1. Len(s) <= Len(t) /\ SubSeq(s, 1, Len(s)) = SubSeq(t, 1, Len(s))
    BY <1>1 DEF IsPrefix
  <2>2. ASSUME NEW k \in 1 .. Len(s) PROVE s[k] = t[k]
    <3>1. SubSeq(s, 1, Len(s))[k] = s[k] /\ SubSeq(t, 1, Len(s))[k] = t[k]
      BY <2>1
    <3> QED BY <2>1, <3>1
  <2> QED BY <2>1, <2>2
<1>2. ASSUME Len(s) <= Len(t), \A k \in 1 .. Len(s) : s[k] = t[k]
      PROVE  IsPrefix(s, t)
  <2>1. SubSeq(s, 1, Len(s)) = SubSeq(t, 1, Len(s))
    BY <1>2
  <2> QED BY <1>2, <2>1 DEF IsPrefix
<1> QED BY <1>1, <1>2

(* The order of prefixes. *)
LEMMA PrefixOrder ==
  ASSUME NEW S, NEW s \in Seq(S), NEW t \in Seq(S), NEW u \in Seq(S)
  PROVE  /\ IsPrefix(<<>>, s) /\ IsPrefix(s, s)
         /\ IsPrefix(s, t) /\ IsPrefix(t, u) => IsPrefix(s, u)
<1>1. <<>> \in Seq(S) /\ Len(<<>>) = 0 /\ Len(s) \in Nat /\ Len(t) \in Nat /\ Len(u) \in Nat
  OBVIOUS
<1>2. IsPrefix(<<>>, s)
  <2>1. Len(<<>>) <= Len(s) /\ \A k \in 1 .. Len(<<>>) : <<>>[k] = s[k]
    BY <1>1
  <2> QED BY <1>1, <2>1, PrefixElements
<1>3. IsPrefix(s, s)
  BY <1>1, PrefixElements
<1>4. ASSUME IsPrefix(s, t), IsPrefix(t, u) PROVE IsPrefix(s, u)
  <2>1. Len(s) <= Len(t) /\ \A k \in 1 .. Len(s) : s[k] = t[k]
    BY <1>4, PrefixElements
  <2>2. Len(t) <= Len(u) /\ \A k \in 1 .. Len(t) : t[k] = u[k]
    BY <1>4, PrefixElements
  <2>3. Len(s) <= Len(u) /\ \A k \in 1 .. Len(s) : s[k] = u[k]
    BY <1>1, <2>1, <2>2
  <2> QED BY <2>3, PrefixElements
<1> QED BY <1>2, <1>3, <1>4

(* A turn more. *)
LEMMA PrefixAppend ==
  ASSUME NEW S, NEW s \in Seq(S), NEW e \in S
  PROVE  IsPrefix(s, Append(s, e))
<1>1. Append(s, e) \in Seq(S) /\ Len(s) <= Len(Append(s, e))
      /\ \A k \in 1 .. Len(s) : s[k] = Append(s, e)[k]
  OBVIOUS
<1> QED BY <1>1, PrefixElements

-----------------------------------------------------------------------------
(* Run and the session *)

Base == TypeOK /\ OneWorker /\ SavedWhole

(* Every step of the gateway is one of the session, or leaves it alone. *)
LEMMA RunSteps == [RunNext]_allVars => [Next]_vars
BY DEF RunNext, allVars, Others, CompileLookup, CompileRead, Ask, CrashAll, Next, Handler

(* Reading the session between the events of Run adds nothing to what        *)
(* SessionManager describes, whose theorems hold of it.                      *)
THEOREM RunKeepsTheSession == RunSpec => Spec
<1>1. RunInit => Init
  BY DEF RunInit
<1> QED BY <1>1, RunSteps, PTL DEF RunSpec, Spec

LEMMA BaseInit == RunInit => Base
BY TypeInit, OneWorkerInit DEF RunInit, Base, Init, SavedWhole

LEMMA BaseNext == Base /\ [RunNext]_allVars => Base'
BY RunSteps, TypeNext, OneWorkerNext, SavedWholeNext DEF Base

(* What the composition adds to the types. *)
RunTypes ==
  /\ stage \in [Clients -> {"lookup", "read", "ask"}]
  /\ reading \in [Clients -> {NoSession} \cup Incarnations]
  /\ \A c \in Clients : stage[c] = "read" => reading[c] # NoSession
  /\ prompt \in [Clients -> Seq(Events)]
  /\ answers \subseteq [answer : Events, prompt : Seq(Events)]

LEMMA HistoryType == Base => History \in Seq(Events)
BY DEF Base, TypeOK, MapOK, WorkersOK, StoreOK, History

(* What a model answers with is an event. *)
LEMMA AnswerType ==
  ASSUME Base, NEW c \in Clients, Generate(c), at'[c] # "ready"
  PROVE  /\ sent' = [sent EXCEPT ![c] = sent[c] + 1] /\ sent'[c] = sent[c] + 1
         /\ <<c, sent'[c]>> \in Events
         /\ at'[c] = "enqueue" /\ \A d \in Clients \ {c} : at'[d] = at[d]
<1>1. at' = [at EXCEPT ![c] = "enqueue"] /\ sent' = [sent EXCEPT ![c] = sent[c] + 1]
      /\ sent[c] < MaxEvents
  BY DEF Generate, Base, TypeOK, HandlersOK
<1>2. sent[c] \in 0 .. MaxEvents /\ sent'[c] = sent[c] + 1
  BY <1>1 DEF Base, TypeOK, HandlersOK
<1>3. sent'[c] \in 1 .. MaxEvents
  BY <1>1, <1>2, BoundsAssumption
<1> QED BY <1>1, <1>2, <1>3 DEF Events, Base, TypeOK, HandlersOK

LEMMA RunTypesInit == RunInit => RunTypes
BY DEF RunInit, RunTypes

LEMMA RunTypesNext == Base /\ RunTypes /\ [RunNext]_allVars => RunTypes'
<1> SUFFICES ASSUME Base, RunTypes, [RunNext]_allVars PROVE RunTypes'
  OBVIOUS
<1>1. CASE UNCHANGED runVars
  BY <1>1 DEF runVars, RunTypes
<1>2. ASSUME NEW c \in Clients, CompileLookup(c) PROVE RunTypes'
  BY <1>2 DEF CompileLookup, RunTypes, Base, TypeOK, MapOK
<1>3. ASSUME NEW c \in Clients, CompileRead(c) PROVE RunTypes'
  <2>1. tree[reading[c]] \in Seq(Events)
    BY <1>3 DEF CompileRead, RunTypes, Base, TypeOK, WorkersOK
  <2> QED BY <1>3, <2>1 DEF CompileRead, RunTypes
<1>4. ASSUME NEW c \in Clients, Ask(c) PROVE RunTypes'
  <2>1. answers' \subseteq [answer : Events, prompt : Seq(Events)]
    <3>1. CASE at'[c] = "ready"
      BY <1>4, <3>1 DEF Ask, RunTypes
    <3>2. CASE at'[c] # "ready"
      <4>1. <<c, sent'[c]>> \in Events /\ prompt[c] \in Seq(Events)
        BY <1>4, <3>2, AnswerType DEF Ask, RunTypes
      <4>2. [answer |-> <<c, sent'[c]>>, prompt |-> prompt[c]]
              \in [answer : Events, prompt : Seq(Events)]
        BY <4>1
      <4>3. answers' = answers \cup {[answer |-> <<c, sent'[c]>>, prompt |-> prompt[c]]}
        BY <1>4, <3>2 DEF Ask
      <4> QED BY <4>2, <4>3 DEF RunTypes
    <3> QED BY <3>1, <3>2
  <2> QED BY <1>4, <2>1 DEF Ask, Forgotten, RunTypes
<1>5. CASE CrashAll
  BY <1>5 DEF CrashAll, RunTypes
<1> QED BY <1>1, <1>2, <1>3, <1>4, <1>5 DEF RunNext, allVars, runVars

-----------------------------------------------------------------------------
(* Prompts are past *)

(* As long as the store did not fail, all trees there are, also those of     *)
(* sessions that were shut down while somebody reads them, are beginnings of *)
(* one history; a crash leaves none of them.                                 *)
TreesArePast ==
  failures = 0 => \A i \in Incarnations : IsPrefix(tree[i], History)

(* What a step without a crash and without a failure of the store does to    *)
(* the trees and the history: they grow.                                     *)
LEMMA CalmStep ==
  ASSUME Base, TreesArePast, [Next]_vars, crashes' = crashes, failures' = 0, Base'
  PROVE  /\ failures = 0
         /\ IsPrefix(History, History')
         /\ \A i \in Incarnations : IsPrefix(tree[i], tree'[i])
         /\ \A i \in Incarnations : IsPrefix(tree'[i], History')
<1> DEFINE Goal == /\ failures = 0
                   /\ IsPrefix(History, History')
                   /\ \A i \in Incarnations : IsPrefix(tree[i], tree'[i])
                   /\ \A i \in Incarnations : IsPrefix(tree'[i], History')
<1>0. History \in Seq(Events) /\ History' \in Seq(Events)
  BY DEF Base, TypeOK, MapOK, WorkersOK, StoreOK, History
<1>1. /\ History \in Seq(Events) /\ History' \in Seq(Events)
      /\ \A i \in Incarnations : tree[i] \in Seq(Events) /\ tree'[i] \in Seq(Events)
      /\ crashes \in Nat /\ failures \in Nat
  BY <1>0 DEF Base, TypeOK, WorkersOK, StoreOK
<1>2. ASSUME UNCHANGED <<History, tree>>, failures = 0 PROVE Goal
  <2>1. IsPrefix(History, History)
    BY <1>1, PrefixOrder
  <2>2. \A i \in Incarnations : IsPrefix(tree[i], tree[i])
    BY <1>1, PrefixOrder
  <2>3. \A i \in Incarnations : tree'[i] = tree[i] /\ IsPrefix(tree[i], History)
    BY <1>2 DEF TreesArePast
  <2> QED BY <1>2, <2>1, <2>2, <2>3
<1>3. ASSUME NEW c \in Clients, Handler(c) PROVE Goal
  <2>1. failures = 0 /\ UNCHANGED snapshot
    BY <1>1, <1>3 DEF Handler, Call, GetOrCreate, NewSession, Succeeds, Fails,
                EnqueueLookup, EnqueueSend, Generate, storeVars
  <2>2. CASE GetOrCreate(c) /\ current = NoSession
    <3>1. PICK i \in Incarnations : i = created + 1
      BY <2>2, BoundsAssumption DEF GetOrCreate, NewSession, Base, TypeOK, MapOK, Incarnations
    <3>2. tree' = [tree EXCEPT ![i] = snapshot] /\ current' = i
      BY <2>1, <2>2, <3>1 DEF GetOrCreate, NewSession, Fails, Base, TypeOK, StoreOK
    <3>3. History' = History /\ History = snapshot
      BY <2>1, <2>2, <3>2 DEF History, Base, TypeOK, WorkersOK, Incarnations, NoSession
    <3>4. \A j \in Incarnations : tree'[j] = tree[j] \/ tree'[j] = History
      BY <3>2, <3>3 DEF Base, TypeOK, WorkersOK
    <3>5. \A j \in Incarnations : IsPrefix(tree[j], History)
      BY <2>1 DEF TreesArePast
    <3>6. IsPrefix(History, History) /\ \A j \in Incarnations : IsPrefix(tree[j], tree[j])
      BY <1>1, PrefixOrder
    <3> QED BY <2>1, <3>3, <3>4, <3>5, <3>6
  <2>3. CASE ~(GetOrCreate(c) /\ current = NoSession)
    <3>1. UNCHANGED <<current, tree>>
      BY <1>3, <2>3 DEF Handler, Call, GetOrCreate, EnqueueLookup, EnqueueSend,
                        Generate, mapVars, workerVars
    <3> QED BY <1>2, <2>1, <3>1 DEF History
  <2> QED BY <2>2, <2>3
<1>4. ASSUME NEW i \in Incarnations, Worker(i) PROVE Goal
  <2>1. current = i /\ i # NoSession /\ History = tree[i]
    BY <1>4, WorkerIsCurrent DEF Base, Incarnations, NoSession
  <2>2. failures = 0
    BY <1>1, <1>4 DEF Worker, Receive, Process, AppendEvent, AddNode, UpsertNode, Collect,
         PersistMetrics, SnapshotTick, IdleTick, SnapshotSession, SaveSnapshot,
         SaveNodes, SaveMetrics, Delete, Succeeds, Fails
  <2>3. CASE AddNode(i)
    <3>1. busy[i] \in Events
      BY <2>3 DEF AddNode, Base, TypeOK, WorkersOK, Busy
    <3>2. History' = Append(tree[i], busy[i])
          /\ tree' = [tree EXCEPT ![i] = Append(tree[i], busy[i])]
      BY <2>1, <2>3 DEF AddNode, mapVars, History, Base, TypeOK, WorkersOK
    <3>3. IsPrefix(tree[i], Append(tree[i], busy[i]))
      BY <1>1, <3>1, PrefixAppend
    <3>4. \A j \in Incarnations : IsPrefix(tree[j], tree[j]) /\ IsPrefix(tree[j], History)
      BY <1>1, <2>2, PrefixOrder DEF TreesArePast
    <3>5. IsPrefix(History, History') /\ IsPrefix(History', History')
      BY <1>1, <2>1, <3>2, <3>3, PrefixOrder
    <3>6. \A j \in Incarnations : IsPrefix(tree[j], History')
      BY <1>1, <3>4, <3>5, PrefixOrder
    <3>7. \A j \in Incarnations : tree'[j] = tree[j] \/ (j = i /\ tree'[j] = History')
      BY <3>2 DEF Base, TypeOK, WorkersOK
    <3> QED BY <2>2, <3>4, <3>5, <3>6, <3>7
  <2>4. CASE Delete(i)
    <3>1. snapshot = tree[i]
      BY <2>2, <2>4 DEF Delete, Base, SavedWhole
    <3>2. UNCHANGED <<History, tree>>
      BY <2>1, <2>4, <3>1 DEF Delete, History, storeVars
    <3> QED BY <1>2, <2>2, <3>2
  <2>5. CASE ~(AddNode(i) \/ Delete(i))
    <3>1. UNCHANGED <<current, tree>>
      BY <1>4, <2>5 DEF Worker, Receive, Process, AppendEvent, UpsertNode, Collect,
         PersistMetrics, SnapshotTick, IdleTick, SnapshotSession, SaveSnapshot,
         SaveNodes, SaveMetrics, mapVars
    <3>2. UNCHANGED History
      BY <2>1, <3>1 DEF History
    <3> QED BY <1>2, <2>2, <3>1, <3>2
  <2> QED BY <2>3, <2>4, <2>5
<1>5. CASE GoIdle
  <2>1. UNCHANGED <<History, tree, failures>>
    BY <1>5 DEF GoIdle, mapVars, storeVars, History
  <2> QED BY <1>2, <2>1
<1>6. CASE UNCHANGED vars
  <2>1. UNCHANGED <<History, tree, failures>>
    BY <1>6 DEF vars, mapVars, workerVars, storeVars, History
  <2> QED BY <1>2, <2>1
<1>7. ~Crash
  BY <1>1 DEF Crash
<1> QED BY <1>3, <1>4, <1>5, <1>6, <1>7 DEF Next

(* A crash empties the trees. *)
LEMMA CrashStep ==
  ASSUME Base, Crash, Base'
  PROVE  /\ \A i \in Incarnations : tree'[i] = <<>> /\ queue'[i] = <<>> /\ busy'[i] = None
         /\ \A c \in Clients : at'[c] = "ready"
         /\ UNCHANGED <<failures, snapshot, sent>> /\ History' = snapshot
         /\ crashes' = crashes + 1 /\ crashes \in Nat
BY DEF Crash, storeVars, History, Base, TypeOK, StoreOK

LEMMA TreesArePastNext ==
  Base /\ TreesArePast /\ [Next]_vars /\ Base' => TreesArePast'
<1> SUFFICES ASSUME Base, TreesArePast, [Next]_vars, Base', failures' = 0
             PROVE  \A i \in Incarnations : IsPrefix(tree'[i], History')
  BY DEF TreesArePast, History
<1>1. CASE crashes' = crashes
  BY <1>1, CalmStep
<1>2. CASE Crash
  <2>1. \A i \in Incarnations : tree'[i] = <<>>
    BY <1>2, CrashStep
  <2>2. History' \in Seq(Events)
    BY HistoryType DEF Base, TypeOK, MapOK, WorkersOK, StoreOK, History
  <2> QED BY <2>1, <2>2, PrefixOrder
<1>3. crashes' = crashes \/ Crash
  BY DEF Next, Handler, Call, GetOrCreate, EnqueueLookup, EnqueueSend, Generate,
         Worker, Receive, Process, AppendEvent, AddNode, UpsertNode, Collect,
         PersistMetrics, SnapshotTick, IdleTick, SnapshotSession, SaveSnapshot,
         SaveNodes, SaveMetrics, Delete, GoIdle, vars
<1> QED BY <1>1, <1>2, <1>3

(* Only a crash counts as one. *)
LEMMA NoCrash ==
  ASSUME [RunNext]_allVars, ~CrashAll
  PROVE  crashes' = crashes
BY DEF RunNext, allVars, Others, CompileLookup, CompileRead, Ask,
       Call, GetOrCreate, EnqueueLookup, EnqueueSend, Generate,
       Worker, Receive, Process, AppendEvent, AddNode, UpsertNode, Collect,
       PersistMetrics, SnapshotTick, IdleTick, SnapshotSession, SaveSnapshot,
       SaveNodes, SaveMetrics, Delete, GoIdle, vars

(* What a handler has read from a tree is past until a crash ends it. *)
PromptsBegin ==
  failures = 0 => \A c \in Clients : IsPrefix(prompt[c], History)

(* Prompts grow out of the trees, answers are based on prompts, and while    *)
(* nothing crashes the history they begin only grows.                        *)
LEMMA PromptsNext ==
  /\ Base /\ RunTypes /\ TreesArePast /\ PromptsBegin /\ PromptsArePast
  /\ [RunNext]_allVars /\ Base'
  => (PromptsBegin /\ PromptsArePast)'
<1> SUFFICES ASSUME Base, RunTypes, TreesArePast, PromptsBegin, PromptsArePast,
                    [RunNext]_allVars, Base', failures' = 0
             PROVE  /\ \A c \in Clients : IsPrefix(prompt'[c], History')
                    /\ crashes' = 0 => \A a \in answers' : IsPrefix(a.prompt, History')
  BY DEF PromptsBegin, PromptsArePast, History
<1>1. History \in Seq(Events) /\ History' \in Seq(Events)
  BY DEF Base, TypeOK, MapOK, WorkersOK, StoreOK, History
<1>2. CASE CrashAll
  <2>1. \A c \in Clients : prompt'[c] = <<>>
    BY <1>2 DEF CrashAll
  <2>2. crashes' # 0
    BY <1>2, CrashStep DEF CrashAll
  <2> QED BY <1>1, <2>1, <2>2, PrefixOrder
<1>3. CASE ~CrashAll
  <2>1. crashes' = crashes
    BY <1>3, NoCrash
  <2>2. failures = 0 /\ IsPrefix(History, History')
    BY <2>1, RunSteps, CalmStep
  <2>3. \A c \in Clients : prompt'[c] \in Seq(Events) /\ IsPrefix(prompt'[c], History)
    <3>1. \A c \in Clients : prompt[c] \in Seq(Events) /\ IsPrefix(prompt[c], History)
      BY <2>2 DEF RunTypes, PromptsBegin
    <3>2. <<>> \in Seq(Events) /\ IsPrefix(<<>>, History)
      BY <1>1, PrefixOrder
    <3>3. \A i \in Incarnations : tree[i] \in Seq(Events) /\ IsPrefix(tree[i], History)
      BY <2>2 DEF TreesArePast, Base, TypeOK, WorkersOK
    <3>4. CASE UNCHANGED prompt
      BY <3>1, <3>4
    <3>5. ASSUME NEW c \in Clients, CompileRead(c)
          PROVE  \A d \in Clients : prompt'[d] \in Seq(Events) /\ IsPrefix(prompt'[d], History)
      <4>1. reading[c] \in Incarnations
        BY <3>5 DEF CompileRead, RunTypes
      <4>2. \A d \in Clients : prompt'[d] = prompt[d] \/ prompt'[d] = tree[reading[c]]
        BY <3>5 DEF CompileRead, RunTypes
      <4> QED BY <3>1, <3>3, <4>1, <4>2
    <3>6. ASSUME NEW c \in Clients, Ask(c)
          PROVE  \A d \in Clients : prompt'[d] \in Seq(Events) /\ IsPrefix(prompt'[d], History)
      <4>1. \A d \in Clients : prompt'[d] = prompt[d] \/ prompt'[d] = <<>>
        BY <3>6 DEF Ask, Forgotten, RunTypes
      <4> QED BY <3>1, <3>2, <4>1
    <3> QED BY <1>3, <3>4, <3>5, <3>6 DEF RunNext, allVars, runVars, CompileLookup
  <2>4. \A c \in Clients : IsPrefix(prompt'[c], History')
    BY <1>1, <2>2, <2>3, PrefixOrder
  <2>5. ASSUME crashes' = 0, NEW a \in answers' PROVE IsPrefix(a.prompt, History')
    <3>1. CASE a \in answers
      <4>1. IsPrefix(a.prompt, History) /\ a.prompt \in Seq(Events)
        BY <2>1, <2>2, <2>5, <3>1 DEF PromptsArePast, RunTypes
      <4> QED BY <1>1, <2>2, <4>1, PrefixOrder
    <3>2. CASE a \notin answers
      <4>1. PICK c \in Clients : a.prompt = prompt[c]
        <5>1. PICK c \in Clients : Ask(c)
          BY <1>3, <2>5, <3>2 DEF RunNext, allVars, runVars, CompileLookup, CompileRead
        <5>2. a = [answer |-> <<c, sent'[c]>>, prompt |-> prompt[c]]
          BY <2>5, <3>2, <5>1 DEF Ask
        <5> QED BY <5>2
      <4>2. IsPrefix(prompt[c], History) /\ prompt[c] \in Seq(Events)
        BY <2>2, <4>1 DEF PromptsBegin, RunTypes
      <4> QED BY <1>1, <2>2, <4>1, <4>2, PrefixOrder
    <3> QED BY <3>1, <3>2
  <2> QED BY <2>4, <2>5
<1> QED BY <1>2, <1>3

PastInv == Base /\ RunTypes /\ TreesArePast /\ PromptsBegin /\ PromptsArePast

LEMMA PastInit == RunInit => PastInv
<1> SUFFICES ASSUME RunInit PROVE PastInv
  OBVIOUS
<1>1. Base /\ RunTypes
  BY BaseInit, RunTypesInit
<1>2. /\ History = <<>> /\ answers = {}
      /\ \A i \in Incarnations : tree[i] = <<>>
      /\ \A c \in Clients : prompt[c] = <<>>
  BY DEF RunInit, Init, History
<1>3. IsPrefix(<<>>, <<>>)
  <2>1. <<>> \in Seq(Events)
    OBVIOUS
  <2> QED BY <2>1, PrefixOrder
<1> QED BY <1>1, <1>2, <1>3 DEF PastInv, TreesArePast, PromptsBegin, PromptsArePast

LEMMA PastNext == PastInv /\ [RunNext]_allVars => PastInv'
<1> SUFFICES ASSUME PastInv, [RunNext]_allVars PROVE PastInv'
  OBVIOUS
<1>1. Base' /\ RunTypes'
  BY BaseNext, RunTypesNext DEF PastInv
<1>2. TreesArePast'
  BY <1>1, RunSteps, TreesArePastNext DEF PastInv
<1>3. (PromptsBegin /\ PromptsArePast)'
  BY <1>1, PromptsNext DEF PastInv
<1> QED BY <1>1, <1>2, <1>3 DEF PastInv

(* Unless the process crashed or the store failed, every prompt Run compiles *)
(* is how the one history of the session still begins, whichever incarnation *)
(* of the session it was read from and however long ago.                     *)
THEOREM OneConversation == RunSpec => []PromptsArePast
<1>1. PastInv => PromptsArePast
  BY DEF PastInv
<1> QED BY <1>1, PastInit, PastNext, PTL DEF RunSpec

-----------------------------------------------------------------------------
(* Answers follow their prompts *)

(* No event is there before its client has sent it. *)
Numbered(e) == e[2] <= sent[e[1]]
EventsSent == SentFirst /\ \A a \in answers : Numbered(a.answer)

LEMMA EventsSentNext ==
  Base /\ RunTypes /\ EventsSent /\ [RunNext]_allVars /\ Base' => EventsSent'
<1> SUFFICES ASSUME Base, RunTypes, EventsSent, [RunNext]_allVars, Base'
             PROVE  EventsSent'
  OBVIOUS
<1>1. [Next]_vars
  BY RunSteps
<1>2. SentFirst'
  BY <1>1, SentFirstNext DEF Base, EventsSent
<1>3. \A c \in Clients : sent[c] \in Nat /\ sent'[c] \in Nat /\ sent'[c] >= sent[c]
  BY <1>1, SentGrows DEF Base, TypeOK, HandlersOK
<1>4. ASSUME NEW a \in answers' PROVE a.answer[2] <= sent'[a.answer[1]]
  <2>1. CASE a \in answers
    <3>1. a.answer \in Events /\ a.answer[2] <= sent[a.answer[1]]
      BY <2>1 DEF EventsSent, Numbered, RunTypes
    <3>2. a.answer[1] \in Clients /\ a.answer[2] \in Nat
      BY <3>1 DEF Events
    <3> QED BY <1>3, <3>1, <3>2
  <2>2. CASE a \notin answers
    <3>1. PICK c \in Clients : a = [answer |-> <<c, sent'[c]>>, prompt |-> prompt[c]]
      <4>1. PICK c \in Clients : Ask(c)
        BY <2>2 DEF RunNext, allVars, runVars, CompileLookup, CompileRead, CrashAll
      <4>2. a = [answer |-> <<c, sent'[c]>>, prompt |-> prompt[c]]
        BY <2>2, <4>1 DEF Ask
      <4> QED BY <4>2
    <3> QED BY <1>3, <3>1
  <2> QED BY <2>1, <2>2
<1> QED BY <1>2, <1>4 DEF EventsSent, Numbered

(* Where an answer is recorded it comes after what it was based on. *)
Behind(a, s) ==
  \A j \in DOMAIN s : s[j] = a.answer => IsPrefix(a.prompt, SubSeq(s, 1, j - 1))

Recorded(a) == Behind(a, snapshot) /\ \A i \in Incarnations : Behind(a, tree[i])

(* On its way there it has it before it already: with the worker... *)
Underway(a) ==
  \A i \in Incarnations :
    a.answer \in Elements(queue[i]) \/ a.answer = busy[i] => IsPrefix(a.prompt, tree[i])

(* ... or with the handler that is about to enqueue it. *)
Sending(a) ==
  \A c \in Clients : a.answer = <<c, sent[c]>> =>
    /\ at[c] \in {"missed", "enqueue"} => IsPrefix(a.prompt, History)
    /\ at[c] = "send" => IsPrefix(a.prompt, tree[handle[c]])

AnswersOK ==
  failures = 0 => \A a \in answers : Recorded(a) /\ Underway(a) /\ Sending(a)

LEMMA BehindAppend ==
  ASSUME NEW a, NEW s \in Seq(Events), NEW e \in Events, Behind(a, s),
         e = a.answer => IsPrefix(a.prompt, s)
  PROVE  Behind(a, Append(s, e))
<1> SUFFICES ASSUME NEW j \in DOMAIN Append(s, e), Append(s, e)[j] = a.answer
             PROVE  IsPrefix(a.prompt, SubSeq(Append(s, e), 1, j - 1))
  BY DEF Behind
<1>1. j \in 1 .. Len(s) + 1 /\ Len(s) \in Nat
  OBVIOUS
<1>2. SubSeq(Append(s, e), 1, j - 1) = SubSeq(s, 1, j - 1)
  BY <1>1
<1>3. CASE j <= Len(s)
  <2>1. j \in DOMAIN s /\ Append(s, e)[j] = s[j]
    BY <1>1, <1>3
  <2> QED BY <1>2, <2>1 DEF Behind
<1>4. CASE j = Len(s) + 1
  <2>1. Append(s, e)[j] = e /\ SubSeq(s, 1, j - 1) = s
    BY <1>1, <1>4
  <2> QED BY <1>2, <2>1
<1> QED BY <1>1, <1>3, <1>4

(* What a handler that answers leaves as it is. *)
LEMMA AskSession ==
  ASSUME NEW c \in Clients, Ask(c)
  PROVE  /\ UNCHANGED <<tree, queue, busy, snapshot, current, handle>>
         /\ History' = History
BY DEF Ask, Generate, mapVars, workerVars, storeVars, History

(* An answer that was given before this step stays behind its prompt. *)
LEMMA OldAnswer ==
  ASSUME Base, RunTypes, TreesArePast, EventsSent, [RunNext]_allVars, ~CrashAll, Base',
         failures' = 0, NEW a \in answers, Recorded(a), Underway(a), Sending(a)
  PROVE  Recorded(a)' /\ Underway(a)' /\ Sending(a)'
<1>1. [Next]_vars /\ crashes' = crashes
  BY RunSteps, NoCrash
<1>2. /\ failures = 0 /\ IsPrefix(History, History')
      /\ \A i \in Incarnations : IsPrefix(tree[i], tree'[i])
  BY <1>1, CalmStep
<1>3. /\ History \in Seq(Events) /\ History' \in Seq(Events)
      /\ \A i \in Incarnations : tree[i] \in Seq(Events) /\ tree'[i] \in Seq(Events)
  BY DEF Base, TypeOK, MapOK, WorkersOK, StoreOK, History
<1>4. a.prompt \in Seq(Events) /\ a.answer \in Events /\ a.answer # None
  BY EventsAreEvents DEF RunTypes
<1>5. ~Crash
  BY <1>1 DEF Crash, Base, TypeOK, StoreOK
<1>6. Recorded(a)'
  <2>1. ASSUME NEW i \in Incarnations PROVE Behind(a, tree'[i])
    <3>1. CASE tree'[i] = tree[i]
      BY <3>1 DEF Recorded
    <3>2. CASE AddNode(i)
      <4>1. busy[i] \in Events /\ tree'[i] = Append(tree[i], busy[i])
        BY <3>2 DEF AddNode, Base, TypeOK, WorkersOK, Busy
      <4>2. busy[i] = a.answer => IsPrefix(a.prompt, tree[i])
        BY DEF Underway
      <4> QED BY <1>3, <4>1, <4>2, BehindAppend DEF Recorded
    <3>3. ASSUME NEW c \in Clients, GetOrCreate(c), tree'[i] # tree[i]
          PROVE  Behind(a, tree'[i])
      <4>1. tree'[i] = snapshot
        BY <1>2, <3>3 DEF GetOrCreate, NewSession, Fails, Base, TypeOK, WorkersOK
      <4> QED BY <4>1 DEF Recorded
    <3>4. CASE ~AddNode(i) /\ \A c \in Clients : ~GetOrCreate(c)
      <4>1. ASSUME NEW j \in Incarnations, AddNode(j) PROVE tree'[i] = tree[i]
        BY <3>4, <4>1 DEF AddNode, Base, TypeOK, WorkersOK
      <4>2. ASSUME \A j \in Incarnations : ~AddNode(j) PROVE UNCHANGED tree
        BY <1>1, <1>5, <3>4, <4>2 DEF Next, Handler, Call, EnqueueLookup, EnqueueSend,
           Generate, Worker, Receive, Process, AppendEvent, UpsertNode, Collect,
           PersistMetrics, SnapshotTick, IdleTick, SnapshotSession, SaveSnapshot,
           SaveNodes, SaveMetrics, Delete, GoIdle, vars, workerVars
      <4> QED BY <3>1, <4>1, <4>2
    <3> QED BY <3>1, <3>2, <3>3, <3>4
  <2>2. Behind(a, snapshot')
    <3>1. snapshot' = snapshot \/ \E j \in Incarnations : snapshot' = tree[j]
      BY <1>1, <1>5 DEF Next, Handler, Call, GetOrCreate, NewSession, EnqueueLookup,
         EnqueueSend, Generate, Worker, Receive, Process, AppendEvent, AddNode,
         UpsertNode, Collect, PersistMetrics, SnapshotTick, IdleTick, SnapshotSession,
         SaveSnapshot, SaveNodes, SaveMetrics, Delete, GoIdle, vars, storeVars
    <3> QED BY <3>1 DEF Recorded
  <2> QED BY <2>1, <2>2 DEF Recorded, Behind
<1>7. Underway(a)'
  <2> SUFFICES ASSUME NEW i \in Incarnations,
                      a.answer \in Elements(queue'[i]) \/ a.answer = busy'[i]
               PROVE  IsPrefix(a.prompt, tree'[i])
    BY DEF Underway, Elements
  <2>1. IsPrefix(a.prompt, tree[i])
    <3>1. CASE a.answer \in Elements(queue[i]) \/ a.answer = busy[i]
      BY <3>1 DEF Underway
    <3>2. CASE a.answer = busy'[i]
      BY <1>1, <1>4, <3>2, WhereFrom DEF Underway, Base
    <3>3. CASE a.answer \in Elements(queue'[i]) /\ a.answer \notin Elements(queue[i])
      <4>1. PICK c \in Clients : EnqueueSend(c) /\ handle[c] = i /\ a.answer = <<c, sent[c]>>
        BY <1>1, <3>3, WhereFrom DEF Base
      <4>2. at[c] = "send"
        BY <4>1 DEF EnqueueSend
      <4> QED BY <4>1, <4>2 DEF Sending
    <3> QED BY <3>1, <3>2, <3>3
  <2> QED BY <1>2, <1>3, <1>4, <2>1, PrefixOrder
<1>8. Sending(a)'
  <2> SUFFICES ASSUME NEW c \in Clients, a.answer = <<c, sent'[c]>>
               PROVE  /\ at'[c] \in {"missed", "enqueue"} => IsPrefix(a.prompt, History')
                      /\ at'[c] = "send" => IsPrefix(a.prompt, tree'[handle'[c]])
    BY DEF Sending, History
  <2>1. sent'[c] = sent[c]
    <3>1. a.answer[1] = c /\ a.answer[2] = sent'[c] /\ sent'[c] <= sent[c]
      BY DEF EventsSent, Numbered
    <3>2. sent'[c] >= sent[c] /\ sent[c] \in Nat /\ sent'[c] \in Nat
      BY <1>1, SentGrows DEF Base, TypeOK, HandlersOK
    <3> QED BY <3>1, <3>2
  <2>2. ASSUME IsPrefix(a.prompt, History) PROVE IsPrefix(a.prompt, History')
    BY <1>2, <1>3, <1>4, <2>2, PrefixOrder
  <2>3. ASSUME NEW i \in Incarnations, IsPrefix(a.prompt, tree[i])
        PROVE  IsPrefix(a.prompt, tree'[i])
    BY <1>2, <1>3, <1>4, <2>3, PrefixOrder
  <2>4. ~\E k \in {"capture", "run"} : Call(c, k)
    BY <2>1 DEF Call, Base, TypeOK, HandlersOK
  <2>5. ASSUME Generate(c), at'[c] # "ready" PROVE FALSE
    <3>1. sent'[c] = sent[c] + 1
      BY <2>5, AnswerType
    <3>2. sent[c] \in Nat
      BY DEF Base, TypeOK, HandlersOK
    <3> QED BY <2>1, <3>1, <3>2
  <2>6. CASE EnqueueLookup(c)
    <3>1. at[c] = "enqueue" /\ at'[c] \notin {"missed", "enqueue"}
          /\ (at'[c] = "send" => /\ handle'[c] = current /\ current \in Incarnations
                                 /\ History = tree[current])
      BY <2>6 DEF EnqueueLookup, Return, History, Base, TypeOK, MapOK, HandlersOK
    <3>2. IsPrefix(a.prompt, History)
      BY <2>1, <3>1 DEF Sending
    <3> QED BY <2>3, <3>1, <3>2
  <2>7. CASE EnqueueSend(c)
    BY <2>7 DEF EnqueueSend, Return, Base, TypeOK, HandlersOK
  <2>8. CASE GetOrCreate(c)
    <3>1. at[c] = "missed" /\ at'[c] = "enqueue"
      BY <2>8 DEF GetOrCreate, Base, TypeOK, HandlersOK
    <3> QED BY <2>1, <2>2, <3>1 DEF Sending
  <2>9. CASE at'[c] = at[c] /\ handle'[c] = handle[c]
    <3>1. at[c] = "send" => handle[c] \in Incarnations
      BY DEF Base, TypeOK, HandlersOK
    <3> QED BY <2>1, <2>2, <2>3, <2>9, <3>1 DEF Sending
  <2>10. CASE at'[c] = "ready"
    BY <2>10
  <2>11. \/ EnqueueLookup(c) \/ EnqueueSend(c) \/ GetOrCreate(c) \/ Generate(c)
         \/ at'[c] = at[c] /\ handle'[c] = handle[c]
    <3>1. CASE Handler(c)
      BY <2>4, <3>1 DEF Handler
    <3>2. ASSUME NEW d \in Clients, Handler(d), d # c
          PROVE  at'[c] = at[c] /\ handle'[c] = handle[c]
      BY <3>2 DEF Handler, Call, GetOrCreate, EnqueueLookup, EnqueueSend, Generate,
                  Return, Base, TypeOK, HandlersOK
    <3>3. CASE \A d \in Clients : ~Handler(d)
      BY <1>1, <1>5, <3>3 DEF Next, Worker, Receive, Process, AppendEvent, AddNode,
         UpsertNode, Collect, PersistMetrics, SnapshotTick, IdleTick, SnapshotSession,
         SaveSnapshot, SaveNodes, SaveMetrics, Delete, GoIdle, vars, clientVars
    <3> QED BY <3>1, <3>2, <3>3
  <2> QED BY <2>5, <2>6, <2>7, <2>8, <2>9, <2>10, <2>11
<1> QED BY <1>6, <1>7, <1>8

(* An answer that is given in this step was not there before, and its prompt *)
(* is the past of the session.                                               *)
LEMMA NewAnswer ==
  ASSUME Base, RunTypes, PromptsBegin, EventsSent, failures' = 0, failures = 0,
         NEW c \in Clients, Ask(c), NEW a \in answers', a \notin answers
  PROVE  Recorded(a)' /\ Underway(a)' /\ Sending(a)'
<1>1. a = [answer |-> <<c, sent'[c]>>, prompt |-> prompt[c]] /\ at'[c] # "ready"
  BY DEF Ask
<1>2. a.answer = <<c, sent'[c]>> /\ a.prompt = prompt[c]
  BY <1>1
<1>3. /\ sent'[c] = sent[c] + 1 /\ sent[c] \in Nat /\ at'[c] = "enqueue"
  BY <1>1, AnswerType DEF Ask, Base, TypeOK, HandlersOK
<1>4. ~Enqueued(a.answer)
  BY <1>2, <1>3 DEF Enqueued, Latest
<1>5. UNCHANGED <<tree, queue, busy, snapshot>> /\ History' = History
  BY AskSession
<1>6. Recorded(a)'
  <2>1. a.answer \notin Elements(snapshot)
        /\ \A i \in Incarnations : a.answer \notin Elements(tree[i])
    BY <1>4 DEF EventsSent, SentFirst
  <2>2. Behind(a, snapshot) /\ \A i \in Incarnations : Behind(a, tree[i])
    BY <2>1 DEF Behind, Elements
  <2> QED BY <1>5, <2>2 DEF Recorded, Behind
<1>7. Underway(a)'
  <2>1. \A i \in Incarnations : a.answer \notin Elements(queue[i]) /\ a.answer # busy[i]
    <3>1. a.answer # None
      BY <1>2 DEF None
    <3> QED BY <1>4, <3>1 DEF EventsSent, SentFirst
  <2> QED BY <1>5, <2>1 DEF Underway, Elements
<1>8. Sending(a)'
  <2>1. IsPrefix(a.prompt, History')
    BY <1>2, <1>5 DEF PromptsBegin
  <2>2. ASSUME NEW d \in Clients, a.answer = <<d, sent'[d]>> PROVE d = c
    BY <1>2, <2>2
  <2> QED BY <1>3, <2>1, <2>2 DEF Sending, History
<1> QED BY <1>6, <1>7, <1>8

LEMMA AnswersNext ==
  /\ Base /\ RunTypes /\ TreesArePast /\ PromptsBegin /\ EventsSent /\ AnswersOK
  /\ [RunNext]_allVars /\ Base'
  => AnswersOK'
<1> SUFFICES ASSUME Base, RunTypes, TreesArePast, PromptsBegin, EventsSent, AnswersOK,
                    [RunNext]_allVars, Base', failures' = 0, NEW a \in answers'
             PROVE  Recorded(a)' /\ Underway(a)' /\ Sending(a)'
  BY DEF AnswersOK, Recorded, Underway, Sending, Behind, Elements, History
<1>1. CASE CrashAll
  <2>1. Crash /\ answers' = answers
    BY <1>1 DEF CrashAll
  <2>2. /\ \A i \in Incarnations : tree'[i] = <<>> /\ queue'[i] = <<>> /\ busy'[i] = None
        /\ \A c \in Clients : at'[c] = "ready"
        /\ snapshot' = snapshot /\ failures = 0
    BY <2>1, CrashStep
  <2>3. a.answer # None /\ Behind(a, snapshot)
    BY <2>1, <2>2, EventsAreEvents DEF RunTypes, AnswersOK, Recorded
  <2>4. Recorded(a)'
    BY <2>2, <2>3 DEF Recorded, Behind
  <2>5. Underway(a)'
    BY <2>2, <2>3, ElementsEmpty DEF Underway, Elements
  <2>6. Sending(a)'
    BY <2>2 DEF Sending
  <2> QED BY <2>4, <2>5, <2>6
<1>2. CASE ~CrashAll
  <2>1. failures = 0
    BY <1>2, NoCrash, RunSteps, CalmStep
  <2>2. CASE a \in answers
    BY <1>2, <2>1, <2>2, OldAnswer DEF AnswersOK
  <2>3. CASE a \notin answers
    <3>1. PICK c \in Clients : Ask(c)
      BY <1>2, <2>3 DEF RunNext, allVars, runVars, CompileLookup, CompileRead
    <3> QED BY <2>1, <2>3, <3>1, NewAnswer
  <2> QED BY <2>2, <2>3
<1> QED BY <1>1, <1>2

AnswerInv == PastInv /\ EventsSent /\ AnswersOK

LEMMA AnswerInit == RunInit => AnswerInv
<1> SUFFICES ASSUME RunInit PROVE AnswerInv
  OBVIOUS
<1>1. /\ answers = {} /\ snapshot = <<>>
      /\ \A i \in Incarnations : tree[i] = <<>> /\ queue[i] = <<>> /\ busy[i] = None
  BY DEF RunInit, Init
<1> QED BY <1>1, PastInit, ElementsEmpty DEF AnswerInv, EventsSent, SentFirst, AnswersOK

LEMMA AnswerNext == AnswerInv /\ [RunNext]_allVars => AnswerInv'
<1> SUFFICES ASSUME AnswerInv, [RunNext]_allVars PROVE AnswerInv'
  OBVIOUS
<1>1. PastInv'
  BY PastNext DEF AnswerInv
<1>2. EventsSent'
  BY <1>1, EventsSentNext DEF AnswerInv, PastInv
<1>3. AnswersOK'
  BY <1>1, AnswersNext DEF AnswerInv, PastInv
<1> QED BY <1>1, <1>2, <1>3 DEF AnswerInv

(* Unless the store failed, an answer is never in the history without all    *)
(* the turns of the prompt it was made from before it, in their order,       *)
(* through crashes, idle shutdowns and re-creations of the session.          *)
THEOREM AnswersComeAfter == RunSpec => []AnswersFollowTheirPrompt
<1>1. AnswerInv => AnswersFollowTheirPrompt
  <2> SUFFICES ASSUME AnswerInv, failures = 0, NEW a \in answers,
                      NEW j \in DOMAIN History, History[j] = a.answer
               PROVE  IsPrefix(a.prompt, SubSeq(History, 1, j - 1))
    BY DEF AnswersFollowTheirPrompt
  <2>1. Behind(a, History)
    BY DEF AnswerInv, AnswersOK, Recorded, PastInv, Base, TypeOK, MapOK, History
  <2> QED BY <2>1 DEF Behind
<1> QED BY <1>1, AnswerInit, AnswerNext, PTL DEF RunSpec
=============================================================================
