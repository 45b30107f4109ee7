----------------------------- MODULE DemoEngine -----------------------------
(***************************************************************************)
(* One session of the demo: the same scripted conversation in two panes.   *)
(*   demo/internal/engine.go      Start, Next, Probe, Reset                *)
(*   demo/internal/acgcclient.go  the pane that talks to the sidecar       *)
(*   demo/internal/naive.go       the pane that keeps its own history      *)
(*   pkg/acgc/runtime.go          the SDK between the demo and the sidecar *)
(*                                                                         *)
(* Engine.mu guards the map of sessions and nothing in a session: requests *)
(* that overlap interleave between any two loads and stores of the cursor  *)
(* and of userStepsDone, one action each.  Every Start makes a session of  *)
(* its own; sessions share nothing but the map.                            *)
(* The sidecar is the channel and the tree of SessionManager.              *)
(***************************************************************************)
EXTENDS Integers, Sequences, SequencesExt

CONSTANTS
  Clients,        \* concurrent HTTP requests
  Script,         \* Scenario.Turns: [role, tokens]
  SeedUntil,      \* turns ingested without a model
  Question,       \* the probe: [role, tokens]
  ReplyTokens,    \* tokens of what a model answers
  Budget,         \* the token budget less the system prompt
  ChannelBuffer,  \* capacity of the sidecar's event channel
  MaxCalls,       \* bound on the calls of Next
  MaxProbes,      \* bound on the probes
  MaxOverlaps     \* bound on the requests that arrive while one is under way

ASSUME ScriptAssumption ==
  /\ Script \in Seq([role : {"user", "assistant"}, tokens : Nat])
  /\ Question \in [role : {"user"}, tokens : Nat] /\ ReplyTokens \in Nat
  /\ SeedUntil \in 1 .. Len(Script)
ASSUME LimitAssumption ==
  Budget \in Int /\ ChannelBuffer \in Nat
  /\ MaxCalls \in Nat /\ MaxProbes \in Nat /\ MaxOverlaps \in Nat

(* What can be said: the turns of the script and, last, the question.      *)
Spoken == Append(Script, Question)
Probe == Len(Spoken)
(* A line is a role and the turn it says or, for a reply, answers.         *)
Lines == [role : {"user", "assistant"}, turn : 1 .. Probe]
Said(t) == [role |-> Spoken[t].role, turn |-> t]
Reply(t) == [role |-> "assistant", turn |-> t]
IsUser(line) == line.role = "user"
WarmUserSteps ==
  Len(SelectSeq(SubSeq(Script, SeedUntil + 1, Len(Script)), IsUser))

Framing == 8
Cost(line) == Framing + IF line = Said(line.turn) THEN Spoken[line.turn].tokens
                                                  ELSE ReplyTokens

VARIABLES
  registered,  \* is the session in Engine.sessions?
  open,        \* the connection to the sidecar
  cursor, steps, seeded,   \* Session: cursor, userStepsDone, seeded
  history, naiveLog,       \* naivePane: history, transcript
  acgcLog, seededEvents,   \* acgcPane: transcript, seededEvents
  dropped,     \* messages the last naive prompt left out
  channel, nodes,          \* the sidecar: EventChan, the events with a node
  (* one request per client *)
  pc, msg, loaded, naive, acgc,
  (* history and bounds *)
  calls,       \* calls of Next
  served,      \* those that sent a turn
  probes,      \* probes asked
  overlaps,    \* requests that arrived while another was under way
  lost         \* has the sidecar missed a line?

sessionVars == <<registered, open, cursor, steps, seeded>>
paneVars == <<history, naiveLog, acgcLog, seededEvents, dropped>>
sidecarVars == <<channel, nodes, lost>>
requestVars == <<pc, msg, loaded, naive, acgc>>
countVars == <<calls, served, probes, overlaps>>
vars == <<sessionVars, paneVars, sidecarVars, requestVars, countVars>>

Init ==
  /\ registered = FALSE /\ open = FALSE
  /\ cursor = 0 /\ steps = 0 /\ seeded = FALSE
  /\ history = <<>> /\ naiveLog = <<>> /\ acgcLog = <<>>
  /\ seededEvents = 0 /\ dropped = 0
  /\ channel = <<>> /\ nodes = <<>> /\ lost = FALSE
  /\ pc = [c \in Clients |-> "ready"]
  /\ msg = [c \in Clients |-> Probe]
  /\ loaded = [c \in Clients |-> 0]
  /\ naive = [c \in Clients |-> "done"]
  /\ acgc = [c \in Clients |-> "done"]
  /\ calls = 0 /\ served = 0 /\ probes = 0 /\ overlaps = 0

Goto(c, l) == pc' = [pc EXCEPT ![c] = l]
(* A request ends, and what was local to it. *)
Return(c) ==
  /\ Goto(c, "ready")
  /\ msg' = [msg EXCEPT ![c] = Probe]
  /\ loaded' = [loaded EXCEPT ![c] = 0]

(* append, which loads a slice and stores a longer one.  When requests      *)
(* overlap their appends race and may lose each other's lines: what the     *)
(* panes hold from then on is undefined, and is not recorded any more.      *)
Extended(log, lines) == IF overlaps = 0 THEN log \o lines ELSE log

-----------------------------------------------------------------------------
(* The sidecar *)

(* EnqueueEvent: a full channel drops the event. *)
Enqueue(line) ==
  \/ /\ Len(channel) < ChannelBuffer
     /\ channel' = Append(channel, line) /\ UNCHANGED lost
  \/ /\ Len(channel) >= ChannelBuffer
     /\ lost' = TRUE /\ UNCHANGED channel

(* The SDK: a connection, made before anything is sent and closed once. *)
NewContextRuntime == ~open /\ open' = TRUE
Close == open' = FALSE

(* CaptureEvent: the event is accepted, or the caller gets an error. *)
Accepted(line) ==
  /\ open /\ Len(channel) < ChannelBuffer
  /\ Enqueue(line)
  /\ seededEvents' = seededEvents + 1
(* The error may come after the sidecar has queued the event. *)
Refused(line) ==
  /\ \/ lost' = TRUE /\ UNCHANGED channel
     \/ open /\ Enqueue(line)
  /\ UNCHANGED seededEvents

(* GetState counts the root and the nodes the worker has made so far. *)
TotalNodes == Len(nodes) + 1

(* The session worker: one event, one node. *)
Process ==
  /\ channel # <<>>
  /\ nodes' = Append(nodes, Head(channel))
  /\ channel' = Tail(channel)
  /\ UNCHANGED <<sessionVars, paneVars, requestVars, countVars, lost>>

-----------------------------------------------------------------------------
(* Start *)

(* A session and its connection; no one else knows them yet. *)
Start(c) ==
  /\ naiveLog = <<>>
  /\ NewContextRuntime
  /\ Goto(c, "seed")
  /\ loaded' = [loaded EXCEPT ![c] = 0]
  /\ UNCHANGED <<registered, cursor, steps, seeded, paneVars, sidecarVars, msg,
                 naive, acgc, countVars>>

GiveUp(c) == Close /\ Return(c)

(* ensureSeeded: the next turn goes to the naive pane, then to the sidecar, *)
(* which may refuse it or not be there.                                     *)
SeedTurn(c) ==
  LET t == loaded[c] + 1 IN
  /\ pc[c] = "seed" /\ t <= SeedUntil
  /\ history' = Append(history, Said(t))
  /\ naiveLog' = Append(naiveLog, Said(t))
  /\ acgcLog' = Append(acgcLog, Said(t))
  /\ \/ Accepted(Said(t)) /\ loaded' = [loaded EXCEPT ![c] = t]
        /\ UNCHANGED <<open, pc, msg>>
     \/ Refused(Said(t)) /\ GiveUp(c)
  /\ UNCHANGED <<registered, cursor, steps, seeded, dropped, nodes, naive, acgc,
                 countVars>>

WaitForSeededNodes_RootCounts(c) ==
  /\ pc[c] = "seed" /\ loaded[c] = SeedUntil
  /\ \/ /\ TotalNodes >= seededEvents
        /\ cursor' = SeedUntil /\ seeded' = TRUE
        /\ Goto(c, "register") /\ UNCHANGED <<open, msg, loaded>>
     \/ /\ TotalNodes < seededEvents
        /\ GiveUp(c) /\ UNCHANGED <<cursor, seeded>>
  /\ UNCHANGED <<registered, steps, paneVars, sidecarVars, naive, acgc, countVars>>

(* waitForSeededNodes polls until the tree holds the root and every seeded  *)
(* event; it gives up when nothing has moved for a while, when its time is  *)
(* over, when the request is cancelled and when the sidecar does not answer.*)
WaitForSeededNodes(c) ==
  /\ pc[c] = "seed" /\ loaded[c] = SeedUntil
  /\ \/ /\ TotalNodes >= seededEvents + 1
        /\ cursor' = SeedUntil /\ seeded' = TRUE
        /\ Goto(c, "register") /\ UNCHANGED <<open, msg, loaded>>
     \/ GiveUp(c) /\ UNCHANGED <<cursor, seeded>>
  /\ UNCHANGED <<registered, steps, paneVars, sidecarVars, naive, acgc, countVars>>

Register(c) ==
  /\ pc[c] = "register"
  /\ registered' = TRUE
  /\ Return(c)
  /\ UNCHANGED <<open, cursor, steps, seeded, paneVars, sidecarVars, naive, acgc,
                 countVars>>

-----------------------------------------------------------------------------
(* Next *)

AtRest == \A c \in Clients : pc[c] = "ready"

(* A request for a session the map knows. *)
Enter(c) ==
  /\ registered /\ pc[c] = "ready"
  /\ \/ AtRest /\ UNCHANGED overlaps
     \/ ~AtRest /\ overlaps < MaxOverlaps /\ overlaps' = overlaps + 1

NextCall(c) ==
  /\ calls < MaxCalls
  /\ Enter(c)
  /\ calls' = calls + 1
  /\ Goto(c, "scan")
  /\ UNCHANGED <<sessionVars, paneVars, sidecarVars, msg, loaded, naive, acgc,
                 served, probes>>

(* nextUserMessage.  Each mention of the cursor is a load of its own unless *)
(* the build still has the last value in a register, and ++ is a load and a *)
(* store.                                                                   *)
Loads(c) == {loaded[c], cursor}
Holds(c, k) == loaded' = [loaded EXCEPT ![c] = k]

Scan_CountsTheEnd(c) ==
  /\ pc[c] = "scan"
  /\ \/ /\ cursor < Len(Script) /\ Holds(c, cursor) /\ Goto(c, "index")
        /\ UNCHANGED <<steps, msg>>
     \/ cursor >= Len(Script) /\ steps' = steps + 1 /\ Return(c)
  /\ UNCHANGED <<registered, open, cursor, seeded, paneVars, sidecarVars, naive,
                 acgc, countVars>>

(* The loop's condition; behind the last turn Next answers that all is done. *)
Scan(c) ==
  /\ pc[c] = "scan"
  /\ \/ cursor < Len(Script) /\ Holds(c, cursor) /\ Goto(c, "index") /\ UNCHANGED msg
     \/ cursor >= Len(Script) /\ Return(c)
  /\ UNCHANGED <<sessionVars, paneVars, sidecarVars, naive, acgc, countVars>>

(* The turn at the cursor.  An index behind the last turn panics: net/http  *)
(* recovers, and the request is over without an answer.                     *)
Index(c) ==
  /\ pc[c] = "index"
  /\ \E k \in Loads(c) :
       \/ /\ k < Len(Script)
          /\ msg' = [msg EXCEPT ![c] = k + 1]
          /\ Holds(c, k) /\ Goto(c, "load")
       \/ k >= Len(Script) /\ Return(c)
  /\ UNCHANGED <<sessionVars, paneVars, sidecarVars, naive, acgc, countVars>>

(* The load of cursor++, past the turn or past a scripted answer to it... *)
Load(c) ==
  /\ \/ pc[c] = "load" /\ Goto(c, "advance")
     \/ pc[c] = "pass" /\ Goto(c, "over")
  /\ \E k \in Loads(c) : Holds(c, k)
  /\ UNCHANGED <<sessionVars, paneVars, sidecarVars, msg, naive, acgc, countVars>>

(* ... and its store. *)
Advance(c) ==
  /\ pc[c] = "advance"
  /\ cursor' = loaded[c] + 1 /\ Holds(c, loaded[c] + 1)
  /\ Goto(c, IF IsUser(Said(msg[c])) THEN "skip" ELSE "ingest")
  /\ UNCHANGED <<registered, open, steps, seeded, paneVars, sidecarVars, msg, naive,
                 acgc, countVars>>

(* An assistant's turn that was found goes to both panes, whatever the      *)
(* sidecar says of it, and the loop goes on.                                *)
Ingest(c) ==
  /\ pc[c] = "ingest"
  /\ history' = Extended(history, <<Said(msg[c])>>)
  /\ naiveLog' = Extended(naiveLog, <<Said(msg[c])>>)
  /\ acgcLog' = Extended(acgcLog, <<Said(msg[c])>>)
  /\ Accepted(Said(msg[c])) \/ Refused(Said(msg[c]))
  /\ Goto(c, "scan")
  /\ UNCHANGED <<sessionVars, dropped, nodes, msg, loaded, naive, acgc, countVars>>

Run(c) ==
  /\ naive' = [naive EXCEPT ![c] = "ask"]
  /\ acgc' = [acgc EXCEPT ![c] = "ask"]
  /\ Goto(c, "panes")

Skip_Never(c) ==
  /\ pc[c] = "skip"
  /\ Run(c)
  /\ UNCHANGED <<sessionVars, paneVars, sidecarVars, msg, loaded, countVars>>

(* A user's turn: is there a turn behind it, *)
Skip(c) ==
  /\ pc[c] = "skip"
  /\ \E k \in Loads(c) :
       \/ /\ k < Len(Script)
          /\ Holds(c, k) /\ Goto(c, "peek") /\ UNCHANGED <<naive, acgc>>
       \/ k >= Len(Script) /\ Run(c) /\ UNCHANGED loaded
  /\ UNCHANGED <<sessionVars, paneVars, sidecarVars, msg, countVars>>

(* is it a scripted answer (or has the cursor left the script: a panic), *)
Peek(c) ==
  /\ pc[c] = "peek"
  /\ \E k \in Loads(c) :
       \/ k >= Len(Script) /\ Return(c) /\ UNCHANGED <<naive, acgc>>
       \/ /\ k < Len(Script) /\ IsUser(Said(k + 1))
          /\ Run(c) /\ UNCHANGED <<msg, loaded>>
       \/ /\ k < Len(Script) /\ ~IsUser(Said(k + 1))
          /\ Holds(c, k) /\ Goto(c, "pass") /\ UNCHANGED <<msg, naive, acgc>>
  /\ UNCHANGED <<sessionVars, paneVars, sidecarVars, countVars>>

(* and if so it is passed over. *)
Over(c) ==
  /\ pc[c] = "over"
  /\ cursor' = loaded[c] + 1
  /\ Run(c)
  /\ UNCHANGED <<registered, open, steps, seeded, paneVars, sidecarVars, msg, loaded,
                 countVars>>

-----------------------------------------------------------------------------
(* Both panes answer in goroutines of their own. *)

(* buildMessages takes the newest messages, one after the other, until one  *)
(* does not fit into what the question leaves of the budget.                *)
Remaining(q) ==
  IF Budget > Spoken[q].tokens THEN Budget - Spoken[q].tokens ELSE 0
Tokens(log) == FoldLeft(LAMBDA n, line : n + Cost(line), 0, log)
LeftOut(log, q) ==
  CHOOSE d \in 0 .. Len(log) :
    /\ Tokens(SubSeq(log, d + 1, Len(log))) <= Remaining(q)
    /\ d > 0 => Tokens(SubSeq(log, d, Len(log))) > Remaining(q)

NaiveRun_FailureUnrecorded(c) ==
  /\ pc[c] = "panes" /\ naive[c] = "ask"
  /\ naive' = [naive EXCEPT ![c] = "done"]
  /\ dropped' = IF overlaps = 0 THEN LeftOut(history, msg[c]) ELSE dropped
  /\ \/ /\ history' = Extended(history, <<Said(msg[c]), Reply(msg[c])>>)
        /\ naiveLog' = Extended(naiveLog, <<Said(msg[c]), Reply(msg[c])>>)
     \/ /\ naiveLog' = Extended(naiveLog, <<Said(msg[c])>>)
        /\ UNCHANGED history
  /\ UNCHANGED <<sessionVars, acgcLog, seededEvents, sidecarVars, pc, msg, loaded,
                 acgc, countVars>>

(* The model answers or not; the user's turn is history in both cases.  No  *)
(* other goroutine of the request looks at this pane meanwhile.             *)
NaiveRun(c) ==
  /\ pc[c] = "panes" /\ naive[c] = "ask"
  /\ naive' = [naive EXCEPT ![c] = "done"]
  /\ dropped' = IF overlaps = 0 THEN LeftOut(history, msg[c]) ELSE dropped
  /\ \/ /\ history' = Extended(history, <<Said(msg[c]), Reply(msg[c])>>)
        /\ naiveLog' = Extended(naiveLog, <<Said(msg[c]), Reply(msg[c])>>)
     \/ /\ history' = Extended(history, <<Said(msg[c])>>)
        /\ naiveLog' = Extended(naiveLog, <<Said(msg[c])>>)
  /\ UNCHANGED <<sessionVars, acgcLog, seededEvents, sidecarVars, pc, msg, loaded,
                 acgc, countVars>>

AcgcAsk_OnlySentIsSaid(c) ==
  /\ pc[c] = "panes" /\ acgc[c] = "ask"
  /\ \/ /\ open /\ Enqueue(Said(msg[c])) /\ acgc' = [acgc EXCEPT ![c] = "llm"]
        /\ acgcLog' = Extended(acgcLog, <<Said(msg[c])>>)
     \/ /\ lost' = TRUE /\ UNCHANGED channel /\ acgc' = [acgc EXCEPT ![c] = "done"]
        /\ UNCHANGED acgcLog
  /\ UNCHANGED <<sessionVars, history, naiveLog, seededEvents, dropped, nodes, pc,
                 msg, loaded, naive, countVars>>

(* The message goes to the sidecar, whose Run enqueues it before it calls   *)
(* the model; or to no one, when there is no connection or no answer.       *)
AcgcAsk(c) ==
  /\ pc[c] = "panes" /\ acgc[c] = "ask"
  /\ acgcLog' = Extended(acgcLog, <<Said(msg[c])>>)
  /\ \/ open /\ Enqueue(Said(msg[c])) /\ acgc' = [acgc EXCEPT ![c] = "llm"]
     \/ lost' = TRUE /\ UNCHANGED channel /\ acgc' = [acgc EXCEPT ![c] = "done"]
  /\ UNCHANGED <<sessionVars, history, naiveLog, seededEvents, dropped, nodes, pc,
                 msg, loaded, naive, countVars>>

(* Its model answers, and the answer is an event and a line... *)
AcgcAnswer(c) ==
  /\ acgc[c] = "llm" /\ open
  /\ acgc' = [acgc EXCEPT ![c] = "done"]
  /\ Enqueue(Reply(msg[c]))
  /\ acgcLog' = Extended(acgcLog, <<Reply(msg[c])>>)
  /\ UNCHANGED <<sessionVars, history, naiveLog, seededEvents, dropped, nodes, pc,
                 msg, loaded, naive, countVars>>

AcgcFails_OnlyWhileOpen(c) ==
  /\ acgc[c] = "llm" /\ open
  /\ acgc' = [acgc EXCEPT ![c] = "done"]
  /\ UNCHANGED <<sessionVars, paneVars, sidecarVars, pc, msg, loaded, naive,
                 countVars>>

(* ... or it fails, or the connection is closed under the call, which the   *)
(* sidecar may have finished already.                                       *)
AcgcFails(c) ==
  /\ acgc[c] = "llm"
  /\ acgc' = [acgc EXCEPT ![c] = "done"]
  /\ Enqueue(Reply(msg[c])) \/ UNCHANGED <<channel, lost>>
  /\ UNCHANGED <<sessionVars, paneVars, nodes, pc, msg, loaded, naive, countVars>>

(* Both goroutines are done: a probe answers, Next loads userStepsDone...   *)
Join(c) ==
  /\ pc[c] = "panes" /\ naive[c] = "done" /\ acgc[c] = "done"
  /\ \/ msg[c] = Probe /\ Return(c)
     \/ /\ msg[c] # Probe
        /\ loaded' = [loaded EXCEPT ![c] = steps]
        /\ Goto(c, "count") /\ UNCHANGED msg
  /\ UNCHANGED <<sessionVars, paneVars, sidecarVars, naive, acgc, countVars>>

(* ... and stores it. *)
Count(c) ==
  /\ pc[c] = "count"
  /\ steps' = loaded[c] + 1
  /\ served' = served + 1
  /\ Return(c)
  /\ UNCHANGED <<registered, open, cursor, seeded, paneVars, sidecarVars, naive,
                 acgc, calls, probes, overlaps>>

-----------------------------------------------------------------------------
(* Probe and Reset *)

ProbeSession(c) ==
  /\ probes < MaxProbes
  /\ Enter(c)
  /\ steps >= WarmUserSteps
  /\ probes' = probes + 1
  /\ msg' = [msg EXCEPT ![c] = Probe]
  /\ Run(c)
  /\ UNCHANGED <<sessionVars, paneVars, sidecarVars, loaded, calls, served>>

Reset_KeepsConnection(c) ==
  /\ Enter(c)
  /\ registered' = FALSE
  /\ UNCHANGED <<open, cursor, steps, seeded, paneVars, sidecarVars, requestVars,
                 calls, served, probes>>

(* Under the lock: requests that have found the session go on with it. *)
Reset(c) ==
  /\ Enter(c)
  /\ registered' = FALSE /\ Close
  /\ UNCHANGED <<cursor, steps, seeded, paneVars, sidecarVars, requestVars,
                 calls, served, probes>>

-----------------------------------------------------------------------------
(* What a request does by itself once it has arrived. *)
Step(c) ==
  \/ SeedTurn(c) \/ WaitForSeededNodes(c) \/ Register(c)
  \/ Scan(c) \/ Index(c) \/ Load(c) \/ Advance(c) \/ Ingest(c)
  \/ Skip(c) \/ Peek(c) \/ Over(c)
  \/ NaiveRun(c) \/ AcgcAsk(c) \/ AcgcAnswer(c) \/ AcgcFails(c)
  \/ Join(c) \/ Count(c)

Next ==
  \/ \E c \in Clients : \/ Start(c) \/ NextCall(c) \/ ProbeSession(c) \/ Reset(c)
                       \/ Step(c)
  \/ Process

(* A request waits for the sidecar: neither the SDK nor its callers set a   *)
(* deadline for a call (waitForSeededNodes looks at its own between calls). *)
InSidecar(c) ==
  open /\ \/ pc[c] \in {"seed", "ingest"}
          \/ pc[c] = "panes" /\ acgc[c] # "done"
(* It goes on by itself elsewhere: the naive pane's model has a timeout, a  *)
(* connection that is closed ends its calls, and no step waits for another  *)
(* request.  Nothing is assumed of the sidecar, and nobody has to call.     *)
Own(c) ==
  \/ Register(c) \/ Scan(c) \/ Index(c) \/ Load(c) \/ Advance(c)
  \/ Skip(c) \/ Peek(c) \/ Over(c) \/ NaiveRun(c) \/ Join(c) \/ Count(c)
  \/ ~open /\ (Ingest(c) \/ AcgcAsk(c) \/ AcgcFails(c))
Fairness == \A c \in Clients : WF_vars(Own(c))
Spec == Init /\ [][Next]_vars /\ Fairness

-----------------------------------------------------------------------------
(* Properties *)

(* Every variable has its type; the channel is never longer than its        *)
(* capacity.                                                                *)
TypeOK ==
  /\ registered \in BOOLEAN /\ open \in BOOLEAN /\ seeded \in BOOLEAN
  /\ cursor \in Nat /\ steps \in 0 .. MaxCalls
  /\ history \in Seq(Lines) /\ naiveLog \in Seq(Lines) /\ acgcLog \in Seq(Lines)
  /\ seededEvents \in Nat /\ dropped \in Nat
  /\ channel \in Seq(Lines) /\ Len(channel) <= ChannelBuffer
  /\ nodes \in Seq(Lines) /\ lost \in BOOLEAN
  /\ pc \in [Clients -> {"ready", "seed", "register", "scan", "index", "load",
                         "advance", "ingest", "skip", "peek", "pass", "over",
                         "panes", "count"}]
  /\ msg \in [Clients -> 1 .. Probe] /\ loaded \in [Clients -> Nat]
  /\ naive \in [Clients -> {"ask", "done"}]
  /\ acgc \in [Clients -> {"ask", "llm", "done"}]
  /\ calls \in 0 .. MaxCalls /\ served \in 0 .. calls
  /\ probes \in 0 .. MaxProbes /\ overlaps \in 0 .. MaxOverlaps

(* What users said of some turns, in order. *)
UserLinesOf(log, turns) ==
  FoldLeft(LAMBDA said, line :
             IF IsUser(line) /\ line.turn \in turns THEN Append(said, line) ELSE said,
           <<>>, log)
UserLines(log) == UserLinesOf(log, 1 .. Probe)

(* "So panes stay aligned" (naive.go): between requests that never          *)
(* overlapped both transcripts and the naive history hold the same user     *)
(* turns, whichever models failed; so does the sidecar unless it missed one.*)
PanesAligned ==
  AtRest /\ overlaps = 0 =>
    /\ UserLines(naiveLog) = UserLines(acgcLog)
    /\ UserLines(history) = UserLines(naiveLog)
    /\ ~lost => UserLines(nodes \o channel) = UserLines(history)

(* Requests that never overlapped follow the script: the user turns before  *)
(* the cursor were said once and in order, no scripted answer to a live one *)
(* was, and userStepsDone counts the live ones, so that a script that is    *)
(* done is one that may be probed.                                          *)
ScriptFollowed ==
  AtRest /\ overlaps = 0 /\ seeded =>
    LET before(n) == UserLines([t \in 1 .. n |-> Said(t)]) IN
    /\ UserLinesOf(naiveLog, 1 .. Probe - 1) = before(cursor)
    /\ \A j \in SeedUntil + 1 .. Len(naiveLog) : IsUser(Said(naiveLog[j].turn))
    /\ steps = Len(before(cursor)) - Len(before(SeedUntil))

(* However requests overlap, a probe is asked only after as many turns were *)
(* sent as the warm-up has: an update of userStepsDone may be lost, never   *)
(* gained.                                                                  *)
ProbeComesLast ==
  /\ steps <= served
  /\ probes > 0 => served >= WarmUserSteps

(* A session that requests can find has every seeded turn in the tree of    *)
(* the sidecar, whatever the channel and the worker did meanwhile.          *)
SeedsAreInTheTree ==
  registered => IsPrefix([t \in 1 .. SeedUntil |-> Said(t)], nodes)

(* The connection lives as long as the session: none is left open by a      *)
(* Start that failed or by a Reset, none is closed under a session that     *)
(* requests can still find.                                                 *)
ConnectionFollowsSession ==
  open <=> \/ registered
           \/ \E c \in Clients : pc[c] \in {"seed", "register"}

(* Requests that never overlapped: what the newest-first window has         *)
(* dropped never comes back, although questions differ in length, because a *)
(* question that pushed it out is itself history afterwards.                *)
WindowNeverReopens == [][overlaps' = 0 => dropped' >= dropped]_vars

(* Every request comes to its end, however requests move the cursor under   *)
(* each other and also when its connection is closed under it, unless it    *)
(* waits forever for an answer of the sidecar.                              *)
RequestsEnd == \A c \in Clients : []<>(pc[c] = "ready") \/ <>[]InSidecar(c)
=============================================================================
