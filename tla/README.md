# ACGC, specified and verified

ACGC is a gRPC sidecar in Go that keeps the working memory of LLM agents small.
Clients send it the events of a session; one worker goroutine per session files
each event as a node of a context tree, scores the nodes, archives what is no
longer worth its tokens, and persists everything to MongoDB. When a prompt is
needed, the active nodes (and, with semantic memory, archived ones that resemble
the question) are compiled into a prompt that fits a token budget.

This directory holds TLA+ models of its core, the TLC runs that check them and
the TLAPS proofs about them. Paths are relative to the repository.

## 1. Inventory

| Component | State | Operations | What makes it correct |
|---|---|---|---|
| State tree (`internal/statetree`) | nodes, root, turn counter, `ChildIDs` | `AddNode`, `findBestParent`, `UpdateNodeStatus`, `ReplaceWithCompressed`, `RestoreFromSnapshot`, `Stats` | one node per turn; parents are older; goals hang from the root; a restore gives back the same tree |
| Collector (`internal/gc`) | none of its own | `ShouldRun` (five triggers), `Run` (mark, sweep, compact) | nothing with facts or decisions is archived; what it reports freed is what it archived; pressure ends |
| Session manager (`internal/session/manager.go`) | map of sessions; per session the tree, a bounded channel, metrics, two indexes | `GetOrCreate`, `EnqueueEvent`, `CompilePrompt`, the worker's `processEvent`, `snapshotSession`, idle shutdown | one worker per session; turns in client order; an idle shutdown forgets nothing; accepted events are processed |
| Store (`internal/store`) | collections `raw_events`, `state_nodes`, `snapshots`, `session_metrics`, `gc_runs` | inserts, upserts, latest-snapshot load, embedding loads | raw events precede nodes; documents keep describing their event |
| Semantic memory (`internal/session`) | embeddings of nodes, active and archive index | embed, `reconcileSemanticIndices`, two queries and a join | the indexes say what the tree says; a compilation misses nothing while embeddings move |
| Vector index (`internal/vectorindex`) | vectors, tombstones, HNSW graph | `Insert`, `Delete`, `Query`, `RebuildFromVectors` | behaves like a map; tombstones invisible and few |
| Scorer (`internal/scorer`) | none | nine signals, one clamped sum | scores in range; protected kinds are kept |
| Prompt compiler (`internal/compiler`) | none | rank, select within budget, render | the prompt fits the budget; nothing lost silently |
| Facts (`internal/facts`) | none | extract, merge by key | later values replace earlier ones |
| Gateway (`internal/gateway`) | none | `Run`, `CaptureEvent`, `TriggerGC`, `GetState`, `GetMetrics` | a prompt is the past of the conversation, an answer comes after what it was based on |
| LLM, embeddings, tokenizer, config, SDK | none that lasts | one request per call | errors are passed on |
| Server process (`cmd/acgc`) | the wiring | start, graceful stop | stopping loses nothing accepted |
| Evaluation (`eval`) | response cache in memory and in a file, tokens spent, answers, scores | ask every strategy every probe, score, report | nothing paid for twice; the right answer from the cache; compared whole; budget respected |
| Replays (`eval/harness/strategy_*.go`, `stresstest/runner`, `cmd/acgc-cachebench`) | a tree, two indexes and an anchor each | copies of the worker's loop over a recorded conversation | indexes in step with the tree; what is recent or relevant survives; what they compare is comparable |
| Demo (`demo`) | sessions; per session a cursor, a count, two panes, a connection to the sidecar | `Start`, `Next`, `Probe`, `Reset`, in HTTP handlers that overlap | both panes hold the same user turns; a probe comes after the warm-up; the connection lives as long as the session |
| Latency benchmark, command-line tools | none that lasts | drive the components above | no state to get wrong |

How they interact. A gateway handler calls `GetOrCreate` (a read lock, then
perhaps the write lock and a load from MongoDB), then `EnqueueEvent`, which looks
the session up again and does a non-blocking send on its channel. The session's
worker is a `select` over the channel, the snapshot ticker and the idle ticker;
an event costs up to six store calls, an embedding request and a collection.
Meanwhile `Run` compiles a prompt from the same tree, each method of which locks
on its own, and from the two indexes, which lock on their own too. Nothing
connects the process's shutdown with the workers. The demo talks to the sidecar
through the SDK and holds two histories of the same conversation; the evaluation,
the stress test and the cache benchmark do without the session manager and run
the tree, the scorer, the collector and the indexes in loops of their own.

What is hard is in exactly these joints: lookup and send are not atomic, an idle
worker leaves while handlers still hold its session, a crash separates `state_nodes` (written per
event) from the snapshot (written on a timer), a collection moves embeddings
between two indexes that a compilation queries one after the other. The full list, line by
line, is under `hazards` in `PROJECT.json`.

## 2. Modules

| Module | What it is |
|---|---|
| `ContextTree` | state tree, collector, tree part of `processEvent`, snapshot and restore |
| `MCContextTree` | its instances |
| `ContextTreeProofs` | theorems about it |
| `DurableLog` | abstract: the history of a session as a log that falls back whole; implemented by `SessionManager`, `SemanticMemory` and the tree of `ContextTree` |
| `SessionManager` | handlers, manager, worker, store, crashes |
| `MCSessionManager`, `SessionManagerProofs` | its instances; theorems about it |
| `GatewayRun` | composes `Run` and its prompt compilation with `SessionManager` |
| `MCGatewayRun` | its instances; the theorems about it are in `SessionManagerProofs` |
| `LiveIndex` | abstract: a map from ids to vectors with a k-of-n query |
| `VectorIndex` | tombstones, over-fetching, compaction; implements `LiveIndex` |
| `MCVectorIndex`, `VectorIndexProofs` | its instances; theorems about it |
| `SemanticMemory` | composes two `LiveIndex` instances with the worker, the store and `CompilePrompt` |
| `SemanticMemoryProofs` | theorems about it |
| `PromptCompiler` | one compilation: ranking, the budget gate, what is sent and what is reported |
| `MCPromptCompiler`, `PromptCompilerProofs` | its instances; theorems about it |
| `EvalRunner` | the batch evaluation: its response cache, retries, budget cap and scoring, over several runs |
| `EvalRunnerProofs` | theorems about it |
| `RetentionScorer` | the score of a node, in integer units |
| `ContextReplay` | composes the tree and the collector of `ContextTree` with real scores, in the four programs that replay a conversation |
| `MCContextReplay`, `ContextReplayProofs` | its instances; theorems about it, some from those about the tree, which they take by INSTANCE |
| `DemoEngine` | one session of the demo, its two panes and the sidecar it seeds |
| `MCDemoEngine`, `DemoEngineProofs` | its instances; theorems about it |

Definitions bear the names of the functions they translate; the map from
definitions to lines is in `PROJECT.json`. An operator named after a definition
with a suffix (`Receive_AnyEvent`) is a faulty variant of it, which some property
must tell from the original.

### ContextTree
`tree` is one session's `statetree.Tree`. A node is named by its turn, as
`NodeID` is `node_<session>_<turn>`; 0 is the root `NewTree` makes. `ChildIDs` is
computed from the parents, because `AddNode` appends to it and nothing removes
from it. A payload is the three things the code tells apart: does it contain a
rule word, is it blank, does a fact pattern match. `ProcessWithoutGC` and
`ProcessWithGC` are the tree part of `processEvent`, split by `ShouldRun`. The
scorer is left open: `Run` may sweep any of the candidates and the mean
relevance may be low or not, so that every property holds for any scoring.
`Snapshot`, then `Restart`, which may find a snapshot or none, cover crashes and
idle shutdowns at any time; the order of the snapshot's nodes, a Go map's, is
left open and with it which goal becomes the root. `CollectionsKeepTheLog` is `DurableLog` seen from here:
what each node was made of (`Content`), in the order of turns, is a log that collections leave alone and a
restore takes back whole; only a server that finds no snapshot starts a tree anew.

### SessionManager
One session. Every `SessionState` that is created is an *incarnation* with its
worker's `pc`, channel, tree and metrics, because an old worker can outlive its
place in the map. The tree is the sequence of the events whose nodes it holds.
Handlers stop where the code lets go of a lock (`Call`, `GetOrCreate`,
`EnqueueLookup`, `EnqueueSend`, for `Run` also `Return` and `Generate`, whose model
answers or fails), the worker
at each store call (`Receive`, `AppendEvent`, `AddNode`, `UpsertNode`, `Collect`,
`PersistMetrics`; `SaveSnapshot`, `SaveNodes`, `SaveMetrics`, `Delete`). Any store
call may fail: the code logs and goes on. `idle` says that the last activity is longer ago
than the idle timeout. `MayStall` lets that become true while a
handler is under way (a machine that sleeps, a slow load); the run that shows
the lost event sets it to FALSE, so the race needs no stall. `Crash` is the
loss of the process, SIGTERM included.

### GatewayRun
What `Run` does between its two events: `CompileLookup` finds the session once more,
`CompileRead` reads its tree after letting go of the lock, `Ask` is the model's answer,
kept with the prompt it was made from. Everything else is `SessionManager`. When the
idle worker has deleted the session since `GetOrCreate`, the prompt has no memory at all,
which is a prompt like any other here; when another handler has created it again,
the tree that is read may be that of the incarnation that left.

### VectorIndex and LiveIndex
`vectors`, `tombstones` and `graph` are the fields of `HNSWIndex`; each method
holds the lock throughout and is one action. coder/hnsw is external: `Add`
replaces the vector of a key it has, `Search` returns as many distinct keys as
asked (all when there are fewer). Which keys is left open, the search being
approximate. `LiveIndex` is the `Index` interface: a map, whose query returns k
entries or all.

### SemanticMemory
The same worker, seen through embeddings: an embedding is the number of the
event it was made from, so that an embedding of another event shows. Reconciling
is one action per index operation. `CompilePrompt` is five actions (read the
active nodes, query the one index, query the other, join, or fall back), any of
which may interleave with the worker's. `Embed` asks the embedding service once, and
`AskAgain` once more after a transient error. `Stored` keeps a document's old embedding
when the node has none, which is what `omitempty` in a `$set` does. `ImplementsLog` says that through all of
this the tree, then the snapshot, are the log of the session's events.

### PromptCompiler
One call of `Compile` or `CompileWithSemantic`, from the nodes it is given to the
prompt. `SortBuckets` is the sorting of the seven buckets, `OpenBucket`, `Select`,
`Exclude` and `CloseBucket` are one turn of the priority pass with
`selectWithinBudget` inside, `SkipBucket` its two early exits. The pass is kept in steps because what
a bucket may use depends on what the ones before it used. A node is its type, the
tokens it claims, the tokens it prints, and its score; a hit of an index replaces the
semantic part of the score. `rank` is the order a sort leaves: best first, equal
scores either way; and any order at all (`raced`) when the session's worker scores
the same nodes meanwhile, since `Apply` writes `RetentionScore` without the tree's
lock. `FinalPrompt` is its number of tokens: the headings and bullets count there
and nowhere else. The order of lines inside a section, the cache-stable rendering, the
token count of the unselected nodes and the lists of summaries that go with the
prompt are left out: nothing is decided from them. "Prior Context"
(`compressed_branch`, `summary`) is a bucket of the compiler, although the tree never has such
nodes (`CompactionNeverFires`).

### EvalRunner
Runs of `eval/main.go`, one after the other, for one model. What outlives a run is
the cache file: `lines` is what its whole lines hold, `whole` whether it ends with
a newline, `tail` what stands behind the last one. `Put` appends a document and a newline;
an append behind a tail makes one line of both that `load` cannot parse, and
the two are lost. A write may fail before, within or just before the end of its
line, and `Kill` may end a run anywhere; together they are a run that dies while it
writes. `Start` chooses among `-semantic`, `-cache-only` and
`-budget-cap` and loads what is readable. `CacheHit`, `CacheMiss`,
`BudgetExceeded` and `Answer` are the four ways through `Runner.answer`; `Generated`,
`Transient` and `GivesUp` one attempt of `GenerateWithRetry`. An answer is the key of
the request it answers, so that one filed or used for another would show. A
probe is scored for all strategies at once, `JudgePairs` being what the calls of the judge,
its own retries included, may come to. `Position` orders the places a run can be at, the coarsest first.
How a strategy builds its prompt, the
latencies and what the report makes of the scores are left out.

### RetentionScorer and ContextReplay
`RetentionScore` is the sum of `scorer.go` in integers: signals in thousandths,
weights in hundredths, the exponential a table of which the theorems need only that it is
at least .44 up to a distance of eight. Terms that are always zero (no node is
resolved, has open issues or dependencies) are left out, and the cosine of two
embeddings, which the code does not clamp, is assumed not to be negative.

`ContextReplay` gives `ContextTree`'s collector these scores instead of an open choice,
in the four programs that have a loop of their own: the evaluation's `acgcStrategy`, the
stress test's `ReplaySession`, and the incremental and the frozen mode of the cache
benchmark. They read the same conversation in step, though they are separate programs,
so that what they archive can be compared (`FrozenForgetsMore`). `Turn` ingests one
turn in each: add a node, embed it unless the service fails, score, collect if a trigger says
so, and move what was archived between the indexes, or not, as in the frozen mode. The stress test
compiles after each turn, the incremental mode after each chunk, the others at the end (`Ask`).
`Naive` and `Sliding` are the two strategies without a tree. `CheckCoherency` is the stress test's
verdict on the prompt it compiles for the last turn: `Selections` are the sets of nodes the compiler may
select, bucket by bucket and by the scores the last scoring left (`score`, kept for this), out of what the last
turn's text leaves of the token budget (`Room`); of equal scores either may come first. In that selection the snippet of
one of the last three turns is searched: an empty snippet is in any prompt, a repeated one may be there with another
node. A snippet that happens to be part of another text, which is found as well, is left out, and so are the
check of dependencies, which no node has, and the last two, whether the prompt is empty or over the
budget, which count the tokens of what is printed (`PromptCompiler` has those).

### DemoEngine
One session of the demo. `Start` opens a connection, ingests the seeds in both panes,
polls the sidecar until all are in its tree (`WaitForSeededNodes`) and registers the session, or
closes the connection again. `Next` and `Probe` are requests that take one step at a time, since `Engine.mu` guards the
map and nothing inside a session. In `nextUserMessage` each mention of `cursor` is a load of its own: the loop's condition
(`Scan`), the index behind it (`Index`), the load and the store of `cursor++` (`Load`, `Advance`), the condition for a
scripted answer (`Skip`), its index (`Peek`), and a second `cursor++` (`Load`, `Over`). A load may yield the value the request
holds already, which a compiler may keep in a register, or the current one. An index behind the script panics, which net/http recovers: the
request is over without an answer, and so it ends in the model. The load and the store of `userStepsDone` are
`Join` and `Count`; the two panes answer in goroutines of their own. A call of the sidecar that fails may have been queued there or not
(`Refused`, `AcgcFails`); a call that was given up does nothing later. An empty reply is a reply like any other. `Reset`
closes the connection under whoever still uses it. The sidecar is its channel and its
nodes. From the first overlap on, two appends to one slice may race and what the panes hold is
undefined; it is no longer recorded, and the properties of the panes speak of
requests that never overlapped (`PanesAligned`, `ScriptFollowed`, `WindowNeverReopens`). `ProbeComesLast`,
`ConnectionFollowsSession`, `SeedsAreInTheTree` and `RequestsEnd` speak of all.

## 3. Runs

All bounds are CONSTANTS with that comment in the module. "Violation" runs
exhibit a disagreement between the code and what the repository says of it.

| Run | Properties | Instance |
|---|---|---|
| `tree` | `CompactionNeverFires`, `FactsStayActive`, `SavedMatchesArchived`, `StructuralPressureIsPermanent`, `CollectionsKeepTheLog` | three turns of goals, replies, tool results; every trigger reachable; snapshots of trees up to two turns, so that a restored tree still grows |
| `tree_root` | `GoalsAttachToRoot` violated | same |
| `gateway_run` | `OneWorker`, `NothingForgotten`, `NodesKeepTheirEvent`, `ImplementsLog`, `ClientOrder`, `PromptsArePast`, `AnswersFollowTheirPrompt` | two clients with two events (two captures or one `Run`), channel of two, two incarnations, one crash; clients are symmetric |
| `session_drains` | `QueueDrains`, `ImplementsLog` | two clients, one event each, channel of one, a crash, a failing store operation and a stall allowed, fairness; no symmetry |
| `session_lost` | `AcceptedIsProcessed` violated | two clients, no crash, no failure, no stall |
| `index` | `ImplementsLiveIndex` | five ids, so that a tombstone survives the 25 % threshold; two vectors |
| `semantic` | `IndexesMirrorTree`, `NothingEmbeddedIsMissed`, `ImplementsLog` | two events, three starts, one crash, two failures, queries for two hits |
| `compiler` | `FitsBudget`, `PriorityWins`, `NothingThatFitsIsLeftOut`, `SectionsReportWhatTheyLack` | up to three nodes, each of six kinds, any hits, four budgets; nodes are symmetric |
| `eval` | `NeverPaidTwice`, `LiveScoresInRange`, `WholeLinesStay`, `RunsGoForward`, `RunsEnd` | two runs of two scenarios, two probes (one for the judge), two strategies; a failed write; with and without a cap; fairness |
| `replay` | `ReplaysMirrorTree`, `ArchivedComeBack`, `FrozenForgetsMore`, `CoherencyFollowsAge`, `RecentTurnsStay`, `RelevantTurnsStay` | fourteen turns, two topics, rules, facts, blank, empty and repeated turns, one as long as the budget; the code's weights; one failed embedding request |
| `replay_windows` | `WindowsStopWhenFull` violated | same |
| `demo` | `PanesAligned`, `ScriptFollowed`, `ProbeComesLast`, `SeedsAreInTheTree`, `ConnectionFollowsSession`, `WindowNeverReopens`, `RequestsEnd` | two clients, a script of six turns, two of them seeds, three calls, one probe, one overlap, channel of two; fairness |

Why these bounds. In the tree three turns make a child, a sibling and a grandchild, and
with a budget of four tokens every trigger fires and every sweep outcome occurs.
A session race needs two callers, two incarnations of the session, and a
channel that can be full. For a prompt to be wrong it takes a reader between lookup and read, and
a session that ends, by idleness or a crash, and is created again meanwhile: two clients, two
incarnations, one crash. The
index needs five entries: with fewer, the first tombstone is already a quarter
and is compacted away. A semantic compilation has two queries, between which
two nodes can move; three starts are a session, one after a crash, and one after an
orderly end, so that what the second wrote is read again. For the compiler, two nodes
compete for a budget and a third, cheaper or in a later bucket, can slip in behind
the one that did not fit; the budgets range from one the reserve of
system prompt and question exceeds to one that almost everything fits. Of two
evaluation runs the first leaves a file, whole, partial or with a tail, and the
second reads it and appends to it. A cap of three tokens with answers of two is reached in the middle of a
scenario; two attempts (four in the code) are a retry and a last one; one mark
stands for all, since only the range of the scores is at issue. The replays need more than eight turns
after one that can be swept, to see it survive that long and go; fourteen are enough for a
sweep, a sweep of what is stale in topic only, and the limits on tokens and nodes, which are set so
that they are passed early. With a budget of nine tokens the selection for the coherency check leaves nodes out, recent ones among
them: some that are safe find room and others do not, and the check fails in some behaviours. The demo's script has a long live question that pushes the seeds out
of the window and a short one that would let one back in; three calls are the two live turns and one
past the end; one overlap is enough for a lost update, since only two requests share one.

Deadlock is not checked where the bounds on events, turns, runs or starts end every
behaviour (a session without clients may rest for good, a conversation has been
replayed, a demo was reset). `index` runs for ever and is checked for it.

### Fairness
`FairSpec` asks for what Go's scheduler and the code's timeouts give. A worker
inside an event or a snapshot makes progress (weak fairness on its steps): its
store calls carry timeouts and end in success or failure. `Receive` has strong
fairness: it competes with two tickers in a `select`, which picks at random
among the ready cases, so it cannot be passed over for ever. Nothing is assumed
of clients, ticks, idleness, crashes or failures. In `EvalRunner` one weak fairness
condition says that a program that was started goes on: its requests carry
timeouts, and a loop of retries is one of its steps. Starting and killing are not assumed.
In `DemoEngine` only what a request does by itself is fair (`Own`): its own steps, the naive pane's model, whose HTTP client has a timeout
(`internal/llm/client.go:44`), the `WaitGroup` on the panes, and, once the connection is closed, the end of calls on it. Of the
sidecar nothing is assumed. The SDK passes its caller's context on (`pkg/acgc/runtime.go:102-156`), HTTP handlers set no deadline on theirs,
`engine.go:320` uses `context.Background()`, and the 90 seconds of the poll for seeded nodes are looked at only between two calls of
`GetState`. So `RequestsEnd` says that a request ends, with its answer or a panic, or is from some time on inside a call of the sidecar, for good
(`<>[]InSidecar(c)`). Nobody has to call anything.

### What the violations show
- `tree_root`: `RestoreFromSnapshot` takes as root the last parentless *or goal*
  node in map order; later goals then hang from a user's prompt.
- `session_lost`: an event accepted between an idle worker's last snapshot and
  its deletion from the map is never processed.
- `replay_windows`: the comments on the naive and the sliding strategy (`strategy.go:88`, `strategy_naive.go:3`,
  `strategy_sliding.go:23`) say that turns are taken until the budget is hit or exhausted. The loops `continue` behind a turn that does not
  fit, so a smaller one behind it is taken and the window has a hole. What the code does instead is `WindowsAreGreedy`,
  proved but not run, as it contradicts these comments. The demo's naive pane, which is described in the same words, does stop
  (`naive.go:64`).

Seen while modelling, and without a run of their own:

- After a crash the turn numbers of the lost turns are given out again, and the
  `state_nodes` documents of other events are overwritten; hence `NodesKeepTheirEvent` speaks
  of behaviours without crashes and failures, where it holds across idle shutdowns and re-creations.
- What was selected fits the budget (`FitsBudget`, proved); the prompt made of it, with its
  headings, bullets and titles (`FinalPrompt`), need not: nothing counts them.
- A branch is compressed when it has three active compressible children, and
  `findBestParent` never makes two. `CompactionNeverFires` is this in positive
  form, proved in general: `compressed_branch` nodes, and the prompt
  section and compressor behind them, are unreachable.
- The depth and breadth triggers look at the tree's structure, which archiving leaves
  alone: once true they stay true, and every later event runs a collection
  (`StructuralPressureIsPermanent`).
- `TriggerGC` files an event of its own; it does not force a collection.
- A re-created session counts its totals from zero and overwrites the durable ones.
- Raw events are stored before `Sequence` is set, so sorting by it orders nothing.
- After a crash the archive index is primed with embeddings of nodes the restored
  tree lacks, or has as other, active nodes; a compilation joins hits with the tree
  and so does not print them, but they take the places of others among the k hits.
- A bucket of which nothing was selected is not reported in `ExcludedNodeRefs`, which
  is why `SectionsReportWhatTheyLack` speaks only of the others.
- In a cache-only run a missing reference answer sends a judge's probe to the rules, which
  answer -1, "use the judge" (`eval/main.go:292`); it enters the averages as a score. Hence
  `LiveScoresInRange` speaks only of runs that may ask the model.
- Of several candidates, one whose judging failed is reported with score 0, as if judged so.
- `-semantic -cache-only` replays the heuristic answers, and a semantic answer whose embeddings
  failed is cached as semantic. The key of a cached answer says which mode it is of, but not the token budget.
- The frozen mode of the cache benchmark says it rebuilds "identical session state"
  (`cmd/acgc-cachebench/main.go:305`), but its loop forgets the anchor after each reply and returns early when an
  embedding fails: when none fails it has archived whatever the incremental mode has, and possibly more
  (`FrozenForgetsMore`), and its archived nodes stay in the active index.
- Nodes with facts are never archived: once they alone exceed a limit the collector
  runs at every turn and cannot bring the context under that limit.
- Two overlapping `Next` calls of the demo may index the script behind its end (`engine.go:305`, `:313`): one advances the cursor
  between the other's check and its use. The panic is recovered by net/http, that request gets no answer, and a turn it had
  taken is never said; or the other reads another turn than the one it checked.
- Two overlapping `Next` calls of the demo may lose an update of `userStepsDone`, and a finished script is
  then "not_ready" for its probe for good; the user interface disables its buttons meanwhile.
  A demo session lives, with its connection, until `Reset`.
- The tokens of the judge and of embeddings do not count towards the cap.

## 4. Proofs

What has a theorem holds of every instance. Some invariants were checked while their proofs
were made and have no run any more: the `TypeOK` of every module that has one, `AncestorsOlder`, `OneCompressibleChild`, `RawEventsArchived`, `FewTombstones`, `AnswersTheRequest`, `ComparedWhole`, `WindowsAreGreedy`
and `SoftCeiling`. Every property a passing run checks has a theorem, but for the four named at the
end of this section.

The theorems hold for every value of the constants that satisfies the modules'
ASSUMEs; TLC evaluates those on its instances. Three have a hypothesis more, which is in their
statement: `RelevantStay`, `ScriptTheorem` and `EveryStepNearsTheAnswer`.

Where a theorem is about a sum, a depth or a fold, the model's recursion is over a finite set, and
the induction is carried out in first-order steps: from the well-foundedness of the naturals
follows that a non-empty set of them has a least element (`LeastNat`), and the set of the
numbers up to which a fact fails is shown to have none. That a recursive function has the value its
equation gives it needs such a proof of existence and of agreement too (`SolutionExists`,
`SolutionsAgree`). It is done for the folds the properties mention, one by one; there is no general rule.

**ContextTreeProofs.** `TypeCorrect`, `ParentsAlwaysOlder`, `ChainOfActiveNodes`,
`NeverCompacts`, `FactsNeverArchived`. They share one inductive invariant,
`IInv`: the tree and the snapshot each satisfy `TreeInv` (well formed, rooted,
parents older, at most one active compressible child per node, nothing
compressed, kept nodes active). No part stands alone: that no branch is ever
compressed follows from the chain of active nodes, the chain is preserved by a collection because
collections only archive, and by `AddNode` because the parent it picks is the
newest active node, which has no active child yet as parents are older. A restore keeps
the invariant because the snapshot has it. `SavedIsArchived` adds the tokens: the sum over the
archived nodes grows by those a collection sweeps (`SweptByRun`) and by nothing else, as an
archived node is never a candidate again; a restore starts a new count (`archivedAtStart`).
`PressureIsPermanent`: neither depth nor width shrinks while a session lives, as a collection removes no node,
so a tree over a structural limit runs the collector at each event, whatever it archives.
`CollectionsNeverForget` is the step simulation of `DurableLog` on the tree: `AddNode` appends the node's
`Content`, a sweep changes statuses only (`SweptByRun`) and there is nothing to compact (`NothingToCompact`), a
snapshot saves all, and there is never more than the one that `saved` stands for (`OneSnapshot`).

**SessionManagerProofs.** `TypeCorrect` and `SingleWriter` are proved together:
a handler's creation under the write lock and a worker's deletion keep at most
one live worker, the one in the map. `ImplementsDurableLog` is the step
simulation under the mapping from `History` (the live worker's tree, else the
snapshot) to the log: handlers stutter, `AddNode` extends, `SaveSnapshot` saves,
`Delete` and `Crash` fall back, creation with a failed load starts over.
`IdleShutdownForgetsNothing` needs that the snapshot just written is still the
tree when the worker leaves (`SavedWhole`). `EveryNodeHasItsEvent` needs
where events come from (`ArchivedFirst`): a worker past `AppendEvent` holds an
archived event. `ClientsStayInOrder` needs what is in flight: a client's events leave it in order
(`SentFirst`: what is latest in the channel or in the tree was sent before what the handler
holds), no event is in two places (`Births`), and the line from the tree through the worker's hand to the channel
is ordered in every incarnation (`InOrder`). `DocumentsKeepTheirEvent`: while nothing has crashed
or failed each document is a node of the history as it was written (`NodesOfHistory`), so a
number is never given to another event; only a crash takes the tree back behind its documents.
`AcceptedStays` is what can be proved of `QueueDrains`: the line of a session, from its tree through its worker's
hand to its channel (`Line`), only grows, at its end, as long as its incarnation is in the map, and its tree
never shrinks. So an accepted event waits for those before it and for nothing else; that the worker goes on is fairness.

The module also proves the theorems about `GatewayRun`. `RunKeepsTheSession`: with `Run`'s compilation the system is still one of
`SessionManager`, so every theorem above carries over. `OneConversation` (`PromptsArePast`) and
`AnswersComeAfter` (`AnswersFollowTheirPrompt`) are proved from two invariants. The
first says of every tree that can be read, in the map or left behind, that what it holds was
sent before the prompt is made, and that the prompt is the beginning of some history. The second
follows an answer from the model through the channel to the tree: it is recorded, under way or being sent
(`AnswersOK`), and in all three places behind the events its prompt was made of.

**VectorIndexProofs.** `TypeCorrect`, `QueriesStaySmall` (compaction keeps
tombstones at most a quarter of the entries) and `ImplementsMap`: the step simulation
of `LiveIndex`, whose heart is the lemma `OverFetchSuffices`: k plus the number of
tombstones keys, less the tombstones among them, leave k live ones or all.

**SemanticMemoryProofs.** `TypeCorrect` is proved with the shape of the session at each step of
the worker (`Shape`). `IndexesAlwaysMirror` needs the transition: while a collection or a restart moves nodes
one by one, the two indexes hold what is embedded and active or not yet moved (`InActive`) and what
has been moved (`InArchive`), and without crash or failure the documents are the nodes, so what
a restart loads is what the indexes had (`NothingLost`). `NothingIsMissed` has to survive crashes.
What a document says may be newer than the snapshot but never forgets (`Keeps`): that is
`Remembered`. An archived node is in the archive's index, or still in the other and about
to be moved (`Indexed`). And a compilation that has passed the first query will find what it has not read in the second,
since moves go from the index it asks first to the one it asks last (`Compiling`).
`ImplementsDurableLog` is the step simulation once more, at this level of detail: only `AddNode` extends the
history, all that embeds, archives and moves it stutters, and a start reads what the snapshot holds or has failed.
The property is about a `TopK` no less than the number of nodes: with fewer hits a compilation may of course miss some.

**PromptCompilerProofs.** `TypeCorrect`, `SelectionFitsBudget`, `PriorityIsKept`,
`GreedyToTheEnd`, `SectionsReport`, from one invariant. `FitsBudget` needs only
itself. The others need to know of the unfinished pass what they say of the
finished one: `Behind`, that everything already looked at is of an earlier bucket or
ranks before what is still to come; `LeftOut`, that a node that was passed over did
not fit at the time, so it does not fit now, as `used + fill` only grows; and
`Reported`, that closed buckets with a section reported the rest. Priority
follows: a node that is taken later than one that was passed over costs less,
because it fitted into less.

**EvalRunnerProofs.** `TypeCorrect`, `PaidOnce`, `LinesAreKept`, `RightAnswers`,
`WholeComparisons`, `ScoresOfLiveRuns`, `CapHolds`, from one invariant. `PaidOnce` needs that
memory holds at least what the file would yield (`CacheHoldsFile`), at every moment
between a failed write and the next whole one, and that a request is only under way for what memory lacks,
below the cap (`AskedForReason`, on which `CapHolds` rests too). `RightAnswers` needs that
everything filed, in lines, tail or memory, is filed under its own key (`FiledRight`).
That comparisons are whole, and live scores in range, rests on `Filled`: the answers there
are exactly those before the current place, none of them an error in a live run (`LiveAnswers`).
`ForwardOnly` (`RunsGoForward`) compares positions lexicographically: a retry advances the attempt, an answer the strategy, an
abandoned scenario the scenario, and each step of a run advances one and may reset only those behind it.
`EveryStepNearsTheEnd` adds that the positions are finitely many, so that each step leaves a run fewer steps to take
(`StepsLeft`): of `RunsEnd` only the fairness is left to TLC.

**ContextReplayProofs.** `RecentStay`: for every conversation, policy in the assumed range and
embeddings, no program archives an ordinary user turn before it is eight turns old. `IInv` says of every
program that the node of a turn has that turn's tokens and a type of a user's or an assistant's
event, so that its score can be bounded from below: `25 * 440 + 20 * 950` or more for a goal or a
constraint, nothing subtracted for staleness, size or repetition, which is 30000, the threshold.
The others share `GInv`: each program's run is well formed (`Filed`: its nodes are the turns, its
prompt is of them, its counts are bounded by them), its two indexes hold
what is embedded where its driver leaves it, in the frozen one all of it (`Indexed`), its last prompt
brought back every embedded archived node if the hits allow as many (`Remembers`), and no turn
`RecentTurnsStay` protects has been swept (`Young`). From it `TypeCorrect`, `ReplaysMirror`, `ArchivedReturn`,
`CoherencyByAge`. That theorem follows the compiler's pass too: what it has looked at goes, by bucket and score, before what it has not
(`InPass`), so when a node's turn comes only nodes that do not score worse are taken, and if all those fit with it, it is
taken (`FittingIsTaken`), whatever the scores are. The recursion of the pass gets its proof of existence (`PassesExist`).
What the collector does to a tree comes from `ContextTreeProofs`,
instantiated with this module's constants. `RelevantStay` needs that topic and type outweigh the
threshold, `19 + SemanticWeight >= LowRelevanceThreshold` in percent: 20 of 0.95 for the type of an
ordinary user's turn are 19, and `DefaultWeights` has 20 against a threshold of 30. Without it a policy may sweep what
is on the topic of the question. `WindowsGreedy` follows the fold of `naive` and `sliding` turn by
turn: a turn is taken exactly if what was taken before leaves room for it.
The module's assumptions on weights, similarities and limits are those of the code's
configuration; the one that a cosine is not negative is not the code's, which does not clamp it, and limits the theorems to
such embeddings.

**DemoEngineProofs.** `ConnectionTheorem`, `SeedsTheorem`, `ProbeTheorem`, for any number of requests
and overlaps. One invariant: while a session is being started its request is alone (`Alone`)
and nothing has been asked yet (`Fresh`); what it has sent is, in order, in the tree and the
channel (`Seeding`); the connection is open from there to the `Reset` (`Connection`); and
what a request has loaded of `userStepsDone` is never more than has been served (`Counting`).
`TypeCorrect`, `PanesTheorem` and `WindowTheorem` rest on the larger `PInv`. Requests that never overlapped come one at a time
(`Solo`); what users said is the same in the history of the naive pane and in its transcript, and in
the sidecar's tree with its channel and the other transcript (`Mirrors`); the two transcripts differ by
the one message that one pane has taken and the other has not (`Level`). That calls are
counted right is a fact about the set of requests in flight (`CallsOK`). The window is the longest suffix that fits
(`LeftOutIs`, from the sums being monotone), so what is left out is told by a sum that only
grows (`OneWindow`). `ScriptTheorem` says of requests that never overlap where each is in the script (`Follow`):
the turn under way is before the cursor, not counted and, until the naive pane takes it, not
said. Its hypothesis is `Alternates`: behind the seeds no scripted answer comes first or follows
another, since `nextUserMessage` passes over one only. `LoadScenario` seeds whole pairs of
question and answer, and the scripted conversation goes on in such pairs. `Follow` was checked on the instance first.
`EveryStepNearsTheAnswer` is what can be proved of `RequestsEnd`, for any finite set of clients and any overlaps. The difficulty
is the loop of `nextUserMessage`: a request can store a cursor it counted from an older one, and so take it back under another that
is in the loop too. Yet two cannot keep each other going: for that a request has to hold a turn before the cursor, and it loads none but the
one the cursor is at. Compare two positions turn by turn, from the first up to the cursor: at the first turn at which they differ fewer
requests hold it, or the cursor has passed it (`Falls`); if neither, one request has fewer steps to take (`Left`).
That is an order on a finite set (`Precedes`, `Positions`), so each step lowers `StepsLeft`, and the worker's do not
raise it. The seeding of a session fits in because until then the cursor is where it was made (`Beginning`). TLC checked the
order on an instance with two overlaps.

Model-checked only: `FrozenForgetsMore`, which compares two programs on the conversations
of the run and is no theorem: a program that has archived more may be under the trigger when the other
is over it and sweeps; and `QueueDrains`, `RunsEnd` and `RequestsEnd`, since
liveness under fairness and ENABLED are outside the proof system. Of these three the part that
is a fact about steps is proved, as `AcceptedStays`, `EveryStepNearsTheEnd` and `EveryStepNearsTheAnswer`. The three violations are
counterexamples and need no proof. What recursive definitions compute in general is proved only as far as said above.

## 5. Not modelled

- The text: tokenizer, regular expressions of fact extraction, prompt wording, LLM
  answers. They appear as the few classes the control flow distinguishes.
- `GetMetrics`, `GetState` except as the demo polls it, and the data races on `LastActivity`,
  `TokenBudget`, metrics and scores: they feed answers and statistics; an idle tick may find any age.
- MongoDB itself: one operation is atomic and succeeds or fails; a failed one has
  no effect.
- Time: tickers fire whenever they like.
- The stress test's concurrency driver: it only calls what `SessionManager` models, on
  sessions of its own, and counts.
- Generated gRPC code, database scripts, the latency benchmark, command-line tools, report
  writers and the evaluation's data sets: straight-line code without state to get wrong.

## 6. Plan

The modules were built in this order: the tree with its collector, the session manager with
its worker, the index, the semantic memory that joins them, the prompt
compiler they all serve, the evaluation that compares it with other strategies; then
the real scores and the programs that replay with them, the two halves of `Run`, and the demo. Next:

1. `FactMerge`: extraction order and merge by key, later values first.
2. The concurrency driver, if it comes to assert more than it counts.
