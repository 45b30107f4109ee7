----------------------------- MODULE ContextReplay -----------------------------
(***************************************************************************)
(* The programs that replay a recorded conversation through a context tree *)
(* in their own process, without the session manager:                      *)
(*   eval         eval/harness/strategy_acgc.go    acgcStrategy            *)
(*   stress       stresstest/runner/engine.go      ReplaySession           *)
(*   incremental  cmd/acgc-cachebench/main.go      runIncrementalBench     *)
(*   frozen       cmd/acgc-cachebench/main.go      buildSessionForProbe    *)
(* They share the tree, the collector and the indexes with the server but  *)
(* each has its own copy of processEvent's loop.  Here the four read the   *)
(* same conversation in step, so that what they make of it can be compared *)
(* (they are separate programs: no step of one can affect another).        *)
(*                                                                         *)
(* The tree and the collector are those of ContextTree, with the scores of *)
(* RetentionScorer in place of its open choice.  A node is named by its    *)
(* turn; its title and its embedding are those of its turn.  The similarity *)
(* of two embeddings depends on the topics of their turns.                 *)
(***************************************************************************)
EXTENDS RetentionScorer, SequencesExt

CONSTANTS
  TopK,          \* TopKAtCompile and ArchiveTopKAtCompile
  Script,        \* the turns that may come at each place of the conversation
  Similarity,    \* CosineSim of two topics
  NTurns,        \* -turns of cachebench
  MaxFailures,   \* bound on the requests the embedding service fails
  TokenBudget, SoftLimit, MaxActiveNodes, MaxTreeDepth, MaxChildrenPerNode

TurnRecords == [role : {"user", "assistant"}, rule : BOOLEAN,
                text : {"blank", "plain", "facts"}, tokens : Nat,
                topic : STRING, filler : BOOLEAN]

ASSUME ScriptAssumption == Script \in Seq(SUBSET TurnRecords)
ASSUME ReplayAssumption ==
  /\ NTurns \in Nat \ {0} /\ TopK \in Nat \ {0}
  /\ MaxFailures \in Nat
ASSUME LimitsAssumption ==
  /\ TokenBudget \in Nat \ {0} /\ SoftLimit \in Nat
  /\ MaxActiveNodes \in Nat /\ MaxTreeDepth \in Nat
  /\ MaxChildrenPerNode \in Nat
(* exp has a value at every distance in the conversation. *)
ASSUME DistanceAssumption == 0 .. Len(Script) \subseteq DOMAIN Recency

Turns == UNION {Script[i] : i \in DOMAIN Script}
Topics == {t.topic : t \in Turns}
NoTopic == "none"    \* nil for lastUserEmbedding
(* The scorer does not clamp a cosine, which could be negative: what the    *)
(* properties say of scores is about embeddings that have none below zero.  *)
(* That of an embedding with itself is one.                                 *)
ASSUME SimilarityAssumption ==
  /\ \A a, b \in Topics : Similarity[a, b] \in 0 .. One
  /\ \A a \in Topics : Similarity[a, a] = One
  /\ NoTopic \notin Topics

VARIABLES
  turns,      \* the conversation so far
  run,        \* what each program has made of it
  failures

vars == <<turns, run, failures>>

Drivers == {"eval", "stress", "incremental", "frozen"}

EventOf(t) ==
  [type |-> IF t.role = "assistant" THEN "llm_response" ELSE "user_prompt",
   rule |-> t.rule, text |-> t.text, tokens |-> t.tokens]

(* What the tree and the result counters of a program are to ContextTree. *)
Metrics(r) ==
  [totalEvents |-> r.tree.turn, gcRuns |-> r.gcRuns,
   totalTokensSaved |-> r.freed,
   branchesCompressed |-> 0]

TreeEvents == {EventOf(t) : t \in Turns}

(* DefaultACGCConfig and DefaultConfig ... *)
Eval == INSTANCE ContextTree WITH
  tree <- run["eval"].tree, metrics <- Metrics(run["eval"]),
  snapshots <- {}, archivedAtStart <- 0, Events <- TreeEvents,
  MaxTurns <- Len(Script), MaxSnapshotTurn <- 0, CompressedTokens <- 0
(* ... and the policy of both modes of cachebench, without the triggers on  *)
(* headroom and on the number of active nodes.                              *)
Bench == INSTANCE ContextTree WITH
  tree <- run["incremental"].tree, metrics <- Metrics(run["incremental"]),
  snapshots <- {}, archivedAtStart <- 0, Events <- TreeEvents,
  MaxTurns <- Len(Script), MaxSnapshotTurn <- 0, CompressedTokens <- 0,
  SoftLimit <- TokenBudget, MaxActiveNodes <- 0

ShouldRun(d, t, lowRelevance) ==
  IF d \in {"eval", "stress"} THEN Eval!ShouldRun(t, lowRelevance)
  ELSE Bench!ShouldRun(t, lowRelevance)

NewRun ==
  [tree |-> Eval!NewTree,
   anchor |-> NoTopic,           \* lastUserEmbedding
   embedded |-> {},              \* the nodes with an embedding
   active |-> {}, archive |-> {},  \* the keys of activeIdx and archIdx
   score |-> [n \in {} |-> 0],   \* Scores.RetentionScore of the nodes
   gcRuns |-> 0, freed |-> 0,
   prompt |-> {},                \* the nodes last handed to the compiler
   compiled |-> "no"]            \* and how, until the next turn

Init ==
  /\ turns = <<>>
  /\ run = [d \in Drivers |-> NewRun]
  /\ failures = 0

-----------------------------------------------------------------------------
(* Ingesting a turn.  c is the conversation up to and including it. *)

ActiveNodes(r) == Eval!Active(r.tree)
ArchivedNodes(r) == Eval!Archived(r.tree)

(* Titles hold the event type and 80 characters of the payload: equal for   *)
(* the filler messages of one role.                                         *)
SameTitle(c, m, n) ==
  \/ m = n
  \/ /\ m > 0 /\ n > 0 /\ c[m].role = c[n].role
     /\ c[m].filler /\ c[n].filler
Copies(r, c, n) == Cardinality({m \in ActiveNodes(r) : SameTitle(c, m, n)})

Scores(r, c) ==
  [n \in ActiveNodes(r) |->
     RetentionScore(
       r.tree.node[n].type, r.tree.turn - n, Copies(r, c, n), r.tree.node[n].tokens,
       IF r.anchor = NoTopic \/ n \notin r.embedded THEN 0
       ELSE Similarity[r.anchor, c[n].topic])]

LowRelevance(score) ==
  MapThenSumSet(LAMBDA n : score[n], DOMAIN score)
    < Points(LowRelevanceThreshold) * Cardinality(DOMAIN score)

Swept(r, score) ==
  {n \in Eval!Candidates(r.tree) : Sweepable(r.tree.node[n].type, score[n])}

(* Run; SimpleCompressor never fails, so what is to be compacted is.        *)
Collected(r, swept) ==
  LET done == Eval!ToCompact(r.tree, swept)
  IN [r EXCEPT !.tree = Eval!Run(@, swept, done), !.gcRuns = @ + 1,
               !.freed = @ + Eval!TokensFreed(r.tree, swept, done)]

(* ScoreAll, and the collector if it is due.  Run scores once more, with the *)
(* same turn and the same anchor: the scores do not change.                  *)
ScoreThenCollect(d, r, c) ==
  LET score == Scores(r, c)
      after == IF ShouldRun(d, r.tree, LowRelevance(score))
               THEN Collected(r, Swept(r, score)) ELSE r
  IN [after EXCEPT !.score = score]

Added(r, c) ==
  [r EXCEPT !.tree = Eval!AddNode(@, EventOf(c[Len(c)])), !.compiled = "no"]

Embedded(r, c) ==
  [r EXCEPT !.embedded = @ \cup {Len(c)}, !.active = @ \cup {Len(c)},
            !.anchor = IF c[Len(c)].role = "user" THEN c[Len(c)].topic ELSE @]

(* The nodes the collector took out of the active set change index, if they *)
(* have an embedding.                                                       *)
Reconciled_Copied(before, after) ==
  [after EXCEPT !.archive =
     @ \cup ((ActiveNodes(before) \ ActiveNodes(after)) \cap after.embedded)]
Reconciled(before, after) ==
  LET gone == ActiveNodes(before) \ ActiveNodes(after)
  IN [after EXCEPT !.archive = @ \cup (gone \cap after.embedded),
                   !.active = @ \ gone]

(* The loop of BuildPrompt; a request that fails leaves the node without an *)
(* embedding and the anchor as it was.                                      *)
Ingested(d, r, c, embeds) ==
  LET added == Added(r, c)
      node == IF embeds THEN Embedded(added, c) ELSE added
  IN Reconciled(node, ScoreThenCollect(d, node, c))

(* benchSession.ingestTurn: it returns when the request fails, forgets the  *)
(* anchor at each turn that is not the user's, and leaves the indexes alone. *)
FrozenIngested_NeverCollects(r, c, embeds) ==
  LET node == Embedded([Added(r, c) EXCEPT !.anchor = NoTopic], c)
  IN IF embeds THEN node ELSE Added(r, c)
FrozenIngested(r, c, embeds) ==
  LET node == Embedded([Added(r, c) EXCEPT !.anchor = NoTopic], c)
  IN IF embeds THEN ScoreThenCollect("frozen", node, c) ELSE Added(r, c)

(* Compiling a prompt: the active nodes and, when the question could be     *)
(* embedded, whatever archived nodes are among the TopK hits of each index. *)
ArchivedHits(r, index) ==
  {h \in SUBSET (index \cap ArchivedNodes(r)) :
     /\ Cardinality(h) <= TopK
     /\ Cardinality(h) + Cardinality(index \ ArchivedNodes(r))
          >= AtMost(TopK, Cardinality(index))}

PromptHits_ActiveIndexOnly(r) == ArchivedHits(r, r.active)
PromptHits(r) ==
  {a \cup z : a \in ArchivedHits(r, r.active), z \in ArchivedHits(r, r.archive)}

Compiled(r, semantic) ==
  {[r EXCEPT !.prompt = ActiveNodes(r) \cup hits,
             !.compiled = IF semantic THEN "semantic" ELSE "plain"] :
     hits \in IF semantic THEN PromptHits(r) ELSE {{}}}

-----------------------------------------------------------------------------
(* The strategies without a tree: strategy_naive.go and strategy_sliding.go *)

CostOf(c, S) == MapThenSumSet(LAMBDA n : c[n].tokens, S)

(* selectChronological, and the same loop of sliding: `continue`, so a turn  *)
(* that does not fit is passed over and the smaller ones behind it are taken. *)
Select(c, order) ==
  FoldLeft(LAMBDA taken, n :
             IF CostOf(c, taken) + c[n].tokens <= TokenBudget THEN taken \cup {n}
             ELSE taken,
           {}, order)

Naive(c) == Select(c, [i \in DOMAIN c |-> i])
Sliding(c) == Select(c, [i \in DOMAIN c |-> Len(c) + 1 - i])

-----------------------------------------------------------------------------
(* The programs.  failed are the requests the embedding service fails. *)

Fails(failed) ==
  /\ failures + Cardinality(failed) <= MaxFailures
  /\ failures' = failures + Cardinality(failed)

(* The turns of the loop of ReplaySession, which compiles after each, with  *)
(* the turn itself for a question when it is the user's (never empty).      *)
StressTurn(r, c, failed) ==
  Compiled(Ingested("stress", r, c, "stress" \notin failed),
           c[Len(c)].role = "user" /\ "stress query" \notin failed)

(* Where runIncrementalBench stops ingesting to ask its question. *)
Chunk == LET n == Len(Script) \div NTurns IN IF n < 1 THEN 1 ELSE n
Ends == {AtMost(Len(Script), i * Chunk) : i \in 1 .. NTurns}

IncrementalTurn(r, c, failed) ==
  LET i == Ingested("incremental", r, c, "incremental" \notin failed) IN
  IF Len(c) > Max(Ends) THEN {r}
  ELSE IF Len(c) \in Ends THEN Compiled(i, "incremental query" \notin failed)
  ELSE {i}

Turn(t, failed) ==
  LET c == Append(turns, t) IN
  /\ Fails(failed)
  /\ turns' = c
  /\ \E s \in StressTurn(run["stress"], c, failed),
        i \in IncrementalTurn(run["incremental"], c, failed) :
       run' = [eval |-> Ingested("eval", run["eval"], c, "eval" \notin failed),
               stress |-> s, incremental |-> i,
               frozen |-> FrozenIngested(run["frozen"], c, "frozen" \notin failed)]

(* At the end of the conversation BuildPrompt and compileAndMessages        *)
(* compile for the question.                                                *)
Ask(failed) ==
  /\ Len(turns) = Len(Script) /\ run["eval"].compiled = "no"
  /\ Fails(failed)
  /\ \E e \in Compiled(run["eval"], "eval query" \notin failed),
        f \in Compiled(run["frozen"], "frozen query" \notin failed) :
       run' = [run EXCEPT !["eval"] = e, !["frozen"] = f]
  /\ UNCHANGED turns

(* CheckCoherency of a replay that ends here (of an empty one it is 1.0).    *)
(* No node has Dependencies, so its fourth check is never made; the last    *)
(* two, whether the prompt is empty or over the budget, count the tokens of *)
(* what is printed (PromptCompiler) and are left out.                       *)
OfType(r, type) == {n \in Eval!Nodes(r.tree) : r.tree.node[n].type = type}
HalfRetained(r, type) ==
  2 * Cardinality(OfType(r, type) \cap ActiveNodes(r)) >= Cardinality(OfType(r, type))

(* The prompt it compiles for the last turn, from the active nodes: bucket  *)
(* by bucket, as long as there is room left, and in a bucket by score.      *)
BucketOf(r, n) ==
  CASE r.tree.node[n].type = "goal"       -> 1
    [] r.tree.node[n].type = "constraint" -> 2
    [] OTHER                              -> 3
Better(r, m, n) ==
  \/ BucketOf(r, m) < BucketOf(r, n)
  \/ BucketOf(r, m) = BucketOf(r, n) /\ r.score[m] > r.score[n]
First(r, S) == {n \in S : \A m \in S : ~Better(r, m, n)}

(* What is left for the nodes after the last turn's text is reserved. *)
Room_TwiceReserved(c) == TokenBudget - 2 * c[Len(c)].tokens
Room(c) == TokenBudget - c[Len(c)].tokens

(* selectWithinBudget; a bucket is not opened when nothing is left for it.  *)
Selects(r, c, S, n) ==
  /\ Eval!Tokens(r.tree, S) + r.tree.node[n].tokens <= Room(c)
  /\ Eval!Tokens(r.tree, {m \in S : BucketOf(r, m) < BucketOf(r, n)}) < Room(c)

(* The pass, node by node; of nodes with equal scores either comes first.   *)
Looked(r, c, s, n) ==
  [todo |-> s.todo \ {n},
   taken |-> IF Selects(r, c, s.taken, n) THEN s.taken \cup {n} ELSE s.taken]
Selections(r, c) ==
  LET all == ActiveNodes(r)
      pass[i \in 0 .. Cardinality(all)] ==
        IF i = 0 THEN {[todo |-> all, taken |-> {}]}
        ELSE UNION {{Looked(r, c, s, n) : n \in First(r, s.todo)} : s \in pass[i - 1]}
  IN {s.taken : s \in pass[Cardinality(all)]}

(* In that prompt it looks for the text of the last three turns: an empty   *)
(* one is in every prompt, a repeated one may be there with another node.   *)
(* (A text that happens to be part of another one is found, too.)           *)
LastTurns(c) == {n \in DOMAIN c : n > Len(c) - 3}
RecentIncluded(c, S) ==
  \E n \in LastTurns(c) :
    \/ c[n].text = "blank" /\ c[n].tokens = 0
    \/ \E m \in S : SameTitle(c, m, n)

CheckCoherency(r, c, S) ==
  [goal |-> HalfRetained(r, "goal"), constraint |-> HalfRetained(r, "constraint"),
   recent |-> RecentIncluded(c, S)]

TurnRequests == Drivers \cup {"stress query", "incremental query"}
QuestionRequests == {"eval query", "frozen query"}

Next ==
  \/ /\ Len(turns) < Len(Script)
     /\ \E t \in Script[Len(turns) + 1], failed \in SUBSET TurnRequests :
          Turn(t, failed)
  \/ \E failed \in SUBSET QuestionRequests : Ask(failed)

Spec == Init /\ [][Next]_vars
-----------------------------------------------------------------------------
(* Properties *)

IsRun(r) ==
  /\ r.tree.turn \in 0 .. Len(turns)
  /\ r.embedded \subseteq 1 .. r.tree.turn
  /\ r.active \cup r.archive = r.embedded
  /\ r.prompt \subseteq 0 .. r.tree.turn
  /\ r.gcRuns \in 0 .. r.tree.turn /\ r.freed \in Nat
  /\ r.compiled \in {"no", "plain", "semantic"}

(* Every program keeps one node per turn it has read, every embedding it    *)
(* has obtained is a key of one of its indexes, and it prompts with nodes   *)
(* of its tree only.                                                        *)
TypeOK ==
  /\ turns \in Seq(TurnRecords)
  /\ DOMAIN run = Drivers /\ \A d \in Drivers : IsRun(run[d])
  /\ failures \in 0 .. MaxFailures

(* The copies of the worker's loop in the evaluation, the stress test and   *)
(* the incremental benchmark keep the indexes in step with the tree, like   *)
(* the worker does (IndexesMirrorTree of SemanticMemory).                   *)
Mirrors(r) ==
  /\ r.active = r.embedded \cap ActiveNodes(r)
  /\ r.archive = r.embedded \cap ArchivedNodes(r)

ReplaysMirrorTree == \A d \in Drivers \ {"frozen"} : Mirrors(run[d])

(* Archiving a node does not lose it for a semantic prompt: as long as the  *)
(* archive fits in TopK hits, every node with an embedding is considered    *)
(* again.  (The frozen benchmark, whose archived nodes stay in the active   *)
(* index, needs room there for the active ones too.)                        *)
ArchivedComeBack ==
  \A d \in Drivers : LET r == run[d] IN
    /\ r.compiled = "semantic"
    /\ Cardinality(IF d = "frozen" THEN r.active ELSE r.archive) <= TopK
    => r.prompt = ActiveNodes(r) \cup r.embedded

Archives(d) == ArchivedNodes(run[d])' \ ArchivedNodes(run[d])

(* What the weights add up to.  A user turn that is not repeated and not    *)
(* oversized stays at least until eight turns later; and in the replays     *)
(* that keep their anchor, one on the topic of the user's latest question   *)
(* stays until it is stale.                                                 *)
Ordinary(d, n) ==
  /\ n > 0 /\ turns'[n].role = "user"
  /\ ~turns'[n].filler
  /\ turns'[n].tokens <= MaxTokensPerNode

RecentTurnsStay ==
  [][\A d \in Drivers : \A n \in Archives(d) :
       Ordinary(d, n) => Len(turns') - n > 8]_vars

RelevantTurnsStay ==
  [][\A d \in Drivers \ {"frozen"} : \A n \in Archives(d) :
       /\ Ordinary(d, n) /\ n \in run'[d].embedded
       /\ run'[d].anchor = turns'[n].topic
       => Len(turns') - n > StaleAfterTurns]_vars

(* What makes a check of the stress test fail is age, size, repetition or   *)
(* the token budget, whatever the policy collected: a check of goals or     *)
(* constraints passes as long as half of them carry facts, or are ordinary  *)
(* and no older than eight turns; that of the recent turns, as long as one  *)
(* of them is such and the budget has room for it behind the last turn's    *)
(* text, the buckets before its own and what of its own scores no worse.    *)
CoherencyFollowsAge ==
  LET r == run["stress"]
      safe(n) == \/ r.tree.node[n].keep
                 \/ /\ n > 0 /\ ~turns[n].filler /\ turns[n].role = "user"
                    /\ turns[n].tokens <= MaxTokensPerNode
                    /\ Len(turns) - n <= 8
      half(type) == 2 * Cardinality({n \in OfType(r, type) : safe(n)})
                      >= Cardinality(OfType(r, type))
      fits(n) == /\ turns[n].tokens > 0
                 /\ turns[Len(turns)].tokens
                      + Eval!Tokens(r.tree, {m \in ActiveNodes(r) : ~Better(r, n, m)})
                    <= TokenBudget
  IN turns # <<>> =>
       \A S \in Selections(r, turns) : LET check == CheckCoherency(r, turns, S) IN
         /\ half("goal") => check.goal
         /\ half("constraint") => check.constraint
         /\ (\E n \in LastTurns(turns) : safe(n) /\ fits(n)) => check.recent

(* "Re-run full ingest to rebuild identical session state" (cachebench      *)
(* main.go:305): the frozen session is not identical to the incremental     *)
(* one.  It scores without an anchor after each reply, and so, in the       *)
(* conversations of the run, it has archived whatever the other has and     *)
(* sometimes more.                                                          *)
FrozenForgetsMore ==
  failures = 0 /\ Len(turns) <= Max(Ends)
    => ArchivedNodes(run["incremental"]) \subseteq ArchivedNodes(run["frozen"])

(* What the code does with a turn that does not fit: it skips it and goes   *)
(* on, so naive and sliding take every turn that still fits behind the      *)
(* older or the newer ones they have taken.                                 *)
Greedy(taken, before(_, _)) ==
  \A n \in DOMAIN turns :
    n \in taken <=>
      CostOf(turns, {m \in taken : before(m, n)}) + turns[n].tokens <= TokenBudget

WindowsAreGreedy ==
  /\ Greedy(Naive(turns), LAMBDA m, n : m < n)
  /\ Greedy(Sliding(turns), LAMBDA m, n : m > n)

(* What the comments say it does: naive returns nodes "until the budget is  *)
(* hit" (strategy.go:88), "until the token budget is exhausted"             *)
(* (strategy_naive.go:4), sliding keeps them newest-first "until the budget *)
(* is hit" (strategy_sliding.go:23).  Behind a turn that was left out there *)
(* would be none that was taken.                                            *)
WindowsStopWhenFull ==
  /\ \A m, n \in DOMAIN turns : m < n /\ n \in Naive(turns) => m \in Naive(turns)
  /\ \A m, n \in DOMAIN turns : m < n /\ m \in Sliding(turns) => n \in Sliding(turns)
=============================================================================
