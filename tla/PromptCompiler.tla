----------------------------- MODULE PromptCompiler -----------------------------
(***************************************************************************)
(* internal/compiler/compiler.go: one compilation of a prompt.  The nodes  *)
(* are put in seven buckets by their type, each bucket is sorted by score, *)
(* and a greedy pass over the buckets keeps what fits the token budget.    *)
(*                                                                         *)
(* The worker of the session scores the same nodes without a lock, also    *)
(* while they are being sorted: then a bucket ends up in any order.        *)
(* Costs cannot change, since nothing rewrites a node's text.              *)
(*                                                                         *)
(* Text is its number of tokens, and the tokens of a text are those of its *)
(* parts.  A score is a whole number of some small unit.                   *)
(***************************************************************************)
EXTENDS Integers, FiniteSets, FiniteSetsExt

CONSTANTS
  Ids,             \* node ids
  Inputs,          \* what the nodes of a compilation may be
  HitScores,       \* what an index may say of a node, in units of score
  Budgets,         \* token budgets of the session or the request
  SystemTokens, UserTokens,  \* tokens of the system prompt and the question
  HeadingTokens    \* tokens of a section's heading and separator

NodeTypes == {"goal", "constraint", "decision", "compressed_branch", "summary",
              "tool_result", "issue", "attempt", "background"}

(* summary: tokens of Summary; line: tokens of the line that is printed,    *)
(* the title when there is no summary; extra: tokens of Facts and Decisions *)
NodeRecords == [type : NodeTypes, tokens : Nat, summary : Nat, line : Nat,
                extra : Nat, score : Int, semantic : Int]

ASSUME IdsAssumption == IsFiniteSet(Ids)
ASSUME InputsAssumption == Inputs \subseteq NodeRecords
ASSUME ScoresAssumption == HitScores \subseteq Int
ASSUME TokensAssumption ==
  /\ Budgets \subseteq Nat
  /\ SystemTokens \in Nat /\ UserTokens \in Nat /\ HeadingTokens \in Nat

VARIABLES
  at,        \* where the compilation is
  node,      \* the nodes it was given
  hits,      \* the merged hits of the semantic queries
  budget,    \* Compiler.tokenBudget
  rank,      \* the order of the nodes after sorting
  raced,     \* the worker scored them meanwhile
  bucket,    \* the bucket of the priority pass
  todo,      \* selectWithinBudget: its nodes not yet looked at,
  picked,    \*   selected,
  dropped,   \*   excluded,
  fill,      \*   tokensUsed
  used,      \* tokensUsed of the prompt
  taken,     \* the nodes of the prompt
  refs,      \* ExcludedNodeRefs
  body       \* tokens of FinalPrompt

inputVars == <<node, hits, budget, rank, raced>>
selectVars == <<todo, picked, dropped, fill>>
promptVars == <<used, taken, refs, body>>
vars == <<at, bucket, inputVars, selectVars, promptVars>>

Reserved == SystemTokens + UserTokens
Buckets == 1 .. 7

BucketOf(n) ==
  CASE node[n].type = "goal"                              -> 1
    [] node[n].type = "constraint"                        -> 2
    [] node[n].type = "decision"                          -> 3
    [] node[n].type \in {"compressed_branch", "summary"}  -> 4
    [] node[n].type = "tool_result"                       -> 5
    [] node[n].type = "issue"                             -> 6
    [] OTHER                                              -> 7

InBucket(b) == {n \in DOMAIN node : BucketOf(n) = b}

(* emitsFactsLine *)
Facts(n) == IF BucketOf(n) = 4 THEN node[n].extra ELSE 0

(* What selectWithinBudget thinks a node costs: not what it prints, which   *)
(* is cut off at 500 characters but has a bullet, or a title.               *)
Cost(n) == Facts(n) + (IF node[n].tokens = 0 THEN node[n].summary ELSE node[n].tokens)
Printed(n) == Facts(n) + node[n].line

(* CompileWithSemantic: a hit replaces the semantic part of the score.      *)
Effective(n) ==
  node[n].score + (IF n \in DOMAIN hits THEN hits[n] - node[n].semantic ELSE 0)

Remaining == budget - used

Init ==
  /\ at = "sort"
  /\ \E S \in SUBSET Ids : node \in [S -> Inputs]
  /\ \E T \in SUBSET DOMAIN node : hits \in [T -> HitScores]
  /\ budget \in Budgets
  /\ rank = [n \in {} |-> 0] /\ raced = FALSE
  /\ bucket = 1 /\ todo = {} /\ picked = {} /\ dropped = {} /\ fill = 0
  /\ used = Reserved /\ taken = {} /\ refs = {} /\ body = 0

-----------------------------------------------------------------------------
(* Faulty variants of a definition, which the properties must tell from it, *)
(* stand just before it and bear its name with a suffix.                    *)
BestFirst_Reversed(r) ==
  \A m, n \in DOMAIN node :
    BucketOf(m) = BucketOf(n) /\ Effective(m) < Effective(n) => r[m] < r[n]

(* sortByScore and sortByEffective: best first; sort.Slice is not stable    *)
(* and the nodes come in map order, so equal scores may end up either way.  *)
BestFirst(r) ==
  \A m, n \in DOMAIN node :
    BucketOf(m) = BucketOf(n) /\ Effective(m) > Effective(n) => r[m] < r[n]

Orders ==
  {r \in [DOMAIN node -> 1 .. Cardinality(DOMAIN node)] :
     \A m, n \in DOMAIN node : r[m] = r[n] => m = n}

SortBuckets ==
  /\ at = "sort"
  /\ at' = "bucket"
  /\ raced' \in BOOLEAN
  /\ rank' \in {r \in Orders : raced' \/ BestFirst(r)}
  /\ UNCHANGED <<node, hits, budget, bucket, selectVars, promptVars>>

-----------------------------------------------------------------------------
(* The pass over the buckets *)

SkipBucket ==
  /\ at = "bucket" /\ bucket \in Buckets
  /\ Remaining <= 0 \/ InBucket(bucket) = {}
  /\ bucket' = bucket + 1
  /\ UNCHANGED <<at, inputVars, selectVars, promptVars>>

OpenBucket ==
  /\ at = "bucket" /\ bucket \in Buckets
  /\ Remaining > 0 /\ InBucket(bucket) # {}
  /\ at' = "select"
  /\ todo' = InBucket(bucket) /\ picked' = {} /\ dropped' = {} /\ fill' = 0
  /\ UNCHANGED <<bucket, inputVars, promptVars>>

Fits_WholeBudget(n) == fill + Cost(n) <= budget - Reserved

Fits(n) == fill + Cost(n) <= Remaining

(* selectWithinBudget looks at every node, best first, also after one that  *)
(* did not fit.                                                             *)
Best(n) == n \in todo /\ \A m \in todo : rank[n] <= rank[m]

Select(n) ==
  /\ at = "select" /\ Best(n) /\ Fits(n)
  /\ todo' = todo \ {n}
  /\ picked' = picked \cup {n}
  /\ fill' = fill + Cost(n)
  /\ UNCHANGED <<at, bucket, dropped, inputVars, promptVars>>

Exclude_Rest(n) ==
  /\ at = "select" /\ Best(n) /\ ~Fits(n)
  /\ todo' = {}
  /\ dropped' = dropped \cup todo
  /\ UNCHANGED <<at, bucket, picked, fill, inputVars, promptVars>>

Exclude(n) ==
  /\ at = "select" /\ Best(n) /\ ~Fits(n)
  /\ todo' = todo \ {n}
  /\ dropped' = dropped \cup {n}
  /\ UNCHANGED <<at, bucket, picked, fill, inputVars, promptVars>>

CloseBucket_LastRefs ==
  /\ at = "select" /\ todo = {}
  /\ at' = "bucket" /\ bucket' = bucket + 1
  /\ IF picked = {} THEN UNCHANGED promptVars
     ELSE /\ taken' = taken \cup picked
          /\ used' = used + fill
          /\ refs' = dropped
          /\ body' = body + HeadingTokens + MapThenSumSet(Printed, picked)
  /\ UNCHANGED <<inputVars, selectVars>>

(* A section is rendered, and what was left out of it reported, only when   *)
(* some node of the bucket was selected.                                    *)
CloseBucket ==
  /\ at = "select" /\ todo = {}
  /\ at' = "bucket" /\ bucket' = bucket + 1
  /\ IF picked = {} THEN UNCHANGED promptVars
     ELSE /\ taken' = taken \cup picked
          /\ used' = used + fill
          /\ refs' = refs \cup dropped
          /\ body' = body + HeadingTokens + MapThenSumSet(Printed, picked)
  /\ UNCHANGED <<inputVars, selectVars>>

Finish ==
  /\ at = "bucket" /\ bucket \notin Buckets
  /\ at' = "done"
  /\ UNCHANGED <<bucket, inputVars, selectVars, promptVars>>

Next ==
  \/ SortBuckets \/ SkipBucket \/ OpenBucket
  \/ \E n \in Ids : Select(n) \/ Exclude(n)
  \/ CloseBucket \/ Finish

Spec == Init /\ [][Next]_vars

CompiledTokenCount == SystemTokens + body + UserTokens
-----------------------------------------------------------------------------
(* Properties *)

(* What the prompt has or is about to have. *)
Chosen == taken \cup picked

(* A node is looked at once, in the bucket of its type: it is never both in *)
(* the prompt and among the excluded ones.                                  *)
TypeOK ==
  /\ at \in {"sort", "bucket", "select", "done"}
  /\ \E S \in SUBSET Ids : node \in [S -> Inputs]
  /\ \E T \in SUBSET DOMAIN node : hits \in [T -> HitScores]
  /\ budget \in Budgets
  /\ raced \in BOOLEAN
  /\ rank \in [DOMAIN node -> 1 .. Cardinality(DOMAIN node)] \/ at = "sort"
  /\ bucket \in 1 .. 8 /\ (at = "select" => bucket \in Buckets)
  /\ todo \subseteq DOMAIN node /\ Chosen \subseteq DOMAIN node
  /\ refs \cup dropped \subseteq DOMAIN node \ Chosen
  /\ todo \cap (Chosen \cup refs \cup dropped) = {}
  /\ fill \in Nat /\ used \in Nat

(* README.md:471, "nothing bypasses the cap": what has been selected so far *)
(* fits the budget, in every bucket and over all of them, however the nodes *)
(* were sorted.  It is a cap on costs: CompiledTokenCount may exceed the    *)
(* budget by the headings and by what Printed has more than Cost.           *)
FitsBudget ==
  /\ taken # {} => used <= budget
  /\ at = "select" => used + fill <= budget

(* A node is before another in the order of the pass. *)
Before(m, n) ==
  \/ BucketOf(m) < BucketOf(n)
  \/ BucketOf(m) = BucketOf(n) /\ ~raced /\ Effective(m) > Effective(n)

(* README.md:471, priority order: a node that is in the prompt while one    *)
(* of higher priority, or one of the same bucket with a better score, is    *)
(* not, is cheaper than that one.                                           *)
PriorityWins ==
  \A m, n \in DOMAIN node :
    Before(m, n) /\ n \in Chosen /\ m \notin Chosen => Cost(n) < Cost(m)

(* The pass is greedy to the end: of a finished prompt nothing is left out  *)
(* that would still fit, unless it costs nothing.                           *)
NothingThatFitsIsLeftOut ==
  at = "done" =>
    \A n \in DOMAIN node \ taken : Cost(n) = 0 \/ used + Cost(n) > budget

(* ExcludedNodeRefs leaves out no node of a bucket that is in the prompt:   *)
(* only the nodes of whole buckets go missing without being reported.       *)
SectionsReportWhatTheyLack ==
  at = "done" =>
    \A b \in Buckets :
      InBucket(b) \cap taken # {} => InBucket(b) \ taken \subseteq refs
=============================================================================
