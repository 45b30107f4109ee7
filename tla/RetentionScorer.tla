---------------------------- MODULE RetentionScorer ----------------------------
(***************************************************************************)
(* The retention score of a node: internal/scorer/scorer.go.               *)
(*                                                                         *)
(* Signals are in thousandths and weights in hundredths, so scores are in  *)
(* hundred-thousandths.  OpenIssues and Dependencies are never set on a    *)
(* node that is not a compressed branch, and no node is ever "resolved":   *)
(* those three terms of the code's sum are always zero and are left out.   *)
(***************************************************************************)
EXTENDS Integers

CONSTANTS
  Recency,                \* exp(-0.1 * distance), by turn distance
  SemanticWeight,         \* Weights.Semantic, in hundredths
  StaleAfterTurns,
  MaxTokensPerNode,       \* 0 disables the size penalty
  LowRelevanceThreshold,  \* gc.Policy, in hundredths
  DecisionSweepFloor      \* gc.Policy, in hundredths

One == 1000               \* a signal of 1.0
Points(hundredths) == hundredths * One

(* The weights and the sums of the tests below only need of exp that it     *)
(* falls, and that it has not fallen under .44 at a distance of eight.      *)
ASSUME RecencyAssumption ==
  /\ 0 .. 8 \subseteq DOMAIN Recency
  /\ \A d \in DOMAIN Recency : Recency[d] \in 0 .. One
  /\ \A d \in 0 .. 8 : Recency[d] >= 440
ASSUME ScorerAssumption ==
  /\ SemanticWeight \in 0 .. 100
  /\ StaleAfterTurns \in Nat \ 0 .. 8
  /\ MaxTokensPerNode \in Nat
ASSUME FloorAssumption ==
  /\ LowRelevanceThreshold \in 0 .. 30
  /\ DecisionSweepFloor \in 0 .. 100

AtMost(bound, x) == IF x > bound THEN bound ELSE x

(* Faulty variants of a definition, which the properties must tell from it, *)
(* stand just before it and bear its name with a suffix.                    *)

TypePriority(type) ==
  CASE type = "goal"        -> 1000
    [] type = "constraint"  -> 950
    [] type = "decision"    -> 800
    [] type = "issue"       -> 700
    [] type = "tool_result" -> 500
    [] type = "attempt"     -> 400
    [] type \in {"summary", "compressed_branch"} -> 600
    [] type = "background"  -> 200
    [] OTHER                -> 300

Redundancy_SelfCounts(copies) == AtMost(One, copies * 300)
(* copies counts the active nodes with this title, the node itself included. *)
Redundancy(copies) == AtMost(One, (copies - 1) * 300)

StalePenalty_FromTheStart(distance) ==
  AtMost(One, (distance * One) \div StaleAfterTurns)
StalePenalty(distance) ==
  IF distance <= StaleAfterTurns THEN 0
  ELSE AtMost(One, ((distance - StaleAfterTurns) * One) \div StaleAfterTurns)

SizePenalty(tokens) ==
  IF MaxTokensPerNode = 0 \/ tokens <= MaxTokensPerNode THEN 0
  ELSE AtMost(One, (tokens * One) \div MaxTokensPerNode - One)

Clamp(x) == IF x < 0 THEN 0 ELSE AtMost(Points(100), x)

RetentionScore_NoSemantic(type, distance, copies, tokens, similarity) ==
  Clamp(25 * Recency[distance] + 20 * TypePriority(type) - 10 * Redundancy(copies)
          - 15 * StalePenalty(distance) - 5 * SizePenalty(tokens))
(* similarity is the cosine with the anchor query, 0 when either side has   *)
(* no embedding.                                                            *)
RetentionScore(type, distance, copies, tokens, similarity) ==
  Clamp(25 * Recency[distance]
          + 20 * TypePriority(type)
          + SemanticWeight * similarity
          - 10 * Redundancy(copies)
          - 15 * StalePenalty(distance)
          - 5 * SizePenalty(tokens))

(* The sweep's test in GarbageCollector.Run, for a node it does not defer.  *)
Sweepable(type, score) ==
  /\ score < Points(LowRelevanceThreshold)
  /\ type = "decision" => DecisionSweepFloor < LowRelevanceThreshold
=============================================================================
