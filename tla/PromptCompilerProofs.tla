-------------------------- MODULE PromptCompilerProofs --------------------------
(***************************************************************************)
(* The theorems of PromptCompiler, for every set of nodes, scores, hits,   *)
(* budgets and token counts, whether or not scoring disturbs the sorting.  *)
(***************************************************************************)
EXTENDS PromptCompiler, FiniteSetTheorems, TLAPS

(* What the pass over the buckets has behind it, and before it.             *)
Behind ==
  /\ at = "sort" => Chosen = {} /\ bucket = 1 /\ used = Reserved
  /\ at # "sort" /\ ~raced => BestFirst(rank)
  /\ at # "select" => todo = {} /\ picked \subseteq taken
  /\ at = "done" => bucket = 8
  /\ \A n \in taken \cup refs : BucketOf(n) < bucket
  /\ at = "select" => /\ used < budget
                      /\ todo \cup picked \cup dropped = InBucket(bucket)
                      /\ picked = {} => fill = 0

(* A node that was left out did not fit, or nothing at all did any more.    *)
LeftOut ==
  /\ \A n \in DOMAIN node :
       BucketOf(n) < bucket /\ n \notin taken =>
         used + Cost(n) > budget \/ used >= budget
  /\ at = "select" => \A n \in dropped : used + fill + Cost(n) > budget

Reported ==
  \A b \in Buckets :
    b < bucket /\ InBucket(b) \cap taken # {} => InBucket(b) \ taken \subseteq refs

IInv == TypeOK /\ Behind /\ FitsBudget /\ LeftOut /\ PriorityWins /\ Reported

-----------------------------------------------------------------------------
(* The operators *)

(* Every node has a bucket. *)
LEMMA BucketType == \A n : BucketOf(n) \in Buckets
BY DEF BucketOf, Buckets

(* Costs are natural numbers, and the scores compared are integers.         *)
LEMMA CostType ==
  ASSUME TypeOK, NEW n \in DOMAIN node PROVE Cost(n) \in Nat /\ Effective(n) \in Int
<1>1. node[n] \in NodeRecords
  BY InputsAssumption DEF TypeOK
<1>2. Cost(n) \in Nat
  BY <1>1 DEF Cost, Facts, NodeRecords
<1>3. n \in DOMAIN hits => hits[n] \in Int
  BY ScoresAssumption DEF TypeOK
<1> QED BY <1>1, <1>2, <1>3 DEF Effective, NodeRecords

(* Ranks are numbers that can be compared. *)
LEMMA RankType ==
  ASSUME TypeOK, at # "sort", NEW n \in DOMAIN node PROVE rank[n] \in Int
<1>1. IsFiniteSet(DOMAIN node)
  BY IdsAssumption, FS_Subset DEF TypeOK
<1>2. Cardinality(DOMAIN node) \in Nat
  BY <1>1, FS_CardinalityType
<1> QED BY <1>2 DEF TypeOK

-----------------------------------------------------------------------------
(* IInv holds initially ... *)
LEMMA InitIInv == Init => IInv
<1> SUFFICES ASSUME Init PROVE IInv
  OBVIOUS
<1>1. Chosen = {} /\ at = "sort" /\ bucket = 1 /\ used = Reserved
  BY DEF Init, Chosen
<1>2. TypeOK
  <2>1. /\ \E S \in SUBSET Ids : node \in [S -> Inputs]
        /\ \E T \in SUBSET DOMAIN node : hits \in [T -> HitScores]
    BY DEF Init
  <2>2. used \in Nat /\ fill \in Nat /\ bucket \in 1 .. 8
    BY TokensAssumption DEF Init, Reserved
  <2>3. /\ at = "sort" /\ budget \in Budgets /\ raced \in BOOLEAN
        /\ todo = {} /\ dropped = {} /\ refs = {}
    BY DEF Init
  <2> QED BY <1>1, <2>1, <2>2, <2>3 DEF TypeOK
<1>3. Behind
  BY <1>1 DEF Init, Behind, Chosen
<1>4. FitsBudget
  BY DEF Init, FitsBudget
<1>5. LeftOut
  <2> SUFFICES ASSUME NEW n \in DOMAIN node PROVE ~(BucketOf(n) < bucket)
    BY <1>1 DEF LeftOut
  <2> QED BY <1>1, BucketType DEF Buckets
<1>6. PriorityWins
  BY <1>1 DEF PriorityWins
<1>7. Reported
  BY <1>1 DEF Reported, Buckets
<1> QED BY <1>2, <1>3, <1>4, <1>5, <1>6, <1>7 DEF IInv

-----------------------------------------------------------------------------
(* ... and is kept by every step.  The inputs never change once sorted, so  *)
(* neither do buckets, costs and the order.                                 *)
LEMMA SameInputs ==
  ASSUME UNCHANGED inputVars
  PROVE  /\ \A n : /\ BucketOf(n)' = BucketOf(n)
                  /\ Cost(n)' = Cost(n)
                  /\ Effective(n)' = Effective(n)
         /\ \A b : InBucket(b)' = InBucket(b)
         /\ \A m, n : Before(m, n)' = Before(m, n)
         /\ BestFirst(rank)' = BestFirst(rank)
<1> USE DEF inputVars
<1>1. \A n : BucketOf(n)' = BucketOf(n)
  BY DEF BucketOf
<1>2. \A n : Cost(n)' = Cost(n) /\ Effective(n)' = Effective(n)
  BY <1>1 DEF Cost, Facts, Effective
<1>3. \A b : InBucket(b)' = InBucket(b)
  BY <1>1 DEF InBucket
<1>4. \A m, n : Before(m, n)' = Before(m, n)
  BY <1>1, <1>2 DEF Before
<1>5. BestFirst(rank)' = BestFirst(rank)
  BY <1>1, <1>2 DEF BestFirst
<1> QED BY <1>1, <1>2, <1>3, <1>4, <1>5

(* Sorting: nothing has been selected yet. *)
LEMMA SortKeeps == IInv /\ SortBuckets => IInv'
<1> SUFFICES ASSUME IInv, SortBuckets PROVE IInv'
  OBVIOUS
<1>1. /\ UNCHANGED <<node, hits, budget, bucket, todo, picked, dropped, fill,
                     used, taken, refs>>
      /\ at = "sort" /\ at' = "bucket" /\ raced' \in BOOLEAN
      /\ rank' \in Orders /\ (~raced' => BestFirst(rank'))
  BY DEF SortBuckets, selectVars, promptVars
<1>2. \A n : BucketOf(n)' = BucketOf(n) /\ Cost(n)' = Cost(n) /\ Effective(n)' = Effective(n)
  BY <1>1 DEF BucketOf, Cost, Facts, Effective
<1>3. Chosen = {} /\ Chosen' = {} /\ bucket = 1 /\ taken = {} /\ picked = {}
  BY <1>1 DEF IInv, Behind, Chosen
<1>4. TypeOK'
  BY <1>1, <1>3 DEF IInv, TypeOK, Orders
<1>5. Behind'
  <2>1. ~raced' => BestFirst(rank)'
    BY <1>1, <1>2 DEF BestFirst
  <2>2. todo = {} /\ taken = {} /\ refs = {}
    BY <1>1, <1>3, BucketType DEF IInv, Behind, TypeOK, Buckets
  <2> QED BY <1>1, <1>3, <2>1, <2>2 DEF Behind
<1>6. FitsBudget'
  BY <1>1, <1>3 DEF FitsBudget
<1>7. LeftOut'
  <2> SUFFICES ASSUME NEW n \in DOMAIN node PROVE ~(BucketOf(n) < 1)
    BY <1>1, <1>2, <1>3 DEF LeftOut
  <2> QED BY BucketType DEF Buckets
<1>8. PriorityWins'
  BY <1>3 DEF PriorityWins
<1>9. Reported'
  BY <1>1, <1>3 DEF Reported, Buckets
<1> QED BY <1>4, <1>5, <1>6, <1>7, <1>8, <1>9 DEF IInv

(* Skipping a bucket: it is empty, or nothing fits any more.                *)
LEMMA SkipKeeps == IInv /\ SkipBucket => IInv'
<1> SUFFICES ASSUME IInv, SkipBucket PROVE IInv'
  OBVIOUS
<1>1. /\ UNCHANGED <<at, inputVars, todo, picked, dropped, fill, used, taken, refs>>
      /\ at = "bucket" /\ bucket \in 1 .. 7 /\ bucket' = bucket + 1
      /\ used \in Nat /\ budget \in Nat
      /\ used >= budget \/ InBucket(bucket) = {}
  BY TokensAssumption DEF SkipBucket, Buckets, selectVars, promptVars, Remaining, IInv, TypeOK
<1>2. UNCHANGED inputVars
  BY <1>1
<1>3. Chosen' = Chosen
  BY <1>1 DEF Chosen
<1>4. TypeOK'
  <2>1. bucket' \in 1 .. 8
    BY <1>1
  <2> QED BY <1>1, <1>3, <2>1 DEF IInv, TypeOK, inputVars
<1>5. Behind'
  <2>1. \A n \in taken \cup refs : BucketOf(n) < bucket + 1
    BY <1>1, BucketType DEF IInv, Behind, Buckets
  <2> QED BY <1>1, <1>2, <1>3, <2>1, SameInputs DEF IInv, Behind, inputVars
<1>6. FitsBudget'
  BY <1>1 DEF IInv, FitsBudget, inputVars
<1>7. LeftOut'
  <2>1. ASSUME NEW n \in DOMAIN node, BucketOf(n) < bucket + 1, n \notin taken
        PROVE  used + Cost(n) > budget \/ used >= budget
    <3>1. CASE BucketOf(n) < bucket
      BY <2>1, <3>1 DEF IInv, LeftOut
    <3>2. CASE BucketOf(n) = bucket
      BY <1>1, <2>1, <3>2 DEF InBucket
    <3> QED BY <1>1, <2>1, <3>1, <3>2, BucketType DEF Buckets
  <2> QED BY <1>1, <1>2, <2>1, SameInputs DEF LeftOut, inputVars
<1>8. PriorityWins'
  BY <1>2, <1>3, SameInputs DEF IInv, PriorityWins, inputVars
<1>9. Reported'
  <2>1. ASSUME NEW b \in Buckets, b < bucket + 1, InBucket(b) \cap taken # {}
        PROVE  InBucket(b) \ taken \subseteq refs
    <3>1. b # bucket
      BY <1>1, <2>1 DEF IInv, Behind, InBucket
    <3> QED BY <1>1, <2>1, <3>1 DEF IInv, Reported, Buckets
  <2> QED BY <1>1, <1>2, <2>1, SameInputs DEF Reported
<1> QED BY <1>4, <1>5, <1>6, <1>7, <1>8, <1>9 DEF IInv

(* Opening a bucket: what was picked before is in the prompt.               *)
LEMMA OpenKeeps == IInv /\ OpenBucket => IInv'
<1> SUFFICES ASSUME IInv, OpenBucket PROVE IInv'
  OBVIOUS
<1>1. /\ UNCHANGED <<inputVars, bucket, used, taken, refs>>
      /\ at = "bucket" /\ at' = "select" /\ bucket \in Buckets
      /\ todo' = InBucket(bucket) /\ picked' = {} /\ dropped' = {} /\ fill' = 0
      /\ used \in Nat /\ budget \in Nat /\ used < budget
  BY TokensAssumption DEF OpenBucket, Buckets, promptVars, Remaining, IInv, TypeOK
<1>2. UNCHANGED inputVars
  BY <1>1
<1>3. Chosen = taken /\ Chosen' = taken
  BY <1>1 DEF Chosen, IInv, Behind
<1>4. TypeOK'
  <2>1. InBucket(bucket) \cap (taken \cup refs) = {}
    BY <1>1 DEF IInv, Behind, InBucket, Buckets
  <2> QED BY <1>1, <1>3, <2>1 DEF IInv, TypeOK, InBucket, inputVars
<1>5. Behind'
  BY <1>1, <1>2, <1>3, SameInputs DEF IInv, Behind, inputVars
<1>6. FitsBudget'
  BY <1>1 DEF IInv, FitsBudget, inputVars
<1>7. LeftOut'
  BY <1>1, <1>2, SameInputs DEF IInv, LeftOut, inputVars
<1>8. PriorityWins'
  BY <1>2, <1>3, SameInputs DEF IInv, PriorityWins, inputVars
<1>9. Reported'
  BY <1>1, <1>2, SameInputs DEF IInv, Reported
<1> QED BY <1>4, <1>5, <1>6, <1>7, <1>8, <1>9 DEF IInv

(* Looking at the best node left in the bucket, n. *)
LEMMA SelectKeeps == ASSUME NEW n \in Ids, IInv, Select(n) PROVE IInv'
<1>1. /\ UNCHANGED <<at, inputVars, bucket, dropped, used, taken, refs>>
      /\ at = "select" /\ n \in todo /\ bucket \in Buckets
      /\ \A m \in todo : rank[n] <= rank[m]
      /\ used + fill + Cost(n) <= budget
      /\ todo' = todo \ {n} /\ picked' = picked \cup {n} /\ fill' = fill + Cost(n)
      /\ used \in Nat /\ budget \in Nat /\ fill \in Nat
  <2>1. n \in DOMAIN node /\ used \in Nat /\ budget \in Nat /\ fill \in Nat
    BY TokensAssumption DEF IInv, TypeOK, Select, Best
  <2>2. Cost(n) \in Nat
    BY <2>1, CostType DEF IInv
  <2>3. used + fill + Cost(n) <= budget
    BY <2>1, <2>2 DEF Select, Fits, Remaining
  <2> QED BY <2>1, <2>3 DEF Select, Best, promptVars, IInv, TypeOK
<1>2. UNCHANGED inputVars /\ n \in DOMAIN node /\ Cost(n) \in Nat
  BY <1>1, CostType DEF IInv, TypeOK
<1>3. Chosen' = Chosen \cup {n}
  BY <1>1 DEF Chosen
<1>4. TypeOK'
  <2>1. fill' \in Nat
    BY <1>1, <1>2
  <2>2. /\ todo' \subseteq DOMAIN node /\ Chosen' \subseteq DOMAIN node
        /\ refs \cup dropped \subseteq DOMAIN node \ Chosen'
        /\ todo' \cap (Chosen' \cup refs \cup dropped) = {}
    BY <1>1, <1>2, <1>3 DEF IInv, TypeOK
  <2> QED BY <1>1, <2>1, <2>2 DEF IInv, TypeOK, inputVars
<1>5. Behind'
  BY <1>1, <1>2, SameInputs DEF IInv, Behind, inputVars
<1>6. FitsBudget'
  BY <1>1, <1>2 DEF IInv, FitsBudget, inputVars
<1>7. LeftOut'
  <2>1. ASSUME NEW m \in dropped PROVE used + fill + Cost(n) + Cost(m) > budget
    <3>1. used + fill + Cost(m) > budget
      BY <1>1, <2>1 DEF IInv, LeftOut
    <3>2. Cost(m) \in Nat
      BY <2>1, CostType DEF IInv, TypeOK
    <3> QED BY <1>1, <1>2, <3>1, <3>2
  <2>2. \A m \in dropped : used + fill' + Cost(m) > budget
    <3> SUFFICES ASSUME NEW m \in dropped PROVE used + fill' + Cost(m) > budget
      OBVIOUS
    <3>1. Cost(m) \in Nat
      BY CostType DEF IInv, TypeOK
    <3> QED BY <1>1, <1>2, <2>1, <3>1
  <2> QED BY <1>1, <1>2, <2>2, SameInputs DEF IInv, LeftOut, inputVars
<1>8. PriorityWins'
  <2>1. ASSUME NEW m \in DOMAIN node, Before(m, n), m \notin Chosen PROVE Cost(n) < Cost(m)
    <3>1. Cost(m) \in Nat /\ Effective(m) \in Int /\ Effective(n) \in Int
      BY <1>2, CostType DEF IInv
    <3>2. BucketOf(n) = bucket
      BY <1>1 DEF IInv, Behind, InBucket
    <3>3. CASE BucketOf(m) < BucketOf(n)
      <4>1. used + Cost(m) > budget
        BY <1>1, <2>1, <3>1, <3>2, <3>3 DEF IInv, LeftOut, Behind, Chosen
      <4> QED BY <1>1, <1>2, <3>1, <4>1
    <3>4. CASE BucketOf(m) = BucketOf(n) /\ ~raced /\ Effective(m) > Effective(n)
      <4>1. rank[m] < rank[n]
        BY <1>1, <1>2, <3>4 DEF IInv, Behind, BestFirst
      <4>2. rank[m] \in Int /\ rank[n] \in Int
        BY <1>1, <1>2, RankType DEF IInv
      <4>3. m \notin todo
        BY <1>1, <4>1, <4>2
      <4>4. m \in dropped
        BY <1>1, <2>1, <3>2, <3>4, <4>3 DEF IInv, Behind, InBucket, Chosen
      <4>5. used + fill + Cost(m) > budget
        BY <1>1, <4>4 DEF IInv, LeftOut
      <4> QED BY <1>1, <1>2, <3>1, <4>5
    <3> QED BY <2>1, <3>3, <3>4 DEF Before
  <2> QED BY <1>2, <1>3, <2>1, SameInputs DEF IInv, PriorityWins, inputVars
<1>9. Reported'
  BY <1>1, <1>2, SameInputs DEF IInv, Reported
<1> QED BY <1>4, <1>5, <1>6, <1>7, <1>8, <1>9 DEF IInv

LEMMA ExcludeKeeps == ASSUME NEW n \in Ids, IInv, Exclude(n) PROVE IInv'
<1>1. /\ UNCHANGED <<at, inputVars, bucket, picked, fill, used, taken, refs>>
      /\ at = "select" /\ n \in todo /\ bucket \in Buckets
      /\ ~(fill + Cost(n) <= budget - used)
      /\ todo' = todo \ {n} /\ dropped' = dropped \cup {n}
      /\ used \in Nat /\ budget \in Nat /\ fill \in Nat
  BY TokensAssumption DEF Exclude, Best, Fits, Remaining, promptVars, IInv, TypeOK
<1>2. UNCHANGED inputVars /\ n \in DOMAIN node /\ Cost(n) \in Nat
  BY <1>1, CostType DEF IInv, TypeOK
<1>3. Chosen' = Chosen
  BY <1>1 DEF Chosen
<1>4. TypeOK'
  BY <1>1, <1>2, <1>3 DEF IInv, TypeOK, inputVars
<1>5. Behind'
  BY <1>1, <1>2, SameInputs DEF IInv, Behind, inputVars
<1>6. FitsBudget'
  BY <1>1 DEF IInv, FitsBudget, inputVars
<1>7. LeftOut'
  <2>1. used + fill + Cost(n) > budget
    BY <1>1, <1>2
  <2> QED BY <1>1, <1>2, <2>1, SameInputs DEF IInv, LeftOut, inputVars
<1>8. PriorityWins'
  BY <1>2, <1>3, SameInputs DEF IInv, PriorityWins, inputVars
<1>9. Reported'
  BY <1>1, <1>2, SameInputs DEF IInv, Reported
<1> QED BY <1>4, <1>5, <1>6, <1>7, <1>8, <1>9 DEF IInv

(* Closing a bucket, with a section or without. *)
LEMMA CloseKeeps == IInv /\ CloseBucket => IInv'
<1> SUFFICES ASSUME IInv, CloseBucket PROVE IInv'
  OBVIOUS
<1>1. /\ UNCHANGED <<inputVars, todo, picked, dropped, fill>>
      /\ at = "select" /\ at' = "bucket" /\ todo = {}
      /\ bucket \in 1 .. 7 /\ bucket' = bucket + 1
      /\ used \in Nat /\ budget \in Nat /\ fill \in Nat
      /\ used < budget /\ used + fill <= budget
  BY TokensAssumption DEF CloseBucket, selectVars, IInv, TypeOK, Buckets, Behind, FitsBudget
<1>2. UNCHANGED inputVars
  BY <1>1
<1>3. /\ taken' = taken \cup picked
      /\ \/ picked = {} /\ used' = used /\ refs' = refs
         \/ used' = used + fill /\ refs' = refs \cup dropped
  BY DEF CloseBucket, promptVars
<1>4. Chosen' = Chosen
  BY <1>1, <1>3 DEF Chosen
<1>5. InBucket(bucket) = picked \cup dropped
  BY <1>1 DEF IInv, Behind
<1>6. TypeOK'
  <2>1. used' \in Nat /\ bucket' \in 1 .. 8
    BY <1>1, <1>3
  <2>2. refs' \subseteq refs \cup dropped
    BY <1>3
  <2> QED BY <1>1, <1>4, <2>1, <2>2 DEF IInv, TypeOK, inputVars
<1>7. Behind'
  <2>1. \A n \in taken' \cup refs' : BucketOf(n) < bucket + 1
    BY <1>1, <1>3, <1>5, BucketType DEF IInv, Behind, InBucket, Buckets
  <2> QED BY <1>1, <1>2, <1>3, <2>1, SameInputs DEF IInv, Behind, inputVars
<1>8. FitsBudget'
  BY <1>1, <1>3 DEF IInv, FitsBudget, inputVars
<1>9. LeftOut'
  <2>1. ASSUME NEW n \in DOMAIN node, BucketOf(n) < bucket + 1, n \notin taken'
        PROVE  used' + Cost(n) > budget \/ used' >= budget
    <3>1. Cost(n) \in Nat
      BY CostType DEF IInv
    <3>2. CASE BucketOf(n) < bucket
      BY <1>1, <1>3, <2>1, <3>1, <3>2 DEF IInv, LeftOut
    <3>3. CASE BucketOf(n) = bucket
      <4>1. n \in dropped
        BY <1>3, <1>5, <2>1, <3>3 DEF InBucket
      <4>2. used + fill + Cost(n) > budget
        BY <1>1, <4>1 DEF IInv, LeftOut
      <4>3. picked = {} => fill = 0
        BY <1>1 DEF IInv, Behind
      <4> QED BY <1>1, <1>3, <3>1, <4>2, <4>3
    <3> QED BY <1>1, <2>1, <3>2, <3>3, BucketType DEF Buckets
  <2> QED BY <1>1, <1>2, <2>1, SameInputs DEF LeftOut, inputVars
<1>10. PriorityWins'
  BY <1>2, <1>4, SameInputs DEF IInv, PriorityWins, inputVars
<1>11. Reported'
  <2>1. ASSUME NEW b \in Buckets, b < bucket + 1, InBucket(b) \cap taken' # {}
        PROVE  InBucket(b) \ taken' \subseteq refs'
    <3>1. CASE b = bucket
      BY <1>1, <1>3, <1>5, <2>1, <3>1 DEF IInv, Behind, InBucket
    <3>2. CASE b < bucket
      <4>1. InBucket(b) \cap picked = {}
        BY <1>1, <1>5, <3>2 DEF InBucket, Buckets
      <4> QED BY <1>3, <2>1, <3>2, <4>1 DEF IInv, Reported
    <3> QED BY <1>1, <2>1, <3>1, <3>2 DEF Buckets
  <2> QED BY <1>1, <1>2, <2>1, SameInputs DEF Reported
<1> QED BY <1>6, <1>7, <1>8, <1>9, <1>10, <1>11 DEF IInv

LEMMA NextIInv == IInv /\ [Next]_vars => IInv'
<1> SUFFICES ASSUME IInv, [Next]_vars PROVE IInv'
  OBVIOUS
<1>1. CASE SortBuckets
  BY <1>1, SortKeeps
<1>2. CASE SkipBucket
  BY <1>2, SkipKeeps
<1>3. CASE OpenBucket
  BY <1>3, OpenKeeps
<1>4. CASE \E n \in Ids : Select(n) \/ Exclude(n)
  BY <1>4, SelectKeeps, ExcludeKeeps
<1>5. CASE CloseBucket
  BY <1>5, CloseKeeps
<1>6. CASE Finish \/ UNCHANGED vars
  <2>1. UNCHANGED inputVars /\ UNCHANGED <<bucket, selectVars, promptVars>>
    BY <1>6 DEF Finish, vars
  <2>2. \/ at' = at
        \/ at = "bucket" /\ at' = "done" /\ bucket \notin Buckets
    BY <1>6 DEF Finish, vars
  <2>3. Chosen' = Chosen
    BY <2>1 DEF Chosen, selectVars, promptVars
  <2>4. TypeOK'
    BY <2>1, <2>2, <2>3 DEF IInv, TypeOK, inputVars, selectVars, promptVars
  <2>5. Behind'
    <3>1. at' = "done" => bucket = 8
      BY <2>2 DEF IInv, Behind, TypeOK, Buckets
    <3> QED BY <2>1, <2>2, <2>3, <3>1, SameInputs
            DEF IInv, Behind, inputVars, selectVars, promptVars
  <2>6. FitsBudget' /\ LeftOut'
    BY <2>1, <2>2, SameInputs
    DEF IInv, FitsBudget, LeftOut, inputVars, selectVars, promptVars
  <2>7. PriorityWins' /\ Reported'
    BY <2>1, <2>3, SameInputs DEF IInv, PriorityWins, Reported, inputVars, promptVars
  <2> QED BY <2>4, <2>5, <2>6, <2>7 DEF IInv
<1> QED BY <1>1, <1>2, <1>3, <1>4, <1>5, <1>6 DEF Next

LEMMA Invariance == Spec => []IInv
BY InitIInv, NextIInv, PTL DEF Spec

-----------------------------------------------------------------------------
(* The theorems *)

(* A node is looked at once and never both in the prompt and reported as    *)
(* excluded.                                                                *)
THEOREM TypeCorrect == Spec => []TypeOK
<1>1. IInv => TypeOK
  BY DEF IInv
<1> QED BY <1>1, Invariance, PTL

(* Nothing bypasses the cap: what is selected fits the budget, whatever     *)
(* order the nodes were sorted in.                                          *)
THEOREM SelectionFitsBudget == Spec => []FitsBudget
<1>1. IInv => FitsBudget
  BY DEF IInv
<1> QED BY <1>1, Invariance, PTL

(* Only cheaper nodes get in ahead of nodes of higher priority.             *)
THEOREM PriorityIsKept == Spec => []PriorityWins
<1>1. IInv => PriorityWins
  BY DEF IInv
<1> QED BY <1>1, Invariance, PTL

(* The pass leaves out nothing that still fits at its end.                  *)
THEOREM GreedyToTheEnd == Spec => []NothingThatFitsIsLeftOut
<1>1. IInv => NothingThatFitsIsLeftOut
  <2> SUFFICES ASSUME IInv, at = "done", NEW n \in DOMAIN node \ taken
               PROVE  Cost(n) = 0 \/ used + Cost(n) > budget
    BY DEF NothingThatFitsIsLeftOut
  <2>1. BucketOf(n) < bucket
    BY BucketType DEF IInv, Behind, Buckets
  <2>2. Cost(n) \in Nat /\ used \in Nat /\ budget \in Nat
    BY CostType, TokensAssumption DEF IInv, TypeOK
  <2> QED BY <2>1, <2>2 DEF IInv, LeftOut
<1> QED BY <1>1, Invariance, PTL

(* A section of the prompt reports what was left out of it.                 *)
THEOREM SectionsReport == Spec => []SectionsReportWhatTheyLack
<1>1. IInv => SectionsReportWhatTheyLack
  BY DEF IInv, Behind, Reported, SectionsReportWhatTheyLack, Buckets
<1> QED BY <1>1, Invariance, PTL
=============================================================================
