---------------------------- MODULE EvalRunnerProofs ----------------------------
(* Theorems about EvalRunner, for any number of scenarios, probes,          *)
(* strategies and runs, any budget and any failures.                        *)
EXTENDS EvalRunner, FiniteSetTheorems, TLAPS

(***************************************************************************)
(* The inductive invariant.                                                *)
(***************************************************************************)

(* A document is the answer to its key, in the file and in memory. *)
FiledRight ==
  /\ \A k \in DOMAIN lines : lines[k] = k
  /\ \A k \in DOMAIN tail : tail[k] = k
  /\ \A k \in DOMAIN entries : entries[k] = k

(* The memory of a run has at least what a later one would read. *)
CacheHoldsFile == pc # "down" => DOMAIN Readable \subseteq DOMAIN entries

(* A request is made for want of a cached answer, and below the cap. *)
AskedForReason ==
  /\ pc \in {"request", "store"} => Key \notin DOMAIN entries /\ ~flags.cacheOnly
  /\ pc = "request" => ~Capped

(* The answers there are: those before the place the run is at. *)
Before == {x \in Places : x[1] < probe \/ (x[1] = probe /\ x[2] < strategy)}

Filled ==
  /\ pc \in {"ask", "request", "store"} => DOMAIN results = Before
  /\ pc = "score" => strategy = 1 /\ DOMAIN results = Places
  /\ pc = "down" => probe = 1 /\ strategy = 1 /\ results = EmptyMap /\ metrics = {} /\ spent = 0

(* A run that may ask has no errors among its answers. *)
LiveAnswers == ~flags.cacheOnly => \A x \in DOMAIN results : results[x] # NoAnswer

IInv ==
  /\ TypeOK /\ FiledRight /\ CacheHoldsFile /\ AskedForReason /\ Filled
  /\ AnswersTheRequest /\ LiveAnswers
  /\ LiveScoresInRange /\ SoftCeiling /\ ComparedWhole

(***************************************************************************)
(* Lemmas.                                                                 *)
(***************************************************************************)

(* With changes a map at one place. *)
LEMMA WithMap ==
  ASSUME NEW f, NEW x, NEW v
  PROVE  /\ DOMAIN With(f, x, v) = DOMAIN f \cup {x}
         /\ With(f, x, v)[x] = v
         /\ \A y \in DOMAIN f : y # x => With(f, x, v)[y] = f[y]
  BY DEF With

(* The empty map has no entries. *)
LEMMA EmptyDomain == DOMAIN EmptyMap = {}
  BY DEF EmptyMap

(* An error is no answer to anything. *)
LEMMA NoKey == NoAnswer \notin Keys
  <1>1. SUFFICES ASSUME NoAnswer \in Keys PROVE FALSE OBVIOUS
  <1>2. DOMAIN NoAnswer = 1 .. 3 BY <1>1 DEF Keys
  <1>3. DOMAIN NoAnswer = 1 .. 1 BY DEF NoAnswer
  <1> QED BY <1>2, <1>3

(* What a run asks for is a key, and filed under itself. *)
LEMMA KeyType == TypeOK => Key \in Keys /\ Request = Key /\ <<probe, strategy>> \in Places
  <1> SUFFICES ASSUME TypeOK PROVE Key \in Keys /\ Request = Key /\ <<probe, strategy>> \in Places
    OBVIOUS
  <1>1. <<probe, strategy>> \in Places BY DEF TypeOK, Places
  <1>2. PICK tagged \in BOOLEAN : tagged = (flags.semantic /\ strategy = ACGC) OBVIOUS
  <1>3. scenario \in 1 .. Scenarios BY DEF TypeOK
  <1>4. Key \in Keys
    <2>1. Key = <<scenario, <<probe, strategy>>, tagged>> BY <1>2 DEF Key
    <2>2. <<scenario, <<probe, strategy>>, tagged>> \in Keys BY <1>1, <1>3 DEF Keys
    <2> QED BY <2>1, <2>2
  <1>5. Request = Key BY DEF Request, Key
  <1> QED BY <1>1, <1>4, <1>5

(* The scores of a probe: none, or one of every strategy; of real answers   *)
(* they are in range.                                                       *)
LEMMA ScoresOfProbe ==
  ASSUME TypeOK, DOMAIN results = Places, NEW f \in ScoreAllStrategies
  PROVE  /\ DOMAIN f = {} \/ DOMAIN f = 1 .. Strategies
         /\ \A k \in DOMAIN f : f[k] \in Scores
         /\ LiveAnswers /\ ~flags.cacheOnly => \A k \in DOMAIN f : f[k] \in 0 .. 5
  <1> DEFINE judged == probe \in OpenEnded /\ results[<<probe, 1>>] # NoAnswer
  <1>0. Marks \subseteq 0 .. 5 /\ 0 .. 5 \subseteq Scores BY MarksAssumption DEF Scores
  <1>1. CASE judged
    <2>1. f = EmptyMap \/ f \in [1 .. Strategies -> Marks \cup {0}]
      BY <1>1 DEF ScoreAllStrategies, JudgePairs
    <2>2. CASE f = EmptyMap BY <2>2, EmptyDomain
    <2>3. ASSUME f \in [1 .. Strategies -> Marks \cup {0}]
          PROVE  DOMAIN f = 1 .. Strategies /\ \A k \in DOMAIN f : f[k] \in 0 .. 5
      <3>1. Marks \cup {0} \subseteq 0 .. 5 BY <1>0
      <3>2. \A k \in 1 .. Strategies : f[k] \in Marks \cup {0} BY <2>3
      <3>3. DOMAIN f = 1 .. Strategies BY <2>3
      <3> QED BY <3>1, <3>2, <3>3
    <2> QED BY <2>1, <2>2, <2>3, <1>0
  <1>2. CASE ~judged
    <2>1. /\ f \in [1 .. Strategies -> Scores]
          /\ \A k \in 1 .. Strategies : f[k] \in RuleScores(probe, results[<<probe, k>>])
      BY <1>2 DEF ScoreAllStrategies
    <2>2. ASSUME LiveAnswers, ~flags.cacheOnly, NEW k \in 1 .. Strategies
          PROVE  f[k] \in 0 .. 5
      <3>1. \A j \in 1 .. Strategies : <<probe, j>> \in DOMAIN results
        BY DEF TypeOK, Places
      <3>2. results[<<probe, k>>] # NoAnswer BY <2>2, <3>1 DEF LiveAnswers
      <3>3. 1 \in 1 .. Strategies BY CountsAssumption
      <3>4. results[<<probe, 1>>] # NoAnswer BY <2>2, <3>1, <3>3 DEF LiveAnswers
      <3>5. probe \notin OpenEnded BY <1>2, <3>4
      <3>6. RuleScores(probe, results[<<probe, k>>]) = Marks
        BY <3>2, <3>5 DEF RuleScores
      <3> QED BY <2>1, <3>6, <1>0
    <2> QED BY <2>1, <2>2
  <1> QED BY <1>1, <1>2

(* To put one more answer into the results is to move on by one place.      *)
LEMMA RecordStep ==
  ASSUME TypeOK, NEW a \in Keys \cup {NoAnswer}, Record(a), DOMAIN results = Before
  PROVE  /\ scenario' = scenario
         /\ probe' \in 1 .. Probes /\ strategy' \in 1 .. Strategies
         /\ pc' \in {"ask", "score"}
         /\ DOMAIN results' = DOMAIN results \cup {<<probe, strategy>>}
         /\ results'[<<probe, strategy>>] = a
         /\ \A x \in DOMAIN results : x # <<probe, strategy>> => results'[x] = results[x]
         /\ pc' = "ask" => DOMAIN results' = Before'
         /\ pc' = "score" => strategy' = 1 /\ DOMAIN results' = Places
  <1> USE CountsAssumption
  <1>1. /\ DOMAIN results' = DOMAIN results \cup {<<probe, strategy>>}
        /\ results'[<<probe, strategy>>] = a
        /\ \A x \in DOMAIN results : x # <<probe, strategy>> => results'[x] = results[x]
    <2>1. results' = With(results, <<probe, strategy>>, a) BY DEF Record
    <2> QED BY <2>1 DEF With
  <1>2. probe \in 1 .. Probes /\ strategy \in 1 .. Strategies BY DEF TypeOK
  <1>3. /\ scenario' = scenario /\ pc' \in {"ask", "score"}
        /\ probe' \in 1 .. Probes /\ strategy' \in 1 .. Strategies
        /\ pc' = "score" => strategy' = 1 /\ probe = Probes /\ strategy = Strategies
        /\ pc' = "ask" => \/ probe' = probe /\ strategy' = strategy + 1
                          \/ strategy = Strategies /\ probe' = probe + 1 /\ strategy' = 1
    BY <1>2 DEF Record
  <1>4. \A x \in Places : x[1] \in 1 .. Probes /\ x[2] \in 1 .. Strategies /\ x = <<x[1], x[2]>>
    BY DEF Places
  <1>5. <<probe, strategy>> \in Places BY <1>2 DEF Places
  <1>6. \A x \in Places :
          x \in DOMAIN results' <=> \/ x[1] < probe
                                    \/ x[1] = probe /\ x[2] <= strategy
    BY <1>1, <1>4, <1>5 DEF Before
  <1>7. DOMAIN results' \subseteq Places BY <1>1, <1>5 DEF Before
  <1>8. pc' = "score" => DOMAIN results' = Places
    BY <1>2, <1>3, <1>4, <1>6, <1>7
  <1>9. ASSUME pc' = "ask" PROVE DOMAIN results' = Before'
    <2>1. Before' = {x \in Places : x[1] < probe' \/ (x[1] = probe' /\ x[2] < strategy')}
      BY DEF Before
    <2>2. \A x \in Places :
            x \in DOMAIN results' <=> x[1] < probe' \/ (x[1] = probe' /\ x[2] < strategy')
      BY <1>9, <1>2, <1>3, <1>4, <1>6
    <2> QED BY <2>1, <2>2, <1>7
  <1> QED BY <1>1, <1>3, <1>8, <1>9

(* The first state satisfies the invariant. *)
LEMMA InitInv == Init => IInv
  <1> SUFFICES ASSUME Init PROVE IInv OBVIOUS
  <1> USE EmptyDomain, CountsAssumption DEF Init
  <1>1. NoFlags \in Flags BY TokensAssumption DEF NoFlags, Flags
  <1>2. TypeOK BY <1>1 DEF TypeOK
  <1>3. FiledRight /\ CacheHoldsFile /\ AskedForReason /\ Filled
    BY DEF FiledRight, CacheHoldsFile, AskedForReason, Filled
  <1>4. AnswersTheRequest /\ LiveAnswers /\ LiveScoresInRange
    BY DEF AnswersTheRequest, LiveAnswers, LiveScoresInRange
  <1>5. SoftCeiling /\ ComparedWhole BY DEF SoftCeiling, ComparedWhole
  <1> QED BY <1>2, <1>3, <1>4, <1>5 DEF IInv

(* What every part of the invariant is about, for a step that leaves it.    *)
LEMMA StutterInv == IInv /\ UNCHANGED vars => IInv'
  <1> SUFFICES ASSUME IInv, UNCHANGED vars PROVE IInv' OBVIOUS
  <1> USE DEF IInv, vars, file, place
  <1>1. TypeOK' BY DEF TypeOK
  <1>2. FiledRight' /\ CacheHoldsFile' /\ AskedForReason' /\ Filled'
    BY DEF FiledRight, CacheHoldsFile, Readable, AskedForReason, Key, Capped, Filled, Before
  <1>3. AnswersTheRequest' /\ LiveAnswers' /\ LiveScoresInRange'
    BY DEF AnswersTheRequest, LiveAnswers, LiveScoresInRange
  <1>4. SoftCeiling' /\ ComparedWhole' BY DEF SoftCeiling, ComparedWhole
  <1> QED BY <1>1, <1>2, <1>3, <1>4

(* A new run reads what the file holds, and has done nothing yet. *)
LEMMA StartInv ==
  ASSUME IInv, NEW f \in Flags, Start(f)
  PROVE  IInv'
  <1> USE DEF IInv, Start, file, place
  <1>1. DOMAIN Readable = DOMAIN lines \cup DOMAIN tail BY DEF Readable
  <1>2. \A k \in DOMAIN Readable : Readable[k] = k BY DEF Readable, FiledRight
  <1>3. entries' = Readable /\ Readable' = Readable BY DEF Readable
  <1>4. results = EmptyMap /\ metrics = {} /\ spent = 0 /\ probe = 1 /\ strategy = 1
    BY DEF Filled
  <1>5. TypeOK'
    <2>1. DOMAIN entries' \subseteq Keys /\ \A k \in DOMAIN entries' : entries'[k] \in Keys
      BY <1>1, <1>2, <1>3 DEF TypeOK
    <2>2. runs' \in 0 .. MaxRuns BY CountsAssumption DEF TypeOK
    <2> QED BY <2>1, <2>2 DEF TypeOK
  <1>6. FiledRight' BY <1>2, <1>3 DEF FiledRight
  <1>7. CacheHoldsFile' BY <1>3 DEF CacheHoldsFile
  <1>8. AskedForReason' BY DEF AskedForReason
  <1>9. Filled'
    <2>1. Before' = {}
      BY <1>4 DEF Before, Places
    <2> QED BY <1>4, <2>1, EmptyDomain DEF Filled
  <1>10. AnswersTheRequest' /\ LiveAnswers' /\ LiveScoresInRange' /\ SoftCeiling' /\ ComparedWhole'
    BY <1>4, EmptyDomain
    DEF AnswersTheRequest, LiveAnswers, LiveScoresInRange, SoftCeiling, ComparedWhole
  <1> QED BY <1>5, <1>6, <1>7, <1>8, <1>9, <1>10

(* A process that ends leaves the file. *)
LEMMA ExitInv ==
  ASSUME IInv, Exit
  PROVE  IInv'
  <1> USE EmptyDomain, CountsAssumption DEF IInv, Exit, file
  <1>1. NoFlags \in Flags BY TokensAssumption DEF NoFlags, Flags
  <1>2. TypeOK' BY <1>1 DEF TypeOK
  <1>3. FiledRight' /\ CacheHoldsFile' /\ AskedForReason' /\ Filled'
    BY DEF FiledRight, CacheHoldsFile, AskedForReason, Filled
  <1>4. AnswersTheRequest' /\ LiveAnswers' /\ LiveScoresInRange' /\ SoftCeiling' /\ ComparedWhole'
    BY DEF AnswersTheRequest, LiveAnswers, LiveScoresInRange, SoftCeiling, ComparedWhole
  <1> QED BY <1>2, <1>3, <1>4

(***************************************************************************)
(* The steps of a run.                                                     *)
(***************************************************************************)

(* What putting an answer into the results does to the invariant, be it     *)
(* from the cache, from the model, or an error of a cache-only run.         *)
LEMMA RecordInv ==
  ASSUME IInv, NEW a \in Keys \cup {NoAnswer}, Record(a), DOMAIN results = Before,
         a = Request \/ (a = NoAnswer /\ flags.cacheOnly),
         UNCHANGED <<flags, metrics, spent>>
  PROVE  /\ pc' \in {"ask", "score"}
         /\ scenario' \in 1 .. Scenarios /\ probe' \in 1 .. Probes
         /\ strategy' \in 1 .. Strategies
         /\ DOMAIN results' \subseteq Places
         /\ \A x \in DOMAIN results' : results'[x] \in Keys \cup {NoAnswer}
         /\ Filled' /\ AnswersTheRequest' /\ LiveAnswers'
         /\ LiveScoresInRange' /\ SoftCeiling' /\ ComparedWhole' /\ AskedForReason'
  <1> USE DEF IInv
  <1>1. TypeOK OBVIOUS
  <1>2. /\ scenario' = scenario
        /\ probe' \in 1 .. Probes /\ strategy' \in 1 .. Strategies
        /\ pc' \in {"ask", "score"}
        /\ DOMAIN results' = DOMAIN results \cup {<<probe, strategy>>}
        /\ results'[<<probe, strategy>>] = a
        /\ \A x \in DOMAIN results : x # <<probe, strategy>> => results'[x] = results[x]
        /\ pc' = "ask" => DOMAIN results' = Before'
        /\ pc' = "score" => strategy' = 1 /\ DOMAIN results' = Places
    BY <1>1, RecordStep
  <1>3. <<probe, strategy>> \in Places /\ Request \in Keys BY <1>1, KeyType
  <1>4. scenario' \in 1 .. Scenarios BY <1>1, <1>2 DEF TypeOK
  <1>5. DOMAIN results' \subseteq Places BY <1>1, <1>2, <1>3 DEF TypeOK
  <1>6. \A x \in DOMAIN results' : results'[x] \in Keys \cup {NoAnswer}
    BY <1>1, <1>2 DEF TypeOK
  <1>7. Filled' BY <1>2 DEF Filled
  <1>8. AnswersTheRequest'
    <2>1. SUFFICES ASSUME NEW x \in DOMAIN results', results'[x] # NoAnswer
                   PROVE  results'[x] = <<scenario, x, flags.semantic /\ x[2] = ACGC>>
      BY <1>2 DEF AnswersTheRequest
    <2>2. CASE x = <<probe, strategy>>
      BY <2>1, <2>2, <1>2 DEF Request
    <2>3. CASE x # <<probe, strategy>>
      BY <2>1, <2>3, <1>2 DEF AnswersTheRequest
    <2> QED BY <2>2, <2>3
  <1>9. LiveAnswers'
    <2>1. a = NoAnswer => flags.cacheOnly BY <1>3, NoKey
    <2> QED BY <2>1, <1>2 DEF LiveAnswers
  <1>10. LiveScoresInRange' /\ SoftCeiling' BY DEF LiveScoresInRange, SoftCeiling
  <1>11. ComparedWhole' BY <1>2 DEF ComparedWhole
  <1>12. AskedForReason' BY <1>2 DEF AskedForReason
  <1> QED BY <1>2, <1>4, <1>5, <1>6, <1>7, <1>8, <1>9, <1>10, <1>11, <1>12

(* An answer from the cache is the one that was asked for. *)
LEMMA CacheHitInv == IInv /\ CacheHit => IInv'
  <1> SUFFICES ASSUME IInv, CacheHit PROVE IInv' OBVIOUS
  <1> USE DEF IInv, CacheHit, file
  <1>1. TypeOK OBVIOUS
  <1>2. entries[Key] = Request /\ Request \in Keys BY <1>1, KeyType DEF FiledRight
  <1>3. DOMAIN results = Before BY DEF Filled
  <1>4. /\ pc' \in {"ask", "score"}
        /\ scenario' \in 1 .. Scenarios /\ probe' \in 1 .. Probes
        /\ strategy' \in 1 .. Strategies
        /\ DOMAIN results' \subseteq Places
        /\ \A x \in DOMAIN results' : results'[x] \in Keys \cup {NoAnswer}
        /\ Filled' /\ AnswersTheRequest' /\ LiveAnswers'
        /\ LiveScoresInRange' /\ SoftCeiling' /\ ComparedWhole' /\ AskedForReason'
    BY <1>2, <1>3, RecordInv
  <1>5. TypeOK' BY <1>1, <1>4 DEF TypeOK
  <1>6. FiledRight' /\ CacheHoldsFile' BY DEF FiledRight, CacheHoldsFile, Readable
  <1> QED BY <1>4, <1>5, <1>6

(* A cache-only run records an error for what it does not find. *)
LEMMA CacheMissInv == IInv /\ CacheMiss => IInv'
  <1> SUFFICES ASSUME IInv, CacheMiss PROVE IInv' OBVIOUS
  <1> USE DEF IInv, CacheMiss, file
  <1>1. TypeOK OBVIOUS
  <1>3. DOMAIN results = Before BY DEF Filled
  <1>4. /\ pc' \in {"ask", "score"}
        /\ scenario' \in 1 .. Scenarios /\ probe' \in 1 .. Probes
        /\ strategy' \in 1 .. Strategies
        /\ DOMAIN results' \subseteq Places
        /\ \A x \in DOMAIN results' : results'[x] \in Keys \cup {NoAnswer}
        /\ Filled' /\ AnswersTheRequest' /\ LiveAnswers'
        /\ LiveScoresInRange' /\ SoftCeiling' /\ ComparedWhole' /\ AskedForReason'
    BY <1>3, RecordInv
  <1>5. TypeOK' BY <1>1, <1>4 DEF TypeOK
  <1>6. FiledRight' /\ CacheHoldsFile' BY DEF FiledRight, CacheHoldsFile, Readable
  <1> QED BY <1>4, <1>5, <1>6

(* The cap ends the run, with what has been scored before. *)
LEMMA BudgetExceededInv == IInv /\ BudgetExceeded => IInv'
  <1> SUFFICES ASSUME IInv, BudgetExceeded PROVE IInv' OBVIOUS
  <1> USE DEF IInv, BudgetExceeded, file, place
  <1>1. TypeOK' BY DEF TypeOK
  <1>2. FiledRight' /\ CacheHoldsFile' /\ AskedForReason' /\ Filled'
    BY DEF FiledRight, CacheHoldsFile, Readable, AskedForReason, Filled
  <1>3. AnswersTheRequest' /\ LiveAnswers' /\ LiveScoresInRange'
    BY DEF AnswersTheRequest, LiveAnswers, LiveScoresInRange
  <1>4. SoftCeiling' /\ ComparedWhole' BY DEF SoftCeiling, ComparedWhole
  <1> QED BY <1>1, <1>2, <1>3, <1>4

(* A request is made for what is not cached, below the cap. *)
LEMMA AnswerInv == IInv /\ Answer => IInv'
  <1> SUFFICES ASSUME IInv, Answer PROVE IInv' OBVIOUS
  <1> USE DEF IInv, Answer, file, place
  <1>1. TypeOK' BY CountsAssumption DEF TypeOK
  <1>2. FiledRight' /\ CacheHoldsFile' BY DEF FiledRight, CacheHoldsFile, Readable
  <1>3. AskedForReason' BY DEF AskedForReason, Key, Capped
  <1>4. Filled' BY DEF Filled, Before
  <1>5. AnswersTheRequest' /\ LiveAnswers' /\ LiveScoresInRange'
    BY DEF AnswersTheRequest, LiveAnswers, LiveScoresInRange
  <1>6. SoftCeiling' /\ ComparedWhole' BY DEF SoftCeiling, ComparedWhole
  <1> QED BY <1>1, <1>2, <1>3, <1>4, <1>5, <1>6

(* A retry changes nothing but the number of the attempt. *)
LEMMA TransientInv == IInv /\ Transient => IInv'
  <1> SUFFICES ASSUME IInv, Transient PROVE IInv' OBVIOUS
  <1> USE DEF IInv, Transient, file, place
  <1>1. attempt' \in 1 .. Attempts BY CountsAssumption DEF TypeOK
  <1>2. TypeOK' BY <1>1 DEF TypeOK
  <1>3. FiledRight' /\ CacheHoldsFile' /\ AskedForReason' /\ Filled'
    BY DEF FiledRight, CacheHoldsFile, Readable, AskedForReason, Key, Capped, Filled, Before
  <1>4. AnswersTheRequest' /\ LiveAnswers' /\ LiveScoresInRange'
    BY DEF AnswersTheRequest, LiveAnswers, LiveScoresInRange
  <1>5. SoftCeiling' /\ ComparedWhole' BY DEF SoftCeiling, ComparedWhole
  <1> QED BY <1>2, <1>3, <1>4, <1>5

(* The answer is paid for: it was asked for below the cap. *)
LEMMA GeneratedInv ==
  ASSUME IInv, NEW tokens \in AnswerTokens, Generated(tokens)
  PROVE  IInv'
  <1> USE DEF IInv, Generated, file, place
  <1>1. tokens \in Nat BY TokensAssumption
  <1>2. TypeOK' BY <1>1 DEF TypeOK
  <1>3. FiledRight' /\ CacheHoldsFile' BY DEF FiledRight, CacheHoldsFile, Readable
  <1>4. AskedForReason' BY DEF AskedForReason, Key
  <1>5. Filled' BY DEF Filled, Before
  <1>6. AnswersTheRequest' /\ LiveAnswers' /\ LiveScoresInRange'
    BY DEF AnswersTheRequest, LiveAnswers, LiveScoresInRange
  <1>7. SoftCeiling'
    <2>1. flags.cap > 0 => ~(spent >= flags.cap) BY DEF AskedForReason, Capped
    <2>2. spent \in Nat /\ flags.cap \in Nat BY TokensAssumption DEF TypeOK, Flags
    <2>3. flags.cap > 0 => spent' < flags.cap + tokens BY <1>1, <2>1, <2>2
    <2> QED BY <2>3 DEF SoftCeiling
  <1>8. ComparedWhole' BY DEF ComparedWhole
  <1> QED BY <1>2, <1>3, <1>4, <1>5, <1>6, <1>7, <1>8

(* The next scenario begins without answers. *)
LEMMA NextScenarioFills ==
  ASSUME TypeOK, NextScenario
  PROVE  /\ pc' \in {"ask", "report"} /\ results' = EmptyMap
         /\ scenario' \in 1 .. Scenarios /\ probe' = 1 /\ strategy' = 1
         /\ Before' = {}
  <1>1. /\ pc' \in {"ask", "report"} /\ results' = EmptyMap
        /\ probe' = 1 /\ strategy' = 1
    BY DEF NextScenario
  <1>2. scenario' \in 1 .. Scenarios BY CountsAssumption DEF TypeOK, NextScenario
  <1>3. \A x \in Places : x[1] >= 1 /\ x[2] >= 1 BY DEF Places
  <1>4. Before' = {} BY <1>1, <1>3 DEF Before, Places
  <1> QED BY <1>1, <1>2, <1>4

(* Giving up a scenario loses its answers, not what is scored or cached.    *)
LEMMA GivesUpInv == IInv /\ GivesUp => IInv'
  <1> SUFFICES ASSUME IInv, GivesUp PROVE IInv' OBVIOUS
  <1> USE DEF IInv, GivesUp, file
  <1>1. /\ pc' \in {"ask", "report"} /\ results' = EmptyMap
        /\ scenario' \in 1 .. Scenarios /\ probe' = 1 /\ strategy' = 1
        /\ Before' = {}
    BY NextScenarioFills
  <1>2. TypeOK' BY <1>1, EmptyDomain, CountsAssumption DEF TypeOK
  <1>3. FiledRight' /\ CacheHoldsFile' BY <1>1 DEF FiledRight, CacheHoldsFile, Readable
  <1>4. AskedForReason' /\ Filled' BY <1>1, EmptyDomain DEF AskedForReason, Filled
  <1>5. AnswersTheRequest' /\ LiveAnswers' /\ LiveScoresInRange'
    BY <1>1, EmptyDomain DEF AnswersTheRequest, LiveAnswers, LiveScoresInRange
  <1>6. SoftCeiling' /\ ComparedWhole' BY <1>1 DEF SoftCeiling, ComparedWhole
  <1> QED BY <1>2, <1>3, <1>4, <1>5, <1>6

(* What a Put leaves in the file was there before, or is the new answer.    *)
LEMMA PutFile ==
  ASSUME TypeOK, Put
  PROVE  /\ whole' \in BOOLEAN /\ (whole' => tail' = EmptyMap)
         /\ failures' \in 0 .. MaxFailures
         /\ \/ lines' = lines
            \/ lines' = With(lines, Key, Request)
         /\ \/ tail' = EmptyMap
            \/ tail' = tail
            \/ tail' = With(EmptyMap, Key, Request)
  <1>1. CASE WriteLine BY <1>1 DEF WriteLine, TypeOK
  <1>2. CASE WriteFails
    <2>1. failures' \in 0 .. MaxFailures
      BY <1>2, CountsAssumption DEF WriteFails, TypeOK
    <2>2. whole' \in BOOLEAN /\ (whole' => tail' = EmptyMap)
      <3>1. CASE UNCHANGED <<whole, tail>> BY <3>1 DEF TypeOK
      <3>2. CASE whole' = FALSE BY <3>2
      <3> QED BY <1>2, <3>1, <3>2 DEF WriteFails
    <2> QED BY <1>2, <2>1, <2>2 DEF WriteFails
  <1> QED BY <1>1, <1>2 DEF Put

(* Memory learns what the file may have learned. *)
LEMMA PutInv == IInv /\ Put => IInv'
  <1> SUFFICES ASSUME IInv, Put PROVE IInv' OBVIOUS
  <1> USE DEF IInv
  <1>1. TypeOK OBVIOUS
  <1>2. Request = Key /\ Key \in Keys BY <1>1, KeyType
  <1>3. /\ pc = "store" /\ entries' = With(entries, Key, Request) /\ Record(Request)
        /\ UNCHANGED <<flags, attempt, metrics, spent, runs>>
    BY DEF Put
  <1>4. DOMAIN results = Before BY <1>3 DEF Filled
  <1>5. /\ pc' \in {"ask", "score"}
        /\ scenario' \in 1 .. Scenarios /\ probe' \in 1 .. Probes
        /\ strategy' \in 1 .. Strategies
        /\ DOMAIN results' \subseteq Places
        /\ \A x \in DOMAIN results' : results'[x] \in Keys \cup {NoAnswer}
        /\ Filled' /\ AnswersTheRequest' /\ LiveAnswers'
        /\ LiveScoresInRange' /\ SoftCeiling' /\ ComparedWhole' /\ AskedForReason'
    BY <1>2, <1>3, <1>4, RecordInv
  <1>6. /\ whole' \in BOOLEAN /\ (whole' => tail' = EmptyMap)
        /\ failures' \in 0 .. MaxFailures
        /\ \/ lines' = lines
           \/ lines' = With(lines, Key, Request)
        /\ \/ tail' = EmptyMap
           \/ tail' = tail
           \/ tail' = With(EmptyMap, Key, Request)
    BY <1>1, PutFile
  <1>7. /\ \A k \in DOMAIN lines' : lines'[k] = k
        /\ DOMAIN lines' \subseteq DOMAIN lines \cup {Key}
    BY <1>2, <1>6 DEF With, FiledRight
  <1>8. /\ \A k \in DOMAIN tail' : tail'[k] = k
        /\ DOMAIN tail' \subseteq DOMAIN tail \cup {Key}
    BY <1>2, <1>6, EmptyDomain DEF With, FiledRight
  <1>9. /\ \A k \in DOMAIN entries' : entries'[k] = k
        /\ DOMAIN entries' = DOMAIN entries \cup {Key}
    BY <1>2, <1>3 DEF With, FiledRight
  <1>10. FiledRight' BY <1>7, <1>8, <1>9 DEF FiledRight
  <1>11. CacheHoldsFile'
    <2>1. DOMAIN lines \cup DOMAIN tail \subseteq DOMAIN entries
      BY <1>3 DEF CacheHoldsFile, Readable
    <2>2. DOMAIN Readable' = DOMAIN lines' \cup DOMAIN tail' BY DEF Readable
    <2> QED BY <1>7, <1>8, <1>9, <2>1, <2>2 DEF CacheHoldsFile
  <1>12. TypeOK'
    <2>1. /\ DOMAIN lines' \subseteq Keys /\ DOMAIN tail' \subseteq Keys
          /\ DOMAIN entries' \subseteq Keys
      BY <1>1, <1>2, <1>7, <1>8, <1>9 DEF TypeOK
    <2>2. /\ \A k \in DOMAIN lines' : lines'[k] \in Keys
          /\ \A k \in DOMAIN tail' : tail'[k] \in Keys
          /\ \A k \in DOMAIN entries' : entries'[k] \in Keys
      BY <2>1, <1>7, <1>8, <1>9
    <2> QED BY <1>1, <1>3, <1>5, <1>6, <2>1, <2>2 DEF TypeOK
  <1> QED BY <1>5, <1>10, <1>11, <1>12

(* A probe is scored for every strategy or for none. *)
LEMMA ScoreProbeInv == IInv /\ ScoreProbe => IInv'
  <1> SUFFICES ASSUME IInv, ScoreProbe PROVE IInv' OBVIOUS
  <1> USE DEF IInv
  <1>1. /\ TypeOK /\ DOMAIN results = Places /\ strategy = 1 /\ pc = "score"
        /\ UNCHANGED <<file, flags, entries, attempt, spent, runs>>
    BY DEF ScoreProbe, Filled
  <1>2. PICK f \in ScoreAllStrategies :
          metrics' = metrics \cup {<<scenario, <<probe, k>>, f[k]>> : k \in DOMAIN f}
    BY DEF ScoreProbe
  <1>3. /\ DOMAIN f = {} \/ DOMAIN f = 1 .. Strategies
        /\ \A k \in DOMAIN f : f[k] \in Scores
        /\ ~flags.cacheOnly => \A k \in DOMAIN f : f[k] \in 0 .. 5
    BY <1>1, ScoresOfProbe
  <1>4. \/ /\ probe < Probes /\ probe' = probe + 1
           /\ UNCHANGED <<pc, scenario, strategy, results>>
        \/ NextScenario
    BY DEF ScoreProbe
  <1>5. /\ pc' \in {"ask", "score", "report"}
        /\ scenario' \in 1 .. Scenarios /\ probe' \in 1 .. Probes /\ strategy' = 1
        /\ results' = results \/ results' = EmptyMap
        /\ Filled' /\ (pc' = "score" => DOMAIN results' = Places)
    <2>1. CASE probe < Probes /\ probe' = probe + 1
               /\ UNCHANGED <<pc, scenario, strategy, results>>
      <3>1. probe' \in 1 .. Probes BY <2>1, <1>1, CountsAssumption DEF TypeOK
      <3>2. pc' = "score" /\ results' = results /\ strategy' = 1 /\ scenario' = scenario
        BY <2>1, <1>1
      <3> QED BY <3>1, <3>2, <1>1 DEF TypeOK, Filled
    <2>2. CASE NextScenario
      <3>1. /\ pc' \in {"ask", "report"} /\ results' = EmptyMap
            /\ scenario' \in 1 .. Scenarios /\ probe' = 1 /\ strategy' = 1
            /\ Before' = {}
        BY <1>1, <2>2, NextScenarioFills
      <3> QED BY <3>1, EmptyDomain, CountsAssumption DEF Filled
    <2> QED BY <1>4, <2>1, <2>2
  <1>6. metrics' \subseteq (1 .. Scenarios) \X Places \X Scores
    <2>1. \A k \in DOMAIN f :
            <<scenario, <<probe, k>>, f[k]>> \in (1 .. Scenarios) \X Places \X Scores
      BY <1>1, <1>3 DEF TypeOK, Places
    <2> QED BY <1>1, <1>2, <2>1 DEF TypeOK
  <1>7. TypeOK' BY <1>1, <1>5, <1>6, EmptyDomain, CountsAssumption DEF TypeOK, file
  <1>8. FiledRight' /\ CacheHoldsFile' /\ AskedForReason'
    BY <1>1, <1>5 DEF FiledRight, CacheHoldsFile, Readable, AskedForReason, file
  <1>9. AnswersTheRequest' /\ LiveAnswers'
    <2>1. scenario' = scenario \/ results' = EmptyMap BY <1>4 DEF NextScenario
    <2> QED BY <1>1, <1>5, <2>1, EmptyDomain DEF AnswersTheRequest, LiveAnswers
  <1>10. LiveScoresInRange'
    <2>1. SUFFICES ASSUME ~flags.cacheOnly, NEW m \in metrics' PROVE m[3] \in 0 .. 5
      BY <1>1 DEF LiveScoresInRange
    <2>2. CASE m \in metrics BY <2>1, <2>2 DEF LiveScoresInRange
    <2>3. CASE m \notin metrics
      <3>1. PICK k \in DOMAIN f : m = <<scenario, <<probe, k>>, f[k]>> BY <1>2, <2>3
      <3>2. m[3] = f[k] BY <3>1
      <3> QED BY <1>3, <2>1, <3>2
    <2> QED BY <2>2, <2>3
  <1>11. SoftCeiling' BY <1>1 DEF SoftCeiling
  <1>12. ComparedWhole'
    <2>1. SUFFICES ASSUME NEW m \in metrics', NEW k \in 1 .. Strategies
                   PROVE  \E v \in Scores : <<m[1], <<m[2][1], k>>, v>> \in metrics'
      BY <1>5 DEF ComparedWhole
    <2>2. CASE m \in metrics BY <2>2, <1>2 DEF ComparedWhole
    <2>3. CASE m \notin metrics
      <3>1. PICK j \in DOMAIN f : m = <<scenario, <<probe, j>>, f[j]>> BY <1>2, <2>3
      <3>2. k \in DOMAIN f BY <1>3, <3>1
      <3>3. m[1] = scenario /\ m[2][1] = probe BY <3>1
      <3>4. <<scenario, <<probe, k>>, f[k]>> \in metrics' BY <1>2, <3>2
      <3> QED BY <1>3, <3>2, <3>3, <3>4
    <2> QED BY <2>2, <2>3
  <1> QED BY <1>5, <1>7, <1>8, <1>9, <1>10, <1>11, <1>12

(* No step leaves the invariant. *)
LEMMA NextInv == IInv /\ [Next]_vars => IInv'
  <1> SUFFICES ASSUME IInv, [Next]_vars PROVE IInv' OBVIOUS
  <1>1. CASE \E f \in Flags : Start(f) BY <1>1, StartInv
  <1>2. CASE CacheHit BY <1>2, CacheHitInv
  <1>3. CASE CacheMiss BY <1>3, CacheMissInv
  <1>4. CASE BudgetExceeded BY <1>4, BudgetExceededInv
  <1>5. CASE Answer BY <1>5, AnswerInv
  <1>6. CASE \E t \in AnswerTokens : Generated(t) BY <1>6, GeneratedInv
  <1>7. CASE Transient BY <1>7, TransientInv
  <1>8. CASE GivesUp BY <1>8, GivesUpInv
  <1>9. CASE Put BY <1>9, PutInv
  <1>10. CASE ScoreProbe BY <1>10, ScoreProbeInv
  <1>11. CASE Report \/ Kill BY <1>11, ExitInv DEF Report, Kill
  <1>12. CASE UNCHANGED vars BY <1>12, StutterInv
  <1> QED
    BY <1>1, <1>2, <1>3, <1>4, <1>5, <1>6, <1>7, <1>8, <1>9, <1>10, <1>11, <1>12
    DEF Next, Step

(* The invariant holds throughout. *)
LEMMA Invariant == Spec => []IInv
  BY InitInv, NextInv, PTL DEF Spec

(***************************************************************************)
(* Theorems.                                                               *)
(***************************************************************************)

(* Maps, file and place keep their shape; no request exceeds its attempts.  *)
THEOREM TypeCorrect == Spec => []TypeOK
  <1>1. IInv => TypeOK BY DEF IInv
  <1> QED BY <1>1, Invariant, PTL

(* No request is made for what a run, killed or not, has left readable.     *)
THEOREM PaidOnce == Spec => []NeverPaidTwice
  <1>1. IInv => NeverPaidTwice
    BY KeyType DEF IInv, AskedForReason, CacheHoldsFile, NeverPaidTwice
  <1> QED BY <1>1, Invariant, PTL

(* A whole line of the file is never changed or lost. *)
THEOREM LinesAreKept == Spec => WholeLinesStay
  <1> DEFINE Kept == \A k \in DOMAIN lines : k \in DOMAIN lines' /\ lines'[k] = lines[k]
  <1>1. ASSUME IInv, [Next]_vars PROVE [Kept]_vars
    <2>1. CASE Put
      <3>1. lines' = lines \/ lines' = With(lines, Key, Request)
        BY <1>1, <2>1, PutFile DEF IInv
      <3>2. Key \notin DOMAIN lines
        BY <1>1, <2>1 DEF IInv, AskedForReason, CacheHoldsFile, Readable, Put
      <3> QED BY <3>1, <3>2 DEF With
    <2>2. CASE ~Put
      <3>1. lines' = lines
        BY <1>1, <2>2
        DEF Next, Step, vars, file, Start, CacheHit, CacheMiss, BudgetExceeded, Answer,
            Generated, Transient, GivesUp, ScoreProbe, Report, Kill, Exit
      <3> QED BY <3>1
    <2> QED BY <2>1, <2>2
  <1>2. IInv /\ [Next]_vars => [Kept]_vars BY <1>1
  <1> QED BY <1>2, Invariant, PTL DEF Spec, WholeLinesStay

(* Every answer of a run is the answer to the request it stands for. *)
THEOREM RightAnswers == Spec => []AnswersTheRequest
  <1>1. IInv => AnswersTheRequest BY DEF IInv
  <1> QED BY <1>1, Invariant, PTL

(* Strategies are compared on the same probes, and none is missing. *)
THEOREM WholeComparisons == Spec => []ComparedWhole
  <1>1. IInv => ComparedWhole BY DEF IInv
  <1> QED BY <1>1, Invariant, PTL

(* The scores of a run that may ask the model are 0 to 5. *)
THEOREM ScoresOfLiveRuns == Spec => []LiveScoresInRange
  <1>1. IInv => LiveScoresInRange BY DEF IInv
  <1> QED BY <1>1, Invariant, PTL

(* The budget cap is exceeded by less than one answer. *)
THEOREM CapHolds == Spec => []SoftCeiling
  <1>1. IInv => SoftCeiling BY DEF IInv
  <1> QED BY <1>1, Invariant, PTL

(***************************************************************************)
(* Runs come to an end.                                                    *)
(***************************************************************************)

Positions == (1 .. Scenarios) \X (0 .. 2) \X (1 .. Probes) \X (1 .. Strategies)
               \X (0 .. 2) \X (1 .. Attempts)

LEMMA PositionType == TypeOK => Position \in Positions
  <1>1. TypeOK => Phase \in 0 .. 2 /\ Part \in 0 .. 2 BY DEF TypeOK, Phase, Part
  <1> QED BY <1>1 DEF TypeOK, Position, Positions

LEMMA NextPositionType == ASSUME TypeOK' PROVE Position' \in Positions
  <1>1. Phase' \in 0 .. 2 /\ Part' \in 0 .. 2 BY DEF TypeOK, Phase, Part
  <1> QED BY <1>1 DEF TypeOK, Position, Positions

LEMMA PositionParts ==
  ASSUME NEW s \in Positions
  PROVE  /\ DOMAIN s = 1 .. 6
         /\ s[1] \in Nat /\ s[2] \in Nat /\ s[3] \in Nat
         /\ s[4] \in Nat /\ s[5] \in Nat /\ s[6] \in Nat
  BY CountsAssumption DEF Positions

(* Positions are ordered by their first part, then their second, and so on. *)
LEMMA PrecedesIs ==
  ASSUME NEW s \in Positions, NEW t \in Positions
  PROVE  Precedes(s, t) <=>
           \/ s[1] < t[1]
           \/ s[1] = t[1] /\ s[2] < t[2]
           \/ s[1] = t[1] /\ s[2] = t[2] /\ s[3] < t[3]
           \/ s[1] = t[1] /\ s[2] = t[2] /\ s[3] = t[3] /\ s[4] < t[4]
           \/ s[1] = t[1] /\ s[2] = t[2] /\ s[3] = t[3] /\ s[4] = t[4] /\ s[5] < t[5]
           \/ s[1] = t[1] /\ s[2] = t[2] /\ s[3] = t[3] /\ s[4] = t[4] /\ s[5] = t[5]
                /\ s[6] < t[6]
  <1>1. Precedes(s, t) <=> \E i \in 1 .. 6 : s[i] < t[i] /\ \A j \in 1 .. i - 1 : s[j] = t[j]
    BY PositionParts DEF Precedes
  <1>2. \A i \in 1 .. 6 : i = 1 \/ i = 2 \/ i = 3 \/ i = 4 \/ i = 5 \/ i = 6 OBVIOUS
  <1>3. /\ 1 .. 0 = {} /\ 1 .. 1 = {1} /\ 1 .. 2 = {1, 2} /\ 1 .. 3 = {1, 2, 3}
        /\ 1 .. 4 = {1, 2, 3, 4} /\ 1 .. 5 = {1, 2, 3, 4, 5}
        /\ 1 .. 6 = {1, 2, 3, 4, 5, 6}
    OBVIOUS
  <1>4. 1 - 1 = 0 /\ 2 - 1 = 1 /\ 3 - 1 = 2 /\ 4 - 1 = 3 /\ 5 - 1 = 4 /\ 6 - 1 = 5 OBVIOUS
  <1> QED BY <1>1, <1>3, <1>4

(* It is a strict order. *)
LEMMA PrecedesIsOrder ==
  ASSUME NEW s \in Positions, NEW t \in Positions, NEW u \in Positions
  PROVE  ~Precedes(s, s) /\ (Precedes(s, t) /\ Precedes(t, u) => Precedes(s, u))
  <1>1. ~Precedes(s, s) BY PrecedesIs, PositionParts
  <1>2. Precedes(s, t) /\ Precedes(t, u) => Precedes(s, u) BY PrecedesIs, PositionParts
  <1> QED BY <1>1, <1>2

(* An answer moves the run to the next strategy, the next probe or the      *)
(* scoring; a scenario that ends, to the next or to the report.             *)
LEMMA RecordAdvances ==
  ASSUME TypeOK, NEW a, Record(a), pc \in {"ask", "request", "store"}
  PROVE  /\ scenario' = scenario
         /\ Phase' > Phase \/ (Phase' = Phase /\ probe' > probe)
              \/ (Phase' = Phase /\ probe' = probe /\ strategy' > strategy)
  <1>1. probe \in Nat /\ strategy \in Nat BY CountsAssumption DEF TypeOK
  <1>2. Phase = 0 /\ (pc' = "ask" => Phase' = 0) /\ (pc' = "score" => Phase' = 1)
    BY DEF Phase
  <1> QED BY <1>1, <1>2 DEF Record

LEMMA NextScenarioAdvances ==
  ASSUME TypeOK, NextScenario, pc # "report"
  PROVE  scenario' > scenario \/ (scenario' = scenario /\ Phase' > Phase)
  <1>1. scenario \in Nat BY CountsAssumption DEF TypeOK
  <1>2. Phase \in {0, 1} /\ (pc' = "report" => Phase' = 2) BY DEF Phase
  <1> QED BY <1>1, <1>2 DEF NextScenario

LEMMA StepAdvances ==
  ASSUME IInv, IInv', Step, pc # "down", pc' # "down"
  PROVE  Precedes(Position, Position')
  <1> DEFINE s == Position
             t == Position'
  <1>1. s \in Positions /\ t \in Positions
    BY PositionType, NextPositionType DEF IInv
  <1>2. /\ s[1] = scenario /\ s[2] = Phase /\ s[3] = probe /\ s[4] = strategy
        /\ s[5] = Part /\ s[6] = attempt
        /\ t[1] = scenario' /\ t[2] = Phase' /\ t[3] = probe' /\ t[4] = strategy'
        /\ t[5] = Part' /\ t[6] = attempt'
    BY DEF Position
  <1> HIDE DEF s, t
  <1>3. SUFFICES
          \/ scenario < scenario'
          \/ scenario = scenario' /\ Phase < Phase'
          \/ scenario = scenario' /\ Phase = Phase' /\ probe < probe'
          \/ scenario = scenario' /\ Phase = Phase' /\ probe = probe' /\ strategy < strategy'
          \/ scenario = scenario' /\ Phase = Phase' /\ probe = probe' /\ strategy = strategy'
               /\ Part < Part'
          \/ scenario = scenario' /\ Phase = Phase' /\ probe = probe' /\ strategy = strategy'
               /\ Part = Part' /\ attempt < attempt'
    <2>1. Precedes(s, t) <=>
           \/ s[1] < t[1]
           \/ s[1] = t[1] /\ s[2] < t[2]
           \/ s[1] = t[1] /\ s[2] = t[2] /\ s[3] < t[3]
           \/ s[1] = t[1] /\ s[2] = t[2] /\ s[3] = t[3] /\ s[4] < t[4]
           \/ s[1] = t[1] /\ s[2] = t[2] /\ s[3] = t[3] /\ s[4] = t[4] /\ s[5] < t[5]
           \/ s[1] = t[1] /\ s[2] = t[2] /\ s[3] = t[3] /\ s[4] = t[4] /\ s[5] = t[5]
                /\ s[6] < t[6]
      BY <1>1, PrecedesIs
    <2> QED BY <1>2, <2>1 DEF s, t
  <1>4. /\ scenario \in Nat /\ probe \in Nat /\ strategy \in Nat /\ attempt \in Nat
        /\ Phase \in Nat /\ Part \in Nat /\ Phase' \in Nat /\ Part' \in Nat
        /\ scenario' \in Nat /\ probe' \in Nat /\ strategy' \in Nat /\ TypeOK
    BY <1>1, <1>2, PositionParts DEF IInv
  <1>5. ASSUME NEW a, Record(a), pc \in {"ask", "request", "store"}
        PROVE  \/ scenario = scenario' /\ Phase < Phase'
               \/ scenario = scenario' /\ Phase = Phase' /\ probe < probe'
               \/ scenario = scenario' /\ Phase = Phase' /\ probe = probe' /\ strategy < strategy'
    BY <1>4, <1>5, RecordAdvances
  <1>6. ASSUME NextScenario, pc # "report"
        PROVE  scenario < scenario' \/ (scenario = scenario' /\ Phase < Phase')
    BY <1>4, <1>6, NextScenarioAdvances
  <1>7. CASE CacheHit \/ CacheMiss \/ Put
    <2>1. pc \in {"ask", "request", "store"} /\ \E a : Record(a)
      BY <1>7 DEF CacheHit, CacheMiss, Put
    <2> QED BY <1>5, <2>1
  <1>8. CASE BudgetExceeded
    <2>1. pc = "ask" /\ pc' = "report" /\ scenario' = scenario
      BY <1>8 DEF BudgetExceeded, place
    <2>2. Phase = 0 /\ Phase' = 2 BY <2>1 DEF Phase
    <2> QED BY <2>1, <2>2
  <1>9. CASE Answer
    <2>1. pc = "ask" /\ pc' = "request" /\ UNCHANGED place BY <1>9 DEF Answer
    <2>2. Phase = 0 /\ Phase' = 0 /\ Part = 0 /\ Part' = 1 BY <2>1 DEF Phase, Part
    <2> QED BY <2>1, <2>2 DEF place
  <1>10. CASE \E tokens \in AnswerTokens : Generated(tokens)
    <2>1. pc = "request" /\ pc' = "store" /\ UNCHANGED place BY <1>10 DEF Generated
    <2>2. Phase = 0 /\ Phase' = 0 /\ Part = 1 /\ Part' = 2 BY <2>1 DEF Phase, Part
    <2> QED BY <2>1, <2>2 DEF place
  <1>11. CASE Transient
    <2>1. UNCHANGED <<pc, place>> /\ attempt' = attempt + 1 BY <1>11 DEF Transient
    <2>2. Phase' = Phase /\ Part' = Part BY <2>1 DEF Phase, Part
    <2> QED BY <1>4, <2>1, <2>2 DEF place
  <1>12. CASE GivesUp
    BY <1>6, <1>12 DEF GivesUp
  <1>13. CASE ScoreProbe
    <2>1. CASE NextScenario
      BY <1>6, <1>13, <2>1 DEF ScoreProbe
    <2>2. CASE probe' = probe + 1 /\ UNCHANGED <<pc, scenario, strategy, results>>
      <3>1. Phase' = Phase BY <2>2 DEF Phase
      <3> QED BY <1>4, <2>2, <3>1
    <2> QED BY <1>13, <2>1, <2>2 DEF ScoreProbe
  <1>14. ~Report BY DEF Report, Exit
  <1> QED BY <1>7, <1>8, <1>9, <1>10, <1>11, <1>12, <1>13, <1>14 DEF Step

LEMMA RunAdvances ==
  ASSUME IInv, [Next]_vars, pc # "down", pc' # "down"
  PROVE  Precedes(Position, Position') \/ UNCHANGED vars
  <1>1. IInv' BY NextInv
  <1>2. Step \/ UNCHANGED vars
    BY DEF Next, Start, Kill, Exit
  <1> QED BY <1>1, <1>2, StepAdvances

(* No run ever comes back to where it was: not by retrying, nor by giving   *)
(* up a scenario, nor by a write that fails.                                *)
THEOREM ForwardOnly == Spec => RunsGoForward
  <1> DEFINE Forward == pc # "down" /\ pc' # "down" => Precedes(Position, Position')
  <1>1. IInv /\ [Next]_vars => [Forward]_vars BY RunAdvances
  <1> QED BY <1>1, Invariant, PTL DEF Spec, RunsGoForward

LEMMA PositionsAreFinite == IsFiniteSet(Positions)
  <1> DEFINE Pairs == (((((1 .. Scenarios) \X (0 .. 2)) \X (1 .. Probes))
                          \X (1 .. Strategies)) \X (0 .. 2)) \X (1 .. Attempts)
             flat == [p \in Pairs |-> <<p[1][1][1][1][1], p[1][1][1][1][2],
                                        p[1][1][1][2], p[1][1][2], p[1][2], p[2]>>]
  <1>1. IsFiniteSet(Pairs)
    <2>1. /\ IsFiniteSet(1 .. Scenarios) /\ IsFiniteSet(0 .. 2)
          /\ IsFiniteSet(1 .. Probes) /\ IsFiniteSet(1 .. Strategies)
          /\ IsFiniteSet(1 .. Attempts)
      <3>1. /\ 1 \in Int /\ 0 \in Int /\ 2 \in Int /\ Scenarios \in Int /\ Probes \in Int
            /\ Strategies \in Int /\ Attempts \in Int
        BY CountsAssumption
      <3>2. \A a \in Int : \A b \in Int : IsFiniteSet(a .. b) BY FS_Interval
      <3> QED BY <3>1, <3>2
    <2>2. IsFiniteSet((1 .. Scenarios) \X (0 .. 2)) BY <2>1, FS_Product
    <2>3. IsFiniteSet(((1 .. Scenarios) \X (0 .. 2)) \X (1 .. Probes))
      BY <2>1, <2>2, FS_Product
    <2>4. IsFiniteSet((((1 .. Scenarios) \X (0 .. 2)) \X (1 .. Probes)) \X (1 .. Strategies))
      BY <2>1, <2>3, FS_Product
    <2>5. IsFiniteSet(((((1 .. Scenarios) \X (0 .. 2)) \X (1 .. Probes))
                         \X (1 .. Strategies)) \X (0 .. 2))
      BY <2>1, <2>4, FS_Product
    <2> QED BY <2>1, <2>5, FS_Product
  <1>2. flat \in Surjection(Pairs, Positions)
    <2>1. \A p \in Pairs : flat[p] \in Positions BY DEF Positions
    <2>2. ASSUME NEW q \in Positions PROVE \E p \in Pairs : flat[p] = q
      <3>1. /\ q[1] \in 1 .. Scenarios /\ q[2] \in 0 .. 2 /\ q[3] \in 1 .. Probes
            /\ q[4] \in 1 .. Strategies /\ q[5] \in 0 .. 2 /\ q[6] \in 1 .. Attempts
            /\ q = <<q[1], q[2], q[3], q[4], q[5], q[6]>>
        BY DEF Positions
      <3> DEFINE p == <<<<<<<<<<q[1], q[2]>>, q[3]>>, q[4]>>, q[5]>>, q[6]>>
      <3>2. p \in Pairs BY <3>1
      <3>3. flat[p] = q BY <3>1, <3>2
      <3> QED BY <3>2, <3>3
    <2> HIDE DEF Pairs
    <2>3. flat \in [Pairs -> Positions] BY <2>1
    <2> HIDE DEF flat
    <2> QED BY <2>2, <2>3 DEF Surjection
  <1> HIDE DEF Pairs, flat
  <1> QED BY <1>1, <1>2, FS_Surjection DEF ExistsSurjection

(* The steps a run can still take. *)
StepsLeft == Cardinality({p \in Positions : Precedes(Position, p)})

(* Each step of a run leaves it fewer: a run of any size has an end, which  *)
(* it reaches if it only goes on.                                           *)
THEOREM EveryStepNearsTheEnd ==
  Spec => [][pc # "down" /\ pc' # "down" => StepsLeft \in Nat /\ StepsLeft' < StepsLeft]_vars
  <1> DEFINE Nearer == pc # "down" /\ pc' # "down" => StepsLeft \in Nat /\ StepsLeft' < StepsLeft
  <1>1. ASSUME IInv, [Next]_vars, pc # "down", pc' # "down", ~UNCHANGED vars
        PROVE  StepsLeft \in Nat /\ StepsLeft' < StepsLeft
    <2> DEFINE s == Position
               t == Position'
               S == {p \in Positions : Precedes(s, p)}
               T == {p \in Positions : Precedes(t, p)}
    <2>1. s \in Positions /\ t \in Positions
      BY <1>1, NextInv, PositionType, NextPositionType DEF IInv
    <2>2. Precedes(s, t) BY <1>1, RunAdvances
    <2> HIDE DEF s, t
    <2>3. T \subseteq S /\ t \in S /\ t \notin T
      BY <2>1, <2>2, PrecedesIsOrder
    <2>4. IsFiniteSet(S) BY PositionsAreFinite, FS_Subset
    <2>5. StepsLeft = Cardinality(S) /\ StepsLeft' = Cardinality(T)
      BY DEF StepsLeft, s, t
    <2> HIDE DEF S, T
    <2>6. /\ Cardinality(S) \in Nat /\ Cardinality(T) \in Nat
          /\ Cardinality(T) <= Cardinality(S) /\ Cardinality(T) # Cardinality(S)
      BY <2>3, <2>4, FS_Subset, FS_CardinalityType
    <2> QED BY <2>5, <2>6
  <1>2. IInv /\ [Next]_vars => [Nearer]_vars BY <1>1
  <1> QED BY <1>2, Invariant, PTL DEF Spec
=============================================================================
