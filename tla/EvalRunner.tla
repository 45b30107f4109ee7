------------------------------- MODULE EvalRunner -------------------------------
(***************************************************************************)
(* eval/main.go and eval/harness: the batch evaluation.  Every probe of    *)
(* every scenario is put to every strategy; each answer costs a request to *)
(* a paid model and is kept in a cache, a map in memory and a file of one  *)
(* JSON document per line that later runs read back.  Then the probe is    *)
(* scored, by rules or by a judge.                                         *)
(*                                                                         *)
(* One run of the program at a time, for one model (the file is named      *)
(* after it).  A run may be killed anywhere, and an append to the file may *)
(* fail half way.  An answer is the key of the request it answers; what    *)
(* it says is whether the rules or the judge find it good.                 *)
(***************************************************************************)
EXTENDS Integers

CONSTANTS
  Scenarios, Probes, Strategies,  \* how many of each; strategy 1 is the reference
  ACGC,            \* the strategy that -semantic changes
  OpenEnded,       \* the probes that only the judge can score
  AnswerTokens,    \* what an answer may cost, prompt and completion
  BudgetCaps,      \* -budget-cap, 0 for none
  Marks,           \* what rules or a judge may give an answer
  Attempts,        \* of one request, 4 in the code
  MaxRuns,         \* bound: how often the program is started
  MaxFailures      \* bound: how many writes fail

ASSUME CountsAssumption ==
  /\ Scenarios \in Nat \ {0} /\ Probes \in Nat \ {0} /\ Strategies \in Nat \ {0}
  /\ Attempts \in Nat \ {0} /\ MaxRuns \in Nat /\ MaxFailures \in Nat
ASSUME TokensAssumption ==
  AnswerTokens \subseteq Nat /\ BudgetCaps \subseteq Nat /\ 0 \in BudgetCaps
ASSUME MarksAssumption == Marks \subseteq 0 .. 5

Places == (1 .. Probes) \X (1 .. Strategies)
Keys == (1 .. Scenarios) \X Places \X BOOLEAN  \* the last: tagged "semantic"
NoAnswer == <<"error">>  \* ProbeResult.Error

Scores == -1 .. 5

VARIABLES
  lines,           \* the file: what its whole lines hold,
  whole,           \*   whether it ends with a newline,
  tail,            \*   and what stands behind the last one
  pc,              \* where the program is
  flags,           \* its command line
  entries,         \* Cache.entries
  scenario, probe, strategy,  \* what it is at
  attempt,         \* GenerateWithRetry: the attempt under way
  results,         \* the answers of this scenario: ScenarioRun.ProbeResults
  metrics,         \* main: the scored answers
  spent,           \* Runner.tokensSpent
  runs,            \* how often it was started
  failures         \* how many writes failed

file == <<lines, whole, tail, failures>>
place == <<scenario, probe, strategy>>
vars == <<file, pc, flags, entries, place, attempt, results, metrics, spent, runs>>

EmptyMap == [x \in {} |-> x]
With(f, x, v) == [y \in DOMAIN f \cup {x} |-> IF y = x THEN v ELSE f[y]]

(* -semantic has no effect on a cache-only run, which has no embedder, and  *)
(* -budget-cap none either, which never comes to look at it.                *)
Flags == {f \in [semantic : BOOLEAN, cacheOnly : BOOLEAN, cap : BudgetCaps] :
            f.cacheOnly => ~f.semantic /\ f.cap = 0}

(* What a request asks for, and the key it is filed under.                  *)
Request == <<scenario, <<probe, strategy>>, flags.semantic /\ strategy = ACGC>>

Key == <<scenario, <<probe, strategy>>, flags.semantic /\ strategy = ACGC>>

(* What load can parse; the last of two documents with one key counts.      *)
Readable == [k \in DOMAIN lines \cup DOMAIN tail |->
               IF k \in DOMAIN tail THEN tail[k] ELSE lines[k]]

TypeOK ==
  /\ DOMAIN lines \subseteq Keys /\ \A k \in DOMAIN lines : lines[k] \in Keys
  /\ DOMAIN tail \subseteq Keys /\ \A k \in DOMAIN tail : tail[k] \in Keys
  /\ whole \in BOOLEAN /\ (whole => tail = EmptyMap)
  /\ pc \in {"down", "ask", "request", "store", "score", "report"}
  /\ flags \in Flags
  /\ DOMAIN entries \subseteq Keys /\ \A k \in DOMAIN entries : entries[k] \in Keys
  /\ scenario \in 1 .. Scenarios /\ probe \in 1 .. Probes /\ strategy \in 1 .. Strategies
  /\ attempt \in 1 .. Attempts
  /\ DOMAIN results \subseteq Places
  /\ \A x \in DOMAIN results : results[x] \in Keys \cup {NoAnswer}
  /\ metrics \subseteq (1 .. Scenarios) \X Places \X Scores
  /\ spent \in Nat /\ runs \in 0 .. MaxRuns /\ failures \in 0 .. MaxFailures

NoFlags == [semantic |-> FALSE, cacheOnly |-> FALSE, cap |-> 0]

Init ==
  /\ lines = EmptyMap /\ whole = TRUE /\ tail = EmptyMap /\ entries = EmptyMap
  /\ pc = "down" /\ runs = 0 /\ failures = 0 /\ flags = NoFlags
  /\ scenario = 1 /\ probe = 1 /\ strategy = 1 /\ attempt = 1
  /\ results = EmptyMap /\ metrics = {} /\ spent = 0

(* NewCache and load: lines that cannot be parsed are skipped.              *)
Start_FirstLines(f) ==
  /\ pc = "down" /\ runs < MaxRuns
  /\ pc' = "ask" /\ runs' = runs + 1 /\ flags' = f
  /\ entries' = IF whole THEN lines ELSE EmptyMap
  /\ UNCHANGED <<file, place, attempt, results, metrics, spent>>

Start(f) ==
  /\ pc = "down" /\ runs < MaxRuns
  /\ pc' = "ask" /\ runs' = runs + 1 /\ flags' = f
  /\ entries' = Readable
  /\ UNCHANGED <<file, place, attempt, results, metrics, spent>>

-----------------------------------------------------------------------------
(* Runner.RunScenario and Runner.answer *)

(* An answer is put into the run of its strategy, and the next is asked for.*)
Record(a) ==
  /\ results' = With(results, <<probe, strategy>>, a)
  /\ IF strategy < Strategies THEN
          strategy' = strategy + 1 /\ probe' = probe /\ pc' = "ask"
     ELSE IF probe < Probes THEN
          strategy' = 1 /\ probe' = probe + 1 /\ pc' = "ask"
     ELSE strategy' = 1 /\ probe' = 1 /\ pc' = "score"
  /\ UNCHANGED scenario

CacheHit ==
  /\ pc = "ask" /\ Key \in DOMAIN entries
  /\ Record(entries[Key])
  /\ UNCHANGED <<file, flags, entries, attempt, metrics, spent, runs>>

CacheMiss ==
  /\ pc = "ask" /\ Key \notin DOMAIN entries /\ flags.cacheOnly
  /\ Record(NoAnswer)
  /\ UNCHANGED <<file, flags, entries, attempt, metrics, spent, runs>>

Capped == flags.cap > 0 /\ spent >= flags.cap

(* ErrBudgetExceeded: main stops, and drops what this scenario has so far.  *)
BudgetExceeded ==
  /\ pc = "ask" /\ Key \notin DOMAIN entries /\ ~flags.cacheOnly /\ Capped
  /\ pc' = "report"
  /\ UNCHANGED <<file, flags, entries, place, attempt, results, metrics, spent, runs>>

Answer ==
  /\ pc = "ask" /\ Key \notin DOMAIN entries /\ ~flags.cacheOnly /\ ~Capped
  /\ pc' = "request" /\ attempt' = 1
  /\ UNCHANGED <<file, flags, entries, place, results, metrics, spent, runs>>

(* The next scenario, or the end. *)
NextScenario ==
  /\ probe' = 1 /\ strategy' = 1 /\ results' = EmptyMap
  /\ IF scenario < Scenarios THEN scenario' = scenario + 1 /\ pc' = "ask"
                             ELSE scenario' = scenario /\ pc' = "report"

-----------------------------------------------------------------------------
(* GenerateWithRetry *)

Generated(tokens) ==
  /\ pc = "request"
  /\ pc' = "store" /\ spent' = spent + tokens
  /\ UNCHANGED <<file, flags, entries, place, attempt, results, metrics, runs>>

Transient_Endless ==
  /\ pc = "request"
  /\ attempt' = IF attempt < Attempts THEN attempt + 1 ELSE 1
  /\ UNCHANGED <<file, pc, flags, entries, place, results, metrics, spent, runs>>

Transient ==
  /\ pc = "request" /\ attempt < Attempts
  /\ attempt' = attempt + 1
  /\ UNCHANGED <<file, pc, flags, entries, place, results, metrics, spent, runs>>

(* Another error, or the last attempt: main gives up the whole scenario.    *)
GivesUp_Recorded ==
  /\ pc = "request"
  /\ Record(NoAnswer)
  /\ UNCHANGED <<file, flags, entries, attempt, metrics, spent, runs>>

GivesUp_StartsOver ==
  /\ pc = "request"
  /\ pc' = "ask" /\ scenario' = scenario /\ probe' = 1 /\ strategy' = 1
  /\ results' = EmptyMap
  /\ UNCHANGED <<file, flags, entries, attempt, metrics, spent, runs>>

GivesUp ==
  /\ pc = "request"
  /\ NextScenario
  /\ UNCHANGED <<file, flags, entries, attempt, metrics, spent, runs>>

-----------------------------------------------------------------------------
(* Cache.Put appends a document and a newline: behind a tail, it spoils     *)
(* both.                                                                    *)
WriteLine_Truncating ==
  /\ whole' = TRUE /\ tail' = EmptyMap
  /\ lines' = With(EmptyMap, Key, Request)
  /\ UNCHANGED failures

WriteLine ==
  /\ whole' = TRUE /\ tail' = EmptyMap
  /\ lines' = IF whole THEN With(lines, Key, Request) ELSE lines
  /\ UNCHANGED failures

(* Nothing, a part, or all but the newline is written. *)
WriteFails ==
  /\ failures < MaxFailures /\ failures' = failures + 1
  /\ \/ UNCHANGED <<whole, tail>>
     \/ whole' = FALSE /\ tail' = EmptyMap
     \/ whole /\ whole' = FALSE /\ tail' = With(EmptyMap, Key, Request)
  /\ UNCHANGED lines

(* A failure is only logged: memory has the answer all the same.            *)
Put ==
  /\ pc = "store"
  /\ entries' = With(entries, Key, Request)
  /\ WriteLine \/ WriteFails
  /\ Record(Request)
  /\ UNCHANGED <<flags, attempt, metrics, spent, runs>>

-----------------------------------------------------------------------------
(* main and scoring *)

(* ScoreProbe: 0 for an error; -1, "use the judge", for an open-ended probe.*)
RuleScores(p, a) ==
  IF a = NoAnswer THEN {0} ELSE IF p \in OpenEnded THEN {-1} ELSE Marks

(* JudgePair, for every candidate against the reference, whose first score  *)
(* counts.  A candidate whose judging failed keeps the zero Score; if all   *)
(* fail, or there is no judge or no candidate, there are no scores.         *)
JudgePairs ==
  {EmptyMap} \cup
    IF Strategies = 1 THEN {}
    ELSE {f \in [1 .. Strategies -> Marks \cup {0}] : f[1] \in Marks}

(* scoreAllStrategies: the reference's answer tells which way all go.       *)
ScoreAllStrategies ==
  LET answer(k) == results[<<probe, k>>]
  IN  IF probe \in OpenEnded /\ answer(1) # NoAnswer THEN JudgePairs
      ELSE {f \in [1 .. Strategies -> Scores] :
              \A k \in 1 .. Strategies : f[k] \in RuleScores(probe, answer(k))}

ScoreProbe ==
  /\ pc = "score"
  /\ \E f \in ScoreAllStrategies :
       metrics' = metrics \cup {<<scenario, <<probe, k>>, f[k]>> : k \in DOMAIN f}
  /\ IF probe < Probes
     THEN probe' = probe + 1 /\ UNCHANGED <<pc, scenario, strategy, results>>
     ELSE NextScenario
  /\ UNCHANGED <<file, flags, entries, attempt, spent, runs>>

(* A process that ends leaves nothing but the file. *)
Exit ==
  /\ pc' = "down" /\ entries' = EmptyMap /\ flags' = NoFlags
  /\ scenario' = 1 /\ probe' = 1 /\ strategy' = 1 /\ attempt' = 1
  /\ results' = EmptyMap /\ metrics' = {} /\ spent' = 0
  /\ UNCHANGED <<file, runs>>

(* The report is written, if there is anything to report. *)
Report == pc = "report" /\ Exit

(* The program is killed. *)
Kill == pc # "down" /\ Exit

Step ==
  \/ CacheHit \/ CacheMiss \/ BudgetExceeded \/ Answer
  \/ \E t \in AnswerTokens : Generated(t)
  \/ Transient \/ GivesUp \/ Put \/ ScoreProbe \/ Report

Next == (\E f \in Flags : Start(f)) \/ Step \/ Kill

Spec == Init /\ [][Next]_vars

(* The program, once started, goes on: every request has a timeout.         *)
FairSpec == Spec /\ WF_vars(Step)

-----------------------------------------------------------------------------
(* Properties *)

(* eval/harness/cache.go:14, "Re-running the eval reuses cached responses": *)
(* no request is made for what an earlier or this run has left readable in  *)
(* the file, whatever kills and failed writes came before.                  *)
NeverPaidTwice == pc \in {"request", "store"} => Request \notin DOMAIN Readable

(* A line, once whole, is kept as it is: only what stands behind the last   *)
(* newline can be spoiled by a later write.                                 *)
WholeLinesStay ==
  [][\A k \in DOMAIN lines : k \in DOMAIN lines' /\ lines'[k] = lines[k]]_vars

(* eval/harness/types.go:91: an answer of a run without the semantic layer  *)
(* does not stand in for one of a run with it, nor the other way, nor one   *)
(* probe's for another's.                                                   *)
AnswersTheRequest ==
  \A x \in DOMAIN results :
    results[x] # NoAnswer =>
      results[x] = <<scenario, x, flags.semantic /\ x[2] = ACGC>>

(* main indexes the answers of a scenario by probe and strategy, so all are *)
(* there; and of a probe that is scored every strategy is.                  *)
ComparedWhole ==
  /\ pc = "score" => DOMAIN results = Places
  /\ \A m \in metrics, k \in 1 .. Strategies :
       \E v \in Scores : <<m[1], <<m[2][1], k>>, v>> \in metrics

(* eval/scoring/types.go:5, "a normalized 0.0 - 5.0 quality score": so it   *)
(* is in a run that may ask the model.                                      *)
LiveScoresInRange ==
  ~flags.cacheOnly => \A m \in metrics : m[3] \in 0 .. 5

(* eval/harness/runner.go:17, "a soft ceiling": one answer at most is over. *)
SoftCeiling ==
  flags.cap > 0 /\ spent > 0 => \E t \in AnswerTokens : spent < flags.cap + t

(* Where a run is: the scenario; asking, scoring or reporting; the probe,   *)
(* the strategy, the part of the answer and the attempt at it.              *)
Phase == CASE pc = "score" -> 1 [] pc = "report" -> 2 [] OTHER -> 0
Part == CASE pc = "request" -> 1 [] pc = "store" -> 2 [] OTHER -> 0
Position == <<scenario, Phase, probe, strategy, Part, attempt>>

Precedes(s, t) ==
  \E i \in DOMAIN s : s[i] < t[i] /\ \A j \in 1 .. i - 1 : s[j] = t[j]

(* No step of a run leads back to where it was before, through retries,     *)
(* given up scenarios, caps and failed writes: it takes at most as many     *)
(* steps as there are positions.                                            *)
RunsGoForward == [][pc # "down" /\ pc' # "down" => Precedes(Position, Position')]_vars

(* Every run comes to its end, also when every request fails.               *)
RunsEnd == (pc # "down") ~> (pc = "down")
=============================================================================
