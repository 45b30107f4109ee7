---------------------------- MODULE DemoEngineProofs ----------------------------
(* Proofs about DemoEngine for every number of concurrent requests, script,  *)
(* capacity of the channel and number of calls, probes and overlaps.         *)
EXTENDS DemoEngine, WellFoundedInduction, FiniteSetTheorems, TLAPS

Starting == {"seed", "register"}
Scanning == {"scan", "index", "load", "advance", "skip", "peek", "pass", "over"}
Serving == Scanning \cup {"ingest", "panes", "count"}

(* The steps of nextUserMessage: those that load the cursor, those that      *)
(* store it. What a request does once it has found the session.              *)
Looks(c) == Scan(c) \/ Index(c) \/ Load(c) \/ Skip(c) \/ Peek(c)
Stores(c) == Advance(c) \/ Over(c)
Serves(c) ==
  \/ Looks(c) \/ Stores(c) \/ Ingest(c) \/ NaiveRun(c) \/ AcgcAsk(c)
  \/ AcgcAnswer(c) \/ AcgcFails(c) \/ Join(c) \/ Count(c)

(* The types the proofs need. *)
Types ==
  /\ registered \in BOOLEAN /\ open \in BOOLEAN
  /\ cursor \in Nat /\ steps \in Nat /\ served \in Nat /\ probes \in Nat
  /\ naiveLog \in Seq(Lines) /\ channel \in Seq(Lines) /\ nodes \in Seq(Lines)
  /\ seededEvents \in Nat
  /\ pc \in [Clients -> {"ready"} \cup Starting \cup Serving]
  /\ msg \in [Clients -> 1 .. Probe] /\ loaded \in [Clients -> Nat]
  /\ acgc \in [Clients -> {"ask", "llm", "done"}]

(* The sidecar is spoken to by requests that run the panes only. *)
PanesOK == \A c \in Clients : acgc[c] # "done" => pc[c] = "panes"

(* Before the first turn is seeded nothing has happened; *)
Fresh ==
  naiveLog = <<>> =>
    /\ ~registered /\ nodes = <<>> /\ channel = <<>> /\ seededEvents = 0
    /\ \A c \in Clients : pc[c] \in {"ready", "seed"}

(* while a session starts no request knows of it; *)
Alone ==
  \A c \in Clients : pc[c] \in Starting =>
    ~registered /\ \A d \in Clients \ {c} : pc[d] = "ready"

(* what was seeded is on its way to the tree, and in it before any request   *)
(* runs.                                                                     *)
Seeds(n) == [t \in 1 .. n |-> Said(t)]
Seeded == IsPrefix(Seeds(SeedUntil), nodes)
Seeding ==
  /\ \A c \in Clients :
       /\ pc[c] = "seed" => /\ loaded[c] <= SeedUntil /\ seededEvents = loaded[c]
                            /\ nodes \o channel = Seeds(loaded[c])
       /\ pc[c] \in Serving \cup {"register"} => Seeded
  /\ registered => Seeded

(* The value of userStepsDone a request has loaded. *)
Counting ==
  /\ ProbeComesLast
  /\ \A c \in Clients : pc[c] = "count" => loaded[c] <= served

Session == Fresh /\ Alone /\ Seeding /\ ConnectionFollowsSession
IInv == Types /\ PanesOK /\ Session /\ Counting

-----------------------------------------------------------------------------
(* Lines and sequences of them *)

(* Whatever is said, and every reply, is a line. *)
LEMMA LinesOK == \A t \in 1 .. Probe : Said(t) \in Lines /\ Reply(t) \in Lines
<1> SUFFICES ASSUME NEW t \in 1 .. Probe PROVE Said(t) \in Lines /\ Reply(t) \in Lines
  OBVIOUS
<1> DEFINE Turn == [role : {"user", "assistant"}, tokens : Nat]
<1>1. Script \in Seq(Turn) /\ Question \in Turn
  BY ScriptAssumption
<1>2. Spoken \in Seq(Turn)
  BY <1>1 DEF Spoken
<1> HIDE DEF Turn
<1>3. Spoken[t] \in Turn
  BY <1>2 DEF Probe
<1> USE DEF Turn
<1> QED BY <1>3 DEF Said, Reply, Lines

(* The question comes after the turns of the script. *)
LEMMA ProbeIsLast == /\ Probe \in Nat /\ Probe = Len(Script) + 1
                     /\ SeedUntil \in 1 .. Len(Script)
BY ScriptAssumption DEF Probe, Spoken

(* A tree that holds the seeds holds them with one more node. *)
LEMMA PrefixStays ==
  ASSUME NEW S, NEW s \in Seq(S), NEW t \in Seq(S), NEW e \in S, IsPrefix(s, t)
  PROVE  IsPrefix(s, Append(t, e))
BY DEF IsPrefix

(* What is in the channel last was seeded last. *)
LEMMA SeedMore ==
  ASSUME Types, NEW n \in 0 .. SeedUntil - 1, nodes \o channel = Seeds(n)
  PROVE  nodes \o Append(channel, Said(n + 1)) = Seeds(n + 1)
<1>1. Said(n + 1) \in Lines /\ n + 1 \in 1 .. Probe
  BY LinesOK, ProbeIsLast
<1>2. nodes \o Append(channel, Said(n + 1)) = Append(nodes \o channel, Said(n + 1))
  BY <1>1 DEF Types
<1>3. Append(Seeds(n), Said(n + 1)) = Seeds(n + 1)
  <2>1. \A t \in 1 .. n : Said(t) \in Lines
    BY LinesOK, ProbeIsLast
  <2>2. Seeds(n) \in Seq(Lines) /\ Len(Seeds(n)) = n
    BY <2>1 DEF Seeds
  <2> QED BY <1>1, <2>2 DEF Seeds
<1> QED BY <1>2, <1>3

(* A channel that was read keeps the order of what went through it. *)
LEMMA Moved ==
  ASSUME Types, channel # <<>>
  PROVE  Append(nodes, Head(channel)) \o Tail(channel) = nodes \o channel
BY DEF Types

(* As many nodes as were seeded are all the seeds. *)
LEMMA AllThere ==
  ASSUME Types, nodes \o channel = Seeds(SeedUntil), Len(nodes) >= SeedUntil
  PROVE  Seeded
<1>1. Len(Seeds(SeedUntil)) = SeedUntil
  BY ProbeIsLast DEF Seeds
<1>2. Len(nodes \o channel) = Len(nodes) + Len(channel)
  BY DEF Types
<1>3. Len(nodes) = SeedUntil /\ Len(channel) = 0
  BY <1>1, <1>2, ProbeIsLast DEF Types
<1>4. nodes = Seeds(SeedUntil)
  <2>1. channel = <<>>
    BY <1>3 DEF Types
  <2>2. nodes \o <<>> = nodes
    BY DEF Types
  <2> QED BY <2>1, <2>2
<1> QED BY <1>1, <1>4 DEF Seeded, IsPrefix

-----------------------------------------------------------------------------
(* Folds over transcripts *)

(* A set of naturals has a least element.                                    *)
LEMMA LeastNat ==
  ASSUME NEW T, T \subseteq Nat, T # {}
  PROVE  \E x \in T : \A y \in T : x <= y
<1> DEFINE R == {ss \in Nat \X Nat : ss[1] < ss[2]}
<1>1. IsWellFoundedOn(R, Nat)
  BY NatLessThanWellFounded, Zenon DEF OpToRel
<1>2. PICK x \in T : \A y \in T : ~(<<y, x>> \in R)
  <2> HIDE DEF R
  <2> QED BY <1>1, WFMin, Zenon
<1>3. \A y \in T : ~(y < x)
  BY <1>2
<1> QED BY <1>3

(* The greatest of the first places is the last. *)
LEMMA LastIs ==
  ASSUME NEW k \in Nat, NEW s, s \subseteq 1 .. k, k \in s
  PROVE  Max(s) = k
<1>1. \A x \in s : k >= x
  OBVIOUS
<1>2. \A x \in s : x >= k => x = k
  OBVIOUS
<1> QED BY <1>1, <1>2 DEF Max

(* What is folded over a transcript: the tokens of its lines, or what users  *)
(* said of some turns. The recursion is over the places D of the transcript. *)
Sum == <<"sum">>
Of(turns) == <<"lines", turns>>
Base(what) == IF what[1] = "sum" THEN 0 ELSE <<>>
With(said, line, turns) ==
  IF IsUser(line) /\ line.turn \in turns THEN Append(said, line) ELSE said
Then(what, v, line) ==
  IF what[1] = "sum" THEN v + Cost(line) ELSE With(v, line, what[2])
Folding(what, log, D, g) ==
  [s \in SUBSET D |-> IF s = {} THEN Base(what)
                      ELSE Then(what, g[s \ {Max(s)}], log[Max(s)])]
Solution(what, log, D) == CHOOSE g : g = Folding(what, log, D, g)
Fold(what, log) == Solution(what, log, DOMAIN log)[DOMAIN log]

(* Both folds of the model are this one: the sum of a transcript's tokens, *)
LEMMA TokensIs ==
  ASSUME NEW log
  PROVE  Tokens(log) = Fold(Sum, log)
<1> DEFINE A(g) == [s \in SUBSET DOMAIN log |-> IF s = {} THEN 0
                      ELSE g[s \ {Max(s)}] + Cost(log[Max(s)])]
<1>1. Tokens(log) = (CHOOSE g : g = A(g))[DOMAIN log]
  BY Zenon DEF Tokens, FoldLeft, MapThenFoldSet
<1>2. \A g : A(g) = Folding(Sum, log, DOMAIN log, g)
  BY DEF Folding, Base, Then, Sum
<1> HIDE DEF A
<1>3. (CHOOSE g : g = A(g)) = Solution(Sum, log, DOMAIN log)
  BY <1>2, Zenon DEF Solution
<1> QED BY <1>1, <1>3 DEF Fold

(* and what users said of some turns. *)
LEMMA LinesIs ==
  ASSUME NEW log, NEW turns
  PROVE  UserLinesOf(log, turns) = Fold(Of(turns), log)
<1> DEFINE A(g) == [s \in SUBSET DOMAIN log |-> IF s = {} THEN <<>>
                      ELSE With(g[s \ {Max(s)}], log[Max(s)], turns)]
<1>1. UserLinesOf(log, turns) = (CHOOSE g : g = A(g))[DOMAIN log]
  BY Zenon DEF UserLinesOf, FoldLeft, MapThenFoldSet, With
<1>2. \A g : A(g) = Folding(Of(turns), log, DOMAIN log, g)
  BY DEF Folding, Base, Then, Of
<1> HIDE DEF A
<1>3. (CHOOSE g : g = A(g)) = Solution(Of(turns), log, DOMAIN log)
  BY <1>2, Zenon DEF Solution
<1> QED BY <1>1, <1>3 DEF Fold

(* The recursion has a solution over any number of places: the first number  *)
(* without one would get one from its predecessor's.                         *)
LEMMA SolutionExists ==
  ASSUME NEW what, NEW log, NEW L \in Nat
  PROVE  Solution(what, log, 1 .. L)
           = Folding(what, log, 1 .. L, Solution(what, log, 1 .. L))
<1> DEFINE Solved(k) == \E g : g = Folding(what, log, 1 .. k, g)
           None == {k \in Nat : ~Solved(k)}
<1>1. None = {}
  <2> SUFFICES ASSUME None # {} PROVE FALSE
    OBVIOUS
  <2>1. PICK k \in None : \A j \in None : k <= j
    <3>1. None \subseteq Nat
      OBVIOUS
    <3> HIDE DEF None
    <3> QED BY <3>1, LeastNat
  <2>2. k \in Nat /\ ~Solved(k) /\ \A j \in Nat : j < k => Solved(j)
    <3>1. k \in Nat /\ ~Solved(k)
      OBVIOUS
    <3>2. ASSUME NEW j \in Nat, j < k PROVE j \notin None
      <4> HIDE DEF None
      <4> QED BY <2>1, <3>1, <3>2
    <3> QED BY <3>1, <3>2
  <2> HIDE DEF None
  <2>3. CASE k = 0
    <3> DEFINE g == [s \in SUBSET (1 .. 0) |-> Base(what)]
    <3>1. \A s \in SUBSET (1 .. 0) : s = {}
      OBVIOUS
    <3>2. g = Folding(what, log, 1 .. 0, g)
      BY <3>1 DEF Folding
    <3> QED BY <2>2, <2>3, <3>2
  <2>4. CASE k # 0
    <3>1. k - 1 \in Nat /\ k - 1 < k
      BY <2>2, <2>4
    <3>2. PICK g : g = Folding(what, log, 1 .. k - 1, g)
      BY <2>2, <3>1
    <3> DEFINE h == [s \in SUBSET (1 .. k) |->
                       IF k \in s THEN Then(what, g[s \ {k}], log[k]) ELSE g[s]]
    <3>3. ASSUME NEW s \in SUBSET (1 .. k)
          PROVE  h[s] = Folding(what, log, 1 .. k, h)[s]
      <4>1. Folding(what, log, 1 .. k, h)[s]
              = IF s = {} THEN Base(what)
                ELSE Then(what, h[s \ {Max(s)}], log[Max(s)])
        BY DEF Folding
      <4>2. CASE k \in s
        <5>1. Max(s) = k /\ s # {}
          BY <2>2, <4>2, LastIs
        <5>2. h[s \ {k}] = g[s \ {k}]
          OBVIOUS
        <5> HIDE DEF h
        <5>3. h[s] = Then(what, g[s \ {k}], log[k])
          BY <4>2 DEF h
        <5> QED BY <4>1, <5>1, <5>2, <5>3
      <4>3. CASE k \notin s
        <5>1. s \in SUBSET (1 .. k - 1)
          BY <2>2, <4>3
        <5>2. g[s] = IF s = {} THEN Base(what)
                     ELSE Then(what, g[s \ {Max(s)}], log[Max(s)])
          BY <3>2, <5>1 DEF Folding
        <5>3. h[s] = g[s] /\ h[s \ {Max(s)}] = g[s \ {Max(s)}]
          BY <4>3
        <5> HIDE DEF h
        <5> QED BY <4>1, <5>2, <5>3
      <4> QED BY <4>2, <4>3
    <3>4. h = Folding(what, log, 1 .. k, h)
      <4> DEFINE u == Folding(what, log, 1 .. k, h)
      <4>1. u = [s \in SUBSET (1 .. k) |-> u[s]]
        BY DEF Folding
      <4>2. h = [s \in SUBSET (1 .. k) |-> h[s]]
        OBVIOUS
      <4> HIDE DEF h, u
      <4>3. h = u
        BY <3>3, <4>1, <4>2 DEF u
      <4> QED BY <4>3 DEF u
    <3> HIDE DEF h
    <3> QED BY <2>2, <3>4
  <2> QED BY <2>3, <2>4
<1>2. Solved(L)
  BY <1>1
<1> QED BY <1>2, Zenon DEF Solution

(* It goes place by place. *)
LEMMA SolutionAt ==
  ASSUME NEW what, NEW log, NEW L \in Nat
  PROVE  /\ Solution(what, log, 1 .. L)[1 .. 0] = Base(what)
         /\ \A k \in 1 .. L :
              Solution(what, log, 1 .. L)[1 .. k]
                = Then(what, Solution(what, log, 1 .. L)[1 .. k - 1], log[k])
<1> DEFINE w == Solution(what, log, 1 .. L)
<1>1. w = Folding(what, log, 1 .. L, w)
  BY SolutionExists
<1> HIDE DEF w
<1>2. w[1 .. 0] = Base(what)
  <2>1. 1 .. 0 = {}
    OBVIOUS
  <2> QED BY <1>1, <2>1 DEF Folding
<1>3. ASSUME NEW k \in 1 .. L
      PROVE  w[1 .. k] = Then(what, w[1 .. k - 1], log[k])
  <2>1. k \in Nat /\ k \in 1 .. k /\ 1 .. k \subseteq 1 .. L
    OBVIOUS
  <2>2. (1 .. k) \ {k} = 1 .. k - 1
    BY <2>1
  <2>3. Max(1 .. k) = k
    BY <2>1, LastIs
  <2>4. w[1 .. k] = Then(what, w[(1 .. k) \ {Max(1 .. k)}], log[Max(1 .. k)])
    <3>1. 1 .. k \in SUBSET (1 .. L) /\ 1 .. k # {}
      BY <2>1
    <3> QED BY <1>1, <3>1 DEF Folding
  <2> QED BY <2>2, <2>3, <2>4
<1> QED BY <1>2, <1>3 DEF w

(* What is folded over the same beginning of two transcripts is the same.    *)
LEMMA SolutionsAgree ==
  ASSUME NEW what, NEW log, NEW L \in Nat, NEW more, NEW M \in Nat,
         NEW n \in Nat, n <= L, n <= M, \A i \in 1 .. n : log[i] = more[i]
  PROVE  Solution(what, log, 1 .. L)[1 .. n] = Solution(what, more, 1 .. M)[1 .. n]
<1> DEFINE g == Solution(what, log, 1 .. L)
           h == Solution(what, more, 1 .. M)
           Bad == {k \in 0 .. n : g[1 .. k] # h[1 .. k]}
<1>1. /\ g[1 .. 0] = Base(what) /\ h[1 .. 0] = Base(what)
      /\ \A k \in 1 .. L : g[1 .. k] = Then(what, g[1 .. k - 1], log[k])
      /\ \A k \in 1 .. M : h[1 .. k] = Then(what, h[1 .. k - 1], more[k])
  BY SolutionAt
<1> HIDE DEF g, h
<1>2. Bad = {}
  <2> SUFFICES ASSUME Bad # {} PROVE FALSE
    OBVIOUS
  <2>1. PICK k \in Bad : \A j \in Bad : k <= j
    <3>1. Bad \subseteq Nat
      OBVIOUS
    <3> HIDE DEF Bad
    <3> QED BY <3>1, LeastNat
  <2>2. k \in 0 .. n /\ g[1 .. k] # h[1 .. k]
    OBVIOUS
  <2>3. k # 0
    BY <1>1, <2>2
  <2>4. k \in 1 .. L /\ k \in 1 .. M /\ k \in 1 .. n /\ k - 1 \in 0 .. n /\ k - 1 < k
    BY <2>2, <2>3
  <2>5. g[1 .. k - 1] = h[1 .. k - 1]
    <3>1. k - 1 \notin Bad
      <4> HIDE DEF Bad
      <4> QED BY <2>1, <2>4
    <3> QED BY <2>4, <3>1
  <2>6. g[1 .. k] = Then(what, g[1 .. k - 1], log[k])
        /\ h[1 .. k] = Then(what, h[1 .. k - 1], more[k])
    BY <1>1, <2>4
  <2> QED BY <2>2, <2>4, <2>5, <2>6
<1>3. n \in 0 .. n
  OBVIOUS
<1> QED BY <1>2, <1>3 DEF g, h

(* So a line adds one step. *)
LEMMA FoldEmpty == \A what : Fold(what, <<>>) = Base(what)
<1>1. DOMAIN <<>> = 1 .. 0 /\ 0 \in Nat
  OBVIOUS
<1> QED BY <1>1, SolutionAt DEF Fold

(* One more line takes the fold one step further. *)
LEMMA FoldAppend ==
  ASSUME NEW what, NEW log \in Seq(Lines), NEW line \in Lines
  PROVE  Fold(what, Append(log, line)) = Then(what, Fold(what, log), line)
<1> DEFINE L == Len(log)
           more == Append(log, line)
<1>1. L \in Nat /\ L + 1 \in Nat /\ DOMAIN log = 1 .. L /\ DOMAIN more = 1 .. L + 1
      /\ more[L + 1] = line /\ \A i \in 1 .. L : log[i] = more[i]
  OBVIOUS
<1>2. Solution(what, more, 1 .. L + 1)[1 .. L + 1]
        = Then(what, Solution(what, more, 1 .. L + 1)[1 .. L], line)
  <2>1. L + 1 \in 1 .. L + 1 /\ (L + 1) - 1 = L
    BY <1>1
  <2> HIDE DEF more, L
  <2> QED BY <1>1, <2>1, SolutionAt
<1>3. Solution(what, more, 1 .. L + 1)[1 .. L] = Solution(what, log, 1 .. L)[1 .. L]
  <2>1. L <= L /\ L <= L + 1
    BY <1>1
  <2> HIDE DEF more, L
  <2> QED BY <1>1, <2>1, SolutionsAgree
<1> HIDE DEF more, L
<1> QED BY <1>1, <1>2, <1>3 DEF Fold, more

-----------------------------------------------------------------------------
(* Tokens and the window of the naive pane *)

(* A line costs its framing, and more if it says something. *)
LEMMA CostOK ==
  /\ \A line \in Lines : Cost(line) \in Nat
  /\ \A t \in 1 .. Probe : Spoken[t].tokens \in Nat
                           /\ Cost(Said(t)) = Framing + Spoken[t].tokens
<1> DEFINE Turn == [role : {"user", "assistant"}, tokens : Nat]
<1>1. Script \in Seq(Turn) /\ Question \in Turn /\ ReplyTokens \in Nat
  BY ScriptAssumption
<1>2. Spoken \in Seq(Turn)
  BY <1>1 DEF Spoken
<1> HIDE DEF Turn
<1>3. \A t \in 1 .. Probe : Spoken[t] \in Turn
  BY <1>2 DEF Probe
<1>4. \A t \in 1 .. Probe : Spoken[t].tokens \in Nat
  BY <1>3 DEF Turn
<1>5. \A line \in Lines : line.turn \in 1 .. Probe
  BY DEF Lines
<1>6. \A line \in Lines : Cost(line) \in Nat
  BY <1>1, <1>4, <1>5 DEF Cost, Framing
<1>7. \A t \in 1 .. Probe : Cost(Said(t)) = Framing + Spoken[t].tokens
  BY DEF Cost, Said
<1> QED BY <1>4, <1>6, <1>7

(* An empty transcript costs nothing, *)
LEMMA TokensEmpty == Tokens(<<>>) = 0
<1>1. Fold(Sum, <<>>) = Base(Sum)
  BY FoldEmpty
<1>2. Base(Sum) = 0
  BY DEF Base, Sum
<1> QED BY <1>1, <1>2, TokensIs

(* a line adds its cost, *)
LEMMA TokensAppend ==
  ASSUME NEW log \in Seq(Lines), NEW line \in Lines
  PROVE  Tokens(Append(log, line)) = Tokens(log) + Cost(line)
<1>1. Fold(Sum, Append(log, line)) = Fold(Sum, log) + Cost(line)
  BY FoldAppend DEF Base, Then, Sum
<1> QED BY <1>1, TokensIs

(* A part of a transcript, and with one line more. *)
LEMMA PartOf ==
  ASSUME NEW log \in Seq(Lines), NEW d \in 0 .. Len(log), NEW k \in d .. Len(log)
  PROVE  /\ SubSeq(log, d + 1, k) \in Seq(Lines)
         /\ SubSeq(log, 1, Len(log)) = log
         /\ SubSeq(log, d + 1, d) = <<>>
         /\ k < Len(log) => /\ log[k + 1] \in Lines
                            /\ SubSeq(log, d + 1, k + 1)
                                 = Append(SubSeq(log, d + 1, k), log[k + 1])
OBVIOUS

(* Induction from a to b, with a set for the induction hypothesis. *)
LEMMA Upward ==
  ASSUME NEW a \in Nat, NEW b \in Nat, NEW S, a \in S,
         \A k \in a .. b : k \in S /\ k < b => k + 1 \in S
  PROVE  \A k \in a .. b : k \in S
<1> DEFINE Bad == {k \in a .. b : k \notin S}
<1> SUFFICES ASSUME Bad # {} PROVE FALSE
  OBVIOUS
<1>1. PICK k \in Bad : \A j \in Bad : k <= j
  <2>1. Bad \subseteq Nat
    OBVIOUS
  <2> HIDE DEF Bad
  <2> QED BY <2>1, LeastNat
<1>2. k \in a .. b /\ k \notin S /\ k # a
  OBVIOUS
<1>3. k - 1 \in a .. b /\ k - 1 < k /\ k - 1 < b /\ (k - 1) + 1 = k
  BY <1>2
<1>4. k - 1 \in S
  <2>1. k - 1 \notin Bad
    <3> HIDE DEF Bad
    <3> QED BY <1>1, <1>2, <1>3
  <2> QED BY <1>3, <2>1
<1> QED BY <1>2, <1>3, <1>4

(* and every beginning of a transcript has a natural sum. *)
LEMMA TokensUpTo ==
  ASSUME NEW log \in Seq(Lines)
  PROVE  /\ \A k \in 0 .. Len(log) : Tokens(SubSeq(log, 1, k)) \in Nat
         /\ Tokens(log) \in Nat
<1> DEFINE To(k) == Tokens(SubSeq(log, 1, k))
           S == {k \in 0 .. Len(log) : To(k) \in Nat}
<1>0. 0 \in Nat /\ Len(log) \in Nat
  OBVIOUS
<1>1. 0 \in S
  <2>1. SubSeq(log, 1, 0) = <<>>
    OBVIOUS
  <2>2. To(0) = 0
    BY <2>1, TokensEmpty, Zenon
  <2> HIDE DEF To
  <2> QED BY <1>0, <2>2
<1>2. ASSUME NEW k \in 0 .. Len(log), k \in S, k < Len(log)
      PROVE  k + 1 \in S
  <2>1. /\ log[k + 1] \in Lines /\ SubSeq(log, 1, k) \in Seq(Lines)
        /\ SubSeq(log, 1, k + 1) = Append(SubSeq(log, 1, k), log[k + 1])
    BY <1>2, PartOf
  <2>2. Tokens(SubSeq(log, 1, k + 1)) = Tokens(SubSeq(log, 1, k)) + Cost(log[k + 1])
    BY <2>1, TokensAppend
  <2>3. Cost(log[k + 1]) \in Nat
    BY <2>1, CostOK
  <2> QED BY <1>2, <2>2, <2>3
<1>3. \A k \in 0 .. Len(log) : k \in S
  <2> HIDE DEF S
  <2> QED BY <1>0, <1>1, <1>2, Upward
<1>4. Tokens(log) \in Nat
  <2>1. SubSeq(log, 1, Len(log)) = log /\ Len(log) \in 0 .. Len(log)
    OBVIOUS
  <2>2. Tokens(SubSeq(log, 1, Len(log))) \in Nat
    BY <1>3, <2>1
  <2> QED BY <2>1, <2>2
<1> QED BY <1>3, <1>4

(* The tokens of a transcript are those of its beginning and of the rest.    *)
LEMMA TokensFrom ==
  ASSUME NEW log \in Seq(Lines), NEW d \in 0 .. Len(log)
  PROVE  \A k \in d .. Len(log) :
           /\ Tokens(SubSeq(log, d + 1, k)) \in Nat
           /\ Tokens(SubSeq(log, 1, k))
                = Tokens(SubSeq(log, 1, d)) + Tokens(SubSeq(log, d + 1, k))
<1> DEFINE From(k) == Tokens(SubSeq(log, d + 1, k))
           To(k) == Tokens(SubSeq(log, 1, k))
           S == {k \in d .. Len(log) : From(k) \in Nat /\ To(k) = To(d) + From(k)}
<1>0. d \in Nat /\ Len(log) \in Nat /\ d \in d .. Len(log) /\ 0 \in 0 .. Len(log)
      /\ \A k \in 0 .. Len(log) : To(k) \in Nat
  BY TokensUpTo
<1>1. d \in S
  <2>1. From(d) = 0
    <3>1. SubSeq(log, d + 1, d) = <<>>
      BY <1>0, PartOf
    <3> QED BY <3>1, TokensEmpty
  <2> HIDE DEF From, To
  <2> QED BY <1>0, <2>1
<1>2. ASSUME NEW k \in d .. Len(log), k \in S, k < Len(log)
      PROVE  k + 1 \in S
  <2>1. /\ log[k + 1] \in Lines /\ SubSeq(log, 1, k) \in Seq(Lines)
        /\ SubSeq(log, d + 1, k) \in Seq(Lines)
        /\ SubSeq(log, 1, k + 1) = Append(SubSeq(log, 1, k), log[k + 1])
        /\ SubSeq(log, d + 1, k + 1) = Append(SubSeq(log, d + 1, k), log[k + 1])
    <3>1. k \in 0 .. Len(log) /\ 0 + 1 = 1
      BY <1>0
    <3> QED BY <1>0, <1>2, <3>1, PartOf
  <2>2. To(k + 1) = To(k) + Cost(log[k + 1]) /\ From(k + 1) = From(k) + Cost(log[k + 1])
    BY <2>1, TokensAppend
  <2>3. Cost(log[k + 1]) \in Nat
    BY <2>1, CostOK
  <2> HIDE DEF From, To
  <2> QED BY <1>0, <1>2, <2>2, <2>3
<1>3. \A k \in d .. Len(log) : k \in S
  <2> HIDE DEF S
  <2> QED BY <1>0, <1>1, <1>2, Upward
<1> QED BY <1>3

(* Of a transcript the window leaves out what no longer fits, and no more.   *)
Upto(log, d) == Tokens(SubSeq(log, 1, d))
(* The window is the largest suffix that fits what the question leaves of it. *)
LEMMA LeftOutIs ==
  ASSUME NEW log \in Seq(Lines), NEW q \in 1 .. Probe
  PROVE  /\ LeftOut(log, q) \in 0 .. Len(log)
         /\ Tokens(log) - Upto(log, LeftOut(log, q)) <= Remaining(q)
         /\ LeftOut(log, q) > 0
              => Tokens(log) - Upto(log, LeftOut(log, q) - 1) > Remaining(q)
<1> DEFINE L == Len(log)
           From(d) == Tokens(SubSeq(log, d + 1, L))
           Enough == {d \in 0 .. L : From(d) <= Remaining(q)}
           Good(d) == /\ Tokens(SubSeq(log, d + 1, L)) <= Remaining(q)
                      /\ d > 0 => Tokens(SubSeq(log, d, L)) > Remaining(q)
<1>1. Remaining(q) \in Nat
  BY CostOK, LimitAssumption DEF Remaining
<1>2. \A d \in 0 .. L : From(d) \in Nat /\ Tokens(log) = Upto(log, d) + From(d)
                        /\ Upto(log, d) \in Nat
  <2> SUFFICES ASSUME NEW d \in 0 .. L
               PROVE  From(d) \in Nat /\ Tokens(log) = Upto(log, d) + From(d)
                      /\ Upto(log, d) \in Nat
    OBVIOUS
  <2>1. L \in d .. L
    OBVIOUS
  <2>2. SubSeq(log, 1, L) = log
    OBVIOUS
  <2> QED BY <2>1, <2>2, TokensFrom, TokensUpTo DEF Upto
<1>3. L \in Enough
  <2>1. L \in 0 .. L /\ SubSeq(log, L + 1, L) = <<>>
    OBVIOUS
  <2>2. From(L) = 0
    BY <2>1, TokensEmpty
  <2> HIDE DEF From, L
  <2> QED BY <1>1, <2>1, <2>2
<1>4. PICK d \in Enough : \A e \in Enough : d <= e
  <2>1. Enough \subseteq Nat /\ Enough # {}
    BY <1>3
  <2> HIDE DEF Enough
  <2> QED BY <2>1, LeastNat
<1>5. d \in 0 .. L /\ From(d) <= Remaining(q)
  OBVIOUS
<1>6. d > 0 => From(d - 1) > Remaining(q)
  <2> SUFFICES ASSUME d > 0 PROVE From(d - 1) > Remaining(q)
    OBVIOUS
  <2>1. d - 1 \in 0 .. L /\ d - 1 < d
    BY <1>5
  <2>2. d - 1 \notin Enough
    <3> HIDE DEF Enough
    <3> QED BY <1>4, <1>5, <2>1
  <2>3. ~(From(d - 1) <= Remaining(q)) /\ From(d - 1) \in Nat
    BY <1>2, <2>1, <2>2
  <2> HIDE DEF From, Enough
  <2> QED BY <1>1, <2>3
<1>7. Good(d)
  <2>1. (d - 1) + 1 = d
    BY <1>5
  <2> QED BY <1>5, <1>6, <2>1
<1>8. LeftOut(log, q) \in 0 .. L /\ Good(LeftOut(log, q))
  <2>1. LeftOut(log, q) = CHOOSE e \in 0 .. L : Good(e)
    BY DEF LeftOut
  <2> HIDE DEF Good, L, Enough
  <2> QED BY <1>5, <1>7, <2>1
<1> DEFINE e == LeftOut(log, q)
<1> HIDE DEF e
<1>9. From(e) <= Remaining(q) /\ (e > 0 => From(e - 1) > Remaining(q)) /\ e \in 0 .. L
  <2>1. e \in 0 .. L /\ Good(e) /\ (e > 0 => (e - 1) + 1 = e)
    BY <1>8 DEF e
  <2> QED BY <2>1
<1>10. e > 0 => e - 1 \in 0 .. L
  BY <1>9
<1> HIDE DEF L, From, Good, Enough
<1>11. Tokens(log) - Upto(log, e) <= Remaining(q)
       /\ (e > 0 => Tokens(log) - Upto(log, e - 1) > Remaining(q))
  BY <1>1, <1>2, <1>9, <1>10
<1> QED BY <1>9, <1>11 DEF e, L

(* What the window has dropped for good: with the question that pushed it    *)
(* out, all from the last line dropped is more than the whole budget.        *)
Limit == IF Budget > 0 THEN Budget ELSE 0
Gone(log, d) ==
  /\ d \in 0 .. Len(log)
  /\ d > 0 => Tokens(log) - Upto(log, d - 1) > Limit

(* What a window left out stays left out when lines are added, *)
LEMMA GoneStays ==
  ASSUME NEW log \in Seq(Lines), NEW d, Gone(log, d), NEW line \in Lines
  PROVE  Gone(Append(log, line), d)
<1> DEFINE more == Append(log, line)
<1>1. d \in 0 .. Len(log) /\ Len(log) \in Nat
  BY DEF Gone
<1>2. Len(more) = Len(log) + 1 /\ (d > 0 => SubSeq(more, 1, d - 1) = SubSeq(log, 1, d - 1))
  BY <1>1
<1>3. Tokens(more) = Tokens(log) + Cost(line)
  BY TokensAppend
<1>4. Tokens(log) \in Nat /\ Cost(line) \in Nat /\ Limit \in Nat
      /\ (d > 0 => Upto(log, d - 1) \in Nat)
  BY <1>1, TokensUpTo, CostOK, LimitAssumption DEF Upto, Limit
<1> HIDE DEF more
<1>5. d > 0 => Tokens(more) - Upto(more, d - 1) > Limit
  <2> SUFFICES ASSUME d > 0 PROVE Tokens(more) - Upto(more, d - 1) > Limit
    OBVIOUS
  <2>1. Upto(more, d - 1) = Upto(log, d - 1)
    BY <1>2 DEF Upto
  <2>2. Tokens(log) - Upto(log, d - 1) > Limit
    BY DEF Gone
  <2> QED BY <1>3, <1>4, <2>1, <2>2
<1> QED BY <1>1, <1>2, <1>5 DEF Gone, more

(* and the next window leaves out as many lines or more. *)
LEMMA GoneForward ==
  ASSUME NEW log \in Seq(Lines), NEW d, Gone(log, d), NEW q \in 1 .. Probe
  PROVE  LeftOut(log, q) >= d /\ Gone(Append(log, Said(q)), LeftOut(log, q))
<1> DEFINE e == LeftOut(log, q)
           more == Append(log, Said(q))
<1>1. /\ e \in 0 .. Len(log) /\ Tokens(log) - Upto(log, e) <= Remaining(q)
      /\ e > 0 => Tokens(log) - Upto(log, e - 1) > Remaining(q)
  BY LeftOutIs
<1>2. Said(q) \in Lines /\ Len(log) \in Nat /\ d \in 0 .. Len(log)
  BY LinesOK DEF Gone
<1> HIDE DEF e
<1>3. /\ Tokens(log) \in Nat /\ Spoken[q].tokens \in Nat /\ Limit \in Nat
      /\ \A k \in 0 .. Len(log) : Upto(log, k) \in Nat
      /\ Remaining(q) <= Limit /\ Remaining(q) + Spoken[q].tokens >= Limit
      /\ Remaining(q) \in Nat
  BY TokensUpTo, CostOK, LimitAssumption DEF Upto, Limit, Remaining
<1>4. e >= d
  <2> SUFFICES ASSUME ~(e >= d) PROVE FALSE
    OBVIOUS
  <2>1. d > 0 /\ d - 1 \in 0 .. Len(log) /\ d - 1 \in e .. Len(log)
    BY <1>1, <1>2
  <2>2. Tokens(log) - Upto(log, d - 1) > Limit
    BY <2>1 DEF Gone
  <2>3. Upto(log, d - 1) >= Upto(log, e)
    <3>1. /\ Tokens(SubSeq(log, e + 1, d - 1)) \in Nat
          /\ Upto(log, d - 1) = Upto(log, e) + Tokens(SubSeq(log, e + 1, d - 1))
      BY <1>1, <2>1, TokensFrom DEF Upto
    <3> QED BY <1>1, <1>3, <3>1
  <2> QED BY <1>1, <1>3, <2>1, <2>2, <2>3
<1>5. Len(more) = Len(log) + 1 /\ (e > 0 => SubSeq(more, 1, e - 1) = SubSeq(log, 1, e - 1))
  BY <1>1, <1>2
<1>6. Tokens(more) = Tokens(log) + Framing + Spoken[q].tokens
  <2>1. Tokens(more) = Tokens(log) + Cost(Said(q))
    BY <1>2, TokensAppend
  <2>2. Cost(Said(q)) = Framing + Spoken[q].tokens
    BY CostOK
  <2> HIDE DEF more
  <2>3. Framing \in Nat
    BY DEF Framing
  <2> QED BY <1>3, <2>1, <2>2, <2>3
<1> HIDE DEF more
<1>7. e > 0 => Tokens(more) - Upto(more, e - 1) > Limit
  <2> SUFFICES ASSUME e > 0 PROVE Tokens(more) - Upto(more, e - 1) > Limit
    OBVIOUS
  <2>0. e - 1 \in 0 .. Len(log)
    BY <1>1, <1>2
  <2>1. Upto(more, e - 1) = Upto(log, e - 1)
    BY <1>5 DEF Upto
  <2>2. Framing \in Nat
    BY DEF Framing
  <2>3. Tokens(log) - Upto(log, e - 1) > Remaining(q)
    BY <1>1
  <2> QED BY <1>3, <1>6, <2>0, <2>1, <2>2, <2>3
<1> QED BY <1>1, <1>2, <1>4, <1>5, <1>7 DEF Gone, e, more

-----------------------------------------------------------------------------
(* What steps keep of the types *)

(* Enqueue keeps the channel a sequence of lines. *)
LEMMA EnqueueTypes ==
  ASSUME Types, NEW line \in Lines, Enqueue(line)
  PROVE  channel' \in Seq(Lines)
<1>1. channel \in Seq(Lines)
  BY DEF Types
<1>2. Append(channel, line) \in Seq(Lines)
  BY <1>1
<1> QED BY <1>1, <1>2 DEF Enqueue

(* Transcripts only grow. *)
LEMMA LogTypes ==
  ASSUME Types, NEW a \in Lines
  PROVE  /\ Append(naiveLog, a) \in Seq(Lines) /\ Append(naiveLog, a) # <<>>
         /\ Extended(naiveLog, <<a>>) \in Seq(Lines)
         /\ naiveLog # <<>> => Extended(naiveLog, <<a>>) # <<>>
         /\ \A b \in Lines :
              /\ Extended(naiveLog, <<a, b>>) \in Seq(Lines)
              /\ naiveLog # <<>> => Extended(naiveLog, <<a, b>>) # <<>>
<1>1. naiveLog \in Seq(Lines)
  BY DEF Types
<1>2. Append(naiveLog, a) \in Seq(Lines) /\ Append(naiveLog, a) # <<>>
  <2>1. Append(naiveLog, a) \in Seq(Lines) /\ Len(Append(naiveLog, a)) = Len(naiveLog) + 1
    BY <1>1
  <2>2. Len(naiveLog) \in Nat
    BY <1>1
  <2>3. Len(Append(naiveLog, a)) # 0
    BY <2>1, <2>2
  <2>4. Len(<<>>) = 0
    OBVIOUS
  <2> QED BY <2>1, <2>3, <2>4, Zenon
<1>3. ASSUME NEW new \in Seq(Lines)
      PROVE  naiveLog \o new \in Seq(Lines) /\ (naiveLog # <<>> => naiveLog \o new # <<>>)
  BY <1>1
<1>4. <<a>> \in Seq(Lines) /\ \A b \in Lines : <<a, b>> \in Seq(Lines)
  OBVIOUS
<1> QED BY <1>1, <1>2, <1>3, <1>4 DEF Extended

(* A request that ends. *)
LEMMA ReturnTypes ==
  ASSUME Types, NEW c \in Clients, Return(c)
  PROVE  /\ pc' \in [Clients -> {"ready"} \cup Starting \cup Serving]
         /\ msg' \in [Clients -> 1 .. Probe] /\ loaded' \in [Clients -> Nat]
<1>1. Probe \in 1 .. Probe
  BY ProbeIsLast
<1>2. pc' = [pc EXCEPT ![c] = "ready"] /\ msg' = [msg EXCEPT ![c] = Probe]
      /\ loaded' = [loaded EXCEPT ![c] = 0]
  BY DEF Return, Goto
<1>3. msg' \in [Clients -> 1 .. Probe]
  <2>1. msg \in [Clients -> 1 .. Probe]
    BY DEF Types
  <2> QED BY <1>1, <1>2, <2>1
<1> QED BY <1>2, <1>3 DEF Types

(* What a step of nextUserMessage does with the request, and that it leaves  *)
(* all but the request and the cursor alone.                                 *)
LEMMA CursorSteps ==
  ASSUME Types, NEW c \in Clients, Looks(c) \/ Stores(c)
  PROVE  /\ UNCHANGED <<registered, open, steps, seeded, paneVars, sidecarVars, countVars>>
         /\ cursor' \in Nat /\ pc[c] \in Scanning
         /\ \E l \in (Serving \ {"scan", "count"}) \cup {"ready"} :
              /\ pc' = [pc EXCEPT ![c] = l]
              /\ IF l = "panes" THEN Run(c) ELSE UNCHANGED <<naive, acgc>>
         /\ \E t \in 1 .. Probe : msg' = [msg EXCEPT ![c] = t]
         /\ \E k \in Nat : loaded' = [loaded EXCEPT ![c] = k]
<1>0. /\ Probe \in 1 .. Probe /\ Len(Script) \in Nat /\ Probe = Len(Script) + 1
      /\ cursor \in Nat /\ loaded[c] \in Nat /\ msg[c] \in 1 .. Probe
      /\ msg = [msg EXCEPT ![c] = msg[c]] /\ loaded = [loaded EXCEPT ![c] = loaded[c]]
  BY ProbeIsLast DEF Types
<1> DEFINE Sent == \E t \in 1 .. Probe : msg' = [msg EXCEPT ![c] = t]
           Kept == \E k \in Nat : loaded' = [loaded EXCEPT ![c] = k]
           Gone0 == \E l \in (Serving \ {"scan", "count"}) \cup {"ready"} :
                     /\ pc' = [pc EXCEPT ![c] = l]
                     /\ IF l = "panes" THEN Run(c) ELSE UNCHANGED <<naive, acgc>>
<1>1. UNCHANGED msg => Sent
  BY <1>0
<1>2. UNCHANGED loaded => Kept
  BY <1>0
<1>3. ASSUME Return(c), UNCHANGED <<naive, acgc>>
      PROVE  Sent /\ Kept /\ Gone0
  <2>1. Sent
    BY <1>0, <1>3 DEF Return
  <2>2. Kept
    BY <1>3 DEF Return
  <2>3. Gone0
    <3>1. pc' = [pc EXCEPT ![c] = "ready"] /\ UNCHANGED <<naive, acgc>>
      BY <1>3 DEF Return, Goto
    <3>2. /\ pc' = [pc EXCEPT ![c] = "ready"]
          /\ IF "ready" = "panes" THEN Run(c) ELSE UNCHANGED <<naive, acgc>>
      BY <3>1, SMT
    <3> QED BY <3>2, Zenon
  <2> QED BY <2>1, <2>2, <2>3
<1>4. Run(c) => Gone0
  BY DEF Run, Goto, Serving, Scanning
<1>5. ASSUME NEW k \in Loads(c), Holds(c, k) PROVE Kept /\ k \in Nat
  BY <1>0, <1>5 DEF Loads, Holds
<1>6. ASSUME NEW l \in Serving \ {"scan", "count", "panes"}, Goto(c, l), UNCHANGED <<naive, acgc>>
      PROVE  Gone0
  BY <1>6 DEF Goto
<1>7. \A k \in Loads(c) : k \in Nat
  BY <1>0 DEF Loads
<1> HIDE DEF Sent, Kept, Gone0
<1>8. CASE Scan(c)
  <2>1. cursor \in Loads(c)
    BY DEF Loads
  <2> QED BY <1>0, <1>1, <1>3, <1>5, <1>6, <1>8, <2>1
          DEF Scan, sessionVars, Sent, Kept, Gone0, Serving, Scanning
<1>9. CASE Index(c)
  <2>1. PICK k \in Loads(c) :
          \/ /\ k < Len(Script)
             /\ msg' = [msg EXCEPT ![c] = k + 1]
             /\ Holds(c, k) /\ Goto(c, "load")
          \/ k >= Len(Script) /\ Return(c)
    BY <1>9 DEF Index
  <2>2. pc[c] = "index" /\ UNCHANGED <<sessionVars, paneVars, sidecarVars, naive, acgc, countVars>>
    BY <1>9 DEF Index
  <2>3. ASSUME k < Len(Script), msg' = [msg EXCEPT ![c] = k + 1] PROVE Sent
    <3>1. k + 1 \in 1 .. Probe
      BY <1>0, <1>7, <2>3
    <3> QED BY <2>3, <3>1 DEF Sent
  <2>4. Goto(c, "load") => Gone0
    BY <1>6, <2>2 DEF Serving, Scanning
  <2>5. Sent /\ Kept /\ Gone0
    BY <1>3, <1>5, <2>1, <2>2, <2>3, <2>4
  <2> QED BY <1>0, <2>2, <2>5 DEF sessionVars, Sent, Kept, Gone0, Scanning
<1>10. CASE Load(c)
  <2>1. Kept
    BY <1>5, <1>10 DEF Load
  <2>2. Gone0
    BY <1>6, <1>10 DEF Load, Serving, Scanning
  <2> QED BY <1>0, <1>1, <1>10, <2>1, <2>2 DEF Load, sessionVars, Sent, Kept, Gone0, Scanning
<1>11. CASE Skip(c)
  <2>1. Kept
    BY <1>2, <1>5, <1>11 DEF Skip
  <2>2. Gone0
    BY <1>4, <1>6, <1>11 DEF Skip, Serving, Scanning
  <2> QED BY <1>0, <1>1, <1>11, <2>1, <2>2 DEF Skip, sessionVars, Sent, Kept, Gone0, Scanning
<1>12. CASE Peek(c)
  <2>1. Sent /\ Kept
    BY <1>1, <1>2, <1>3, <1>5, <1>12 DEF Peek
  <2>2. Gone0
    BY <1>3, <1>4, <1>6, <1>12 DEF Peek, Serving, Scanning
  <2> QED BY <1>0, <1>12, <2>1, <2>2 DEF Peek, sessionVars, Sent, Kept, Gone0, Scanning
<1>13. CASE Advance(c)
  <2>1. loaded[c] + 1 \in Nat
    BY <1>0
  <2>3. cursor' = loaded[c] + 1 /\ loaded' = [loaded EXCEPT ![c] = loaded[c] + 1]
    BY <1>13 DEF Advance, Holds
  <2>2. Gone0
    BY <1>6, <1>13 DEF Advance, Serving, Scanning
  <2> QED BY <1>1, <1>13, <2>1, <2>2, <2>3 DEF Advance, Sent, Kept, Gone0, Scanning
<1>14. CASE Over(c)
  BY <1>0, <1>1, <1>2, <1>4, <1>14 DEF Over, Sent, Kept, Gone0, Scanning
<1> QED BY <1>8, <1>9, <1>10, <1>11, <1>12, <1>13, <1>14 DEF Looks, Stores, Sent, Kept, Gone0

(* Each step of a request that starts or serves keeps the types. *)
LEMMA StartTypes ==
  ASSUME Types, NEW c \in Clients,
         Start(c) \/ SeedTurn(c) \/ WaitForSeededNodes(c) \/ Register(c)
  PROVE  Types'
<1> USE ProbeIsLast DEF Types, Starting, Serving, Scanning
<1>1. CASE Start(c)
  BY <1>1 DEF Start, NewContextRuntime, Goto, paneVars, sidecarVars, countVars
<1>2. CASE SeedTurn(c)
  <2>1. loaded[c] + 1 \in 1 .. Probe
    <3>1. loaded[c] \in Nat
      OBVIOUS
    <3>2. loaded[c] + 1 <= SeedUntil
      BY <1>2 DEF SeedTurn
    <3> QED BY <3>1, <3>2
  <2>2. Said(loaded[c] + 1) \in Lines
    BY <2>1, LinesOK
  <2>3. naiveLog' \in Seq(Lines)
    BY <1>2, <2>2, LogTypes DEF SeedTurn
  <2>4. channel' \in Seq(Lines) /\ seededEvents' \in Nat
    <3>1. CASE Accepted(Said(loaded[c] + 1))
      BY <2>2, <3>1, EnqueueTypes DEF Accepted
    <3>2. CASE Refused(Said(loaded[c] + 1))
      BY <2>2, <3>2, EnqueueTypes DEF Refused
    <3> QED BY <1>2, <3>1, <3>2 DEF SeedTurn
  <2>5. loaded' \in [Clients -> Nat] /\ pc' \in [Clients -> {"ready"} \cup Starting \cup Serving]
        /\ msg' \in [Clients -> 1 .. Probe] /\ open' \in BOOLEAN
    <3>1. CASE Accepted(Said(loaded[c] + 1)) /\ ~GiveUp(c)
      <4>1. loaded' = [loaded EXCEPT ![c] = loaded[c] + 1] /\ UNCHANGED <<open, pc, msg>>
        BY <1>2, <3>1 DEF SeedTurn
      <4>2. loaded[c] + 1 \in Nat
        OBVIOUS
      <4> QED BY <4>1, <4>2
    <3>2. CASE GiveUp(c)
      BY <3>2, ReturnTypes DEF GiveUp, Close
    <3> QED BY <1>2, <3>1, <3>2 DEF SeedTurn
  <2> QED BY <1>2, <2>3, <2>4, <2>5 DEF SeedTurn, countVars
<1>3. CASE WaitForSeededNodes(c)
  <2>1. open' \in BOOLEAN /\ cursor' \in Nat
    BY <1>3 DEF WaitForSeededNodes, GiveUp, Close
  <2>2. /\ pc' \in [Clients -> {"ready"} \cup Starting \cup Serving]
        /\ msg' \in [Clients -> 1 .. Probe] /\ loaded' \in [Clients -> Nat]
    BY <1>3, ReturnTypes DEF WaitForSeededNodes, GiveUp, Goto
  <2> QED BY <1>3, <2>1, <2>2 DEF WaitForSeededNodes, paneVars, sidecarVars, countVars
<1>4. CASE Register(c)
  BY <1>4, ReturnTypes DEF Register, paneVars, sidecarVars, countVars
<1> QED BY <1>1, <1>2, <1>3, <1>4

(* the calls that enter a session, *)
LEMMA EnterTypes ==
  ASSUME Types, NEW c \in Clients, NextCall(c) \/ ProbeSession(c) \/ Reset(c)
  PROVE  Types'
<1> USE ProbeIsLast DEF Types, Starting, Serving, Scanning
<1>1. CASE NextCall(c)
  BY <1>1 DEF NextCall, Goto, sessionVars, paneVars, sidecarVars
<1>2. CASE ProbeSession(c)
  BY <1>2 DEF ProbeSession, Run, Goto, sessionVars, paneVars, sidecarVars
<1>3. CASE Reset(c)
  BY <1>3 DEF Reset, Close, paneVars, sidecarVars, requestVars
<1> QED BY <1>1, <1>2, <1>3

(* and the steps that serve a request. *)
LEMMA ServeTypes ==
  ASSUME Types, NEW c \in Clients, Serves(c)
  PROVE  Types'
<1> USE ProbeIsLast DEF Types, Starting, Serving, Scanning
<1>0. Said(msg[c]) \in Lines /\ Reply(msg[c]) \in Lines
  BY LinesOK
<1>1. CASE Looks(c) \/ Stores(c)
  <2>1. /\ UNCHANGED <<registered, open, steps, paneVars, sidecarVars, countVars>>
        /\ cursor' \in Nat
    BY <1>1, CursorSteps
  <2>2. PICK l \in (Serving \ {"scan", "count"}) \cup {"ready"} :
          /\ pc' = [pc EXCEPT ![c] = l]
          /\ IF l = "panes" THEN Run(c) ELSE UNCHANGED <<naive, acgc>>
    BY <1>1, CursorSteps
  <2>3. PICK t \in 1 .. Probe : msg' = [msg EXCEPT ![c] = t]
    BY <1>1, CursorSteps
  <2>4. PICK k \in Nat : loaded' = [loaded EXCEPT ![c] = k]
    BY <1>1, CursorSteps
  <2>5. pc' \in [Clients -> {"ready"} \cup Starting \cup Serving]
    BY <2>2
  <2>6. msg' \in [Clients -> 1 .. Probe] /\ loaded' \in [Clients -> Nat]
    BY <2>3, <2>4
  <2>7. acgc' \in [Clients -> {"ask", "llm", "done"}]
    BY <2>2 DEF Run
  <2> QED BY <2>1, <2>5, <2>6, <2>7 DEF paneVars, sidecarVars, countVars
<1>2. CASE Ingest(c)
  <2>1. naiveLog' \in Seq(Lines)
    BY <1>0, <1>2, LogTypes DEF Ingest
  <2>2. channel' \in Seq(Lines) /\ seededEvents' \in Nat
    <3>1. CASE Accepted(Said(msg[c]))
      BY <1>0, <3>1, EnqueueTypes DEF Accepted
    <3>2. CASE Refused(Said(msg[c]))
      BY <1>0, <3>2, EnqueueTypes DEF Refused
    <3> QED BY <1>2, <3>1, <3>2 DEF Ingest
  <2> QED BY <1>2, <2>1, <2>2 DEF Ingest, Goto, sessionVars, countVars
<1>4. CASE NaiveRun(c)
  <2>1. naiveLog' \in Seq(Lines)
    BY <1>0, <1>4, LogTypes DEF NaiveRun
  <2> QED BY <1>4, <2>1 DEF NaiveRun, sessionVars, sidecarVars, countVars
<1>5. CASE AcgcAsk(c)
  <2>1. channel' \in Seq(Lines)
    BY <1>0, <1>5, EnqueueTypes DEF AcgcAsk
  <2> QED BY <1>5, <2>1 DEF AcgcAsk, sessionVars, countVars
<1>6. CASE AcgcAnswer(c)
  <2>1. channel' \in Seq(Lines)
    BY <1>0, <1>6, EnqueueTypes DEF AcgcAnswer
  <2> QED BY <1>6, <2>1 DEF AcgcAnswer, sessionVars, countVars
<1>7. CASE AcgcFails(c)
  <2>1. channel' \in Seq(Lines)
    BY <1>0, <1>7, EnqueueTypes DEF AcgcFails
  <2> QED BY <1>7, <2>1 DEF AcgcFails, sessionVars, paneVars, countVars
<1>8. CASE Join(c)
  BY <1>8, ReturnTypes DEF Join, Goto, sessionVars, paneVars, sidecarVars, countVars
<1>9. CASE Count(c)
  <2>1. steps' \in Nat /\ served' \in Nat
    <3>1. loaded[c] \in Nat
      OBVIOUS
    <3> QED BY <1>9, <3>1 DEF Count
  <2> QED BY <1>9, <2>1, ReturnTypes DEF Count, paneVars, sidecarVars
<1> QED BY <1>1, <1>2, <1>4, <1>5, <1>6, <1>7, <1>8, <1>9 DEF Serves

(* So the types hold after every step. *)
LEMMA TypesNext == Types /\ [Next]_vars => Types'
<1> SUFFICES ASSUME Types, [Next]_vars PROVE Types'
  OBVIOUS
<1>1. CASE Process
  BY <1>1 DEF Process, Types, sessionVars, paneVars, requestVars, countVars
<1>2. CASE UNCHANGED vars
  BY <1>2 DEF vars, Types, sessionVars, paneVars, sidecarVars, requestVars, countVars
<1> QED BY <1>1, <1>2, StartTypes, EnterTypes, ServeTypes DEF Next, Step, Serves, Looks, Stores

-----------------------------------------------------------------------------
(* A session's life: it is seeded, found, and forgotten *)

(* Once a request has found the session its seeds are in the tree and nobody *)
(* is starting one.                                                          *)
LEMMA Found ==
  ASSUME Types, Session, NEW c \in Clients, pc[c] \in Serving \/ registered
  PROVE  Seeded /\ naiveLog # <<>> /\ \A d \in Clients : pc[d] \notin Starting
<1>1. Seeded
  BY DEF Session, Seeding
<1>2. naiveLog # <<>>
  BY DEF Session, Fresh, Serving, Scanning
<1>3. \A d \in Clients : pc[d] \notin Starting
  BY DEF Session, Alone, Serving, Scanning, Starting
<1> QED BY <1>1, <1>2, <1>3

(* A step of a request that runs, or of one that finds the session. *)
LEMMA SessionServed ==
  ASSUME Types, Session, NEW c \in Clients, pc[c] \in Serving \/ registered,
         NEW l \in Serving \cup {"ready"}, pc[c] \notin Starting,
         pc' = [pc EXCEPT ![c] = l], UNCHANGED <<registered, open, nodes>>,
         naiveLog # <<>> => naiveLog' # <<>>
  PROVE  Session'
<1>1. Seeded /\ naiveLog' # <<>> /\ \A d \in Clients : pc[d] \notin Starting
  BY Found
<1>2. \A d \in Clients : pc'[d] \notin Starting
  BY <1>1 DEF Types, Starting, Serving, Scanning
<1>3. Fresh' /\ Alone'
  BY <1>1, <1>2 DEF Fresh, Alone
<1>4. Seeding'
  <2>1. Seeded'
    BY <1>1 DEF Seeded
  <2> QED BY <1>2, <2>1 DEF Seeding, Starting
<1>5. ConnectionFollowsSession'
  BY <1>1, <1>2 DEF Session, ConnectionFollowsSession, Starting
<1> QED BY <1>3, <1>4, <1>5 DEF Session

(* Start makes a session when there is none. *)
LEMMA SessionStart ==
  ASSUME Types, Session, NEW c \in Clients, Start(c)
  PROVE  Session'
<1>1. /\ naiveLog = <<>> /\ ~open /\ open' /\ pc' = [pc EXCEPT ![c] = "seed"]
      /\ loaded' = [loaded EXCEPT ![c] = 0]
      /\ UNCHANGED <<registered, naiveLog, nodes, channel, seededEvents>>
  BY DEF Start, NewContextRuntime, Goto, paneVars, sidecarVars
<1>2. /\ \A d \in Clients : pc[d] = "ready"
      /\ ~registered /\ nodes = <<>> /\ channel = <<>> /\ seededEvents = 0
  <2>1. \A d \in Clients : pc[d] \in {"ready", "seed"} /\ pc[d] \notin {"seed", "register"}
    BY <1>1 DEF Session, Fresh, ConnectionFollowsSession
  <2> QED BY <1>1, <2>1 DEF Session, Fresh
<1>3. \A d \in Clients : pc'[d] = IF d = c THEN "seed" ELSE "ready"
  BY <1>1, <1>2 DEF Types
<1>4. loaded'[c] = 0
  BY <1>1 DEF Types
<1>5. Fresh' /\ Alone'
  BY <1>1, <1>2, <1>3 DEF Fresh, Alone, Starting
<1>6. Seeding'
  <2>1. Seeds(0) = <<>> /\ <<>> \o <<>> = <<>>
    BY DEF Seeds
  <2>2. nodes' \o channel' = Seeds(0)
    BY <1>1, <1>2, <2>1
  <2>3. \A d \in Clients : pc'[d] = "seed" => d = c
    BY <1>3
  <2>4. \A d \in Clients : pc'[d] \notin Serving \cup {"register"}
    BY <1>3 DEF Serving, Scanning
  <2>5. 0 <= SeedUntil
    BY ProbeIsLast
  <2> QED BY <1>1, <1>2, <1>4, <2>2, <2>3, <2>4, <2>5 DEF Seeding
<1>7. ConnectionFollowsSession'
  BY <1>1, <1>3 DEF ConnectionFollowsSession
<1> QED BY <1>5, <1>6, <1>7 DEF Session

(* A Start that fails leaves no connection and a transcript. *)
LEMMA SessionGivenUp ==
  ASSUME Types, Session, NEW c \in Clients, pc[c] \in Starting, GiveUp(c),
         naiveLog' # <<>>, UNCHANGED registered
  PROVE  Session'
<1>1. ~registered /\ \A d \in Clients \ {c} : pc[d] = "ready"
  BY DEF Session, Alone
<1>2. \A d \in Clients : pc'[d] = "ready"
  BY <1>1 DEF Types, GiveUp, Return, Goto
<1>3. ~open' /\ ~registered'
  BY <1>1 DEF GiveUp, Close
<1>4. Fresh' /\ Alone' /\ ConnectionFollowsSession'
  BY <1>2, <1>3 DEF Fresh, Alone, ConnectionFollowsSession, Starting
<1>5. Seeding'
  BY <1>2, <1>3 DEF Seeding, Serving, Scanning
<1> QED BY <1>4, <1>5 DEF Session

(* One more turn is on its way to the tree, or the session is given up. *)
LEMMA SessionSeedTurn ==
  ASSUME Types, Session, NEW c \in Clients, SeedTurn(c)
  PROVE  Session'
<1>1. pc[c] = "seed" /\ loaded[c] + 1 <= SeedUntil
      /\ naiveLog' = Append(naiveLog, Said(loaded[c] + 1))
      /\ UNCHANGED <<registered, nodes>>
  BY DEF SeedTurn
<1>2. Said(loaded[c] + 1) \in Lines
  BY <1>1, LinesOK, ProbeIsLast DEF Types
<1>3. naiveLog' # <<>>
  BY <1>1, <1>2, LogTypes
<1>4. CASE GiveUp(c)
  BY <1>1, <1>3, <1>4, SessionGivenUp DEF Starting
<1>5. CASE ~GiveUp(c)
  <2>1. /\ Accepted(Said(loaded[c] + 1)) /\ UNCHANGED <<open, pc, msg>>
        /\ loaded' = [loaded EXCEPT ![c] = loaded[c] + 1]
    BY <1>5 DEF SeedTurn
  <2>2. /\ channel' = Append(channel, Said(loaded[c] + 1))
        /\ seededEvents' = seededEvents + 1
    <3>1. ~(Len(channel) >= ChannelBuffer)
      BY <2>1, LimitAssumption DEF Accepted, Types
    <3> QED BY <2>1, <3>1 DEF Accepted, Enqueue
  <2>3. Fresh' /\ ConnectionFollowsSession'
    BY <1>1, <1>3, <2>1 DEF Session, Fresh, ConnectionFollowsSession
  <2>4. Alone'
    BY <1>1, <2>1 DEF Session, Alone
  <2>5. \A d \in Clients \ {c} : pc[d] = "ready"
    BY <1>1 DEF Session, Alone, Starting
  <2>6. /\ loaded'[c] <= SeedUntil /\ seededEvents' = loaded'[c]
        /\ nodes' \o channel' = Seeds(loaded'[c])
    <3>1. loaded[c] \in 0 .. SeedUntil - 1 /\ seededEvents = loaded[c]
          /\ nodes \o channel = Seeds(loaded[c])
      BY <1>1, ProbeIsLast DEF Types, Session, Seeding
    <3>2. loaded'[c] = loaded[c] + 1
      BY <2>1 DEF Types
    <3>3. nodes \o Append(channel, Said(loaded[c] + 1)) = Seeds(loaded[c] + 1)
      BY <3>1, SeedMore
    <3> QED BY <1>1, <2>2, <3>1, <3>2, <3>3
  <2>7. ~registered
    BY <1>1 DEF Session, Alone, Starting
  <2> QED BY <1>1, <2>1, <2>3, <2>4, <2>5, <2>6, <2>7 DEF Session, Seeding, Serving, Scanning
<1> QED BY <1>4, <1>5

(* The tree holds the seeds, or the session is given up. *)
LEMMA SessionWait ==
  ASSUME Types, Session, NEW c \in Clients, WaitForSeededNodes(c)
  PROVE  Session'
<1>1. pc[c] = "seed" /\ loaded[c] = SeedUntil
      /\ UNCHANGED <<registered, naiveLog, nodes, channel, seededEvents>>
  BY DEF WaitForSeededNodes, paneVars, sidecarVars
<1>2. seededEvents = SeedUntil /\ nodes \o channel = Seeds(SeedUntil)
  BY <1>1 DEF Session, Seeding
<1>3. naiveLog # <<>>
  BY <1>2, ProbeIsLast DEF Session, Fresh
<1>4. CASE GiveUp(c)
  BY <1>1, <1>3, <1>4, SessionGivenUp DEF Starting
<1>5. CASE ~GiveUp(c)
  <2>1. TotalNodes >= seededEvents + 1 /\ UNCHANGED open
        /\ pc' = [pc EXCEPT ![c] = "register"]
    BY <1>5 DEF WaitForSeededNodes, Goto
  <2>2. Seeded
    <3>1. Len(nodes) >= SeedUntil
      BY <1>2, <2>1, ProbeIsLast DEF TotalNodes, Types
    <3> QED BY <1>2, <3>1, AllThere
  <2>3. ~registered /\ \A d \in Clients \ {c} : pc[d] = "ready"
    BY <1>1 DEF Session, Alone, Starting
  <2>4. \A d \in Clients : pc'[d] = IF d = c THEN "register" ELSE "ready"
    BY <2>1, <2>3 DEF Types
  <2>5. Fresh' /\ Alone' /\ ConnectionFollowsSession'
    BY <1>1, <1>3, <2>1, <2>3, <2>4
       DEF Session, Fresh, Alone, Starting, ConnectionFollowsSession
  <2>6. Seeding'
    <3>1. Seeded'
      BY <1>1, <2>2 DEF Seeded
    <3> QED BY <2>4, <3>1 DEF Seeding
  <2> QED BY <2>5, <2>6 DEF Session
<1> QED BY <1>4, <1>5

(* From here on requests find the session. *)
LEMMA SessionRegister ==
  ASSUME Types, Session, NEW c \in Clients, Register(c)
  PROVE  Session'
<1>1. pc[c] = "register" /\ registered' /\ pc' = [pc EXCEPT ![c] = "ready"]
      /\ UNCHANGED <<open, naiveLog, nodes>>
  BY DEF Register, Return, Goto, paneVars, sidecarVars
<1>2. Seeded /\ naiveLog # <<>> /\ open
      /\ \A d \in Clients \ {c} : pc[d] = "ready"
  BY <1>1 DEF Session, Seeding, Fresh, Alone, Starting, ConnectionFollowsSession
<1>3. \A d \in Clients : pc'[d] = "ready"
  BY <1>1, <1>2 DEF Types
<1>4. Seeded'
  BY <1>1, <1>2 DEF Seeded
<1> QED BY <1>1, <1>2, <1>3, <1>4
        DEF Session, Fresh, Alone, Seeding, Starting, Serving, Scanning, ConnectionFollowsSession

(* Requests that arrive. *)
LEMMA SessionEntered ==
  ASSUME Types, Session, NEW c \in Clients, NextCall(c) \/ ProbeSession(c) \/ Reset(c)
  PROVE  Session'
<1>1. registered /\ pc[c] = "ready"
  BY DEF NextCall, ProbeSession, Reset, Enter
<1>2. CASE NextCall(c)
  BY <1>1, <1>2, SessionServed
     DEF NextCall, Goto, sessionVars, paneVars, sidecarVars, Starting, Serving, Scanning
<1>3. CASE ProbeSession(c)
  BY <1>1, <1>3, SessionServed
     DEF ProbeSession, Run, Goto, sessionVars, paneVars, sidecarVars, Starting, Serving, Scanning
<1>4. CASE Reset(c)
  <2>1. ~registered' /\ ~open' /\ UNCHANGED <<naiveLog, nodes, pc>>
    BY <1>4 DEF Reset, Close, paneVars, sidecarVars, requestVars
  <2>2. Seeded /\ naiveLog # <<>> /\ \A d \in Clients : pc[d] \notin Starting
    BY <1>1, Found
  <2>3. Seeded'
    BY <2>1, <2>2 DEF Seeded
  <2> QED BY <2>1, <2>2, <2>3
          DEF Session, Fresh, Alone, Seeding, Starting, Serving, Scanning, ConnectionFollowsSession
<1> QED BY <1>2, <1>3, <1>4

(* The worker of the sidecar. *)
LEMMA SessionProcess ==
  ASSUME Types, Session, Process
  PROVE  Session'
<1>1. channel # <<>> /\ nodes' = Append(nodes, Head(channel)) /\ channel' = Tail(channel)
      /\ UNCHANGED <<registered, open, naiveLog, seededEvents, pc, loaded>>
  BY DEF Process, sessionVars, paneVars, requestVars
<1>2. naiveLog # <<>>
  BY <1>1 DEF Session, Fresh
<1>3. nodes' \o channel' = nodes \o channel
  BY <1>1, Moved
<1>4. Seeded => Seeded'
  <2>1. Seeds(SeedUntil) \in Seq(Lines)
    BY LinesOK, ProbeIsLast DEF Seeds
  <2>2. nodes \in Seq(Lines) /\ Head(channel) \in Lines
    BY <1>1 DEF Types
  <2> QED BY <1>1, <2>1, <2>2, PrefixStays DEF Seeded
<1>5. Fresh' /\ Alone' /\ ConnectionFollowsSession'
  BY <1>1, <1>2 DEF Session, Fresh, Alone, ConnectionFollowsSession
<1>6. Seeding'
  BY <1>1, <1>3, <1>4 DEF Session, Seeding
<1> QED BY <1>5, <1>6 DEF Session

(* Steps of a request that runs. *)
LEMMA SessionServes ==
  ASSUME Types, PanesOK, Session, NEW c \in Clients, Serves(c)
  PROVE  Session'
<1>1. CASE Looks(c) \/ Stores(c)
  <2>1. /\ UNCHANGED <<registered, open, paneVars, sidecarVars>> /\ pc[c] \in Scanning
        /\ \E l \in Serving \cup {"ready"} : pc' = [pc EXCEPT ![c] = l]
    BY <1>1, CursorSteps
  <2>2. pc[c] \in Serving /\ pc[c] \notin Starting /\ UNCHANGED <<naiveLog, nodes>>
    BY <2>1 DEF Serving, Scanning, Starting, paneVars, sidecarVars
  <2> QED BY <2>1, <2>2, SessionServed
<1>2. CASE ~(Looks(c) \/ Stores(c))
  <2>1. pc[c] \in Serving /\ pc[c] \notin Starting
    <3>1. acgc[c] = "llm" => pc[c] = "panes"
      BY DEF PanesOK
    <3> QED BY <1>2, <3>1 DEF Serves, Ingest, NaiveRun, AcgcAsk, AcgcAnswer, AcgcFails, Join,
                              Count, Serving, Starting
  <2>2. UNCHANGED <<registered, open, nodes>>
    BY <1>2 DEF Serves, Ingest, NaiveRun, AcgcAsk, AcgcAnswer, AcgcFails, Join, Count,
                sessionVars, sidecarVars
  <2>3. naiveLog # <<>> => naiveLog' # <<>>
    <3>1. Said(msg[c]) \in Lines /\ Reply(msg[c]) \in Lines
      BY LinesOK DEF Types
    <3>2. CASE Ingest(c)
      BY <3>1, <3>2, LogTypes DEF Ingest
    <3>3. CASE NaiveRun(c)
      BY <3>1, <3>3, LogTypes DEF NaiveRun
    <3>4. CASE UNCHANGED naiveLog
      BY <3>4
    <3> QED BY <1>2, <3>2, <3>3, <3>4
            DEF Serves, AcgcAsk, AcgcAnswer, AcgcFails, Join, Count, paneVars
  <2>4. \E l \in Serving \cup {"ready"} : pc' = [pc EXCEPT ![c] = l]
    <3>1. CASE Ingest(c) \/ Join(c) \/ Count(c)
      BY <3>1 DEF Ingest, Join, Count, Return, Goto, Serving, Scanning
    <3>2. CASE NaiveRun(c) \/ AcgcAsk(c) \/ AcgcAnswer(c) \/ AcgcFails(c)
      <4>1. UNCHANGED pc
        BY <3>2 DEF NaiveRun, AcgcAsk, AcgcAnswer, AcgcFails
      <4>2. pc' = [pc EXCEPT ![c] = pc[c]]
        BY <4>1 DEF Types
      <4> QED BY <2>1, <4>2
    <3> QED BY <1>2, <3>1, <3>2 DEF Serves
  <2> QED BY <2>1, <2>2, <2>3, <2>4, SessionServed
<1> QED BY <1>1, <1>2

-----------------------------------------------------------------------------
(* Panes and counters *)

(* The pane of a request is at rest unless the request runs its panes. *)
LEMMA PanesNext ==
  ASSUME Types, PanesOK, Session, [Next]_vars
  PROVE  PanesOK'
<1> SUFFICES ASSUME NEW d \in Clients, acgc'[d] # "done"
             PROVE  pc'[d] = "panes"
  BY DEF PanesOK
<1>0. acgc[d] # "done" => pc[d] = "panes"
  BY DEF PanesOK
<1>1. ASSUME NEW c \in Clients,
             Start(c) \/ SeedTurn(c) \/ WaitForSeededNodes(c) \/ Register(c)
      PROVE  pc'[d] = "panes"
  <2>1. (UNCHANGED acgc /\ pc[c] # "panes") \/ Start(c)
    BY <1>1 DEF SeedTurn, WaitForSeededNodes, Register
  <2>2. CASE Start(c)
    <3>1. naiveLog = <<>> /\ UNCHANGED acgc /\ pc' = [pc EXCEPT ![c] = "seed"]
      BY <2>2 DEF Start, Goto
    <3>2. \A e \in Clients : pc[e] # "panes"
      BY <3>1 DEF Session, Fresh
    <3> QED BY <1>0, <3>1, <3>2
  <2> QED BY <1>0, <1>1, <2>1, <2>2
          DEF SeedTurn, WaitForSeededNodes, Register, GiveUp, Return, Goto, Types
<1>2. ASSUME NEW c \in Clients, NextCall(c) \/ ProbeSession(c) \/ Reset(c)
      PROVE  pc'[d] = "panes"
  BY <1>0, <1>2 DEF NextCall, ProbeSession, Reset, Enter, Run, Goto, Types, requestVars
<1>3. ASSUME NEW c \in Clients, Serves(c)
      PROVE  pc'[d] = "panes"
  <2>1. CASE Looks(c) \/ Stores(c)
    <3>1. PICK l : /\ pc' = [pc EXCEPT ![c] = l]
                   /\ IF l = "panes" THEN Run(c) ELSE UNCHANGED <<naive, acgc>>
      BY <2>1, CursorSteps
    <3>2. pc[c] # "panes"
      BY <2>1, CursorSteps DEF Scanning
    <3> QED BY <1>0, <3>1, <3>2 DEF Run, Goto, Types
  <2>2. CASE Ingest(c) \/ Join(c) \/ Count(c)
    BY <1>0, <2>2 DEF Ingest, Join, Count, Return, Goto, Types
  <2>3. CASE NaiveRun(c) \/ AcgcAsk(c) \/ AcgcAnswer(c) \/ AcgcFails(c)
    BY <1>0, <2>3 DEF NaiveRun, AcgcAsk, AcgcAnswer, AcgcFails, Types
  <2> QED BY <1>3, <2>1, <2>2, <2>3 DEF Serves
<1>4. CASE Process \/ UNCHANGED vars
  BY <1>0, <1>4 DEF Process, vars, requestVars
<1> QED BY <1>1, <1>2, <1>3, <1>4 DEF Next, Step, Serves, Looks, Stores

(* userStepsDone is loaded before it is counted, and counted before it is    *)
(* stored.                                                                   *)
LEMMA CountingNext ==
  ASSUME Types, Counting, [Next]_vars
  PROVE  Counting'
<1> USE DEF Types
<1>0. /\ steps <= served /\ (probes > 0 => served >= WarmUserSteps)
      /\ \A d \in Clients : pc[d] = "count" => loaded[d] <= served
  BY DEF Counting, ProbeComesLast
<1>1. ASSUME NEW c \in Clients,
             Start(c) \/ SeedTurn(c) \/ WaitForSeededNodes(c) \/ Register(c)
      PROVE  Counting'
  <2>1. UNCHANGED <<steps, served, probes>>
    BY <1>1 DEF Start, SeedTurn, WaitForSeededNodes, Register, countVars
  <2>2. \A d \in Clients : pc'[d] = "count" => pc[d] = "count" /\ loaded'[d] = loaded[d]
    BY <1>1 DEF Start, SeedTurn, WaitForSeededNodes, Register, GiveUp, Return, Goto
  <2> QED BY <1>0, <2>1, <2>2 DEF Counting, ProbeComesLast
<1>2. ASSUME NEW c \in Clients, NextCall(c) \/ ProbeSession(c) \/ Reset(c)
      PROVE  Counting'
  <2>1. UNCHANGED <<steps, served, loaded>>
        /\ (probes' = probes \/ steps >= WarmUserSteps)
    BY <1>2 DEF NextCall, ProbeSession, Reset, sessionVars, requestVars
  <2>2. \A d \in Clients : pc'[d] = "count" => pc[d] = "count"
    BY <1>2 DEF NextCall, ProbeSession, Reset, Run, Goto, requestVars
  <2>3. WarmUserSteps \in Int
    BY DEF WarmUserSteps
  <2> QED BY <1>0, <2>1, <2>2, <2>3 DEF Counting, ProbeComesLast
<1>3. ASSUME NEW c \in Clients, Count(c)
      PROVE  Counting'
  <2>1. /\ pc[c] = "count" /\ steps' = loaded[c] + 1 /\ served' = served + 1
        /\ UNCHANGED probes /\ loaded[c] <= served
    BY <1>0, <1>3 DEF Count
  <2>2. \A d \in Clients : pc'[d] = "count" => pc[d] = "count" /\ loaded'[d] = loaded[d]
    BY <1>3 DEF Count, Return, Goto
  <2>3. WarmUserSteps \in Int
    BY DEF WarmUserSteps
  <2> QED BY <1>0, <2>1, <2>2, <2>3 DEF Counting, ProbeComesLast
<1>4. ASSUME NEW c \in Clients, Looks(c) \/ Stores(c)
      PROVE  Counting'
  <2>1. UNCHANGED <<steps, served, probes>>
    BY <1>4, CursorSteps DEF countVars
  <2>2. /\ \E l \in (Serving \ {"scan", "count"}) \cup {"ready"} : pc' = [pc EXCEPT ![c] = l]
        /\ \E k \in Nat : loaded' = [loaded EXCEPT ![c] = k]
    BY <1>4, CursorSteps
  <2>3. \A d \in Clients : pc'[d] = "count" => pc[d] = "count" /\ loaded'[d] = loaded[d]
    BY <2>2
  <2> QED BY <1>0, <2>1, <2>3 DEF Counting, ProbeComesLast
<1>6. ASSUME NEW c \in Clients,
             \/ Ingest(c) \/ NaiveRun(c) \/ AcgcAsk(c) \/ AcgcAnswer(c) \/ AcgcFails(c)
             \/ Join(c)
      PROVE  Counting'
  <2>1. UNCHANGED <<steps, served, probes>>
    BY <1>6 DEF Ingest, NaiveRun, AcgcAsk, AcgcAnswer, AcgcFails, Join, sessionVars, countVars
  <2>2. \A d \in Clients : pc'[d] = "count" =>
          loaded'[d] = steps \/ (pc[d] = "count" /\ loaded'[d] = loaded[d])
    BY <1>6 DEF Ingest, NaiveRun, AcgcAsk, AcgcAnswer, AcgcFails, Join, Return, Goto
  <2> QED BY <1>0, <2>1, <2>2 DEF Counting, ProbeComesLast
<1>5. CASE Process \/ UNCHANGED vars
  <2>1. UNCHANGED <<steps, served, probes, pc, loaded>>
    BY <1>5 DEF Process, vars, sessionVars, requestVars, countVars
  <2> QED BY <1>0, <2>1 DEF Counting, ProbeComesLast
<1> QED BY <1>1, <1>2, <1>3, <1>4, <1>5, <1>6 DEF Next, Step, Looks, Stores

-----------------------------------------------------------------------------
(* What users said *)

(* A transcript with one line more. *)
LEMMA LinesAppend ==
  ASSUME NEW turns
  PROVE  /\ UserLinesOf(<<>>, turns) = <<>>
         /\ \A log \in Seq(Lines), line \in Lines :
              UserLinesOf(Append(log, line), turns)
                = With(UserLinesOf(log, turns), line, turns)
<1>1. Base(Of(turns)) = <<>>
  BY DEF Base, Of
<1>2. Fold(Of(turns), <<>>) = <<>>
  BY <1>1, FoldEmpty
<1>3. ASSUME NEW log \in Seq(Lines), NEW line \in Lines
      PROVE  Fold(Of(turns), Append(log, line)) = With(Fold(Of(turns), log), line, turns)
  <2>1. \A v : Then(Of(turns), v, line) = With(v, line, turns)
    BY DEF Then, Of
  <2> QED BY <2>1, FoldAppend
<1> QED BY <1>2, <1>3, LinesIs

(* What users said in a transcript is a transcript of users. *)
LEMMA LinesType ==
  ASSUME NEW turns, NEW log \in Seq(Lines)
  PROVE  UserLinesOf(log, turns) \in Seq(Lines)
<1> DEFINE To(k) == UserLinesOf(SubSeq(log, 1, k), turns)
           S == {k \in 0 .. Len(log) : To(k) \in Seq(Lines)}
<1>0. 0 \in Nat /\ Len(log) \in Nat
  OBVIOUS
<1>1. 0 \in S
  <2>1. SubSeq(log, 1, 0) = <<>>
    OBVIOUS
  <2>2. To(0) = <<>>
    BY <2>1, LinesAppend, Zenon
  <2> HIDE DEF To
  <2>3. <<>> \in Seq(Lines)
    OBVIOUS
  <2>4. To(0) \in Seq(Lines)
    BY <2>2, <2>3, Zenon
  <2> QED BY <1>0, <2>4
<1>2. ASSUME NEW k \in 0 .. Len(log), k \in S, k < Len(log)
      PROVE  k + 1 \in S
  <2>1. /\ log[k + 1] \in Lines /\ SubSeq(log, 1, k) \in Seq(Lines)
        /\ SubSeq(log, 1, k + 1) = Append(SubSeq(log, 1, k), log[k + 1])
    BY <1>2, PartOf
  <2>2. To(k + 1) = With(To(k), log[k + 1], turns)
    BY <2>1, LinesAppend
  <2> HIDE DEF To
  <2>3. To(k) \in Seq(Lines) /\ k + 1 \in 0 .. Len(log)
    BY <1>0, <1>2
  <2>4. Append(To(k), log[k + 1]) \in Seq(Lines)
    BY <2>1, <2>3
  <2>5. To(k + 1) \in Seq(Lines)
    BY <2>2, <2>3, <2>4, Zenon DEF With
  <2> QED BY <2>3, <2>5
<1>3. \A k \in 0 .. Len(log) : k \in S
  <2> HIDE DEF S
  <2> QED BY <1>0, <1>1, <1>2, Upward
<1>4. SubSeq(log, 1, Len(log)) = log /\ Len(log) \in 0 .. Len(log)
  OBVIOUS
<1>5. To(Len(log)) \in Seq(Lines)
  <2> HIDE DEF To
  <2> QED BY <1>3, <1>4
<1> QED BY <1>4, <1>5

(* A user's line is kept, an assistant's is passed over. *)
LEMMA UserAppend ==
  ASSUME NEW log \in Seq(Lines), NEW line \in Lines
  PROVE  /\ UserLines(log) \in Seq(Lines)
         /\ IsUser(line) => UserLines(Append(log, line)) = Append(UserLines(log), line)
         /\ ~IsUser(line) => UserLines(Append(log, line)) = UserLines(log)
<1>1. line.turn \in 1 .. Probe
  BY DEF Lines
<1>2. UserLines(Append(log, line)) = With(UserLines(log), line, 1 .. Probe)
  BY LinesAppend DEF UserLines
<1>3. UserLines(log) \in Seq(Lines)
  BY LinesType DEF UserLines
<1> QED BY <1>1, <1>2, <1>3 DEF With

(* Panes that were not disturbed get longer, others are not looked at. *)
LEMMA ExtendedIs ==
  ASSUME NEW log \in Seq(Lines), NEW a \in Lines, NEW b \in Lines
  PROVE  /\ Append(log, a) \in Seq(Lines) /\ Append(Append(log, a), b) \in Seq(Lines)
         /\ Extended(log, <<a>>) \in Seq(Lines) /\ Extended(log, <<a, b>>) \in Seq(Lines)
         /\ overlaps = 0 => /\ Extended(log, <<a>>) = Append(log, a)
                            /\ Extended(log, <<a, b>>) = Append(Append(log, a), b)
<1>1. Append(log, a) \in Seq(Lines) /\ Append(Append(log, a), b) \in Seq(Lines)
  OBVIOUS
<1>2. log \o <<a>> = Append(log, a)
  OBVIOUS
<1>3. log \o <<a, b>> = Append(Append(log, a), b)
  OBVIOUS
<1> QED BY <1>1, <1>2, <1>3, Zenon DEF Extended

-----------------------------------------------------------------------------
(* The types that are left *)

PaneTypes ==
  /\ seeded \in BOOLEAN /\ lost \in BOOLEAN
  /\ history \in Seq(Lines) /\ acgcLog \in Seq(Lines) /\ dropped \in Nat
  /\ Len(channel) <= ChannelBuffer
  /\ naive \in [Clients -> {"ask", "done"}]
  /\ calls \in 0 .. MaxCalls /\ probes \in 0 .. MaxProbes
  /\ overlaps \in 0 .. MaxOverlaps

(* An event is in the channel or missed. *)
LEMMA Offered ==
  ASSUME Types, PaneTypes, NEW line \in Lines,
         \/ Enqueue(line) \/ Refused(line) \/ Accepted(line)
         \/ lost' = TRUE /\ UNCHANGED channel
  PROVE  /\ lost' \in BOOLEAN /\ Len(channel') <= ChannelBuffer
         /\ ~lost' => ~lost /\ channel' = Append(channel, line)
<1>1. Len(channel) \in Nat /\ ChannelBuffer \in Nat
      /\ Len(Append(channel, line)) = Len(channel) + 1
  BY LimitAssumption DEF Types
<1>2. Len(channel) <= ChannelBuffer /\ lost \in BOOLEAN
  BY DEF PaneTypes
<1>3. CASE Enqueue(line)
  <2>1. CASE Len(channel) < ChannelBuffer
    <3>1. channel' = Append(channel, line) /\ lost' = lost
      BY <1>1, <1>3, <2>1 DEF Enqueue
    <3>2. Len(channel') <= ChannelBuffer
      BY <1>1, <2>1, <3>1
    <3> QED BY <1>2, <3>1, <3>2, Zenon
  <2>2. CASE ~(Len(channel) < ChannelBuffer)
    <3>1. channel' = channel /\ lost' = TRUE
      BY <1>1, <1>3, <2>2 DEF Enqueue
    <3> QED BY <1>2, <3>1
  <2> QED BY <2>1, <2>2
<1>4. CASE lost' = TRUE /\ UNCHANGED channel
  BY <1>2, <1>4
<1> QED BY <1>3, <1>4 DEF Refused, Accepted

(* The steps that start a session keep the types of the panes. *)
LEMMA PaneTypesStart ==
  ASSUME Types, PaneTypes, NEW c \in Clients,
         Start(c) \/ SeedTurn(c) \/ WaitForSeededNodes(c) \/ Register(c)
  PROVE  PaneTypes'
<1>1. CASE SeedTurn(c)
  <2>1. Said(loaded[c] + 1) \in Lines
    BY <1>1, LinesOK, ProbeIsLast DEF SeedTurn, Types
  <2>2. history' \in Seq(Lines) /\ acgcLog' \in Seq(Lines)
    BY <1>1, <2>1, ExtendedIs DEF SeedTurn, PaneTypes
  <2>3. lost' \in BOOLEAN /\ Len(channel') <= ChannelBuffer
    BY <1>1, <2>1, Offered DEF SeedTurn
  <2> QED BY <1>1, <2>2, <2>3 DEF SeedTurn, PaneTypes, countVars
<1>2. CASE ~SeedTurn(c)
  <2>1. UNCHANGED <<paneVars, channel, lost, naive, countVars>> /\ seeded' \in BOOLEAN
    BY <1>2 DEF Start, WaitForSeededNodes, Register, PaneTypes, sidecarVars
  <2> QED BY <2>1 DEF PaneTypes, paneVars, countVars
<1> QED BY <1>1, <1>2

(* The calls that enter a session leave the panes alone, *)
LEMMA PaneTypesEnter ==
  ASSUME Types, PaneTypes, NEW c \in Clients, NextCall(c) \/ ProbeSession(c) \/ Reset(c)
  PROVE  PaneTypes'
<1>1. overlaps' \in 0 .. MaxOverlaps
  BY LimitAssumption DEF NextCall, ProbeSession, Reset, Enter, PaneTypes
<1>2. calls' \in 0 .. MaxCalls /\ probes' \in 0 .. MaxProbes
  BY LimitAssumption DEF NextCall, ProbeSession, Reset, PaneTypes
<1>3. UNCHANGED <<seeded, paneVars, sidecarVars>> /\ naive' \in [Clients -> {"ask", "done"}]
  BY DEF NextCall, ProbeSession, Reset, Run, sessionVars, requestVars, PaneTypes
<1> QED BY <1>1, <1>2, <1>3 DEF PaneTypes, paneVars, sidecarVars

(* and the steps that serve a request add lines to them. *)
LEMMA PaneTypesServe ==
  ASSUME Types, PaneTypes, NEW c \in Clients, Serves(c)
  PROVE  PaneTypes'
<1>0. Said(msg[c]) \in Lines /\ Reply(msg[c]) \in Lines /\ msg[c] \in 1 .. Probe
  BY LinesOK DEF Types
<1>1. CASE Looks(c) \/ Stores(c)
  <2>1. PICK l : IF l = "panes" THEN Run(c) ELSE UNCHANGED <<naive, acgc>>
    BY <1>1, CursorSteps
  <2>2. naive' \in [Clients -> {"ask", "done"}]
    BY <2>1 DEF Run, PaneTypes
  <2>3. UNCHANGED <<seeded, paneVars, sidecarVars, countVars>>
    BY <1>1, CursorSteps
  <2> QED BY <2>2, <2>3 DEF PaneTypes, paneVars, sidecarVars, countVars
<1>5. CASE Join(c) \/ Count(c)
  <2>1. UNCHANGED <<seeded, paneVars, sidecarVars, calls, probes, overlaps, naive>>
    BY <1>5 DEF Join, Count, sessionVars, countVars
  <2> QED BY <2>1 DEF PaneTypes, paneVars, sidecarVars
<1>2. CASE Ingest(c)
  <2>1. history' \in Seq(Lines) /\ acgcLog' \in Seq(Lines) /\ dropped' \in Nat
    BY <1>0, <1>2, ExtendedIs DEF Ingest, PaneTypes
  <2>2. lost' \in BOOLEAN /\ Len(channel') <= ChannelBuffer
    BY <1>0, <1>2, Offered DEF Ingest
  <2>3. UNCHANGED <<seeded, naive, countVars>>
    BY <1>2 DEF Ingest, sessionVars
  <2> QED BY <2>1, <2>2, <2>3 DEF PaneTypes, countVars
<1>6. CASE AcgcFails(c)
  <2>1. lost' \in BOOLEAN /\ Len(channel') <= ChannelBuffer
    <3>1. CASE Enqueue(Reply(msg[c]))
      BY <1>0, <3>1, Offered
    <3>2. CASE UNCHANGED <<channel, lost>>
      BY <3>2 DEF PaneTypes
    <3> QED BY <1>6, <3>1, <3>2 DEF AcgcFails
  <2>2. UNCHANGED <<seeded, paneVars, naive, countVars>>
    BY <1>6 DEF AcgcFails, sessionVars
  <2> QED BY <2>1, <2>2 DEF PaneTypes, paneVars, countVars
<1>3. CASE NaiveRun(c)
  <2>1. history' \in Seq(Lines)
    <3>1. /\ Extended(history, <<Said(msg[c])>>) \in Seq(Lines)
          /\ Extended(history, <<Said(msg[c]), Reply(msg[c])>>) \in Seq(Lines)
      BY <1>0, ExtendedIs DEF PaneTypes
    <3> QED BY <1>3, <3>1 DEF NaiveRun
  <2>2. dropped' \in Nat
    <3>1. LeftOut(history, msg[c]) \in 0 .. Len(history)
      BY <1>0, LeftOutIs DEF PaneTypes
    <3>2. LeftOut(history, msg[c]) \in Nat
      BY <3>1
    <3> QED BY <1>3, <3>2 DEF NaiveRun, PaneTypes
  <2>3. UNCHANGED <<seeded, acgcLog, channel, lost, countVars>>
        /\ naive' \in [Clients -> {"ask", "done"}]
    BY <1>3 DEF NaiveRun, sessionVars, sidecarVars, PaneTypes
  <2> QED BY <2>1, <2>2, <2>3 DEF PaneTypes, countVars
<1>4. CASE AcgcAsk(c) \/ AcgcAnswer(c)
  <2>1. lost' \in BOOLEAN /\ Len(channel') <= ChannelBuffer
    BY <1>0, <1>4, Offered DEF AcgcAsk, AcgcAnswer
  <2>2. acgcLog' \in Seq(Lines)
    BY <1>0, <1>4, ExtendedIs DEF AcgcAsk, AcgcAnswer, PaneTypes
  <2>3. UNCHANGED <<seeded, history, dropped, naive, countVars>>
    BY <1>4 DEF AcgcAsk, AcgcAnswer, sessionVars
  <2> QED BY <2>1, <2>2, <2>3 DEF PaneTypes, countVars
<1> QED BY <1>1, <1>2, <1>3, <1>4, <1>5, <1>6 DEF Serves

(* So the panes keep their types. *)
LEMMA PaneTypesNext ==
  ASSUME Types, PaneTypes, [Next]_vars
  PROVE  PaneTypes'
<1>1. CASE Process
  <2>1. Len(channel') <= ChannelBuffer
    <3>1. Len(Tail(channel)) = Len(channel) - 1 /\ Len(channel) \in Nat
      BY <1>1 DEF Process, Types
    <3> QED BY <1>1, <3>1, LimitAssumption DEF Process, PaneTypes
  <2> QED BY <1>1, <2>1
          DEF Process, PaneTypes, sessionVars, paneVars, requestVars, countVars
<1>2. CASE UNCHANGED vars
  BY <1>2 DEF vars, PaneTypes, sessionVars, paneVars, sidecarVars, requestVars, countVars
<1> QED BY <1>1, <1>2, PaneTypesStart, PaneTypesEnter, PaneTypesServe
        DEF Next, Step, Serves, Looks, Stores

(* What a request runs with: a user's turn, and none but a probe asks the    *)
(* question.                                                                 *)
MsgOK ==
  /\ \A c \in Clients :
       pc[c] \in {"load", "advance", "ingest", "skip", "peek", "pass", "over"}
         => msg[c] # Probe
  /\ \A c \in Clients :
       pc[c] \in {"skip", "peek", "pass", "over", "panes"} => IsUser(Said(msg[c]))

(* A request that is past its turn's choice has one to say. *)
LEMMA MsgNext ==
  ASSUME Types, PanesOK, MsgOK, [Next]_vars
  PROVE  MsgOK'
<1> USE DEF Types
<1>0. /\ \A d \in Clients :
           pc[d] \in {"load", "advance", "ingest", "skip", "peek", "pass", "over"}
             => msg[d] # Probe
      /\ \A d \in Clients :
           pc[d] \in {"skip", "peek", "pass", "over", "panes"} => IsUser(Said(msg[d]))
      /\ IsUser(Said(Probe))
  <2>1. Spoken[Probe] = Question
    BY ScriptAssumption DEF Spoken, Probe
  <2>2. Question.role = "user"
    BY ScriptAssumption
  <2> QED BY <2>1, <2>2 DEF MsgOK, IsUser, Said
<1>1. ASSUME NEW c \in Clients, Index(c)
      PROVE  MsgOK'
  <2>1. PICK k \in Loads(c) :
          \/ /\ k < Len(Script)
             /\ msg' = [msg EXCEPT ![c] = k + 1]
             /\ Holds(c, k) /\ Goto(c, "load")
          \/ k >= Len(Script) /\ Return(c)
    BY <1>1 DEF Index
  <2>2. CASE Return(c)
    BY <1>0, <2>2 DEF Return, Goto, MsgOK
  <2>3. CASE ~Return(c)
    <3>1. k < Len(Script) /\ msg' = [msg EXCEPT ![c] = k + 1]
          /\ pc' = [pc EXCEPT ![c] = "load"]
      BY <2>1, <2>3 DEF Goto
    <3>2. k + 1 # Probe
      BY <3>1, ProbeIsLast DEF Loads
    <3> QED BY <1>0, <3>1, <3>2 DEF MsgOK
  <2> QED BY <2>2, <2>3
<1>2. ASSUME NEW c \in Clients,
             Scan(c) \/ Load(c) \/ Advance(c) \/ Ingest(c) \/ NextCall(c)
      PROVE  MsgOK'
  BY <1>0, <1>2 DEF Scan, Load, Advance, Ingest, NextCall, Return, Goto, MsgOK
<1>7. ASSUME NEW c \in Clients, Skip(c) \/ Peek(c) \/ Over(c)
      PROVE  MsgOK'
  BY <1>0, <1>7 DEF Skip, Peek, Over, Run, Return, Goto, MsgOK
<1>3. ASSUME NEW c \in Clients, ProbeSession(c)
      PROVE  MsgOK'
  BY <1>0, <1>3 DEF ProbeSession, Run, Goto, MsgOK
<1>4. ASSUME NEW c \in Clients, Start(c) \/ Register(c) \/ Join(c) \/ Count(c)
      PROVE  MsgOK'
  BY <1>0, <1>4 DEF Start, Register, Join, Count, Return, Goto, MsgOK
<1>5. ASSUME NEW c \in Clients, SeedTurn(c) \/ WaitForSeededNodes(c)
      PROVE  MsgOK'
  BY <1>0, <1>5 DEF SeedTurn, WaitForSeededNodes, GiveUp, Return, Goto, MsgOK
<1>6. CASE UNCHANGED <<pc, msg>>
  BY <1>0, <1>6 DEF MsgOK
<1> QED BY <1>1, <1>2, <1>3, <1>4, <1>5, <1>6, <1>7
        DEF Next, Step, Reset, NaiveRun, AcgcAsk, AcgcAnswer, AcgcFails, Process, vars,
            requestVars

(* The calls of Next that are under way: what was served and they were called. *)
InFlight ==
  {c \in Clients : \/ pc[c] \in Scanning \cup {"ingest", "count"}
                   \/ pc[c] = "panes" /\ msg[c] # Probe}
CallsOK == IsFiniteSet(InFlight) /\ served + Cardinality(InFlight) <= calls

(* Every served call was made, and none is counted while it is in flight. *)
LEMMA CallsNext ==
  ASSUME Types, PaneTypes, MsgOK, CallsOK, [Next]_vars
  PROVE  CallsOK'
<1>0. /\ calls \in Nat /\ served \in Nat /\ IsFiniteSet(InFlight)
      /\ Cardinality(InFlight) \in Nat /\ served + Cardinality(InFlight) <= calls
  BY FS_CardinalityType, LimitAssumption DEF Types, PaneTypes, CallsOK
<1>1. ASSUME InFlight' \subseteq InFlight, UNCHANGED <<served, calls>>
      PROVE  CallsOK'
  <2>1. /\ IsFiniteSet(InFlight') /\ Cardinality(InFlight') <= Cardinality(InFlight)
        /\ Cardinality(InFlight') \in Nat
    BY <1>0, <1>1, FS_Subset, FS_CardinalityType
  <2> QED BY <1>0, <1>1, <2>1 DEF CallsOK
<1>2. ASSUME NEW c \in Clients, NextCall(c)
      PROVE  CallsOK'
  <2>1. InFlight' \subseteq InFlight \cup {c} /\ calls' = calls + 1 /\ UNCHANGED served
    BY <1>2 DEF NextCall, Goto, InFlight, Types, Scanning
  <2>2. /\ IsFiniteSet(InFlight \cup {c})
        /\ Cardinality(InFlight \cup {c}) <= Cardinality(InFlight) + 1
        /\ Cardinality(InFlight \cup {c}) \in Nat
    <3>1. /\ IsFiniteSet(InFlight \cup {c})
          /\ Cardinality(InFlight \cup {c})
               = IF c \in InFlight THEN Cardinality(InFlight) ELSE Cardinality(InFlight) + 1
      BY <1>0, FS_AddElement
    <3> QED BY <1>0, <3>1
  <2>3. /\ IsFiniteSet(InFlight')
        /\ Cardinality(InFlight') <= Cardinality(InFlight \cup {c})
        /\ Cardinality(InFlight') \in Nat
    BY <2>1, <2>2, FS_Subset, FS_CardinalityType
  <2> QED BY <1>0, <2>1, <2>2, <2>3 DEF CallsOK
<1>3. ASSUME NEW c \in Clients, Count(c)
      PROVE  CallsOK'
  <2>1. /\ InFlight' \subseteq InFlight \ {c} /\ c \in InFlight
        /\ UNCHANGED calls /\ served' = served + 1
    BY <1>3 DEF Count, Return, Goto, InFlight, Types, Scanning
  <2>2. /\ IsFiniteSet(InFlight \ {c})
        /\ Cardinality(InFlight \ {c}) = Cardinality(InFlight) - 1
    BY <1>0, <2>1, FS_RemoveElement
  <2>3. /\ IsFiniteSet(InFlight')
        /\ Cardinality(InFlight') <= Cardinality(InFlight \ {c})
        /\ Cardinality(InFlight') \in Nat
    BY <2>1, <2>2, FS_Subset, FS_CardinalityType
  <2> QED BY <1>0, <2>1, <2>2, <2>3 DEF CallsOK
<1> USE DEF Types
<1>4. ASSUME NEW c \in Clients, SeedTurn(c) \/ WaitForSeededNodes(c)
      PROVE  CallsOK'
  <2>1. InFlight' \subseteq InFlight /\ UNCHANGED <<served, calls>>
    BY <1>4 DEF SeedTurn, WaitForSeededNodes, GiveUp, Return, Goto, InFlight, Scanning,
                countVars
  <2> QED BY <1>1, <2>1
<1>5. ASSUME NEW c \in Clients, Start(c) \/ Register(c)
      PROVE  CallsOK'
  <2>1. InFlight' \subseteq InFlight /\ UNCHANGED <<served, calls>>
    BY <1>5 DEF Start, Register, Return, Goto, InFlight, Scanning, countVars
  <2> QED BY <1>1, <2>1
<1>6. ASSUME NEW c \in Clients, Looks(c) \/ Stores(c)
      PROVE  CallsOK'
  <2>1. /\ c \in InFlight /\ UNCHANGED <<served, calls>>
        /\ \E l : pc' = [pc EXCEPT ![c] = l]
        /\ \E t : msg' = [msg EXCEPT ![c] = t]
    BY <1>6, CursorSteps DEF InFlight, countVars
  <2>2. InFlight' \subseteq InFlight
    BY <2>1 DEF InFlight
  <2> QED BY <1>1, <2>1, <2>2
<1>7. ASSUME NEW c \in Clients, Ingest(c) \/ Join(c) \/ ProbeSession(c)
      PROVE  CallsOK'
  <2>1. InFlight' \subseteq InFlight /\ UNCHANGED <<served, calls>>
    BY <1>7 DEF Ingest, Join, ProbeSession, Run, Return, Goto, InFlight, Scanning, countVars
  <2> QED BY <1>1, <2>1
<1>8. CASE UNCHANGED <<pc, msg, served, calls>>
  <2>1. InFlight' = InFlight
    BY <1>8 DEF InFlight
  <2> QED BY <1>1, <1>8, <2>1
<1> QED BY <1>2, <1>3, <1>4, <1>5, <1>6, <1>7, <1>8
        DEF Next, Step, Looks, Stores, Reset, NaiveRun, AcgcAsk, AcgcAnswer, AcgcFails,
            Process, vars, requestVars, countVars

-----------------------------------------------------------------------------
(* Requests that never overlapped *)

(* They come one after the other; *)
Solo ==
  overlaps = 0 =>
    \A c, d \in Clients : pc[c] # "ready" /\ pc[d] # "ready" => c = d

(* Start finds nobody. *)
LEMMA StartAlone ==
  ASSUME Session, NEW c \in Clients, Start(c)
  PROVE  \A d \in Clients : pc[d] = "ready"
<1>1. naiveLog = <<>> /\ ~open
  BY DEF Start, NewContextRuntime
<1>2. \A d \in Clients : pc[d] \in {"ready", "seed"}
  BY <1>1 DEF Session, Fresh
<1> QED BY <1>1, <1>2 DEF Session, ConnectionFollowsSession

(* Overlaps are counted, and nothing uncounts them. *)
LEMMA StillSolo ==
  ASSUME PaneTypes, [Next]_vars, overlaps' = 0
  PROVE  overlaps = 0
<1>1. overlaps \in Nat
  BY LimitAssumption DEF PaneTypes
<1>2. overlaps' = overlaps \/ overlaps' = overlaps + 1
  BY DEF Next, Step, Start, SeedTurn, WaitForSeededNodes, Register, NextCall, ProbeSession,
         Reset, Enter, Scan, Index, Load, Advance, Ingest, Skip, Peek, Over, NaiveRun,
         AcgcAsk, AcgcAnswer, AcgcFails, Join, Count, Process, countVars, vars
<1> QED BY <1>1, <1>2

(* Calls that never overlapped are never two in flight. *)
LEMMA SoloNext ==
  ASSUME Types, PaneTypes, PanesOK, Session, Solo, [Next]_vars
  PROVE  Solo'
<1> USE DEF Types
<1> SUFFICES ASSUME overlaps' = 0
             PROVE  \A d, e \in Clients : pc'[d] # "ready" /\ pc'[e] # "ready" => d = e
  BY DEF Solo
<1>0. \A d, e \in Clients : pc[d] # "ready" /\ pc[e] # "ready" => d = e
  BY StillSolo DEF Solo
<1>1. ASSUME NEW c \in Clients, pc[c] # "ready", NEW l, pc' = [pc EXCEPT ![c] = l]
      PROVE  \A d, e \in Clients : pc'[d] # "ready" /\ pc'[e] # "ready" => d = e
  BY <1>0, <1>1
<1>2. ASSUME NEW c \in Clients, \A d \in Clients : pc[d] = "ready", NEW l,
             pc' = [pc EXCEPT ![c] = l]
      PROVE  \A d, e \in Clients : pc'[d] # "ready" /\ pc'[e] # "ready" => d = e
  BY <1>2
<1>3. ASSUME NEW c \in Clients, Start(c)
      PROVE  \A d, e \in Clients : pc'[d] # "ready" /\ pc'[e] # "ready" => d = e
  BY <1>2, <1>3, StartAlone DEF Start, Goto
<1>4. ASSUME NEW c \in Clients, NextCall(c) \/ ProbeSession(c)
      PROVE  \A d, e \in Clients : pc'[d] # "ready" /\ pc'[e] # "ready" => d = e
  <2>1. AtRest
    <3>1. overlaps' # overlaps + 1
      BY StillSolo
    <3> QED BY <1>4, <3>1 DEF NextCall, ProbeSession, Enter
  <2> QED BY <1>2, <1>4, <2>1 DEF NextCall, ProbeSession, Run, Goto, AtRest
<1>5. ASSUME NEW c \in Clients,
             \/ SeedTurn(c) \/ WaitForSeededNodes(c) \/ Register(c)
             \/ Ingest(c) \/ Join(c) \/ Count(c)
      PROVE  \A d, e \in Clients : pc'[d] # "ready" /\ pc'[e] # "ready" => d = e
  <2>1. pc[c] # "ready"
    BY <1>5 DEF SeedTurn, WaitForSeededNodes, Register, Ingest, Join, Count
  <2>2. UNCHANGED pc \/ \E l : pc' = [pc EXCEPT ![c] = l]
    BY <1>5 DEF SeedTurn, WaitForSeededNodes, Register, Ingest, Join, Count,
                GiveUp, Return, Goto
  <2> QED BY <1>0, <1>1, <2>1, <2>2
<1>7. ASSUME NEW c \in Clients, Looks(c) \/ Stores(c)
      PROVE  \A d, e \in Clients : pc'[d] # "ready" /\ pc'[e] # "ready" => d = e
  <2>1. pc[c] # "ready" /\ \E l : pc' = [pc EXCEPT ![c] = l]
    BY <1>7, CursorSteps DEF Scanning
  <2> QED BY <1>1, <2>1
<1>6. CASE UNCHANGED pc
  BY <1>0, <1>6
<1> QED BY <1>3, <1>4, <1>5, <1>6, <1>7
        DEF Next, Step, Looks, Stores, Reset, NaiveRun, AcgcAsk, AcgcAnswer, AcgcFails, Process, vars,
            requestVars

(* then what users said is the same on both sides of each pane: in its       *)
(* history and its transcript, in the sidecar and the transcript of the      *)
(* other unless an event was missed,                                         *)
Mirrors ==
  overlaps = 0 =>
    /\ UserLines(history) = UserLines(naiveLog)
    /\ ~lost => UserLines(nodes \o channel) = UserLines(acgcLog)

(* and in both panes, but for the message that one of them still has to take.*)
SameUsers == UserLines(naiveLog) = UserLines(acgcLog)
Level ==
  overlaps = 0 =>
    /\ (\A c \in Clients : pc[c] # "panes") => SameUsers
    /\ \A c \in Clients : pc[c] = "panes" =>
         /\ (naive[c] = "ask" <=> acgc[c] = "ask") => SameUsers
         /\ naive[c] # "ask" /\ acgc[c] = "ask"
              => UserLines(naiveLog) = Append(UserLines(acgcLog), Said(msg[c]))
         /\ naive[c] = "ask" /\ acgc[c] # "ask"
              => UserLines(acgcLog) = Append(UserLines(naiveLog), Said(msg[c]))

(* The same line on both sides. *)
LEMMA BothAppend ==
  ASSUME NEW log \in Seq(Lines), NEW more \in Seq(Lines), NEW line \in Lines,
         UserLines(log) = UserLines(more)
  PROVE  UserLines(Append(log, line)) = UserLines(Append(more, line))
<1>1. CASE IsUser(line)
  <2>1. UserLines(Append(log, line)) = Append(UserLines(log), line)
    BY <1>1, UserAppend
  <2>2. UserLines(Append(more, line)) = Append(UserLines(more), line)
    BY <1>1, UserAppend
  <2> QED BY <2>1, <2>2, Zenon
<1>2. CASE ~IsUser(line)
  <2>1. UserLines(Append(log, line)) = UserLines(log)
    BY <1>2, UserAppend
  <2>2. UserLines(Append(more, line)) = UserLines(more)
    BY <1>2, UserAppend
  <2> QED BY <2>1, <2>2, Zenon
<1> QED BY <1>1, <1>2

(* A line the sidecar's pane offers is on its way to the tree, or lost; *)
LEMMA SidecarAppend ==
  ASSUME Types, PaneTypes, Mirrors, overlaps = 0, NEW line \in Lines,
         \/ Enqueue(line) \/ Refused(line) \/ Accepted(line)
         \/ lost' = TRUE /\ UNCHANGED channel,
         UNCHANGED nodes, acgcLog' = Append(acgcLog, line)
  PROVE  ~lost' => UserLines(nodes' \o channel') = UserLines(acgcLog')
<1> SUFFICES ASSUME ~lost' PROVE UserLines(nodes' \o channel') = UserLines(acgcLog')
  OBVIOUS
<1>1. ~lost /\ channel' = Append(channel, line)
  BY Offered
<1>2. nodes \o channel \in Seq(Lines) /\ acgcLog \in Seq(Lines)
      /\ nodes \o Append(channel, line) = Append(nodes \o channel, line)
  BY DEF Types, PaneTypes
<1>3. UserLines(nodes \o channel) = UserLines(acgcLog)
  BY <1>1 DEF Mirrors
<1>4. UserLines(Append(nodes \o channel, line)) = UserLines(Append(acgcLog, line))
  BY <1>2, <1>3, BothAppend
<1>5. nodes' \o channel' = Append(nodes \o channel, line)
  BY <1>1, <1>2
<1> QED BY <1>4, <1>5, Zenon

(* so the tree and the channel hold what the pane says users said. *)
LEMMA MirrorsNext ==
  ASSUME Types, PaneTypes, Mirrors, [Next]_vars
  PROVE  Mirrors'
<1> SUFFICES ASSUME overlaps' = 0
             PROVE  /\ UserLines(history') = UserLines(naiveLog')
                    /\ ~lost' => UserLines(nodes' \o channel') = UserLines(acgcLog')
  BY DEF Mirrors, UserLines
<1>0. /\ overlaps = 0 /\ UserLines(history) = UserLines(naiveLog)
      /\ ~lost => UserLines(nodes \o channel) = UserLines(acgcLog)
      /\ history \in Seq(Lines) /\ naiveLog \in Seq(Lines) /\ acgcLog \in Seq(Lines)
  BY StillSolo DEF Mirrors, Types, PaneTypes
<1>1. ASSUME NEW c \in Clients, SeedTurn(c)
      PROVE  /\ UserLines(history') = UserLines(naiveLog')
             /\ ~lost' => UserLines(nodes' \o channel') = UserLines(acgcLog')
  <2>1. Said(loaded[c] + 1) \in Lines
    BY <1>1, LinesOK, ProbeIsLast DEF SeedTurn, Types
  <2>2. /\ history' = Append(history, Said(loaded[c] + 1))
        /\ naiveLog' = Append(naiveLog, Said(loaded[c] + 1))
        /\ acgcLog' = Append(acgcLog, Said(loaded[c] + 1)) /\ UNCHANGED nodes
        /\ Accepted(Said(loaded[c] + 1)) \/ Refused(Said(loaded[c] + 1))
    BY <1>1 DEF SeedTurn
  <2>3. UserLines(history') = UserLines(naiveLog')
    BY <1>0, <2>1, <2>2, BothAppend
  <2> QED BY <1>0, <2>1, <2>2, <2>3, SidecarAppend
<1>2. ASSUME NEW c \in Clients, Ingest(c)
      PROVE  /\ UserLines(history') = UserLines(naiveLog')
             /\ ~lost' => UserLines(nodes' \o channel') = UserLines(acgcLog')
  <2>1. Said(msg[c]) \in Lines
    BY LinesOK DEF Types
  <2>2. /\ history' = Extended(history, <<Said(msg[c])>>)
        /\ naiveLog' = Extended(naiveLog, <<Said(msg[c])>>)
        /\ acgcLog' = Extended(acgcLog, <<Said(msg[c])>>) /\ UNCHANGED nodes
        /\ Accepted(Said(msg[c])) \/ Refused(Said(msg[c]))
    BY <1>2 DEF Ingest
  <2>3. /\ history' = Append(history, Said(msg[c]))
        /\ naiveLog' = Append(naiveLog, Said(msg[c]))
        /\ acgcLog' = Append(acgcLog, Said(msg[c]))
    BY <1>0, <2>1, <2>2, ExtendedIs
  <2>4. UserLines(history') = UserLines(naiveLog')
    BY <1>0, <2>1, <2>3, BothAppend
  <2> QED BY <1>0, <2>1, <2>2, <2>3, <2>4, SidecarAppend
<1>3. ASSUME NEW c \in Clients, NaiveRun(c)
      PROVE  /\ UserLines(history') = UserLines(naiveLog')
             /\ ~lost' => UserLines(nodes' \o channel') = UserLines(acgcLog')
  <2> DEFINE a == Said(msg[c])
             b == Reply(msg[c])
  <2>1. a \in Lines /\ b \in Lines
    BY LinesOK DEF Types
  <2>2. UNCHANGED <<acgcLog, nodes, channel, lost>>
    BY <1>3 DEF NaiveRun, sidecarVars
  <2>3. \/ /\ history' = Extended(history, <<a, b>>)
           /\ naiveLog' = Extended(naiveLog, <<a, b>>)
        \/ /\ history' = Extended(history, <<a>>)
           /\ naiveLog' = Extended(naiveLog, <<a>>)
    BY <1>3 DEF NaiveRun
  <2> HIDE DEF a, b
  <2>4. \/ /\ history' = Append(Append(history, a), b)
           /\ naiveLog' = Append(Append(naiveLog, a), b)
        \/ history' = Append(history, a) /\ naiveLog' = Append(naiveLog, a)
    <3>1. ASSUME NEW log \in Seq(Lines)
          PROVE  /\ Extended(log, <<a>>) = Append(log, a)
                 /\ Extended(log, <<a, b>>) = Append(Append(log, a), b)
      BY <1>0, <2>1, ExtendedIs
    <3> QED BY <1>0, <2>3, <3>1, Zenon
  <2>5. UserLines(Append(history, a)) = UserLines(Append(naiveLog, a))
        /\ Append(history, a) \in Seq(Lines) /\ Append(naiveLog, a) \in Seq(Lines)
    BY <1>0, <2>1, BothAppend
  <2>6. UserLines(Append(Append(history, a), b)) = UserLines(Append(Append(naiveLog, a), b))
    BY <2>1, <2>5, BothAppend
  <2>7. UserLines(history') = UserLines(naiveLog')
    BY <2>4, <2>5, <2>6, Zenon
  <2> QED BY <1>0, <2>2, <2>7
<1>4. ASSUME NEW c \in Clients, AcgcAsk(c) \/ AcgcAnswer(c)
      PROVE  /\ UserLines(history') = UserLines(naiveLog')
             /\ ~lost' => UserLines(nodes' \o channel') = UserLines(acgcLog')
  <2>1. PICK line \in Lines :
          /\ acgcLog' = Extended(acgcLog, <<line>>)
          /\ Enqueue(line) \/ (lost' = TRUE /\ UNCHANGED channel)
    <3>1. Said(msg[c]) \in Lines /\ Reply(msg[c]) \in Lines
      BY LinesOK DEF Types
    <3> QED BY <1>4, <3>1 DEF AcgcAsk, AcgcAnswer
  <2>2. acgcLog' = Append(acgcLog, line)
    BY <1>0, <2>1, ExtendedIs
  <2>3. UNCHANGED <<nodes, history, naiveLog>>
    BY <1>4 DEF AcgcAsk, AcgcAnswer
  <2> QED BY <1>0, <2>1, <2>2, <2>3, SidecarAppend
<1>5. CASE Process
  <2>1. UNCHANGED <<history, naiveLog, acgcLog, lost>>
    BY <1>5 DEF Process, paneVars
  <2>2. nodes' \o channel' = nodes \o channel
    BY <1>5, Moved DEF Process
  <2> QED BY <1>0, <2>1, <2>2, Zenon
<1>6. CASE UNCHANGED <<history, naiveLog, acgcLog, nodes, channel, lost>>
  BY <1>0, <1>6
<1>7. ASSUME NEW c \in Clients, Looks(c) \/ Stores(c)
      PROVE  UNCHANGED <<history, naiveLog, acgcLog, nodes, channel, lost>>
  BY <1>7, CursorSteps DEF paneVars, sidecarVars
<1>8. ASSUME NEW c \in Clients, AcgcFails(c)
      PROVE  /\ UserLines(history') = UserLines(naiveLog')
             /\ ~lost' => UserLines(nodes' \o channel') = UserLines(acgcLog')
  <2>1. UNCHANGED <<history, naiveLog, acgcLog, nodes>>
    BY <1>8 DEF AcgcFails, paneVars
  <2>2. CASE UNCHANGED <<channel, lost>>
    BY <1>6, <2>1, <2>2
  <2>3. CASE Enqueue(Reply(msg[c]))
    <3> DEFINE a == Reply(msg[c])
    <3>1. a \in Lines /\ ~IsUser(a)
      BY LinesOK DEF Types, IsUser, Reply
    <3> HIDE DEF a
    <3>2. ~lost' => ~lost /\ channel' = Append(channel, a)
      BY <2>3, <3>1, Offered DEF a
    <3>3. nodes \o channel \in Seq(Lines)
          /\ nodes \o Append(channel, a) = Append(nodes \o channel, a)
      BY <3>1 DEF Types
    <3>4. UserLines(Append(nodes \o channel, a)) = UserLines(nodes \o channel)
      BY <3>1, <3>3, UserAppend
    <3>5. ASSUME ~lost' PROVE UserLines(nodes' \o channel') = UserLines(acgcLog')
      <4>1. nodes' \o channel' = Append(nodes \o channel, a)
        BY <2>1, <3>2, <3>3, <3>5
      <4> QED BY <1>0, <2>1, <3>2, <3>4, <3>5, <4>1, Zenon
    <3> QED BY <1>0, <2>1, <3>5, Zenon
  <2> QED BY <1>8, <2>2, <2>3 DEF AcgcFails
<1> QED BY <1>1, <1>2, <1>3, <1>4, <1>5, <1>6, <1>7, <1>8
        DEF Next, Step, Looks, Stores, Start, WaitForSeededNodes, Register, NextCall,
            ProbeSession, Reset, Join, Count, vars, paneVars, sidecarVars

(* The panes are level but for the request that is between the two. *)
LEMMA LevelNext ==
  ASSUME Types, PaneTypes, PanesOK, MsgOK, Session, Solo, Level, [Next]_vars
  PROVE  Level'
<1> USE DEF Types
<1> SUFFICES ASSUME overlaps' = 0 PROVE Level'
  BY DEF Level
<1>0. /\ overlaps = 0 /\ naiveLog \in Seq(Lines) /\ acgcLog \in Seq(Lines)
      /\ naive \in [Clients -> {"ask", "done"}]
  BY StillSolo DEF PaneTypes
<1>1. /\ (\A d \in Clients : pc[d] # "panes") => SameUsers
      /\ \A d \in Clients : pc[d] = "panes" =>
           /\ (naive[d] = "ask" <=> acgc[d] = "ask") => SameUsers
           /\ naive[d] # "ask" /\ acgc[d] = "ask"
                => UserLines(naiveLog) = Append(UserLines(acgcLog), Said(msg[d]))
           /\ naive[d] = "ask" /\ acgc[d] # "ask"
                => UserLines(acgcLog) = Append(UserLines(naiveLog), Said(msg[d]))
  BY <1>0 DEF Level
<1>2. ASSUME NEW c \in Clients, pc[c] # "ready"
      PROVE  \A d \in Clients : d # c => pc[d] = "ready"
  BY <1>0, <1>2 DEF Solo
<1>3. ASSUME SameUsers', \A d \in Clients : pc'[d] # "panes"
      PROVE  Level'
  BY <1>3 DEF Level
<1>4. ASSUME SameUsers', \A d \in Clients : pc'[d] = "panes" =>
                           naive'[d] = "ask" /\ acgc'[d] = "ask"
      PROVE  Level'
  BY <1>4 DEF Level
<1>5. UNCHANGED <<naiveLog, acgcLog>> /\ SameUsers => SameUsers'
  BY DEF SameUsers, UserLines
<1>6. ASSUME NEW c \in Clients, SeedTurn(c)
      PROVE  Level'
  <2>1. SameUsers /\ Said(loaded[c] + 1) \in Lines
        /\ \A d \in Clients : pc[d] # "panes"
    <3>1. pc[c] = "seed" /\ loaded[c] + 1 \in 1 .. Probe
      BY <1>6, ProbeIsLast DEF SeedTurn
    <3>2. \A d \in Clients : pc[d] # "panes"
      BY <1>2, <3>1
    <3> QED BY <1>1, <3>1, <3>2, LinesOK
  <2>2. /\ naiveLog' = Append(naiveLog, Said(loaded[c] + 1))
        /\ acgcLog' = Append(acgcLog, Said(loaded[c] + 1))
    BY <1>6 DEF SeedTurn
  <2>3. SameUsers'
    <3>1. UserLines(naiveLog') = UserLines(acgcLog')
      BY <1>0, <2>1, <2>2, BothAppend DEF SameUsers
    <3> QED BY <3>1 DEF SameUsers, UserLines
  <2>4. \A d \in Clients : pc'[d] # "panes"
    BY <1>6, <2>1 DEF SeedTurn, GiveUp, Return, Goto
  <2> QED BY <1>3, <2>3, <2>4
<1>7. ASSUME NEW c \in Clients, Ingest(c)
      PROVE  Level'
  <2>1. SameUsers /\ Said(msg[c]) \in Lines /\ \A d \in Clients : pc[d] # "panes"
    <3>1. pc[c] = "ingest"
      BY <1>7 DEF Ingest
    <3>2. \A d \in Clients : pc[d] # "panes"
      BY <1>2, <3>1
    <3> QED BY <1>1, <3>2, LinesOK
  <2>2. SameUsers'
    <3>1. /\ naiveLog' = Append(naiveLog, Said(msg[c]))
          /\ acgcLog' = Append(acgcLog, Said(msg[c]))
      BY <1>0, <1>7, <2>1, ExtendedIs DEF Ingest
    <3>2. UserLines(naiveLog') = UserLines(acgcLog')
      BY <1>0, <2>1, <3>1, BothAppend DEF SameUsers
    <3> QED BY <3>2 DEF SameUsers, UserLines
  <2>3. \A d \in Clients : pc'[d] # "panes"
    BY <1>7, <2>1 DEF Ingest, Goto
  <2> QED BY <1>3, <2>2, <2>3
<1>8. ASSUME NEW c \in Clients, \/ (Looks(c) \/ Stores(c)) /\ Run(c)
                                \/ ProbeSession(c)
      PROVE  Level'
  <2>1. \A d \in Clients : d # c => pc[d] = "ready"
    <3>1. CASE Looks(c) \/ Stores(c)
      BY <1>2, <3>1, CursorSteps DEF Scanning
    <3>2. CASE ProbeSession(c)
      BY <1>0, <3>2 DEF ProbeSession, Enter, AtRest
    <3> QED BY <1>8, <3>1, <3>2
  <2>2. pc[c] # "panes" /\ Run(c) /\ UNCHANGED <<naiveLog, acgcLog>>
    <3>1. CASE Looks(c) \/ Stores(c)
      BY <1>8, <3>1, CursorSteps DEF Scanning, paneVars, ProbeSession
    <3>2. CASE ProbeSession(c)
      BY <3>2 DEF ProbeSession, Enter, paneVars
    <3> QED BY <1>8, <3>1, <3>2
  <2>3. SameUsers'
    BY <1>1, <1>5, <2>1, <2>2
  <2>4. \A d \in Clients : pc'[d] = "panes" => naive'[d] = "ask" /\ acgc'[d] = "ask"
    BY <1>0, <2>1, <2>2 DEF Run, Goto
  <2> QED BY <1>4, <2>3, <2>4
<1>9. ASSUME NEW c \in Clients, Join(c)
      PROVE  Level'
  <2>1. pc[c] = "panes" /\ naive[c] = "done" /\ acgc[c] = "done"
        /\ UNCHANGED <<naiveLog, acgcLog>>
    BY <1>9 DEF Join, paneVars
  <2>2. SameUsers'
    BY <1>1, <1>5, <2>1
  <2>3. \A d \in Clients : pc'[d] # "panes"
    <3>1. \A d \in Clients : d # c => pc[d] = "ready"
      BY <1>2, <2>1
    <3> QED BY <1>9, <3>1 DEF Join, Return, Goto
  <2> QED BY <1>3, <2>2, <2>3
<1>10. ASSUME NEW c \in Clients, NaiveRun(c)
       PROVE  Level'
  <2> DEFINE a == Said(msg[c])
             b == Reply(msg[c])
  <2>1. /\ pc[c] = "panes" /\ naive[c] = "ask" /\ naive' = [naive EXCEPT ![c] = "done"]
        /\ UNCHANGED <<pc, msg, acgc, acgcLog>>
    BY <1>10 DEF NaiveRun
  <2>2. a \in Lines /\ b \in Lines /\ IsUser(a) /\ ~IsUser(b)
    BY <2>1, LinesOK DEF MsgOK, IsUser, Reply
  <2>3. \/ naiveLog' = Extended(naiveLog, <<a, b>>)
        \/ naiveLog' = Extended(naiveLog, <<a>>)
    BY <1>10 DEF NaiveRun
  <2> HIDE DEF a, b
  <2>4. UserLines(naiveLog') = Append(UserLines(naiveLog), a)
    <3>1. Append(naiveLog, a) \in Seq(Lines)
      BY <1>0, <2>2
    <3>2. /\ UserLines(Append(naiveLog, a)) = Append(UserLines(naiveLog), a)
          /\ UserLines(Append(Append(naiveLog, a), b)) = UserLines(Append(naiveLog, a))
      BY <1>0, <2>2, <3>1, UserAppend
    <3>3. Extended(naiveLog, <<a>>) = Append(naiveLog, a)
          /\ Extended(naiveLog, <<a, b>>) = Append(Append(naiveLog, a), b)
      BY <1>0, <2>2, ExtendedIs
    <3> QED BY <2>3, <3>2, <3>3, Zenon
  <2>5. UserLines(acgcLog') = UserLines(acgcLog)
    BY <2>1
  <2>6. SameUsers' <=> UserLines(naiveLog') = UserLines(acgcLog')
    BY DEF SameUsers, UserLines
  <2>7. /\ acgc[c] = "ask" => UserLines(naiveLog') = Append(UserLines(acgcLog'), a)
        /\ acgc[c] # "ask" => UserLines(naiveLog') = UserLines(acgcLog')
    <3>1. /\ acgc[c] = "ask" => UserLines(naiveLog) = UserLines(acgcLog)
          /\ acgc[c] # "ask" => UserLines(acgcLog) = Append(UserLines(naiveLog), a)
      BY <1>1, <2>1 DEF a, SameUsers
    <3> QED BY <2>4, <2>5, <3>1, Zenon
  <2>8. \A d \in Clients : pc'[d] = "panes" => d = c
    BY <1>2, <2>1
  <2>9. naive'[c] = "done" /\ acgc'[c] = acgc[c] /\ pc'[c] = "panes" /\ Said(msg'[c]) = a
    BY <1>0, <2>1 DEF a
  <2>10. /\ acgc'[c] = "ask"
              => UserLines(naiveLog)' = Append(UserLines(acgcLog)', Said(msg'[c]))
         /\ acgc'[c] # "ask" => SameUsers'
    <3>1. UserLines(naiveLog)' = UserLines(naiveLog') /\ UserLines(acgcLog)' = UserLines(acgcLog')
      BY DEF UserLines
    <3> QED BY <2>6, <2>7, <2>9, <3>1, Zenon
  <2> QED BY <2>8, <2>9, <2>10 DEF Level, Said
<1>11. ASSUME NEW c \in Clients, AcgcAsk(c)
       PROVE  Level'
  <2> DEFINE a == Said(msg[c])
  <2>1. /\ pc[c] = "panes" /\ acgc[c] = "ask"
        /\ \E l \in {"llm", "done"} : acgc' = [acgc EXCEPT ![c] = l]
        /\ UNCHANGED <<pc, msg, naive, naiveLog>>
    BY <1>11 DEF AcgcAsk
  <2>2. a \in Lines /\ IsUser(a)
    BY <2>1, LinesOK DEF MsgOK
  <2>3. acgcLog' = Append(acgcLog, a)
    <3>1. acgcLog' = Extended(acgcLog, <<a>>)
      BY <1>11 DEF AcgcAsk
    <3> QED BY <1>0, <2>2, <3>1, ExtendedIs
  <2> HIDE DEF a
  <2>4. UserLines(acgcLog') = Append(UserLines(acgcLog), a)
    BY <1>0, <2>2, <2>3, UserAppend
  <2>5. UserLines(naiveLog') = UserLines(naiveLog)
    BY <2>1
  <2>6. SameUsers' <=> UserLines(naiveLog') = UserLines(acgcLog')
    BY DEF SameUsers, UserLines
  <2>7. /\ naive[c] = "ask" => UserLines(acgcLog') = Append(UserLines(naiveLog'), a)
        /\ naive[c] # "ask" => UserLines(naiveLog') = UserLines(acgcLog')
    <3>1. /\ naive[c] = "ask" => UserLines(naiveLog) = UserLines(acgcLog)
          /\ naive[c] # "ask" => UserLines(naiveLog) = Append(UserLines(acgcLog), a)
      BY <1>1, <2>1 DEF a, SameUsers
    <3> QED BY <2>4, <2>5, <3>1, Zenon
  <2>8. \A d \in Clients : pc'[d] = "panes" => d = c
    BY <1>2, <2>1
  <2>9. acgc'[c] # "ask" /\ naive'[c] = naive[c] /\ pc'[c] = "panes" /\ Said(msg'[c]) = a
    BY <1>0, <2>1 DEF a
  <2>10. /\ naive'[c] = "ask"
              => UserLines(acgcLog)' = Append(UserLines(naiveLog)', Said(msg'[c]))
         /\ naive'[c] # "ask" => SameUsers'
    <3>1. UserLines(naiveLog)' = UserLines(naiveLog') /\ UserLines(acgcLog)' = UserLines(acgcLog')
      BY DEF UserLines
    <3> QED BY <2>6, <2>7, <2>9, <3>1, Zenon
  <2> QED BY <2>8, <2>9, <2>10 DEF Level, Said
<1>12. ASSUME \A d \in Clients :
                /\ pc'[d] = "panes" <=> pc[d] = "panes"
                /\ pc[d] = "panes" => /\ naive'[d] = naive[d] /\ msg'[d] = msg[d]
                                      /\ acgc'[d] = "ask" <=> acgc[d] = "ask",
              UserLines(naiveLog') = UserLines(naiveLog),
              UserLines(acgcLog') = UserLines(acgcLog)
       PROVE  Level'
  <2>1. UserLines(naiveLog)' = UserLines(naiveLog) /\ UserLines(acgcLog)' = UserLines(acgcLog)
    BY <1>12 DEF UserLines
  <2>2. SameUsers' <=> SameUsers
    BY <2>1 DEF SameUsers
  <2>3. \A d \in Clients : pc'[d] = "panes" => Said(msg[d])' = Said(msg[d])
    BY <1>12 DEF Said
  <2> QED BY <1>1, <1>12, <2>1, <2>2, <2>3, Zenon DEF Level
<1>13. ASSUME NEW c \in Clients, AcgcAnswer(c) \/ AcgcFails(c)
       PROVE  Level'
  <2>1. /\ acgc[c] = "llm" /\ acgc' = [acgc EXCEPT ![c] = "done"]
        /\ UNCHANGED <<pc, msg, naive, naiveLog>>
    BY <1>13 DEF AcgcAnswer, AcgcFails, paneVars
  <2>2. UserLines(acgcLog') = UserLines(acgcLog)
    <3>1. Reply(msg[c]) \in Lines /\ ~IsUser(Reply(msg[c]))
      BY LinesOK DEF IsUser, Reply
    <3>2. UNCHANGED acgcLog \/ acgcLog' = Append(acgcLog, Reply(msg[c]))
      <4>1. Extended(acgcLog, <<Reply(msg[c])>>) = Append(acgcLog, Reply(msg[c]))
        BY <1>0, <3>1, ExtendedIs
      <4> QED BY <1>13, <4>1 DEF AcgcAnswer, AcgcFails, paneVars
    <3>3. UserLines(Append(acgcLog, Reply(msg[c]))) = UserLines(acgcLog)
      BY <1>0, <3>1, UserAppend
    <3> QED BY <3>2, <3>3, Zenon
  <2>3. UserLines(naiveLog') = UserLines(naiveLog)
    BY <2>1
  <2>4. \A d \in Clients : acgc'[d] = "ask" <=> acgc[d] = "ask"
    BY <2>1
  <2> QED BY <1>12, <2>1, <2>2, <2>3, <2>4
<1>14. ASSUME NEW c \in Clients,
              \/ Start(c) \/ WaitForSeededNodes(c) \/ Register(c) \/ NextCall(c)
              \/ Count(c)
       PROVE  Level'
  <2>1. UNCHANGED <<naiveLog, acgcLog, naive, acgc>>
    BY <1>14 DEF Start, WaitForSeededNodes, Register, NextCall, Count, paneVars
  <2>2. pc[c] # "panes"
    BY <1>14, StartAlone DEF WaitForSeededNodes, Register, NextCall, Enter, Count
  <2>3. \A d \in Clients :
          /\ d # c => pc'[d] = pc[d] /\ msg'[d] = msg[d]
          /\ pc'[c] # "panes"
    BY <1>14 DEF Start, WaitForSeededNodes, Register, NextCall, Count, GiveUp, Return, Goto
  <2> QED BY <1>12, <2>1, <2>2, <2>3
<1>16. ASSUME NEW c \in Clients, Looks(c) \/ Stores(c), ~Run(c)
       PROVE  Level'
  <2>1. PICK l : /\ pc' = [pc EXCEPT ![c] = l]
                 /\ IF l = "panes" THEN Run(c) ELSE UNCHANGED <<naive, acgc>>
    BY <1>16, CursorSteps
  <2>2. l # "panes" /\ UNCHANGED <<naive, acgc>>
    BY <1>16, <2>1
  <2>3. /\ UNCHANGED paneVars /\ pc[c] \in Scanning
        /\ \E t : msg' = [msg EXCEPT ![c] = t]
    BY <1>16, CursorSteps
  <2>4. UNCHANGED <<naiveLog, acgcLog>> /\ pc[c] # "panes"
    BY <2>3 DEF paneVars, Scanning
  <2>5. \A d \in Clients :
          /\ d # c => pc'[d] = pc[d] /\ msg'[d] = msg[d]
          /\ pc'[c] # "panes"
    BY <2>1, <2>2, <2>3
  <2> QED BY <1>12, <2>2, <2>4, <2>5
<1>15. CASE UNCHANGED <<naiveLog, acgcLog, naive, acgc, pc, msg>>
  BY <1>12, <1>15
<1> QED BY <1>6, <1>7, <1>8, <1>9, <1>10, <1>11, <1>13, <1>14, <1>15, <1>16
        DEF Next, Step, Looks, Stores, Reset, Process, vars, paneVars, requestVars

(* What the window has dropped is dropped for good. *)
OneWindow == overlaps = 0 => Gone(history, dropped)

(* The naive window slides forward only. *)
LEMMA WindowStep ==
  ASSUME Types, PaneTypes, OneWindow, [Next]_vars, overlaps' = 0
  PROVE  Gone(history', dropped') /\ dropped' >= dropped
<1>0. /\ overlaps = 0 /\ history \in Seq(Lines) /\ Gone(history, dropped)
      /\ dropped \in Nat
  BY StillSolo DEF OneWindow, PaneTypes
<1>1. ASSUME NEW line \in Lines, history' = Append(history, line), dropped' = dropped
      PROVE  Gone(history', dropped') /\ dropped' >= dropped
  <2>1. Gone(Append(history, line), dropped)
    BY <1>0, GoneStays
  <2>2. dropped >= dropped
    BY <1>0
  <2> QED BY <1>1, <2>1, <2>2, Zenon
<1>2. ASSUME NEW c \in Clients, SeedTurn(c)
      PROVE  Gone(history', dropped') /\ dropped' >= dropped
  <2>1. Said(loaded[c] + 1) \in Lines
    BY <1>2, LinesOK, ProbeIsLast DEF SeedTurn, Types
  <2> QED BY <1>1, <1>2, <2>1 DEF SeedTurn
<1>3. CASE UNCHANGED <<history, dropped>>
  BY <1>0, <1>3
<1>4. ASSUME NEW c \in Clients, Ingest(c)
      PROVE  Gone(history', dropped') /\ dropped' >= dropped
  <2>1. Said(msg[c]) \in Lines
    BY LinesOK DEF Types
  <2>2. Extended(history, <<Said(msg[c])>>) = Append(history, Said(msg[c]))
    BY <1>0, <2>1, ExtendedIs
  <2> QED BY <1>1, <1>4, <2>1, <2>2 DEF Ingest
<1>6. ASSUME NEW c \in Clients, Looks(c) \/ Stores(c)
      PROVE  UNCHANGED <<history, dropped>>
  BY <1>6, CursorSteps DEF paneVars
<1>5. ASSUME NEW c \in Clients, NaiveRun(c)
      PROVE  Gone(history', dropped') /\ dropped' >= dropped
  <2> DEFINE a == Said(msg[c])
             b == Reply(msg[c])
             e == LeftOut(history, msg[c])
  <2>1. a \in Lines /\ b \in Lines /\ msg[c] \in 1 .. Probe
    BY LinesOK DEF Types
  <2>2. e >= dropped /\ Gone(Append(history, a), e)
    BY <1>0, <2>1, GoneForward
  <2>3. dropped' = e
    BY <1>0, <1>5 DEF NaiveRun
  <2>4. history' = Extended(history, <<a, b>>) \/ history' = Extended(history, <<a>>)
    BY <1>5 DEF NaiveRun
  <2> HIDE DEF a, b, e
  <2>5. /\ Extended(history, <<a>>) = Append(history, a)
        /\ Extended(history, <<a, b>>) = Append(Append(history, a), b)
        /\ Append(history, a) \in Seq(Lines)
    BY <1>0, <2>1, ExtendedIs
  <2>6. Gone(Append(Append(history, a), b), e)
    BY <2>1, <2>2, <2>5, GoneStays
  <2> QED BY <2>2, <2>3, <2>4, <2>5, <2>6, Zenon
<1> QED BY <1>2, <1>3, <1>4, <1>5, <1>6
        DEF Next, Step, Looks, Stores, Start, WaitForSeededNodes, Register, NextCall,
            ProbeSession, Reset, AcgcAsk, AcgcAnswer, AcgcFails, Join, Count, Process, vars,
            paneVars

-----------------------------------------------------------------------------
(* The invariant and what follows from it *)

LEMMA InitIInv == Init => IInv
<1> SUFFICES ASSUME Init PROVE IInv
  OBVIOUS
<1>1. Types
  <2>1. Probe \in 1 .. Probe
    BY ProbeIsLast
  <2>2. msg \in [Clients -> 1 .. Probe]
    BY <2>1 DEF Init
  <2>3. <<>> \in Seq(Lines)
    OBVIOUS
  <2>4. pc \in [Clients -> {"ready"} \cup Starting \cup Serving]
    BY DEF Init
  <2>5. acgc \in [Clients -> {"ask", "llm", "done"}] /\ loaded \in [Clients -> Nat]
    BY DEF Init
  <2> QED BY <2>2, <2>3, <2>4, <2>5 DEF Init, Types
<1>2. PanesOK /\ Counting
  BY DEF Init, PanesOK, Counting, ProbeComesLast
<1>3. Session
  BY DEF Init, Session, Fresh, Alone, Seeding, Starting, Serving, Scanning, ConnectionFollowsSession
<1> QED BY <1>1, <1>2, <1>3 DEF IInv

(* and after every step, *)
LEMMA IInvNext == IInv /\ [Next]_vars => IInv'
<1> SUFFICES ASSUME IInv, [Next]_vars PROVE IInv'
  OBVIOUS
<1>1. Types /\ PanesOK /\ Session /\ Counting
  BY DEF IInv
<1>2. Types' /\ PanesOK' /\ Counting'
  BY <1>1, TypesNext, PanesNext, CountingNext
<1>3. Session'
  <2>1. CASE UNCHANGED vars
    BY <1>1, <2>1
       DEF vars, sessionVars, paneVars, sidecarVars, requestVars, Session, Fresh, Alone,
           Seeding, Seeded, ConnectionFollowsSession
  <2>2. CASE Process
    BY <1>1, <2>2, SessionProcess
  <2>3. ASSUME NEW c \in Clients,
               \/ Start(c) \/ NextCall(c) \/ ProbeSession(c) \/ Reset(c) \/ Step(c)
        PROVE  Session'
    BY <1>1, <2>3, SessionStart, SessionSeedTurn, SessionWait, SessionRegister,
       SessionEntered, SessionServes DEF Step, Serves, Looks, Stores
  <2> QED BY <2>1, <2>2, <2>3 DEF Next
<1> QED BY <1>2, <1>3 DEF IInv

(* so in every state of Engine, Start, Next, Probe and Reset. *)
THEOREM SpecIInv == Spec => []IInv
BY InitIInv, IInvNext, PTL DEF Spec

(* The connection of the demo to the sidecar (acgcclient.go) lives as long   *)
(* as the session, however requests interleave with Reset and failed Starts. *)
THEOREM ConnectionTheorem == Spec => []ConnectionFollowsSession
<1>1. IInv => ConnectionFollowsSession
  BY DEF IInv, Session
<1> QED BY <1>1, SpecIInv, PTL

(* waitForSeededNodes (acgcclient.go) lets no request run before every       *)
(* seeded turn is in the tree, whatever the capacity of the channel.         *)
THEOREM SeedsTheorem == Spec => []SeedsAreInTheTree
<1>1. IInv => SeedsAreInTheTree
  BY DEF IInv, Session, Seeding, Seeded, Seeds, SeedsAreInTheTree
<1> QED BY <1>1, SpecIInv, PTL

(* Updates of userStepsDone (engine.go) that overlap lose turns and never    *)
(* gain one: no probe is asked before its time.                              *)
THEOREM ProbeTheorem == Spec => []ProbeComesLast
<1>1. IInv => ProbeComesLast
  BY DEF IInv, Counting
<1> QED BY <1>1, SpecIInv, PTL

-----------------------------------------------------------------------------
(* The panes and their counters *)

PInv ==
  /\ IInv /\ PaneTypes /\ MsgOK /\ CallsOK
  /\ Solo /\ Mirrors /\ Level /\ OneWindow

(* The stronger invariant of the panes holds at first *)
LEMMA InitPInv == Init => PInv
<1> SUFFICES ASSUME Init PROVE PInv
  OBVIOUS
<1>1. IInv
  BY InitIInv
<1>2. PaneTypes
  <2>1. <<>> \in Seq(Lines) /\ Len(<<>>) = 0
    OBVIOUS
  <2>2. naive \in [Clients -> {"ask", "done"}]
    BY DEF Init
  <2>3. ChannelBuffer \in Nat /\ MaxCalls \in Nat /\ MaxProbes \in Nat /\ MaxOverlaps \in Nat
    BY LimitAssumption
  <2>4. /\ seeded \in BOOLEAN /\ lost \in BOOLEAN /\ dropped \in Nat
        /\ history \in Seq(Lines) /\ acgcLog \in Seq(Lines)
    BY <2>1 DEF Init
  <2>5. /\ Len(channel) <= ChannelBuffer /\ calls \in 0 .. MaxCalls
        /\ probes \in 0 .. MaxProbes /\ overlaps \in 0 .. MaxOverlaps
    BY <2>1, <2>3 DEF Init
  <2> QED BY <2>2, <2>4, <2>5 DEF PaneTypes
<1>3. MsgOK /\ Solo
  BY DEF Init, MsgOK, Solo
<1>4. CallsOK
  <2>1. InFlight = {}
    <3>1. \A d \in Clients : pc[d] = "ready"
      BY DEF Init
    <3> QED BY <3>1 DEF InFlight, Scanning
  <2> QED BY <2>1, FS_EmptySet DEF Init, CallsOK
<1>5. Mirrors /\ Level
  <2>1. nodes \o channel = <<>> /\ history = <<>> /\ naiveLog = <<>> /\ acgcLog = <<>>
    BY DEF Init
  <2>2. Mirrors
    BY <2>1, Zenon DEF Mirrors
  <2>3. SameUsers
    BY <2>1, Zenon DEF SameUsers
  <2> QED BY <2>2, <2>3 DEF Init, Level
<1>6. OneWindow
  BY DEF Init, OneWindow, Gone
<1> QED BY <1>1, <1>2, <1>3, <1>4, <1>5, <1>6 DEF PInv

(* and after every step, *)
LEMMA PInvNext == PInv /\ [Next]_vars => PInv'
<1> SUFFICES ASSUME PInv, [Next]_vars PROVE PInv'
  OBVIOUS
<1>1. /\ IInv /\ PaneTypes /\ MsgOK /\ CallsOK /\ Solo /\ Mirrors /\ Level /\ OneWindow
      /\ Types /\ PanesOK /\ Session
  BY DEF PInv, IInv
<1>2. IInv' /\ PaneTypes' /\ MsgOK' /\ CallsOK'
  BY <1>1, IInvNext, PaneTypesNext, MsgNext, CallsNext
<1>3. Solo' /\ Mirrors' /\ Level'
  BY <1>1, SoloNext, MirrorsNext, LevelNext
<1>4. OneWindow'
  <2>1. overlaps' = 0 => Gone(history', dropped')
    BY <1>1, WindowStep
  <2> QED BY <2>1 DEF OneWindow, Gone, Upto
<1> QED BY <1>2, <1>3, <1>4 DEF PInv

(* so in every state, however Next, Probe, Reset and the worker interleave. *)
THEOREM SpecPInv == Spec => []PInv
BY InitPInv, PInvNext, PTL DEF Spec

(* Every variable of a session of the demo has its type; the channel of the  *)
(* sidecar (EnqueueEvent) never holds more than its capacity, and no more    *)
(* turns are served than were called for (engine.go).                        *)
THEOREM TypeCorrect == Spec => []TypeOK
<1>1. PInv => TypeOK
  <2> SUFFICES ASSUME PInv PROVE TypeOK
    OBVIOUS
  <2>1. Types /\ PaneTypes /\ Counting /\ CallsOK
    BY DEF PInv, IInv
  <2>2. /\ steps \in Nat /\ served \in Nat /\ steps <= served /\ calls \in Nat
        /\ calls <= MaxCalls /\ MaxCalls \in Nat
    BY <2>1, LimitAssumption DEF Types, PaneTypes, Counting, ProbeComesLast
  <2>3. served <= calls
    <3>1. Cardinality(InFlight) \in Nat /\ served + Cardinality(InFlight) <= calls
      BY <2>1, FS_CardinalityType DEF CallsOK
    <3> QED BY <2>2, <3>1
  <2>4. steps \in 0 .. MaxCalls /\ served \in 0 .. calls
    BY <2>2, <2>3
  <2> QED BY <2>1, <2>4 DEF Types, PaneTypes, Starting, Serving, Scanning, TypeOK
<1> QED BY <1>1, SpecPInv, PTL

(* "So panes stay aligned" (naive.go): whichever models fail and whatever    *)
(* the script, requests that never overlapped leave the same user turns in   *)
(* both transcripts, in the history of the naive pane and, unless it missed  *)
(* one, in the sidecar.                                                      *)
THEOREM PanesTheorem == Spec => []PanesAligned
<1>1. PInv => PanesAligned
  <2> SUFFICES ASSUME PInv, AtRest, overlaps = 0
               PROVE  /\ UserLines(naiveLog) = UserLines(acgcLog)
                      /\ UserLines(history) = UserLines(naiveLog)
                      /\ ~lost => UserLines(nodes \o channel) = UserLines(history)
    BY DEF PanesAligned
  <2>1. Mirrors /\ Level /\ \A c \in Clients : pc[c] # "panes"
    BY DEF PInv, AtRest
  <2>2. SameUsers
    BY <2>1 DEF Level
  <2> QED BY <2>1, <2>2, Zenon DEF Mirrors, SameUsers
<1> QED BY <1>1, SpecPInv, PTL

(* The newest-first window of the naive pane (buildMessages) only moves      *)
(* forward, for every budget, script and length of the answers.              *)
THEOREM WindowTheorem == Spec => WindowNeverReopens
<1>1. PInv /\ [Next]_vars => [overlaps' = 0 => dropped' >= dropped]_vars
  BY WindowStep DEF PInv, IInv
<1> QED BY <1>1, SpecPInv, PTL DEF Spec, WindowNeverReopens

-----------------------------------------------------------------------------
(* The script *)

(* After the seeds no scripted answer comes first or behind another one: the *)
(* demo's script (LoadScenario) seeds whole pairs and goes on in pairs.      *)
Alternates ==
  \A t \in SeedUntil + 1 .. Len(Script) :
    ~IsUser(Script[t]) => t > SeedUntil + 1 /\ IsUser(Script[t - 1])

Before(n) == UserLines(Seeds(n))
Heard == UserLinesOf(naiveLog, 1 .. Probe - 1)

(* The script's turns are said as they are written. *)
LEMMA ScriptTurns ==
  \A t \in 1 .. Len(Script) :
    /\ IsUser(Said(t)) <=> IsUser(Script[t])
    /\ Said(t) \in Lines /\ Said(t).turn = t /\ t # Probe
<1> SUFFICES ASSUME NEW t \in 1 .. Len(Script)
             PROVE  /\ IsUser(Said(t)) <=> IsUser(Script[t])
                    /\ Said(t) \in Lines /\ Said(t).turn = t /\ t # Probe
  OBVIOUS
<1>1. Spoken[t] = Script[t]
  BY ScriptAssumption DEF Spoken
<1>2. Said(t) \in Lines /\ t # Probe
  BY LinesOK, ProbeIsLast
<1>3. Said(t).turn = t /\ Said(t).role = Spoken[t].role
  BY DEF Said
<1> QED BY <1>1, <1>2, <1>3 DEF IsUser

(* One turn more of the script. *)
LEMMA BeforeStep ==
  ASSUME NEW n \in 0 .. Len(Script)
  PROVE  /\ Before(n) \in Seq(Lines)
         /\ Seeds(n) \in Seq(Lines) /\ Len(Seeds(n)) = n
         /\ n < Len(Script) =>
              /\ Seeds(n + 1) = Append(Seeds(n), Said(n + 1))
              /\ IsUser(Script[n + 1]) => Before(n + 1) = Append(Before(n), Said(n + 1))
              /\ ~IsUser(Script[n + 1]) => Before(n + 1) = Before(n)
<1>0. n \in Nat /\ Len(Script) \in Nat
  BY ProbeIsLast
<1>1. Seeds(n) \in Seq(Lines) /\ Len(Seeds(n)) = n
  <2>1. \A t \in 1 .. n : Said(t) \in Lines
    BY <1>0, ScriptTurns
  <2> QED BY <1>0, <2>1 DEF Seeds
<1>2. Before(n) \in Seq(Lines)
  BY <1>1, LinesType DEF Before, UserLines
<1>3. ASSUME n < Len(Script)
      PROVE  /\ Seeds(n + 1) = Append(Seeds(n), Said(n + 1))
             /\ IsUser(Script[n + 1]) => Before(n + 1) = Append(Before(n), Said(n + 1))
             /\ ~IsUser(Script[n + 1]) => Before(n + 1) = Before(n)
  <2>1. n + 1 \in 1 .. Len(Script)
    BY <1>0, <1>3
  <2>2. Said(n + 1) \in Lines /\ (IsUser(Said(n + 1)) <=> IsUser(Script[n + 1]))
    BY <2>1, ScriptTurns
  <2>3. Seeds(n + 1) = Append(Seeds(n), Said(n + 1))
    BY <1>0, <1>1, <2>2 DEF Seeds
  <2>4. /\ IsUser(Said(n + 1))
             => UserLines(Append(Seeds(n), Said(n + 1))) = Append(UserLines(Seeds(n)), Said(n + 1))
        /\ ~IsUser(Said(n + 1))
             => UserLines(Append(Seeds(n), Said(n + 1))) = UserLines(Seeds(n))
    BY <1>1, <2>2, UserAppend
  <2> QED BY <2>2, <2>3, <2>4, Zenon DEF Before
<1> QED BY <1>1, <1>2, <1>3

(* What is said of the script, in a transcript with one line more. *)
LEMMA HeardAppend ==
  ASSUME NEW log \in Seq(Lines), NEW line \in Lines
  PROVE  /\ IsUser(line) /\ line.turn # Probe
              => UserLinesOf(Append(log, line), 1 .. Probe - 1)
                   = Append(UserLinesOf(log, 1 .. Probe - 1), line)
         /\ ~IsUser(line) \/ line.turn = Probe
              => UserLinesOf(Append(log, line), 1 .. Probe - 1)
                   = UserLinesOf(log, 1 .. Probe - 1)
<1>1. line.turn \in 1 .. Probe - 1 <=> line.turn # Probe
  BY ProbeIsLast DEF Lines
<1>2. UserLinesOf(Append(log, line), 1 .. Probe - 1)
        = With(UserLinesOf(log, 1 .. Probe - 1), line, 1 .. Probe - 1)
  BY LinesAppend
<1> QED BY <1>1, <1>2, Zenon DEF With

(* The seeds are of the script. *)
LEMMA SeedsHeard == UserLinesOf(Seeds(SeedUntil), 1 .. Probe - 1) = Before(SeedUntil)
<1> DEFINE Of0(n) == UserLinesOf(Seeds(n), 1 .. Probe - 1)
           S == {n \in 0 .. SeedUntil : Of0(n) = Before(n)}
<1>0. 0 \in Nat /\ SeedUntil \in Nat /\ \A n \in 0 .. SeedUntil : n \in 0 .. Len(Script)
  BY ProbeIsLast
<1>1. 0 \in S
  <2>1. Seeds(0) = <<>>
    BY DEF Seeds
  <2>2. Of0(0) = Before(0)
    BY <2>1, LinesAppend, Zenon DEF Before, UserLines
  <2> HIDE DEF Of0
  <2> QED BY <1>0, <2>2
<1>2. ASSUME NEW n \in 0 .. SeedUntil, n \in S, n < SeedUntil
      PROVE  n + 1 \in S
  <2>1. n \in 0 .. Len(Script) /\ n < Len(Script) /\ n + 1 \in 1 .. Len(Script)
        /\ n + 1 \in 0 .. SeedUntil
    BY <1>0, <1>2, ProbeIsLast
  <2>2. /\ Seeds(n + 1) = Append(Seeds(n), Said(n + 1)) /\ Seeds(n) \in Seq(Lines)
        /\ IsUser(Script[n + 1]) => Before(n + 1) = Append(Before(n), Said(n + 1))
        /\ ~IsUser(Script[n + 1]) => Before(n + 1) = Before(n)
    BY <2>1, BeforeStep
  <2>3. /\ Said(n + 1) \in Lines /\ Said(n + 1).turn # Probe
        /\ IsUser(Said(n + 1)) <=> IsUser(Script[n + 1])
    BY <2>1, ScriptTurns
  <2>4. /\ IsUser(Said(n + 1)) => Of0(n + 1) = Append(Of0(n), Said(n + 1))
        /\ ~IsUser(Said(n + 1)) => Of0(n + 1) = Of0(n)
    BY <2>2, <2>3, HeardAppend
  <2> HIDE DEF Of0
  <2>5. Of0(n) = Before(n)
    BY <1>2
  <2>6. Of0(n + 1) = Before(n + 1)
    BY <2>2, <2>3, <2>4, <2>5, Zenon
  <2> QED BY <2>1, <2>6
<1>3. \A n \in 0 .. SeedUntil : n \in S
  <2> HIDE DEF S
  <2> QED BY <1>0, <1>1, <1>2, Upward
<1>4. SeedUntil \in S
  <2> HIDE DEF S
  <2> QED BY <1>0, <1>3
<1> QED BY <1>4

(* What requests that never overlapped know of the script. Turned(n): the    *)
(* live user turns before n; TurnNext(n): the next turn is a user's.         *)
Turned(n) == Len(Before(n)) - Len(Before(SeedUntil))
TurnNext(n) == n < Len(Script) => IsUser(Script[n + 1])
UpToDate == Heard = Before(cursor)
Quiet == UpToDate /\ steps = Turned(cursor) /\ TurnNext(cursor)

(* A turn that is under way is before the cursor, not counted, and, until    *)
(* the naive pane takes it, not said.                                        *)
Owed == steps + 1 = Turned(cursor)
Pending(c) == Before(cursor) = Append(Heard, Said(msg[c]))

(* Where a request is. *)
Follows(c) ==
  /\ pc[c] # "ingest"
  /\ pc[c] \in {"index", "load", "advance"} =>
       Quiet /\ cursor < Len(Script) /\ loaded[c] = cursor
  /\ pc[c] \in {"load", "advance"} => msg[c] = cursor + 1
  /\ pc[c] \in {"skip", "peek", "pass", "over"} =>
       Owed /\ Pending(c) /\ loaded[c] = cursor
  /\ pc[c] \in {"peek", "pass", "over"} => cursor < Len(Script)
  /\ pc[c] \in {"pass", "over"} => ~IsUser(Script[cursor + 1])
  /\ pc[c] = "panes" /\ msg[c] = Probe => Quiet
  /\ pc[c] = "panes" /\ msg[c] # Probe =>
       /\ Owed /\ TurnNext(cursor)
       /\ naive[c] = "ask" => Pending(c)
       /\ naive[c] # "ask" => UpToDate
  /\ pc[c] = "count" => Owed /\ TurnNext(cursor) /\ UpToDate /\ loaded[c] = steps
Resting == {"ready", "register", "scan"}

Unseeded ==
  /\ steps = 0 /\ ~registered
  /\ \A c \in Clients : /\ pc[c] \in {"ready", "seed"}
                        /\ pc[c] = "seed" => naiveLog = Seeds(loaded[c])
Underway ==
  /\ cursor \in SeedUntil .. Len(Script) /\ Len(naiveLog) >= SeedUntil
  /\ \A j \in SeedUntil + 1 .. Len(naiveLog) : IsUser(Said(naiveLog[j].turn))
  /\ \A c \in Clients : pc[c] # "seed" /\ Follows(c)
  /\ (\A c \in Clients : pc[c] \in Resting) => Quiet
Follow == overlaps = 0 => IF seeded THEN Underway ELSE Unseeded

(* One request is under way, and it is where the script says. *)
LEMMA FollowOne ==
  ASSUME NEW c \in Clients, \A d \in Clients : d # c => pc'[d] = "ready",
         pc'[c] # "seed", Follows(c)', pc'[c] \in Resting => Quiet',
         seeded', cursor' \in SeedUntil .. Len(Script), Len(naiveLog') >= SeedUntil,
         \A j \in SeedUntil + 1 .. Len(naiveLog') : IsUser(Said(naiveLog'[j].turn))
  PROVE  Follow'
<1>1. \A d \in Clients : d # c => pc'[d] # "seed" /\ Follows(d)'
  BY DEF Follows
<1>2. Underway'
  BY <1>1 DEF Underway
<1> QED BY <1>2 DEF Follow

(* Until a session is seeded nothing follows the script but the seeds. *)
LEMMA FollowSeeds ==
  ASSUME Alternates, Types, PaneTypes, Session, Solo, Follow, overlaps = 0,
         NEW c \in Clients, Start(c) \/ SeedTurn(c) \/ WaitForSeededNodes(c)
  PROVE  Follow'
<1> USE DEF Types
<1>1. ~seeded /\ pc[c] \in {"ready", "seed"}
  <2>1. CASE Start(c)
    <3>1. naiveLog = <<>> /\ pc[c] = "ready"
      BY <2>1, StartAlone DEF Start
    <3>2. Len(naiveLog) = 0
      BY <3>1
    <3> QED BY <3>1, <3>2, ProbeIsLast DEF Follow, Underway
  <2>2. CASE ~Start(c)
    <3>1. pc[c] = "seed"
      BY <2>2 DEF SeedTurn, WaitForSeededNodes
    <3> QED BY <3>1 DEF Follow, Underway
  <2> QED BY <2>1, <2>2
<1>2. /\ steps = 0 /\ ~registered
      /\ \A d \in Clients : /\ pc[d] \in {"ready", "seed"}
                            /\ pc[d] = "seed" => naiveLog = Seeds(loaded[d])
  BY <1>1 DEF Follow, Unseeded
<1>3. \A d \in Clients : d # c => pc[d] = "ready"
  <2>1. CASE Start(c)
    BY <2>1, StartAlone
  <2>2. CASE ~Start(c)
    <3>1. pc[c] = "seed"
      BY <2>2 DEF SeedTurn, WaitForSeededNodes
    <3> QED BY <3>1 DEF Solo
  <2> QED BY <2>1, <2>2
<1>4. ASSUME ~seeded', steps' = 0, ~registered', pc'[c] \in {"ready", "seed"},
             \A d \in Clients : d # c => pc'[d] = "ready",
             pc'[c] = "seed" => naiveLog' = Seeds(loaded'[c])
      PROVE  Follow'
  <2>1. Unseeded'
    BY <1>4 DEF Unseeded
  <2> QED BY <1>4, <2>1 DEF Follow
<1>5. CASE Start(c)
  <2>1. /\ pc' = [pc EXCEPT ![c] = "seed"] /\ loaded' = [loaded EXCEPT ![c] = 0]
        /\ UNCHANGED <<seeded, steps, registered, naiveLog>> /\ naiveLog = <<>>
    BY <1>5 DEF Start, Goto, paneVars
  <2>2. Seeds(0) = <<>>
    BY DEF Seeds
  <2>3. naiveLog' = Seeds(loaded'[c])
    BY <2>1, <2>2
  <2> QED BY <1>1, <1>2, <1>3, <1>4, <2>1, <2>3
<1>6. CASE SeedTurn(c)
  <2>1. /\ naiveLog' = Append(naiveLog, Said(loaded[c] + 1)) /\ loaded[c] + 1 <= SeedUntil
        /\ UNCHANGED <<seeded, steps, registered>> /\ pc[c] = "seed"
    BY <1>6 DEF SeedTurn
  <2>2. naiveLog' = Seeds(loaded[c] + 1)
    <3>1. loaded[c] \in 0 .. Len(Script) /\ loaded[c] < Len(Script)
      BY <2>1, ProbeIsLast
    <3>2. Seeds(loaded[c] + 1) = Append(Seeds(loaded[c]), Said(loaded[c] + 1))
      BY <3>1, BeforeStep
    <3> QED BY <1>2, <2>1, <3>2
  <2>3. \/ UNCHANGED pc /\ loaded' = [loaded EXCEPT ![c] = loaded[c] + 1]
        \/ pc' = [pc EXCEPT ![c] = "ready"]
    BY <1>6 DEF SeedTurn, GiveUp, Return, Goto
  <2>4. CASE pc' = [pc EXCEPT ![c] = "ready"]
    BY <1>1, <1>2, <1>3, <1>4, <2>1, <2>4
  <2>5. CASE UNCHANGED pc /\ loaded' = [loaded EXCEPT ![c] = loaded[c] + 1]
    <3>1. naiveLog' = Seeds(loaded'[c])
      BY <2>2, <2>5
    <3> QED BY <1>1, <1>2, <1>3, <1>4, <2>1, <2>5, <3>1
  <2> QED BY <2>3, <2>4, <2>5
<1>7. CASE WaitForSeededNodes(c)
  <2>1. UNCHANGED <<steps, registered, naiveLog>> /\ pc[c] = "seed" /\ loaded[c] = SeedUntil
    BY <1>7 DEF WaitForSeededNodes, paneVars
  <2>2. CASE GiveUp(c) /\ UNCHANGED seeded
    BY <1>1, <1>2, <1>3, <1>4, <2>1, <2>2 DEF GiveUp, Return, Goto
  <2>3. CASE ~(GiveUp(c) /\ UNCHANGED seeded)
    <3>1. cursor' = SeedUntil /\ seeded' = TRUE /\ pc' = [pc EXCEPT ![c] = "register"]
      BY <1>7, <2>3 DEF WaitForSeededNodes, Goto
    <3>2. SeedUntil \in 0 .. Len(Script) /\ SeedUntil \in Nat /\ Len(Script) \in Nat
          /\ SeedUntil <= Len(Script)
      BY ProbeIsLast
    <3>3. naiveLog' = Seeds(SeedUntil) /\ Len(naiveLog') = SeedUntil
      BY <1>2, <2>1, <3>2, BeforeStep
    <3>4. Heard' = Before(SeedUntil)
      BY <3>3, SeedsHeard DEF Heard
    <3>5. steps' = Turned(SeedUntil)
      <4>1. Len(Before(SeedUntil)) \in Nat
        BY <3>2, BeforeStep
      <4> QED BY <1>2, <2>1, <4>1 DEF Turned
    <3>6. TurnNext(SeedUntil)
      <4>1. SUFFICES ASSUME SeedUntil < Len(Script), ~IsUser(Script[SeedUntil + 1])
                     PROVE  FALSE
        BY DEF TurnNext
      <4>2. SeedUntil + 1 \in SeedUntil + 1 .. Len(Script) /\ ~(SeedUntil + 1 > SeedUntil + 1)
        BY <3>2, <4>1
      <4> QED BY <4>1, <4>2 DEF Alternates
    <3>7. Quiet'
      BY <3>1, <3>4, <3>5, <3>6 DEF Quiet, UpToDate
    <3>8. pc'[c] = "register" /\ \A d \in Clients : d # c => pc'[d] = "ready"
      BY <1>3, <3>1
    <3>9. Follows(c)'
      BY <3>8 DEF Follows
    <3>10. cursor' \in SeedUntil .. Len(Script) /\ Len(naiveLog') >= SeedUntil
           /\ \A j \in SeedUntil + 1 .. Len(naiveLog') : FALSE
      BY <3>1, <3>2, <3>3
    <3> QED BY <3>1, <3>7, <3>8, <3>9, <3>10, FollowOne
  <2> QED BY <2>2, <2>3
<1> QED BY <1>5, <1>6, <1>7

(* Nothing the script is followed by has changed. *)
LEMMA FollowSame ==
  ASSUME Follow, overlaps = 0, registered' => registered,
         UNCHANGED <<pc, msg, loaded, naive, cursor, steps, naiveLog, seeded>>
  PROVE  Follow'
<1>1. CASE seeded
  <2>1. Underway
    BY <1>1 DEF Follow
  <2>2. Quiet <=> Quiet'
    BY DEF Quiet, UpToDate, Heard
  <2>3. \A c \in Clients : Follows(c) => Follows(c)'
    <3> TAKE c \in Clients
    <3>1. Pending(c) <=> Pending(c)'
      BY DEF Pending, Heard
    <3>2. /\ Owed <=> Owed'
          /\ UpToDate <=> UpToDate'
          /\ TurnNext(cursor) <=> TurnNext(cursor)'
      BY DEF Owed, UpToDate, Heard
    <3> QED BY <2>2, <3>1, <3>2 DEF Follows
  <2>4. Underway'
    BY <2>1, <2>2, <2>3 DEF Underway
  <2> QED BY <1>1, <2>4 DEF Follow
<1>2. CASE ~seeded
  <2>1. Unseeded'
    BY <1>2 DEF Follow, Unseeded
  <2> QED BY <1>2, <2>1 DEF Follow
<1> QED BY <1>1, <1>2

(* A request that runs runs in a seeded session, alone. *)
LEMMA FollowAlone ==
  ASSUME Follow, Solo, overlaps = 0, NEW c \in Clients,
         pc[c] \notin {"ready", "seed"} \/ (registered /\ AtRest)
  PROVE  /\ seeded /\ Underway /\ \A d \in Clients : d # c => pc[d] = "ready"
         /\ Follows(c) /\ pc[c] # "seed"
         /\ pc[c] \in Resting => Quiet
<1>1. seeded
  BY DEF Follow, Unseeded
<1>2. Underway
  BY <1>1 DEF Follow
<1>3. \A d \in Clients : d # c => pc[d] = "ready"
  BY DEF Solo, AtRest
<1>4. pc[c] \in Resting => Quiet
  BY <1>2, <1>3 DEF Underway, Resting
<1> QED BY <1>1, <1>2, <1>3, <1>4 DEF Underway

(* Requests that say nothing yet or no more. *)
LEMMA FollowSilent ==
  ASSUME Types, Follow, Solo, overlaps = 0, NEW c \in Clients,
         pc[c] \notin {"ready", "seed"} \/ (registered /\ AtRest),
         pc' = [pc EXCEPT ![c] = pc'[c]], pc'[c] # "seed",
         UNCHANGED <<cursor, naiveLog, seeded>>,
         Follows(c)', pc'[c] \in Resting => Quiet'
  PROVE  Follow'
<1>1. /\ seeded /\ Underway /\ \A d \in Clients : d # c => pc[d] = "ready"
  BY FollowAlone
<1>2. \A d \in Clients : d # c => pc'[d] = "ready"
  BY <1>1 DEF Types
<1>3. /\ cursor' \in SeedUntil .. Len(Script) /\ Len(naiveLog') >= SeedUntil
      /\ \A j \in SeedUntil + 1 .. Len(naiveLog') : IsUser(Said(naiveLog'[j].turn))
  BY <1>1 DEF Underway
<1> QED BY <1>1, <1>2, <1>3, FollowOne

(* A request that enters finds the panes up to date, *)
LEMMA FollowEnters ==
  ASSUME Types, PaneTypes, Follow, Solo, overlaps = 0, overlaps' = 0, NEW c \in Clients,
         Register(c) \/ NextCall(c) \/ ProbeSession(c)
  PROVE  Follow'
<1> USE DEF Types
<1>1. pc[c] \notin {"ready", "seed"} \/ (registered /\ AtRest)
  BY DEF Register, NextCall, ProbeSession, Enter
<1>2. pc[c] \in Resting
  BY DEF Register, NextCall, ProbeSession, Enter, Resting
<1>3. Quiet
  BY <1>1, <1>2, FollowAlone
<1>4. UNCHANGED <<cursor, naiveLog, seeded, steps>>
  BY DEF Register, NextCall, ProbeSession, sessionVars, paneVars
<1>5. Quiet'
  BY <1>3, <1>4 DEF Quiet, UpToDate, Heard
<1>6. \E l \in {"ready", "scan", "panes"} :
        pc' = [pc EXCEPT ![c] = l] /\ (l = "panes" => msg'[c] = Probe)
  BY DEF Register, NextCall, ProbeSession, Run, Return, Goto
<1>7. /\ pc' = [pc EXCEPT ![c] = pc'[c]] /\ pc'[c] \in {"ready", "scan", "panes"}
      /\ pc'[c] = "panes" => msg'[c] = Probe
  BY <1>6
<1>8. Follows(c)'
  BY <1>5, <1>7 DEF Follows
<1> QED BY <1>1, <1>4, <1>5, <1>7, <1>8, FollowSilent

(* looks for its turn, *)
LEMMA FollowScans ==
  ASSUME Types, Follow, Solo, overlaps = 0, NEW c \in Clients,
         Scan(c) \/ Index(c) \/ Join(c) \/ Count(c)
  PROVE  Follow'
<1> USE DEF Types
<1>1. pc[c] \in {"scan", "index", "panes", "count"}
  BY DEF Scan, Index, Join, Count
<1>2. /\ seeded /\ Underway /\ Follows(c) /\ pc[c] # "seed"
      /\ pc[c] \in Resting => Quiet
  BY <1>1, FollowAlone
<1>3. UNCHANGED <<cursor, naiveLog, seeded, naive>>
  BY DEF Scan, Index, Join, Count, sessionVars, paneVars
<1>4. UpToDate' <=> UpToDate
  BY <1>3 DEF UpToDate, Heard
<1>5. TurnNext(cursor)' <=> TurnNext(cursor)
  BY <1>3
<1>6. CASE Scan(c)
  <2>1. Quiet /\ UNCHANGED steps
    BY <1>2, <1>6 DEF Scan, Resting, sessionVars
  <2>2. Quiet'
    BY <1>3, <1>4, <1>5, <2>1 DEF Quiet
  <2>3. \/ pc' = [pc EXCEPT ![c] = "ready"]
        \/ /\ pc' = [pc EXCEPT ![c] = "index"] /\ cursor < Len(Script)
           /\ loaded' = [loaded EXCEPT ![c] = cursor]
    BY <1>6 DEF Scan, Return, Goto, Holds
  <2>4. /\ pc' = [pc EXCEPT ![c] = pc'[c]] /\ pc'[c] \in {"ready", "index"}
        /\ pc'[c] = "index" => cursor' < Len(Script) /\ loaded'[c] = cursor'
    BY <1>3, <2>3
  <2>5. Follows(c)'
    BY <2>2, <2>4 DEF Follows
  <2> QED BY <1>1, <1>3, <2>2, <2>4, <2>5, FollowSilent
<1>9. CASE Index(c)
  <2>1. Quiet /\ cursor < Len(Script) /\ loaded[c] = cursor /\ UNCHANGED steps
    BY <1>2, <1>9 DEF Index, Follows, sessionVars
  <2>2. Quiet'
    BY <1>3, <1>4, <1>5, <2>1 DEF Quiet
  <2>3. PICK k \in Loads(c) :
          \/ /\ k < Len(Script)
             /\ msg' = [msg EXCEPT ![c] = k + 1]
             /\ Holds(c, k) /\ Goto(c, "load")
          \/ k >= Len(Script) /\ Return(c)
    BY <1>9 DEF Index
  <2>4. k = cursor /\ ~(k >= Len(Script))
    BY <2>1, ProbeIsLast DEF Loads
  <2>5. /\ pc' = [pc EXCEPT ![c] = "load"] /\ msg' = [msg EXCEPT ![c] = cursor + 1]
        /\ loaded' = [loaded EXCEPT ![c] = cursor]
    BY <2>3, <2>4 DEF Holds, Goto
  <2>6. /\ pc' = [pc EXCEPT ![c] = pc'[c]] /\ pc'[c] = "load" /\ msg'[c] = cursor' + 1
        /\ loaded'[c] = cursor' /\ cursor' < Len(Script)
    <3>1. cursor + 1 \in 1 .. Probe
      BY <2>1, ProbeIsLast
    <3> QED BY <1>3, <2>1, <2>5, <3>1
  <2>7. Follows(c)'
    BY <2>2, <2>6 DEF Follows
  <2> QED BY <1>1, <1>3, <2>6, <2>7, FollowSilent DEF Resting
<1>7. CASE Join(c)
  <2>1. pc[c] = "panes" /\ naive[c] = "done" /\ UNCHANGED steps
    BY <1>7 DEF Join, sessionVars
  <2>2. CASE msg[c] = Probe /\ Return(c)
    <3>1. Quiet
      BY <1>2, <2>1, <2>2 DEF Follows
    <3>2. Quiet'
      BY <1>3, <1>4, <1>5, <2>1, <3>1 DEF Quiet
    <3>3. pc' = [pc EXCEPT ![c] = pc'[c]] /\ pc'[c] = "ready"
      BY <2>2 DEF Return, Goto
    <3>4. Follows(c)'
      BY <3>3 DEF Follows
    <3> QED BY <1>1, <1>3, <3>2, <3>3, <3>4, FollowSilent
  <2>3. CASE ~(msg[c] = Probe /\ Return(c))
    <3>1. /\ msg[c] # Probe /\ loaded' = [loaded EXCEPT ![c] = steps]
          /\ pc' = [pc EXCEPT ![c] = "count"]
      BY <1>7, <2>3 DEF Join, Goto
    <3>2. Owed /\ TurnNext(cursor) /\ UpToDate
      BY <1>2, <2>1, <3>1 DEF Follows
    <3>3. Owed'
      BY <1>3, <2>1, <3>2 DEF Owed
    <3>4. pc' = [pc EXCEPT ![c] = pc'[c]] /\ pc'[c] = "count" /\ loaded'[c] = steps'
      BY <2>1, <3>1
    <3>5. Follows(c)'
      BY <1>4, <1>5, <3>2, <3>3, <3>4 DEF Follows
    <3> QED BY <1>1, <1>3, <3>4, <3>5, FollowSilent DEF Resting
  <2> QED BY <2>2, <2>3
<1>8. CASE Count(c)
  <2>1. pc[c] = "count" /\ steps' = loaded[c] + 1 /\ pc' = [pc EXCEPT ![c] = "ready"]
    BY <1>8 DEF Count, Return, Goto
  <2>2. Owed /\ TurnNext(cursor) /\ UpToDate /\ loaded[c] = steps
    BY <1>2, <2>1 DEF Follows
  <2>3. steps' = Turned(cursor')
    BY <1>3, <2>1, <2>2 DEF Owed
  <2>4. Quiet'
    BY <1>4, <1>5, <2>2, <2>3 DEF Quiet
  <2>5. pc' = [pc EXCEPT ![c] = pc'[c]] /\ pc'[c] = "ready"
    BY <2>1
  <2>6. Follows(c)'
    BY <2>5 DEF Follows
  <2> QED BY <1>1, <1>3, <2>4, <2>5, <2>6, FollowSilent
<1> QED BY <1>6, <1>7, <1>8, <1>9

(* loads the cursor again, and looks at the turn behind its own, *)
LEMMA FollowLooks ==
  ASSUME Types, PaneTypes, MsgOK, Follow, Solo, overlaps = 0, NEW c \in Clients,
         Load(c) \/ Skip(c) \/ Peek(c)
  PROVE  Follow'
<1> USE DEF Types
<1>1. pc[c] \in {"load", "pass", "skip", "peek"}
  BY DEF Load, Skip, Peek
<1>2. /\ seeded /\ Underway /\ Follows(c) /\ loaded[c] = cursor
      /\ pc[c] = "load" => Quiet /\ cursor < Len(Script) /\ msg[c] = cursor + 1
      /\ pc[c] # "load" => Owed /\ Pending(c) /\ msg[c] # Probe
  BY <1>1, FollowAlone DEF Follows, MsgOK
<1>3. UNCHANGED <<cursor, naiveLog, seeded, steps>>
  BY DEF Load, Skip, Peek, sessionVars, paneVars
<1>4. \A k \in Loads(c) : k = cursor
  BY <1>2 DEF Loads
<1>5. cursor \in Nat /\ Len(Script) \in Nat
  BY ProbeIsLast
<1>6. /\ Quiet => Quiet'
      /\ Owed => Owed'
  <2>1. /\ UpToDate' <=> UpToDate
        /\ TurnNext(cursor)' <=> TurnNext(cursor)
    BY <1>3 DEF UpToDate, Heard
  <2> QED BY <1>3, <2>1 DEF Quiet, Owed
<1>7. UNCHANGED msg => (Pending(c) => Pending(c)')
  BY <1>3 DEF Pending, Heard
<1>8. CASE Load(c)
  <2>1. /\ \/ pc[c] = "load" /\ pc' = [pc EXCEPT ![c] = "advance"]
           \/ pc[c] = "pass" /\ pc' = [pc EXCEPT ![c] = "over"]
        /\ loaded' = [loaded EXCEPT ![c] = cursor] /\ UNCHANGED msg
    BY <1>4, <1>8 DEF Load, Goto, Holds
  <2>2. pc' = [pc EXCEPT ![c] = pc'[c]] /\ loaded'[c] = cursor' /\ msg'[c] = msg[c]
        /\ \/ pc[c] = "load" /\ pc'[c] = "advance"
           \/ pc[c] = "pass" /\ pc'[c] = "over"
    BY <1>3, <2>1
  <2>3. Follows(c)'
    <3>1. CASE pc[c] = "load"
      BY <1>2, <1>3, <1>6, <2>2, <3>1 DEF Follows
    <3>2. CASE pc[c] = "pass"
      <4>1. cursor < Len(Script) /\ ~IsUser(Script[cursor + 1])
        BY <1>2, <3>2 DEF Follows
      <4> QED BY <1>2, <1>3, <1>6, <1>7, <2>1, <2>2, <3>2, <4>1 DEF Follows
    <3> QED BY <2>2, <3>1, <3>2
  <2> QED BY <1>1, <1>3, <2>2, <2>3, FollowSilent DEF Resting
<1>9. ASSUME pc[c] # "load", Run(c), UNCHANGED <<msg, loaded>>, TurnNext(cursor)
      PROVE  Follow'
  <2>1. /\ pc' = [pc EXCEPT ![c] = pc'[c]] /\ pc'[c] = "panes" /\ naive'[c] = "ask"
        /\ msg'[c] # Probe
    BY <1>2, <1>9 DEF Run, Goto, PaneTypes
  <2>2. Pending(c)' /\ Owed' /\ TurnNext(cursor)'
    BY <1>2, <1>3, <1>6, <1>7, <1>9
  <2>3. Follows(c)'
    BY <2>1, <2>2 DEF Follows
  <2> QED BY <1>1, <1>3, <2>1, <2>3, FollowSilent DEF Resting
<1>10. CASE Skip(c)
  <2>1. \/ /\ cursor < Len(Script) /\ loaded' = [loaded EXCEPT ![c] = cursor]
           /\ pc' = [pc EXCEPT ![c] = "peek"] /\ UNCHANGED msg
        \/ cursor >= Len(Script) /\ Run(c) /\ UNCHANGED <<msg, loaded>>
    BY <1>4, <1>10 DEF Skip, Goto, Holds
  <2>2. CASE ~(cursor < Len(Script))
    <3>1. TurnNext(cursor)
      BY <2>2 DEF TurnNext
    <3> QED BY <1>9, <1>10, <2>1, <2>2, <3>1 DEF Skip
  <2>3. CASE cursor < Len(Script)
    <3>1. /\ pc' = [pc EXCEPT ![c] = pc'[c]] /\ pc'[c] = "peek" /\ loaded'[c] = cursor'
          /\ UNCHANGED msg
      BY <1>3, <1>5, <2>1, <2>3
    <3>2. pc[c] # "load"
      BY <1>10 DEF Skip
    <3>3. Follows(c)'
      BY <1>2, <1>3, <1>6, <1>7, <2>3, <3>1, <3>2 DEF Follows
    <3> QED BY <1>1, <1>3, <3>1, <3>3, FollowSilent DEF Resting
  <2> QED BY <2>2, <2>3
<1>11. CASE Peek(c)
  <2>1. cursor < Len(Script) /\ pc[c] = "peek"
    BY <1>2, <1>11 DEF Peek, Follows
  <2>2. cursor + 1 \in 1 .. Len(Script)
        /\ (IsUser(Said(cursor + 1)) <=> IsUser(Script[cursor + 1]))
    <3>1. cursor + 1 \in 1 .. Len(Script)
      BY <1>5, <2>1
    <3> QED BY <3>1, ScriptTurns
  <2>3. \/ IsUser(Said(cursor + 1)) /\ Run(c) /\ UNCHANGED <<msg, loaded>>
        \/ /\ ~IsUser(Said(cursor + 1)) /\ loaded' = [loaded EXCEPT ![c] = cursor]
           /\ pc' = [pc EXCEPT ![c] = "pass"] /\ UNCHANGED msg
    <3>1. ~(cursor >= Len(Script))
      BY <1>5, <2>1
    <3> QED BY <1>4, <1>11, <3>1 DEF Peek, Goto, Holds
  <2>4. CASE IsUser(Said(cursor + 1))
    <3>1. TurnNext(cursor)
      BY <2>2, <2>4 DEF TurnNext
    <3> QED BY <1>9, <2>1, <2>3, <2>4, <3>1
  <2>5. CASE ~IsUser(Said(cursor + 1))
    <3>1. /\ pc' = [pc EXCEPT ![c] = pc'[c]] /\ pc'[c] = "pass" /\ loaded'[c] = cursor'
          /\ UNCHANGED msg
      BY <1>3, <2>3, <2>5
    <3>2. Follows(c)'
      BY <1>2, <1>3, <1>6, <1>7, <2>1, <2>2, <2>5, <3>1 DEF Follows
    <3> QED BY <1>1, <1>3, <3>1, <3>2, FollowSilent DEF Resting
  <2> QED BY <2>4, <2>5
<1> QED BY <1>8, <1>10, <1>11

(* nextUserMessage stores the cursor behind the turn it found, *)
LEMMA FollowAdvance ==
  ASSUME Types, Follow, Solo, overlaps = 0, NEW c \in Clients, Advance(c)
  PROVE  Follow'
<1> USE DEF Types
<1>1. pc[c] = "advance"
  BY DEF Advance
<1>2. /\ seeded /\ Underway /\ Quiet /\ cursor < Len(Script)
      /\ msg[c] = cursor + 1 /\ loaded[c] = cursor
      /\ \A d \in Clients : d # c => pc[d] = "ready"
  BY <1>1, FollowAlone DEF Follows
<1>3. /\ cursor \in 0 .. Len(Script) /\ cursor + 1 \in 1 .. Len(Script)
      /\ cursor + 1 \in SeedUntil .. Len(Script)
  BY <1>2, ProbeIsLast DEF Underway
<1>4. IsUser(Script[cursor + 1]) /\ IsUser(Said(msg[c]))
  BY <1>2, <1>3, ScriptTurns DEF Quiet, TurnNext
<1>5. /\ pc' = [pc EXCEPT ![c] = "skip"] /\ cursor' = cursor + 1
      /\ loaded' = [loaded EXCEPT ![c] = cursor + 1]
      /\ UNCHANGED <<naiveLog, seeded, steps, msg>>
  BY <1>2, <1>4 DEF Advance, Holds, Goto, paneVars
<1>6. /\ Before(cursor + 1) = Append(Before(cursor), Said(cursor + 1))
      /\ Before(cursor) \in Seq(Lines) /\ Said(cursor + 1) \in Lines
  BY <1>2, <1>3, <1>4, BeforeStep, ScriptTurns
<1>7. Pending(c)'
  <2>1. Before(cursor') = Append(Heard, Said(msg[c]))
    BY <1>2, <1>5, <1>6 DEF Quiet, UpToDate
  <2>2. Heard' = Heard /\ Said(msg[c])' = Said(msg[c])
    BY <1>5 DEF Heard
  <2> QED BY <2>1, <2>2 DEF Pending
<1>8. Owed'
  <2>1. Len(Before(cursor + 1)) = Len(Before(cursor)) + 1 /\ Len(Before(cursor)) \in Nat
    BY <1>6
  <2>2. Len(Before(SeedUntil)) \in Nat
    <3>1. SeedUntil \in 0 .. Len(Script)
      BY ProbeIsLast
    <3>2. Before(SeedUntil) \in Seq(Lines)
      BY <3>1, BeforeStep
    <3> QED BY <3>2
  <2>3. Turned(cursor + 1) = Turned(cursor) + 1 /\ Turned(cursor) \in Int
    BY <2>1, <2>2 DEF Turned
  <2>4. steps' = Turned(cursor)
    BY <1>2, <1>5 DEF Quiet
  <2> HIDE DEF Types
  <2>5. Turned(cursor') = Turned(cursor) + 1
    BY <1>5, <2>3
  <2> QED BY <2>4, <2>5 DEF Owed
<1>9. pc' = [pc EXCEPT ![c] = pc'[c]] /\ pc'[c] = "skip" /\ loaded'[c] = cursor'
      /\ \A d \in Clients : d # c => pc'[d] = "ready"
  BY <1>2, <1>5
<1>10. Follows(c)'
  BY <1>7, <1>8, <1>9 DEF Follows
<1>11. /\ cursor' \in SeedUntil .. Len(Script) /\ Len(naiveLog') >= SeedUntil
       /\ \A j \in SeedUntil + 1 .. Len(naiveLog') : IsUser(Said(naiveLog'[j].turn))
  BY <1>2, <1>3, <1>5 DEF Underway
<1> QED BY <1>2, <1>5, <1>9, <1>10, <1>11, FollowOne DEF Resting

(* passes over a scripted answer to it, *)
LEMMA FollowOver ==
  ASSUME Alternates, Types, PaneTypes, MsgOK, Follow, Solo, overlaps = 0,
         NEW c \in Clients, Over(c)
  PROVE  Follow'
<1> USE DEF Types
<1>1. pc[c] = "over" /\ msg[c] # Probe
  BY DEF Over, MsgOK
<1>2. /\ seeded /\ Underway /\ Owed /\ Pending(c) /\ loaded[c] = cursor
      /\ cursor < Len(Script) /\ ~IsUser(Script[cursor + 1])
      /\ \A d \in Clients : d # c => pc[d] = "ready"
  BY <1>1, FollowAlone DEF Follows
<1>3. /\ cursor \in 0 .. Len(Script) /\ cursor \in Nat /\ Len(Script) \in Nat
      /\ cursor \in SeedUntil .. Len(Script) /\ SeedUntil \in Nat
  BY <1>2, ProbeIsLast DEF Underway
<1>4. /\ pc' = [pc EXCEPT ![c] = "panes"] /\ naive' = [naive EXCEPT ![c] = "ask"]
      /\ UNCHANGED <<naiveLog, seeded, steps, msg>>
      /\ cursor' = cursor + 1
  BY <1>2 DEF Over, Run, Goto, paneVars
<1>5. Before(cursor') = Before(cursor) /\ cursor' \in SeedUntil .. Len(Script)
  <2>1. Before(cursor + 1) = Before(cursor)
    BY <1>2, <1>3, BeforeStep
  <2> QED BY <1>2, <1>3, <1>4, <2>1
<1>6. TurnNext(cursor')
  <2>1. SUFFICES ASSUME cursor' < Len(Script), ~IsUser(Script[cursor' + 1]) PROVE FALSE
    BY DEF TurnNext
  <2>2. cursor' + 1 \in SeedUntil + 1 .. Len(Script) /\ (cursor' + 1) - 1 = cursor + 1
    BY <1>3, <1>4, <1>5, <2>1
  <2> QED BY <1>2, <2>1, <2>2 DEF Alternates
<1>7. Pending(c)' /\ Owed'
  <2>1. Heard' = Heard /\ Said(msg[c])' = Said(msg[c]) /\ Turned(cursor') = Turned(cursor)
    BY <1>4, <1>5 DEF Heard, Turned
  <2> QED BY <1>2, <1>4, <1>5, <2>1 DEF Pending, Owed
<1>8. /\ pc' = [pc EXCEPT ![c] = pc'[c]] /\ pc'[c] = "panes" /\ naive'[c] = "ask"
      /\ msg'[c] # Probe /\ \A d \in Clients : d # c => pc'[d] = "ready"
  BY <1>1, <1>2, <1>4 DEF PaneTypes
<1>9. Follows(c)'
  BY <1>6, <1>7, <1>8 DEF Follows
<1>10. /\ Len(naiveLog') >= SeedUntil
       /\ \A j \in SeedUntil + 1 .. Len(naiveLog') : IsUser(Said(naiveLog'[j].turn))
  BY <1>2, <1>4 DEF Underway
<1> QED BY <1>2, <1>4, <1>5, <1>8, <1>9, <1>10, FollowOne DEF Resting

(* and the naive pane says the turn, or the question. *)
LEMMA FollowNaive ==
  ASSUME Types, PaneTypes, MsgOK, Follow, Solo, overlaps = 0, NEW c \in Clients, NaiveRun(c)
  PROVE  Follow'
<1> USE DEF Types
<1> DEFINE a == Said(msg[c])
           b == Reply(msg[c])
<1>1. /\ pc[c] = "panes" /\ naive[c] = "ask" /\ naive' = [naive EXCEPT ![c] = "done"]
      /\ UNCHANGED <<pc, msg, loaded, cursor, steps, seeded>>
  BY DEF NaiveRun, sessionVars
<1>2. /\ seeded /\ Underway /\ Follows(c)
      /\ \A d \in Clients : d # c => pc[d] = "ready"
  BY <1>1, FollowAlone
<1>3. /\ a \in Lines /\ b \in Lines /\ IsUser(a) /\ ~IsUser(b)
      /\ a.turn = msg[c] /\ b.turn = msg[c]
  BY <1>1, LinesOK DEF MsgOK, IsUser, Reply, Said
<1>4. naiveLog' = Extended(naiveLog, <<a, b>>) \/ naiveLog' = Extended(naiveLog, <<a>>)
  BY DEF NaiveRun
<1> HIDE DEF a, b
<1>5. /\ naiveLog' = Append(Append(naiveLog, a), b) \/ naiveLog' = Append(naiveLog, a)
      /\ Append(naiveLog, a) \in Seq(Lines)
  BY <1>3, <1>4, ExtendedIs
<1>6. Heard' = IF msg[c] # Probe THEN Append(Heard, a) ELSE Heard
  <2>1. UserLinesOf(Append(naiveLog, a), 1 .. Probe - 1)
          = IF msg[c] # Probe THEN Append(Heard, a) ELSE Heard
    BY <1>3, HeardAppend DEF Heard
  <2>2. UserLinesOf(Append(Append(naiveLog, a), b), 1 .. Probe - 1)
          = UserLinesOf(Append(naiveLog, a), 1 .. Probe - 1)
    BY <1>3, <1>5, HeardAppend
  <2>3. Heard' = UserLinesOf(naiveLog', 1 .. Probe - 1)
    BY DEF Heard
  <2> QED BY <1>5, <2>1, <2>2, <2>3, Zenon
<1>7. /\ Len(naiveLog') >= SeedUntil
      /\ \A j \in SeedUntil + 1 .. Len(naiveLog') : IsUser(Said(naiveLog'[j].turn))
  <2>1. /\ Len(naiveLog) >= SeedUntil /\ Len(naiveLog) \in Nat /\ SeedUntil \in Nat
        /\ \A j \in SeedUntil + 1 .. Len(naiveLog) : IsUser(Said(naiveLog[j].turn))
    BY <1>2, ProbeIsLast DEF Underway
  <2>2. Len(naiveLog') \in Nat /\ Len(naiveLog') >= Len(naiveLog)
    BY <1>3, <1>5, <2>1
  <2>3. /\ \A i \in 1 .. Len(naiveLog) : Append(naiveLog, a)[i] = naiveLog[i]
        /\ Append(naiveLog, a)[Len(naiveLog) + 1] = a
        /\ Len(Append(naiveLog, a)) = Len(naiveLog) + 1
    BY <1>3, <2>1
  <2>4. /\ \A i \in 1 .. Len(naiveLog) + 1 :
             Append(Append(naiveLog, a), b)[i] = Append(naiveLog, a)[i]
        /\ Append(Append(naiveLog, a), b)[Len(naiveLog) + 2] = b
        /\ Len(Append(Append(naiveLog, a), b)) = Len(naiveLog) + 2
    BY <1>3, <1>5, <2>1, <2>3
  <2>5. ASSUME NEW j \in SeedUntil + 1 .. Len(naiveLog')
        PROVE  IsUser(Said(naiveLog'[j].turn))
    <3>1. CASE j <= Len(naiveLog)
      <4>1. j \in SeedUntil + 1 .. Len(naiveLog) /\ j \in 1 .. Len(naiveLog)
        BY <2>1, <2>2, <2>5, <3>1
      <4>2. naiveLog'[j] = naiveLog[j]
        <5>1. CASE naiveLog' = Append(naiveLog, a)
          BY <2>3, <4>1, <5>1
        <5>2. CASE naiveLog' = Append(Append(naiveLog, a), b)
          <6>1. j \in 1 .. Len(naiveLog) + 1
            BY <2>1, <4>1
          <6> QED BY <2>3, <2>4, <4>1, <5>2, <6>1
        <5> QED BY <1>5, <5>1, <5>2
      <4> QED BY <2>1, <4>1, <4>2
    <3>2. CASE ~(j <= Len(naiveLog))
      <4>1. naiveLog'[j] = a \/ naiveLog'[j] = b
        <5>1. CASE naiveLog' = Append(naiveLog, a)
          <6>1. j = Len(naiveLog) + 1
            BY <2>1, <2>5, <2>3, <3>2, <5>1
          <6> QED BY <2>3, <5>1, <6>1
        <5>2. CASE naiveLog' = Append(Append(naiveLog, a), b)
          <6>1. Len(naiveLog') = Len(naiveLog) + 2
            BY <2>4, <5>2, Zenon
          <6>2. j = Len(naiveLog) + 1 \/ j = Len(naiveLog) + 2
            BY <2>1, <2>5, <3>2, <6>1
          <6>3. Len(naiveLog) + 1 \in 1 .. Len(naiveLog) + 1
            BY <2>1
          <6> QED BY <2>3, <2>4, <5>2, <6>2, <6>3
        <5> QED BY <1>5, <5>1, <5>2
      <4>2. naiveLog'[j].turn = msg[c]
        BY <1>3, <4>1
      <4> QED BY <1>3, <4>2, Zenon DEF a
    <3> QED BY <3>1, <3>2
  <2> QED BY <2>1, <2>2, <2>5
<1>8. /\ pc'[c] = "panes" /\ naive'[c] = "done" /\ msg'[c] = msg[c]
      /\ \A d \in Clients : d # c => pc'[d] = "ready"
  BY <1>1, <1>2 DEF PaneTypes
<1>9. TurnNext(cursor)' <=> TurnNext(cursor)
  BY <1>1
<1>10. Follows(c)'
  <2>1. CASE msg[c] = Probe
    <3>1. Quiet
      BY <1>1, <1>2, <2>1 DEF Follows
    <3>2. Quiet'
      BY <1>1, <1>6, <1>9, <2>1, <3>1 DEF Quiet, UpToDate
    <3> QED BY <1>8, <2>1, <3>2 DEF Follows
  <2>2. CASE msg[c] # Probe
    <3>1. Owed /\ TurnNext(cursor) /\ Pending(c)
      BY <1>1, <1>2, <2>2 DEF Follows
    <3>2. UpToDate'
      BY <1>1, <1>6, <2>2, <3>1 DEF Pending, UpToDate, a
    <3>3. Owed'
      BY <1>1, <3>1 DEF Owed
    <3> QED BY <1>8, <1>9, <2>2, <3>1, <3>2, <3>3 DEF Follows
  <2> QED BY <2>1, <2>2
<1>11. cursor' \in SeedUntil .. Len(Script)
  BY <1>1, <1>2 DEF Underway
<1> QED BY <1>1, <1>2, <1>7, <1>8, <1>10, <1>11, FollowOne DEF Resting

(* So every step of requests that never overlap follows the script. *)
LEMMA FollowNext ==
  ASSUME Alternates, PInv, Follow, [Next]_vars
  PROVE  Follow'
<1> SUFFICES ASSUME overlaps' = 0 PROVE Follow'
  BY DEF Follow
<1>1. Types /\ PaneTypes /\ MsgOK /\ Session /\ Solo /\ overlaps = 0
  BY StillSolo DEF PInv, IInv
<1>2. ASSUME NEW c \in Clients, Start(c) \/ SeedTurn(c) \/ WaitForSeededNodes(c)
      PROVE  Follow'
  BY <1>1, <1>2, FollowSeeds
<1>3. ASSUME NEW c \in Clients, Register(c) \/ NextCall(c) \/ ProbeSession(c)
      PROVE  Follow'
  BY <1>1, <1>3, FollowEnters
<1>4. ASSUME NEW c \in Clients, Scan(c) \/ Index(c) \/ Join(c) \/ Count(c)
      PROVE  Follow'
  BY <1>1, <1>4, FollowScans
<1>8. ASSUME NEW c \in Clients, Load(c) \/ Skip(c) \/ Peek(c)
      PROVE  Follow'
  BY <1>1, <1>8, FollowLooks
<1>5. ASSUME NEW c \in Clients, Advance(c) \/ Over(c) \/ NaiveRun(c)
      PROVE  Follow'
  BY <1>1, <1>5, FollowAdvance, FollowOver, FollowNaive
<1>9. ASSUME NEW c \in Clients, Ingest(c)
      PROVE  FALSE
  <2>1. pc[c] = "ingest"
    BY <1>9 DEF Ingest
  <2> QED BY <1>1, <2>1, FollowAlone DEF Follows
<1>6. ASSUME NEW c \in Clients, Reset(c) \/ AcgcAsk(c) \/ AcgcAnswer(c) \/ AcgcFails(c)
      PROVE  Follow'
  <2>1. /\ UNCHANGED <<pc, msg, loaded, naive, cursor, steps, naiveLog, seeded>>
        /\ registered' => registered
    BY <1>6 DEF Reset, AcgcAsk, AcgcAnswer, AcgcFails, paneVars, requestVars, sessionVars
  <2> QED BY <1>1, <2>1, FollowSame
<1>7. CASE Process \/ UNCHANGED vars
  <2>1. UNCHANGED <<pc, msg, loaded, naive, cursor, steps, naiveLog, seeded, registered>>
    BY <1>7 DEF Process, vars, paneVars, requestVars, sessionVars
  <2> QED BY <1>1, <2>1, FollowSame
<1> QED BY <1>2, <1>3, <1>4, <1>5, <1>6, <1>7, <1>8, <1>9 DEF Next, Step

(* Requests that never overlap follow the script (nextUserMessage): no turn  *)
(* is said twice or skipped, no scripted answer to a live turn is said, and  *)
(* userStepsDone counts the live turns, for every script that goes on in     *)
(* pairs, as LoadScenario's does.                                            *)
THEOREM ScriptTheorem ==
  ASSUME Alternates
  PROVE  Spec => []ScriptFollowed
<1>1. Init => Follow
  BY DEF Init, Follow, Unseeded
<1>2. PInv /\ Follow /\ [Next]_vars => Follow'
  BY FollowNext
<1>3. PInv /\ Follow => ScriptFollowed
  <2> SUFFICES ASSUME Follow, AtRest, overlaps = 0, seeded
               PROVE  /\ UserLinesOf(naiveLog, 1 .. Probe - 1) = Before(cursor)
                      /\ \A j \in SeedUntil + 1 .. Len(naiveLog) :
                           IsUser(Said(naiveLog[j].turn))
                      /\ steps = Len(Before(cursor)) - Len(Before(SeedUntil))
    BY DEF ScriptFollowed, Before, Seeds
  <2>1. Underway
    BY DEF Follow
  <2>2. Quiet
    BY <2>1 DEF Underway, AtRest, Resting
  <2> QED BY <2>1, <2>2 DEF Underway, Quiet, UpToDate, Heard, Turned
<1> QED BY <1>1, <1>2, <1>3, SpecPInv, PTL DEF Spec

-----------------------------------------------------------------------------
(* Requests come to their end                                                *)

(* A call of Next goes round its loop once per turn of the script; but a     *)
(* call that overlaps with it may take the cursor back, by storing a value   *)
(* it counted from one it had loaded before.  For that it has to hold a turn *)
(* before the cursor, and it does so once: a call loads none but the turn    *)
(* the cursor is at.  So one turn after the other, from the first up to the  *)
(* cursor, fewer calls hold it; or, with as many, the cursor is further; or, *)
(* with the cursor where it was, one has fewer steps to take.                *)
Turns == 0 .. Len(Script) - 1
Turning == {"index", "load", "advance", "skip", "peek", "pass", "over"}
At(c, x) == pc[c] \in Turning /\ loaded[c] = x

(* The steps a request has to take before it ends or stores the cursor.      *)
Left(c) ==
  CASE pc[c] = "seed" -> 2 + (SeedUntil - loaded[c])
    [] pc[c] = "register" -> 1
    [] pc[c] = "ingest" -> IF cursor < Len(Script) THEN 14 ELSE 2
    [] pc[c] = "scan" -> IF cursor < Len(Script) THEN 13 ELSE 1
    [] pc[c] = "index" -> 12
    [] pc[c] = "load" -> 11
    [] pc[c] = "advance" -> 10
    [] pc[c] = "skip" -> 9
    [] pc[c] = "peek" -> 8
    [] pc[c] = "pass" -> 7
    [] pc[c] = "over" -> 6
    [] pc[c] = "panes" ->
         2 + (IF naive[c] = "ask" THEN 1 ELSE 0)
           + (IF acgc[c] = "ask" THEN 2 ELSE IF acgc[c] = "llm" THEN 1 ELSE 0)
    [] pc[c] = "count" -> 1
    [] OTHER -> 0
Most == 14 + SeedUntil

Calling == {q \in Clients \X Turns : At(q[1], q[2])}
Standing == IF cursor < Len(Script) THEN cursor ELSE Len(Script)
ToDo == {q \in Clients \X (1 .. Most) : q[2] <= Left(q[1])}
Position == <<Calling, Standing, ToDo>>
Positions == (SUBSET (Clients \X Turns)) \X (0 .. Len(Script))
               \X (SUBSET (Clients \X (1 .. Most)))

(* Who holds a turn in a position, and which positions come after it.        *)
Callers(p, x) == {c \in Clients : <<c, x>> \in p[1]}
Fewer(S, T) == S \subseteq T /\ S # T
Falls(p, q, x) ==
  \/ x < p[2] /\ x < q[2] /\ Fewer(Callers(q, x), Callers(p, x))
  \/ x = p[2] /\ x < q[2]
  \/ x = p[2] /\ x = q[2] /\ Fewer(q[3], p[3])
Precedes(p, q) ==
  \E x \in 0 .. Len(Script) :
    /\ x <= p[2] /\ x <= q[2] /\ Falls(p, q, x)
    /\ \A y \in 0 .. x - 1 : Callers(p, y) = Callers(q, y)

(* The script has a length, and seeds in it.                                 *)
LEMMA ScriptLength == Len(Script) \in Nat /\ SeedUntil \in 1 .. Len(Script)
BY ScriptAssumption

(* Of three positions the first comes before the last.                       *)
LEMMA PrecedesOn ==
  ASSUME NEW p, NEW q, NEW r, p[2] \in Nat, q[2] \in Nat, r[2] \in Nat,
         Precedes(p, q), Precedes(q, r)
  PROVE  Precedes(p, r)
<1>1. PICK x \in 0 .. Len(Script) :
        /\ x <= p[2] /\ x <= q[2] /\ Falls(p, q, x)
        /\ \A y \in 0 .. x - 1 : Callers(p, y) = Callers(q, y)
  BY DEF Precedes
<1>2. PICK z \in 0 .. Len(Script) :
        /\ z <= q[2] /\ z <= r[2] /\ Falls(q, r, z)
        /\ \A y \in 0 .. z - 1 : Callers(q, y) = Callers(r, y)
  BY DEF Precedes
<1>3. x \in Nat /\ z \in Nat
  OBVIOUS
<1>4. CASE x < z
  <2>1. x < r[2] /\ x \in 0 .. z - 1 /\ \A y \in 0 .. x - 1 : y \in 0 .. z - 1
    BY <1>2, <1>3, <1>4
  <2>2. Callers(q, x) = Callers(r, x) /\ \A y \in 0 .. x - 1 : Callers(p, y) = Callers(r, y)
    BY <1>1, <1>2, <2>1, Zenon
  <2>3. Falls(p, r, x)
    BY <1>1, <1>2, <1>3, <1>4, <2>1, <2>2 DEF Falls
  <2> QED BY <1>1, <2>1, <2>2, <2>3 DEF Precedes
<1>5. CASE z < x
  <2>1. z < p[2] /\ z \in 0 .. x - 1 /\ \A y \in 0 .. z - 1 : y \in 0 .. x - 1
    BY <1>1, <1>3, <1>5
  <2>2. Callers(p, z) = Callers(q, z) /\ \A y \in 0 .. z - 1 : Callers(p, y) = Callers(r, y)
    BY <1>1, <1>2, <2>1, Zenon
  <2>3. Falls(p, r, z)
    BY <1>1, <1>2, <1>3, <1>5, <2>1, <2>2 DEF Falls
  <2> QED BY <1>2, <2>1, <2>2, <2>3 DEF Precedes
<1>6. CASE x = z
  <2>1. \A y \in 0 .. x - 1 : Callers(p, y) = Callers(r, y)
    BY <1>1, <1>2, <1>6, Zenon
  <2>2. \A R, S, T : Fewer(R, S) /\ Fewer(S, T) => Fewer(R, T)
    BY DEF Fewer
  <2>3. Falls(p, r, x)
    BY <1>1, <1>2, <1>3, <1>6, <2>2 DEF Falls
  <2> QED BY <1>1, <1>2, <1>6, <2>1, <2>3 DEF Precedes
<1> QED BY <1>3, <1>4, <1>5, <1>6

(* No position comes before itself.                                          *)
LEMMA PrecedesNot == ASSUME NEW p, p[2] \in Nat PROVE ~Precedes(p, p)
<1>1. \A x \in 0 .. Len(Script) : ~Falls(p, p, x)
  BY DEF Falls, Fewer
<1> QED BY <1>1 DEF Precedes

(* There are finitely many positions.                                        *)
LEMMA PositionsAreFinite == ASSUME IsFiniteSet(Clients) PROVE IsFiniteSet(Positions)
<1>1. /\ 0 \in Int /\ 1 \in Int /\ Len(Script) \in Int /\ Len(Script) - 1 \in Int
      /\ Most \in Int
  BY ScriptLength DEF Most
<1>2. \A a \in Int : \A b \in Int : IsFiniteSet(a .. b)
  BY FS_Interval
<1>3. IsFiniteSet(Turns) /\ IsFiniteSet(0 .. Len(Script)) /\ IsFiniteSet(1 .. Most)
  BY <1>1, <1>2 DEF Turns
<1>4. IsFiniteSet(Clients \X Turns) /\ IsFiniteSet(Clients \X (1 .. Most))
  BY <1>3, FS_Product
<1> DEFINE A == SUBSET (Clients \X Turns)
           B == 0 .. Len(Script)
           C == SUBSET (Clients \X (1 .. Most))
           Pairs == (A \X B) \X C
           flat == [p \in Pairs |-> <<p[1][1], p[1][2], p[2]>>]
<1>5. IsFiniteSet(A) /\ IsFiniteSet(B) /\ IsFiniteSet(C)
  BY <1>3, <1>4, FS_SUBSET
<1>6. Positions = A \X B \X C
  BY DEF Positions
<1> HIDE DEF A, B, C
<1>7. IsFiniteSet(A \X B)
  BY <1>5, FS_Product
<1>8. IsFiniteSet(Pairs)
  BY <1>5, <1>7, FS_Product
<1>9. flat \in Surjection(Pairs, Positions)
  <2>1. \A p \in Pairs : flat[p] \in Positions
    BY <1>6
  <2>2. ASSUME NEW q \in Positions PROVE \E p \in Pairs : flat[p] = q
    <3>1. q[1] \in A /\ q[2] \in B /\ q[3] \in C /\ q = <<q[1], q[2], q[3]>>
      BY <1>6
    <3> DEFINE p == <<<<q[1], q[2]>>, q[3]>>
    <3>2. p \in Pairs
      BY <3>1
    <3>3. flat[p] = q
      BY <3>1, <3>2
    <3> QED BY <3>2, <3>3
  <2> HIDE DEF Pairs
  <2>3. flat \in [Pairs -> Positions]
    BY <2>1
  <2> HIDE DEF flat
  <2> QED BY <2>2, <2>3 DEF Surjection
<1> HIDE DEF Pairs, flat
<1> QED BY <1>8, <1>9, FS_Surjection DEF ExistsSurjection

(* The callers of the position a state is in.                                *)
LEMMA CallersAre ==
  ASSUME Types, Types'
  PROVE  /\ cursor \in Nat /\ cursor' \in Nat /\ Len(Script) \in Nat
         /\ Position[2] = Standing /\ Position[2]' = Standing'
         /\ Standing \in 0 .. Len(Script) /\ Standing' \in 0 .. Len(Script)
         /\ \A y \in Turns : /\ Callers(Position, y) = {c \in Clients : At(c, y)}
                             /\ Callers(Position', y) = {c \in Clients : At(c, y)'}
<1>1. cursor \in Nat /\ cursor' \in Nat /\ Len(Script) \in Nat
  BY ScriptLength DEF Types
<1>2. ASSUME NEW y \in Turns
      PROVE  /\ Callers(Position, y) = {c \in Clients : At(c, y)}
             /\ Callers(Position', y) = {c \in Clients : At(c, y)'}
  BY DEF Callers, Position, Calling
<1> QED BY <1>1, <1>2 DEF Position, Standing

(* A request has a number of steps left, and no more than Most.              *)
LEMMA LeftType ==
  ASSUME Types, Seeding, NEW c \in Clients
  PROVE  Left(c) \in 0 .. Most
<1>1. Len(Script) \in Nat /\ SeedUntil \in Nat /\ loaded[c] \in Nat /\ cursor \in Nat
      /\ (pc[c] = "seed" => loaded[c] <= SeedUntil) /\ Most = 14 + SeedUntil
  BY ScriptLength DEF Types, Seeding, Most
<1> QED BY <1>1 DEF Left

(* So it has after a step.                                                   *)
LEMMA NextLeftType ==
  ASSUME Types', Seeding', NEW c \in Clients
  PROVE  Left(c)' \in 0 .. Most
<1>1. Len(Script) \in Nat /\ SeedUntil \in Nat /\ loaded'[c] \in Nat /\ cursor' \in Nat
      /\ (pc'[c] = "seed" => loaded'[c] <= SeedUntil) /\ Most = 14 + SeedUntil
  BY ScriptLength DEF Types, Seeding, Most
<1> QED BY <1>1 DEF Left

(* Only the request that takes a step changes.                               *)
Apart(c) ==
  \A d \in Clients \ {c} : /\ pc'[d] = pc[d] /\ loaded'[d] = loaded[d]
                           /\ naive'[d] = naive[d] /\ acgc'[d] = acgc[d]

(* The steps of a request leave the others alone.                            *)
LEMMA StepsApart ==
  ASSUME Types, PaneTypes, NEW c \in Clients, Step(c)
  PROVE  Apart(c)
<1>0. /\ pc = [d \in Clients |-> pc[d]] /\ loaded = [d \in Clients |-> loaded[d]]
      /\ naive = [d \in Clients |-> naive[d]] /\ acgc = [d \in Clients |-> acgc[d]]
  BY DEF Types, PaneTypes
<1>1. CASE SeedTurn(c)
  BY <1>0, <1>1 DEF SeedTurn, GiveUp, Return, Goto, Apart
<1>2. CASE WaitForSeededNodes(c)
  BY <1>0, <1>2 DEF WaitForSeededNodes, GiveUp, Return, Goto, Apart
<1>3. CASE Register(c)
  BY <1>0, <1>3 DEF Register, Return, Goto, Apart
<1>4. CASE Looks(c) \/ Stores(c)
  <2>1. /\ \E l : /\ pc' = [pc EXCEPT ![c] = l]
                  /\ IF l = "panes" THEN Run(c) ELSE UNCHANGED <<naive, acgc>>
        /\ \E k \in Nat : loaded' = [loaded EXCEPT ![c] = k]
    BY <1>4, CursorSteps
  <2> QED BY <1>0, <2>1 DEF Run, Apart
<1>5. CASE Ingest(c)
  BY <1>0, <1>5 DEF Ingest, Goto, Apart
<1>7. CASE NaiveRun(c)
  BY <1>0, <1>7 DEF NaiveRun, Apart
<1>8. CASE AcgcAsk(c)
  BY <1>0, <1>8 DEF AcgcAsk, Apart
<1>9. CASE AcgcAnswer(c) \/ AcgcFails(c)
  BY <1>0, <1>9 DEF AcgcAnswer, AcgcFails, Apart
<1>10. CASE Join(c) \/ Count(c)
  BY <1>0, <1>10 DEF Join, Count, Return, Goto, Apart
<1> QED BY <1>1, <1>2, <1>3, <1>4, <1>5, <1>7, <1>8, <1>9, <1>10 DEF Step, Looks, Stores

(* Where the others are and what they have left, when the cursor stays on    *)
(* the same side of the end.                                                 *)
LEMMA OthersStay ==
  ASSUME NEW c \in Clients, Apart(c)
  PROVE  /\ \A d \in Clients \ {c} : \A y : At(d, y)' <=> At(d, y)
         /\ (cursor' < Len(Script) <=> cursor < Len(Script))
              => \A d \in Clients \ {c} : Left(d)' = Left(d)
BY DEF Apart, At, Left

(* With the calls and the cursor where they were, one step less is to do.    *)
LEMMA HasFewer ==
  ASSUME Types, Types', Seeding, Seeding', NEW c \in Clients, Standing' = Standing,
         \A y \in 0 .. Standing - 1 : Callers(Position, y) = Callers(Position', y),
         Left(c)' < Left(c), \A d \in Clients \ {c} : Left(d)' = Left(d)
  PROVE  Precedes(Position, Position')
<1>1. /\ \A d \in Clients : Left(d) \in 0 .. Most /\ Left(d)' \in 0 .. Most
      /\ Most \in Nat
  BY LeftType, NextLeftType, ScriptLength DEF Most
<1> DEFINE p == Position
           q == Position'
<1>2. /\ p[3] = {z \in Clients \X (1 .. Most) : z[2] <= Left(z[1])}
      /\ q[3] = {z \in Clients \X (1 .. Most) : z[2] <= Left(z[1])'}
  BY DEF Position, ToDo, Most
<1>3. /\ p[2] = Standing /\ q[2] = Standing /\ Standing \in 0 .. Len(Script)
      /\ Standing \in Nat
      /\ \A y \in 0 .. Standing - 1 : Callers(p, y) = Callers(q, y)
  BY CallersAre DEF Position
<1> HIDE DEF p, q
<1>4. q[3] \subseteq p[3]
  <2> SUFFICES ASSUME NEW d \in Clients, NEW k \in 1 .. Most, k <= Left(d)'
               PROVE  k <= Left(d)
    BY <1>2
  <2>1. Left(d)' <= Left(d)
    BY <1>1
  <2> QED BY <1>1, <2>1
<1>5. <<c, Left(c)>> \in p[3] /\ <<c, Left(c)>> \notin q[3]
  <2>1. Left(c) \in 1 .. Most /\ Left(c) <= Left(c) /\ ~(Left(c) <= Left(c)')
    BY <1>1
  <2> QED BY <1>2, <2>1
<1>6. Falls(p, q, Standing)
  BY <1>3, <1>4, <1>5 DEF Falls, Fewer
<1>7. Precedes(p, q)
  BY <1>3, <1>6 DEF Precedes
<1> QED BY <1>7 DEF p, q

(* A call lets go of a turn before the cursor, and takes none before it.     *)
LEMMA LetsGo ==
  ASSUME Types, Types', NEW c \in Clients, Apart(c), NEW l \in Nat,
         l < Standing, l < Standing', At(c, l), ~At(c, l)',
         \A y \in 0 .. l - 1 : ~At(c, y)'
  PROVE  Precedes(Position, Position')
<1>1. /\ Standing \in 0 .. Len(Script) /\ Standing' \in 0 .. Len(Script)
      /\ Len(Script) \in Nat
      /\ \A y \in Turns : /\ Callers(Position, y) = {d \in Clients : At(d, y)}
                          /\ Callers(Position', y) = {d \in Clients : At(d, y)'}
  BY CallersAre
<1>2. l \in Turns /\ \A y \in 0 .. l - 1 : y \in Turns /\ y # l
  BY <1>1 DEF Turns
<1>3. \A d \in Clients \ {c} : \A y : At(d, y)' <=> At(d, y)
  BY OthersStay
<1>4. Fewer(Callers(Position', l), Callers(Position, l))
  <2>1. \A d \in Clients : At(d, l)' => At(d, l)
    BY <1>3
  <2>2. {d \in Clients : At(d, l)'} \subseteq {d \in Clients : At(d, l)}
    BY <2>1
  <2>3. c \in {d \in Clients : At(d, l)} /\ c \notin {d \in Clients : At(d, l)'}
    OBVIOUS
  <2> QED BY <1>1, <1>2, <2>2, <2>3 DEF Fewer
<1>5. ASSUME NEW y \in 0 .. l - 1 PROVE Callers(Position, y) = Callers(Position', y)
  <2>1. ~At(c, y)
    BY <1>2 DEF At
  <2>2. \A d \in Clients : At(d, y)' <=> At(d, y)
    BY <1>3, <2>1
  <2>3. {d \in Clients : At(d, y)} = {d \in Clients : At(d, y)'}
    BY <2>2
  <2> QED BY <1>1, <1>2, <2>3
<1>6. Position[2] = Standing /\ Position'[2] = Standing'
  BY DEF Position
<1> DEFINE p == Position
           q == Position'
<1>7. /\ p[2] = Standing /\ q[2] = Standing' /\ Fewer(Callers(q, l), Callers(p, l))
      /\ \A y \in 0 .. l - 1 : Callers(p, y) = Callers(q, y)
  BY <1>4, <1>5, <1>6
<1> HIDE DEF p, q
<1>8. Falls(p, q, l) /\ l \in 0 .. Len(Script) /\ l <= p[2] /\ l <= q[2]
  BY <1>1, <1>7 DEF Falls
<1>9. Precedes(p, q)
  BY <1>7, <1>8 DEF Precedes
<1> QED BY <1>9 DEF p, q

(* The cursor goes on, and no call takes or leaves a turn before it.         *)
LEMMA GoesOn ==
  ASSUME Types, Types', Standing < Standing',
         \A y \in 0 .. Standing - 1 : \A d \in Clients : At(d, y)' <=> At(d, y)
  PROVE  Precedes(Position, Position')
<1>1. /\ Standing \in 0 .. Len(Script) /\ Standing' \in 0 .. Len(Script)
      /\ Len(Script) \in Nat
      /\ \A y \in Turns : /\ Callers(Position, y) = {d \in Clients : At(d, y)}
                          /\ Callers(Position', y) = {d \in Clients : At(d, y)'}
  BY CallersAre
<1>2. ASSUME NEW y \in 0 .. Standing - 1
      PROVE  Callers(Position, y) = Callers(Position', y)
  <2>1. y \in Turns
    BY <1>1 DEF Turns
  <2>2. {d \in Clients : At(d, y)} = {d \in Clients : At(d, y)'}
    OBVIOUS
  <2> QED BY <1>1, <2>1, <2>2
<1>3. Position[2] = Standing /\ Position'[2] = Standing'
  BY DEF Position
<1> DEFINE p == Position
           q == Position'
<1>4. /\ p[2] = Standing /\ q[2] = Standing'
      /\ \A y \in 0 .. Standing - 1 : Callers(p, y) = Callers(q, y)
  BY <1>2, <1>3
<1> HIDE DEF p, q
<1>5. Falls(p, q, Standing) /\ Standing <= p[2] /\ Standing <= q[2]
  BY <1>1, <1>4 DEF Falls
<1>6. Precedes(p, q)
  BY <1>1, <1>4, <1>5 DEF Precedes
<1> QED BY <1>6 DEF p, q

(* A step that leaves the cursor alone: what its request holds afterwards it *)
(* held before or finds at the cursor.                                       *)
LEMMA LeavesCursor ==
  ASSUME Types, Types', Seeding, Seeding', NEW c \in Clients, Apart(c), cursor' = cursor,
         Left(c)' < Left(c),
         pc'[c] \in Turning => \/ loaded'[c] = cursor
                               \/ pc[c] \in Turning /\ loaded'[c] = loaded[c]
  PROVE  Precedes(Position, Position')
<1>1. /\ cursor \in Nat /\ Len(Script) \in Nat /\ Standing' = Standing
      /\ Standing \in Nat /\ Standing <= cursor /\ loaded[c] \in Nat
      /\ \A y \in Turns : /\ Callers(Position, y) = {d \in Clients : At(d, y)}
                          /\ Callers(Position', y) = {d \in Clients : At(d, y)'}
  <2>1. Standing' = Standing
    BY DEF Standing
  <2>2. cursor \in Nat /\ Len(Script) \in Nat /\ loaded[c] \in Nat
    BY ScriptLength DEF Types
  <2> QED BY <2>1, <2>2, CallersAre DEF Standing
<1>2. \A y \in 0 .. Standing - 1 : At(c, y)' => At(c, y)
  BY <1>1 DEF At
<1>3. CASE \E l \in 0 .. Standing - 1 : At(c, l) /\ ~At(c, l)'
  <2>1. PICK l \in 0 .. Standing - 1 : At(c, l) /\ ~At(c, l)'
    BY <1>3
  <2>2. l \in Nat /\ l < Standing /\ l < Standing'
    BY <1>1
  <2>3. ASSUME NEW y \in 0 .. l - 1 PROVE ~At(c, y)'
    <3>1. y \in 0 .. Standing - 1 /\ y # l
      BY <1>1, <2>2
    <3> QED BY <1>2, <2>1, <3>1 DEF At
  <2> QED BY <2>1, <2>2, <2>3, LetsGo
<1>4. CASE ~\E l \in 0 .. Standing - 1 : At(c, l) /\ ~At(c, l)'
  <2>1. ASSUME NEW y \in 0 .. Standing - 1
        PROVE  Callers(Position, y) = Callers(Position', y)
    <3>1. \A d \in Clients : At(d, y)' <=> At(d, y)
      BY <1>2, <1>4, OthersStay
    <3>2. y \in Turns
      BY <1>1 DEF Turns, Standing
    <3>3. {d \in Clients : At(d, y)} = {d \in Clients : At(d, y)'}
      BY <3>1
    <3> QED BY <1>1, <3>2, <3>3
  <2>2. \A d \in Clients \ {c} : Left(d)' = Left(d)
    BY OthersStay
  <2> QED BY <1>1, <2>1, <2>2, HasFewer
<1> QED BY <1>3, <1>4

(* A step that stores the cursor, counted from the turn its request holds.   *)
LEMMA StoresCursor ==
  ASSUME Types, Types', Seeding, Seeding', NEW c \in Clients, Apart(c),
         pc[c] \in Turning, cursor' = loaded[c] + 1,
         pc'[c] \in Turning => loaded'[c] = loaded[c] + 1,
         cursor' >= Len(Script) => Left(c)' < Left(c)
  PROVE  Precedes(Position, Position')
<1>1. PICK l \in Nat : l = loaded[c]
  BY DEF Types
<1>2. /\ cursor \in Nat /\ cursor' = l + 1 /\ Len(Script) \in Nat
      /\ Standing \in Nat /\ Standing' \in Nat
      /\ At(c, l) /\ \A y : At(c, y) => y = l
      /\ \A y : At(c, y)' => y = l + 1
  <2>1. cursor \in Nat /\ Len(Script) \in Nat /\ cursor' \in Nat
    BY ScriptLength DEF Types
  <2> QED BY <1>1, <2>1 DEF At, Standing
<1>3. CASE l < Standing
  <2>1. l < Standing'
    BY <1>2, <1>3 DEF Standing
  <2>2. ~At(c, l)' /\ \A y \in 0 .. l - 1 : ~At(c, y)'
    BY <1>2
  <2> QED BY <1>2, <1>3, <2>1, <2>2, LetsGo
<1>4. ASSUME ~(l < Standing), NEW y \in 0 .. Standing - 1, NEW d \in Clients
      PROVE  At(d, y)' <=> At(d, y)
  <2>1. CASE d = c
    BY <1>2, <1>4, <2>1
  <2>2. CASE d # c
    BY <2>2, OthersStay
  <2> QED BY <2>1, <2>2
<1>5. CASE ~(l < Standing) /\ Standing < Len(Script)
  <2>1. Standing < Standing'
    BY <1>2, <1>5 DEF Standing
  <2> QED BY <1>4, <1>5, <2>1, GoesOn
<1>6. CASE ~(l < Standing) /\ ~(Standing < Len(Script))
  <2>1. /\ Standing' = Standing /\ cursor' >= Len(Script)
        /\ ~(cursor < Len(Script)) /\ ~(cursor' < Len(Script))
    BY <1>2, <1>6 DEF Standing
  <2>2. ASSUME NEW y \in 0 .. Standing - 1
        PROVE  Callers(Position, y) = Callers(Position', y)
    <3>1. y \in Turns
      BY <1>2 DEF Turns, Standing
    <3>2. {d \in Clients : At(d, y)} = {d \in Clients : At(d, y)'}
      BY <1>4, <1>6
    <3> QED BY <3>1, <3>2, CallersAre
  <2>3. \A d \in Clients \ {c} : Left(d)' = Left(d)
    BY <2>1, OthersStay
  <2> QED BY <2>1, <2>2, <2>3, HasFewer
<1> QED BY <1>3, <1>5, <1>6

(* Until the seeds are in, the cursor is where it was made.                  *)
Beginning ==
  /\ naiveLog = <<>> => cursor = 0
  /\ \A c \in Clients : pc[c] = "seed" => cursor = 0

(* It stays so until it is stored for the first time.                        *)
LEMMA BeginningNext == PInv /\ Beginning /\ [Next]_vars => Beginning'
<1> SUFFICES ASSUME PInv, Beginning, [Next]_vars PROVE Beginning'
  OBVIOUS
<1>1. IInv /\ IInv' /\ Types /\ Types' /\ Fresh /\ Fresh' /\ Alone /\ Alone' /\ PaneTypes
  BY PInvNext DEF PInv, IInv, Session
<1>2. CASE cursor' = cursor /\ (naiveLog' = <<>> => naiveLog = <<>>)
           /\ \A d \in Clients : pc'[d] = "seed" => pc[d] = "seed" \/ naiveLog = <<>>
  BY <1>2 DEF Beginning
<1>3. ASSUME NEW c \in Clients, Start(c) PROVE Beginning'
  <2>1. cursor' = cursor /\ naiveLog = <<>>
    BY <1>3 DEF Start, paneVars
  <2> QED BY <1>2, <2>1
<1>4. ASSUME NEW c \in Clients, Step(c), pc'[c] \in Serving \cup {"register"}
      PROVE  Beginning'
  <2>1. naiveLog' # <<>> /\ pc'[c] # "seed" /\ pc'[c] # "ready"
    BY <1>1, <1>4 DEF Fresh, Serving, Scanning
  <2>2. ASSUME NEW d \in Clients, pc'[d] = "seed" PROVE FALSE
    <3>1. d # c
      BY <2>1, <2>2
    <3>2. pc'[c] = "ready"
      BY <1>1, <2>2, <3>1 DEF Alone, Starting
    <3> QED BY <2>1, <3>2
  <2> QED BY <2>1, <2>2 DEF Beginning
<1>5. ASSUME NEW c \in Clients, Step(c), pc'[c] \notin Serving \cup {"register"}
      PROVE  Beginning'
  <2>1. cursor' = cursor
    BY <1>1, <1>5 DEF Step, SeedTurn, WaitForSeededNodes, Register, Scan, Index, Load, Advance,
       Ingest, Skip, Peek, Over, Run, Goto, NaiveRun, AcgcAsk, AcgcAnswer, AcgcFails, Join,
       Count, sessionVars, Types, Serving, Scanning
  <2>2. \A d \in Clients : pc'[d] = "seed" => pc[d] = "seed"
    <3>1. pc'[c] = "seed" => pc[c] = "seed"
      <4>1. CASE SeedTurn(c) \/ WaitForSeededNodes(c)
        BY <4>1 DEF SeedTurn, WaitForSeededNodes
      <4>2. CASE Register(c) \/ Join(c) \/ Count(c) \/ Ingest(c)
        BY <1>1, <4>2 DEF Register, Join, Count, Ingest, Return, Goto, Types
      <4>3. CASE Looks(c) \/ Stores(c)
        BY <1>1, <4>3, CursorSteps DEF Types, Serving, Scanning
      <4>4. CASE NaiveRun(c) \/ AcgcAsk(c) \/ AcgcAnswer(c) \/ AcgcFails(c)
        BY <4>4 DEF NaiveRun, AcgcAsk, AcgcAnswer, AcgcFails
      <4> QED BY <1>5, <4>1, <4>2, <4>3, <4>4 DEF Step, Looks, Stores
    <3> QED BY <1>1, <1>5, <3>1, StepsApart DEF Apart
  <2>3. naiveLog' = <<>> => naiveLog = <<>>
    <3>1. CASE SeedTurn(c)
      <4>1. naiveLog' = Append(naiveLog, Said(loaded[c] + 1)) /\ loaded[c] + 1 \in 1 .. Probe
        <5>1. loaded[c] \in Nat
          BY <1>1 DEF Types
        <5>2. loaded[c] + 1 <= SeedUntil /\ naiveLog' = Append(naiveLog, Said(loaded[c] + 1))
          BY <3>1 DEF SeedTurn
        <5> QED BY <5>1, <5>2, ProbeIsLast
      <4>2. Said(loaded[c] + 1) \in Lines
        BY <4>1, LinesOK
      <4> QED BY <1>1, <4>1, <4>2, LogTypes
    <3>2. CASE Ingest(c) \/ NaiveRun(c)
      <4>1. Said(msg[c]) \in Lines /\ Reply(msg[c]) \in Lines
        BY <1>1, LinesOK DEF Types
      <4> QED BY <1>1, <3>2, <4>1, LogTypes DEF Ingest, NaiveRun
    <3>3. CASE Looks(c) \/ Stores(c)
      BY <1>1, <3>3, CursorSteps DEF paneVars
    <3>4. CASE \/ WaitForSeededNodes(c) \/ Register(c) \/ AcgcAsk(c) \/ AcgcAnswer(c)
               \/ AcgcFails(c) \/ Join(c) \/ Count(c)
      BY <3>4 DEF WaitForSeededNodes, Register, AcgcAsk, AcgcAnswer, AcgcFails, Join, Count,
                  paneVars
    <3> QED BY <1>5, <3>1, <3>2, <3>3, <3>4 DEF Step, Looks, Stores
  <2> QED BY <1>2, <2>1, <2>2, <2>3
<1>6. ASSUME NEW c \in Clients, NextCall(c) \/ ProbeSession(c) \/ Reset(c) PROVE Beginning'
  <2>1. cursor' = cursor /\ naiveLog' = naiveLog
    BY <1>6 DEF NextCall, ProbeSession, Reset, sessionVars, paneVars
  <2>2. \A d \in Clients : pc'[d] = "seed" => pc[d] = "seed"
    BY <1>1, <1>6 DEF NextCall, ProbeSession, Run, Reset, Goto, Types, requestVars
  <2> QED BY <1>2, <2>1, <2>2
<1>7. CASE Process \/ UNCHANGED vars
  BY <1>2, <1>7 DEF Process, vars, sessionVars, paneVars, requestVars
<1> QED BY <1>3, <1>4, <1>5, <1>6, <1>7 DEF Next

(* A step of a request brings the requests nearer to their end.              *)
LEMMA StepNears ==
  ASSUME PInv, PInv', Beginning, NEW c \in Clients, Step(c)
  PROVE  Precedes(Position, Position')
<1>1. Types /\ Types' /\ Seeding /\ Seeding' /\ PanesOK /\ Alone /\ PaneTypes
  BY DEF PInv, IInv, Session
<1>2. Apart(c)
  BY <1>1, StepsApart
<1>3. /\ cursor \in Nat /\ Len(Script) \in Nat /\ SeedUntil \in Nat /\ SeedUntil > 0
      /\ SeedUntil <= Len(Script) /\ loaded[c] \in Nat
  BY <1>1, ScriptLength DEF Types
<1>4. CASE WaitForSeededNodes(c) /\ pc'[c] = "register"
  <2>1. cursor = 0 /\ cursor' = SeedUntil
    BY <1>1, <1>4 DEF WaitForSeededNodes, GiveUp, Return, Goto, Beginning, Types
  <2>2. Standing = 0 /\ Standing < Standing' /\ \A y \in 0 .. Standing - 1 : FALSE
    BY <1>3, <2>1 DEF Standing
  <2> QED BY <1>1, <2>2, GoesOn
<1>5. CASE Stores(c)
  <2>1. CASE Advance(c)
    <3>1. /\ pc[c] = "advance" /\ cursor' = loaded[c] + 1
          /\ loaded'[c] = loaded[c] + 1 /\ pc'[c] \in {"skip", "ingest"}
      BY <1>1, <2>1 DEF Advance, Holds, Goto, Types
    <3>2. cursor' >= Len(Script) => Left(c)' < Left(c)
      BY <1>3, <3>1 DEF Left
    <3> QED BY <1>1, <1>2, <3>1, <3>2, StoresCursor DEF Turning
  <2>2. CASE Over(c)
    <3>1. pc[c] = "over" /\ cursor' = loaded[c] + 1 /\ pc'[c] = "panes"
      BY <1>1, <2>2 DEF Over, Run, Goto, Types
    <3>2. Left(c)' < Left(c)
      BY <3>1 DEF Left
    <3> QED BY <1>1, <1>2, <3>1, <3>2, StoresCursor DEF Turning
  <2> QED BY <1>5, <2>1, <2>2 DEF Stores
<1>6. ASSUME cursor' = cursor, pc'[c] \notin Turning, Left(c)' < Left(c)
      PROVE  Precedes(Position, Position')
  BY <1>1, <1>2, <1>6, LeavesCursor
<1>7. CASE Scan(c)
  <2>1. /\ cursor' = cursor /\ pc[c] = "scan"
        /\ \/ cursor < Len(Script) /\ pc'[c] = "index" /\ loaded'[c] = cursor
           \/ cursor >= Len(Script) /\ pc'[c] = "ready"
    BY <1>1, <1>7 DEF Scan, Holds, Return, Goto, sessionVars, Types
  <2>2. Left(c)' < Left(c)
    BY <1>3, <2>1 DEF Left
  <2>3. pc'[c] \in Turning => loaded'[c] = cursor
    BY <2>1 DEF Turning
  <2> QED BY <1>1, <1>2, <2>1, <2>2, <2>3, LeavesCursor
<1>8. ASSUME cursor' = cursor, pc[c] \in Turning, Left(c)' < Left(c),
             pc'[c] \in Turning => loaded'[c] \in Loads(c)
      PROVE  Precedes(Position, Position')
  BY <1>1, <1>2, <1>8, LeavesCursor DEF Loads
<1>17. ASSUME NEW k \in Loads(c), Holds(c, k) PROVE loaded'[c] \in Loads(c)
  BY <1>1, <1>17 DEF Holds, Loads, Types
<1>18. CASE Index(c)
  <2>1. /\ cursor' = cursor /\ pc[c] = "index"
        /\ \/ pc'[c] = "load" /\ loaded'[c] \in Loads(c)
           \/ pc'[c] = "ready"
    BY <1>1, <1>17, <1>18 DEF Index, Return, Goto, sessionVars, Types
  <2>2. Left(c)' < Left(c)
    BY <2>1 DEF Left
  <2>3. pc[c] \in Turning /\ (pc'[c] \in Turning => loaded'[c] \in Loads(c))
    BY <2>1 DEF Turning
  <2> QED BY <1>8, <2>1, <2>2, <2>3
<1>19. CASE Load(c)
  <2>1. /\ cursor' = cursor /\ loaded'[c] \in Loads(c)
        /\ \/ pc[c] = "load" /\ pc'[c] = "advance"
           \/ pc[c] = "pass" /\ pc'[c] = "over"
    BY <1>1, <1>17, <1>19 DEF Load, Goto, sessionVars, Types
  <2>2. Left(c)' < Left(c)
    BY <2>1 DEF Left
  <2> QED BY <1>8, <2>1, <2>2 DEF Turning
<1>20. CASE Skip(c)
  <2>1. /\ cursor' = cursor /\ pc[c] = "skip"
        /\ \/ pc'[c] = "peek" /\ loaded'[c] \in Loads(c)
           \/ pc'[c] = "panes"
    BY <1>1, <1>17, <1>20 DEF Skip, Run, Goto, sessionVars, Types
  <2>2. Left(c)' < Left(c)
    BY <2>1 DEF Left
  <2>3. pc[c] \in Turning /\ (pc'[c] \in Turning => loaded'[c] \in Loads(c))
    BY <2>1 DEF Turning
  <2> QED BY <1>8, <2>1, <2>2, <2>3
<1>21. CASE Peek(c)
  <2>1. /\ cursor' = cursor /\ pc[c] = "peek"
        /\ \/ pc'[c] = "pass" /\ loaded'[c] \in Loads(c)
           \/ pc'[c] \in {"panes", "ready"}
    BY <1>1, <1>17, <1>21 DEF Peek, Run, Return, Goto, sessionVars, Types
  <2>2. Left(c)' < Left(c)
    BY <2>1 DEF Left
  <2>3. pc[c] \in Turning /\ (pc'[c] \in Turning => loaded'[c] \in Loads(c))
    BY <2>1 DEF Turning
  <2> QED BY <1>8, <2>1, <2>2, <2>3
<1>22. CASE Ingest(c)
  <2>1. cursor' = cursor /\ pc[c] = "ingest" /\ pc'[c] = "scan"
    BY <1>1, <1>22 DEF Ingest, Goto, sessionVars, Types
  <2>2. Left(c)' < Left(c)
    BY <1>3, <2>1 DEF Left
  <2> QED BY <1>6, <2>1, <2>2 DEF Turning
<1>9. CASE SeedTurn(c)
  <2>1. cursor' = cursor /\ pc[c] = "seed" /\ loaded[c] + 1 <= SeedUntil
    BY <1>9 DEF SeedTurn
  <2>2. \/ pc'[c] = "seed" /\ loaded'[c] = loaded[c] + 1
        \/ pc'[c] = "ready"
    <3>1. pc = [d \in Clients |-> pc[d]] /\ loaded = [d \in Clients |-> loaded[d]]
      BY <1>1 DEF Types
    <3>2. CASE UNCHANGED pc /\ loaded' = [loaded EXCEPT ![c] = loaded[c] + 1]
      BY <2>1, <3>1, <3>2
    <3>3. CASE GiveUp(c)
      BY <3>1, <3>3 DEF GiveUp, Return, Goto
    <3>4. GiveUp(c) \/ (UNCHANGED pc /\ loaded' = [loaded EXCEPT ![c] = loaded[c] + 1])
      BY <1>9, Zenon DEF SeedTurn
    <3> QED BY <3>2, <3>3, <3>4
  <2>3. Left(c) = 2 + (SeedUntil - loaded[c])
    BY <2>1 DEF Left
  <2>4. pc'[c] # "ready" => Left(c)' = 2 + (SeedUntil - (loaded[c] + 1))
    BY <2>2 DEF Left
  <2>5. pc'[c] = "ready" => Left(c)' = 0
    BY DEF Left
  <2>6. Left(c)' < Left(c)
    BY <1>3, <2>1, <2>3, <2>4, <2>5
  <2> QED BY <1>6, <2>1, <2>2, <2>6 DEF Turning
<1>10. CASE WaitForSeededNodes(c) /\ pc'[c] # "register"
  <2>1. pc[c] = "seed" /\ loaded[c] = SeedUntil /\ cursor' = cursor /\ pc'[c] = "ready"
    BY <1>1, <1>10 DEF WaitForSeededNodes, GiveUp, Return, Goto, Types
  <2>2. Left(c)' < Left(c)
    BY <1>3, <2>1 DEF Left
  <2> QED BY <1>6, <2>1, <2>2 DEF Turning
<1>11. CASE Register(c)
  <2>1. pc[c] = "register" /\ cursor' = cursor /\ pc'[c] = "ready"
    BY <1>1, <1>11 DEF Register, Return, Goto, Types
  <2>2. Left(c)' < Left(c)
    BY <2>1 DEF Left
  <2> QED BY <1>6, <2>1, <2>2 DEF Turning
<1>12. CASE NaiveRun(c)
  <2>1. /\ pc[c] = "panes" /\ cursor' = cursor /\ pc'[c] = "panes"
        /\ naive[c] = "ask" /\ naive'[c] = "done" /\ acgc'[c] = acgc[c]
    BY <1>1, <1>12 DEF NaiveRun, sessionVars, PaneTypes
  <2>2. Left(c)' < Left(c)
    BY <2>1 DEF Left
  <2> QED BY <1>6, <2>1, <2>2 DEF Turning
<1>13. CASE AcgcAsk(c)
  <2>1. /\ pc[c] = "panes" /\ cursor' = cursor /\ pc'[c] = "panes"
        /\ acgc[c] = "ask" /\ acgc'[c] \in {"llm", "done"} /\ naive'[c] = naive[c]
    BY <1>1, <1>13 DEF AcgcAsk, sessionVars, Types
  <2>2. Left(c)' < Left(c)
    BY <2>1 DEF Left
  <2> QED BY <1>6, <2>1, <2>2 DEF Turning
<1>14. CASE AcgcAnswer(c) \/ AcgcFails(c)
  <2>1. /\ cursor' = cursor /\ pc' = pc
        /\ acgc[c] = "llm" /\ acgc'[c] = "done" /\ naive'[c] = naive[c]
    BY <1>1, <1>14 DEF AcgcAnswer, AcgcFails, sessionVars, Types
  <2>2. pc[c] = "panes"
    BY <1>1, <2>1 DEF PanesOK
  <2>3. Left(c)' < Left(c)
    BY <2>1, <2>2 DEF Left
  <2> QED BY <1>6, <2>1, <2>2, <2>3 DEF Turning
<1>15. CASE Join(c)
  <2>1. /\ pc[c] = "panes" /\ cursor' = cursor /\ pc'[c] \in {"ready", "count"}
    BY <1>1, <1>15 DEF Join, Return, Goto, sessionVars, Types
  <2>2. Left(c)' < Left(c)
    BY <2>1 DEF Left
  <2> QED BY <1>6, <2>1, <2>2 DEF Turning
<1>16. CASE Count(c)
  <2>1. pc[c] = "count" /\ cursor' = cursor /\ pc'[c] = "ready"
    BY <1>1, <1>16 DEF Count, Return, Goto, Types
  <2>2. Left(c)' < Left(c)
    BY <2>1 DEF Left
  <2> QED BY <1>6, <2>1, <2>2 DEF Turning
<1> QED BY <1>4, <1>5, <1>7, <1>9, <1>10, <1>11, <1>12, <1>13, <1>14, <1>15, <1>16, <1>18,
           <1>19, <1>20, <1>21, <1>22 DEF Step, Stores

(* A state is in a position,                                                 *)
LEMMA PositionType == ASSUME Types PROVE Position \in Positions
<1>1. cursor \in Nat /\ Len(Script) \in Nat
  BY ScriptLength DEF Types
<1>2. Standing \in 0 .. Len(Script)
  BY <1>1 DEF Standing
<1>3. Calling \in SUBSET (Clients \X Turns) /\ ToDo \in SUBSET (Clients \X (1 .. Most))
  BY DEF Calling, ToDo
<1> QED BY <1>2, <1>3 DEF Position, Positions

(* and so is the state after it.                                             *)
LEMMA NextPositionType == ASSUME Types' PROVE Position' \in Positions
<1>1. cursor' \in Nat /\ Len(Script) \in Nat
  BY ScriptLength DEF Types
<1>2. Standing' \in 0 .. Len(Script)
  BY <1>1 DEF Standing
<1>3. Calling' \in SUBSET (Clients \X Turns) /\ ToDo' \in SUBSET (Clients \X (1 .. Most))
  BY DEF Calling, ToDo
<1> QED BY <1>2, <1>3 DEF Position, Positions

(* The steps the requests under way can still take.                          *)
StepsLeft == Cardinality({p \in Positions : Precedes(Position, p)})

(* However the requests of a session overlap, and take the cursor back under *)
(* each other (engine.go, nextUserMessage), each step of one leaves them all *)
(* fewer steps to take, and the sidecar's worker leaves them as many: no two *)
(* can keep each other going, and only a new request makes it more.          *)
THEOREM EveryStepNearsTheAnswer ==
  ASSUME IsFiniteSet(Clients)
  PROVE  Spec => [][/\ (\E c \in Clients : Step(c)) => StepsLeft \in Nat /\ StepsLeft' < StepsLeft
                    /\ Process => StepsLeft' = StepsLeft]_vars
<1> DEFINE Nearer == /\ (\E c \in Clients : Step(c))
                          => StepsLeft \in Nat /\ StepsLeft' < StepsLeft
                     /\ Process => StepsLeft' = StepsLeft
<1>1. ASSUME PInv, PInv', Beginning, NEW c \in Clients, Step(c)
      PROVE  StepsLeft \in Nat /\ StepsLeft' < StepsLeft
  <2> DEFINE s == Position
             t == Position'
             S == {p \in Positions : Precedes(s, p)}
             T == {p \in Positions : Precedes(t, p)}
  <2>1. s \in Positions /\ t \in Positions
    BY <1>1, PositionType, NextPositionType DEF PInv, IInv
  <2>2. Precedes(s, t)
    BY <1>1, StepNears
  <2> HIDE DEF s, t
  <2>3. T \subseteq S /\ t \in S /\ t \notin T
    <3>1. s[2] \in Nat /\ t[2] \in Nat /\ \A p \in Positions : p[2] \in Nat
      BY <2>1, ScriptLength DEF Positions
    <3> QED BY <2>1, <2>2, <3>1, PrecedesOn, PrecedesNot
  <2>4. IsFiniteSet(S)
    BY PositionsAreFinite, FS_Subset
  <2>5. StepsLeft = Cardinality(S) /\ StepsLeft' = Cardinality(T)
    BY DEF StepsLeft, s, t
  <2> HIDE DEF S, T
  <2>6. /\ Cardinality(S) \in Nat /\ Cardinality(T) \in Nat
        /\ Cardinality(T) <= Cardinality(S) /\ Cardinality(T) # Cardinality(S)
    BY <2>3, <2>4, FS_Subset, FS_CardinalityType
  <2> QED BY <2>5, <2>6
<1>2. ASSUME Process PROVE StepsLeft' = StepsLeft
  <2>1. UNCHANGED <<pc, loaded, cursor, naive, acgc>>
    BY <1>2 DEF Process, sessionVars, requestVars
  <2>2. \A c : Left(c)' = Left(c) /\ \A x : At(c, x)' = At(c, x)
    BY <2>1 DEF Left, At
  <2>3. Calling' = Calling /\ Standing' = Standing /\ ToDo' = ToDo
    BY <2>1, <2>2 DEF Calling, Standing, ToDo
  <2> QED BY <2>3 DEF StepsLeft, Position
<1>3. Init => Beginning
  BY DEF Init, Beginning
<1>4. PInv /\ PInv' /\ Beginning /\ [Next]_vars => [Nearer]_vars
  BY <1>1, <1>2
<1> QED BY <1>3, <1>4, BeginningNext, SpecPInv, PTL DEF Spec

=============================================================================
