---------------------------- MODULE ContextReplayProofs ----------------------------
(* Proofs about ContextReplay for every script, every set of weights and     *)
(* limits the assumptions allow and every way the embedding service fails.   *)
EXTENDS ContextReplay, FiniteSetTheorems, TLAPS

RunFields == {"tree", "anchor", "embedded", "active", "archive", "score",
              "gcRuns", "freed", "prompt", "compiled"}
TreeFields == {"turn", "root", "compressed", "node"}
NodeFields == {"type", "status", "parent", "keep", "tokens"}

(* A tree holds the turns of a conversation: the user's as goals and         *)
(* constraints.                                                              *)
TreeOK(t, c) ==
  /\ DOMAIN t = TreeFields
  /\ t.turn \in Nat /\ t.turn <= Len(c) /\ DOMAIN t.node = 0 .. t.turn
  /\ \A n \in 1 .. t.turn :
       /\ DOMAIN t.node[n] = NodeFields
       /\ t.node[n].tokens = c[n].tokens
       /\ c[n].role = "user" => t.node[n].type \in {"goal", "constraint"}

RunOK(r, c) ==
  /\ DOMAIN r = RunFields
  /\ TreeOK(r.tree, c)
  /\ r.anchor \in Topics \cup {NoTopic}

(* Every program has read every turn, except the benchmark that stopped.     *)
IInv ==
  /\ turns \in Seq(Turns)
  /\ DOMAIN run = Drivers
  /\ \A d \in Drivers :
       /\ RunOK(run[d], turns)
       /\ \/ run[d].tree.turn = Len(turns)
          \/ d = "incremental" /\ Len(turns) > Max(Ends)

(* The user's turns RecentTurnsStay is about. *)
Recent(c, n) ==
  /\ n \in 1 .. Len(c) /\ c[n].role = "user" /\ ~c[n].filler
  /\ c[n].tokens <= MaxTokensPerNode /\ Len(c) - n <= 8

-----------------------------------------------------------------------------
(* Scores *)

LEMMA TurnRecord ==
  ASSUME NEW t \in Turns
  PROVE  /\ t.role \in {"user", "assistant"} /\ t.tokens \in Nat
         /\ t.filler \in BOOLEAN /\ t.topic \in Topics
<1>1. t \in TurnRecords
  BY ScriptAssumption DEF Turns
<1> QED BY <1>1 DEF TurnRecords, Topics

(* An ordinary turn of the user is worth its keep for eight turns: its type  *)
(* and its recency alone reach the threshold, and nothing is taken off.      *)
LEMMA RecentIsWorthIt ==
  ASSUME NEW type \in {"goal", "constraint"}, NEW distance \in 0 .. 8,
         NEW tokens \in Nat, tokens <= MaxTokensPerNode, NEW similarity \in 0 .. One
  PROVE  ~Sweepable(type, RetentionScore(type, distance, 1, tokens, similarity))
<1>1. Redundancy(1) = 0
  BY DEF Redundancy, AtMost, One
<1>2. StalePenalty(distance) = 0
  BY ScorerAssumption DEF StalePenalty
<1>3. SizePenalty(tokens) = 0
  BY DEF SizePenalty
<1>4. Recency[distance] \in 440 .. 1000
  BY RecencyAssumption DEF One
<1>5. TypePriority(type) \in 950 .. 1000
  BY DEF TypePriority
<1>6. SemanticWeight * similarity \in Nat
  BY ScorerAssumption DEF One
<1>7. PICK recency \in 440 .. 1000 : recency = Recency[distance]
  BY <1>4
<1>8. PICK priority \in 950 .. 1000 : priority = TypePriority(type)
  BY <1>5
<1>9. PICK gain \in Nat : gain = SemanticWeight * similarity
  BY <1>6
<1>10. RetentionScore(type, distance, 1, tokens, similarity) =
        Clamp(25 * recency + 20 * priority + gain)
  BY <1>1, <1>2, <1>3, <1>7, <1>8, <1>9 DEF RetentionScore
<1>11. ASSUME NEW x \in Int, x >= 30000
      PROVE  Clamp(x) \in Int /\ Clamp(x) >= 30000
  BY <1>11 DEF Clamp, AtMost, Points, One
<1>12. 25 * recency + 20 * priority + gain \in Int
       /\ 25 * recency + 20 * priority + gain >= 30000
  OBVIOUS
<1>13. /\ RetentionScore(type, distance, 1, tokens, similarity) \in Int
       /\ RetentionScore(type, distance, 1, tokens, similarity) >= 30000
  BY <1>10, <1>11, <1>12
<1> QED BY <1>13, FloorAssumption DEF Sweepable, Points, One

(* No node has the title of a turn that is not a filler, except its own. *)
LEMMA OneCopy ==
  ASSUME NEW r, NEW c, NEW n \in ActiveNodes(r), ~c[n].filler
  PROVE  Copies(r, c, n) = 1
<1>1. {m \in ActiveNodes(r) : SameTitle(c, m, n)} = {n}
  BY DEF SameTitle
<1>2. Cardinality({n}) = 1
  BY FS_Singleton
<1> QED BY <1>1, <1>2 DEF Copies

(* So the collector does not sweep it. *)
LEMMA RecentNotSwept ==
  ASSUME NEW c \in Seq(Turns), NEW r, RunOK(r, c), r.tree.turn = Len(c),
         NEW n, Recent(c, n)
  PROVE  n \notin Swept(r, Scores(r, c))
<1> SUFFICES ASSUME n \in ActiveNodes(r)
             PROVE  ~Sweepable(r.tree.node[n].type, Scores(r, c)[n])
  BY DEF Swept, ActiveNodes, Eval!Candidates
<1> DEFINE similarity == IF r.anchor = NoTopic \/ n \notin r.embedded THEN 0
                         ELSE Similarity[r.anchor, c[n].topic]
<1>1. c[n] \in Turns /\ n \in 1 .. r.tree.turn
  <2>1. n \in 1 .. Len(c)
    BY DEF Recent
  <2>2. c[n] \in Turns
    BY <2>1
  <2>3. n \in 1 .. r.tree.turn
    BY <2>1
  <2> QED BY <2>2, <2>3
<1>2. similarity \in 0 .. One
  <2>1. c[n].topic \in Topics
    BY <1>1, TurnRecord
  <2>2. r.anchor # NoTopic => r.anchor \in Topics
    BY DEF RunOK
  <2>3. 0 \in 0 .. One
    BY DEF One
  <2>4. \A a, b \in Topics : Similarity[a, b] \in 0 .. One
    BY SimilarityAssumption
  <2> QED BY <2>1, <2>2, <2>3, <2>4
<1>3. /\ r.tree.node[n].type \in {"goal", "constraint"}
      /\ r.tree.node[n].tokens = c[n].tokens /\ c[n].tokens \in Nat
      /\ r.tree.turn - n \in 0 .. 8
  BY <1>1, TurnRecord DEF Recent, RunOK, TreeOK
<1>4. Copies(r, c, n) = 1
  BY OneCopy DEF Recent
<1> HIDE DEF similarity
<1>5. Scores(r, c)[n] = RetentionScore(r.tree.node[n].type, r.tree.turn - n, 1,
                                       r.tree.node[n].tokens, similarity)
  BY <1>4 DEF Scores, similarity
<1> QED BY <1>2, <1>3, <1>5, RecentIsWorthIt DEF Recent

-----------------------------------------------------------------------------
(* Steps of the loop *)

LEMMA Longer ==
  ASSUME NEW c \in Seq(Turns), NEW t \in Turns
  PROVE  /\ Append(c, t) \in Seq(Turns) /\ Append(c, t) # <<>>
         /\ Len(Append(c, t)) = Len(c) + 1
<1>1. /\ Append(c, t) \in Seq(Turns) /\ Len(Append(c, t)) = Len(c) + 1
      /\ Len(c) \in Nat /\ Len(<<>>) = 0
  OBVIOUS
<1>2. Len(Append(c, t)) # 0
  BY <1>1
<1> QED BY <1>1, <1>2, Zenon

(* AddNode files the turn that was read and leaves the others alone. *)
LEMMA AddedOK ==
  ASSUME NEW c \in Seq(Turns), NEW t \in Turns, NEW r, RunOK(r, c),
         r.tree.turn = Len(c)
  PROVE  LET d == Append(c, t)
             a == Added(r, d)
         IN /\ RunOK(a, d) /\ a.tree.turn = Len(d)
            /\ \A n \in 0 .. Len(c) : a.tree.node[n] = r.tree.node[n]
            /\ a.tree.node[Len(d)].status = "active"
            /\ a.anchor = r.anchor
<1> DEFINE d == Append(c, t)
           e == EventOf(t)
           a == Added(r, d)
           u == Eval!AddNode(r.tree, e)
           node == [type |-> Eval!ClassifyEvent(e), status |-> "active",
                    parent |-> Eval!FindBestParent(r.tree, Eval!ClassifyEvent(e)),
                    keep |-> Eval!HasFactsOrDecisions(e), tokens |-> e.tokens]
<1>1. /\ Len(d) = Len(c) + 1 /\ Len(c) \in Nat /\ d[Len(d)] = t
      /\ \A n \in 1 .. Len(c) : d[n] = c[n]
  OBVIOUS
<1>2. DOMAIN r = RunFields /\ DOMAIN r.tree = TreeFields /\ r.tree.turn = Len(c)
      /\ DOMAIN r.tree.node = 0 .. Len(c)
  BY DEF RunOK, TreeOK
<1>3. a = [r EXCEPT !.tree = u, !.compiled = "no"]
  BY <1>1 DEF Added
<1>4. /\ DOMAIN a = RunFields /\ a.tree = u /\ a.anchor = r.anchor
  BY <1>2, <1>3 DEF RunFields
<1>5. u = [r.tree EXCEPT !.turn = Len(c) + 1,
                         !.node = [n \in 0 .. Len(c) + 1 |->
                                     IF n = Len(c) + 1 THEN node ELSE r.tree.node[n]]]
  BY <1>2 DEF Eval!AddNode
<1> HIDE DEF node, u, a
<1>6. /\ DOMAIN u = TreeFields /\ u.turn = Len(c) + 1
      /\ u.node = [n \in 0 .. Len(c) + 1 |->
                     IF n = Len(c) + 1 THEN node ELSE r.tree.node[n]]
  BY <1>2, <1>5 DEF TreeFields
<1>7. /\ DOMAIN u.node = 0 .. Len(c) + 1 /\ u.node[Len(c) + 1] = node
      /\ \A n \in 0 .. Len(c) : u.node[n] = r.tree.node[n]
  BY <1>1, <1>6
<1>8. /\ DOMAIN node = NodeFields /\ node.status = "active" /\ node.tokens = t.tokens
      /\ t.role = "user" => node.type \in {"goal", "constraint"}
  <2>1. /\ DOMAIN node = NodeFields /\ node.status = "active"
        /\ node.tokens = e.tokens /\ node.type = Eval!ClassifyEvent(e)
    BY DEF node, NodeFields
  <2>2. e.tokens = t.tokens /\ (t.role = "user" => e.type = "user_prompt")
    BY DEF EventOf
  <2>3. e.type = "user_prompt" => Eval!ClassifyEvent(e) \in {"goal", "constraint"}
    BY DEF Eval!ClassifyEvent
  <2> QED BY <2>1, <2>2, <2>3
<1>9. TreeOK(u, d)
  <2>1. ASSUME NEW n \in 1 .. Len(c) + 1
        PROVE  /\ DOMAIN u.node[n] = NodeFields
               /\ u.node[n].tokens = d[n].tokens
               /\ d[n].role = "user" => u.node[n].type \in {"goal", "constraint"}
    <3>1. CASE n = Len(c) + 1
      BY <1>1, <1>7, <1>8, <3>1
    <3>2. CASE n \in 1 .. Len(c)
      BY <1>1, <1>2, <1>7, <3>2 DEF RunOK, TreeOK
    <3> QED BY <1>1, <3>1, <3>2
  <2>2. u.turn \in Nat /\ u.turn <= Len(d) /\ DOMAIN u.node = 0 .. u.turn
        /\ 1 .. u.turn = 1 .. Len(c) + 1
    BY <1>1, <1>6, <1>7
  <2> QED BY <1>6, <2>1, <2>2 DEF TreeOK
<1>10. RunOK(a, d)
  BY <1>4, <1>9 DEF RunOK
<1>11. a.tree.turn = Len(d) /\ a.tree.node[Len(d)].status = "active"
       /\ \A n \in 0 .. Len(c) : a.tree.node[n] = r.tree.node[n]
  BY <1>1, <1>4, <1>6, <1>7, <1>8
<1> QED BY <1>4, <1>10, <1>11 DEF a

(* An embedding changes the indexes and the anchor. *)
LEMMA EmbeddedOK ==
  ASSUME NEW c \in Seq(Turns), c # <<>>, NEW r, RunOK(r, c)
  PROVE  RunOK(Embedded(r, c), c) /\ Embedded(r, c).tree = r.tree
<1>1. c[Len(c)] \in Turns
  OBVIOUS
<1>2. c[Len(c)].topic \in Topics
  BY <1>1, TurnRecord
<1>3. DOMAIN Embedded(r, c) = RunFields /\ Embedded(r, c).tree = r.tree
      /\ Embedded(r, c).anchor \in {r.anchor, c[Len(c)].topic}
  BY DEF RunOK, RunFields, Embedded
<1> QED BY <1>2, <1>3 DEF RunOK

(* A collection archives nodes; a recent turn of the user is not one of them. *)
LEMMA CollectedOK ==
  ASSUME NEW c \in Seq(Turns), NEW r, RunOK(r, c), r.tree.turn = Len(c)
  PROVE  LET a == Collected(r, Swept(r, Scores(r, c)))
         IN /\ RunOK(a, c) /\ a.tree.turn = Len(c)
            /\ \A n : Recent(c, n) => a.tree.node[n] = r.tree.node[n]
<1> DEFINE swept == Swept(r, Scores(r, c))
           t == r.tree
           done == Eval!ToCompact(t, swept)
           branch(p) == Eval!FilterCompressible(t, Eval!Branch(t, p))
           S == swept \cup UNION {branch(p) : p \in done}
           v == Eval!Archive(t, S)
           u == Eval!Run(t, swept, done)
           a == Collected(r, swept)
<1>1. DOMAIN r = RunFields /\ DOMAIN t = TreeFields /\ DOMAIN t.node = 0 .. Len(c)
      /\ Len(c) \in Nat
  BY DEF RunOK, TreeOK
<1>2. a = [r EXCEPT !.tree = u, !.gcRuns = @ + 1,
                    !.freed = @ + Eval!TokensFreed(t, swept, done)]
  BY DEF Collected
<1>3. u = [v EXCEPT !.compressed =
             @ \cup {[parent |-> p, nodes |-> branch(p)] : p \in done}]
  BY DEF Eval!Run
<1>4. v = [t EXCEPT !.node =
             [n \in 0 .. Len(c) |->
                IF n \in S THEN [t.node[n] EXCEPT !.status = "archived"]
                ELSE t.node[n]]]
  BY DEF Eval!Archive, Eval!Nodes
<1>5. \A n : Recent(c, n) => n \notin S
  <2> SUFFICES ASSUME NEW n, Recent(c, n) PROVE n \notin S
    OBVIOUS
  <2>1. n \notin swept
    BY RecentNotSwept
  <2>2. t.node[n].type \in {"goal", "constraint"}
    <3>1. n \in 1 .. t.turn /\ c[n].role = "user"
      BY DEF Recent
    <3> QED BY <3>1 DEF RunOK, TreeOK
  <2>3. \A p : n \notin branch(p)
    BY <2>2 DEF Eval!FilterCompressible, Eval!Anchored
  <2> QED BY <2>1, <2>3
<1> HIDE DEF S, swept, done, u, v, a
<1>6. DOMAIN a = RunFields /\ a.tree = u /\ a.anchor = r.anchor
  BY <1>1, <1>2 DEF RunFields
<1>7. /\ DOMAIN v = TreeFields /\ v.turn = Len(c)
      /\ v.node = [n \in 0 .. Len(c) |->
                     IF n \in S THEN [t.node[n] EXCEPT !.status = "archived"]
                     ELSE t.node[n]]
  BY <1>1, <1>4 DEF TreeFields
<1>8. DOMAIN u = TreeFields /\ u.turn = v.turn /\ u.node = v.node
  BY <1>3, <1>7 DEF TreeFields
<1>9. DOMAIN u.node = 0 .. Len(c)
      /\ \A n \in 0 .. Len(c) :
           u.node[n] = IF n \in S THEN [t.node[n] EXCEPT !.status = "archived"]
                       ELSE t.node[n]
  BY <1>7, <1>8
<1>10. TreeOK(u, c)
  <2>1. ASSUME NEW n \in 1 .. Len(c)
        PROVE  /\ DOMAIN u.node[n] = NodeFields
               /\ u.node[n].tokens = c[n].tokens
               /\ c[n].role = "user" => u.node[n].type \in {"goal", "constraint"}
    <3>1. /\ DOMAIN t.node[n] = NodeFields
          /\ t.node[n].tokens = c[n].tokens
          /\ c[n].role = "user" => t.node[n].type \in {"goal", "constraint"}
      BY DEF RunOK, TreeOK
    <3>2. n \in 0 .. Len(c)
      BY <1>1
    <3>3. /\ DOMAIN u.node[n] = DOMAIN t.node[n]
          /\ u.node[n].tokens = t.node[n].tokens /\ u.node[n].type = t.node[n].type
      BY <1>9, <3>1, <3>2 DEF NodeFields
    <3> QED BY <3>1, <3>3
  <2>2. u.turn = Len(c)
    BY <1>7, <1>8
  <2> QED BY <1>1, <1>8, <1>9, <2>1, <2>2 DEF TreeOK
<1>11. RunOK(a, c)
  BY <1>6, <1>10 DEF RunOK
<1>12. \A n : Recent(c, n) => a.tree.node[n] = t.node[n]
  <2> SUFFICES ASSUME NEW n, Recent(c, n) PROVE a.tree.node[n] = t.node[n]
    OBVIOUS
  <2>1. n \in 0 .. Len(c) /\ n \notin S
    BY <1>1, <1>5 DEF Recent
  <2> QED BY <1>6, <1>9, <2>1
<1> QED BY <1>6, <1>7, <1>8, <1>11, <1>12 DEF a, swept

(* What a program makes of a turn, on its way to the next one. *)
Follows(a, r, c) ==
  /\ RunOK(a, c) /\ a.tree.turn = Len(c)
  /\ \A n : Recent(c, n) /\ n \in ArchivedNodes(a) => n \in ArchivedNodes(r)

(* The scores are kept beside all that. *)
LEMMA Scored ==
  ASSUME NEW x, DOMAIN x = RunFields, NEW score
  PROVE  LET y == [x EXCEPT !.score = score]
         IN /\ DOMAIN y = RunFields /\ y.tree = x.tree /\ y.anchor = x.anchor
            /\ y.embedded = x.embedded /\ y.active = x.active
            /\ y.archive = x.archive /\ y.gcRuns = x.gcRuns /\ y.freed = x.freed
            /\ y.prompt = x.prompt /\ y.compiled = x.compiled
BY DEF RunFields

LEMMA ScoreThenCollectOK ==
  ASSUME NEW c \in Seq(Turns), NEW r, RunOK(r, c), r.tree.turn = Len(c), NEW d
  PROVE  LET a == ScoreThenCollect(d, r, c)
         IN /\ RunOK(a, c) /\ a.tree.turn = Len(c)
            /\ \A n : Recent(c, n) => a.tree.node[n] = r.tree.node[n]
<1> DEFINE OK(x) == /\ RunOK(x, c) /\ x.tree.turn = Len(c)
                    /\ \A n : Recent(c, n) => x.tree.node[n] = r.tree.node[n]
<1>1. PICK x \in {r, Collected(r, Swept(r, Scores(r, c)))} :
        ScoreThenCollect(d, r, c) = [x EXCEPT !.score = Scores(r, c)]
  BY DEF ScoreThenCollect
<1>2. OK(x)
  BY CollectedOK
<1> DEFINE y == [x EXCEPT !.score = Scores(r, c)]
<1>3. DOMAIN y = RunFields /\ y.tree = x.tree /\ y.anchor = x.anchor
  <2>1. DOMAIN x = RunFields
    BY <1>2 DEF RunOK
  <2> QED BY <2>1, Scored
<1> HIDE DEF y
<1>4. OK(y)
  BY <1>2, <1>3 DEF RunOK
<1> QED BY <1>1, <1>4 DEF y

(* A turn that is added and a collection, whatever happens to the indexes. *)
LEMMA FollowsFrom ==
  ASSUME NEW c \in Seq(Turns), NEW t \in Turns, NEW r, RunOK(r, c), r.tree.turn = Len(c),
         NEW m, m.tree = Added(r, Append(c, t)).tree,
         NEW a, RunOK(a, Append(c, t)), a.tree.turn = Len(c) + 1,
         \A n : Recent(Append(c, t), n) => a.tree.node[n] = m.tree.node[n]
  PROVE  Follows(a, r, Append(c, t))
<1> DEFINE u == Added(r, Append(c, t)).tree
<1>1. /\ Len(Append(c, t)) = Len(c) + 1 /\ Len(c) \in Nat
  OBVIOUS
<1>2. /\ \A n \in 0 .. Len(c) : u.node[n] = r.tree.node[n]
      /\ u.node[Len(c) + 1].status = "active"
  BY <1>1, AddedOK
<1>3. ASSUME NEW n, Recent(Append(c, t), n), n \in ArchivedNodes(a)
      PROVE  n \in ArchivedNodes(r)
  <2>1. n \in 1 .. Len(c) + 1 /\ a.tree.node[n].status = "archived"
    BY <1>1, <1>3 DEF Recent, ArchivedNodes, Eval!Archived
  <2>2. u.node[n].status = "archived"
    BY <1>3, <2>1
  <2>3. n \in 0 .. Len(c)
    BY <1>1, <1>2, <2>1, <2>2
  <2>4. r.tree.node[n].status = "archived"
    BY <1>2, <2>2, <2>3
  <2> QED BY <2>3, <2>4 DEF ArchivedNodes, Eval!Archived, Eval!Nodes
<1> QED BY <1>1, <1>3 DEF Follows

(* The loop of BuildPrompt, ReplaySession and runIncrementalBench. *)
LEMMA IngestedOK ==
  ASSUME NEW c \in Seq(Turns), NEW t \in Turns, NEW r, RunOK(r, c), r.tree.turn = Len(c),
         NEW d, NEW embeds
  PROVE  Follows(Ingested(d, r, Append(c, t), embeds), r, Append(c, t))
<1> DEFINE q == Append(c, t)
           added == Added(r, q)
           node == IF embeds THEN Embedded(added, q) ELSE added
           done == ScoreThenCollect(d, node, q)
           a == Reconciled(node, done)
<1>1. q \in Seq(Turns) /\ q # <<>> /\ Len(q) = Len(c) + 1
  BY Longer
<1>2. RunOK(added, q) /\ added.tree.turn = Len(q)
  BY AddedOK
<1> HIDE DEF added, q
<1>3. RunOK(node, q) /\ node.tree = added.tree
  BY <1>1, <1>2, EmbeddedOK
<1> HIDE DEF node
<1>4. RunOK(done, q) /\ done.tree.turn = Len(q)
      /\ \A n : Recent(q, n) => done.tree.node[n] = node.tree.node[n]
  BY <1>1, <1>2, <1>3, ScoreThenCollectOK
<1> HIDE DEF done
<1>5. RunOK(a, q) /\ a.tree = done.tree
  <2>1. DOMAIN done = RunFields
    BY <1>4 DEF RunOK
  <2>2. DOMAIN a = RunFields /\ a.tree = done.tree /\ a.anchor = done.anchor
    BY <2>1 DEF Reconciled, RunFields
  <2> QED BY <1>4, <2>2 DEF RunOK
<1> HIDE DEF a
<1>6. Follows(a, r, q)
  BY <1>1, <1>3, <1>4, <1>5, FollowsFrom DEF added, q
<1> QED BY <1>6 DEF Ingested, a, done, node, added, q

(* benchSession.ingestTurn. *)
LEMMA FrozenIngestedOK ==
  ASSUME NEW c \in Seq(Turns), NEW t \in Turns, NEW r, RunOK(r, c), r.tree.turn = Len(c),
         NEW embeds
  PROVE  Follows(FrozenIngested(r, Append(c, t), embeds), r, Append(c, t))
<1> DEFINE q == Append(c, t)
           added == Added(r, q)
           bare == [added EXCEPT !.anchor = NoTopic]
           node == Embedded(bare, q)
           done == ScoreThenCollect("frozen", node, q)
<1>1. q \in Seq(Turns) /\ q # <<>> /\ Len(q) = Len(c) + 1
  BY Longer
<1>2. RunOK(added, q) /\ added.tree.turn = Len(q)
  BY AddedOK
<1> HIDE DEF added, q
<1>3. RunOK(bare, q) /\ bare.tree = added.tree
  BY <1>2 DEF RunOK, RunFields
<1> HIDE DEF bare
<1>4. RunOK(node, q) /\ node.tree = added.tree
  BY <1>1, <1>3, EmbeddedOK
<1> HIDE DEF node
<1>5. RunOK(done, q) /\ done.tree.turn = Len(q)
      /\ \A n : Recent(q, n) => done.tree.node[n] = node.tree.node[n]
  BY <1>1, <1>2, <1>4, ScoreThenCollectOK
<1> HIDE DEF done
<1>6. Follows(done, r, q)
  BY <1>1, <1>4, <1>5, FollowsFrom DEF added, q
<1>7. Follows(added, r, q)
  BY <1>1, <1>2, FollowsFrom DEF added, q
<1> QED BY <1>6, <1>7 DEF FrozenIngested, done, node, bare, added, q

(* Compiling leaves the tree alone. *)
LEMMA CompiledOK ==
  ASSUME NEW c, NEW r, RunOK(r, c), NEW semantic, NEW s \in Compiled(r, semantic)
  PROVE  RunOK(s, c) /\ s.tree = r.tree
<1>1. PICK hits : s = [r EXCEPT !.prompt = ActiveNodes(r) \cup hits,
                                !.compiled = IF semantic THEN "semantic" ELSE "plain"]
  BY DEF Compiled
<1>2. DOMAIN s = DOMAIN r /\ s.tree = r.tree /\ s.anchor = r.anchor
  BY <1>1 DEF RunOK, RunFields
<1> QED BY <1>2 DEF RunOK

LEMMA CompiledFollows ==
  ASSUME NEW c, NEW r, NEW i, Follows(i, r, c), NEW semantic, NEW a \in Compiled(i, semantic)
  PROVE  Follows(a, r, c)
<1>1. RunOK(a, c) /\ a.tree = i.tree
  BY CompiledOK DEF Follows
<1> QED BY <1>1 DEF Follows, ArchivedNodes

-----------------------------------------------------------------------------
(* The programs *)

(* The incremental benchmark stops somewhere. *)
LEMMA LastEnd == Max(Ends) \in Int
<1>1. Len(Script) \in Nat /\ NTurns \in Nat \ {0}
  BY ScriptAssumption, ReplayAssumption
<1>2. Chunk \in Nat \ {0}
  BY <1>1 DEF Chunk
<1>3. \A i \in 1 .. NTurns : i * Chunk \in Nat /\ i * Chunk <= NTurns * Chunk
  <2> SUFFICES ASSUME NEW i \in 1 .. NTurns
               PROVE  i * Chunk \in Nat /\ i * Chunk <= NTurns * Chunk
    OBVIOUS
  <2>1. /\ i * Chunk \in Nat /\ (NTurns - i) * Chunk \in Nat
        /\ NTurns * Chunk = i * Chunk + (NTurns - i) * Chunk
    BY <1>1, <1>2
  <2> QED BY <2>1
<1> DEFINE last == AtMost(Len(Script), NTurns * Chunk)
<1>4. last \in Ends
  BY <1>1 DEF Ends
<1>5. \A e \in Ends : e \in Int /\ last >= e
  BY <1>1, <1>2, <1>3 DEF Ends, AtMost
<1> HIDE DEF last
<1>6. Max(Ends) \in Ends
  BY <1>4, <1>5 DEF Max
<1> QED BY <1>5, <1>6

(* A benchmark that has stopped keeps what it had. *)
LEMMA StillOK ==
  ASSUME NEW c \in Seq(Turns), NEW t \in Turns, NEW r, RunOK(r, c)
  PROVE  RunOK(r, Append(c, t))
<1>1. \A n \in 1 .. Len(c) : Append(c, t)[n] = c[n]
  OBVIOUS
<1>2. Len(Append(c, t)) = Len(c) + 1 /\ Len(c) \in Nat
  OBVIOUS
<1>3. r.tree.turn \in Nat /\ r.tree.turn <= Len(c)
  BY DEF RunOK, TreeOK
<1>4. \A n \in 1 .. r.tree.turn : Append(c, t)[n] = c[n]
  BY <1>1, <1>2, <1>3
<1>5. r.tree.turn <= Len(Append(c, t))
  BY <1>2, <1>3
<1> QED BY <1>4, <1>5 DEF RunOK, TreeOK

(* After a turn every program has filed it and has archived no recent turn,  *)
(* or is the benchmark that has stopped.                                     *)
LEMMA TurnFollows ==
  ASSUME IInv, NEW t \in Turns, NEW failed, Turn(t, failed)
  PROVE  /\ turns' = Append(turns, t) /\ DOMAIN run' = Drivers
         /\ \A d \in Drivers :
              \/ Follows(run'[d], run[d], turns')
              \/ d = "incremental" /\ Len(turns') > Max(Ends) /\ run'[d] = run[d]
<1> DEFINE c == Append(turns, t)
<1>1. turns \in Seq(Turns) /\ turns' = c
  BY DEF IInv, Turn
<1>2. PICK s \in StressTurn(run["stress"], c, failed),
           i \in IncrementalTurn(run["incremental"], c, failed) :
        run' = [eval |-> Ingested("eval", run["eval"], c, "eval" \notin failed),
                stress |-> s, incremental |-> i,
                frozen |-> FrozenIngested(run["frozen"], c, "frozen" \notin failed)]
  BY DEF Turn
<1>3. \A d \in Drivers \ {"incremental"} :
        RunOK(run[d], turns) /\ run[d].tree.turn = Len(turns)
  BY DEF IInv
<1>4. Follows(run'["eval"], run["eval"], c)
  <2>1. run'["eval"] = Ingested("eval", run["eval"], c, "eval" \notin failed)
    BY <1>2
  <2>2. RunOK(run["eval"], turns) /\ run["eval"].tree.turn = Len(turns)
    BY <1>3 DEF Drivers
  <2> QED BY <1>1, <2>1, <2>2, IngestedOK
<1>5. Follows(run'["frozen"], run["frozen"], c)
  <2>1. run'["frozen"] = FrozenIngested(run["frozen"], c, "frozen" \notin failed)
    BY <1>2
  <2>2. RunOK(run["frozen"], turns) /\ run["frozen"].tree.turn = Len(turns)
    BY <1>3 DEF Drivers
  <2> QED BY <1>1, <2>1, <2>2, FrozenIngestedOK
<1>6. Follows(run'["stress"], run["stress"], c)
  <2> DEFINE r == Ingested("stress", run["stress"], c, "stress" \notin failed)
             asks == c[Len(c)].role = "user" /\ "stress query" \notin failed
  <2>1. run'["stress"] \in Compiled(r, asks)
    BY <1>2 DEF StressTurn
  <2>2. RunOK(run["stress"], turns) /\ run["stress"].tree.turn = Len(turns)
    BY <1>3 DEF Drivers
  <2>3. Follows(r, run["stress"], c)
    BY <1>1, <2>2, IngestedOK
  <2> HIDE DEF r, asks
  <2> QED BY <2>1, <2>3, CompiledFollows
<1>7. \/ Follows(run'["incremental"], run["incremental"], c)
      \/ Len(c) > Max(Ends) /\ run'["incremental"] = run["incremental"]
  <2> DEFINE old == run["incremental"]
             r == Ingested("incremental", old, c, "incremental" \notin failed)
             asks == "incremental query" \notin failed
  <2>1. run'["incremental"] = i
    BY <1>2
  <2>2. CASE Len(c) > Max(Ends)
    BY <1>2, <2>1, <2>2 DEF IncrementalTurn
  <2>3. CASE ~(Len(c) > Max(Ends))
    <3>1. i = r \/ i \in Compiled(r, asks)
      BY <1>2, <2>3 DEF IncrementalTurn
    <3>2. RunOK(old, turns) /\ old.tree.turn = Len(turns)
      <4>1. ~(Len(turns) > Max(Ends))
        <5>1. Len(c) = Len(turns) + 1 /\ Len(turns) \in Nat
          BY <1>1
        <5> QED BY <2>3, <5>1, LastEnd
      <4> QED BY <4>1 DEF IInv, Drivers
    <3>3. Follows(r, old, c)
      BY <1>1, <3>2, IngestedOK
    <3> HIDE DEF r, asks
    <3> QED BY <2>1, <3>1, <3>3, CompiledFollows
  <2> QED BY <2>2, <2>3
<1>8. DOMAIN run' = Drivers
  BY <1>2 DEF Drivers
<1> QED BY <1>1, <1>4, <1>5, <1>6, <1>7, <1>8 DEF Drivers

-----------------------------------------------------------------------------
(* The invariant and the property *)

LEMMA InitIInv == Init => IInv
<1> SUFFICES ASSUME Init PROVE IInv
  OBVIOUS
<1>1. turns = <<>> /\ Len(turns) = 0 /\ turns \in Seq(Turns)
  BY DEF Init
<1>2. /\ DOMAIN NewRun = RunFields /\ NewRun.tree = Eval!NewTree
      /\ NewRun.anchor = NoTopic
  BY DEF NewRun, RunFields
<1>3. TreeOK(Eval!NewTree, <<>>) /\ Eval!NewTree.turn = 0
  BY DEF TreeOK, TreeFields, Eval!NewTree
<1>4. RunOK(NewRun, <<>>)
  BY <1>2, <1>3 DEF RunOK
<1>5. DOMAIN run = Drivers /\ \A d \in Drivers : run[d] = NewRun
  BY DEF Init
<1>6. \A d \in Drivers : RunOK(run[d], turns) /\ run[d].tree.turn = Len(turns)
  <2>1. RunOK(NewRun, turns) /\ NewRun.tree.turn = Len(turns)
    BY <1>1, <1>2, <1>3, <1>4
  <2> QED BY <1>5, <2>1
<1>7. turns \in Seq(Turns) /\ DOMAIN run = Drivers
  BY <1>1, <1>5
<1> QED BY <1>6, <1>7, Zenon DEF IInv

(* Asking changes prompts only. *)
LEMMA AskKeeps ==
  ASSUME IInv, NEW failed, Ask(failed)
  PROVE  /\ turns' = turns /\ DOMAIN run' = Drivers
         /\ \A d \in Drivers : RunOK(run'[d], turns) /\ run'[d].tree = run[d].tree
<1>1. PICK e \in Compiled(run["eval"], "eval query" \notin failed),
           f \in Compiled(run["frozen"], "frozen query" \notin failed) :
        run' = [run EXCEPT !["eval"] = e, !["frozen"] = f]
  BY DEF Ask
<1>2. \A d \in Drivers : RunOK(run[d], turns)
  BY DEF IInv
<1>3. RunOK(e, turns) /\ e.tree = run["eval"].tree
  <2> DEFINE asks == "eval query" \notin failed
             r == run["eval"]
  <2>1. RunOK(r, turns)
    BY <1>2 DEF Drivers
  <2>2. e \in Compiled(r, asks)
    OBVIOUS
  <2> HIDE DEF asks, r
  <2>3. RunOK(e, turns) /\ e.tree = r.tree
    BY <2>1, <2>2, CompiledOK
  <2> QED BY <2>3 DEF r
<1>4. RunOK(f, turns) /\ f.tree = run["frozen"].tree
  <2> DEFINE asks == "frozen query" \notin failed
             r == run["frozen"]
  <2>1. RunOK(r, turns)
    BY <1>2 DEF Drivers
  <2>2. f \in Compiled(r, asks)
    OBVIOUS
  <2> HIDE DEF asks, r
  <2>3. RunOK(f, turns) /\ f.tree = r.tree
    BY <2>1, <2>2, CompiledOK
  <2> QED BY <2>3 DEF r
<1>5. DOMAIN run = Drivers /\ turns' = turns
  BY DEF IInv, Ask
<1> QED BY <1>1, <1>2, <1>3, <1>4, <1>5 DEF Drivers

LEMMA NextCases ==
  ASSUME IInv, [Next]_vars
  PROVE  \/ \E t \in Turns : \E failed : Len(turns) < Len(Script) /\ Turn(t, failed)
         \/ \E failed : Ask(failed)
         \/ UNCHANGED vars
<1>1. ASSUME NEW t \in Script[Len(turns) + 1], Len(turns) < Len(Script)
      PROVE  t \in Turns
  <2>1. Len(turns) + 1 \in DOMAIN Script
    BY <1>1, ScriptAssumption DEF IInv
  <2> QED BY <2>1 DEF Turns
<1> QED BY <1>1 DEF Next

(* A step of any program keeps the invariant, and whatever recent turn it    *)
(* has archived afterwards was archived before.                              *)
LEMMA Steps ==
  ASSUME IInv, [Next]_vars
  PROVE  /\ IInv'
         /\ \A d \in Drivers : \A n : Recent(turns', n) /\ n \in ArchivedNodes(run'[d])
                                    => n \in ArchivedNodes(run[d])
<1>1. ASSUME NEW t \in Turns, NEW failed, Turn(t, failed)
      PROVE  /\ IInv'
             /\ \A d \in Drivers : \A n : Recent(turns', n) /\ n \in ArchivedNodes(run'[d])
                                        => n \in ArchivedNodes(run[d])
  <2>1. /\ turns' = Append(turns, t) /\ DOMAIN run' = Drivers
        /\ \A d \in Drivers :
             \/ Follows(run'[d], run[d], turns')
             \/ d = "incremental" /\ Len(turns') > Max(Ends) /\ run'[d] = run[d]
    BY <1>1, TurnFollows
  <2>2. turns' \in Seq(Turns)
    BY <2>1 DEF IInv
  <2>3. \A d \in Drivers : RunOK(run[d], turns')
    BY <2>1, StillOK DEF IInv
  <2>4. ASSUME NEW d \in Drivers
        PROVE  /\ RunOK(run'[d], turns')
               /\ \/ run'[d].tree.turn = Len(turns')
                  \/ d = "incremental" /\ Len(turns') > Max(Ends)
               /\ \A n : Recent(turns', n) /\ n \in ArchivedNodes(run'[d])
                           => n \in ArchivedNodes(run[d])
    BY <2>1, <2>3 DEF Follows
  <2>5. IInv'
    BY <2>1, <2>2, <2>4 DEF IInv
  <2> QED BY <2>4, <2>5
<1>2. ASSUME NEW failed, Ask(failed)
      PROVE  /\ IInv'
             /\ \A d \in Drivers : \A n : Recent(turns', n) /\ n \in ArchivedNodes(run'[d])
                                        => n \in ArchivedNodes(run[d])
  <2>1. /\ turns' = turns /\ DOMAIN run' = Drivers
        /\ \A d \in Drivers : RunOK(run'[d], turns) /\ run'[d].tree = run[d].tree
    BY <1>2, AskKeeps
  <2> QED BY <2>1 DEF IInv, ArchivedNodes
<1>3. CASE UNCHANGED vars
  BY <1>3 DEF vars, IInv
<1> QED BY <1>1, <1>2, <1>3, NextCases

LEMMA Invariance == Spec => []IInv
BY InitIInv, Steps, PTL DEF Spec

(* No policy, however small its limits, and no failure of the embedding      *)
(* service makes any of the programs archive an ordinary turn of the user    *)
(* within eight turns.                                                       *)
THEOREM RecentStay == Spec => RecentTurnsStay
<1>1. ASSUME IInv, [Next]_vars,
             NEW d \in Drivers, NEW n \in Archives(d), Ordinary(d, n)
      PROVE  Len(turns') - n > 8
  <2>1. n \in ArchivedNodes(run'[d]) /\ n \notin ArchivedNodes(run[d])
    BY <1>1 DEF Archives, ArchivedNodes
  <2>2. IInv' /\ ~Recent(turns', n)
    BY <1>1, <2>1, Steps
  <2>3. Len(turns') \in Nat /\ n \in 0 .. Len(turns')
    BY <2>1, <2>2 DEF IInv, RunOK, TreeOK, ArchivedNodes, Eval!Archived, Eval!Nodes
  <2> QED BY <1>1, <2>2, <2>3 DEF Ordinary, Recent
<1>2. IInv /\ [Next]_vars
        => [\A d \in Drivers : \A n \in Archives(d) :
              Ordinary(d, n) => Len(turns') - n > 8]_vars
  BY <1>1
<1> QED BY <1>2, Invariance, PTL DEF Spec, RecentTurnsStay

-----------------------------------------------------------------------------
(* The trees: what ContextTreeProofs proves of every tree *)

Tree == INSTANCE ContextTreeProofs WITH
  tree <- run["eval"].tree, metrics <- Metrics(run["eval"]),
  snapshots <- {}, archivedAtStart <- 0, Events <- TreeEvents,
  MaxTurns <- Len(Script), MaxSnapshotTurn <- 0, CompressedTokens <- 0

(* The assumptions of ContextTree hold of the programs' trees. *)
LEMMA TreeAssumptions ==
  /\ TreeEvents \subseteq Tree!EventRecords
  /\ Len(Script) \in Nat /\ 0 \in Nat
  /\ /\ TokenBudget \in Nat \ {0} /\ SoftLimit \in Nat
     /\ MaxActiveNodes \in Nat /\ MaxTreeDepth \in Nat
     /\ MaxChildrenPerNode \in Nat /\ 0 \in Nat
<1>1. \A t \in Turns : t \in TurnRecords
  BY ScriptAssumption DEF Turns
<1>2. \A t \in Turns : EventOf(t) \in Tree!EventRecords
  BY <1>1 DEF EventOf, TurnRecords, Tree!EventRecords, Tree!EventTypes
<1>3. Len(Script) \in Nat
  BY ScriptAssumption
<1> QED BY <1>2, <1>3, LimitsAssumption DEF TreeEvents

(* The two instances of ContextTree are the same operators. *)
LEMMA SameSets ==
  ASSUME NEW t
  PROVE  /\ Eval!Nodes(t) = Tree!Nodes(t) /\ Eval!Active(t) = Tree!Active(t)
         /\ Eval!Archived(t) = Tree!Archived(t)
         /\ Eval!Candidates(t) = Tree!Candidates(t)
         /\ \A p : Eval!FilterCompressible(t, Eval!Branch(t, p))
                   = Tree!FilterCompressible(t, Tree!Branch(t, p))
BY DEF Eval!Nodes, Tree!Nodes, Eval!Active, Tree!Active, Eval!Archived, Tree!Archived,
       Eval!Candidates, Tree!Candidates, Eval!FilterCompressible,
       Tree!FilterCompressible, Eval!Branch, Tree!Branch, Eval!Anchored, Tree!Anchored

LEMMA SameAddNode ==
  ASSUME NEW t, NEW e
  PROVE  Eval!AddNode(t, e) = Tree!AddNode(t, e)
BY DEF Eval!AddNode, Tree!AddNode, Eval!FindBestParent, Tree!FindBestParent,
       Eval!Anchored, Tree!Anchored, Eval!Active, Tree!Active, Eval!Nodes, Tree!Nodes,
       Eval!ClassifyEvent, Tree!ClassifyEvent, Eval!HasFactsOrDecisions,
       Tree!HasFactsOrDecisions

LEMMA SameRun ==
  ASSUME NEW t, NEW swept
  PROVE  /\ \A done : Eval!Run(t, swept, done) = Tree!Run(t, swept, done)
         /\ Eval!ToCompact(t, swept) = Tree!ToCompact(t, swept)
<1>1. ASSUME NEW done PROVE Eval!Run(t, swept, done) = Tree!Run(t, swept, done)
  BY DEF Eval!Run, Tree!Run, Eval!Archive, Tree!Archive, Eval!Nodes, Tree!Nodes,
         Eval!Active, Tree!Active, Eval!Candidates, Tree!Candidates,
         Eval!FilterCompressible, Tree!FilterCompressible, Eval!Branch, Tree!Branch,
         Eval!Anchored, Tree!Anchored
<1>2. Eval!ToCompact(t, swept) = Tree!ToCompact(t, swept)
  BY DEF Eval!ToCompact, Tree!ToCompact, Eval!Nodes, Tree!Nodes, Eval!Active, Tree!Active,
         Eval!Candidates, Tree!Candidates, Eval!FilterCompressible,
         Tree!FilterCompressible, Eval!Branch, Tree!Branch, Eval!Anchored, Tree!Anchored,
         Eval!Cardinality, Tree!Cardinality
<1> QED BY <1>1, <1>2

LEMMA SameTokens ==
  ASSUME NEW t, NEW S
  PROVE  Eval!Tokens(t, S) = Tree!Tokens(t, S)
BY DEF Eval!Tokens, Tree!Tokens, Eval!MapThenSumSet, Tree!MapThenSumSet,
       Eval!MapThenFoldSet, Tree!MapThenFoldSet

LEMMA SameFreed ==
  ASSUME NEW t, NEW swept, NEW done
  PROVE  Eval!TokensFreed(t, swept, done) = Tree!TokensFreed(t, swept, done)
BY DEF Eval!TokensFreed, Tree!TokensFreed, Eval!Tokens, Tree!Tokens,
       Eval!MapThenSumSet, Tree!MapThenSumSet, Eval!MapThenFoldSet, Tree!MapThenFoldSet,
       Eval!FilterCompressible, Tree!FilterCompressible, Eval!Branch, Tree!Branch,
       Eval!Candidates, Tree!Candidates, Eval!Active, Tree!Active, Eval!Nodes, Tree!Nodes,
       Eval!Anchored, Tree!Anchored

-----------------------------------------------------------------------------
(* What each part of the loop does to the nodes and to the indexes *)

(* Active and archived nodes share out the tree, and facts stay active. *)
LEMMA NodesShared ==
  ASSUME NEW r, Tree!TreeInv(r.tree)
  PROVE  /\ r.tree.turn \in Nat /\ Eval!Nodes(r.tree) = 0 .. r.tree.turn
         /\ ActiveNodes(r) \cup ArchivedNodes(r) = 0 .. r.tree.turn
         /\ ActiveNodes(r) \cap ArchivedNodes(r) = {}
         /\ \A n \in 0 .. r.tree.turn : r.tree.node[n].keep => n \in ActiveNodes(r)
<1>1. /\ r.tree.turn \in Nat /\ Eval!Nodes(r.tree) = 0 .. r.tree.turn
      /\ Tree!Nodes(r.tree) = 0 .. r.tree.turn
  BY DEF Tree!TreeInv, Tree!IsTree, Tree!Nodes, Eval!Nodes
<1>2. \A n \in 0 .. r.tree.turn :
        /\ r.tree.node[n].status \in {"active", "archived"}
        /\ r.tree.node[n].keep => r.tree.node[n].status = "active"
  BY <1>1 DEF Tree!TreeInv, Tree!IsTree, Tree!NodeRecords, Tree!KeptStayActive
<1> QED BY <1>1, <1>2 DEF ActiveNodes, ArchivedNodes, Eval!Active, Eval!Archived

(* The fields the indexes and the prompt depend on. *)
SameIndexes(a, r) ==
  /\ a.embedded = r.embedded /\ a.active = r.active /\ a.archive = r.archive
SamePrompt(a, r) == a.prompt = r.prompt /\ a.compiled = r.compiled
SameCounts(a, r) == a.gcRuns = r.gcRuns /\ a.freed = r.freed

LEMMA AddedRun ==
  ASSUME NEW c \in Seq(Turns), NEW t \in Turns, NEW r, DOMAIN r = RunFields,
         Tree!TreeInv(r.tree)
  PROVE  LET a == Added(r, Append(c, t))
         IN /\ DOMAIN a = RunFields /\ Tree!TreeInv(a.tree)
            /\ a.tree.turn = r.tree.turn + 1
            /\ ArchivedNodes(a) = ArchivedNodes(r)
            /\ SameIndexes(a, r) /\ SameCounts(a, r) /\ a.prompt = r.prompt
            /\ a.compiled = "no" /\ a.anchor = r.anchor
<1> DEFINE a == Added(r, Append(c, t))
           e == EventOf(t)
           u == Eval!AddNode(r.tree, e)
<1>1. Append(c, t)[Len(Append(c, t))] = t
  OBVIOUS
<1>2. a = [r EXCEPT !.tree = u, !.compiled = "no"]
  BY <1>1 DEF Added
<1>3. e \in TreeEvents
  BY DEF TreeEvents
<1>4. u = Tree!AddNode(r.tree, e)
  BY SameAddNode
<1> HIDE DEF a, e, u
<1>5. /\ Tree!TreeInv(u) /\ u.turn = r.tree.turn + 1
      /\ Tree!Archived(u) = Tree!Archived(r.tree)
  BY <1>3, <1>4, TreeAssumptions, Tree!AddedNode
<1>6. /\ DOMAIN a = RunFields /\ a.tree = u /\ SameIndexes(a, r) /\ SameCounts(a, r)
      /\ a.prompt = r.prompt /\ a.compiled = "no" /\ a.anchor = r.anchor
  BY <1>2 DEF RunFields, SameIndexes, SameCounts
<1>7. ArchivedNodes(a) = ArchivedNodes(r)
  BY <1>5, <1>6, SameSets DEF ArchivedNodes
<1> QED BY <1>5, <1>6, <1>7 DEF a

LEMMA EmbeddedRun ==
  ASSUME NEW c, NEW r, DOMAIN r = RunFields
  PROVE  LET a == Embedded(r, c)
         IN /\ DOMAIN a = RunFields /\ a.tree = r.tree
            /\ a.embedded = r.embedded \cup {Len(c)}
            /\ a.active = r.active \cup {Len(c)} /\ a.archive = r.archive
            /\ SameCounts(a, r) /\ SamePrompt(a, r)
BY DEF Embedded, RunFields, SameCounts, SamePrompt

(* A collection archives some active nodes, or does not happen. *)
LEMMA CollectedRun ==
  ASSUME NEW c, NEW r, DOMAIN r = RunFields, Tree!TreeInv(r.tree),
         r.gcRuns \in Nat, r.freed \in Nat, NEW d
  PROVE  LET a == ScoreThenCollect(d, r, c)
         IN /\ DOMAIN a = RunFields /\ Tree!TreeInv(a.tree)
            /\ a.tree.turn = r.tree.turn
            /\ \E swept \in SUBSET ActiveNodes(r) :
                 /\ ActiveNodes(a) = ActiveNodes(r) \ swept
                 /\ ArchivedNodes(a) = ArchivedNodes(r) \cup swept
                 /\ \A n \in swept : n \in Swept(r, Scores(r, c))
            /\ SameIndexes(a, r) /\ SamePrompt(a, r) /\ a.anchor = r.anchor
            /\ a.gcRuns \in r.gcRuns .. r.gcRuns + 1 /\ a.freed \in Nat
<1> DEFINE swept == Swept(r, Scores(r, c))
           a == Collected(r, swept)
           u == Eval!Run(r.tree, swept, {})
           Q(x) == /\ DOMAIN x = RunFields /\ Tree!TreeInv(x.tree)
                   /\ x.tree.turn = r.tree.turn
                   /\ \E s \in SUBSET ActiveNodes(r) :
                        /\ ActiveNodes(x) = ActiveNodes(r) \ s
                        /\ ArchivedNodes(x) = ArchivedNodes(r) \cup s
                        /\ \A n \in s : n \in Swept(r, Scores(r, c))
                   /\ SameIndexes(x, r) /\ SamePrompt(x, r) /\ x.anchor = r.anchor
                   /\ x.gcRuns \in r.gcRuns .. r.gcRuns + 1 /\ x.freed \in Nat
<1>1. ScoreThenCollect(d, r, c) \in {[x EXCEPT !.score = Scores(r, c)] : x \in {r, a}}
  BY DEF ScoreThenCollect
<1>2. swept \subseteq Eval!Candidates(r.tree) /\ swept \subseteq ActiveNodes(r)
  BY DEF Swept, Eval!Candidates, ActiveNodes
<1>3. swept \in SUBSET Tree!Candidates(r.tree)
  BY <1>2, SameSets
<1> HIDE DEF swept
<1>4. Eval!ToCompact(r.tree, swept) = {}
  BY SameRun, TreeAssumptions, Tree!NothingToCompact
<1>5. a = [r EXCEPT !.tree = u, !.gcRuns = @ + 1,
                    !.freed = @ + Eval!TokensFreed(r.tree, swept, {})]
  BY <1>4 DEF Collected
<1>6. u = Tree!Run(r.tree, swept, {})
  BY SameRun
<1> HIDE DEF a, u
<1>7. /\ Tree!TreeInv(u) /\ u.turn = r.tree.turn
      /\ Tree!Archived(u) = Tree!Archived(r.tree) \cup swept
      /\ Tree!Active(u) = Tree!Active(r.tree) \ swept
  BY <1>3, <1>6, TreeAssumptions, Tree!RunInv, Tree!SweptByRun
<1>8. Eval!TokensFreed(r.tree, swept, {}) \in Nat
  <2>1. swept \subseteq Tree!Nodes(r.tree)
    BY <1>3 DEF Tree!Candidates, Tree!Active
  <2>2. Tree!Tokens(r.tree, swept) \in Nat
    BY <2>1, TreeAssumptions, Tree!TreeFinite
  <2>3. Tree!TokensFreed(r.tree, swept, {}) = Tree!Tokens(r.tree, swept)
    BY <2>2, TreeAssumptions, Tree!NothingCompacted
  <2> QED BY <2>2, <2>3, SameFreed
<1>9. /\ DOMAIN a = RunFields /\ a.tree = u /\ SameIndexes(a, r) /\ SamePrompt(a, r)
      /\ a.anchor = r.anchor /\ a.gcRuns = r.gcRuns + 1 /\ a.freed \in Nat
  BY <1>5, <1>8 DEF RunFields, SameIndexes, SamePrompt
<1>10. /\ ActiveNodes(a) = ActiveNodes(r) \ swept
       /\ ArchivedNodes(a) = ArchivedNodes(r) \cup swept
  BY <1>7, <1>9, SameSets DEF ActiveNodes, ArchivedNodes
<1>11. Q(a)
  BY <1>2, <1>7, <1>9, <1>10 DEF swept
<1>12. Q(r)
  <2>1. {} \in SUBSET ActiveNodes(r) /\ ActiveNodes(r) = ActiveNodes(r) \ {}
        /\ ArchivedNodes(r) = ArchivedNodes(r) \cup {}
    OBVIOUS
  <2>2. SameIndexes(r, r) /\ SamePrompt(r, r) /\ r.gcRuns \in r.gcRuns .. r.gcRuns + 1
    BY DEF SameIndexes, SamePrompt
  <2> QED BY <2>1, <2>2
<1>13. ASSUME NEW x, Q(x) PROVE Q([x EXCEPT !.score = Scores(r, c)])
  <2> DEFINE y == [x EXCEPT !.score = Scores(r, c)]
  <2>1. /\ DOMAIN y = RunFields /\ y.tree = x.tree /\ y.anchor = x.anchor
        /\ SameIndexes(y, x) /\ SamePrompt(y, x) /\ SameCounts(y, x)
    BY <1>13, Scored DEF SameIndexes, SamePrompt, SameCounts
  <2> HIDE DEF y
  <2>2. ActiveNodes(y) = ActiveNodes(x) /\ ArchivedNodes(y) = ArchivedNodes(x)
    BY <2>1 DEF ActiveNodes, ArchivedNodes
  <2>3. SameIndexes(y, r) /\ SamePrompt(y, r)
    BY <1>13, <2>1 DEF SameIndexes, SamePrompt
  <2>4. Q(y)
    BY <1>13, <2>1, <2>2, <2>3 DEF SameCounts
  <2> QED BY <2>4 DEF y
<1> HIDE DEF Q
<1>14. Q(ScoreThenCollect(d, r, c))
  BY <1>1, <1>11, <1>12, <1>13
<1> QED BY <1>14 DEF Q

-----------------------------------------------------------------------------
(* What a program has made of its turns *)

Filed(r) ==
  /\ DOMAIN r = RunFields /\ Tree!TreeInv(r.tree)
  /\ r.embedded \subseteq 1 .. r.tree.turn /\ r.prompt \subseteq 0 .. r.tree.turn
  /\ r.gcRuns \in 0 .. r.tree.turn /\ r.freed \in Nat
  /\ r.compiled \in {"no", "plain", "semantic"}

(* The frozen benchmark never touches its archive index. *)
Indexed(d, r) ==
  IF d = "frozen" THEN r.active = r.embedded /\ r.archive = {} ELSE Mirrors(r)

(* What ArchivedComeBack says of one program. *)
Remembers(d, r) ==
  /\ r.compiled = "semantic"
  /\ Cardinality(IF d = "frozen" THEN r.active ELSE r.archive) <= TopK
  => r.prompt = ActiveNodes(r) \cup r.embedded

LEMMA MirrorsByArchive ==
  ASSUME NEW r, Tree!TreeInv(r.tree), r.embedded \subseteq 1 .. r.tree.turn
  PROVE  Mirrors(r) <=> /\ r.active = r.embedded \ ArchivedNodes(r)
                        /\ r.archive = r.embedded \cap ArchivedNodes(r)
<1>1. r.embedded \subseteq ActiveNodes(r) \cup ArchivedNodes(r)
      /\ ActiveNodes(r) \cap ArchivedNodes(r) = {}
  BY NodesShared
<1> QED BY <1>1 DEF Mirrors

(* A new turn is filed, with or without its embedding... *)
LEMMA NodeFiled ==
  ASSUME NEW c \in Seq(Turns), NEW t \in Turns, NEW r, Filed(r), r.tree.turn = Len(c),
         NEW a, DOMAIN a = RunFields, Tree!TreeInv(a.tree), a.tree.turn = Len(c) + 1,
         a.embedded \subseteq r.embedded \cup {Len(c) + 1},
         a.prompt = r.prompt, a.compiled = "no", SameCounts(a, r)
  PROVE  Filed(a) /\ a.gcRuns <= Len(c)
<1>1. Len(c) \in Nat
  OBVIOUS
<1>2. /\ r.embedded \subseteq 1 .. Len(c) /\ r.prompt \subseteq 0 .. Len(c)
      /\ r.gcRuns \in 0 .. Len(c) /\ r.freed \in Nat
  BY DEF Filed
<1>3. a.embedded \subseteq 1 .. Len(c) + 1 /\ a.prompt \subseteq 0 .. Len(c) + 1
  BY <1>1, <1>2
<1>4. a.gcRuns \in 0 .. Len(c) + 1 /\ a.gcRuns <= Len(c) /\ a.freed \in Nat
  BY <1>1, <1>2 DEF SameCounts
<1> QED BY <1>3, <1>4 DEF Filed

(* ... and the collector may run once. *)
LEMMA CollectedFiled ==
  ASSUME NEW c, NEW r, Filed(r), r.gcRuns < r.tree.turn, r.compiled = "no", NEW d
  PROVE  LET a == ScoreThenCollect(d, r, c)
         IN /\ Filed(a) /\ a.compiled = "no" /\ a.tree.turn = r.tree.turn
            /\ SameIndexes(a, r) /\ a.anchor = r.anchor
<1> DEFINE a == ScoreThenCollect(d, r, c)
<1>1. /\ DOMAIN r = RunFields /\ Tree!TreeInv(r.tree) /\ r.tree.turn \in Nat
      /\ r.gcRuns \in Nat /\ r.freed \in Nat
  BY NodesShared DEF Filed
<1>2. /\ DOMAIN a = RunFields /\ Tree!TreeInv(a.tree) /\ a.tree.turn = r.tree.turn
      /\ SameIndexes(a, r) /\ SamePrompt(a, r) /\ a.anchor = r.anchor
      /\ a.gcRuns \in r.gcRuns .. r.gcRuns + 1 /\ a.freed \in Nat
  BY <1>1, CollectedRun
<1> HIDE DEF a
<1>3. a.gcRuns \in 0 .. a.tree.turn
  BY <1>1, <1>2
<1>4. /\ a.embedded \subseteq 1 .. a.tree.turn /\ a.prompt \subseteq 0 .. a.tree.turn
      /\ a.compiled = "no"
  BY <1>2 DEF Filed, SameIndexes, SamePrompt
<1> QED BY <1>2, <1>3, <1>4 DEF Filed, a

(* The loop of BuildPrompt, ReplaySession and runIncrementalBench moves what *)
(* it archives from one index to the other.                                  *)
LEMMA IngestedFiled ==
  ASSUME NEW c \in Seq(Turns), NEW t \in Turns, NEW r, Filed(r), Mirrors(r),
         r.tree.turn = Len(c), NEW d, NEW embeds
  PROVE  LET a == Ingested(d, r, Append(c, t), embeds)
         IN Filed(a) /\ Mirrors(a) /\ a.compiled = "no"
<1> DEFINE q == Append(c, t)
           added == Added(r, q)
           node == IF embeds THEN Embedded(added, q) ELSE added
           done == ScoreThenCollect(d, node, q)
           a == Reconciled(node, done)
<1>1. Len(q) = Len(c) + 1 /\ Len(c) \in Nat
  OBVIOUS
<1>2. DOMAIN r = RunFields /\ Tree!TreeInv(r.tree) /\ r.embedded \subseteq 1 .. Len(c)
  BY DEF Filed
<1>3. /\ DOMAIN added = RunFields /\ Tree!TreeInv(added.tree)
      /\ added.tree.turn = Len(c) + 1 /\ ArchivedNodes(added) = ArchivedNodes(r)
      /\ SameIndexes(added, r) /\ SameCounts(added, r) /\ added.prompt = r.prompt
      /\ added.compiled = "no"
  BY <1>2, AddedRun
<1> HIDE DEF q, added
<1>4. LET e == Embedded(added, q)
      IN /\ DOMAIN e = RunFields /\ e.tree = added.tree
         /\ e.embedded = added.embedded \cup {Len(q)}
         /\ e.active = added.active \cup {Len(q)} /\ e.archive = added.archive
         /\ SameCounts(e, added) /\ SamePrompt(e, added)
  BY <1>3, EmbeddedRun
<1>5. /\ DOMAIN node = RunFields /\ node.tree = added.tree /\ node.archive = r.archive
      /\ \/ node.embedded = r.embedded /\ node.active = r.active
         \/ /\ node.embedded = r.embedded \cup {Len(c) + 1}
            /\ node.active = r.active \cup {Len(c) + 1}
      /\ node.prompt = r.prompt /\ node.compiled = "no" /\ SameCounts(node, r)
  BY <1>1, <1>3, <1>4 DEF SameIndexes, SameCounts, SamePrompt
<1> HIDE DEF node
<1>6. Filed(node) /\ node.gcRuns < node.tree.turn
  <2>1. Filed(node) /\ node.gcRuns <= Len(c)
    BY <1>3, <1>5, NodeFiled
  <2> QED BY <1>1, <1>3, <1>5, <2>1 DEF Filed
<1>7. ArchivedNodes(node) = ArchivedNodes(r)
  BY <1>3, <1>5 DEF ArchivedNodes
<1>8. Mirrors(node)
  <2>1. Len(c) + 1 \notin ArchivedNodes(r)
    BY <1>1, <1>2, NodesShared
  <2>2. r.active = r.embedded \ ArchivedNodes(r)
        /\ r.archive = r.embedded \cap ArchivedNodes(r)
    BY <1>2, MirrorsByArchive
  <2>3. node.active = node.embedded \ ArchivedNodes(node)
        /\ node.archive = node.embedded \cap ArchivedNodes(node)
    BY <1>5, <1>7, <2>1, <2>2
  <2> QED BY <1>6, <2>3, MirrorsByArchive DEF Filed
<1>9. /\ Filed(done) /\ done.compiled = "no" /\ SameIndexes(done, node)
      /\ done.tree.turn = node.tree.turn
  BY <1>5, <1>6, CollectedFiled
<1>10. PICK swept \in SUBSET ActiveNodes(node) :
         /\ ActiveNodes(done) = ActiveNodes(node) \ swept
         /\ ArchivedNodes(done) = ArchivedNodes(node) \cup swept
  <2>1. /\ DOMAIN node = RunFields /\ Tree!TreeInv(node.tree) /\ node.freed \in Nat
        /\ node.gcRuns \in Nat
    BY <1>6 DEF Filed
  <2> QED BY <2>1, CollectedRun
<1> HIDE DEF done
<1>11. a = [done EXCEPT !.archive = @ \cup (swept \cap done.embedded), !.active = @ \ swept]
  <2>1. ActiveNodes(node) \ ActiveNodes(done) = swept
    BY <1>10
  <2> QED BY <2>1 DEF Reconciled
<1>12. /\ DOMAIN a = RunFields /\ a.tree = done.tree /\ a.embedded = node.embedded
       /\ a.archive = node.archive \cup (swept \cap node.embedded)
       /\ a.active = node.active \ swept /\ a.compiled = "no"
       /\ SamePrompt(a, done) /\ SameCounts(a, done)
  <2>1. DOMAIN done = RunFields
    BY <1>9 DEF Filed
  <2> HIDE DEF a
  <2> QED BY <1>9, <1>11, <2>1 DEF RunFields, SameIndexes, SamePrompt, SameCounts
<1> HIDE DEF a
<1>13. Filed(a)
  BY <1>9, <1>12 DEF Filed, SameIndexes, SamePrompt, SameCounts
<1>14. ActiveNodes(a) = ActiveNodes(done) /\ ArchivedNodes(a) = ArchivedNodes(done)
  BY <1>12 DEF ActiveNodes, ArchivedNodes
<1>15. Mirrors(a)
  BY <1>8, <1>10, <1>12, <1>14 DEF Mirrors
<1> QED BY <1>12, <1>13, <1>15 DEF Ingested, a, done, node, added, q

(* benchSession.ingestTurn. *)
LEMMA FrozenFiled ==
  ASSUME NEW c \in Seq(Turns), NEW t \in Turns, NEW r, Filed(r), r.tree.turn = Len(c),
         r.active = r.embedded, r.archive = {}, NEW embeds
  PROVE  LET a == FrozenIngested(r, Append(c, t), embeds)
         IN Filed(a) /\ a.active = a.embedded /\ a.archive = {} /\ a.compiled = "no"
<1> DEFINE q == Append(c, t)
           added == Added(r, q)
           bare == [added EXCEPT !.anchor = NoTopic]
           node == Embedded(bare, q)
           done == ScoreThenCollect("frozen", node, q)
<1>1. Len(q) = Len(c) + 1 /\ Len(c) \in Nat
  OBVIOUS
<1>2. /\ DOMAIN added = RunFields /\ Tree!TreeInv(added.tree)
      /\ added.tree.turn = Len(c) + 1
      /\ SameIndexes(added, r) /\ SameCounts(added, r) /\ added.prompt = r.prompt
      /\ added.compiled = "no"
  <2>1. DOMAIN r = RunFields /\ Tree!TreeInv(r.tree)
    BY DEF Filed
  <2> HIDE DEF bare, node, done
  <2>2. /\ DOMAIN added = RunFields /\ Tree!TreeInv(added.tree)
        /\ added.tree.turn = r.tree.turn + 1
        /\ SameIndexes(added, r) /\ SameCounts(added, r) /\ added.prompt = r.prompt
        /\ added.compiled = "no"
    BY <2>1, AddedRun
  <2> QED BY <2>2
<1> HIDE DEF q, added
<1>3. /\ DOMAIN bare = RunFields /\ bare.tree = added.tree
      /\ SameIndexes(bare, r) /\ SameCounts(bare, r) /\ SamePrompt(bare, added)
  BY <1>2 DEF RunFields, SameIndexes, SameCounts, SamePrompt
<1> HIDE DEF bare
<1>4. /\ DOMAIN node = RunFields /\ node.tree = added.tree
      /\ node.embedded = r.embedded \cup {Len(c) + 1}
      /\ node.active = node.embedded /\ node.archive = {}
      /\ node.prompt = r.prompt /\ node.compiled = "no" /\ SameCounts(node, r)
  <2>1. /\ DOMAIN node = RunFields /\ node.tree = bare.tree
        /\ node.embedded = bare.embedded \cup {Len(q)}
        /\ node.active = bare.active \cup {Len(q)} /\ node.archive = bare.archive
        /\ SameCounts(node, bare) /\ SamePrompt(node, bare)
    BY <1>3, EmbeddedRun
  <2> HIDE DEF node
  <2> QED BY <1>1, <1>2, <1>3, <2>1 DEF SameIndexes, SameCounts, SamePrompt
<1> HIDE DEF node
<1>5. Filed(node) /\ node.gcRuns < node.tree.turn
  <2>1. Filed(node) /\ node.gcRuns <= Len(c)
    BY <1>2, <1>4, NodeFiled
  <2> QED BY <1>1, <1>2, <1>4, <2>1 DEF Filed
<1>6. Filed(done) /\ done.compiled = "no" /\ SameIndexes(done, node)
  BY <1>4, <1>5, CollectedFiled
<1>7. Filed(added)
  BY <1>2, NodeFiled DEF SameIndexes
<1>8. added.active = added.embedded /\ added.archive = {}
  BY <1>2 DEF SameIndexes
<1>9. done.active = done.embedded /\ done.archive = {}
  BY <1>4, <1>6 DEF SameIndexes
<1> HIDE DEF done
<1> QED BY <1>2, <1>6, <1>7, <1>8, <1>9 DEF FrozenIngested, done, node, bare, added, q

(* A set of hits as large as its index is the whole of it. *)
LEMMA AllHits ==
  ASSUME NEW r, NEW index, IsFiniteSet(index), Cardinality(index) <= TopK,
         NEW h \in ArchivedHits(r, index)
  PROVE  h = index \cap ArchivedNodes(r)
<1> DEFINE in == index \cap ArchivedNodes(r)
           out == index \ ArchivedNodes(r)
<1>1. /\ h \subseteq in
      /\ Cardinality(h) + Cardinality(out) >= AtMost(TopK, Cardinality(index))
  BY DEF ArchivedHits
<1>2. index = in \cup out /\ in \cap out = {} /\ in \subseteq index /\ out \subseteq index
  OBVIOUS
<1> HIDE DEF in, out
<1>3. /\ IsFiniteSet(in) /\ IsFiniteSet(out) /\ IsFiniteSet(h)
      /\ Cardinality(in) \in Nat /\ Cardinality(out) \in Nat
      /\ Cardinality(h) \in Nat /\ Cardinality(index) \in Nat
  BY <1>1, <1>2, FS_Subset, FS_CardinalityType
<1>4. Cardinality(index) = Cardinality(in) + Cardinality(out)
  <2>1. Cardinality(in \cap out) = 0
    BY <1>2, FS_EmptySet
  <2>2. Cardinality(in \cup out) = Cardinality(in) + Cardinality(out) - Cardinality(in \cap out)
    BY <1>3, FS_Union
  <2> QED BY <1>2, <1>3, <2>1, <2>2
<1>5. AtMost(TopK, Cardinality(index)) = Cardinality(index)
  BY <1>3, ReplayAssumption DEF AtMost
<1>6. Cardinality(h) >= Cardinality(in) /\ Cardinality(h) <= Cardinality(in)
  <2>1. Cardinality(h) <= Cardinality(in)
    BY <1>1, <1>3, FS_Subset
  <2> QED BY <1>1, <1>3, <1>4, <1>5, <2>1
<1>7. Cardinality(h) = Cardinality(in)
  BY <1>3, <1>6
<1> QED BY <1>1, <1>3, <1>7, FS_Subset DEF in

(* Compiling fills the prompt, from an index that has room with everything.  *)
LEMMA CompiledFiled ==
  ASSUME NEW r, Filed(r), NEW d, Indexed(d, r), NEW semantic \in BOOLEAN,
         NEW s \in Compiled(r, semantic)
  PROVE  Filed(s) /\ Indexed(d, s) /\ Remembers(d, s)
<1>1. PICK hits \in IF semantic THEN PromptHits(r) ELSE {{}} :
        s = [r EXCEPT !.prompt = ActiveNodes(r) \cup hits,
                      !.compiled = IF semantic THEN "semantic" ELSE "plain"]
  BY DEF Compiled
<1>2. /\ DOMAIN s = RunFields /\ s.tree = r.tree /\ SameIndexes(s, r) /\ SameCounts(s, r)
      /\ s.prompt = ActiveNodes(r) \cup hits
      /\ s.compiled = IF semantic THEN "semantic" ELSE "plain"
  BY <1>1 DEF Filed, RunFields, SameIndexes, SameCounts
<1>3. ActiveNodes(s) = ActiveNodes(r) /\ ArchivedNodes(s) = ArchivedNodes(r)
  BY <1>2 DEF ActiveNodes, ArchivedNodes
<1>4. /\ r.tree.turn \in Nat /\ ActiveNodes(r) \cup ArchivedNodes(r) = 0 .. r.tree.turn
      /\ ActiveNodes(r) \cap ArchivedNodes(r) = {}
  BY NodesShared DEF Filed
<1>5. semantic => \E a \in ArchivedHits(r, r.active), z \in ArchivedHits(r, r.archive) :
                    hits = a \cup z
  BY <1>1 DEF PromptHits
<1>6. hits \subseteq ArchivedNodes(r)
  BY <1>1, <1>5 DEF ArchivedHits
<1>7. Filed(s)
  <2>1. s.prompt \subseteq 0 .. s.tree.turn
    BY <1>2, <1>4, <1>6
  <2>2. s.compiled \in {"no", "plain", "semantic"}
    BY <1>2
  <2> QED BY <1>2, <2>1, <2>2 DEF Filed, SameIndexes, SameCounts
<1>8. Indexed(d, s)
  BY <1>2, <1>3 DEF Indexed, Mirrors, SameIndexes
<1>9. Remembers(d, s)
  <2> SUFFICES ASSUME s.compiled = "semantic",
                      Cardinality(IF d = "frozen" THEN s.active ELSE s.archive) <= TopK
               PROVE  s.prompt = ActiveNodes(s) \cup s.embedded
    BY DEF Remembers
  <2>1. PICK a \in ArchivedHits(r, r.active), z \in ArchivedHits(r, r.archive) :
          hits = a \cup z
    BY <1>2, <1>5
  <2>2. /\ a \subseteq r.active \cap ArchivedNodes(r)
        /\ z \subseteq r.archive \cap ArchivedNodes(r)
    BY DEF ArchivedHits
  <2>3. r.embedded \subseteq ActiveNodes(r) \cup ArchivedNodes(r)
    BY <1>4 DEF Filed
  <2>4. IsFiniteSet(r.embedded)
    <3> DEFINE k == r.tree.turn
    <3>1. k \in Int /\ 1 \in Int /\ r.embedded \subseteq 1 .. k
      BY <1>4 DEF Filed
    <3> HIDE DEF k
    <3>2. IsFiniteSet(1 .. k)
      BY <3>1, FS_Interval
    <3> QED BY <3>1, <3>2, FS_Subset
  <2>5. hits = r.embedded \cap ArchivedNodes(r)
    <3>1. CASE d = "frozen"
      <4>1. r.active = r.embedded /\ r.archive = {}
        BY <3>1 DEF Indexed
      <4>2. a = r.embedded \cap ArchivedNodes(r)
        BY <1>2, <2>4, <3>1, <4>1, AllHits DEF SameIndexes
      <4> QED BY <2>1, <2>2, <4>1, <4>2
    <3>2. CASE d # "frozen"
      <4>1. /\ r.active = r.embedded \cap ActiveNodes(r)
            /\ r.archive = r.embedded \cap ArchivedNodes(r)
        BY <3>2 DEF Indexed, Mirrors
      <4>2. IsFiniteSet(r.archive)
        BY <2>4, <4>1, FS_Subset
      <4>3. z = r.archive \cap ArchivedNodes(r)
        BY <1>2, <3>2, <4>2, AllHits DEF SameIndexes
      <4>4. a = {}
        BY <1>4, <2>2, <4>1
      <4> QED BY <2>1, <4>1, <4>3, <4>4
    <3> QED BY <3>1, <3>2
  <2> QED BY <1>2, <1>3, <2>3, <2>5 DEF SameIndexes
<1> QED BY <1>7, <1>8, <1>9

-----------------------------------------------------------------------------
(* The stronger invariant *)

(* A turn RecentTurnsStay protects, once filed, is active. *)
Young(r, c) == \A n : Recent(c, n) /\ n <= r.tree.turn => n \in ActiveNodes(r)

Made(d, r, c) == Filed(r) /\ Indexed(d, r) /\ Remembers(d, r) /\ Young(r, c)

GInv ==
  /\ IInv
  /\ failures \in 0 .. MaxFailures
  /\ \A d \in Drivers : Made(d, run[d], turns)

LEMMA InitGInv == Init => GInv
<1> SUFFICES ASSUME Init PROVE GInv
  OBVIOUS
<1> DEFINE r == NewRun
<1>1. IInv /\ failures \in 0 .. MaxFailures
  BY InitIInv, ReplayAssumption DEF Init
<1>2. Tree!TreeInv(Eval!NewTree)
  <2>1. Eval!NewTree = Tree!NewTree
    BY DEF Eval!NewTree, Tree!NewTree, Eval!NoParent, Tree!NoParent
  <2> QED BY <2>1, TreeAssumptions, Tree!NewTreeInv
<1>3. /\ DOMAIN r = RunFields /\ r.tree = Eval!NewTree /\ r.tree.turn = 0
      /\ r.embedded = {} /\ r.active = {} /\ r.archive = {} /\ r.prompt = {}
      /\ r.gcRuns = 0 /\ r.freed = 0 /\ r.compiled = "no"
  BY DEF NewRun, RunFields, Eval!NewTree
<1> HIDE DEF r
<1>4. Filed(r)
  BY <1>2, <1>3 DEF Filed
<1>5. \A d : Indexed(d, r) /\ Remembers(d, r)
  BY <1>3 DEF Indexed, Mirrors, Remembers
<1>6. Young(r, turns)
  BY <1>3 DEF Young, Recent
<1>7. \A d \in Drivers : run[d] = r
  BY DEF Init, r
<1> QED BY <1>1, <1>4, <1>5, <1>6, <1>7 DEF GInv, Made

(* What a turn makes of each program. *)
LEMMA TurnFiled ==
  ASSUME GInv, NEW t \in Turns, NEW failed, Turn(t, failed)
  PROVE  \A d \in Drivers : Filed(run'[d]) /\ Indexed(d, run'[d]) /\ Remembers(d, run'[d])
<1> DEFINE c == Append(turns, t)
           Q(d, r) == Filed(r) /\ Indexed(d, r) /\ Remembers(d, r)
<1>1. turns \in Seq(Turns)
  BY DEF GInv, IInv
<1>2. PICK s \in StressTurn(run["stress"], c, failed),
           i \in IncrementalTurn(run["incremental"], c, failed) :
        run' = [eval |-> Ingested("eval", run["eval"], c, "eval" \notin failed),
                stress |-> s, incremental |-> i,
                frozen |-> FrozenIngested(run["frozen"], c, "frozen" \notin failed)]
  BY DEF Turn
<1>3. \A d \in Drivers : Filed(run[d]) /\ Indexed(d, run[d]) /\ Remembers(d, run[d])
  BY DEF GInv, Made
<1>4. \A d \in Drivers \ {"incremental"} : run[d].tree.turn = Len(turns)
  BY DEF GInv, IInv
<1>5. ASSUME NEW d \in {"eval", "stress", "incremental"},
             run[d].tree.turn = Len(turns), NEW embeds
      PROVE  LET a == Ingested(d, run[d], c, embeds)
             IN Filed(a) /\ Indexed(d, a) /\ a.compiled = "no"
  <2>1. d \in Drivers /\ d # "frozen"
    BY DEF Drivers
  <2>2. Filed(run[d]) /\ Mirrors(run[d])
    BY <1>3, <2>1 DEF Indexed
  <2> QED BY <1>1, <1>5, <2>1, <2>2, IngestedFiled DEF Indexed
<1>6. Q("eval", run'["eval"])
  <2>1. run'["eval"] = Ingested("eval", run["eval"], c, "eval" \notin failed)
    BY <1>2
  <2>2. run["eval"].tree.turn = Len(turns)
    BY <1>4 DEF Drivers
  <2> QED BY <1>5, <2>1, <2>2 DEF Remembers
<1>7. Q("stress", run'["stress"])
  <2> DEFINE r == Ingested("stress", run["stress"], c, "stress" \notin failed)
             asks == c[Len(c)].role = "user" /\ "stress query" \notin failed
  <2>1. run'["stress"] \in Compiled(r, asks)
    BY <1>2 DEF StressTurn
  <2>2. run["stress"].tree.turn = Len(turns)
    BY <1>4 DEF Drivers
  <2>3. Filed(r) /\ Indexed("stress", r)
    BY <1>5, <2>2
  <2>4. asks \in BOOLEAN
    OBVIOUS
  <2> HIDE DEF r, asks
  <2> QED BY <2>1, <2>3, <2>4, CompiledFiled
<1>8. Q("incremental", run'["incremental"])
  <2> DEFINE old == run["incremental"]
             r == Ingested("incremental", old, c, "incremental" \notin failed)
             asks == "incremental query" \notin failed
  <2>1. run'["incremental"] = i
    BY <1>2
  <2>2. CASE Len(c) > Max(Ends)
    <3>1. run'["incremental"] = old
      BY <1>2, <2>1, <2>2 DEF IncrementalTurn
    <3> QED BY <1>3, <3>1 DEF Drivers
  <2>3. CASE ~(Len(c) > Max(Ends))
    <3>1. i = r \/ i \in Compiled(r, asks)
      BY <1>2, <2>3 DEF IncrementalTurn
    <3>2. old.tree.turn = Len(turns)
      <4>1. ~(Len(turns) > Max(Ends))
        <5>1. Len(c) = Len(turns) + 1 /\ Len(turns) \in Nat
          BY <1>1
        <5> QED BY <2>3, <5>1, LastEnd
      <4> QED BY <4>1 DEF GInv, IInv, Drivers
    <3>3. Filed(r) /\ Indexed("incremental", r) /\ r.compiled = "no"
      BY <1>5, <3>2
    <3>4. asks \in BOOLEAN
      OBVIOUS
    <3> HIDE DEF r, asks
    <3>5. CASE i = r
      BY <2>1, <3>3, <3>5 DEF Remembers
    <3>6. CASE i \in Compiled(r, asks)
      BY <2>1, <3>3, <3>4, <3>6, CompiledFiled
    <3> QED BY <3>1, <3>5, <3>6
  <2> QED BY <2>2, <2>3
<1>9. Q("frozen", run'["frozen"])
  <2>1. run'["frozen"] = FrozenIngested(run["frozen"], c, "frozen" \notin failed)
    BY <1>2
  <2>2. /\ run["frozen"].tree.turn = Len(turns) /\ Filed(run["frozen"])
        /\ Indexed("frozen", run["frozen"])
    BY <1>3, <1>4 DEF Drivers
  <2>3. run["frozen"].active = run["frozen"].embedded /\ run["frozen"].archive = {}
    BY <2>2 DEF Indexed
  <2> DEFINE a == run'["frozen"]
  <2>4. Filed(a) /\ a.active = a.embedded /\ a.archive = {} /\ a.compiled = "no"
    BY <1>1, <2>1, <2>2, <2>3, FrozenFiled
  <2> HIDE DEF a
  <2>5. Q("frozen", a)
    BY <2>4 DEF Indexed, Remembers
  <2> QED BY <2>5 DEF a
<1> QED BY <1>6, <1>7, <1>8, <1>9 DEF Drivers

(* And what a question makes of them. *)
LEMMA AskFiled ==
  ASSUME GInv, NEW failed, Ask(failed)
  PROVE  \A d \in Drivers : Filed(run'[d]) /\ Indexed(d, run'[d]) /\ Remembers(d, run'[d])
<1> DEFINE Q(d, r) == Filed(r) /\ Indexed(d, r) /\ Remembers(d, r)
<1>1. PICK e \in Compiled(run["eval"], "eval query" \notin failed),
           f \in Compiled(run["frozen"], "frozen query" \notin failed) :
        run' = [run EXCEPT !["eval"] = e, !["frozen"] = f]
  BY DEF Ask
<1>2. \A d \in Drivers : Filed(run[d]) /\ Indexed(d, run[d]) /\ Remembers(d, run[d])
  BY DEF GInv, Made
<1>3. Q("eval", e)
  <2> DEFINE asks == "eval query" \notin failed
             r == run["eval"]
  <2>1. Filed(r) /\ Indexed("eval", r) /\ asks \in BOOLEAN /\ e \in Compiled(r, asks)
    BY <1>2 DEF Drivers
  <2> HIDE DEF asks, r
  <2> QED BY <2>1, CompiledFiled
<1>4. Q("frozen", f)
  <2> DEFINE asks == "frozen query" \notin failed
             r == run["frozen"]
  <2>1. Filed(r) /\ Indexed("frozen", r) /\ asks \in BOOLEAN /\ f \in Compiled(r, asks)
    BY <1>2 DEF Drivers
  <2> HIDE DEF asks, r
  <2> QED BY <2>1, CompiledFiled
<1>5. DOMAIN run = Drivers
  BY DEF GInv, IInv
<1> HIDE DEF Q
<1>6. \A d \in Drivers : Q(d, run[d])
  BY <1>2 DEF Q
<1>7. ASSUME NEW d \in Drivers PROVE Q(d, run'[d])
  <2>1. CASE d = "eval"
    <3>1. run'["eval"] = e
      BY <1>1, <1>5 DEF Drivers
    <3> QED BY <1>3, <2>1, <3>1
  <2>2. CASE d = "frozen"
    <3>1. run'["frozen"] = f
      BY <1>1, <1>5 DEF Drivers
    <3> QED BY <1>4, <2>2, <3>1
  <2>3. CASE d # "eval" /\ d # "frozen"
    BY <1>1, <1>5, <1>6, <2>3
  <2> QED BY <2>1, <2>2, <2>3
<1> QED BY <1>7 DEF Q

(* The turns that are still recent have not been archived: Steps. *)
LEMMA StaysYoung ==
  ASSUME GInv, [Next]_vars, \A d \in Drivers : Filed(run'[d])
  PROVE  \A d \in Drivers : Young(run'[d], turns')
<1> SUFFICES ASSUME NEW d \in Drivers, NEW n, Recent(turns', n), n <= run'[d].tree.turn
             PROVE  n \in ActiveNodes(run'[d])
  BY DEF Young
<1>1. /\ Young(run[d], turns) /\ Filed(run[d]) /\ Filed(run'[d]) /\ IInv
      /\ n \in ArchivedNodes(run'[d]) => n \in ArchivedNodes(run[d])
  BY Steps DEF GInv, Made
<1>2. n \in 0 .. run'[d].tree.turn
  BY <1>1, NodesShared DEF Recent, Filed
<1>3. n \in ArchivedNodes(run[d]) => n <= Len(turns) /\ n <= run[d].tree.turn
                                     /\ n \notin ActiveNodes(run[d])
  <2>1. /\ run[d].tree.turn \in Nat /\ run[d].tree.turn <= Len(turns)
        /\ ArchivedNodes(run[d]) \subseteq 0 .. run[d].tree.turn
        /\ ActiveNodes(run[d]) \cap ArchivedNodes(run[d]) = {}
    BY <1>1, NodesShared DEF Filed, IInv, RunOK, TreeOK
  <2> QED BY <1>2, <2>1 DEF IInv
<1>4. turns' = turns \/ \E t \in Turns : turns' = Append(turns, t)
  <2>1. turns \in Seq(Turns)
    BY <1>1 DEF IInv
  <2> QED BY <1>1, NextCases DEF Turn, Ask, vars
<1>5. n <= Len(turns) => Recent(turns, n)
  <2>1. CASE turns' = turns
    BY <2>1
  <2>2. ASSUME NEW t \in Turns, turns' = Append(turns, t), n <= Len(turns)
        PROVE  Recent(turns, n)
    <3>1. turns \in Seq(Turns)
      BY <1>1 DEF IInv
    <3>2. Len(turns') = Len(turns) + 1 /\ Len(turns) \in Nat
          /\ \A k \in 1 .. Len(turns) : turns'[k] = turns[k]
      BY <2>2, <3>1
    <3> QED BY <2>2, <3>2 DEF Recent
  <2> QED BY <1>4, <2>1, <2>2
<1>6. n \notin ArchivedNodes(run'[d])
  BY <1>1, <1>3, <1>5 DEF Young
<1> QED BY <1>1, <1>2, <1>6, NodesShared DEF Filed

LEMMA FewFailures ==
  ASSUME GInv, [Next]_vars
  PROVE  failures' \in 0 .. MaxFailures
<1>1. failures \in 0 .. MaxFailures /\ MaxFailures \in Nat
  BY ReplayAssumption DEF GInv
<1>2. ASSUME NEW S, IsFiniteSet(S), NEW failed \in SUBSET S, Fails(failed)
      PROVE  failures' \in 0 .. MaxFailures
  <2>1. Cardinality(failed) \in Nat
    BY <1>2, FS_Subset, FS_CardinalityType
  <2> QED BY <1>1, <1>2, <2>1 DEF Fails
<1>3. IsFiniteSet(TurnRequests) /\ IsFiniteSet(QuestionRequests)
  <2>1. ASSUME NEW a, NEW b PROVE IsFiniteSet({a, b})
    <3>1. {a, b} = {a} \cup {b}
      OBVIOUS
    <3>2. IsFiniteSet({a}) /\ b = b
      BY FS_Singleton
    <3> QED BY <3>1, <3>2, FS_AddElement
  <2>2. TurnRequests = ({"eval", "stress"} \cup {"incremental", "frozen"})
                         \cup {"stress query", "incremental query"}
    BY DEF TurnRequests, Drivers
  <2>3. QuestionRequests = {"eval query", "frozen query"}
    BY DEF QuestionRequests
  <2> QED BY <2>1, <2>2, <2>3, FS_Union
<1>4. ASSUME NEW t, NEW failed \in SUBSET TurnRequests, Turn(t, failed)
      PROVE  failures' \in 0 .. MaxFailures
  BY <1>2, <1>3, <1>4 DEF Turn
<1>5. ASSUME NEW failed \in SUBSET QuestionRequests, Ask(failed)
      PROVE  failures' \in 0 .. MaxFailures
  BY <1>2, <1>3, <1>5 DEF Ask
<1> QED BY <1>1, <1>4, <1>5 DEF Next, vars

LEMMA NextGInv ==
  ASSUME GInv, [Next]_vars
  PROVE  GInv'
<1>1. IInv' /\ failures' \in 0 .. MaxFailures
  BY Steps, FewFailures DEF GInv
<1>2. \A d \in Drivers : Filed(run'[d]) /\ Indexed(d, run'[d]) /\ Remembers(d, run'[d])
  <2>1. CASE UNCHANGED vars
    BY <2>1 DEF GInv, Made, vars
  <2> QED BY <2>1, NextCases, TurnFiled, AskFiled DEF GInv
<1>3. \A d \in Drivers : Young(run'[d], turns')
  BY <1>2, StaysYoung
<1> QED BY <1>1, <1>2, <1>3 DEF GInv, Made

LEMMA Invariance2 == Spec => []GInv
BY InitGInv, NextGInv, PTL DEF Spec

(* Every program keeps one node per turn it has read, every embedding it     *)
(* obtained is a key of one of its indexes, and a prompt names nodes of the  *)
(* tree only, whatever fails and whatever is collected.                      *)
THEOREM TypeCorrect == Spec => []TypeOK
<1>1. ASSUME GInv PROVE TypeOK
  <2>1. turns \in Seq(TurnRecords)
    <3>1. Turns \subseteq TurnRecords
      BY ScriptAssumption DEF Turns
    <3> QED BY <1>1, <3>1 DEF GInv, IInv
  <2>2. ASSUME NEW d \in Drivers PROVE IsRun(run[d])
    <3> DEFINE r == run[d]
    <3>1. Filed(r) /\ Indexed(d, r) /\ r.tree.turn \in Nat /\ r.tree.turn <= Len(turns)
      BY <1>1 DEF GInv, Made, IInv, RunOK, TreeOK
    <3>2. r.active \cup r.archive = r.embedded
      <4>1. r.embedded \subseteq ActiveNodes(r) \cup ArchivedNodes(r)
        BY <3>1, NodesShared DEF Filed
      <4> QED BY <3>1, <4>1 DEF Indexed, Mirrors
    <3>3. r.tree.turn \in 0 .. Len(turns)
      BY <1>1, <3>1 DEF GInv, IInv
    <3> HIDE DEF r
    <3>4. IsRun(r)
      BY <3>1, <3>2, <3>3 DEF IsRun, Filed
    <3> QED BY <3>4 DEF r
  <2> QED BY <1>1, <2>1, <2>2 DEF GInv, IInv, TypeOK
<1> QED BY <1>1, Invariance2, PTL

(* The loops that reconcile their indexes after a collection leave none      *)
(* behind: not a node whose request failed, nor one the collector took.      *)
THEOREM ReplaysMirror == Spec => []ReplaysMirrorTree
<1>1. ASSUME GInv PROVE ReplaysMirrorTree
  BY <1>1 DEF GInv, Made, Indexed, ReplaysMirrorTree
<1> QED BY <1>1, Invariance2, PTL

(* A semantic prompt whose index has room for all its keys considers every   *)
(* embedded node again, of every driver, however the index ranks its hits.   *)
THEOREM ArchivedReturn == Spec => []ArchivedComeBack
<1>1. ASSUME GInv PROVE ArchivedComeBack
  BY <1>1 DEF GInv, Made, Remembers, ArchivedComeBack
<1> QED BY <1>1, Invariance2, PTL

-----------------------------------------------------------------------------
(* What the selection for a prompt takes *)

(* Tokens add up, so fewer nodes have no more of them. *)
LEMMA TokensAdd ==
  ASSUME NEW t, Tree!TreeInv(t), NEW S, S \subseteq Tree!Nodes(t),
         NEW n \in Tree!Nodes(t), n \notin S
  PROVE  Eval!Tokens(t, S \cup {n}) = Eval!Tokens(t, S) + t.node[n].tokens
<1> DEFINE f == [m \in {n} |-> t.node[m].tokens]
<1>1. Tree!Tokens(t, S \cup {n}) = Tree!Tokens(t, S) + Tree!Tokens(t, {n})
  BY TreeAssumptions, Tree!TokensUnion
<1>2. Tree!Tokens(t, {n}) = Tree!Sum(f, {n})
  BY TreeAssumptions, Tree!TokensSum
<1>3. f[n] = t.node[n].tokens /\ f[n] \in Nat
  BY DEF Tree!TreeInv, Tree!IsTree, Tree!NodeRecords
<1> HIDE DEF f
<1>4. Tree!Sum(f, {} \cup {n}) = Tree!Sum(f, {}) + f[n]
  <2>1. n \notin {} /\ \A y \in {} \cup {n} : f[y] \in Int
    BY <1>3
  <2>2. Tree!IsFiniteSet({})
    BY TreeAssumptions, Tree!TreeFinite
  <2> QED BY <2>1, <2>2, TreeAssumptions, Tree!SumAdd
<1>5. Tree!Sum(f, {}) = 0
  BY TreeAssumptions, Tree!SumEmpty
<1>6. {} \cup {n} = {n}
  OBVIOUS
<1>7. Tree!Tokens(t, {n}) = t.node[n].tokens
  BY <1>2, <1>3, <1>4, <1>5, <1>6
<1> QED BY <1>1, <1>7, SameTokens

LEMMA TokensFewer ==
  ASSUME NEW t, Tree!TreeInv(t), NEW B, B \subseteq Tree!Nodes(t), NEW S, S \subseteq B
  PROVE  /\ Eval!Tokens(t, S) \in Nat /\ Eval!Tokens(t, B) \in Nat
         /\ Eval!Tokens(t, S) <= Eval!Tokens(t, B)
<1> DEFINE rest == B \ S
<1>1. S \subseteq Tree!Nodes(t) /\ rest \subseteq Tree!Nodes(t) /\ S \cap rest = {}
  OBVIOUS
<1>4. S \cup rest = B
  OBVIOUS
<1> HIDE DEF rest
<1>2. /\ Tree!Tokens(t, S) \in Nat /\ Tree!Tokens(t, rest) \in Nat
      /\ Tree!Tokens(t, B) \in Nat
  BY <1>1, TreeAssumptions, Tree!TreeFinite
<1>3. Tree!Tokens(t, S \cup rest) = Tree!Tokens(t, S) + Tree!Tokens(t, rest)
  BY <1>1, TreeAssumptions, Tree!TokensUnion
<1>5. Tree!Tokens(t, B) = Tree!Tokens(t, S) + Tree!Tokens(t, rest)
  BY <1>3, <1>4, Zenon
<1>6. Tree!Tokens(t, S) <= Tree!Tokens(t, B)
  BY <1>2, <1>5
<1> QED BY <1>2, <1>6, SameTokens

(* The recursion of Selections, and that it has a solution. *)
NextLook(r, c, P) ==
  UNION {{Looked(r, c, s, n) : n \in First(r, s.todo)} : s \in P}
Pass(r, c, all, K, g) ==
  [i \in 0 .. K |-> IF i = 0 THEN {[todo |-> all, taken |-> {}]}
                    ELSE NextLook(r, c, g[i - 1])]
Passes(r, c, all, K) == CHOOSE g : g = Pass(r, c, all, K, g)

LEMMA SelectionsAre ==
  ASSUME NEW r, NEW c
  PROVE  LET K == Cardinality(ActiveNodes(r))
         IN Selections(r, c) = {s.taken : s \in Passes(r, c, ActiveNodes(r), K)[K]}
BY Zenon DEF Selections, Passes, Pass, NextLook

LEMMA PassesExist ==
  ASSUME NEW r, NEW c, NEW all, NEW K \in Nat
  PROVE  Passes(r, c, all, K) = Pass(r, c, all, K, Passes(r, c, all, K))
<1> DEFINE Solved(k) == \E g : g = Pass(r, c, all, k, g)
           None == {k \in Nat : ~Solved(k)}
<1>1. None = {}
  <2> SUFFICES ASSUME None # {} PROVE FALSE
    OBVIOUS
  <2>1. PICK k \in None : \A j \in None : k <= j
    <3>1. None \subseteq Nat
      OBVIOUS
    <3> HIDE DEF None
    <3> QED BY <3>1, TreeAssumptions, Tree!LeastNat
  <2>2. k \in Nat /\ ~Solved(k) /\ \A j \in Nat : j < k => Solved(j)
    <3>1. k \in Nat /\ ~Solved(k)
      OBVIOUS
    <3>2. ASSUME NEW j \in Nat, j < k PROVE j \notin None
      <4> HIDE DEF None
      <4> QED BY <2>1, <3>1, <3>2
    <3> QED BY <3>1, <3>2
  <2> HIDE DEF None
  <2>3. CASE k = 0
    <3> DEFINE g == [i \in 0 .. 0 |-> {[todo |-> all, taken |-> {}]}]
    <3>1. \A i \in 0 .. 0 : i = 0
      OBVIOUS
    <3>2. g = Pass(r, c, all, 0, g)
      BY <3>1 DEF Pass
    <3> QED BY <2>2, <2>3, <3>2
  <2>4. CASE k # 0
    <3>1. k - 1 \in Nat /\ k - 1 < k
      BY <2>2, <2>4
    <3>2. PICK g : g = Pass(r, c, all, k - 1, g)
      BY <2>2, <3>1
    <3> DEFINE h == [i \in 0 .. k |-> IF i = k THEN NextLook(r, c, g[k - 1]) ELSE g[i]]
               u == Pass(r, c, all, k, h)
    <3>3. ASSUME NEW i \in 0 .. k PROVE h[i] = u[i]
      <4>1. u[i] = IF i = 0 THEN {[todo |-> all, taken |-> {}]}
                   ELSE NextLook(r, c, h[i - 1])
        BY DEF Pass
      <4>2. CASE i = k
        <5>1. h[i] = NextLook(r, c, g[k - 1]) /\ h[k - 1] = g[k - 1]
          BY <3>1, <4>2
        <5> HIDE DEF h, u
        <5> QED BY <2>4, <4>1, <4>2, <5>1
      <4>3. CASE i # k
        <5>1. i \in 0 .. k - 1
          BY <2>2, <4>3
        <5>2. g[i] = IF i = 0 THEN {[todo |-> all, taken |-> {}]}
                     ELSE NextLook(r, c, g[i - 1])
          BY <3>2, <5>1 DEF Pass
        <5>3. h[i] = g[i] /\ (i # 0 => h[i - 1] = g[i - 1])
          BY <2>2, <4>3, <5>1
        <5> HIDE DEF h, u
        <5> QED BY <4>1, <5>2, <5>3
      <4> QED BY <4>2, <4>3
    <3>4. h = [i \in 0 .. k |-> h[i]] /\ u = [i \in 0 .. k |-> u[i]]
      BY DEF Pass
    <3> HIDE DEF h, u
    <3>5. h = u
      BY <3>3, <3>4
    <3> QED BY <2>2, <3>5 DEF u
  <2> QED BY <2>3, <2>4
<1>2. Solved(K)
  BY <1>1
<1> QED BY <1>2, Zenon DEF Passes

(* The pass looks at what scores better first, so a node that fits behind    *)
(* all that does not score worse than it is taken.                           *)
Fitting(r, c, n) ==
  /\ r.tree.node[n].tokens > 0
  /\ Eval!Tokens(r.tree, {m \in ActiveNodes(r) : ~Better(r, n, m)}) <= Room(c)

InPass(r, n, s) ==
  /\ s.todo \subseteq ActiveNodes(r) /\ s.taken \subseteq ActiveNodes(r) \ s.todo
  /\ \A k \in ActiveNodes(r) \ s.todo : \A j \in s.todo : ~Better(r, j, k)
  /\ n \in s.todo \/ n \in s.taken

LEMMA LookKeeps ==
  ASSUME NEW r, Tree!TreeInv(r.tree), NEW c, Room(c) \in Int,
         NEW n \in ActiveNodes(r), Fitting(r, c, n),
         NEW s, InPass(r, n, s), NEW x \in First(r, s.todo)
  PROVE  InPass(r, n, Looked(r, c, s, x))
<1> DEFINE y == Looked(r, c, s, x)
<1>1. /\ s.todo \subseteq ActiveNodes(r) /\ s.taken \subseteq ActiveNodes(r) \ s.todo
      /\ \A k \in ActiveNodes(r) \ s.todo : \A j \in s.todo : ~Better(r, j, k)
      /\ n \in s.todo \/ n \in s.taken
  BY DEF InPass
<1>2. x \in s.todo /\ \A m \in s.todo : ~Better(r, m, x)
  BY DEF First
<1>3. y.todo = s.todo \ {x} /\ y.taken \in {s.taken, s.taken \cup {x}}
      /\ (Selects(r, c, s.taken, x) => y.taken = s.taken \cup {x})
  BY DEF Looked
<1> HIDE DEF y
<1>4. y.todo \subseteq ActiveNodes(r) /\ y.taken \subseteq ActiveNodes(r) \ y.todo
  BY <1>1, <1>2, <1>3
<1>5. ASSUME NEW k \in ActiveNodes(r) \ y.todo, NEW j \in y.todo PROVE ~Better(r, j, k)
  BY <1>1, <1>2, <1>3, <1>5
<1>6. ASSUME x = n PROVE Selects(r, c, s.taken, n)
  <2> DEFINE ahead == {m \in ActiveNodes(r) : ~Better(r, n, m)}
             before == {m \in s.taken : BucketOf(r, m) < BucketOf(r, n)}
             T(S) == Eval!Tokens(r.tree, S)
  <2>1. ActiveNodes(r) \subseteq Tree!Nodes(r.tree)
    BY SameSets DEF ActiveNodes, Tree!Active
  <2>2. s.taken \cup {n} \subseteq ahead /\ n \notin s.taken
    BY <1>1, <1>2, <1>6
  <2>3. ahead \subseteq Tree!Nodes(r.tree) /\ before \subseteq s.taken
        /\ s.taken \subseteq Tree!Nodes(r.tree) /\ n \in Tree!Nodes(r.tree)
    BY <1>1, <2>1
  <2>4. r.tree.node[n].tokens > 0 /\ T(ahead) <= Room(c)
    BY DEF Fitting
  <2>5. r.tree.node[n].tokens \in Nat
    BY <2>3 DEF Tree!TreeInv, Tree!IsTree, Tree!NodeRecords
  <2> HIDE DEF ahead, before
  <2>6. T(s.taken \cup {n}) = T(s.taken) + r.tree.node[n].tokens
    BY <2>2, <2>3, TokensAdd
  <2>7. T(s.taken \cup {n}) \in Nat /\ T(ahead) \in Nat
        /\ T(s.taken \cup {n}) <= T(ahead)
    BY <2>2, <2>3, TokensFewer
  <2>8. T(before) \in Nat /\ T(s.taken) \in Nat /\ T(before) <= T(s.taken)
    BY <2>3, TokensFewer
  <2> HIDE DEF T
  <2>9. /\ T(s.taken) + r.tree.node[n].tokens <= Room(c)
        /\ T(before) < Room(c)
    BY <2>4, <2>5, <2>6, <2>7, <2>8
  <2> QED BY <2>9 DEF Selects, T, before
<1>7. n \in y.todo \/ n \in y.taken
  BY <1>1, <1>3, <1>6
<1> QED BY <1>4, <1>5, <1>7 DEF InPass, y

LEMMA FittingIsTaken ==
  ASSUME NEW r, Tree!TreeInv(r.tree), NEW c, Room(c) \in Int,
         NEW n \in ActiveNodes(r), Fitting(r, c, n), NEW S \in Selections(r, c)
  PROVE  n \in S
<1> DEFINE all == ActiveNodes(r)
           K == Cardinality(all)
           p == Passes(r, c, all, K)
           In(i, s) == InPass(r, n, s) /\ Cardinality(s.todo) = K - i
           Bad == {i \in Nat : i <= K /\ \E s \in p[i] : ~In(i, s)}
<1>1. IsFiniteSet(all) /\ K \in Nat
  <2>1. all \subseteq Tree!Nodes(r.tree)
    BY SameSets DEF ActiveNodes, Tree!Active
  <2>2. r.tree.turn \in Int /\ 0 \in Int /\ Tree!Nodes(r.tree) = 0 .. r.tree.turn
    BY DEF Tree!TreeInv, Tree!IsTree, Tree!Nodes
  <2> HIDE DEF all
  <2>3. IsFiniteSet(0 .. r.tree.turn)
    BY <2>2, FS_Interval
  <2>4. IsFiniteSet(all)
    BY <2>1, <2>2, <2>3, FS_Subset
  <2> QED BY <2>4, FS_CardinalityType
<1>2. PICK last \in p[K] : S = last.taken
  BY SelectionsAre
<1>3. p = Pass(r, c, all, K, p)
  BY <1>1, PassesExist
<1> HIDE DEF p, K
<1>4. /\ p[0] = {[todo |-> all, taken |-> {}]}
      /\ \A i \in Nat : i <= K /\ i # 0 => p[i] = NextLook(r, c, p[i - 1])
  <2>1. 0 \in 0 .. K /\ \A i \in Nat : i <= K => i \in 0 .. K
    BY <1>1
  <2>2. \A i \in 0 .. K :
          p[i] = IF i = 0 THEN {[todo |-> all, taken |-> {}]}
                 ELSE NextLook(r, c, p[i - 1])
    <3> DEFINE q == Pass(r, c, all, K, p)
    <3>1. \A i \in 0 .. K :
            q[i] = IF i = 0 THEN {[todo |-> all, taken |-> {}]}
                   ELSE NextLook(r, c, p[i - 1])
      BY DEF Pass
    <3> HIDE DEF q
    <3> QED BY <1>3, <3>1 DEF q
  <2> QED BY <2>1, <2>2
<1>5. Bad = {}
  <2> SUFFICES ASSUME Bad # {} PROVE FALSE
    OBVIOUS
  <2>1. PICK i \in Bad : \A j \in Bad : i <= j
    <3>1. Bad \subseteq Nat
      OBVIOUS
    <3> HIDE DEF Bad
    <3> QED BY <3>1, TreeAssumptions, Tree!LeastNat
  <2>2. i \in Nat /\ i <= K /\ (\E s \in p[i] : ~In(i, s))
        /\ \A j \in Nat : j < i => \A s \in p[j] : In(j, s)
    <3>1. i \in Nat /\ i <= K /\ \E s \in p[i] : ~In(i, s)
      OBVIOUS
    <3>2. ASSUME NEW j \in Nat, j < i PROVE j \notin Bad /\ j <= K
      <4> HIDE DEF Bad
      <4> QED BY <1>1, <2>1, <3>1, <3>2
    <3> QED BY <3>1, <3>2
  <2> HIDE DEF Bad, In
  <2>3. PICK s \in p[i] : ~In(i, s)
    BY <2>2
  <2>4. CASE i = 0
    <3>1. s = [todo |-> all, taken |-> {}]
      BY <1>4, <2>3, <2>4
    <3>2. s.todo = all /\ s.taken = {} /\ n \in all
      BY <3>1
    <3> HIDE DEF all
    <3>3. InPass(r, n, s)
      BY <3>2 DEF InPass, all
    <3>4. Cardinality(s.todo) = K - 0
      BY <1>1, <3>2 DEF K
    <3> QED BY <2>3, <2>4, <3>3, <3>4 DEF In
  <2>5. CASE i # 0
    <3>1. i - 1 \in Nat /\ i - 1 < i
      BY <2>2, <2>5
    <3>2. p[i] = NextLook(r, c, p[i - 1])
      BY <1>4, <2>2, <2>5
    <3>3. PICK q \in p[i - 1] : \E x \in First(r, q.todo) : s = Looked(r, c, q, x)
      BY <2>3, <3>2 DEF NextLook
    <3>4. PICK x \in First(r, q.todo) : s = Looked(r, c, q, x)
      BY <3>3
    <3>5. In(i - 1, q)
      BY <2>2, <3>1, <3>3
    <3>6. InPass(r, n, s)
      BY <3>4, <3>5, LookKeeps DEF In
    <3>7. Cardinality(s.todo) = K - i
      <4>1. s.todo = q.todo \ {x} /\ x \in q.todo
        BY <3>4 DEF Looked, First
      <4>2. q.todo \subseteq all /\ Cardinality(q.todo) = K - (i - 1)
        BY <3>5 DEF In, InPass
      <4>3. IsFiniteSet(q.todo)
        BY <1>1, <4>2, FS_Subset
      <4>4. Cardinality(s.todo) = Cardinality(q.todo) - 1
        BY <4>1, <4>3, FS_RemoveElement
      <4> QED BY <1>1, <2>2, <4>2, <4>4
    <3> QED BY <2>3, <3>6, <3>7 DEF In
  <2> QED BY <2>4, <2>5
<1>6. In(K, last)
  <2>1. K \notin Bad /\ K <= K
    BY <1>1, <1>5
  <2> QED BY <1>1, <1>2, <2>1
<1>7. last.todo = {}
  <2>1. Cardinality(last.todo) = 0
    BY <1>1, <1>6
  <2>2. last.todo \subseteq all
    BY <1>6 DEF InPass
  <2>3. IsFiniteSet(last.todo)
    BY <1>1, <2>2, FS_Subset
  <2> QED BY <2>1, <2>3, FS_EmptySet
<1> QED BY <1>2, <1>6, <1>7 DEF InPass

(* The checks of the stress test fail for age, size, repetition and the      *)
(* token budget only: whatever the policy collected, what carries facts and  *)
(* what is recent is active, and what fits behind the nodes that go before   *)
(* it is in the prompt.                                                      *)
THEOREM CoherencyByAge == Spec => []CoherencyFollowsAge
<1>1. ASSUME GInv PROVE CoherencyFollowsAge
  <2> DEFINE r == run["stress"]
             safe(n) == \/ r.tree.node[n].keep
                        \/ /\ n > 0 /\ ~turns[n].filler /\ turns[n].role = "user"
                           /\ turns[n].tokens <= MaxTokensPerNode
                           /\ Len(turns) - n <= 8
             half(type) == 2 * Cardinality({n \in OfType(r, type) : safe(n)})
                             >= Cardinality(OfType(r, type))
             fits(n) == /\ turns[n].tokens > 0
                        /\ turns[Len(turns)].tokens
                             + Eval!Tokens(r.tree,
                                 {m \in ActiveNodes(r) : ~Better(r, n, m)})
                           <= TokenBudget
  <2>1. /\ Filed(r) /\ Young(r, turns) /\ turns \in Seq(Turns)
        /\ r.tree.turn = Len(turns)
    BY <1>1 DEF GInv, Made, IInv, Drivers
  <2>2. /\ r.tree.turn \in Nat /\ Eval!Nodes(r.tree) = 0 .. Len(turns)
        /\ \A n \in 0 .. r.tree.turn : r.tree.node[n].keep => n \in ActiveNodes(r)
    BY <2>1, NodesShared DEF Filed
  <2>3. ASSUME NEW n \in 0 .. Len(turns), safe(n) PROVE n \in ActiveNodes(r)
    <3>1. CASE r.tree.node[n].keep
      BY <2>1, <2>2, <3>1
    <3>2. CASE ~r.tree.node[n].keep
      <4>1. Recent(turns, n)
        BY <2>1, <2>2, <2>3, <3>2 DEF Recent
      <4> QED BY <2>1, <2>2, <4>1 DEF Young
    <3> QED BY <3>1, <3>2
  <2> HIDE DEF r, safe, fits
  <2>4. ASSUME NEW type, half(type) PROVE HalfRetained(r, type)
    <3> DEFINE all == OfType(r, type)
               kept == {n \in all : safe(n)}
    <3>1. all \subseteq 0 .. Len(turns)
      BY <2>2 DEF OfType
    <3>2. kept \subseteq all \cap ActiveNodes(r)
      BY <2>3, <3>1
    <3>3. IsFiniteSet(all)
      <4>1. 0 \in Int /\ Len(turns) \in Int
        BY <2>1
      <4> HIDE DEF all
      <4>2. IsFiniteSet(0 .. Len(turns))
        BY <4>1, FS_Interval
      <4> QED BY <3>1, <4>2, FS_Subset
    <3>4. 2 * Cardinality(kept) >= Cardinality(all)
      BY <2>4
    <3> HIDE DEF all, kept
    <3>5. IsFiniteSet(all \cap ActiveNodes(r)) /\ IsFiniteSet(kept)
      BY <3>2, <3>3, FS_Subset
    <3>6. Cardinality(kept) <= Cardinality(all \cap ActiveNodes(r))
      BY <3>2, <3>5, FS_Subset
    <3>7. /\ Cardinality(kept) \in Nat /\ Cardinality(all) \in Nat
          /\ Cardinality(all \cap ActiveNodes(r)) \in Nat
      BY <3>3, <3>5, FS_CardinalityType
    <3>8. 2 * Cardinality(all \cap ActiveNodes(r)) >= Cardinality(all)
      BY <3>4, <3>6, <3>7
    <3> QED BY <3>8 DEF HalfRetained, all
  <2>5. ASSUME NEW S \in Selections(r, turns), turns # <<>>,
               NEW n \in LastTurns(turns), safe(n), fits(n)
        PROVE  RecentIncluded(turns, S)
    <3>1. n \in 1 .. Len(turns) /\ n \in 0 .. Len(turns)
      BY <2>1 DEF LastTurns
    <3>2. n \in ActiveNodes(r) /\ SameTitle(turns, n, n)
      BY <2>3, <2>5, <3>1 DEF SameTitle
    <3> DEFINE last == turns[Len(turns)].tokens
               ahead == Eval!Tokens(r.tree, {m \in ActiveNodes(r) : ~Better(r, n, m)})
    <3>3. last \in Nat
      <4>1. turns[Len(turns)] \in Turns
        BY <2>1, <2>5
      <4> QED BY <4>1, TurnRecord
    <3>4. ahead \in Nat
      <4>1. {m \in ActiveNodes(r) : ~Better(r, n, m)} \subseteq Tree!Nodes(r.tree)
        BY SameSets DEF ActiveNodes, Tree!Active
      <4>2. Tree!TreeInv(r.tree)
        BY <2>1 DEF Filed
      <4> QED BY <4>1, <4>2, TokensFewer
    <3>5. last + ahead <= TokenBudget /\ turns[n].tokens > 0
      BY <2>5 DEF fits
    <3> HIDE DEF last, ahead
    <3>6. Room(turns) \in Int /\ ahead <= Room(turns)
      BY <3>3, <3>4, <3>5, LimitsAssumption DEF Room, last
    <3>7. r.tree.node[n].tokens = turns[n].tokens
      BY <1>1, <2>1, <3>1 DEF GInv, IInv, RunOK, TreeOK, Drivers, r
    <3>8. Fitting(r, turns, n)
      BY <3>5, <3>6, <3>7 DEF Fitting, ahead
    <3>9. n \in S
      BY <2>1, <2>5, <3>2, <3>6, <3>8, FittingIsTaken DEF Filed
    <3> QED BY <2>5, <3>2, <3>9 DEF RecentIncluded
  <2>6. ASSUME NEW S \in Selections(r, turns), turns # <<>>
        PROVE  LET check == CheckCoherency(r, turns, S) IN
               /\ half("goal") => check.goal
               /\ half("constraint") => check.constraint
               /\ (\E n \in LastTurns(turns) : safe(n) /\ fits(n)) => check.recent
    BY <2>4, <2>5, <2>6 DEF CheckCoherency
  <2> QED BY <2>6 DEF CoherencyFollowsAge, r, safe, fits
<1> QED BY <1>1, Invariance2, PTL

-----------------------------------------------------------------------------
(* What the semantic signal adds *)

(* The user's turns RelevantTurnsStay is about, to a scorer whose anchor is  *)
(* on their topic.                                                           *)
Relevant(r, c, n) ==
  /\ n \in 1 .. Len(c) /\ c[n].role = "user" /\ ~c[n].filler
  /\ c[n].tokens <= MaxTokensPerNode /\ Len(c) - n <= StaleAfterTurns
  /\ n \in r.embedded /\ r.anchor = c[n].topic

(* The cosine of one and the priority of a constraint reach the threshold    *)
(* without any help of recency, before staleness takes anything off.         *)
LEMMA RelevantIsWorthIt ==
  ASSUME 19 + SemanticWeight >= LowRelevanceThreshold,
         NEW type \in {"goal", "constraint"},
         NEW distance \in DOMAIN Recency, distance \in Int, distance <= StaleAfterTurns,
         NEW tokens \in Nat, tokens <= MaxTokensPerNode
  PROVE  ~Sweepable(type, RetentionScore(type, distance, 1, tokens, One))
<1>1. Redundancy(1) = 0
  BY DEF Redundancy, AtMost, One
<1>2. StalePenalty(distance) = 0
  BY DEF StalePenalty
<1>3. SizePenalty(tokens) = 0
  BY DEF SizePenalty
<1>4. PICK recency \in 0 .. 1000 : recency = Recency[distance]
  BY RecencyAssumption DEF One
<1>5. PICK priority \in 950 .. 1000 : priority = TypePriority(type)
  BY DEF TypePriority
<1>6. PICK weight \in 0 .. 100 : weight = SemanticWeight
  BY ScorerAssumption
<1>7. PICK threshold \in 0 .. 30 : threshold = LowRelevanceThreshold
  BY FloorAssumption
<1>8. RetentionScore(type, distance, 1, tokens, One) =
        Clamp(25 * recency + 20 * priority + weight * 1000)
  BY <1>1, <1>2, <1>3, <1>4, <1>5, <1>6 DEF RetentionScore, One
<1>9. ASSUME NEW x \in Int, x >= threshold * 1000
      PROVE  Clamp(x) \in Int /\ Clamp(x) >= threshold * 1000
  BY <1>9 DEF Clamp, AtMost, Points, One
<1>10. /\ 25 * recency + 20 * priority + weight * 1000 \in Int
       /\ 25 * recency + 20 * priority + weight * 1000 >= threshold * 1000
  BY <1>6, <1>7
<1>11. /\ RetentionScore(type, distance, 1, tokens, One) \in Int
       /\ RetentionScore(type, distance, 1, tokens, One) >= threshold * 1000
  BY <1>8, <1>9, <1>10
<1> QED BY <1>7, <1>11 DEF Sweepable, Points, One

LEMMA RelevantNotSwept ==
  ASSUME 19 + SemanticWeight >= LowRelevanceThreshold,
         NEW c \in Seq(Turns), Len(c) <= Len(Script), NEW r, RunOK(r, c),
         r.tree.turn = Len(c), NEW n, Relevant(r, c, n)
  PROVE  n \notin Swept(r, Scores(r, c))
<1> SUFFICES ASSUME n \in ActiveNodes(r)
             PROVE  ~Sweepable(r.tree.node[n].type, Scores(r, c)[n])
  BY DEF Swept, ActiveNodes, Eval!Candidates
<1>1. n \in 1 .. Len(c) /\ c[n] \in Turns
  BY DEF Relevant
<1>2. c[n].topic \in Topics /\ c[n].tokens \in Nat
  BY <1>1, TurnRecord
<1>3. Similarity[r.anchor, c[n].topic] = One /\ r.anchor # NoTopic
  <2>1. r.anchor = c[n].topic
    BY DEF Relevant
  <2>2. \A a \in Topics : Similarity[a, a] = One /\ a # NoTopic
    BY SimilarityAssumption
  <2> QED BY <1>2, <2>1, <2>2
<1>4. /\ r.tree.node[n].type \in {"goal", "constraint"}
      /\ r.tree.node[n].tokens = c[n].tokens
  BY <1>1 DEF Relevant, RunOK, TreeOK
<1>5. Copies(r, c, n) = 1
  BY OneCopy DEF Relevant
<1>6. Scores(r, c)[n] = RetentionScore(r.tree.node[n].type, r.tree.turn - n, 1,
                                       r.tree.node[n].tokens, One)
  BY <1>3, <1>5 DEF Scores, Relevant
<1>7. /\ r.tree.turn - n \in Int /\ r.tree.turn - n <= StaleAfterTurns
      /\ r.tree.turn - n \in DOMAIN Recency
  <2>1. /\ r.tree.turn - n \in Int /\ r.tree.turn - n <= StaleAfterTurns
        /\ r.tree.turn - n >= 0 /\ r.tree.turn - n <= Len(c) /\ Len(c) \in Nat
    BY <1>1 DEF Relevant
  <2>2. r.tree.turn - n \in 0 .. Len(Script)
    BY <2>1, ScriptAssumption
  <2> QED BY <2>1, <2>2, DistanceAssumption
<1>8. c[n].tokens <= MaxTokensPerNode
  BY DEF Relevant
<1> QED BY <1>2, <1>4, <1>6, <1>7, <1>8, RelevantIsWorthIt

(* Nor does the loop of the replays that keep their anchor archive it.       *)
LEMMA IngestedRelevant ==
  ASSUME 19 + SemanticWeight >= LowRelevanceThreshold,
         NEW c \in Seq(Turns), Len(c) < Len(Script), NEW t \in Turns,
         NEW r, RunOK(r, c), Filed(r), r.tree.turn = Len(c), NEW d, NEW embeds, NEW n
  PROVE  LET a == Ingested(d, r, Append(c, t), embeds)
         IN Relevant(a, Append(c, t), n) /\ n \in ArchivedNodes(a)
              => n \in ArchivedNodes(r)
<1> DEFINE q == Append(c, t)
           added == Added(r, q)
           node == IF embeds THEN Embedded(added, q) ELSE added
           done == ScoreThenCollect(d, node, q)
           a == Reconciled(node, done)
<1>1. q \in Seq(Turns) /\ q # <<>> /\ Len(q) = Len(c) + 1 /\ Len(c) \in Nat
  BY Longer
<1>2. /\ RunOK(added, q) /\ added.tree.turn = Len(q)
      /\ Tree!TreeInv(added.tree) /\ ArchivedNodes(added) = ArchivedNodes(r)
      /\ SameCounts(added, r)
  BY AddedOK, AddedRun DEF Filed
<1> HIDE DEF added, q
<1>3. RunOK(node, q) /\ node.tree = added.tree /\ SameCounts(node, r)
  <2>1. RunOK(Embedded(added, q), q) /\ Embedded(added, q).tree = added.tree
    BY <1>1, <1>2, EmbeddedOK
  <2>2. SameCounts(Embedded(added, q), added)
    BY <1>2, EmbeddedRun DEF RunOK
  <2> QED BY <1>2, <2>1, <2>2 DEF SameCounts
<1> HIDE DEF node
<1>4. /\ DOMAIN done = RunFields /\ SameIndexes(done, node) /\ done.anchor = node.anchor
      /\ \E swept \in SUBSET ActiveNodes(node) :
           /\ ArchivedNodes(done) = ArchivedNodes(node) \cup swept
           /\ \A m \in swept : m \in Swept(node, Scores(node, q))
  <2>1. DOMAIN node = RunFields /\ Tree!TreeInv(node.tree)
    BY <1>2, <1>3 DEF RunOK
  <2>2. node.gcRuns \in Nat /\ node.freed \in Nat
    <3>1. r.gcRuns \in Nat /\ r.freed \in Nat
      BY NodesShared DEF Filed
    <3> QED BY <1>3, <3>1 DEF SameCounts
  <2> HIDE DEF done
  <2> QED BY <2>1, <2>2, CollectedRun DEF done
<1> HIDE DEF done
<1>5. /\ a.tree = done.tree /\ a.embedded = done.embedded /\ a.anchor = done.anchor
  BY <1>4 DEF Reconciled, RunFields
<1> HIDE DEF a
<1>6. ASSUME Relevant(a, q, n), n \in ArchivedNodes(a) PROVE n \in ArchivedNodes(r)
  <2>1. Relevant(node, q, n)
    BY <1>4, <1>5, <1>6 DEF Relevant, SameIndexes
  <2>2. n \notin Swept(node, Scores(node, q))
    <3>1. Len(q) <= Len(Script)
      BY <1>1, ScriptAssumption
    <3> QED BY <1>1, <1>2, <1>3, <2>1, <3>1, RelevantNotSwept
  <2>3. n \in ArchivedNodes(node)
    BY <1>4, <1>5, <1>6, <2>2 DEF ArchivedNodes
  <2> QED BY <1>2, <1>3, <2>3 DEF ArchivedNodes
<1> QED BY <1>6 DEF Ingested, a, done, node, added, q

LEMMA CompiledSame ==
  ASSUME NEW r, DOMAIN r = RunFields, NEW semantic, NEW s \in Compiled(r, semantic)
  PROVE  s.tree = r.tree /\ s.anchor = r.anchor /\ s.embedded = r.embedded
<1>1. PICK hits : s = [r EXCEPT !.prompt = ActiveNodes(r) \cup hits,
                                !.compiled = IF semantic THEN "semantic" ELSE "plain"]
  BY DEF Compiled
<1> QED BY <1>1 DEF RunFields

(* The three programs that keep their anchor take a turn this way. *)
LEMMA TurnRelevant ==
  ASSUME 19 + SemanticWeight >= LowRelevanceThreshold,
         GInv, NEW t \in Turns, NEW failed, Turn(t, failed), Len(turns) < Len(Script),
         NEW d \in Drivers \ {"frozen"}, NEW n,
         Relevant(run'[d], turns', n), n \in ArchivedNodes(run'[d])
  PROVE  n \in ArchivedNodes(run[d])
<1> DEFINE c == Append(turns, t)
<1>1. turns \in Seq(Turns) /\ turns' = c
  BY DEF GInv, IInv, Turn
<1>2. PICK s \in StressTurn(run["stress"], c, failed),
           i \in IncrementalTurn(run["incremental"], c, failed) :
        run' = [eval |-> Ingested("eval", run["eval"], c, "eval" \notin failed),
                stress |-> s, incremental |-> i,
                frozen |-> FrozenIngested(run["frozen"], c, "frozen" \notin failed)]
  BY DEF Turn
<1>3. \A x \in Drivers : Filed(run[x]) /\ RunOK(run[x], turns)
  BY DEF GInv, Made, IInv
<1>4. ASSUME NEW x, run[x].tree.turn = Len(turns), x \in Drivers, NEW embeds, NEW a,
             LET i1 == Ingested(x, run[x], c, embeds)
             IN a = i1 \/ \E semantic : a \in Compiled(i1, semantic),
             Relevant(a, c, n), n \in ArchivedNodes(a)
      PROVE  n \in ArchivedNodes(run[x])
  <2> DEFINE i1 == Ingested(x, run[x], c, embeds)
  <2>1. DOMAIN i1 = RunFields
    BY <1>1, <1>3, <1>4, IngestedOK DEF Follows, RunOK
  <2>2. Relevant(i1, c, n) /\ n \in ArchivedNodes(i1) => n \in ArchivedNodes(run[x])
    BY <1>1, <1>3, <1>4, IngestedRelevant
  <2> HIDE DEF i1, c
  <2>3. a.tree = i1.tree /\ a.anchor = i1.anchor /\ a.embedded = i1.embedded
    BY <1>4, <2>1, CompiledSame DEF i1
  <2> QED BY <1>4, <2>2, <2>3 DEF Relevant, ArchivedNodes
<1>5. run["eval"].tree.turn = Len(turns) /\ run["stress"].tree.turn = Len(turns)
  BY DEF GInv, IInv, Drivers
<1>6. CASE d = "eval"
  <2>1. run'["eval"] = Ingested("eval", run["eval"], c, "eval" \notin failed)
    BY <1>2
  <2> QED BY <1>1, <1>4, <1>5, <1>6, <2>1
<1>7. CASE d = "stress"
  <2>1. \E semantic : run'["stress"]
          \in Compiled(Ingested("stress", run["stress"], c, "stress" \notin failed), semantic)
    BY <1>2 DEF StressTurn
  <2> QED BY <1>1, <1>4, <1>5, <1>7, <2>1
<1>8. CASE d = "incremental"
  <2>1. run'["incremental"] = i
    BY <1>2
  <2>2. CASE Len(c) > Max(Ends)
    <3>1. run'["incremental"] = run["incremental"]
      BY <1>2, <2>1, <2>2 DEF IncrementalTurn
    <3> QED BY <1>8, <3>1
  <2>3. CASE ~(Len(c) > Max(Ends))
    <3>1. LET i1 == Ingested("incremental", run["incremental"], c, "incremental" \notin failed)
          IN i = i1 \/ \E semantic : i \in Compiled(i1, semantic)
      BY <1>2, <2>3 DEF IncrementalTurn
    <3>2. run["incremental"].tree.turn = Len(turns)
      <4>1. ~(Len(turns) > Max(Ends))
        <5>1. Len(c) = Len(turns) + 1 /\ Len(turns) \in Nat
          BY <1>1
        <5> QED BY <2>3, <5>1, LastEnd
      <4> QED BY <4>1 DEF GInv, IInv, Drivers
    <3> QED BY <1>1, <1>4, <1>8, <2>1, <3>1, <3>2
  <2> QED BY <2>2, <2>3
<1> QED BY <1>6, <1>7, <1>8 DEF Drivers

(* With weights at which topic and type outweigh the threshold, as those of  *)
(* DefaultWeights do (0.20 against 0.30), an ordinary turn of the user on    *)
(* the topic of the question stays until it is stale.                        *)
THEOREM RelevantStay ==
  ASSUME 19 + SemanticWeight >= LowRelevanceThreshold
  PROVE  Spec => RelevantTurnsStay
<1>1. ASSUME GInv, [Next]_vars, NEW d \in Drivers \ {"frozen"}, NEW n \in Archives(d),
             Ordinary(d, n), n \in run'[d].embedded, run'[d].anchor = turns'[n].topic
      PROVE  Len(turns') - n > StaleAfterTurns
  <2>1. n \in ArchivedNodes(run'[d]) /\ n \notin ArchivedNodes(run[d])
    BY <1>1 DEF Archives, ArchivedNodes
  <2>2. Len(turns') \in Nat /\ n \in 0 .. Len(turns')
    <3>1. IInv'
      BY <1>1, Steps DEF GInv
    <3> QED BY <2>1, <3>1 DEF IInv, RunOK, TreeOK, ArchivedNodes, Eval!Archived, Eval!Nodes
  <2>3. ~Relevant(run'[d], turns', n)
    <3>1. ASSUME NEW t \in Turns, NEW failed, Turn(t, failed), Len(turns) < Len(Script)
          PROVE  ~Relevant(run'[d], turns', n)
      BY <1>1, <2>1, <3>1, TurnRelevant
    <3>2. ASSUME NEW failed, Ask(failed) PROVE FALSE
      <4>1. run'[d].tree = run[d].tree
        BY <1>1, <3>2, AskKeeps DEF GInv
      <4> QED BY <2>1, <4>1 DEF ArchivedNodes
    <3>3. CASE UNCHANGED vars
      BY <2>1, <3>3 DEF vars
    <3> QED BY <1>1, <3>1, <3>2, <3>3, NextCases DEF GInv
  <2>4. StaleAfterTurns \in Nat
    BY ScorerAssumption
  <2> QED BY <1>1, <2>2, <2>3, <2>4 DEF Ordinary, Relevant
<1>2. GInv /\ [Next]_vars
        => [\A d \in Drivers \ {"frozen"} : \A n \in Archives(d) :
              /\ Ordinary(d, n) /\ n \in run'[d].embedded
              /\ run'[d].anchor = turns'[n].topic
              => Len(turns') - n > StaleAfterTurns]_vars
  BY <1>1
<1> QED BY <1>2, Invariance2, PTL DEF Spec, RelevantTurnsStay

-----------------------------------------------------------------------------
(* The windows of the strategies without a tree *)

(* The recursion of Select, which takes the places D of order from the last. *)
Fits(c, taken, n) == CostOf(c, taken) + c[n].tokens <= TokenBudget
Step(c, taken, n) == IF Fits(c, taken, n) THEN taken \cup {n} ELSE taken
Taken(c, order, D, g) ==
  [s \in SUBSET D |-> IF s = {} THEN {}
                      ELSE Step(c, g[s \ {Max(s)}], order[Max(s)])]
Window(c, order, D) == CHOOSE g : g = Taken(c, order, D, g)

LEMMA SelectIs ==
  ASSUME NEW c, NEW order
  PROVE  Select(c, order) = Window(c, order, DOMAIN order)[DOMAIN order]
BY Zenon DEF Select, FoldLeft, MapThenFoldSet, Window, Taken, Step, Fits

LEMMA LastIs ==
  ASSUME NEW k \in Nat, NEW s, s \subseteq 1 .. k, k \in s
  PROVE  Max(s) = k
<1>1. \A x \in s : k >= x
  OBVIOUS
<1>2. \A x \in s : x >= k => x = k
  OBVIOUS
<1> QED BY <1>1, <1>2 DEF Max

(* The recursion has a solution over any number of places: the first number  *)
(* without one would get one from its predecessor's.                         *)
LEMMA WindowExists ==
  ASSUME NEW c, NEW order, NEW L \in Nat
  PROVE  Window(c, order, 1 .. L) = Taken(c, order, 1 .. L, Window(c, order, 1 .. L))
<1> DEFINE Solved(k) == \E g : g = Taken(c, order, 1 .. k, g)
           None == {k \in Nat : ~Solved(k)}
<1>1. None = {}
  <2> SUFFICES ASSUME None # {} PROVE FALSE
    OBVIOUS
  <2>1. PICK k \in None : \A j \in None : k <= j
    <3>1. None \subseteq Nat
      OBVIOUS
    <3> HIDE DEF None
    <3> QED BY <3>1, TreeAssumptions, Tree!LeastNat
  <2>2. k \in Nat /\ ~Solved(k) /\ \A j \in Nat : j < k => Solved(j)
    <3>1. k \in Nat /\ ~Solved(k)
      OBVIOUS
    <3>2. ASSUME NEW j \in Nat, j < k PROVE j \notin None
      <4> HIDE DEF None
      <4> QED BY <2>1, <3>1, <3>2
    <3> QED BY <3>1, <3>2
  <2> HIDE DEF None
  <2>3. CASE k = 0
    <3> DEFINE g == [s \in SUBSET (1 .. 0) |-> {}]
    <3>1. \A s \in SUBSET (1 .. 0) : s = {}
      OBVIOUS
    <3>2. g = Taken(c, order, 1 .. 0, g)
      BY <3>1 DEF Taken
    <3> QED BY <2>2, <2>3, <3>2
  <2>4. CASE k # 0
    <3>1. k - 1 \in Nat /\ k - 1 < k
      BY <2>2, <2>4
    <3>2. PICK g : g = Taken(c, order, 1 .. k - 1, g)
      BY <2>2, <3>1
    <3> DEFINE h == [s \in SUBSET (1 .. k) |->
                       IF k \in s THEN Step(c, g[s \ {k}], order[k]) ELSE g[s]]
    <3>3. ASSUME NEW s \in SUBSET (1 .. k)
          PROVE  h[s] = Taken(c, order, 1 .. k, h)[s]
      <4>1. Taken(c, order, 1 .. k, h)[s]
              = IF s = {} THEN {} ELSE Step(c, h[s \ {Max(s)}], order[Max(s)])
        BY DEF Taken
      <4>2. CASE k \in s
        <5>1. Max(s) = k /\ s # {}
          BY <2>2, <4>2, LastIs
        <5>2. h[s \ {k}] = g[s \ {k}]
          OBVIOUS
        <5> HIDE DEF h
        <5>3. h[s] = Step(c, g[s \ {k}], order[k])
          BY <4>2 DEF h
        <5> QED BY <4>1, <5>1, <5>2, <5>3
      <4>3. CASE k \notin s
        <5>1. s \in SUBSET (1 .. k - 1)
          BY <2>2, <4>3
        <5>2. g[s] = IF s = {} THEN {} ELSE Step(c, g[s \ {Max(s)}], order[Max(s)])
          BY <3>2, <5>1 DEF Taken
        <5>3. h[s] = g[s] /\ h[s \ {Max(s)}] = g[s \ {Max(s)}]
          BY <4>3
        <5> HIDE DEF h
        <5> QED BY <4>1, <5>2, <5>3
      <4> QED BY <4>2, <4>3
    <3>4. h = Taken(c, order, 1 .. k, h)
      <4> DEFINE u == Taken(c, order, 1 .. k, h)
      <4>1. u = [s \in SUBSET (1 .. k) |-> u[s]]
        BY DEF Taken
      <4>2. h = [s \in SUBSET (1 .. k) |-> h[s]]
        OBVIOUS
      <4> HIDE DEF h, u
      <4>3. h = u
        BY <3>3, <4>1, <4>2 DEF u
      <4> QED BY <4>3 DEF u
    <3> HIDE DEF h
    <3> QED BY <2>2, <3>4
  <2> QED BY <2>3, <2>4
<1>2. Solved(L)
  BY <1>1
<1> QED BY <1>2, Zenon DEF Window

(* What was taken at the places before the j-th. *)
Earlier(order, S, j) == {m \in S : \E i \in 1 .. j - 1 : m = order[i]}

GreedyTo(c, order, w, k) ==
  /\ w[1 .. k] \subseteq {order[i] : i \in 1 .. k}
  /\ \A j \in 1 .. k :
       /\ order[j] \in w[1 .. k] <=> Fits(c, w[1 .. j - 1], order[j])
       /\ Earlier(order, w[1 .. k], j) = w[1 .. j - 1]

(* What is taken at each place is what fits behind the places before it.     *)
LEMMA WindowAt ==
  ASSUME NEW c, NEW L \in Nat, NEW order \in [1 .. L -> 1 .. L],
         \A i, j \in 1 .. L : order[i] = order[j] => i = j,
         NEW w, w = Window(c, order, 1 .. L)
  PROVE  \A k \in 0 .. L : GreedyTo(c, order, w, k)
<1> DEFINE Placed(k) == w[1 .. k] \subseteq {order[i] : i \in 1 .. k}
           Chosen(k, j) == order[j] \in w[1 .. k] <=> Fits(c, w[1 .. j - 1], order[j])
           Before(k, j) == Earlier(order, w[1 .. k], j) = w[1 .. j - 1]
           P(k) == Placed(k) /\ \A j \in 1 .. k : Chosen(k, j) /\ Before(k, j)
           Bad == {k \in 0 .. L : ~P(k)}
<1>1. w = Taken(c, order, 1 .. L, w)
  BY WindowExists
<1>2. w[{}] = {}
  BY <1>1 DEF Taken
<1>3. ASSUME NEW k \in 1 .. L
      PROVE  w[1 .. k] = Step(c, w[1 .. k - 1], order[k])
  <2>1. k \in Nat /\ k \in 1 .. k /\ 1 .. k \subseteq 1 .. L
    OBVIOUS
  <2>2. (1 .. k) \ {k} = 1 .. k - 1
    BY <2>1
  <2>3. Max(1 .. k) = k
    BY <2>1, LastIs
  <2>4. w[1 .. k] = Step(c, w[(1 .. k) \ {Max(1 .. k)}], order[Max(1 .. k)])
    <3>1. 1 .. k \in SUBSET (1 .. L) /\ 1 .. k # {}
      BY <2>1
    <3> QED BY <1>1, <3>1 DEF Taken
  <2> QED BY <2>2, <2>3, <2>4
<1>4. Bad = {}
  <2> SUFFICES ASSUME Bad # {} PROVE FALSE
    OBVIOUS
  <2>1. PICK k \in Bad : \A j \in Bad : k <= j
    <3>1. Bad \subseteq Nat
      OBVIOUS
    <3> HIDE DEF Bad
    <3> QED BY <3>1, TreeAssumptions, Tree!LeastNat
  <2>2. k \in 0 .. L /\ ~P(k)
    OBVIOUS
  <2>3. ASSUME NEW j \in 0 .. L, j < k PROVE P(j)
    <3>1. j \notin Bad
      <4> HIDE DEF Bad
      <4> QED BY <2>1, <2>2, <2>3
    <3> QED BY <3>1
  <2> HIDE DEF Bad
  <2>4. k # 0
    <3>1. 1 .. 0 = {}
      OBVIOUS
    <3>2. P(0)
      BY <1>2, <3>1
    <3> QED BY <2>2, <3>2
  <2> DEFINE old == w[1 .. k - 1]
             n == order[k]
  <2>5. /\ k \in 1 .. L /\ k - 1 \in 0 .. L /\ k - 1 < k
        /\ w[1 .. k] = IF Fits(c, old, n) THEN old \cup {n} ELSE old
    <3>1. k \in 1 .. L /\ k - 1 \in 0 .. L /\ k - 1 < k
      BY <2>2, <2>4
    <3> QED BY <1>3, <3>1 DEF Step
  <2>6. Placed(k - 1) /\ \A j \in 1 .. k - 1 : Chosen(k - 1, j) /\ Before(k - 1, j)
    BY <2>3, <2>5
  <2>7. n \notin old /\ \A i \in 1 .. k - 1 : order[i] # n
    BY <2>5, <2>6
  <2>8. Placed(k)
    <3>1. \A i \in 1 .. k - 1 : i \in 1 .. k
      BY <2>5
    <3>2. k \in 1 .. k
      BY <2>5
    <3> QED BY <2>5, <2>6, <3>1, <3>2
  <2>9. Chosen(k, k)
    BY <2>5, <2>7
  <2>10. Before(k, k)
    <3>1. \A m \in old : \E i \in 1 .. k - 1 : m = order[i]
      BY <2>6
    <3>2. w[1 .. k] \subseteq old \cup {n} /\ old \subseteq w[1 .. k]
      BY <2>5
    <3>3. ~\E i \in 1 .. k - 1 : n = order[i]
      BY <2>7
    <3> HIDE DEF old, n
    <3>4. Earlier(order, w[1 .. k], k) = old
      BY <3>1, <3>2, <3>3 DEF Earlier
    <3> QED BY <3>4 DEF old
  <2>11. ASSUME NEW j \in 1 .. k - 1 PROVE Chosen(k, j) /\ Before(k, j)
    <3>1. order[j] # n
      BY <2>7
    <3>2. Chosen(k - 1, j) /\ Before(k - 1, j)
      BY <2>6
    <3>3. \A i \in 1 .. j - 1 : order[i] # n
      <4>1. \A i \in 1 .. j - 1 : i \in 1 .. k - 1
        BY <2>5
      <4> QED BY <2>7, <4>1
    <3> HIDE DEF n
    <3>4. Chosen(k, j)
      BY <2>5, <3>1, <3>2
    <3>5. Before(k, j)
      BY <2>5, <3>2, <3>3 DEF Earlier
    <3> QED BY <3>4, <3>5
  <2>12. \A j \in 1 .. k : j = k \/ j \in 1 .. k - 1
    BY <2>5
  <2> HIDE DEF Placed, Chosen, Before
  <2>13. \A j \in 1 .. k : Chosen(k, j) /\ Before(k, j)
    BY <2>9, <2>10, <2>11, <2>12
  <2> QED BY <2>2, <2>8, <2>13
<1>5. \A k \in 0 .. L : P(k)
  BY <1>4
<1> QED BY <1>5 DEF GreedyTo

LEMMA SelectGreedy ==
  ASSUME NEW c, NEW L \in Nat, NEW order \in [1 .. L -> 1 .. L],
         \A i, j \in 1 .. L : order[i] = order[j] => i = j,
         NEW taken, taken = Select(c, order)
  PROVE  /\ taken \subseteq 1 .. L
         /\ \A j \in 1 .. L :
              order[j] \in taken <=> Fits(c, Earlier(order, taken, j), order[j])
<1>1. PICK w : w = Window(c, order, 1 .. L)
  OBVIOUS
<1>2. taken = w[1 .. L]
  BY <1>1, SelectIs
<1>3. GreedyTo(c, order, w, L)
  <2>1. L \in 0 .. L
    OBVIOUS
  <2> QED BY <1>1, <2>1, WindowAt
<1>4. {order[i] : i \in 1 .. L} \subseteq 1 .. L
  OBVIOUS
<1>5. taken \subseteq 1 .. L
  BY <1>2, <1>3, <1>4 DEF GreedyTo
<1>6. ASSUME NEW j \in 1 .. L
      PROVE  order[j] \in taken <=> Fits(c, Earlier(order, taken, j), order[j])
  <2>1. Earlier(order, taken, j) = w[1 .. j - 1]
    BY <1>2, <1>3 DEF GreedyTo
  <2>2. order[j] \in taken <=> Fits(c, w[1 .. j - 1], order[j])
    BY <1>2, <1>3 DEF GreedyTo
  <2> QED BY <2>1, <2>2
<1> QED BY <1>5, <1>6

(* naive and sliding do not stop at the first turn that does not fit: a turn *)
(* is left out exactly when the older or newer ones that were taken leave no *)
(* room for it.                                                              *)
THEOREM WindowsGreedy == Spec => []WindowsAreGreedy
<1>1. ASSUME IInv PROVE WindowsAreGreedy
  <2> DEFINE L == Len(turns)
             up == [i \in DOMAIN turns |-> i]
             down == [i \in DOMAIN turns |-> L + 1 - i]
  <2>1. L \in Nat /\ DOMAIN turns = 1 .. L
    BY <1>1 DEF IInv
  <2> HIDE DEF L
  <2>2. ASSUME NEW n \in 1 .. L
        PROVE  n \in Naive(turns) <=>
                 Fits(turns, {m \in Naive(turns) : m < n}, n)
    <3>1. /\ up \in [1 .. L -> 1 .. L] /\ up[n] = n
          /\ \A i, j \in 1 .. L : up[i] = up[j] => i = j
      BY <2>1
    <3>2. /\ Naive(turns) \subseteq 1 .. L
          /\ \A j \in 1 .. L :
               up[j] \in Naive(turns) <=> Fits(turns, Earlier(up, Naive(turns), j), up[j])
      <4>1. Naive(turns) = Select(turns, up)
        BY DEF Naive
      <4> HIDE DEF up
      <4> QED BY <2>1, <3>1, <4>1, SelectGreedy
    <3>3. \A m \in 1 .. L : (\E i \in 1 .. n - 1 : m = up[i]) <=> m < n
      <4>1. \A i \in 1 .. n - 1 : up[i] = i
        BY <2>1
      <4> HIDE DEF up
      <4> QED BY <2>1, <4>1
    <3> HIDE DEF up
    <3>4. Earlier(up, Naive(turns), n) = {m \in Naive(turns) : m < n}
      BY <3>2, <3>3 DEF Earlier
    <3> QED BY <3>1, <3>2, <3>4
  <2>3. ASSUME NEW n \in 1 .. L
        PROVE  n \in Sliding(turns) <=>
                 Fits(turns, {m \in Sliding(turns) : m > n}, n)
    <3> DEFINE p == L + 1 - n
    <3>1. /\ down \in [1 .. L -> 1 .. L] /\ down[p] = n /\ p \in 1 .. L
          /\ \A i, j \in 1 .. L : down[i] = down[j] => i = j
      BY <2>1
    <3>2. /\ Sliding(turns) \subseteq 1 .. L
          /\ \A j \in 1 .. L :
               down[j] \in Sliding(turns)
                 <=> Fits(turns, Earlier(down, Sliding(turns), j), down[j])
      <4>1. Sliding(turns) = Select(turns, down)
        BY DEF Sliding, L
      <4> HIDE DEF down, p
      <4> QED BY <2>1, <3>1, <4>1, SelectGreedy
    <3>3. \A m \in 1 .. L : (\E i \in 1 .. p - 1 : m = down[i]) <=> m > n
      <4>1. \A i \in 1 .. p - 1 : down[i] = L + 1 - i /\ i \in 1 .. L
        BY <2>1
      <4> HIDE DEF down
      <4>2. ASSUME NEW m \in 1 .. L, m > n PROVE L + 1 - m \in 1 .. p - 1
                                                /\ m = L + 1 - (L + 1 - m)
        BY <2>1, <4>2
      <4>3. ASSUME NEW i \in 1 .. p - 1 PROVE down[i] > n
        BY <2>1, <4>1
      <4> QED BY <4>1, <4>2, <4>3
    <3> HIDE DEF down, p
    <3>4. Earlier(down, Sliding(turns), p) = {m \in Sliding(turns) : m > n}
      BY <3>2, <3>3 DEF Earlier
    <3> QED BY <3>1, <3>2, <3>4
  <2> QED BY <2>1, <2>2, <2>3 DEF WindowsAreGreedy, Greedy, Fits
<1> QED BY <1>1, Invariance, PTL

=============================================================================
