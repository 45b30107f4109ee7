---- MODULE MCContextReplay ----
EXTENDS ContextReplay
user(topic, text, tokens) ==
  [role |-> "user", rule |-> FALSE, text |-> text, tokens |-> tokens,
   topic |-> topic, filler |-> FALSE]
rule == [user("a", "plain", 1) EXCEPT !.rule = TRUE]
goOn == [user("b", "plain", 1) EXCEPT !.filler = TRUE]
reply(text) ==
  [role |-> "assistant", rule |-> FALSE, text |-> text,
   tokens |-> IF text = "blank" THEN 0 ELSE 1, topic |-> "a", filler |-> FALSE]
A == user("a", "plain", 1)
B == user("b", "plain", 4)
long == user("b", "plain", 9)
answer == {reply("plain")}

MCScript ==
  << {A, B}, {reply("blank")}, {A, rule}, answer, {A, goOn}, answer,
     {goOn}, answer, {user("b", "facts", 2), goOn}, answer, {A}, answer, {long, goOn},
     answer >>

MCSimilarity ==
  [x, y \in {"a", "b"} |-> IF x = y THEN 1000 ELSE 300]

(* round(1000 * exp(-0.1 * d)) *)
MCRecency ==
  [d \in 0 .. 16 |->
     <<1000, 905, 819, 741, 670, 607, 549, 497, 449, 407, 368, 333, 301, 273,
       247, 223, 202>>[d + 1]]
====
