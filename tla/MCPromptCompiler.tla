---------------------------- MODULE MCPromptCompiler ----------------------------
(* Instances of PromptCompiler for TLC.  The nodes differ in bucket, cost   *)
(* and score; one has no tokens, like the root of a tree.                   *)
EXTENDS PromptCompiler, TLC

Input(type, tokens, score, semantic) ==
  [type |-> type, tokens |-> tokens, summary |-> tokens, line |-> tokens + 1,
   extra |-> 0, score |-> score, semantic |-> semantic]

MCInputs ==
  {Input("goal", 0, 0, 0), Input("goal", 2, 1, 1), Input("decision", 1, 0, 0),
   Input("decision", 2, 1, 1), Input("issue", 1, 1, 0), Input("attempt", 3, 1, 0)}

(* Nothing tells one id from another. *)
Symmetry == Permutations(Ids)
=============================================================================
