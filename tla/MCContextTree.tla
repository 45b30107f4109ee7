----------------------------- MODULE MCContextTree -----------------------------
(* Instances of ContextTree for TLC: the events are the ones that differ in  *)
(* node type, in protection from the sweep, or in size.                      *)
EXTENDS ContextTree

Event(type, rule, text, tokens) ==
  [type |-> type, rule |-> rule, text |-> text, tokens |-> tokens]

MCEvents ==
  { Event("user_prompt", FALSE, "plain", 1),
    Event("llm_response", FALSE, "plain", 1),
    Event("tool_result", FALSE, "plain", 2) }
=============================================================================
