------------------------------- MODULE DurableLog -------------------------------
(***************************************************************************)
(* What a session promises about its history, whoever serves it: a log     *)
(* that is only appended to, and that falls back to the last saved copy,   *)
(* whole, when the process serving it goes away.  Only a fault of the      *)
(* store may make the history start over, and a server that comes or goes  *)
(* may meet several at once.  SessionManager, SemanticMemory and the tree  *)
(* of ContextTree implement it.                                            *)
(***************************************************************************)
EXTENDS Integers, Sequences

CONSTANT Entry

VARIABLES
  log,     \* the history of the session, one entry per turn
  saved,   \* the copy a new server starts from
  faults   \* operations of the store that failed so far

vars == <<log, saved, faults>>

Init == log = <<>> /\ saved = <<>> /\ faults = 0

Extend ==
  /\ \E e \in Entry : log' = Append(log, e)
  /\ UNCHANGED <<saved, faults>>

Save == saved' = log /\ UNCHANGED <<log, faults>>

FallBack == log' = saved /\ faults' >= faults /\ UNCHANGED saved

(* The only step that may forget what was saved. *)
StartOver == log' = <<>> /\ faults' > faults /\ UNCHANGED saved

Fault == faults' > faults /\ UNCHANGED <<log, saved>>

Next == Extend \/ Save \/ FallBack \/ StartOver \/ Fault

Spec == Init /\ [][Next]_vars
=============================================================================
