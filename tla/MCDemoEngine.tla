---------------------------- MODULE MCDemoEngine ----------------------------
(* The script of a small demo: two seeded turns, one of them long, and two  *)
(* live user turns with the scripted answers that are passed over.  The     *)
(* first live question is long enough to push the seeds out, the probe      *)
(* short enough to let one back in if it were not history.                  *)
EXTENDS DemoEngine

Turn(r, n) == [role |-> r, tokens |-> n]
MCScript == <<Turn("user", 12), Turn("assistant", 4), Turn("user", 24),
              Turn("assistant", 6), Turn("user", 2), Turn("assistant", 6)>>
MCQuestion == Turn("user", 3)
=============================================================================
