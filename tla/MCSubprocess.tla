---------------------------- MODULE MCSubprocess ----------------------------
(* Subprocess with model values for TLC: both callers start the task, so that their
   starts overlap; the second one also pauses, resumes and kills. *)
EXTENDS Subprocess, TLC

CONSTANTS c1, c2

TwoCallers == {c1, c2}
TheirCommands == (c1 :> {"start"}) @@ (c2 :> {"start", "pause", "resume", "killAll"})
=============================================================================
