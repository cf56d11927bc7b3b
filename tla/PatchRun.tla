------------------------------ MODULE PatchRun ------------------------------
(***************************************************************************)
(* What a patching run promises its user, without threads and messages:    *)
(* the steps of the action list are carried out in order, each at most     *)
(* once; the run ends with exactly one of three outcomes; "completed" means *)
(* all steps were carried out; after a request to stop at most the step    *)
(* under way is still carried out, and the run is never reported completed  *)
(* or failed.                                                              *)
(***************************************************************************)
EXTENDS Naturals, Sequences

CONSTANT Plans  \* the possible action lists

VARIABLES
  plan,     \* the action list of the run
  done,     \* the steps carried out so far
  phase,    \* idle, running, or stopping
  grace,    \* whether one more step may be carried out while stopping
  outcome   \* how the last run ended; none while a run is on

vars == <<plan, done, phase, grace, outcome>>

Init ==
  /\ plan = <<>> /\ done = <<>>
  /\ phase = "idle" /\ grace = 0 /\ outcome = "none"

Begin ==
  /\ phase = "idle"
  /\ plan' \in Plans
  /\ done' = <<>>
  /\ phase' = "running"
  /\ grace' = 0
  /\ outcome' = "none"

Perform ==
  /\ phase = "running" \/ (phase = "stopping" /\ grace = 1)
  /\ Len(done) < Len(plan)
  /\ done' = Append(done, plan[Len(done) + 1])
  /\ grace' = 0
  /\ UNCHANGED <<plan, phase, outcome>>

RequestStop ==
  /\ phase = "running"
  /\ phase' = "stopping"
  /\ grace' \in {0, 1}
  /\ UNCHANGED <<plan, done, outcome>>

(* The step under way fails after the request to stop.                     *)
GiveUp ==
  /\ phase = "stopping"
  /\ grace' = 0
  /\ UNCHANGED <<plan, done, phase, outcome>>

End(from, how) ==
  /\ phase = from
  /\ phase' = "idle"
  /\ grace' = 0
  /\ outcome' = how
  /\ UNCHANGED <<plan, done>>

Complete == done = plan /\ End("running", "completed")
Fail == done # plan /\ End("running", "failed")
Cancel == End("stopping", "canceled")

Next == Begin \/ Perform \/ RequestStop \/ GiveUp \/ Complete \/ Fail \/ Cancel

Spec == Init /\ [][Next]_vars
=============================================================================
