----------------------------- MODULE PlanOrder -----------------------------
(***************************************************************************)
(* What a plan promises (.agents/SCHED.md, section 6): "The host consumes  *)
(* a sealed plan and runs nodes in any order consistent with the edges".   *)
(***************************************************************************)
EXTENDS Naturals

VARIABLES
  size,      \* the number of nodes of the plan
  order,     \* its edges
  finished   \* the nodes that have been run

ovars == <<size, order, finished>>

OInit == finished = {}

Finish(i) ==
  /\ i \notin finished
  /\ \A e \in order : e[2] = i => e[1] \in finished
  /\ finished' = finished \cup {i}
  /\ UNCHANGED <<size, order>>

ONext == \E i \in 1..size : Finish(i)

OSpec == OInit /\ [][ONext]_ovars
=============================================================================
