------------------------------ MODULE Pipeline ------------------------------
(***************************************************************************)
(* The Sched stage of the Cephyr driver (compilers/cephyr/driver):  a      *)
(* script builds and seals a plan (Sched), the driver reads it back, and   *)
(* executes it (PlanRun).                                                  *)
(***************************************************************************)
EXTENDS Sched, PlanRun

pvars == <<svars, rvars>>

\* No plan is in execution yet.
PInit ==
  /\ SInit
  /\ plan = [nodes |-> <<>>, edges |-> {}]
  /\ manifest \in Manifests
  /\ pass = "idle" /\ why = "nothing"
  /\ done = [p \in Passes |-> {}]
  /\ m = 0 /\ ran = <<>>

\* Mutant: the two ends of an edge line are swapped.
SwappedReadPlan ==
  /\ pass = "idle" /\ text # NoPlan /\ Parses(text)
  /\ plan' = [nodes |-> ParsedNodes(text), edges |-> {<<e[2], e[1]>> : e \in text.edges}]
  /\ pass' = "rewrite"
  /\ UNCHANGED <<svars, manifest, done, m, ran, why>>

\* ccw_plan_apply_rewrites begins with parse_plan_text, and gives up when the
\* plan does not parse.
ReadPlan ==
  /\ pass = "idle" /\ text # NoPlan
  /\ IF Parses(text)
     THEN /\ plan' = [nodes |-> ParsedNodes(text), edges |-> text.edges]
          /\ pass' = "rewrite" /\ why' = why
     ELSE /\ plan' = plan
          /\ pass' = "failed" /\ why' = "parse"
  /\ UNCHANGED <<svars, manifest, done, m, ran>>

PNext ==
  \/ pass = "idle" /\ SNext /\ UNCHANGED rvars
  \/ ReadPlan
  \/ RNext /\ UNCHANGED svars

PSpec == PInit /\ [][PNext]_pvars

(***************************************************************************)
(* Properties.                                                             *)
(***************************************************************************)
\* SCHED.md 5.3, end to end: what a script asked for before a barrier has been
\* applied before anything that it asked for after the barrier, in either pass
\* (add_node, ccw_sched_barrier, ccw_sched_seal and the loops of the two passes).
BarrierRespected ==
  \A b \in Barriers : \A i \in 1..(b-1), j \in (b+1)..Len(nodes) :
    pass # "idle" /\ nodes[i].kind = nodes[j].kind => After(i, j)

\* No plan that seal accepted turns out to be cyclic when it is executed.
SealedNeverStuck == why # "cycle"
=============================================================================
