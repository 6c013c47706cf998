------------------------------ MODULE PlanRun ------------------------------
(***************************************************************************)
(* The execution of a plan that has been read: ccw_plan_apply_rewrites and *)
(* then ccw_plan_apply_kernels, as the Cephyr driver calls them.  Each     *)
(* walks the whole plan, takes the lowest node whose predecessors are      *)
(* done, does the work of the nodes of its own kind and passes over the    *)
(* others.  Each reads the manifests anew.  Loading and applying a ruleset *)
(* or a kernel may fail, and that ends the run.                            *)
(***************************************************************************)
EXTENDS Naturals, Sequences, FiniteSets, SequencesExt, FiniteSetsExt

CONSTANTS
  Plans,      \* the plans that may be executed: [nodes, edges]
  Manifests   \* the manifests that may be in force: [kernels, rules], the
              \* names that Kernel.yaml and Stdrewrite.yaml have

Passes == {"rewrite", "kernel"}

\* What parse_plan_text lets through: the three kinds of line, no members on a
\* barrier, and edges between nodes of the plan.
PlanShape(p) ==
  /\ Len(p.nodes) \in Nat
  /\ \A i \in 1..Len(p.nodes) :
       /\ p.nodes[i].kind \in Passes \cup {"barrier"}
       /\ Len(p.nodes[i].members) \in Nat
       /\ DOMAIN p.nodes[i].members = 1..Len(p.nodes[i].members)
       /\ p.nodes[i].kind = "barrier" => Len(p.nodes[i].members) = 0
  /\ p.edges \subseteq (1..Len(p.nodes)) \X (1..Len(p.nodes))

ASSUME RunAssumption == \A p \in Plans : PlanShape(p)

VARIABLES
  plan,       \* the plan in execution
  manifest,   \* what the current pass read
  pass,       \* the current pass, or "done" or "failed"
  why,        \* what the run failed of
  done,       \* pass -> nodes it has finished with
  m,          \* members of the current node that have been applied
  ran         \* history: <<node, member>> of every application, in order

rvars == <<plan, manifest, pass, why, done, m, ran>>

Nodes == 1..Len(plan.nodes)

RInit ==
  /\ plan \in Plans
  /\ manifest \in Manifests
  /\ pass = "rewrite" /\ why = "nothing"
  /\ done = [p \in Passes |-> {}]
  /\ m = 0
  /\ ran = <<>>

(***************************************************************************)
(* One pass.                                                               *)
(***************************************************************************)
\* Mutant: it is enough that one predecessor is done.
EagerReady ==
  {i \in Nodes \ done[pass] :
     LET before == {e[1] : e \in {f \in plan.edges : f[2] = i}}
     IN  before = {} \/ before \cap done[pass] # {}}

\* Mutant: a pass looks at the nodes of its kind only.
SkippingReady ==
  {i \in Nodes \ done[pass] :
     /\ plan.nodes[i].kind = pass
     /\ \A e \in plan.edges : e[2] = i => e[1] \in done[pass]}

\* The nodes that are not done and whose predecessors are.
Ready == {i \in Nodes \ done[pass] :
            \A e \in plan.edges : e[2] = i => e[1] \in done[pass]}

\* Mutant: the highest ready node is the next one.
LastSelected == Max(Ready)

\* The orders that the edges allow, and the first of them by node ids.
LinearExtensions ==
  {p \in [Nodes -> Nodes] :
     /\ \A i, j \in Nodes : p[i] = p[j] => i = j
     /\ \A i, j \in Nodes : <<p[j], p[i]>> \in plan.edges => j < i}
Before(p, q) == \E k \in Nodes : p[k] < q[k] /\ \A j \in 1..(k-1) : p[j] = q[j]
FirstExtension == CHOOSE p \in LinearExtensions : \A q \in LinearExtensions : ~Before(q, p)
\* "node ids are the deterministic tie-breaker"
Selected == Min(Ready)

Running == pass \in Passes /\ done[pass] # Nodes
Working == Running /\ Ready # {} /\ plan.nodes[Selected].kind = pass
Members == plan.nodes[Selected].members

\* find_node_rule for the member that is next; the kernel of the node.
Listed ==
  IF pass = "rewrite" THEN m < Len(Members) => Members[m + 1] \in manifest.rules
                      ELSE plan.nodes[Selected].name \in manifest.kernels

Fail(reason) ==
  /\ pass' = "failed" /\ why' = reason
  /\ UNCHANGED <<plan, manifest, done, m>>

Stuck ==
  /\ Running /\ Ready = {}
  /\ Fail("cycle") /\ UNCHANGED ran

MarkDone ==
  /\ done' = [done EXCEPT ![pass] = @ \cup {Selected}]
  /\ m' = 0
  /\ UNCHANGED <<plan, manifest, pass, why, ran>>

\* Mutant: a node of the other kind is passed over and not marked.
IdlePassOver ==
  /\ Running /\ Ready # {} /\ plan.nodes[Selected].kind # pass
  /\ UNCHANGED rvars

PassOver ==
  /\ Running /\ Ready # {} /\ plan.nodes[Selected].kind # pass
  /\ MarkDone

Absent ==
  /\ Working /\ ~Listed
  /\ Fail("absent") /\ UNCHANGED ran

Apply ==
  /\ Working /\ Listed /\ m < Len(Members)
  /\ ran' = Append(ran, <<Selected, m + 1>>)
  /\ m' = m + 1
  /\ UNCHANGED <<plan, manifest, pass, why, done>>

\* The file of a ruleset or kernel does not load, or its application signals an
\* error and may have changed the module.  A kernel is loaded once, even when it
\* has no capability to apply.
ApplyFails ==
  /\ Working /\ Listed
  /\ m < Len(Members) \/ (pass = "kernel" /\ m = 0)
  /\ Fail("node")
  /\ \/ UNCHANGED ran
     \/ m < Len(Members) /\ ran' = Append(ran, <<Selected, m + 1>>)

FinishNode == Working /\ Listed /\ m = Len(Members) /\ MarkDone

\* The rewrite pass returns and the driver starts the kernel pass.
StartKernels ==
  /\ pass = "rewrite" /\ done[pass] = Nodes
  /\ pass' = "kernel"
  /\ manifest' \in Manifests
  /\ UNCHANGED <<plan, why, done, m, ran>>

Return ==
  /\ pass = "kernel" /\ done[pass] = Nodes
  /\ pass' = "done"
  /\ UNCHANGED <<plan, manifest, why, done, m, ran>>

RNext ==
  \/ Stuck \/ PassOver \/ Absent \/ Apply \/ ApplyFails \/ FinishNode
  \/ StartKernels \/ Return

\* A call that was made runs until it returns.
RSpec == RInit /\ [][RNext]_rvars /\ WF_rvars(RNext)

(***************************************************************************)
(* Properties.                                                             *)
(***************************************************************************)
RunTypeOK ==
  /\ pass \in Passes \cup {"done", "failed"}
  /\ why \in {"nothing", "cycle", "absent", "node"}
  /\ done \in [Passes -> SUBSET Nodes]
  /\ m \in Nat

\* PlanOrder over what each pass has finished with.
RewritePass == INSTANCE PlanOrder
  WITH size <- Len(plan.nodes), order <- plan.edges, finished <- done["rewrite"]
KernelPass == INSTANCE PlanOrder
  WITH size <- Len(plan.nodes), order <- plan.edges, finished <- done["kernel"]
\* Every pass is an execution that SCHED.md allows: it finishes with nodes in an
\* order consistent with the edges, each once (done[] of the two functions).
RewritePassIsOrder == RewritePass!OSpec
\* The same of the kernel pass (ccw_plan_apply_kernels).
KernelPassIsOrder == KernelPass!OSpec

\* The positions of the applications of node i.
Turns(i) == {k \in DOMAIN ran : ran[k][1] = i}
\* The edges lead from a to b: b is in every set of nodes that the edges do not
\* leave and that has the successors of a.
Precedes(a, b) ==
  /\ a # b
  /\ \A S \in SUBSET Nodes :
       (\A e \in plan.edges : e[1] = a \/ e[1] \in S => e[2] \in S) => b \in S
Applied(i) == Cardinality(Turns(i)) = Len(plan.nodes[i].members)

\* b has run only if a had, and after it.
After(a, b) ==
  Turns(b) # {} => Applied(a) /\ \A k \in Turns(a), l \in Turns(b) : k < l
\* When anything of b has run, all of a has, and before: also when the run failed
\* ("downstream nodes do not run", SCHED.md 6), and also over barriers and nodes
\* of the other kind in between.
OrderInPass ==
  \A a, b \in Nodes :
    Precedes(a, b) /\ plan.nodes[a].kind = plan.nodes[b].kind => After(a, b)

\* A run that ends well has applied every ruleset and every capability of the
\* plan, each once.
AllApplied ==
  pass = "done" =>
    /\ Len(ran) = Cardinality(ToSet(ran))
    /\ ToSet(ran) = UNION {{i} \X DOMAIN plan.nodes[i].members : i \in Nodes}

\* "node ids are the deterministic tie-breaker": the order in which a finished run
\* has done the work of a kind is that of the first linear extension of the edges.
Deterministic ==
  pass = "done" =>
    \A a, b \in Nodes :
      /\ plan.nodes[a].kind = plan.nodes[b].kind
      /\ \E k \in Turns(a), l \in Turns(b) : k < l
      /\ a # b
      => \E i, j \in Nodes : i < j /\ FirstExtension[i] = a /\ FirstExtension[j] = b

\* A run always ends: no plan makes the two loops wait for each other's nodes.
RunEnds == <>(pass \in {"done", "failed"})

\* A run that ends well has done all the work of the plan, each piece once, in the one
\* order that the plan determines (the tie-breaker of the two functions).
FinishedRun == RunTypeOK /\ AllApplied /\ Deterministic

\* Both functions that execute a plan are executions that SCHED.md allows.
PassesAreOrders == RewritePassIsOrder /\ KernelPassIsOrder

=============================================================================
