------------------------------- MODULE Sched -------------------------------
(***************************************************************************)
(* The plan builder of src/sched/sched.c: a script requires kernels, picks *)
(* rulesets, adds edges and barriers, and seals the result into the text   *)
(* of a plan.  A failing call returns an error and changes nothing, so it  *)
(* is no step.  Allocation failure is left out.                            *)
(*                                                                         *)
(* A name is the sequence of its blank separated words, because the text   *)
(* of a plan is split at blanks when it is read back; a capability or a    *)
(* ruleset name is one word.                                               *)
(***************************************************************************)
EXTENDS Naturals, Sequences, FiniteSets, SequencesExt, FiniteSetsExt

CONSTANTS
  MaxPlan,         \* bound on the nodes of a plan
  KernelManifest,  \* Kernel.yaml: sequence of [name, caps], caps a sequence
  Rulesets,        \* Stdrewrite.yaml: sequence of ruleset names
  Wildcard,        \* the pairs <<pattern, ruleset>> for which wildcard() holds
  Patterns, Labels, PipelineNames,
  NoPlan, NoPreference

NodeKinds == {"kernel", "rewrite", "barrier"}

\* What load_kernels and load_rules let through, trimmed and not empty; the names that
\* a script gives; and a pattern that
\* matches the name of a ruleset is one word too.
ASSUME SchedAssumption ==
  /\ MaxPlan \in Nat
  /\ KernelManifest \in Seq([name : Seq(STRING) \ {<<>>}, caps : Seq(STRING)])
  /\ Rulesets \in Seq(STRING)
  /\ Patterns \cup Labels \cup PipelineNames \subseteq Seq(STRING)
  /\ \A w \in Wildcard : Len(w[1]) = 1

VARIABLES
  nodes,     \* node i is [kind, name, members]
  edges,     \* pairs of node ids, the first before the second
  sealed,
  text,      \* the plan that seal returned, or NoPlan
  pipeline   \* the name given to ccw_sched_new

svars == <<nodes, edges, sealed, text, pipeline>>

SInit ==
  /\ nodes = <<>>
  /\ edges = {}
  /\ sealed = FALSE
  /\ text = NoPlan
  /\ pipeline \in PipelineNames

(***************************************************************************)
(* Looking things up in the manifests.                                     *)
(***************************************************************************)
\* kernel_by_name keeps the first entry of a name, or 0.
KernelByName(nm) == SelectInSeq(KernelManifest, LAMBDA k : k.name = nm)

\* capability_index
Providers(cap) == {i \in DOMAIN KernelManifest : cap \in ToSet(KernelManifest[i].caps)}

\* The provider that require_capability settles on: the only one, or the last
\* that has the preferred name.
Chosen(cap, prefer) ==
  IF prefer = NoPreference
  THEN {i \in Providers(cap) : Providers(cap) = {i}}
  ELSE LET named == {i \in Providers(cap) : KernelManifest[i].name = prefer}
       IN  {i \in named : \A j \in named : j <= i}

\* The loop of ccw_sched_rewrite over the rulesets.
MatchedRulesets(pattern) ==
  LET matched[i \in 0..Len(Rulesets)] ==
        IF i = 0 THEN <<>>
        ELSE IF <<pattern, Rulesets[i]>> \in Wildcard THEN Append(matched[i - 1], Rulesets[i])
        ELSE matched[i - 1]
  IN  matched[Len(Rulesets)]

(***************************************************************************)
(* Building.                                                               *)
(***************************************************************************)
Barriers == {i \in DOMAIN nodes : nodes[i].kind = "barrier"}

\* Mutant: a work node is ordered after the last barrier only.
LastBarrierAddNode(k, nm, members) ==
  LET id == Len(nodes) + 1
  IN  /\ ~sealed /\ id <= MaxPlan
      /\ nodes' = Append(nodes, [kind |-> k, name |-> nm, members |-> members])
      /\ edges' = edges \cup
           (IF k = "barrier" THEN (1..Len(nodes)) \X {id}
            ELSE {b \in Barriers : b = Len(nodes)} \X {id})
      /\ UNCHANGED <<sealed, text, pipeline>>

\* add_node, and for a barrier the edges that ccw_sched_barrier adds.
AddNode(k, nm, members) ==
  LET id == Len(nodes) + 1
  IN  /\ ~sealed /\ id <= MaxPlan
      /\ nodes' = Append(nodes, [kind |-> k, name |-> nm, members |-> members])
      /\ edges' = edges \cup
           (IF k = "barrier" THEN 1..Len(nodes) ELSE Barriers) \X {id}
      /\ UNCHANGED <<sealed, text, pipeline>>

RequireKernel(nm) ==
  LET k == KernelByName(nm)
  IN  k # 0 /\ AddNode("kernel", nm, KernelManifest[k].caps)

\* ccw_sched_require_capability; probe is the same call.
RequireCapability(cap, prefer) ==
  \E k \in Chosen(cap, prefer) :
    AddNode("kernel", KernelManifest[k].name, KernelManifest[k].caps)

Rewrite(pattern) ==
  /\ MatchedRulesets(pattern) # <<>>
  /\ AddNode("rewrite", pattern, MatchedRulesets(pattern))

Barrier(label) == AddNode("barrier", label, <<>>)

Edge(a, b) ==
  /\ ~sealed
  /\ a \in DOMAIN nodes /\ b \in DOMAIN nodes
  /\ edges' = edges \cup {<<a, b>>}
  /\ UNCHANGED <<nodes, sealed, text, pipeline>>

(***************************************************************************)
(* Sealing.                                                                *)
(***************************************************************************)
\* The nodes that are left and none of whose predecessors is: the counter in[i] of
\* a node that is left is the number of edges it has from nodes that are left.
Free(n, E, T) == {i \in (1..n) \ T : \A e \in E : e[2] = i => e[1] \in T}

\* A round takes the lowest of them.
Round(n, E, T) == IF Free(n, E, T) = {} THEN T ELSE T \cup {Min(Free(n, E, T))}

Taken(n, E) ==
  LET taken[r \in 0..n] == IF r = 0 THEN {} ELSE Round(n, E, taken[r - 1])
  IN  taken

\* acyclic: n rounds take all nodes.
Acyclic(n, E) == Taken(n, E)[n] = 1..n

\* A node's line is its id, its kind, its name and its members.
PlanText ==
  [name  |-> pipeline,
   lines |-> [i \in DOMAIN nodes |-> [kind  |-> nodes[i].kind,
                                      words |-> nodes[i].name \o nodes[i].members]],
   edges |-> edges]

Seal ==
  /\ ~sealed
  /\ \E i \in DOMAIN nodes : nodes[i].kind # "barrier"
  /\ Acyclic(Len(nodes), edges)
  /\ text' = PlanText
  /\ sealed' = TRUE
  /\ UNCHANGED <<nodes, edges, pipeline>>

SNext ==
  \/ \E i \in DOMAIN KernelManifest : RequireKernel(KernelManifest[i].name)
  \/ \E i, j \in DOMAIN KernelManifest :
       \E cap \in ToSet(KernelManifest[i].caps),
          prefer \in {NoPreference, KernelManifest[j].name} : RequireCapability(cap, prefer)
  \/ \E pattern \in Patterns : Rewrite(pattern)
  \/ \E label \in Labels : Barrier(label)
  \/ \E a, b \in 1..MaxPlan : Edge(a, b)
  \/ Seal

SSpec == SInit /\ [][SNext]_svars

(***************************************************************************)
(* Reading a plan back: parse_plan_text.                                   *)
(***************************************************************************)
\* The first word after the kind is the name, the others are the members.
ParsedNodes(t) ==
  [i \in DOMAIN t.lines |-> [kind    |-> t.lines[i].kind,
                             name    |-> <<Head(t.lines[i].words)>>,
                             members |-> Tail(t.lines[i].words)]]

Parses(t) ==
  /\ Len(t.name) = 1
  /\ t.lines # <<>>
  /\ \A i \in DOMAIN t.lines :
       /\ t.lines[i].words # <<>>
       /\ t.lines[i].kind = "rewrite" => Tail(t.lines[i].words) # <<>>
       /\ t.lines[i].kind = "barrier" => Tail(t.lines[i].words) = <<>>
  /\ \A e \in t.edges : e[1] \in DOMAIN t.lines /\ e[2] \in DOMAIN t.lines

(***************************************************************************)
(* Properties.                                                             *)
(***************************************************************************)
SchedTypeOK ==
  /\ nodes \in Seq([kind : NodeKinds, name : Seq(STRING), members : Seq(STRING)])
  /\ Len(nodes) <= MaxPlan
  /\ edges \subseteq (1..Len(nodes)) \X (1..Len(nodes))
  /\ sealed \in BOOLEAN

\* SCHED.md 5.3: "Every node added before the barrier's creation is implicitly
\* ordered before it; every node added after is implicitly ordered after it."
\* The edges say so whatever else was added in between (add_node, ccw_sched_barrier).
BarriersComplete ==
  \A b \in Barriers :
    /\ \A i \in 1..(b - 1) : <<i, b>> \in edges
    /\ \A i \in (b + 1)..Len(nodes) : <<b, i>> \in edges

\* Every set of nodes has one that no node of the set precedes.
WellFounded(n, E) ==
  \A S \in (SUBSET (1..n)) \ {{}} : \E i \in S : \A j \in S : <<j, i>> \notin E
\* A sealed plan is a partial order (the reference for Acyclic), and so nothing
\* that crosses a barrier backwards was sealed (ccw_sched_seal).
SealedIsOrder == text # NoPlan => WellFounded(Len(text.lines), text.edges)

\* SCHED.md 5.5: "S:seal() - validates and freezes the plan".  What it validates does
\* not include blanks: the host refuses a sealed plan (parse_plan_text) exactly when
\* the pipeline or a barrier was given a name with a blank in it.
SealedParses ==
  text # NoPlan =>
    (Parses(text) <=> Len(pipeline) = 1 /\ \A b \in Barriers : Len(nodes[b].name) = 1)

\* What the host reads is what was sealed, kinds, members, order and all, for every
\* node whose name has no blank in it (ccw_sched_seal, parse_plan_text).
RoundTrip ==
  text # NoPlan /\ Parses(text) =>
    /\ text.edges = edges /\ DOMAIN ParsedNodes(text) = DOMAIN nodes
    /\ \A i \in DOMAIN nodes : Len(nodes[i].name) = 1 => ParsedNodes(text)[i] = nodes[i]

\* Whatever a script adds in whatever order, barriers divide the plan, what seal lets
\* through is a partial order, and the host reads back what was sealed (add_node,
\* ccw_sched_barrier, ccw_sched_seal, parse_plan_text).
PlanSound == SchedTypeOK /\ BarriersComplete /\ SealedIsOrder /\ SealedParses /\ RoundTrip

=============================================================================
