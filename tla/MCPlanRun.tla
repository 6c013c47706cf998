----------------------------- MODULE MCPlanRun -----------------------------
(* Every plan of three nodes, with one node of each kind to choose from. *)
EXTENDS PlanRun

Sample == [kernel  |-> [kind |-> "kernel", name |-> "dce", members |-> <<"opt", "clean">>],
           rewrite |-> [kind |-> "rewrite", name |-> "*", members |-> <<"arith">>],
           barrier |-> [kind |-> "barrier", name |-> "b", members |-> <<>>]]

\* The edges of any plan text, cyclic ones too; a script may return any text.
AnyPlans == [nodes : [1..3 -> {Sample[k] : k \in DOMAIN Sample}],
             edges : {E \in SUBSET ((1..3) \X (1..3)) : \A i \in 2..3 : <<i, i>> \notin E}]

\* With and without the ruleset: a plan may be older than the manifests.
MCManifests == {[kernels |-> {"dce"}, rules |-> {"arith"}],
                [kernels |-> {}, rules |-> {"arith"}],
                [kernels |-> {"dce"}, rules |-> {}]}
=============================================================================
