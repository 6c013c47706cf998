----------------------------- MODULE MCPipeline -----------------------------
(* Two kernels share a capability, one of them has another one as well and  *)
(* is there twice; the name of the first stands in the word "node".  A      *)
(* later manifest may have lost a kernel, a capability or a ruleset.        *)
EXTENDS PlanCheck

MCKernels == << [name |-> <<"od">>, caps |-> <<"opt">>],
                [name |-> <<"dce">>, caps |-> <<"opt", "clean">>],
                [name |-> <<"dce">>, caps |-> <<"clean", "late">>] >>
MCRulesets == <<"arith", "mem">>
MCWildcard == {<<(<<"*">>), "arith">>, <<(<<"*">>), "mem">>}
MCPatterns == {<<"*">>, <<"none">>}
TwoWords == {<<"l">>, <<"l", "m">>}
MCEcho == [od |-> <<"e", "1", "0">>]
NoPlans == {}
MCManifests ==
  {Indexed(MCKernels, MCRulesets),
   Indexed(<<MCKernels[1]>>, MCRulesets),
   Indexed(MCKernels, <<"arith">>)}

(* Every file of up to five of these lines.                                 *)
Ln(t, v) == [t |-> t, v |-> v]
SomeLines == {Ln("path", ""), Ln("name", <<"k">>), Ln("name", <<",">>), Ln("caps", ""),
              Ln("item", "x"), Ln("item", "y"), Ln("other", ""), Ln("blank", "")}
MCUnclean == <<",">>
MCManifestFiles == UNION {[1..n -> SomeLines] : n \in 0..5}
=============================================================================
