------------------------------- MODULE LdExpr -------------------------------
(***************************************************************************)
(* The deferred expressions of a link plan (toolchain/ccwld/expr).  The    *)
(* nodes of all the expressions of a plan form one table: a node is        *)
(* [kind, op, ival, name, a, b, c], its operands are numbers of nodes, and *)
(* 0 is NULL.  The visited flag is a field of the node in the code, and    *)
(* here a set of nodes that every evaluation takes and returns.            *)
(***************************************************************************)
EXTENDS Integers, Sequences, FiniteSets, FiniteSetsExt, SequencesExt

CONSTANT Bits   \* the width of an address (64)

ASSUME BitsAssumption == Bits \in Nat \ {0}

W == 2 ^ Bits

LAnd(x, y) ==
  MapThenSumSet(LAMBDA i : 2 ^ i,
                {i \in 0 .. Bits - 1 : (x \div 2 ^ i) % 2 = 1 /\ (y \div 2 ^ i) % 2 = 1})

(* Boundaries that are no power of two are masked all the same.             *)
align_up(v, a) ==
  IF a <= 1 THEN v ELSE LAnd((v + a - 1) % W, W - 1 - LAnd(a - 1, W - 1))

Node(kind, op, ival, name, a, b, c) ==
  [kind |-> kind, op |-> op, ival |-> ival, name |-> name, a |-> a, b |-> b, c |-> c]

Truth(b) == IF b THEN 1 ELSE 0

(* {} is the failure of a division, and of an operator that is not known.   *)
Unary(op, a) ==
  CASE op = "neg" -> {(W - a) % W}
    [] op = "not" -> {Truth(a = 0)}
    [] op = "abs" -> {IF a >= W \div 2 THEN (W - a) % W ELSE a}
    [] OTHER -> {}

Binary(op, a, b) ==
  CASE op = "add" -> {(a + b) % W}
    [] op = "sub" -> {(W + a - b) % W}
    [] op = "mul" -> {(a * b) % W}
    [] op = "div" -> IF b = 0 THEN {} ELSE {a \div b}
    [] op = "mod" -> IF b = 0 THEN {} ELSE {a % b}
    [] op = "and" -> {LAnd(a, b)}
    [] op = "or"  -> {a + b - LAnd(a, b)}
    [] op = "xor" -> {a + b - 2 * LAnd(a, b)}
    [] op = "shl" -> {(a * 2 ^ (b % Bits)) % W}
    [] op = "shr" -> {a \div 2 ^ (b % Bits)}
    [] op = "eq"  -> {Truth(a = b)}
    [] op = "ne"  -> {Truth(a # b)}
    [] op = "lt"  -> {Truth(a < b)}
    [] op = "le"  -> {Truth(a <= b)}
    [] op = "gt"  -> {Truth(a > b)}
    [] op = "ge"  -> {Truth(a >= b)}
    [] op = "land" -> {Truth(a # 0 /\ b # 0)}
    [] op = "lor"  -> {Truth(a # 0 \/ b # 0)}
    [] OTHER -> {}

(* The first entry of that name, as a set of at most one index.             *)
plan_find(s, name) ==
  LET found == {i \in DOMAIN s : s[i].name = name}
  IN {i \in found : \A j \in found : i <= j}

(* The field f of the entry of that name.                                   *)
Field(s, name, f) == {s[i][f] : i \in plan_find(s, name)}

(* env: x (the nodes), syms, mems, secs and phdrs of the plan, dot, and rs, *)
(* the values layout_resolver knows: [name -> set of at most one value].    *)
resolve_sym(env, name) == IF name \in DOMAIN env.rs THEN env.rs[name] ELSE {}

(* The kinds without operands.  A node of kind "symbol" that names a symbol *)
(* of the plan is not among them.                                           *)
EvalLeaf(env, n) ==
  CASE n.kind = "int" -> {n.ival}
    [] n.kind = "dot" -> {env.dot}
    [] n.kind = "symbol" -> resolve_sym(env, n.name)
    [] n.kind = "defined" ->
         {Truth(plan_find(env.syms, n.name) # {} \/ resolve_sym(env, n.name) # {})}
    [] n.kind = "origin" -> Field(env.mems, n.name, "origin")
    [] n.kind = "length" -> Field(env.mems, n.name, "length")
    [] n.kind = "sizeof" -> Field(env.secs, n.name, "size")
    [] n.kind = "addr" -> Field(env.secs, n.name, "vma")
    [] n.kind = "loadaddr" -> Field(env.secs, n.name, "lma")
    [] n.kind = "sizeof_headers" -> {64 % W}
    [] n.kind = "segment_start" -> Field(env.phdrs, n.name, "vaddr")
    [] OTHER -> {}

(* The node whose value is the value of n, if there is one.                 *)
Delegate(env, n) ==
  CASE n.kind = "symbol" -> Field(env.syms, n.name, "expr")
    [] n.kind = "segment_start" /\ plan_find(env.phdrs, n.name) = {} /\ n.b # 0 -> {n.b}
    [] OTHER -> {}

Combine(n, a, b) ==
  CASE n.kind = "align" -> {align_up(a, b)}
    [] n.kind = "unary" -> Unary(n.op, a)
    [] n.kind = "binary" -> Binary(n.op, a, b)
    [] n.kind = "max" -> {IF a > b THEN a ELSE b}
    [] n.kind = "min" -> {IF a < b THEN a ELSE b}

(* [v, vis]: the value, {} when the evaluation failed, and the nodes that   *)
(* are marked afterwards.  A mark that is met is a cycle to the code.       *)
eval_inner(env) ==
  LET ev[i \in 0 .. Len(env.x), vis \in SUBSET DOMAIN env.x] ==
        IF i = 0 \/ i \in vis THEN [v |-> {}, vis |-> vis]
        ELSE
          LET n    == env.x[i]
              mark == vis \cup {i}
              Then(r, f(_, _)) == IF r.v = {} THEN r
                                  ELSE f(CHOOSE v \in r.v : TRUE, r.vis)
          IN CASE Delegate(env, n) # {} ->
                    ev[CHOOSE d \in Delegate(env, n) : TRUE, mark]
               [] n.kind = "cond" ->
                    Then(ev[n.a, mark],
                         LAMBDA a, w : ev[IF a # 0 THEN n.b ELSE n.c, w])
               [] n.kind = "unary" ->
                    Then(ev[n.a, mark],
                         LAMBDA a, w : [v |-> Combine(n, a, 0), vis |-> w])
               [] n.kind = "align" /\ (n.ival # 0 \/ n.b = 0) ->
                    Then(ev[n.a, mark],
                         LAMBDA a, w : [v |-> Combine(n, a, n.ival), vis |-> w])
               [] n.kind \in {"binary", "max", "min", "align"} ->
                    Then(ev[n.a, mark], LAMBDA a, w :
                      Then(ev[n.b, w], LAMBDA b, u :
                        [v |-> Combine(n, a, b), vis |-> u]))
               [] OTHER -> [v |-> EvalLeaf(env, n), vis |-> mark]
  IN ev

(* The nodes below node e: what reset_visited walks, and it does not follow *)
(* the name of a symbol to the expression of that symbol.                   *)
Subtree(x, e) ==
  LET below[i \in 0 .. Len(x)] ==
        IF i = 0 THEN {}
        ELSE {i} \cup below[x[i].a] \cup below[x[i].b] \cup below[x[i].c]
  IN below[e]

\* Mutant: an evaluation that fails is 0.
ZeroExprEval(env, e, vis) ==
  LET r == eval_inner(env)[e, vis \ Subtree(env.x, e)]
  IN [v |-> IF r.v = {} THEN {0} ELSE r.v, vis |-> r.vis \ Subtree(env.x, e)]

expr_eval(env, e, vis) ==
  LET r == eval_inner(env)[e, vis \ Subtree(env.x, e)]
  IN [v |-> r.v, vis |-> r.vis \ Subtree(env.x, e)]

(* What the expression means: the same evaluation with a mark that is       *)
(* removed when the evaluation of its node returns, so that only a node     *)
(* that needs itself is a cycle.                                            *)
Meaning(env, e) ==
  LET ev[i \in 0 .. Len(env.x), open \in SUBSET DOMAIN env.x] ==
        IF i = 0 \/ i \in open THEN {}
        ELSE
          LET n    == env.x[i]
              V(j) == ev[j, open \cup {i}]
          IN CASE Delegate(env, n) # {} -> UNION {V(d) : d \in Delegate(env, n)}
               [] n.kind = "cond" ->
                    UNION {V(IF a # 0 THEN n.b ELSE n.c) : a \in V(n.a)}
               [] n.kind = "unary" -> UNION {Combine(n, a, 0) : a \in V(n.a)}
               [] n.kind = "align" /\ (n.ival # 0 \/ n.b = 0) ->
                    UNION {Combine(n, a, n.ival) : a \in V(n.a)}
               [] n.kind \in {"binary", "max", "min", "align"} ->
                    UNION {Combine(n, a, b) : a \in V(n.a), b \in V(n.b)}
               [] OTHER -> EvalLeaf(env, n)
  IN ev[e, {}]

(***************************************************************************)
(* Text and equality.  The text is a sequence of words [w, n]: a token, or *)
(* a number when w is "#".                                                 *)
(***************************************************************************)
Words(s) == [i \in DOMAIN s |-> [w |-> s[i], n |-> 0]]
Number(n) == <<[w |-> "#", n |-> n]>>

Parens(s) == Words(<<"(">>) \o s \o Words(<<")">>)

to_string(x, e) ==
  LET Call(n, args) ==
        Words(<<n.kind, "(">>) \o args[1]
        \o FlattenSeq([i \in 1 .. Len(args) - 1 |-> Words(<<",">>) \o args[i + 1]])
        \o Words(<<")">>)
      Str[i \in 0 .. Len(x)] ==
        IF i = 0 THEN Words(<<"null">>)
        ELSE
          LET n == x[i]
          IN CASE n.kind = "int" -> Number(n.ival)
               [] n.kind \in {"dot", "sizeof_headers"} -> Words(<<n.kind>>)
               [] n.kind = "segment_start" /\ n.b # 0 -> Call(n, <<Words(<<n.name>>), Str[n.b]>>)
               [] n.kind = "unary" -> Parens(Words(<<n.op>>) \o Str[n.a])
               [] n.kind = "binary" -> Parens(Str[n.a] \o Words(<<n.op>>) \o Str[n.b])
               [] n.kind = "align" ->
                    Call(n, <<Str[n.a], IF n.ival # 0 THEN Number(n.ival) ELSE Str[n.b]>>)
               [] n.kind \in {"max", "min"} -> Call(n, <<Str[n.a], Str[n.b]>>)
               [] n.kind = "cond" -> Call(n, <<Str[n.a], Str[n.b], Str[n.c]>>)
               [] OTHER -> Words(<<n.kind, n.name>>)
  IN Str[e]

(* Only the value of an integer is compared, never the boundary of ALIGN.   *)
expr_equal(x, d, e) ==
  LET Eq[i \in 0 .. Len(x), j \in 0 .. Len(x)] ==
        IF i = 0 \/ j = 0 THEN i = j
        ELSE /\ x[i].kind = x[j].kind /\ x[i].op = x[j].op
             /\ IF x[i].kind = "int" THEN x[i].ival = x[j].ival
                ELSE /\ x[i].name = x[j].name
                     /\ Eq[x[i].a, x[j].a] /\ Eq[x[i].b, x[j].b] /\ Eq[x[i].c, x[j].c]
  IN Eq[d, e]
=============================================================================
