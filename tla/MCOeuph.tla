------------------------------ MODULE MCOeuph ------------------------------
(* Rulesets of every kind over short programs: rules that shrink, that grow *)
(* without end, that nest, that lose variables one way, and malformed ones. *)
EXTENDS Oeuph

V(n) == [t |-> "atom", c |-> "var", s |-> n, v |-> 0]

I(n) == [t |-> "atom", c |-> "int", s |-> "int", v |-> n]

A(n) == [t |-> "atom", c |-> "name", s |-> n, v |-> 0]

Quoted == [t |-> "atom", c |-> "quoted", s |-> "q", v |-> 0]

L(items) == [t |-> "list", items |-> items]

O2(op, a, b) == L(<<A(op), a, b>>)

IConst(x) == L(<<A("iconst"), x>>)

Declares == [k |-> "ruleset"]

Rule(lhs, rhs, both) == [k |-> "rule", lhs |-> lhs, rhs |-> rhs, both |-> both, whole |-> TRUE]

X == V("?x")
Y == V("?y")

Double == Rule(O2("imul", X, IConst(I(2))), O2("shl", X, I(1)), TRUE)
Commute == Rule(O2("iadd", X, Y), O2("iadd", Y, X), TRUE)
Triple == Rule(O2("imul", X, I(3)), O2("iadd", O2("shl", X, I(1)), X), FALSE)
Zero == Rule(O2("iadd", X, I(0)), X, TRUE)
Self == Rule(O2("isub", X, X), IConst(I(0)), TRUE)
Grow == Rule(L(<<A("imov"), X>>), L(<<A("imov"), O2("iadd", X, I(0))>>), FALSE)
Swap == Rule(O2("iadd", IConst(V("?k")), Y), O2("iadd", Y, IConst(V("?k"))), FALSE)
Split == Rule(L(<<A("imov"), X>>),
              O2("first", O2("iadd", O2("shl", X, I(0)), I(0)), O2("iadd", O2("imul", X, I(1)), I(0))),
              FALSE)
Once == Rule(O2("shl", X, I(0)), O2("imul", X, I(1)), FALSE)
Bare == Rule(A("nop"), L(<<A("imov"), I(0)>>), FALSE)

Bad == {[Rule(X, X, TRUE) EXCEPT !.whole = FALSE], Rule(Quoted, X, TRUE), Rule(L(<<>>), X, TRUE),
        Rule(X, IConst(O2("if", X, Y)), TRUE), Rule(L(<<Quoted, X>>), X, TRUE),
        Rule(X, L(<<A("phi"), X, X, X, X>>), TRUE),
        Rule(O2("iadd", O2("iadd", O2("iadd", X, Y), O2("iadd", X, Y)),
                O2("iadd", X, O2("iadd", X, Y))), X, TRUE),
        [k |-> "atom"]}

Reg(r) == [k |-> "reg", v |-> 0, reg |-> r]
C(n) == [k |-> "const", v |-> n, reg |-> ""]

Ins(op, a, b) == [op |-> op, ops |-> <<a, b>>]

Programs ==
  {<<Ins("imul", Reg("x"), C(2)), [op |-> "imov", ops |-> <<Reg("y")>>]>>,
   <<Ins("imul", Reg("x"), C(3))>>, <<Ins("iadd", C(0), Reg("y")), [op |-> "nop", ops |-> <<>>]>>,
   <<Ins("isub", Reg("x"), Reg("x")), Ins("isub", Reg("x"), Reg("y"))>>,
   <<[op |-> "call", ops |-> <<Reg("x"), Reg("x"), Reg("y"), C(1)>>], Ins("iadd", Reg("x"), C(0))>>}

RuleLists ==
  {<<Double>>, <<Commute, Zero>>, <<Triple, Double>>, <<Grow>>, <<Self, Bare>>, <<Split, Once>>, <<Swap, Zero, Grow>>,
   <<Double, Commute, Zero, Self, Triple>>}

MCInputs ==
  {[forms |-> <<Declares>> \o rs, program |-> p, model |-> m, nodes |-> n, classes |-> c,
    iterations |-> it] :
     rs \in RuleLists, p \in Programs, m \in {"performance", "canonical"}, n \in {6, 20},
     c \in {4, 20}, it \in {0, 1, 4}}
  \cup {[forms |-> f, program |-> <<>>, model |-> "canonical", nodes |-> 1, classes |-> 1,
         iterations |-> 1] :
          f \in {<<Declares, Declares, Double, [k |-> "other"], b>> : b \in Bad}
                \cup {<<Double>>, <<>>}}

MCSemaCalls ==
  {[sets |-> s, valid |-> v] :
     s \in UNION {[1 .. n -> {[name |-> "mem", rules |-> 2], [name |-> "none", rules |-> 0]}] :
                    n \in 0 .. 3}, v \in BOOLEAN}

(* Arithmetic of three bits.                                                *)
MCMeaning(op, a, e) ==
  CASE op = "iconst" -> a[1] % 8
    [] op = "iadd" -> (a[1] + a[2]) % 8
    [] op = "isub" -> (a[1] - a[2]) % 8
    [] op = "imul" -> (a[1] * a[2]) % 8
    [] op = "shl" -> (a[1] * 2 ^ a[2]) % 8
    [] op \in {"imov", "first"} -> a[1]
    [] OTHER -> 0

MCEnvs == {[x |-> a, y |-> b] : a \in {0, 1, 5}, b \in {2, 7}}

MCFirstChar ==
  [op \in {"iadd", "isub", "imul", "imov", "shl", "nop", "call", "first"} |->
     CASE op = "shl" -> 115 [] op = "nop" -> 110 [] op = "call" -> 99 [] OTHER -> 105]

=============================================================================
