------------------------------ MODULE AsmExpr ------------------------------
(***************************************************************************)
(* The expressions of ccwas (toolchain/ccwas/sema/ccw_symtab.c): the       *)
(* recursive-descent parser and the evaluator, over tokens instead of      *)
(* characters.  A token is [t |-> "int", v], [t |-> "sym", n], a "." or a  *)
(* "(" or ")" or an operator [t |-> op].  A parser takes the tokens that   *)
(* are left and returns [e, rest]; e = NoExpr is the NULL of the code.     *)
(* The file-static cursor expr_pos of the code is the value "rest".        *)
(***************************************************************************)
EXTENDS Integers, Sequences, FiniteSets, SequencesExt

NoExpr == [kind |-> "none"]

Fail(toks) == [e |-> NoExpr, rest |-> toks]

RECURSIVE expr_mul(_), expr_add(_), expr_shift(_), expr_bitand(_), expr_bitxor(_)
RECURSIVE expr_unary(_), LeftChain(_, _, _)

(* The operators of each level, the loosest first.                          *)
Level == <<{"|"}, {"^"}, {"&"}, {"<<", ">>"}, {"+", "-"}, {"*", "/", "%"}>>

(* The loop of every binary level: it goes on with the operators of its     *)
(* level for as long as the next token is one.                              *)
LeftChain(n, left, toks) ==
  LET Operand(s) == CASE n = 1 -> expr_bitxor(s) [] n = 2 -> expr_bitand(s)
                      [] n = 3 -> expr_shift(s) [] n = 4 -> expr_add(s)
                      [] n = 5 -> expr_mul(s) [] n = 6 -> expr_unary(s)
  IN IF left = NoExpr
     THEN LET first == Operand(toks)
          IN IF first.e = NoExpr THEN first
             ELSE LeftChain(n, first.e, first.rest)
     ELSE IF toks = <<>> \/ (toks # <<>> /\ Head(toks).t \notin Level[n])
          THEN [e |-> left, rest |-> toks]
          ELSE LET right == Operand(Tail(toks))
               IN IF right.e = NoExpr THEN right
                  ELSE LeftChain(n, [kind |-> "binary", op |-> Head(toks).t,
                                     a |-> left, b |-> right.e], right.rest)

expr_mul(toks) == LeftChain(6, NoExpr, toks)

expr_add(toks) == LeftChain(5, NoExpr, toks)

expr_shift(toks) == LeftChain(4, NoExpr, toks)

expr_bitand(toks) == LeftChain(3, NoExpr, toks)

expr_bitxor(toks) == LeftChain(2, NoExpr, toks)

expr_bitor(toks) == LeftChain(1, NoExpr, toks)

expr_parse_inner(toks) == expr_bitor(toks)

(* A '%' before digits is the prefix of a binary literal: the tokens "%"    *)
(* and "int" in operand position are one literal, whose digits the model    *)
(* takes as they are.                                                       *)
expr_primary(toks) ==
  IF toks = <<>> THEN Fail(toks)
  ELSE LET h == Head(toks)
       IN CASE h.t = "int" -> [e |-> [kind |-> "int", v |-> h.v], rest |-> Tail(toks)]
            [] h.t = "sym" -> [e |-> [kind |-> "sym", n |-> h.n], rest |-> Tail(toks)]
            [] h.t = "." -> [e |-> [kind |-> "current"], rest |-> Tail(toks)]
            [] h.t = "(" ->
                 LET in == expr_parse_inner(Tail(toks))
                 IN IF in.e # NoExpr /\ in.rest # <<>> /\ Head(in.rest).t = ")"
                    THEN [e |-> in.e, rest |-> Tail(in.rest)]
                    ELSE Fail(in.rest)
            [] h.t = "%" /\ Len(toks) > 1 /\ toks[2].t = "int" ->
                 [e |-> [kind |-> "int", v |-> toks[2].v], rest |-> Tail(Tail(toks))]
            [] OTHER -> Fail(toks)

expr_unary(toks) ==
  IF toks # <<>> /\ Head(toks).t \in {"-", "~", "!"}
  THEN LET child == expr_unary(Tail(toks))
       IN IF child.e = NoExpr THEN child
          ELSE [e |-> [kind |-> "unary", op |-> Head(toks).t, a |-> child.e],
                rest |-> child.rest]
  ELSE expr_primary(toks)

(* Tokens after a complete expression refuse it.                            *)
ccw_expr_parse(toks) ==
  LET r == expr_parse_inner(toks)
  IN IF r.e = NoExpr \/ r.rest # <<>> THEN NoExpr ELSE r.e

----------------------------------------------------------------------------
(* The evaluator, on values small enough that int64_t does not wrap; {} is  *)
(* "not ok".  Division and remainder of C cut towards zero.  The bitwise    *)
(* operators are taken on their bits (of non-negative operands).            *)
Sign(x) == IF x < 0 THEN -1 ELSE 1

Abs(x) == Sign(x) * x

Quot(a, b) == Sign(a) * Sign(b) * (Abs(a) \div Abs(b))

EvalBits == 8

BitSum(P(_)) == FoldLeft(LAMBDA s, i : s + (IF P(i) THEN 2 ^ i ELSE 0), 0,
                         [j \in 1 .. EvalBits |-> j - 1])

Bit(x, i) == (x \div 2 ^ i) % 2 = 1

EvalBinary(op, l, r) ==
  CASE op = "+" -> {l + r}
    [] op = "-" -> {l - r}
    [] op = "*" -> {l * r}
    [] op = "/" -> IF r = 0 THEN {} ELSE {Quot(l, r)}
    [] op = "%" -> IF r = 0 THEN {} ELSE {l - r * Quot(l, r)}
    [] op = "<<" -> {l * 2 ^ (r % 64)}
    [] op = ">>" -> {l \div 2 ^ (r % 64)}
    [] op = "&" -> {BitSum(LAMBDA i : Bit(l, i) /\ Bit(r, i))}
    [] op = "|" -> {BitSum(LAMBDA i : Bit(l, i) \/ Bit(r, i))}
    [] op = "^" -> {BitSum(LAMBDA i : Bit(l, i) # Bit(r, i))}
    [] OTHER -> {}

EvalUnary(op, v) ==
  CASE op = "-" -> {-v}
    [] op = "!" -> {IF v = 0 THEN 1 ELSE 0}
    [] op = "~" -> {-v - 1}
    [] OTHER -> {}

RECURSIVE ccw_expr_eval(_, _, _)

(* syms: the values of the defined symbols; a symbol that is only declared  *)
(* is not in its domain.                                                    *)
ccw_expr_eval(e, syms, pc) ==
  CASE e.kind = "int" -> {e.v}
    [] e.kind = "current" -> {pc}
    [] e.kind = "sym" -> IF e.n \in DOMAIN syms THEN {syms[e.n]} ELSE {}
    [] e.kind = "unary" ->
         UNION {EvalUnary(e.op, v) : v \in ccw_expr_eval(e.a, syms, pc)}
    [] e.kind = "binary" ->
         UNION {UNION {EvalBinary(e.op, l, r) : r \in ccw_expr_eval(e.b, syms, pc)} :
                l \in ccw_expr_eval(e.a, syms, pc)}
    [] OTHER -> {}

----------------------------------------------------------------------------
(* The reference: what an expression means is said by its grammar, from the *)
(* outside in.  The main operator of a token sequence is, outside           *)
(* parentheses, the rightmost binary operator of the loosest level there    *)
(* is; without one a prefix operator or a pair of parentheses surrounds     *)
(* the rest.                                                                *)
Depth(toks, i) == Cardinality({j \in 1 .. i : toks[j].t = "("})
                  - Cardinality({j \in 1 .. i - 1 : toks[j].t = ")"})

(* A binary operator has an operand on its left.                            *)
Joins(toks, i) ==
  i > 1 /\ toks[i - 1].t \in {"int", "sym", ".", ")"}

MainOps(toks, n) ==
  {i \in DOMAIN toks : toks[i].t \in Level[n] /\ Depth(toks, i) = 0 /\ Joins(toks, i)}

RECURSIVE Meant(_)

Meant(toks) ==
  LET levels == {n \in DOMAIN Level : MainOps(toks, n) # {}}
      len == Len(toks)
  IN IF levels # {}
     THEN LET n == CHOOSE m \in levels : \A k \in levels : m <= k
              i == CHOOSE m \in MainOps(toks, n) : \A k \in MainOps(toks, n) : k <= m
              l == Meant(SubSeq(toks, 1, i - 1))
              r == Meant(SubSeq(toks, i + 1, len))
          IN IF NoExpr \in {l, r} THEN NoExpr
             ELSE [kind |-> "binary", op |-> toks[i].t, a |-> l, b |-> r]
     ELSE IF len = 0 THEN NoExpr
     ELSE IF toks[1].t \in {"-", "~", "!"}
     THEN LET c == Meant(Tail(toks))
          IN IF c = NoExpr THEN NoExpr ELSE [kind |-> "unary", op |-> toks[1].t, a |-> c]
     ELSE IF toks[1].t = "(" /\ toks[len].t = ")" THEN Meant(SubSeq(toks, 2, len - 1))
     ELSE IF toks[1].t = "%" /\ len = 2 /\ toks[2].t = "int"
     THEN [kind |-> "int", v |-> toks[2].v]
     ELSE IF len = 1 /\ toks[1].t = "int" THEN [kind |-> "int", v |-> toks[1].v]
     ELSE IF len = 1 /\ toks[1].t = "sym" THEN [kind |-> "sym", n |-> toks[1].n]
     ELSE IF len = 1 /\ toks[1].t = "." THEN [kind |-> "current"]
     ELSE NoExpr

=============================================================================
