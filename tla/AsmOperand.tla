---------------------------- MODULE AsmOperand ----------------------------
(***************************************************************************)
(* The operand readers of ccwas: the hand-written one                      *)
(* (toolchain/ccwas/parse/ccw_parse.c) and the one that walks a            *)
(* Tree-sitter tree (ccw_parse_ts.c).  The text of an operand is a         *)
(* sequence of tokens: the punctuation "[", "]", "+", "-", "*" and words.  *)
(* A word is [t |-> "word", v |-> name] with n |-> the value strtoll gives *)
(* it and c |-> the class of its first character: "digit", "alpha" or      *)
(* "dot"; punctuation is [t |-> p].  NULL is no name.                      *)
(***************************************************************************)
EXTENDS Integers, Sequences, FiniteSets, SequencesExt

CONSTANT X86Reg   \* the names of x86_regs

NULL == ""

NoOp == [kind |-> "none", reg |-> NULL, imm |-> 0, label |-> NULL,
         base |-> NULL, index |-> NULL, disp |-> 0]

RegOp(r) == [NoOp EXCEPT !.kind = "reg", !.reg = r]

ImmOp(v) == [NoOp EXCEPT !.kind = "imm", !.imm = v]

LabelOp(l) == [NoOp EXCEPT !.kind = "label", !.label = l]

MemOp(b, i, d) == [NoOp EXCEPT !.kind = "mem", !.base = b, !.index = i, !.disp = d]

(* Only x86-64 has a register table.                                        *)
ccw_parse_reg(arch, name) == arch = "x86-64" /\ name \in X86Reg

Word(name, class, n) == [t |-> "word", v |-> name, n |-> n, c |-> class]

Punct(p) == [t |-> p, v |-> NULL, n |-> 0, c |-> "punct"]

NoTok == Punct("none")

(* NULL is the name that is absent, "number" stands for the text of a number. *)
Name == STRING \cup {NULL, "number"}

Token == [t : {"word", "none", "[", "]", "+", "-", "*"}, v : Name, n : Int,
          c : {"digit", "alpha", "dot", "punct"}]

----------------------------------------------------------------------------
(* ccw_parse_mem, character loop and last token.  The states 2 and 4 of the *)
(* code are never entered; the word that a "+", "-" or the end finds in     *)
(* state 3, or a "+" or "-" in state 1, is forgotten.                       *)
MemStep(s, k) ==
  CASE k.t \in {"+", "-"} ->
         [s EXCEPT !.base = IF s.tok # NoTok /\ s.state = 0 THEN s.tok.v ELSE @,
                   !.tok = NoTok, !.sign = k.t,
                   !.state = IF s.state = 0 THEN 1 ELSE 3]
    [] k.t = "*" ->
         [s EXCEPT !.index = IF s.tok # NoTok THEN s.tok.v ELSE @,
                   !.tok = NoTok, !.state = 3]
    [] OTHER -> [s EXCEPT !.tok = k]

MemLast(s) ==
  IF s.tok = NoTok \/ s.state = 3 THEN s
  ELSE IF s.state = 0 THEN [s EXCEPT !.base = s.tok.v]
  ELSE IF s.tok.c \in {"digit", "dot"}
  THEN [s EXCEPT !.disp = IF s.sign = "-" THEN -s.tok.n ELSE s.tok.n]
  ELSE [s EXCEPT !.index = s.tok.v]

(* The state of the loop after each token.                                  *)
MemStates(inside) ==
  LET s[i \in 0 .. Len(inside)] ==
        IF i = 0 THEN [state |-> 0, tok |-> NoTok, base |-> NULL, index |-> NULL,
                       disp |-> 0, sign |-> "+"]
        ELSE MemStep(s[i - 1], inside[i])
  IN s

(* toks starts with "["; the text after the first "]" is not looked at.     *)
ccw_parse_mem(toks) ==
  LET close == {i \in DOMAIN toks : toks[i].t = "]"}
      inside == SubSeq(toks, 2, Min(close) - 1)
      last == MemLast(MemStates(inside)[Len(inside)])
  IN IF close = {} THEN NoOp ELSE MemOp(last.base, last.index, last.disp)

(* A word that starts with a digit or a dot is an immediate: ".L1" reads as *)
(* the number 0.  The value of a character literal is its n.                *)
parse_one_operand(arch, toks) ==
  CASE toks = <<>> -> NoOp
    [] toks # <<>> /\ Head(toks).t = "[" -> ccw_parse_mem(toks)
    [] toks # <<>> /\ Head(toks).t \in {"+", "-"} ->
         ImmOp(IF Len(toks) = 1 THEN 0
               ELSE IF Head(toks).t = "-" THEN -toks[2].n ELSE toks[2].n)
    [] toks # <<>> /\ Head(toks).t = "word" /\ ccw_parse_reg(arch, Head(toks).v) ->
         RegOp(Head(toks).v)
    [] toks # <<>> /\ Head(toks).t = "word" /\ Head(toks).c \in {"digit", "dot"} ->
         ImmOp(Head(toks).n)
    [] OTHER -> LabelOp(Head(toks).v)

(* One operand that cannot be read leaves the instruction without any: the  *)
(* caller does not look at the result.                                      *)
ccw_parse_operands(arch, pieces) ==
  LET ops == [i \in DOMAIN pieces |-> parse_one_operand(arch, pieces[i])]
  IN IF \E i \in DOMAIN ops : ops[i].kind = "none" THEN <<>> ELSE ops

(* A value of a data directive that starts with a digit, a sign or a quote  *)
(* is a number, any other one a label.                                      *)
ccw_parse_data_values(words) ==
  [i \in DOMAIN words |->
     IF words[i].c = "digit" THEN [label |-> NULL, value |-> words[i].n]
     ELSE [label |-> words[i].v, value |-> 0]]

----------------------------------------------------------------------------
(* The Tree-sitter reader of a bracket operand.  The children of the "ptr"  *)
(* node are the tokens of the brackets; which texts the grammar accepts is  *)
(* the vendored grammar's business.  Its first term is a "reg" node         *)
(* whatever it names, the one behind a sign an "int" or an "ident".  NoOp:  *)
(* the reader declines, and the hand-written one reads the line.            *)
parse_int_strict(k) == k.c = "digit"

\* Mutant: a sign token is skipped.
UnsignedTsMemStep(s, k) ==
  CASE s.declined \/ k.t # "word" -> s
    [] k.t = "word" /\ s.base = NULL -> [s EXCEPT !.base = k.v]
    [] k.t = "word" /\ s.base # NULL /\ parse_int_strict(k) -> [s EXCEPT !.disp = @ + k.n]
    [] OTHER -> [s EXCEPT !.index = k.v]

TsMemStep(s, k) ==
  IF s.declined THEN s
  ELSE IF k.t \in {"+", "-"} THEN [s EXCEPT !.sign = IF k.t = "-" THEN -1 ELSE 1]
  ELSE IF k.t # "word" THEN s
  ELSE IF s.base = NULL THEN [s EXCEPT !.base = k.v]
  ELSE IF parse_int_strict(k) THEN [s EXCEPT !.disp = @ + s.sign * k.n, !.sign = 1]
  ELSE IF s.index = NULL THEN [s EXCEPT !.index = k.v]
  ELSE [s EXCEPT !.declined = TRUE]

TsMemStates(toks) ==
  LET s[i \in 0 .. Len(toks)] ==
        IF i = 0 THEN [base |-> NULL, index |-> NULL, disp |-> 0, sign |-> 1, declined |-> FALSE]
        ELSE TsMemStep(s[i - 1], toks[i])
  IN s

(* A base that is no register of the target is declined at the end.         *)
read_mem(arch, toks) ==
  LET r == TsMemStates(toks)[Len(toks)]
  IN IF r.declined \/ ~ccw_parse_reg(arch, r.base) THEN NoOp
     ELSE MemOp(r.base, r.index, r.disp)

read_ident(arch, k) == IF ccw_parse_reg(arch, k.v) THEN RegOp(k.v) ELSE LabelOp(k.v)

read_operand(arch, toks) ==
  CASE Len(toks) = 1 /\ Head(toks).c = "alpha" -> read_ident(arch, Head(toks))
    [] Len(toks) = 1 /\ Head(toks).c = "digit" -> ImmOp(Head(toks).n)
    [] Len(toks) > 1 /\ Head(toks).t = "[" -> read_mem(arch, toks)
    [] OTHER -> NoOp

read_instruction(arch, pieces) == [i \in DOMAIN pieces |-> read_operand(arch, pieces[i])]

(* ts: the line is one the grammar accepts, in a build that has it.         *)
InsnOperands(arch, ts, pieces) ==
  LET read == read_instruction(arch, pieces)
  IN IF ts /\ \A i \in DOMAIN read : read[i].kind # "none" THEN read
     ELSE ccw_parse_operands(arch, pieces)

----------------------------------------------------------------------------
(* What a bracket operand says: the sum of its terms, as the coefficient of *)
(* every name and the constant.  A "*" multiplies the terms around it; the  *)
(* terms a text of the bounded inputs can have are word, and word "*" word. *)
TermEnds(in) == {i \in DOMAIN in : in[i].t = "word" /\ (i = Len(in) \/ in[i + 1].t # "*")}

TermSign(in, i) ==
  LET first == IF i > 1 /\ in[i - 1].t = "*" THEN i - 2 ELSE i
  IN IF first > 1 /\ in[first - 1].t = "-" THEN -1 ELSE 1

(* [coef |-> , name |-> ] of the term that ends at i; name NULL is a number.  *)
TermOf(in, i) ==
  LET scaled == i > 1 /\ in[i - 1].t = "*"
      named == IF scaled THEN in[i - 2] ELSE in[i]
      factor == IF scaled THEN in[i].n ELSE 1
  IN IF named.c = "digit" THEN [name |-> NULL, coef |-> TermSign(in, i) * named.n * factor]
     ELSE [name |-> named.v, coef |-> TermSign(in, i) * factor]

CoefSum(in, name) ==
  FoldFunction(+, 0, [i \in {j \in TermEnds(in) : TermOf(in, j).name = name} |->
                        TermOf(in, i).coef])

SaidMem(in, names) == [x \in names \cup {NULL} |-> CoefSum(in, x)]

ReadMem(op, names) ==
  [x \in names \cup {NULL} |->
     IF x = NULL THEN op.disp
     ELSE (IF op.base = x THEN 1 ELSE 0) + (IF op.index = x THEN 1 ELSE 0)]

=============================================================================
