---------------------------- MODULE CcwasProofs ----------------------------
(***************************************************************************)
(* The assembler, for sources of any length and any templates: what the    *)
(* object file says is what the source said, and a symbol keeps its first  *)
(* definition.  Operand readers and encoder first, then the unit that the  *)
(* parser builds, then the file that is written from it.                   *)
(***************************************************************************)
EXTENDS Ccwas, SequenceLemmas, FiniteSetTheorems, TLAPS

\* What the encoder needs of an operand: its numbers are numbers, its label a name.
Operand(x) == x.imm \in Int /\ x.disp \in Int /\ x.label \in Name
Operands(ops) == \E n \in Nat : DOMAIN ops = 1..n /\ \A i \in 1..n : Operand(ops[i])

LEMMA NullName == NULL \in Name
  BY DEF Name

LEMMA NumberName == "number" \in Name
  BY DEF Name

LEMMA OperandForms ==
  ASSUME NEW r, NEW b, NEW x, NEW v \in Int
  PROVE  /\ Operand(NoOp) /\ Operand(RegOp(r))
         /\ Operand(ImmOp(v)) /\ Operand(MemOp(b, x, v))
  BY NullName DEF Operand, NoOp, RegOp, ImmOp, MemOp

LEMMA LabelForm ==
  ASSUME NEW l \in Name
  PROVE  Operand(LabelOp(l))
  BY NullName DEF Operand, NoOp, LabelOp

\* The states of the two bracket loops.
MemState ==
  [state : Nat, tok : Token, base : Name, index : Name, disp : Int, sign : {"+", "-"}]
TsMemState == [base : Name, index : Name, disp : Int, sign : Int, declined : BOOLEAN]

LEMMA NoTokFacts == NoTok \in Token
  BY NullName DEF NoTok, Punct, Token

LEMMA MemStepType ==
  ASSUME NEW s \in MemState, NEW tok \in Token
  PROVE  MemStep(s, tok) \in MemState /\ MemLast(s).disp \in Int
<1>1. NoTok \in Token
  BY NoTokFacts
<1>2. MemStep(s, tok) \in MemState
  <2>1. CASE tok.t \in {"+", "-"}
    BY <1>1, <2>1 DEF MemStep, MemState, Token
  <2>2. CASE tok.t = "*"
    BY <1>1, <2>2 DEF MemStep, MemState, Token
  <2>3. CASE tok.t \notin {"+", "-", "*"}
    BY <1>1, <2>3 DEF MemStep, MemState, Token
  <2>4. QED
    BY <2>1, <2>2, <2>3
<1>3. MemLast(s).disp \in Int
  <2>1. CASE s.tok = NoTok \/ s.state = 3
    BY <2>1 DEF MemLast, MemState
  <2>2. CASE ~(s.tok = NoTok \/ s.state = 3) /\ s.state = 0
    BY <2>2 DEF MemLast, MemState
  <2>3. CASE ~(s.tok = NoTok \/ s.state = 3) /\ s.state # 0
    BY <2>3 DEF MemLast, MemState, Token
  <2>4. QED
    BY <2>1, <2>2, <2>3
<1>4. QED
  BY <1>2, <1>3

LEMMA TsMemStepType ==
  ASSUME NEW s \in TsMemState, NEW tok \in Token
  PROVE  TsMemStep(s, tok) \in TsMemState
<1> USE DEF TsMemStep, TsMemState, Token
<1>1. CASE s.declined
  BY <1>1
<1>2. CASE ~s.declined /\ tok.t \in {"+", "-"}
  BY <1>2
<1>3. CASE ~s.declined /\ tok.t \notin {"+", "-", "word"}
  BY <1>3
<1>4. CASE ~s.declined /\ tok.t = "word" /\ s.base = NULL
  BY <1>4
<1>5. CASE ~s.declined /\ tok.t = "word" /\ s.base # NULL /\ parse_int_strict(tok)
  <2> DEFINE d == s.disp + s.sign * tok.n
  <2>1. d \in Int
    OBVIOUS
  <2>2. TsMemStep(s, tok) = [s EXCEPT !.disp = d, !.sign = 1]
    BY <1>5
  <2> HIDE DEF d
  <2>3. [s EXCEPT !.disp = d, !.sign = 1] \in TsMemState
    <3> DEFINE w == [s EXCEPT !.disp = d]
    <3>1. w \in TsMemState
      BY <2>1
    <3> HIDE DEF w
    <3>2. [w EXCEPT !.sign = 1] \in TsMemState
      BY <3>1
    <3>3. QED
      BY <3>2 DEF w
  <2> HIDE DEF TsMemStep, TsMemState
  <2>4. QED
    BY <2>2, <2>3
<1>6. CASE ~s.declined /\ tok.t = "word" /\ s.base # NULL /\ ~parse_int_strict(tok)
  BY <1>6
<1>7. QED
  BY <1>1, <1>2, <1>3, <1>4, <1>5, <1>6

\* ccw_parse_mem and read_mem return a memory operand, or none.
LEMMA MemOperands ==
  ASSUME NEW arch, NEW toks \in Seq(Token)
  PROVE  Operand(ccw_parse_mem(toks)) /\ Operand(read_mem(arch, toks))
<1>1. ASSUME NEW q \in Seq(Token) PROVE MemStates(q)[Len(q)] \in MemState
  <2> DEFINE n == Len(q)
             c == [state |-> 0, tok |-> NoTok, base |-> NULL, index |-> NULL, disp |-> 0, sign |-> "+"]
             Body(f) == [i \in 0..n |-> IF i = 0 THEN c ELSE MemStep(f[i - 1], q[i])]
             F == CHOOSE f : f = Body(f)
             g == [p \in (1..n) \X MemState |-> MemStep(p[2], q[p[1]])]
  <2>1. n \in Nat /\ \A i \in 1..n : q[i] \in Token
    BY LenProperties
  <2>2. c \in MemState
    BY NullName, NoTokFacts DEF MemState
  <2>3. MemStates(q) = F
    BY DEF MemStates
  <2> HIDE DEF n, c
  <2>4. IsStep(n, MemState, g)
    BY <2>1, MemStepType DEF IsStep
  <2>5. \A i \in 1..n : \A x \in MemState : g[<<i, x>>] = MemStep(x, q[i])
    OBVIOUS
  <2> HIDE DEF g
  <2>6. PICK f : IsRun(n, MemState, c, g, f)
    BY <2>1, <2>2, <2>4, PrefixRecursion
  <2>7. ASSUME NEW i \in 1..n
        PROVE  i - 1 \in 0..n /\ f[i - 1] \in MemState /\ f[i] = MemStep(f[i - 1], q[i])
    <3>1. i - 1 \in 0..n
      BY <2>1
    <3>2. f[i - 1] \in MemState /\ f[i] = g[<<i, f[i - 1]>>]
      BY <3>1, <2>6 DEF IsRun
    <3>3. QED
      BY <3>1, <3>2, <2>5
  <2>8. f = Body(f)
    <3>1. f \in [0..n -> MemState] /\ f[0] = c
      BY <2>6 DEF IsRun
    <3>2. ASSUME NEW i \in 0..n, i # 0 PROVE i \in 1..n
      BY <2>1, <3>2
    <3>3. QED
      BY <3>1, <3>2, <2>7
  <2>9. F = Body(F)
    BY <2>8
  <2> HIDE DEF F
  <2> DEFINE S == {i \in 0..n : F[i] \in MemState}
  <2>10. 0 \in S
    BY <2>1, <2>2, <2>9
  <2>11. ASSUME NEW i \in 1..n, i - 1 \in S PROVE i \in S
    <3>1. i \in 0..n /\ i # 0 /\ F[i] = MemStep(F[i - 1], q[i])
      BY <2>1, <2>9
    <3>2. QED
      BY <3>1, <2>1, <2>11, MemStepType
  <2> HIDE DEF S
  <2>12. n \in S
    <3>1. \A i \in 0..n : i \in S
      BY <2>1, <2>10, <2>11, PrefixInduction
    <3>2. QED
      BY <2>1, <3>1
  <2>13. QED
    BY <2>3, <2>12 DEF S, n
<1>2. TsMemStates(toks)[Len(toks)] \in TsMemState
  <2> DEFINE n == Len(toks)
             c == [base |-> NULL, index |-> NULL, disp |-> 0, sign |-> 1, declined |-> FALSE]
             Body(f) == [i \in 0..n |-> IF i = 0 THEN c ELSE TsMemStep(f[i - 1], toks[i])]
             F == CHOOSE f : f = Body(f)
             g == [p \in (1..n) \X TsMemState |-> TsMemStep(p[2], toks[p[1]])]
  <2>1. n \in Nat /\ \A i \in 1..n : toks[i] \in Token
    BY LenProperties
  <2>2. c \in TsMemState
    BY NullName DEF TsMemState
  <2>3. TsMemStates(toks) = F
    BY DEF TsMemStates
  <2> HIDE DEF n, c
  <2>4. IsStep(n, TsMemState, g)
    BY <2>1, TsMemStepType DEF IsStep
  <2>5. \A i \in 1..n : \A x \in TsMemState : g[<<i, x>>] = TsMemStep(x, toks[i])
    OBVIOUS
  <2> HIDE DEF g
  <2>6. PICK f : IsRun(n, TsMemState, c, g, f)
    BY <2>1, <2>2, <2>4, PrefixRecursion
  <2>7. ASSUME NEW i \in 1..n
        PROVE  /\ i - 1 \in 0..n /\ f[i - 1] \in TsMemState
               /\ f[i] = TsMemStep(f[i - 1], toks[i])
    <3>1. i - 1 \in 0..n
      BY <2>1
    <3>2. f[i - 1] \in TsMemState /\ f[i] = g[<<i, f[i - 1]>>]
      BY <3>1, <2>6 DEF IsRun
    <3>3. QED
      BY <3>1, <3>2, <2>5
  <2>8. f = Body(f)
    <3>1. f \in [0..n -> TsMemState] /\ f[0] = c
      BY <2>6 DEF IsRun
    <3>2. ASSUME NEW i \in 0..n, i # 0 PROVE i \in 1..n
      BY <2>1, <3>2
    <3>3. QED
      BY <3>1, <3>2, <2>7
  <2>9. F = Body(F)
    BY <2>8
  <2> HIDE DEF F
  <2> DEFINE S == {i \in 0..n : F[i] \in TsMemState}
  <2>10. 0 \in S
    BY <2>1, <2>2, <2>9
  <2>11. ASSUME NEW i \in 1..n, i - 1 \in S PROVE i \in S
    <3>1. i \in 0..n /\ i # 0 /\ F[i] = TsMemStep(F[i - 1], toks[i])
      BY <2>1, <2>9
    <3>2. QED
      BY <3>1, <2>1, <2>11, TsMemStepType
  <2> HIDE DEF S
  <2>12. n \in S
    <3>1. \A i \in 0..n : i \in S
      BY <2>1, <2>10, <2>11, PrefixInduction
    <3>2. QED
      BY <2>1, <3>1
  <2>13. QED
    BY <2>3, <2>12 DEF S, n
<1>3. Operand(read_mem(arch, toks))
  BY <1>2, OperandForms DEF read_mem, TsMemState
<1>4. Operand(ccw_parse_mem(toks))
  <2> DEFINE close == {i \in DOMAIN toks : toks[i].t = "]"}
             inside == SubSeq(toks, 2, Min(close) - 1)
  <2>1. CASE close = {}
    BY <2>1, OperandForms DEF ccw_parse_mem
  <2>2. CASE close # {}
    <3>1. close \subseteq 1..Len(toks) /\ Len(toks) \in Nat
      BY LenProperties
    <3>2. Min(close) \in close
      <4>1. close \subseteq Nat
        BY <3>1
      <4> HIDE DEF close
      <4>2. \E x \in close : \A y \in close : x <= y
        BY <2>2, <4>1, LeastNatural
      <4>3. QED
        BY <4>2 DEF Min
    <3> HIDE DEF close
    <3>3. inside \in Seq(Token)
      <4> DEFINE m == Min(close) - 1
      <4>1. m \in Int /\ m < Len(toks)
        <5> DEFINE c == Min(close)
        <5>1. c \in 1..Len(toks) /\ Len(toks) \in Nat /\ m = c - 1
          BY <3>1, <3>2
        <5> HIDE DEF c, m
        <5>2. QED
          BY <5>1
      <4>2. \A i \in 2..m : toks[i] \in Token
        BY <3>1, <4>1, LenProperties
      <4> HIDE DEF m
      <4>3. SubSeq(toks, 2, m) \in Seq(Token)
        BY <4>1, <4>2, SubSeqProperties
      <4>4. QED
        BY <4>3 DEF m
    <3>4. MemLast(MemStates(inside)[Len(inside)]).disp \in Int
      <4> HIDE DEF inside
      <4>1. NoTok \in Token
        BY NoTokFacts
      <4>2. QED
        BY <4>1, <3>3, <1>1, MemStepType
    <3>5. QED
      BY <3>4, <2>2, OperandForms DEF ccw_parse_mem, close, inside
  <2>3. QED
    BY <2>1, <2>2
<1>5. QED
  BY <1>3, <1>4

LEMMA OperandTypes ==
  ASSUME NEW arch, NEW toks \in Seq(Token)
  PROVE  Operand(parse_one_operand(arch, toks)) /\ Operand(read_operand(arch, toks))
<1>7. Len(toks) \in Nat /\ (\A i \in 1..Len(toks) : toks[i] \in Token) /\ \A x \in Token : x.n \in Int /\ x.v \in Name
  BY LenProperties DEF Token
<1>1. toks # <<>> => Len(toks) \in Nat \ {0} /\ Head(toks) = toks[1] /\ toks[1].n \in Int /\ toks[1].v \in Name
  <2>1. toks # <<>> => Len(toks) # 0 /\ Head(toks) = toks[1]
    BY EmptySeq, HeadTailProperties
  <2>2. QED
    BY <1>7, <2>1
<1>2. Len(toks) > 1 => toks[2].n \in Int /\ -toks[2].n \in Int
  BY <1>7
<1>3. Operand(parse_one_operand(arch, toks))
  <2>1. CASE toks = <<>>
    BY <2>1, OperandForms DEF parse_one_operand
  <2>2. CASE toks # <<>> /\ toks[1].t = "["
    BY <2>2, <1>1, MemOperands DEF parse_one_operand
  <2>3. CASE toks # <<>> /\ toks[1].t \in {"+", "-"}
    <3> DEFINE v == IF Len(toks) = 1 THEN 0 ELSE IF toks[1].t = "-" THEN -toks[2].n ELSE toks[2].n
    <3>1. v \in Int
      <4>1. CASE Len(toks) = 1
        BY <4>1
      <4>2. CASE Len(toks) > 1
        BY <4>2, <1>2
      <4>3. Len(toks) = 1 \/ Len(toks) > 1
        <5> DEFINE n == Len(toks)
        <5>1. n \in Nat \ {0}
          BY <2>3, <1>1
        <5> HIDE DEF n
        <5>2. n = 1 \/ n > 1
          BY <5>1
        <5>3. QED
          BY <5>2 DEF n
      <4>4. QED
        BY <4>1, <4>2, <4>3
    <3>2. parse_one_operand(arch, toks) = ImmOp(v)
      BY <2>3, <1>1 DEF parse_one_operand
    <3> HIDE DEF v
    <3>3. QED
      BY <3>1, <3>2, OperandForms
  <2>4. CASE toks # <<>> /\ toks[1].t \notin {"[", "+", "-"}
    <3>1. \/ parse_one_operand(arch, toks) = RegOp(toks[1].v)
          \/ parse_one_operand(arch, toks) = ImmOp(toks[1].n)
          \/ parse_one_operand(arch, toks) = LabelOp(toks[1].v)
      BY <2>4, <1>1 DEF parse_one_operand
    <3>2. QED
      BY <2>4, <1>1, <3>1, OperandForms, LabelForm
  <2>5. QED
    BY <2>1, <2>2, <2>3, <2>4
<1>4. Operand(read_operand(arch, toks))
  <2>1. CASE Len(toks) = 1
    <3>1. toks # <<>>
      BY <2>1
    <3>2. \/ read_operand(arch, toks) = NoOp
          \/ read_operand(arch, toks) = RegOp(toks[1].v)
          \/ read_operand(arch, toks) = ImmOp(toks[1].n)
          \/ read_operand(arch, toks) = LabelOp(toks[1].v)
      BY <2>1, <3>1, <1>1 DEF read_operand, read_ident
    <3>3. QED
      BY <3>1, <3>2, <1>1, OperandForms, LabelForm
  <2>2. CASE Len(toks) # 1
    <3>1. \/ read_operand(arch, toks) = NoOp
          \/ read_operand(arch, toks) = read_mem(arch, toks)
      BY <2>2 DEF read_operand
    <3>2. QED
      BY <3>1, MemOperands, OperandForms
  <2>3. QED
    BY <2>1, <2>2
<1>5. QED
  BY <1>3, <1>4

\* What the two readers hand to the encoder.
LEMMA InsnOperandsType ==
  ASSUME NEW arch, NEW ts, NEW words \in Seq(Seq(Token))
  PROVE  Operands(InsnOperands(arch, ts, words))
<1> DEFINE n == Len(words)
           read == read_instruction(arch, words)
           ops == [i \in DOMAIN words |-> parse_one_operand(arch, words[i])]
<1>1. n \in Nat /\ DOMAIN words = 1..n /\ \A i \in 1..n : words[i] \in Seq(Token)
  BY LenProperties
<1> HIDE DEF n
<1>2. Operands(read)
  BY <1>1, OperandTypes DEF read_instruction, Operands
<1>3. Operands(ops)
  BY <1>1, OperandTypes DEF Operands
<1>4. Operands(<<>>)
  <2>1. DOMAIN <<>> = 1..0 /\ 0 \in Nat /\ \A i \in 1..0 : FALSE
    OBVIOUS
  <2>2. QED
    BY <2>1 DEF Operands
<1>5. \/ InsnOperands(arch, ts, words) = read
      \/ InsnOperands(arch, ts, words) = <<>>
      \/ InsnOperands(arch, ts, words) = ops
  BY DEF InsnOperands, ccw_parse_operands
<1>6. QED
  BY <1>2, <1>3, <1>4, <1>5

----------------------------------------------------------------------------
(* The encoder.  An encoding is a sequence of bytes without a relocation,   *)
(* or one of the two forms of a branch.                                     *)
Plain(e) == \E s \in Seq(Byte) : e = Enc(s)
Branch(e) == \/ e \in {encode_branch(232), encode_branch(233)}
             \/ \E op \in 130..143 : e = encode_jcc(op)

LEMMA RegNoRange ==
  ASSUME NEW r, lookup_reg(r)
  PROVE  RegNo[r] \in 0..15
<1>1. Len(RegNames) = 16 /\ DOMAIN RegNames = 1..16
  BY DEF RegNames
<1>2. \E i \in DOMAIN RegNames : r \in RegNames[i]
  BY DEF lookup_reg, RegNo, ToSet
<1> DEFINE c == CHOOSE i \in DOMAIN RegNames : r \in RegNames[i]
<1>3. c \in DOMAIN RegNames
  BY <1>2
<1>4. RegNo[r] = c - 1
  BY DEF RegNo, lookup_reg
<1> HIDE DEF c
<1>5. QED
  BY <1>1, <1>3, <1>4

LEMMA RegBits ==
  ASSUME NEW r, lookup_reg(r)
  PROVE  RegNo[r] \in 0..15 /\ reg_requires_rex(r) \in {0, 1}
  BY RegNoRange DEF reg_requires_rex

LEMMA ModBytes ==
  /\ \A w, r, x, b \in {0, 1} : emit_rex(w, r, x, b) \in Byte
  /\ \A mod, reg, rm \in 0..15 : emit_modrm(mod, reg, rm) \in Byte /\ emit_sib(mod, reg, rm) \in Byte
  BY DEF emit_rex, emit_modrm, emit_sib, Byte

LEMMA ImmBytes ==
  ASSUME NEW v \in Int, NEW n \in Nat
  PROVE  emit_imm(v, n) \in Seq(Byte) /\ Len(emit_imm(v, n)) = n
<1>1. ASSUME NEW i \in 1..n PROVE ByteAt(v, i - 1) \in Byte
  <2>1. CASE i = 1
    <3>1. ByteAt(v, i - 1) = (v \div 1) % 256
      BY <2>1 DEF ByteAt
    <3>2. QED
      BY <3>1 DEF Byte
  <2>2. CASE i = 2
    <3>1. ByteAt(v, i - 1) = (v \div 256) % 256
      BY <2>2 DEF ByteAt
    <3>2. QED
      BY <3>1 DEF Byte
  <2>3. CASE i = 3
    <3>1. ByteAt(v, i - 1) = (v \div 65536) % 256
      BY <2>3 DEF ByteAt
    <3>2. QED
      BY <3>1 DEF Byte
  <2>4. CASE i > 3
    BY <2>4 DEF ByteAt, Byte
  <2>5. QED
    BY <2>1, <2>2, <2>3, <2>4
<1>2. emit_imm(v, n) \in [1..n -> Byte]
  BY <1>1 DEF emit_imm
<1>3. QED
  BY <1>2, FunctionLength

LEMMA DispFacts ==
  ASSUME NEW d \in Int
  PROVE  DispMod(d) \in 0..2 /\ DispBytes(d) \in Seq(Byte)
<1>1. DispMod(d) \in 0..2
  BY DEF DispMod
<1>2. \E n \in Nat : DispBytes(d) = emit_imm(d, n)
  BY DEF DispBytes
<1>3. QED
  BY <1>1, <1>2, ImmBytes

\* The four addressing forms.
LEMMA MemBytes ==
  ASSUME NEW r, lookup_reg(r), NEW op \in Byte, NEW b, NEW x, NEW d \in Int
  PROVE  /\ AbsMem(r, op, d) \in Seq(Byte)
         /\ lookup_reg(b) => BaseMem(r, op, b, d) \in Seq(Byte)
         /\ lookup_reg(x) => IndexMem(r, op, b, x, d) \in Seq(Byte)
<1>1. RegNo[r] \in 0..15 /\ reg_requires_rex(r) \in {0, 1}
  BY RegBits
<1>2. DispMod(d) \in 0..15 /\ DispBytes(d) \in Seq(Byte) /\ emit_imm(d, 4) \in Seq(Byte)
  BY DispFacts, ImmBytes
<1>3. AbsMem(r, op, d) \in Seq(Byte)
  <2> DEFINE h == <<emit_rex(1, reg_requires_rex(r), 0, 0), op,
                    emit_modrm(0, RegNo[r], 4), emit_sib(0, 4, 5)>>
  <2>1. h \in Seq(Byte)
    <3>1. /\ emit_rex(1, reg_requires_rex(r), 0, 0) \in Byte
          /\ emit_modrm(0, RegNo[r], 4) \in Byte /\ emit_sib(0, 4, 5) \in Byte
      BY <1>1, ModBytes
    <3>2. QED
      BY <3>1
  <2> HIDE DEF h
  <2>2. h \o emit_imm(d, 4) \in Seq(Byte)
    BY <2>1, <1>2, ConcatProperties
  <2>3. QED
    BY <2>2 DEF AbsMem, h
<1>4. ASSUME lookup_reg(b) PROVE BaseMem(r, op, b, d) \in Seq(Byte)
  <2> DEFINE h == <<emit_rex(1, reg_requires_rex(r), 0, reg_requires_rex(b)), op>>
             m == IF RegNo[b] = 4 THEN <<emit_modrm(DispMod(d), RegNo[r], 4), emit_sib(0, 4, 4)>>
                  ELSE <<emit_modrm(DispMod(d), RegNo[r], RegNo[b])>>
  <2>1. h \in Seq(Byte)
    <3>1. emit_rex(1, reg_requires_rex(r), 0, reg_requires_rex(b)) \in Byte
      BY <1>1, <1>4, RegBits, ModBytes
    <3>2. QED
      BY <3>1
  <2>2. m \in Seq(Byte)
    <3>1. /\ emit_modrm(DispMod(d), RegNo[r], 4) \in Byte /\ emit_sib(0, 4, 4) \in Byte
          /\ emit_modrm(DispMod(d), RegNo[r], RegNo[b]) \in Byte
      <4>1. RegNo[b] \in 0..15 /\ 4 \in 0..15 /\ 0 \in 0..15
        BY <1>4, RegBits
      <4>2. QED
        BY <4>1, <1>1, <1>2, ModBytes
    <3>2. QED
      BY <3>1
  <2> HIDE DEF h, m
  <2>3. h \o m \in Seq(Byte)
    BY <2>1, <2>2, ConcatProperties
  <2>4. (h \o m) \o DispBytes(d) \in Seq(Byte)
    BY <2>3, <1>2, ConcatProperties
  <2>5. QED
    BY <2>4 DEF BaseMem, h, m
<1>5. ASSUME lookup_reg(x) PROVE IndexMem(r, op, b, x, d) \in Seq(Byte)
  <2> DEFINE bb == IF lookup_reg(b) THEN reg_requires_rex(b) ELSE 0
             bn == IF lookup_reg(b) THEN RegNo[b] ELSE 5
             h == <<emit_rex(1, reg_requires_rex(r), reg_requires_rex(x), bb), op,
                    emit_modrm(DispMod(d), RegNo[r], 4), emit_sib(0, RegNo[x], bn)>>
  <2>1. bb \in {0, 1} /\ bn \in 0..15
    BY RegBits
  <2>2. h \in Seq(Byte)
    <3> HIDE DEF bb, bn
    <3>1. /\ emit_rex(1, reg_requires_rex(r), reg_requires_rex(x), bb) \in Byte
          /\ emit_modrm(DispMod(d), RegNo[r], 4) \in Byte /\ emit_sib(0, RegNo[x], bn) \in Byte
      <4>1. RegNo[x] \in 0..15 /\ reg_requires_rex(x) \in {0, 1} /\ 4 \in 0..15 /\ 0 \in 0..15
        BY <1>5, RegBits
      <4>2. QED
        BY <4>1, <1>1, <1>2, <2>1, ModBytes
    <3>2. QED
      BY <3>1
  <2>3. IndexMem(r, op, b, x, d) = h \o DispBytes(d)
    BY DEF IndexMem
  <2> HIDE DEF h
  <2>4. QED
    BY <1>2, <2>2, <2>3, ConcatProperties
<1>6. QED
  BY <1>3, <1>4, <1>5

LEMMA ShortSeqs ==
  ASSUME NEW a \in Byte, NEW b \in Byte, NEW c \in Byte, NEW d \in Byte
  PROVE  /\ <<>> \in Seq(Byte) /\ <<a>> \in Seq(Byte) /\ <<a, b>> \in Seq(Byte)
         /\ <<a, b, c>> \in Seq(Byte) /\ <<a, b, c, d>> \in Seq(Byte)
  OBVIOUS

LEMMA PlainEnc ==
  ASSUME NEW s \in Seq(Byte), NEW t \in Seq(Byte)
  PROVE  Plain(Enc(s)) /\ Plain(Enc(s \o t)) /\ Plain(NoEnc)
<1>1. s \o t \in Seq(Byte) /\ <<>> \in Seq(Byte)
  BY ConcatProperties
<1>2. QED
  BY <1>1 DEF Plain, NoEnc

\* The encoders of one and two registers, and of a register and a number.
LEMMA RegisterForms ==
  ASSUME NEW d, lookup_reg(d), NEW s, lookup_reg(s), NEW op \in Byte, NEW k \in 0..15, NEW v \in Int
  PROVE  /\ Plain(encode_alu_rr(op, d, s)) /\ Plain(encode_imul_rr(op, d, s))
         /\ \A push \in BOOLEAN : Plain(encode_pushpop_r(d, push)) /\ Plain(encode_incdec_r(d, push))
         /\ Plain(encode_mov_ri(d, v)) /\ Plain(encode_alu_ri(k, d, v))
         /\ Plain(encode_shift_rr(k, d, s)) /\ Plain(encode_shift_ri(k, d, v))
         /\ Plain(encode_notneg_r(d, k)) /\ Plain(encode_imul_rri(d, s, v))
         /\ Plain(encode_setcc(op, d))
<1>1. /\ RegNo[d] \in 0..15 /\ reg_requires_rex(d) \in {0, 1}
      /\ RegNo[s] \in 0..15 /\ reg_requires_rex(s) \in {0, 1}
  BY RegBits
<1> DEFINE dn == RegNo[d]
           sn == RegNo[s]
           dx == reg_requires_rex(d)
           sx == reg_requires_rex(s)
<1>2. dn \in 0..15 /\ sn \in 0..15 /\ dx \in {0, 1} /\ sx \in {0, 1}
  BY <1>1
<1> HIDE DEF dn, sn, dx, sx
<1>3. /\ emit_rex(1, sx, 0, dx) \in Byte /\ emit_rex(1, dx, 0, sx) \in Byte
      /\ emit_rex(1, 0, 0, dx) \in Byte /\ emit_rex(0, dx, 0, dx) \in Byte
  BY <1>2, ModBytes
<1>4. ASSUME NEW i \in 0..15
      PROVE  emit_modrm(3, i, dn) \in Byte /\ emit_modrm(3, i, sn) \in Byte
  <2>1. 3 \in 0..15
    OBVIOUS
  <2>2. QED
    BY <1>2, <2>1, ModBytes
<1>5. 0 \in 0..15 /\ 1 \in 0..15
  OBVIOUS
<1>6. \A n \in {65, 129, 131, 107, 209, 193, 211, 247, 255, 15} : n \in Byte
  BY DEF Byte
<1>7. emit_imm(v, 1) \in Seq(Byte) /\ emit_imm(v, 4) \in Seq(Byte) /\ emit_imm(v, 8) \in Seq(Byte)
  BY ImmBytes
<1>8. Plain(encode_alu_rr(op, d, s))
  <2>1. emit_modrm(3, sn, dn) \in Byte
    BY <1>2, <1>4
  <2>2. <<emit_rex(1, sx, 0, dx), op, emit_modrm(3, sn, dn)>> \in Seq(Byte)
    BY <2>1, <1>3, ShortSeqs
  <2>3. QED
    BY <2>2, PlainEnc DEF encode_alu_rr, dn, sn, dx, sx
<1>9. Plain(encode_imul_rr(op, d, s))
  <2>1. emit_modrm(3, dn, sn) \in Byte
    BY <1>2, <1>4
  <2>2. <<emit_rex(1, dx, 0, sx), 15, op, emit_modrm(3, dn, sn)>> \in Seq(Byte)
    BY <2>1, <1>3, <1>6, ShortSeqs
  <2>3. QED
    BY <2>2, PlainEnc DEF encode_imul_rr, dn, sn, dx, sx
<1>10. ASSUME NEW push \in BOOLEAN PROVE Plain(encode_pushpop_r(d, push))
  <2> DEFINE h == IF dn >= 8 THEN <<65>> ELSE <<>>
             t == <<(IF push THEN 80 ELSE 88) + (dn % 8)>>
  <2>1. h \in Seq(Byte)
    BY <1>6, ShortSeqs
  <2>2. (IF push THEN 80 ELSE 88) + (dn % 8) \in Byte
    BY <1>2 DEF Byte
  <2>3. t \in Seq(Byte)
    BY <2>2, ShortSeqs
  <2>4. encode_pushpop_r(d, push) = Enc(h \o t)
    BY DEF encode_pushpop_r, dn
  <2> HIDE DEF h, t
  <2>5. QED
    BY <2>1, <2>3, <2>4, PlainEnc
<1>11. ASSUME NEW push \in BOOLEAN PROVE Plain(encode_incdec_r(d, push))
  <2> DEFINE i == IF push THEN 0 ELSE 1
  <2>1. i \in 0..15
    OBVIOUS
  <2>2. encode_incdec_r(d, push) = Enc(<<emit_rex(1, 0, 0, dx), 255, emit_modrm(3, i, dn)>>)
    BY DEF encode_incdec_r, dn, dx
  <2> HIDE DEF i
  <2>3. <<emit_rex(1, 0, 0, dx), 255, emit_modrm(3, i, dn)>> \in Seq(Byte)
    BY <2>1, <1>3, <1>4, <1>6, ShortSeqs
  <2>4. QED
    BY <2>2, <2>3, PlainEnc
<1>12. Plain(encode_mov_ri(d, v))
  <2>1. 184 + (dn % 8) \in Byte
    BY <1>2 DEF Byte
  <2>2. <<emit_rex(1, 0, 0, dx), 184 + (dn % 8)>> \in Seq(Byte)
    BY <2>1, <1>3, ShortSeqs
  <2>3. QED
    BY <2>2, <1>7, PlainEnc DEF encode_mov_ri, dn, dx
<1>13. Plain(encode_alu_ri(k, d, v))
  <2> DEFINE op1 == IF v \in -128..127 THEN 131 ELSE 129
             h == <<emit_rex(1, 0, 0, dx), op1, emit_modrm(3, k, dn)>>
             t == emit_imm(v, IF v \in -128..127 THEN 1 ELSE 4)
  <2>1. op1 \in Byte
    BY <1>6
  <2>2. t \in Seq(Byte)
    BY <1>7
  <2>3. encode_alu_ri(k, d, v) = Enc(h \o t)
    BY DEF encode_alu_ri, dn, dx
  <2> HIDE DEF op1, t
  <2>4. h \in Seq(Byte)
    BY <2>1, <1>3, <1>4, ShortSeqs
  <2> HIDE DEF h
  <2>5. QED
    BY <2>2, <2>3, <2>4, PlainEnc
<1>14. Plain(encode_shift_rr(k, d, s))
  <2>1. <<emit_rex(1, 0, 0, dx), 211, emit_modrm(3, k, dn)>> \in Seq(Byte)
    <3> DEFINE x == emit_rex(1, 0, 0, dx)
               y == emit_modrm(3, k, dn)
    <3>1. x \in Byte /\ y \in Byte /\ 211 \in Byte
      BY <1>3, <1>4, <1>6
    <3> HIDE DEF x, y
    <3>2. <<x, 211, y>> \in Seq(Byte)
      BY <3>1, ShortSeqs
    <3>3. QED
      BY <3>2 DEF x, y
  <2>2. QED
    BY <2>1, PlainEnc DEF encode_shift_rr, dn, dx
<1>15. Plain(encode_shift_ri(k, d, v))
  <2> DEFINE op1 == IF v = 1 THEN 209 ELSE 193
             h == <<emit_rex(1, 0, 0, dx), op1, emit_modrm(3, k, dn)>>
  <2>1. op1 \in Byte
    BY <1>6
  <2>2. encode_shift_ri(k, d, v) = Enc(IF v = 1 THEN h ELSE h \o emit_imm(v, 1))
    BY DEF encode_shift_ri, dn, dx
  <2> HIDE DEF op1
  <2>3. h \in Seq(Byte)
    BY <2>1, <1>3, <1>4, ShortSeqs
  <2> HIDE DEF h
  <2>4. QED
    BY <2>2, <2>3, <1>7, PlainEnc
<1>16. Plain(encode_notneg_r(d, k))
  <2>1. <<emit_rex(1, 0, 0, dx), 247, emit_modrm(3, k, dn)>> \in Seq(Byte)
    <3> DEFINE x == emit_rex(1, 0, 0, dx)
               y == emit_modrm(3, k, dn)
    <3>1. x \in Byte /\ y \in Byte /\ 247 \in Byte
      BY <1>3, <1>4, <1>6
    <3> HIDE DEF x, y
    <3>2. <<x, 247, y>> \in Seq(Byte)
      BY <3>1, ShortSeqs
    <3>3. QED
      BY <3>2 DEF x, y
  <2>2. QED
    BY <2>1, PlainEnc DEF encode_notneg_r, dn, dx
<1>17. Plain(encode_imul_rri(d, s, v))
  <2>1. emit_modrm(3, dn, sn) \in Byte
    BY <1>2, <1>4
  <2>2. <<emit_rex(1, dx, 0, sx), 107, emit_modrm(3, dn, sn)>> \in Seq(Byte)
    BY <2>1, <1>3, <1>6, ShortSeqs
  <2>3. QED
    BY <2>2, <1>7, PlainEnc DEF encode_imul_rri, dn, sn, dx, sx
<1>18. Plain(encode_setcc(op, d))
  <2> DEFINE h == IF dx = 1 THEN <<emit_rex(0, dx, 0, dx)>> ELSE <<>>
             t == <<15, op, emit_modrm(3, 0, dn)>>
  <2>1. h \in Seq(Byte)
    BY <1>3, ShortSeqs
  <2>2. t \in Seq(Byte)
    BY <1>4, <1>5, <1>6, ShortSeqs
  <2>3. encode_setcc(op, d) = Enc(h \o t)
    BY DEF encode_setcc, dn, dx
  <2> HIDE DEF h, t
  <2>4. QED
    BY <2>1, <2>2, <2>3, PlainEnc
<1>19. QED
  BY <1>8, <1>9, <1>10, <1>11, <1>12, <1>13, <1>14, <1>15, <1>16, <1>17, <1>18

LEMMA MemoryForms ==
  ASSUME NEW r, lookup_reg(r), NEW op \in Byte, NEW mem, Operand(mem)
  PROVE  Plain(encode_lea_rm(op, r, mem)) /\ Plain(encode_mov_mr(mem, r))
<1>1. 137 \in Byte /\ mem.disp \in Int
  BY DEF Byte, Operand
<1>2. Plain(encode_lea_rm(op, r, mem))
  <2>1. CASE lookup_reg(mem.index)
    <3>1. IndexMem(r, op, mem.base, mem.index, mem.disp) \in Seq(Byte)
      BY <2>1, <1>1, MemBytes
    <3>2. QED
      BY <2>1, <3>1, PlainEnc DEF encode_lea_rm
  <2>2. CASE ~lookup_reg(mem.index) /\ lookup_reg(mem.base)
    <3>1. BaseMem(r, op, mem.base, mem.disp) \in Seq(Byte)
      BY <2>2, <1>1, MemBytes
    <3>2. QED
      BY <2>2, <3>1, PlainEnc DEF encode_lea_rm
  <2>3. CASE ~lookup_reg(mem.index) /\ ~lookup_reg(mem.base)
    <3>1. AbsMem(r, op, mem.disp) \in Seq(Byte)
      BY <1>1, MemBytes
    <3>2. QED
      BY <2>3, <3>1, PlainEnc DEF encode_lea_rm
  <2>4. QED
    BY <2>1, <2>2, <2>3
<1>3. Plain(encode_mov_mr(mem, r))
  <2>1. AbsMem(r, 137, mem.disp) \in Seq(Byte)
    BY <1>1, MemBytes
  <2>2. lookup_reg(mem.base) => BaseMem(r, 137, mem.base, mem.disp) \in Seq(Byte)
    BY <1>1, MemBytes
  <2>3. QED
    BY <2>1, <2>2, PlainEnc DEF encode_mov_mr
<1>4. QED
  BY <1>2, <1>3

\* The tables of the dispatcher hold opcodes and digits.
LEMMA Tables ==
  /\ \A m \in DOMAIN Setcc : Setcc[m] \in Byte
  /\ \A m \in DOMAIN Jcc : Jcc[m] \in 130..143
  /\ \A m \in DOMAIN AluRR : AluRR[m] \in Byte
  /\ \A m \in DOMAIN AluRI : AluRI[m] \in 0..15
  /\ \A m \in DOMAIN ShiftDigit : ShiftDigit[m] \in 0..15
  /\ \A m \in DOMAIN NotNeg : NotNeg[m] \in 0..15
<1>1. /\ \A m \in DOMAIN Setcc : Setcc[m] \in Byte
      /\ \A m \in DOMAIN AluRR : AluRR[m] \in Byte
  BY DEF Setcc, AluRR, Byte
<1>2. \A m \in DOMAIN Jcc : Jcc[m] \in 130..143
  BY DEF Jcc
<1>3. /\ \A m \in DOMAIN AluRI : AluRI[m] \in 0..15
      /\ \A m \in DOMAIN ShiftDigit : ShiftDigit[m] \in 0..15
      /\ \A m \in DOMAIN NotNeg : NotNeg[m] \in 0..15
  BY DEF AluRI, ShiftDigit, NotNeg
<1>4. QED
  BY <1>1, <1>2, <1>3

LEMMA OpcodeBytes == \A n \in {139, 141, 133, 137, 175, 191, 183, 68, 69, 144, 195, 204, 15, 5} : n \in Byte
  BY DEF Byte

\* Every instruction the dispatcher accepts.
LEMMA EncodeForms ==
  ASSUME NEW m, NEW ops, Operands(ops)
  PROVE  \/ Plain(ccw_encode_insn(m, ops))
         \/ Branch(ccw_encode_insn(m, ops)) /\ ops[1].label \in Name
<1> DEFINE sig == [i \in DOMAIN ops |-> ops[i].kind]
<1>1. PICK n \in Nat : DOMAIN ops = 1..n /\ \A i \in 1..n : Operand(ops[i])
  BY DEF Operands
<1>2. Plain(NoEnc)
  <2>1. <<>> \in Seq(Byte)
    OBVIOUS
  <2>2. QED
    BY <2>1, PlainEnc
<1>3. Plain(encode_simple(m))
  <2>1. /\ <<144>> \in Seq(Byte) /\ <<195>> \in Seq(Byte) /\ <<204>> \in Seq(Byte)
        /\ <<15, 5>> \in Seq(Byte)
    BY OpcodeBytes, ShortSeqs
  <2>2. QED
    BY <2>1, <1>2, PlainEnc DEF encode_simple
<1>4. ASSUME NEW r PROVE Plain(OneReg(m, r))
  <2>1. CASE ~lookup_reg(r)
    BY <2>1, <1>2 DEF OneReg
  <2>2. CASE lookup_reg(r)
    <3>1. \/ OneReg(m, r) = NoEnc
          \/ OneReg(m, r) = encode_pushpop_r(r, m = "push")
          \/ OneReg(m, r) = encode_incdec_r(r, m = "inc")
          \/ m \in DOMAIN NotNeg /\ OneReg(m, r) = encode_notneg_r(r, NotNeg[m])
          \/ m \in DOMAIN Setcc /\ OneReg(m, r) = encode_setcc(Setcc[m], r)
      BY <2>2 DEF OneReg
    <3>2. /\ \A push \in BOOLEAN : Plain(encode_pushpop_r(r, push)) /\ Plain(encode_incdec_r(r, push))
          /\ \A op \in Byte : Plain(encode_setcc(op, r))
          /\ \A k \in 0..15 : Plain(encode_notneg_r(r, k))
      <4>1. 0 \in 0..15 /\ 0 \in Int /\ 15 \in Byte
        BY DEF Byte
      <4>2. QED
        BY <4>1, <2>2, RegisterForms
    <3>3. Plain(encode_pushpop_r(r, m = "push")) /\ Plain(encode_incdec_r(r, m = "inc"))
      <4>1. (m = "push") \in BOOLEAN /\ (m = "inc") \in BOOLEAN
        OBVIOUS
      <4>2. QED
        BY <3>2, <4>1, Zenon
    <3>4. QED
      BY <3>1, <3>2, <3>3, <1>2, Tables
  <2>3. QED
    BY <2>1, <2>2
<1>5. Plain(OneLabel(m)) \/ Branch(OneLabel(m))
  <2>1. \/ OneLabel(m) = NoEnc
        \/ OneLabel(m) \in {encode_branch(232), encode_branch(233)}
        \/ m \in DOMAIN Jcc /\ OneLabel(m) = encode_jcc(Jcc[m])
    BY DEF OneLabel
  <2>2. QED
    BY <2>1, <1>2, Tables DEF Branch
<1>6. ASSUME NEW d, NEW s PROVE Plain(RegReg(m, d, s))
  <2>1. CASE ~lookup_reg(d) \/ ~lookup_reg(s)
    BY <2>1, <1>2 DEF RegReg
  <2>2. CASE lookup_reg(d) /\ lookup_reg(s)
    <3>1. \/ RegReg(m, d, s) = NoEnc
          \/ \E op \in {137, 133} : RegReg(m, d, s) = encode_alu_rr(op, d, s)
          \/ m \in DOMAIN AluRR /\ RegReg(m, d, s) = encode_alu_rr(AluRR[m], d, s)
          \/ \E op \in {175, 191, 183, 68, 69} : RegReg(m, d, s) = encode_imul_rr(op, d, s)
          \/ m \in DOMAIN ShiftDigit /\ RegReg(m, d, s) = encode_shift_rr(ShiftDigit[m], d, s)
      BY <2>2 DEF RegReg, encode_mov_rr, encode_test_rr, encode_movext, encode_cmovcc
    <3>2. QED
      BY <2>2, <3>1, <1>2, Tables, OpcodeBytes, RegisterForms
  <2>3. QED
    BY <2>1, <2>2
<1>7. ASSUME NEW d, NEW v \in Int PROVE Plain(RegImm(m, d, v))
  <2>1. CASE ~lookup_reg(d)
    BY <2>1, <1>2 DEF RegImm
  <2>2. CASE lookup_reg(d)
    <3>1. \/ RegImm(m, d, v) = NoEnc
          \/ RegImm(m, d, v) = encode_mov_ri(d, v)
          \/ m \in DOMAIN AluRI /\ RegImm(m, d, v) = encode_alu_ri(AluRI[m], d, v)
          \/ m \in DOMAIN ShiftDigit /\ RegImm(m, d, v) = encode_shift_ri(ShiftDigit[m], d, v)
      BY <2>2 DEF RegImm
    <3>2. QED
      BY <2>2, <3>1, <1>2, Tables, OpcodeBytes, RegisterForms
  <2>3. QED
    BY <2>1, <2>2
<1>8. ASSUME NEW d, NEW x, Operand(x) PROVE Plain(RegMem(m, d, x)) /\ Plain(MemReg(m, x, d))
  <2>1. CASE ~lookup_reg(d)
    BY <2>1, <1>2 DEF RegMem, MemReg
  <2>2. CASE lookup_reg(d)
    <3>1. \/ RegMem(m, d, x) = NoEnc
          \/ \E op \in {139, 141} : RegMem(m, d, x) = encode_lea_rm(op, d, x)
      BY <2>2 DEF RegMem, encode_mov_rm
    <3>2. MemReg(m, x, d) = NoEnc \/ MemReg(m, x, d) = encode_mov_mr(x, d)
      BY DEF MemReg
    <3>3. Plain(encode_mov_mr(x, d)) /\ \A op \in {139, 141} : Plain(encode_lea_rm(op, d, x))
      BY <2>2, <1>8, OpcodeBytes, MemoryForms
    <3>4. QED
      BY <3>1, <3>2, <3>3, <1>2
  <2>3. QED
    BY <2>1, <2>2
<1>9. CASE sig = <<>>
  BY <1>9, <1>3 DEF ccw_encode_insn
<1>10. CASE sig = <<"reg">>
  <2>1. ccw_encode_insn(m, ops) = OneReg(m, ops[1].reg)
    BY <1>10, SMTT(30) DEF ccw_encode_insn
  <2>2. QED
    BY <2>1, <1>4
<1>13. ASSUME NEW i \in DOMAIN sig PROVE Operand(ops[i])
  BY <1>1
<1>11. CASE sig = <<"label">>
  <2>1. ccw_encode_insn(m, ops) = OneLabel(m)
    BY <1>11 DEF ccw_encode_insn
  <2>2. ops[1].label \in Name
    BY <1>11, <1>13 DEF Operand
  <2>3. QED
    BY <2>1, <2>2, <1>5
<1>12. CASE sig = <<"reg", "reg">>
  BY <1>12, <1>6 DEF ccw_encode_insn
<1>14. CASE sig = <<"reg", "imm">>
  <2>1. ops[2].imm \in Int
    BY <1>13, <1>14 DEF Operand
  <2>2. QED
    BY <1>14, <2>1, <1>7 DEF ccw_encode_insn
<1>15. CASE sig = <<"reg", "mem">>
  <2>1. Operand(ops[2])
    BY <1>13, <1>15
  <2>2. QED
    BY <1>15, <2>1, <1>8 DEF ccw_encode_insn
<1>16. CASE sig = <<"mem", "reg">>
  <2>1. Operand(ops[1])
    BY <1>13, <1>16
  <2>2. QED
    BY <1>16, <2>1, <1>8 DEF ccw_encode_insn
<1>17. CASE sig = <<"reg", "reg", "imm">>
  <2>1. ops[3].imm \in Int
    BY <1>13, <1>17 DEF Operand
  <2>2. \/ ccw_encode_insn(m, ops) = NoEnc
        \/ /\ lookup_reg(ops[1].reg) /\ lookup_reg(ops[2].reg)
           /\ ccw_encode_insn(m, ops) = encode_imul_rri(ops[1].reg, ops[2].reg, ops[3].imm)
    BY <1>17 DEF ccw_encode_insn
  <2>3. 0 \in 0..15
    OBVIOUS
  <2>4. QED
    BY <2>1, <2>2, <2>3, <1>2, OpcodeBytes, RegisterForms
<1>18. CASE sig \notin {<<>>, <<"reg">>, <<"label">>, <<"reg", "reg">>, <<"reg", "imm">>,
                       <<"reg", "mem">>, <<"mem", "reg">>, <<"reg", "reg", "imm">>}
  <2>1. ccw_encode_insn(m, ops) = NoEnc
    BY <1>18 DEF ccw_encode_insn
  <2>2. QED
    BY <2>1, <1>2
<1>19. QED
  BY <1>9, <1>10, <1>11, <1>12, <1>14, <1>15, <1>16, <1>17, <1>18

----------------------------------------------------------------------------
(* The inductive invariant.  The unit: sections and symbols have their      *)
(* types, a label lies inside its section, and a relocation still has under *)
(* it what it was made for: the four zero bytes of a branch, and for a call *)
(* or jmp (the byte before them says which) a symbol that was declared.     *)
SectionRec ==
  [name : STRING \cup {".text", ".data", ".bss"}, type : {"progbits", "nobits"},
   flags : SUBSET {"alloc", "exec", "write"}, align : Nat, data : Seq(Byte)]

SymbolRec == [value : Int, section : Nat, binding : {0, 1}, defined : BOOLEAN]

RelocRec ==
  [type : {"abs64", "abs32", "pc32"}, offset : Nat, symbol : Name, addend : {0, -4},
   section : {0}, home : Nat]

TabOK(tab, secs) ==
  /\ IsFiniteSet(DOMAIN tab) /\ tab \in [DOMAIN tab -> SymbolRec]
  /\ \A n \in DOMAIN tab :
       /\ tab[n].section \in 0..Len(secs)
       /\ tab[n].section # 0 => tab[n].value <= Len(secs[tab[n].section].data)

RelocOK(r, secs, names) ==
  /\ r.home \in DOMAIN secs
  /\ r.type = "pc32" =>
       \A b \in 1..4 : /\ r.offset + b \in DOMAIN secs[r.home].data
                       /\ secs[r.home].data[r.offset + b] = 0
  /\ r.addend = -4 =>
       /\ r.offset \in DOMAIN secs[r.home].data
       /\ secs[r.home].data[r.offset] \in {232, 233} => r.symbol \in names

RelocsOK(rels, secs, names) ==
  rels \in Seq(RelocRec) /\ \A i \in 1..Len(rels) : RelocOK(rels[i], secs, names)

UnitOK ==
  /\ sections \in Seq(SectionRec) /\ cur \in DOMAIN sections
  /\ TabOK(symtab, sections)
  /\ RelocsOK(relocs, sections, DOMAIN symtab)
  /\ in_macro \in BOOLEAN /\ errors \in Nat /\ warnings \in Nat

\* Sections only grow, and keep the bytes they have.
Grown(old, new) ==
  \A i \in DOMAIN old :
    /\ i \in DOMAIN new
    /\ Len(old[i].data) <= Len(new[i].data)
    /\ \A j \in DOMAIN old[i].data : j \in DOMAIN new[i].data /\ new[i].data[j] = old[i].data[j]

\* What is added at the end of a section leaves the rest of the unit in order.
LEMMA GrownKeeps ==
  ASSUME NEW old \in Seq(SectionRec), NEW new \in Seq(SectionRec), Grown(old, new),
         NEW tab, TabOK(tab, old), NEW rels, NEW names, NEW more, names \subseteq more,
         RelocsOK(rels, old, names)
  PROVE  TabOK(tab, new) /\ RelocsOK(rels, new, more)
<1>1. DOMAIN old = 1..Len(old) /\ DOMAIN new = 1..Len(new) /\ Len(old) \in Nat /\ Len(new) \in Nat
  BY LenProperties
<1>2. Len(old) <= Len(new)
  BY <1>1 DEF Grown
<1>3. \A i \in DOMAIN old : Len(old[i].data) \in Nat /\ Len(new[i].data) \in Nat
  <2>1. \A r \in SectionRec : Len(r.data) \in Nat
    BY LenProperties DEF SectionRec
  <2>2. \A i \in 1..Len(old) : i \in 1..Len(new)
    BY <1>1, <1>2
  <2>3. (\A i \in 1..Len(old) : old[i] \in SectionRec) /\ \A i \in 1..Len(new) : new[i] \in SectionRec
    BY LenProperties
  <2>4. QED
    BY <1>1, <2>1, <2>2, <2>3
<1>4. TabOK(tab, new)
  <2>1. ASSUME NEW n \in DOMAIN tab
        PROVE  /\ tab[n].section \in 0..Len(new)
               /\ tab[n].section # 0 => tab[n].value <= Len(new[tab[n].section].data)
    <3>1. tab[n] \in SymbolRec /\ tab[n].section \in 0..Len(old)
      BY DEF TabOK
    <3>2. tab[n].value \in Int
      BY <3>1 DEF SymbolRec
    <3>3. tab[n].section # 0 => /\ tab[n].section \in DOMAIN old
                                /\ tab[n].value <= Len(old[tab[n].section].data)
      BY <3>1, <1>1 DEF TabOK
    <3>4. tab[n].section \in DOMAIN old =>
            Len(old[tab[n].section].data) <= Len(new[tab[n].section].data)
      BY DEF Grown
    <3>5. QED
      BY <3>1, <3>2, <3>3, <3>4, <1>1, <1>2, <1>3
  <2>2. QED
    BY <2>1 DEF TabOK
<1>5. RelocsOK(rels, new, more)
  <2>1. ASSUME NEW i \in 1..Len(rels) PROVE RelocOK(rels[i], new, more)
    <3> DEFINE r == rels[i]
    <3>1. RelocOK(r, old, names)
      BY DEF RelocsOK
    <3> HIDE DEF r
    <3>2. r.home \in DOMAIN old /\ r.home \in DOMAIN new
      BY <3>1 DEF RelocOK, Grown
    <3>3. \A j \in DOMAIN old[r.home].data :
            j \in DOMAIN new[r.home].data /\ new[r.home].data[j] = old[r.home].data[j]
      BY <3>2 DEF Grown
    <3>4. RelocOK(r, new, more)
      BY <3>1, <3>2, <3>3 DEF RelocOK
    <3>5. QED
      BY <3>4 DEF r
  <2>2. QED
    BY <2>1 DEF RelocsOK
<1>6. QED
  BY <1>4, <1>5

LEMMA SectionTypes ==
  ASSUME NEW s \in SectionRec
  PROVE  s.data \in Seq(Byte) /\ Len(s.data) \in Nat /\ DOMAIN s.data = 1..Len(s.data)
  BY LenProperties DEF SectionRec

\* ccw_unit_emit_bytes, with the alignment that .align sets.
LEMMA EmitFacts ==
  ASSUME NEW secs \in Seq(SectionRec), NEW c \in DOMAIN secs, NEW a \in Nat,
         NEW bytes \in Seq(Byte), NEW new,
         \/ new = [secs EXCEPT ![c].data = @ \o bytes]
         \/ new = [secs EXCEPT ![c].align = a, ![c].data = @ \o bytes]
  PROVE  /\ new \in Seq(SectionRec) /\ DOMAIN new = DOMAIN secs
         /\ new[c].data = secs[c].data \o bytes
         /\ Grown(secs, new)
<1> DEFINE n == Len(secs)
           old == secs[c].data
           d == old \o bytes
<1>1. n \in Nat /\ DOMAIN secs = 1..n /\ \A i \in 1..n : secs[i] \in SectionRec
  BY LenProperties
<1>2. c \in 1..n /\ secs[c] \in SectionRec /\ old \in Seq(Byte)
  BY <1>1, SectionTypes
<1>3. d \in Seq(Byte) /\ Len(d) = Len(old) + Len(bytes) /\ \A j \in 1..Len(old) : d[j] = old[j]
  BY <1>2, ConcatProperties, LenProperties
<1> HIDE DEF n
<1>4. /\ DOMAIN new = 1..n /\ (\A i \in 1..n : i # c => new[i] = secs[i])
      /\ new[c] \in {[secs[c] EXCEPT !.data = d], [[secs[c] EXCEPT !.align = a] EXCEPT !.data = d]}
  <2>1. CASE new = [secs EXCEPT ![c].data = @ \o bytes]
    BY <2>1, <1>1, <1>2
  <2>2. CASE new = [secs EXCEPT ![c].align = a, ![c].data = @ \o bytes]
    <3> DEFINE w == [secs EXCEPT ![c].align = a]
    <3>1. /\ DOMAIN w = 1..n /\ (\A i \in 1..n : i # c => w[i] = secs[i])
          /\ w[c] = [secs[c] EXCEPT !.align = a]
      BY <1>1, <1>2
    <3>2. new = [w EXCEPT ![c].data = @ \o bytes]
      BY <2>2
    <3>3. w[c].data = old
      BY <3>1, <1>2 DEF SectionRec
    <3> HIDE DEF w, old
    <3>4. /\ DOMAIN new = 1..n /\ (\A i \in 1..n : i # c => new[i] = secs[i])
          /\ new[c] = [w[c] EXCEPT !.data = w[c].data \o bytes]
      BY <3>1, <3>2, <1>2
    <3>5. QED
      BY <3>1, <3>3, <3>4
  <2>3. QED
    BY <2>1, <2>2
<1> HIDE DEF d
<1>5. new[c] \in SectionRec /\ new[c].data = d
  <2> DEFINE w == [secs[c] EXCEPT !.align = a]
  <2>1. w \in SectionRec
    BY <1>2 DEF SectionRec
  <2> HIDE DEF w
  <2>2. [w EXCEPT !.data = d] \in SectionRec /\ [w EXCEPT !.data = d].data = d
    BY <2>1, <1>3 DEF SectionRec
  <2>3. [secs[c] EXCEPT !.data = d] \in SectionRec /\ [secs[c] EXCEPT !.data = d].data = d
    BY <1>2, <1>3 DEF SectionRec
  <2>4. new[c] = [secs[c] EXCEPT !.data = d] \/ new[c] = [w EXCEPT !.data = d]
    BY <1>4 DEF w
  <2>5. QED
    BY <2>2, <2>3, <2>4
<1>6. new \in Seq(SectionRec)
  <2>1. \A i \in 1..n : new[i] \in SectionRec
    BY <1>1, <1>4, <1>5
  <2>2. new = [i \in 1..n |-> new[i]]
    <3> DEFINE f == [i \in 1..n |-> new[i]]
    <3>1. \A i \in 1..n : new[i] = IF i = c THEN new[c] ELSE secs[i]
      BY <1>4
    <3>2. QED
      BY <1>4 DEF n
  <2>3. new \in [1..n -> SectionRec]
    BY <2>1, <2>2
  <2>4. QED
    BY <1>1, <2>3, FunctionLength
<1>7. Grown(secs, new)
  <2>1. ASSUME NEW i \in DOMAIN secs
        PROVE  /\ i \in DOMAIN new
               /\ Len(secs[i].data) <= Len(new[i].data)
               /\ \A j \in DOMAIN secs[i].data :
                    j \in DOMAIN new[i].data /\ new[i].data[j] = secs[i].data[j]
    <3>1. CASE i = c
      <4>1. Len(old) \in Nat /\ Len(bytes) \in Nat /\ DOMAIN old = 1..Len(old) /\ DOMAIN d = 1..Len(d)
        BY <1>2, <1>3, LenProperties
      <4> HIDE DEF old
      <4>2. Len(old) <= Len(d) /\ \A j \in DOMAIN old : j \in DOMAIN d /\ d[j] = old[j]
        BY <4>1, <1>3
      <4>3. secs[i].data = old /\ new[i].data = d /\ i \in DOMAIN new
        BY <3>1, <1>2, <1>4, <1>5 DEF old
      <4>4. QED
        BY <4>2, <4>3
    <3>2. CASE i # c
      <4>1. new[i] = secs[i] /\ i \in DOMAIN new /\ secs[i] \in SectionRec
        BY <3>2, <1>1, <1>4
      <4>2. Len(secs[i].data) \in Nat
        BY <4>1, SectionTypes
      <4>3. QED
        BY <4>1, <4>2
    <3>3. QED
      BY <3>1, <3>2
  <2>2. QED
    BY <2>1 DEF Grown
<1>8. QED
  BY <1>1, <1>4, <1>5, <1>6, <1>7 DEF d

\* ccw_symtab_define.
LEMMA DefineFacts ==
  ASSUME NEW tab, NEW secs \in Seq(SectionRec), TabOK(tab, secs), NEW n, NEW sym \in SymbolRec,
         sym.section \in 0..Len(secs),
         sym.section # 0 => sym.value <= Len(secs[sym.section].data)
  PROVE  /\ TabOK(ccw_symtab_define(tab, n, sym), secs)
         /\ DOMAIN ccw_symtab_define(tab, n, sym) = DOMAIN tab \cup {n}
<1> DEFINE new == ccw_symtab_define(tab, n, sym)
<1>1. /\ DOMAIN new = DOMAIN tab \cup {n}
      /\ \A m \in DOMAIN new : new[m] = IF m = n THEN sym ELSE tab[m]
      /\ new = [m \in DOMAIN new |-> new[m]]
  BY DEF ccw_symtab_define
<1> HIDE DEF new
<1>2. IsFiniteSet(DOMAIN new)
  BY <1>1, FS_AddElement DEF TabOK
<1>3. \A m \in DOMAIN new : new[m] \in SymbolRec
  BY <1>1 DEF TabOK
<1>4. new \in [DOMAIN new -> SymbolRec]
  BY <1>1, <1>3
<1>5. ASSUME NEW m \in DOMAIN new
      PROVE  /\ new[m].section \in 0..Len(secs)
             /\ new[m].section # 0 => new[m].value <= Len(secs[new[m].section].data)
  <2>1. CASE m = n
    BY <2>1, <1>1
  <2>2. CASE m # n
    BY <2>2, <1>1 DEF TabOK
  <2>3. QED
    BY <2>1, <2>2
<1>6. QED
  BY <1>1, <1>2, <1>4, <1>5 DEF new, TabOK

\* A relocation table is in order if each of its entries is.
LEMMA RelocSeq ==
  ASSUME NEW rels, NEW secs, NEW names
  PROVE  RelocsOK(rels, secs, names) <=> rels \in Seq({r \in RelocRec : RelocOK(r, secs, names)})
<1> DEFINE G == {r \in RelocRec : RelocOK(r, secs, names)}
<1>1. ASSUME RelocsOK(rels, secs, names) PROVE rels \in Seq(G)
  <2>1. rels \in Seq(RelocRec)
    BY <1>1 DEF RelocsOK
  <2>2. /\ Len(rels) \in Nat /\ rels = [i \in 1..Len(rels) |-> rels[i]]
        /\ \A i \in 1..Len(rels) : rels[i] \in RelocRec
    BY <2>1, LenProperties
  <2>3. \A i \in 1..Len(rels) : rels[i] \in G
    BY <2>2, <1>1 DEF RelocsOK
  <2> HIDE DEF G
  <2>4. rels \in [1..Len(rels) -> G]
    BY <2>2, <2>3
  <2>5. QED
    BY <2>2, <2>4, FunctionLength
<1>2. ASSUME rels \in Seq(G) PROVE RelocsOK(rels, secs, names)
  <2>1. /\ Len(rels) \in Nat /\ rels = [i \in 1..Len(rels) |-> rels[i]]
        /\ \A i \in 1..Len(rels) : rels[i] \in G
    <3> HIDE DEF G
    <3>1. QED
      BY <1>2, LenProperties
  <2>2. rels \in [1..Len(rels) -> RelocRec]
    BY <2>1
  <2>3. rels \in Seq(RelocRec)
    BY <2>1, <2>2, FunctionLength
  <2>4. QED
    BY <2>1, <2>3 DEF RelocsOK
<1>3. QED
  BY <1>1, <1>2

LEMMA ZeroBytes ==
  ASSUME NEW n \in Int
  PROVE  Zeros(n) \in Seq(Byte)
<1> DEFINE m == IF n < 0 THEN 0 ELSE n
<1>1. m \in Nat /\ 1..n = 1..m
  OBVIOUS
<1>2. Zeros(n) \in [1..n -> Byte]
  BY DEF Zeros, Byte
<1> HIDE DEF m
<1>3. QED
  BY <1>1, <1>2, FunctionLength

LEMMA LineFacts ==
  ASSUME NEW l \in Text
  PROVE  /\ l.k = "equ" => l.value \in Int
         /\ l.k \in {"align", "space"} => l.n \in Int
         /\ l.k = "data" => l.width \in {1, 2, 4, 8} /\ l.vals \in Seq(Token)
         /\ l.k = "ascii" => l.bytes \in Seq(Byte)
         /\ l.k = "insn" => l.ops \in Seq(Seq(Token))
         /\ l.k = "section" => l.name \in STRING
         /\ l.k # "include"
  BY DEF Text

\* Two steps on the unit that the lines share: bytes at the end of the current
\* section, and a symbol.
LEMMA EmitStep ==
  ASSUME UnitOK, NEW bytes \in Seq(Byte), NEW a \in Nat,
         \/ ccw_unit_emit_bytes(bytes)
         \/ sections' = [sections EXCEPT ![cur].align = a, ![cur].data = @ \o bytes]
  PROVE  /\ sections' \in Seq(SectionRec) /\ DOMAIN sections' = DOMAIN sections
         /\ sections'[cur].data = sections[cur].data \o bytes
         /\ TabOK(symtab, sections')
         /\ \A more : DOMAIN symtab \subseteq more => RelocsOK(relocs, sections', more)
<1>1. /\ sections \in Seq(SectionRec) /\ cur \in DOMAIN sections /\ TabOK(symtab, sections)
      /\ RelocsOK(relocs, sections, DOMAIN symtab)
  BY DEF UnitOK
<1>2. /\ sections' \in Seq(SectionRec) /\ DOMAIN sections' = DOMAIN sections
      /\ sections'[cur].data = sections[cur].data \o bytes
      /\ Grown(sections, sections')
  <2>1. \/ sections' = [sections EXCEPT ![cur].data = @ \o bytes]
        \/ sections' = [sections EXCEPT ![cur].align = a, ![cur].data = @ \o bytes]
    BY DEF ccw_unit_emit_bytes
  <2>2. QED
    BY <1>1, <2>1, EmitFacts
<1>3. TabOK(symtab, sections') /\ RelocsOK(relocs, sections', DOMAIN symtab)
  BY <1>1, <1>2, GrownKeeps
<1>4. ASSUME NEW more, DOMAIN symtab \subseteq more PROVE RelocsOK(relocs, sections', more)
  BY <1>1, <1>2, <1>4, GrownKeeps
<1>5. QED
  BY <1>2, <1>3, <1>4

LEMMA DefineStep ==
  ASSUME UnitOK, NEW n, NEW sym \in SymbolRec, sym.section \in 0..Len(sections),
         sym.section # 0 => sym.value <= Len(sections[sym.section].data),
         symtab' = ccw_symtab_define(symtab, n, sym),
         UNCHANGED <<sections, relocs, cur, in_macro, errors, warnings>>
  PROVE  UnitOK'
<1>1. /\ sections \in Seq(SectionRec) /\ cur \in DOMAIN sections /\ TabOK(symtab, sections)
      /\ RelocsOK(relocs, sections, DOMAIN symtab)
      /\ in_macro \in BOOLEAN /\ errors \in Nat /\ warnings \in Nat
  BY DEF UnitOK
<1>2. TabOK(symtab', sections) /\ DOMAIN symtab' = DOMAIN symtab \cup {n}
  BY <1>1, DefineFacts
<1>3. RelocsOK(relocs, sections, DOMAIN symtab')
  <2>1. /\ relocs \in Seq(RelocRec)
        /\ \A i \in 1..Len(relocs) : RelocOK(relocs[i], sections, DOMAIN symtab)
    BY <1>1 DEF RelocsOK
  <2>2. \A i \in 1..Len(relocs) : RelocOK(relocs[i], sections, DOMAIN symtab')
    BY <2>1, <1>2 DEF RelocOK
  <2>3. QED
    BY <2>1, <2>2 DEF RelocsOK
<1>4. QED
  BY <1>1, <1>2, <1>3 DEF UnitOK

\* Symbols: a label, .global and .equ.
LEMMA SymbolLines ==
  ASSUME UnitOK, buf \in Seq(Text), DefineLabel \/ Global \/ Equ
  PROVE  UnitOK'
<1>1. Line \in Text
  <2>1. buf # <<>>
    BY DEF DefineLabel, Global, Equ, Parses
  <2>2. QED
    BY <2>1, HeadTailProperties DEF Line
<1>2. /\ sections \in Seq(SectionRec) /\ cur \in DOMAIN sections
      /\ TabOK(symtab, sections)
  BY DEF UnitOK
<1>3. Here \in Nat /\ cur \in 1..Len(sections) /\ Len(sections) \in Nat
  <2>1. sections[cur] \in SectionRec /\ DOMAIN sections = 1..Len(sections) /\ Len(sections) \in Nat
    BY <1>2, LenProperties
  <2>2. QED
    BY <1>2, <2>1, SectionTypes DEF Here
<1>4. ASSUME NEW n \in DOMAIN symtab PROVE symtab[n] \in SymbolRec
  BY <1>2 DEF TabOK
<1>5. CASE DefineLabel
  <2> DEFINE b == IF Line.name \in DOMAIN symtab THEN symtab[Line.name].binding ELSE 0
             sym == Symbol(Here, cur, b, TRUE)
  <2>1. b \in {0, 1}
    BY <1>4 DEF SymbolRec
  <2>2. /\ symtab' = ccw_symtab_define(symtab, Line.name, sym)
        /\ UNCHANGED <<sections, relocs, cur, in_macro, errors, warnings>>
    BY <1>5 DEF DefineLabel
  <2> HIDE DEF b
  <2>3. /\ sym \in SymbolRec /\ sym.section \in 0..Len(sections)
        /\ sym.value <= Len(sections[sym.section].data)
    <3>1. sym \in SymbolRec /\ sym.section = cur /\ sym.value = Here
      BY <2>1, <1>3 DEF Symbol, SymbolRec
    <3>2. Here <= Len(sections[cur].data)
      BY <1>3 DEF Here
    <3> HIDE DEF sym
    <3>3. QED
      BY <3>1, <3>2, <1>3
  <2> HIDE DEF sym
  <2>4. QED
    BY <2>2, <2>3, DefineStep
<1>6. CASE Global
  <2>1. UNCHANGED <<sections, relocs, cur, in_macro, errors, warnings>>
    BY <1>6 DEF Global
  <2>2. CASE Line.name \in DOMAIN symtab
    <3> DEFINE n == Line.name
               sym == [symtab[n] EXCEPT !.binding = 1]
    <3>1. symtab' = ccw_symtab_define(symtab, n, sym)
      <4>1. symtab' = [symtab EXCEPT ![n].binding = 1]
        BY <1>6, <2>2 DEF Global
      <4>2. symtab = [m \in DOMAIN symtab |-> symtab[m]] /\ (DOMAIN symtab) \cup {n} = DOMAIN symtab
        BY <1>2, <2>2 DEF TabOK
      <4> HIDE DEF n
      <4>3. QED
        BY <4>1, <4>2 DEF ccw_symtab_define
    <3>2. /\ sym \in SymbolRec /\ sym.section = symtab[n].section /\ sym.value = symtab[n].value
      BY <2>2, <1>4 DEF SymbolRec
    <3>3. /\ symtab[n].section \in 0..Len(sections)
          /\ symtab[n].section # 0 => symtab[n].value <= Len(sections[symtab[n].section].data)
      BY <1>2, <2>2 DEF TabOK
    <3> HIDE DEF sym, n
    <3>4. QED
      BY <2>1, <3>1, <3>2, <3>3, DefineStep
  <2>3. CASE Line.name \notin DOMAIN symtab
    <3> DEFINE sym == Symbol(0, 0, 1, FALSE)
    <3>1. symtab' = ccw_symtab_define(symtab, Line.name, sym)
      BY <1>6, <2>3 DEF Global
    <3>2. sym \in SymbolRec /\ sym.section = 0
      BY DEF Symbol, SymbolRec
    <3> HIDE DEF sym
    <3>3. sym.section \in 0..Len(sections)
      BY <3>2, <1>3
    <3>4. QED
      BY <2>1, <3>1, <3>2, <3>3, DefineStep
  <2>4. QED
    BY <2>2, <2>3
<1>7. CASE Equ
  <2> DEFINE sym == Symbol(Line.value, 0, 0, TRUE)
  <2>1. /\ UNCHANGED <<sections, relocs, cur, in_macro, errors, warnings>>
        /\ symtab' = ccw_symtab_define(symtab, Line.name, sym)
        /\ Line.k = "equ"
    BY <1>7 DEF Equ, Parses
  <2>2. Line.value \in Int
    BY <1>1, <2>1, LineFacts
  <2>3. sym \in SymbolRec /\ sym.section = 0
    BY <2>2 DEF Symbol, SymbolRec
  <2> HIDE DEF sym
  <2>4. sym.section \in 0..Len(sections)
    BY <2>3, <1>3
  <2>5. QED
    BY <2>1, <2>3, <2>4, DefineStep
<1>8. QED
  BY <1>5, <1>6, <1>7

\* Sections: .section, .align, the data directives, .ascii and .space.
LEMMA SectionLines ==
  ASSUME UnitOK, buf \in Seq(Text), SelectSection \/ Align \/ Ascii \/ Space
  PROVE  UnitOK'
<1>1. Line \in Text
  <2>1. buf # <<>>
    BY DEF SelectSection, Align, Ascii, Space, Parses
  <2>2. QED
    BY <2>1, HeadTailProperties DEF Line
<1>2. /\ sections \in Seq(SectionRec) /\ cur \in DOMAIN sections /\ TabOK(symtab, sections)
      /\ RelocsOK(relocs, sections, DOMAIN symtab)
      /\ in_macro \in BOOLEAN /\ errors \in Nat /\ warnings \in Nat
  BY DEF UnitOK
<1>3. /\ DOMAIN sections = 1..Len(sections) /\ Len(sections) \in Nat
      /\ \A i \in 1..Len(sections) : sections[i] \in SectionRec
  BY <1>2, LenProperties
<1>4. Here \in Nat
  BY <1>2, <1>3, SectionTypes DEF Here
<1>5. ASSUME NEW bytes \in Seq(Byte), NEW a \in Nat,
             \/ ccw_unit_emit_bytes(bytes)
             \/ sections' = [sections EXCEPT ![cur].align = a, ![cur].data = @ \o bytes],
             UNCHANGED <<symtab, relocs, cur, in_macro, errors, warnings>>
      PROVE  UnitOK'
  <2>1. /\ sections' \in Seq(SectionRec) /\ DOMAIN sections' = DOMAIN sections
        /\ TabOK(symtab, sections') /\ RelocsOK(relocs, sections', DOMAIN symtab)
    BY <1>5, EmitStep
  <2>2. QED
    BY <1>2, <1>5, <2>1 DEF UnitOK
<1>6. CASE SelectSection
  <2> DEFINE found == {i \in DOMAIN sections : sections[i].name = Line.name}
             sec == Section(Line.name, "progbits", {"alloc", "exec"})
  <2>1. UNCHANGED <<symtab, relocs, in_macro, errors, warnings>> /\ Line.k = "section"
    BY <1>6 DEF SelectSection, Parses
  <2>2. CASE found # {}
    <3>1. cur' = Min(found) /\ sections' = sections
      BY <1>6, <2>2 DEF SelectSection
    <3>2. found \subseteq DOMAIN sections /\ found \subseteq Nat
      BY <1>3
    <3> HIDE DEF found
    <3>3. \E x \in found : \A y \in found : x <= y
      BY <2>2, <3>2, LeastNatural
    <3>4. cur' \in DOMAIN sections'
      BY <3>1, <3>2, <3>3 DEF Min
    <3>5. QED
      BY <1>2, <2>1, <3>1, <3>4 DEF UnitOK
  <2>3. CASE found = {}
    <3>1. sections' = Append(sections, sec) /\ cur' = Len(sections) + 1
      BY <1>6, <2>3 DEF SelectSection
    <3>2. sec \in SectionRec
      <4>1. Line.name \in STRING
        BY <1>1, <2>1, LineFacts
      <4>2. <<>> \in Seq(Byte) /\ 16 \in Nat
        BY ShortSeqs
      <4>3. QED
        BY <4>1, <4>2 DEF Section, SectionRec
    <3> HIDE DEF sec, found
    <3>3. /\ sections' \in Seq(SectionRec) /\ DOMAIN sections' = 1..(Len(sections) + 1)
          /\ \A i \in 1..Len(sections) : sections'[i] = sections[i]
      BY <1>2, <3>1, <3>2, AppendFacts
    <3>4. Grown(sections, sections')
      <4>1. ASSUME NEW i \in DOMAIN sections
            PROVE  /\ i \in DOMAIN sections' /\ sections'[i] = sections[i]
                   /\ Len(sections[i].data) \in Nat
        BY <1>3, <3>3, SectionTypes
      <4>2. QED
        BY <4>1 DEF Grown
    <3>5. TabOK(symtab, sections') /\ RelocsOK(relocs, sections', DOMAIN symtab)
      BY <1>2, <3>3, <3>4, GrownKeeps
    <3>6. cur' \in DOMAIN sections'
      BY <1>3, <3>1, <3>3
    <3>7. QED
      BY <1>2, <2>1, <3>3, <3>5, <3>6 DEF UnitOK
  <2>4. QED
    BY <2>2, <2>3
<1>7. CASE Align
  <2> DEFINE a == Line.n
             pad == (a - (Here % a)) % a
             fill == IF opts.arch = "x86-64" /\ "exec" \in sections[cur].flags THEN 144 ELSE 0
             bytes == [i \in 1..pad |-> fill]
  <2>1. /\ sections' = [sections EXCEPT ![cur].align = a, ![cur].data = @ \o bytes]
        /\ UNCHANGED <<symtab, relocs, cur, in_macro, errors, warnings>>
        /\ PowerOfTwo(a)
    BY <1>7 DEF Align
  <2>2. a \in Nat /\ a > 0
    <3>1. a \in Int
      BY <1>1, <1>7, LineFacts DEF Align, Parses
    <3>2. a > 0
      BY <2>1 DEF PowerOfTwo
    <3> HIDE DEF a
    <3>3. QED
      BY <3>1, <3>2
  <2> HIDE DEF a
  <2>3. pad \in Nat
    <3>1. Here % a \in Nat
      BY <1>4, <2>2
    <3>2. a - (Here % a) \in Int
      BY <2>2, <3>1
    <3>3. QED
      BY <2>2, <3>2
  <2> HIDE DEF pad
  <2>4. bytes \in Seq(Byte)
    <3>1. fill \in Byte
      BY DEF Byte
    <3> HIDE DEF fill
    <3>2. bytes \in [1..pad -> Byte]
      BY <3>1
    <3> HIDE DEF bytes
    <3>3. QED
      BY <2>3, <3>2, FunctionLength
  <2> HIDE DEF bytes
  <2>5. QED
    BY <1>5, <2>1, <2>2, <2>4
<1>8. CASE Ascii
  <2> DEFINE bytes == <<34>> \o Line.bytes \o <<34>> \o (IF Line.nul THEN <<0>> ELSE <<>>)
  <2>1. /\ ccw_unit_emit_bytes(bytes) /\ Line.k = "ascii"
        /\ UNCHANGED <<symtab, relocs, cur, in_macro, errors, warnings>>
    BY <1>8 DEF Ascii, Parses
  <2>2. bytes \in Seq(Byte)
    <3> DEFINE b == Line.bytes
               q == <<34>>
               z == IF Line.nul THEN <<0>> ELSE <<>>
    <3>1. b \in Seq(Byte)
      BY <1>1, <2>1, LineFacts
    <3>2. q \in Seq(Byte) /\ z \in Seq(Byte)
      <4>1. 34 \in Byte /\ 0 \in Byte
        BY DEF Byte
      <4>2. QED
        BY <4>1, ShortSeqs
    <3> HIDE DEF b, q, z
    <3>3. q \o b \in Seq(Byte)
      BY <3>1, <3>2, ConcatProperties
    <3>4. q \o b \o q \in Seq(Byte)
      BY <3>2, <3>3, ConcatProperties
    <3>5. q \o b \o q \o z \in Seq(Byte)
      BY <3>2, <3>4, ConcatProperties
    <3>6. QED
      BY <3>5 DEF b, q, z
  <2> HIDE DEF bytes
  <2>3. QED
    BY <1>5, <2>1, <2>2
<1>9. CASE Space
  <2>1. /\ ccw_unit_emit_bytes(Zeros(Line.n)) /\ Line.k = "space"
        /\ UNCHANGED <<symtab, relocs, cur, in_macro, errors, warnings>>
    BY <1>9 DEF Space, Parses
  <2>2. Zeros(Line.n) \in Seq(Byte)
    BY <1>1, <2>1, LineFacts, ZeroBytes
  <2>3. QED
    BY <1>5, <2>1, <2>2
<1>10. QED
  BY <1>6, <1>7, <1>8, <1>9

\* The data directives: a label becomes zeros and a relocation.
LEMMA DataLine ==
  ASSUME UnitOK, buf \in Seq(Text), Data
  PROVE  UnitOK'
<1> DEFINE width == Line.width
           words == Line.vals
           vals == ccw_parse_data_values(words)
           bytes == DataBytes(vals, width)
           entry(i) == Reloc(IF width = 8 THEN "abs64" ELSE "abs32",
                             Here + (i - 1) * width, vals[i].label, 0)
           more == [i \in DOMAIN vals |-> IF vals[i].label = NULL THEN <<>> ELSE <<entry(i)>>]
<1>1. Line \in Text /\ Line.k = "data"
  <2>1. buf # <<>> /\ Line.k \in {"data"}
    BY DEF Data, Parses
  <2>2. QED
    BY <2>1, HeadTailProperties DEF Line
<1>2. width \in {1, 2, 4, 8} /\ words \in Seq(Token)
  BY <1>1, LineFacts
<1>3. /\ ccw_unit_emit_bytes(bytes) /\ relocs' = relocs \o FlattenSeq(more)
      /\ UNCHANGED <<symtab, cur, in_macro, errors, warnings>>
  BY DEF Data
<1>4. /\ sections \in Seq(SectionRec) /\ cur \in DOMAIN sections /\ TabOK(symtab, sections)
      /\ RelocsOK(relocs, sections, DOMAIN symtab)
      /\ in_macro \in BOOLEAN /\ errors \in Nat /\ warnings \in Nat
  BY DEF UnitOK
<1>5. Here \in Nat /\ cur \in Nat
  <2>1. sections[cur] \in SectionRec /\ cur \in Nat
    BY <1>4, LenProperties
  <2>2. QED
    BY <2>1, SectionTypes DEF Here
<1> HIDE DEF width
<1>6. /\ Len(words) \in Nat /\ DOMAIN vals = 1..Len(words)
      /\ \A i \in 1..Len(words) : vals[i].label \in Name /\ vals[i].value \in Int
  <2>1. Len(words) \in Nat /\ DOMAIN words = 1..Len(words) /\ \A i \in 1..Len(words) : words[i] \in Token
    BY <1>2, LenProperties
  <2> HIDE DEF words
  <2>2. DOMAIN vals = 1..Len(words)
    BY <2>1 DEF ccw_parse_data_values
  <2>3. ASSUME NEW i \in 1..Len(words) PROVE vals[i].label \in Name /\ vals[i].value \in Int
    BY <2>1, NullName DEF ccw_parse_data_values, Token
  <2>4. QED
    BY <2>1, <2>2, <2>3
<1> HIDE DEF words, vals
<1>7. bytes \in Seq(Byte)
  <2> DEFINE n == Len(words)
             one == [i \in DOMAIN vals |-> IF vals[i].label # NULL THEN Zeros(width)
                                           ELSE emit_imm(vals[i].value, width)]
  <2>1. bytes = FlattenSeq(one)
    BY DEF DataBytes
  <2>2. width \in Nat
    BY <1>2
  <2>3. \A i \in DOMAIN vals : one[i] \in Seq(Byte)
    <3>1. Zeros(width) \in Seq(Byte)
      BY <2>2, ZeroBytes
    <3>2. \A i \in DOMAIN vals : emit_imm(vals[i].value, width) \in Seq(Byte)
      BY <1>6, <2>2, ImmBytes
    <3>3. QED
      BY <3>1, <3>2
  <2>4. DOMAIN one = 1..n /\ one = [i \in 1..n |-> one[i]] /\ n \in Nat
    BY <1>6
  <2> HIDE DEF one, n, bytes
  <2>5. one \in [1..n -> Seq(Byte)]
    BY <1>6, <2>3, <2>4 DEF n
  <2>6. one \in Seq(Seq(Byte))
    BY <2>4, <2>5, FunctionLength
  <2>7. QED
    BY <2>1, <2>6, FlattenType
<1> HIDE DEF bytes
<1>8. /\ sections' \in Seq(SectionRec) /\ DOMAIN sections' = DOMAIN sections
      /\ TabOK(symtab, sections') /\ RelocsOK(relocs, sections', DOMAIN symtab)
  <2>1. 0 \in Nat
    OBVIOUS
  <2>2. QED
    BY <1>3, <1>7, <2>1, EmitStep
<1> DEFINE G == {r \in RelocRec : RelocOK(r, sections', DOMAIN symtab)}
<1>9. ASSUME NEW i \in DOMAIN vals PROVE entry(i) \in G
  <2>1. i - 1 \in Nat /\ vals[i].label \in Name
    BY <1>6
  <2>2. Here + (i - 1) * width \in Nat
    <3> DEFINE k == i - 1
    <3>1. k \in Nat
      BY <2>1
    <3> HIDE DEF k
    <3>2. k * width \in Nat
      BY <3>1, <1>2
    <3>3. QED
      BY <3>2, <1>5 DEF k
  <2> DEFINE off == Here + (i - 1) * width
             ty == IF width = 8 THEN "abs64" ELSE "abs32"
             label == vals[i].label
             r == Reloc(ty, off, label, 0)
  <2>3. ty \in {"abs64", "abs32"} /\ label \in Name /\ off \in Nat
    BY <2>1, <2>2
  <2> HIDE DEF off, ty, label
  <2>4. r \in RelocRec /\ r.home = cur /\ r.type # "pc32" /\ r.addend = 0
    BY <2>3, <1>5 DEF Reloc, RelocRec
  <2> HIDE DEF r
  <2>5. RelocOK(r, sections', DOMAIN symtab)
    BY <2>4, <1>4, <1>8 DEF RelocOK
  <2>6. r \in G
    BY <2>4, <2>5
  <2> HIDE DEF G
  <2>7. QED
    BY <2>6 DEF r, ty, off, label
<1> HIDE DEF G
<1>10. more \in Seq(Seq(G))
  <2>1. ASSUME NEW i \in DOMAIN vals PROVE more[i] \in Seq(G)
    <3> DEFINE e == entry(i)
    <3>1. e \in G
      BY <1>9
    <3>2. more[i] = IF vals[i].label = NULL THEN <<>> ELSE <<e>>
      OBVIOUS
    <3> HIDE DEF e, more
    <3>3. QED
      BY <3>1, <3>2
  <2>2. DOMAIN more = 1..Len(words) /\ more = [i \in 1..Len(words) |-> more[i]]
    BY <1>6
  <2> HIDE DEF more
  <2>3. more \in [1..Len(words) -> Seq(G)]
    BY <2>1, <2>2, <1>6
  <2>4. QED
    BY <2>3, <1>6, FunctionLength
<1> HIDE DEF more
<1>11. RelocsOK(relocs', sections', DOMAIN symtab)
  <2>1. FlattenSeq(more) \in Seq(G)
    BY <1>10, FlattenType
  <2>2. relocs \in Seq(G)
    BY <1>8, RelocSeq DEF G
  <2>3. relocs' \in Seq(G)
    BY <1>3, <2>1, <2>2, ConcatProperties
  <2>4. QED
    BY <2>3, RelocSeq DEF G
<1>12. QED
  BY <1>3, <1>4, <1>8, <1>11 DEF UnitOK

\* What a branch puts at the end of its section: its opcode, and four zero bytes
\* that its relocation names.
LEMMA BranchBytes ==
  ASSUME NEW old \in Seq(Byte), NEW e, Branch(e)
  PROVE  /\ e.b \in Seq(Byte) /\ e.rel \in {1, 2}
         /\ Len(old) + e.rel \in DOMAIN (old \o e.b)
         /\ \A k \in 1..4 : /\ Len(old) + e.rel + k \in DOMAIN (old \o e.b)
                            /\ (old \o e.b)[Len(old) + e.rel + k] = 0
         /\ (old \o e.b)[Len(old) + e.rel] \in {232, 233} => e.decl
<1>1. PICK op \in Byte : \/ e = encode_branch(op)
                         \/ e = encode_jcc(op) /\ op \notin {232, 233}
  <2>1. 232 \in Byte /\ 233 \in Byte /\ \A op \in 130..143 : op \in Byte /\ op \notin {232, 233}
    BY DEF Byte
  <2>2. QED
    BY <2>1 DEF Branch
<1> DEFINE b == e.b
           n == Len(old)
           d == old \o b
<1>2. 0 \in Byte /\ 15 \in Byte /\ n \in Nat
  BY LenProperties DEF Byte
<1>3. CASE e = encode_branch(op)
  <2>1. b = <<op, 0, 0, 0, 0>> /\ e.rel = 1 /\ e.decl
    BY <1>3 DEF encode_branch
  <2>2. b \in Seq(Byte) /\ Len(b) = 5 /\ \A k \in 1..4 : b[1 + k] = 0
    BY <2>1, <1>2
  <2> HIDE DEF b
  <2>3. d \in Seq(Byte) /\ Len(d) = n + 5 /\ \A k \in 1..5 : d[n + k] = b[k]
    <3>1. /\ d \in Seq(Byte) /\ Len(d) = n + Len(b)
          /\ \A k \in 1..(n + Len(b)) : d[k] = IF k <= n THEN old[k] ELSE b[k - n]
      BY <2>2, ConcatProperties
    <3> HIDE DEF d, n
    <3>2. ASSUME NEW k \in 1..5 PROVE d[n + k] = b[k]
      <4>1. n + k \in 1..(n + Len(b)) /\ ~(n + k <= n) /\ (n + k) - n = k
        BY <1>2, <2>2
      <4>2. QED
        BY <3>1, <4>1
    <3>3. QED
      BY <3>1, <3>2, <2>2
  <2>4. DOMAIN d = 1..(n + 5)
    BY <2>3, LenProperties
  <2> HIDE DEF d, n
  <2>5. \A k \in 1..4 : n + 1 + k \in DOMAIN d /\ d[n + 1 + k] = 0
    <3>1. \A k \in 1..4 : 1 + k \in 1..5 /\ n + (1 + k) = n + 1 + k
      BY <1>2
    <3>2. QED
      BY <3>1, <1>2, <2>2, <2>3, <2>4
  <2>6. n + 1 \in DOMAIN d
    BY <1>2, <2>4
  <2>7. QED
    BY <2>1, <2>2, <2>5, <2>6 DEF d, n, b
<1>4. CASE e = encode_jcc(op) /\ op \notin {232, 233}
  <2>1. b = <<15, op, 0, 0, 0, 0>> /\ e.rel = 2
    BY <1>4 DEF encode_jcc
  <2>2. b \in Seq(Byte) /\ Len(b) = 6 /\ b[2] = op /\ \A k \in 1..4 : b[2 + k] = 0
    BY <2>1, <1>2
  <2> HIDE DEF b
  <2>3. d \in Seq(Byte) /\ Len(d) = n + 6 /\ \A k \in 1..6 : d[n + k] = b[k]
    <3>1. /\ d \in Seq(Byte) /\ Len(d) = n + Len(b)
          /\ \A k \in 1..(n + Len(b)) : d[k] = IF k <= n THEN old[k] ELSE b[k - n]
      BY <2>2, ConcatProperties
    <3> HIDE DEF d, n
    <3>2. ASSUME NEW k \in 1..6 PROVE d[n + k] = b[k]
      <4>1. n + k \in 1..(n + Len(b)) /\ ~(n + k <= n) /\ (n + k) - n = k
        BY <1>2, <2>2
      <4>2. QED
        BY <3>1, <4>1
    <3>3. QED
      BY <3>1, <3>2, <2>2
  <2>4. DOMAIN d = 1..(n + 6)
    BY <2>3, LenProperties
  <2> HIDE DEF d, n
  <2>5. \A k \in 1..4 : n + 2 + k \in DOMAIN d /\ d[n + 2 + k] = 0
    <3>1. \A k \in 1..4 : 2 + k \in 1..6 /\ n + (2 + k) = n + 2 + k
      BY <1>2
    <3>2. QED
      BY <3>1, <1>2, <2>2, <2>3, <2>4
  <2>6. n + 2 \in DOMAIN d /\ d[n + 2] = op
    BY <1>2, <2>2, <2>3, <2>4
  <2>7. QED
    BY <1>4, <2>1, <2>2, <2>5, <2>6 DEF d, n, b
<1>5. QED
  BY <1>1, <1>3, <1>4

\* An instruction: its bytes, and for a branch a relocation and its target.
LEMMA InsnLine ==
  ASSUME UnitOK, buf \in Seq(Text), Insn
  PROVE  UnitOK'
<1> DEFINE e == LineCode
           label == LineLabel
<1>1. Line \in Text /\ Line.k = "insn"
  <2>1. buf # <<>> /\ Line.k \in {"insn"}
    BY DEF Insn, Parses
  <2>2. QED
    BY <2>1, HeadTailProperties DEF Line
<1>2. Line.ops \in Seq(Seq(Token))
  BY <1>1, LineFacts
<1>3. Plain(e) \/ (Branch(e) /\ label \in Name)
  <2>1. Operands(InsnOperands(opts.arch, opts.ts, Line.ops))
    BY <1>2, InsnOperandsType
  <2>2. QED
    BY <2>1, EncodeForms DEF LineCode, LineLabel
<1>4. /\ ccw_unit_emit_bytes(e.b)
      /\ IF e.rel = 0 THEN UNCHANGED <<symtab, relocs>>
         ELSE /\ symtab' = IF e.decl /\ label \notin DOMAIN symtab
                           THEN ccw_symtab_define(symtab, label, Symbol(0, 0, 1, FALSE))
                           ELSE symtab
              /\ ccw_unit_emit_reloc(Reloc("pc32", Here + e.rel, label, -4))
      /\ UNCHANGED <<cur, in_macro, errors, warnings>>
  BY DEF Insn
<1> HIDE DEF e, label
<1>5. /\ sections \in Seq(SectionRec) /\ cur \in DOMAIN sections /\ TabOK(symtab, sections)
      /\ RelocsOK(relocs, sections, DOMAIN symtab)
      /\ in_macro \in BOOLEAN /\ errors \in Nat /\ warnings \in Nat
  BY DEF UnitOK
<1> DEFINE old == sections[cur].data
<1>6. old \in Seq(Byte) /\ Here = Len(old) /\ Here \in Nat /\ cur \in Nat
  <2>1. sections[cur] \in SectionRec /\ cur \in Nat
    BY <1>5, LenProperties
  <2>2. QED
    BY <2>1, SectionTypes DEF Here
<1>7. e.b \in Seq(Byte)
  <2>1. CASE Plain(e)
    BY <2>1 DEF Plain, Enc
  <2>2. CASE Branch(e)
    BY <2>2, <1>6, BranchBytes
  <2>3. QED
    BY <2>1, <2>2, <1>3
<1>8. /\ sections' \in Seq(SectionRec) /\ DOMAIN sections' = DOMAIN sections
      /\ sections'[cur].data = old \o e.b
      /\ TabOK(symtab, sections')
      /\ \A more : DOMAIN symtab \subseteq more => RelocsOK(relocs, sections', more)
  <2>1. 0 \in Nat
    OBVIOUS
  <2>2. QED
    BY <1>4, <1>7, <2>1, EmitStep
<1>9. CASE Plain(e)
  <2>1. e.rel = 0
    BY <1>9 DEF Plain, Enc
  <2>2. UNCHANGED <<symtab, relocs>>
    BY <1>4, <2>1
  <2>3. RelocsOK(relocs, sections', DOMAIN symtab)
    BY <1>8
  <2>4. QED
    BY <1>4, <1>5, <1>8, <2>2, <2>3 DEF UnitOK
<1>10. CASE Branch(e) /\ label \in Name
  <2> DEFINE r == Reloc("pc32", Here + e.rel, label, -4)
             G == {q \in RelocRec : RelocOK(q, sections', DOMAIN symtab')}
  <2>1. /\ e.rel \in {1, 2}
        /\ Here + e.rel \in DOMAIN (old \o e.b)
        /\ \A k \in 1..4 : /\ Here + e.rel + k \in DOMAIN (old \o e.b)
                           /\ (old \o e.b)[Here + e.rel + k] = 0
        /\ (old \o e.b)[Here + e.rel] \in {232, 233} => e.decl
    BY <1>6, <1>10, BranchBytes
  <2>2. /\ symtab' = IF e.decl /\ label \notin DOMAIN symtab
                     THEN ccw_symtab_define(symtab, label, Symbol(0, 0, 1, FALSE))
                     ELSE symtab
        /\ relocs' = Append(relocs, r)
    <3>1. e.rel # 0
      <4>1. e.rel \in {1, 2}
        BY <1>6, <1>10, BranchBytes
      <4>2. QED
        BY <4>1
    <3> HIDE DEF old
    <3>2. QED
      BY <1>4, <3>1 DEF ccw_unit_emit_reloc
  <2>3. /\ TabOK(symtab', sections') /\ DOMAIN symtab \subseteq DOMAIN symtab'
        /\ e.decl => label \in DOMAIN symtab'
    <3> DEFINE sym == Symbol(0, 0, 1, FALSE)
    <3>1. sym \in SymbolRec /\ sym.section = 0
      BY DEF Symbol, SymbolRec
    <3>2. 0 \in 0..Len(sections')
      BY <1>8, LenProperties
    <3>3. symtab' = IF e.decl /\ label \notin DOMAIN symtab
                    THEN ccw_symtab_define(symtab, label, sym) ELSE symtab
      BY <2>2
    <3> HIDE DEF sym
    <3>4. sym.section \in 0..Len(sections')
      BY <3>1, <3>2
    <3>5. /\ TabOK(ccw_symtab_define(symtab, label, sym), sections')
          /\ DOMAIN ccw_symtab_define(symtab, label, sym) = DOMAIN symtab \cup {label}
      <4> DEFINE secs == sections'
      <4>1. secs \in Seq(SectionRec) /\ TabOK(symtab, secs) /\ sym.section \in 0..Len(secs)
        BY <1>8, <3>4
      <4> HIDE DEF secs
      <4>2. /\ TabOK(ccw_symtab_define(symtab, label, sym), secs)
            /\ DOMAIN ccw_symtab_define(symtab, label, sym) = DOMAIN symtab \cup {label}
        <5>1. sym.section # 0 => sym.value <= Len(secs[sym.section].data)
          BY <3>1
        <5>2. sym \in SymbolRec
          BY <3>1
        <5>3. secs \in Seq(SectionRec) /\ TabOK(symtab, secs)
          BY <4>1
        <5>4. sym.section \in 0..Len(secs)
          BY <4>1
        <5>5. QED
          BY <5>1, <5>2, <5>3, <5>4, DefineFacts, ZenonT(40)
      <4>3. QED
        BY <4>2 DEF secs
    <3>6. QED
      BY <1>8, <3>3, <3>5
  <2>4. r \in G
    <3> DEFINE off == Here + e.rel
    <3>1. off \in Nat
      BY <1>6, <2>1
    <3>2. /\ off \in DOMAIN (old \o e.b)
          /\ \A k \in 1..4 : off + k \in DOMAIN (old \o e.b) /\ (old \o e.b)[off + k] = 0
          /\ (old \o e.b)[off] \in {232, 233} => e.decl
      BY <2>1
    <3> HIDE DEF off
    <3>3. r = Reloc("pc32", off, label, -4)
      BY DEF off
    <3>4. r \in RelocRec /\ r.home = cur /\ r.offset = off /\ r.symbol = label
      BY <3>1, <3>3, <1>6, <1>10 DEF Reloc, RelocRec
    <3> HIDE DEF r, old
    <3>5. RelocOK(r, sections', DOMAIN symtab')
      BY <3>2, <3>4, <1>5, <1>8, <2>3 DEF RelocOK
    <3>6. QED
      BY <3>4, <3>5
  <2> HIDE DEF r
  <2>5. RelocsOK(relocs', sections', DOMAIN symtab')
    <3>1. RelocsOK(relocs, sections', DOMAIN symtab')
      BY <1>8, <2>3
    <3>2. relocs \in Seq(G)
      BY <3>1, RelocSeq
    <3> HIDE DEF G
    <3>3. relocs' \in Seq(G)
      BY <2>2, <2>4, <3>2, AppendProperties
    <3>4. QED
      BY <3>3, RelocSeq DEF G
  <2>6. QED
    BY <1>4, <1>5, <1>8, <2>3, <2>5 DEF UnitOK
<1>11. QED
  BY <1>3, <1>9, <1>10

----------------------------------------------------------------------------
(* The object file.  The names of the symbol table, in any order: the       *)
(* locals, then the others.                                                 *)
Globals == DOMAIN symtab \ Locals

\* The order khash gives the names has each of them once.
LEMMA HashOrder ==
  ASSUME TabOK(symtab, sections), NEW ord \in SetToSeqs(DOMAIN symtab)
  PROVE  /\ ord \in Seq(DOMAIN symtab) /\ Len(ord) = Cardinality(DOMAIN symtab)
         /\ \A i, j \in 1..Len(ord) : i # j => ord[i] # ord[j]
         /\ \A n \in DOMAIN symtab : \E i \in 1..Len(ord) : ord[i] = n
<1> DEFINE D == DOMAIN symtab
           c == Cardinality(D)
<1>1. IsFiniteSet(D) /\ c \in Nat
  BY FS_CardinalityType DEF TabOK
<1>2. ord \in [1..c -> D] /\ \A i, j \in 1..c : i # j => ord[i] # ord[j]
  BY DEF SetToSeqs
<1> HIDE DEF D, c
<1>3. ord \in Seq(D) /\ Len(ord) = c
  BY <1>1, <1>2, FunctionLength
<1>4. ord \in Injection(1..c, D)
  BY <1>2 DEF Injection, IsInjective
<1>5. Cardinality(1..c) = c
  BY <1>1, FS_Interval
<1>6. ord \in Surjection(1..c, D)
  BY <1>1, <1>4, <1>5, FS_Injection DEF c
<1>7. \A n \in D : \E i \in 1..c : ord[i] = n
  BY <1>6 DEF Surjection
<1>8. QED
  BY <1>2, <1>3, <1>7 DEF D, c

\* A selection from a sequence that has every member of T once has every selected
\* one once.
LEMMA SelectionCount ==
  ASSUME NEW T, NEW s \in Seq(T), \A i, j \in 1..Len(s) : i # j => s[i] # s[j],
         \A x \in T : \E i \in 1..Len(s) : s[i] = x,
         NEW G, G \subseteq T, NEW F, IsSelection(s, G, F)
  PROVE  /\ F[Len(s)] \in Seq(G) /\ Len(F[Len(s)]) = Cardinality(G)
         /\ \A x \in G : \E i \in DOMAIN F[Len(s)] : F[Len(s)][i] = x
<1> DEFINE n == Len(s)
<1>1. n \in Nat /\ T \cap G = G
  BY LenProperties
<1>2. /\ F[0] = <<>>
      /\ \A i \in 1..n : F[i] = IF s[i] \in G THEN Append(F[i - 1], s[i]) ELSE F[i - 1]
      /\ \A i \in 0..n : F[i] \in Seq(T \cap G)
      /\ \A i \in 0..n : \A j \in 1..i : s[j] \in G => \E k \in DOMAIN F[i] : F[i][k] = s[j]
  <2>1. SelectionOf(T, s, G, F)
    BY SelectionFacts
  <2>2. QED
    BY <2>1 DEF SelectionOf
<1>3. \A i, j \in 1..n : i # j => s[i] # s[j]
  OBVIOUS
<1>4. \A x \in T : \E i \in 1..n : s[i] = x
  OBVIOUS
<1> HIDE DEF n
<1> DEFINE Seen(i) == {x \in G : \E j \in 1..i : s[j] = x}
           S == {i \in 0..n : IsFiniteSet(Seen(i)) /\ Len(F[i]) = Cardinality(Seen(i))}
<1>5. 0 \in S
  <2>1. Seen(0) = {}
    OBVIOUS
  <2>2. Len(F[0]) = 0
    BY <1>2
  <2> HIDE DEF Seen
  <2>3. IsFiniteSet(Seen(0)) /\ Cardinality(Seen(0)) = 0
    BY <2>1, FS_EmptySet
  <2>4. QED
    BY <1>1, <2>2, <2>3
<1>6. ASSUME NEW i \in 1..n, i - 1 \in S PROVE i \in S
  <2> DEFINE o == Seen(i - 1)
  <2>1. /\ IsFiniteSet(o) /\ Len(F[i - 1]) = Cardinality(o) /\ i \in 0..n /\ i - 1 \in 0..n
    BY <1>1, <1>6
  <2>2. CASE s[i] \in G
    <3>1. Seen(i) = o \cup {s[i]}
      <4>1. ASSUME NEW x \in Seen(i) PROVE x \in o \cup {s[i]}
        <5>1. PICK j \in 1..i : s[j] = x
          OBVIOUS
        <5>2. j = i \/ j \in 1..(i - 1)
          OBVIOUS
        <5>3. QED
          BY <5>1, <5>2
      <4>2. ASSUME NEW x \in o \cup {s[i]} PROVE x \in Seen(i)
        <5>1. i \in 1..i /\ \A j \in 1..(i - 1) : j \in 1..i
          BY <1>1
        <5>2. QED
          BY <5>1, <2>2
      <4>3. QED
        BY <4>1, <4>2
    <3>2. s[i] \notin o
      <4>1. \A j \in 1..(i - 1) : j \in 1..n /\ j # i
        BY <1>1
      <4>2. QED
        BY <4>1, <1>3
    <3> HIDE DEF Seen, o
    <3>3. IsFiniteSet(Seen(i)) /\ Cardinality(Seen(i)) = Cardinality(o) + 1
      <4> DEFINE x == s[i]
      <4>1. IsFiniteSet(o) /\ Seen(i) = o \cup {x} /\ x \notin o
        BY <2>1, <3>1, <3>2
      <4> HIDE DEF x
      <4>2. QED
        BY <4>1, FS_AddElement
    <3>4. F[i] = Append(F[i - 1], s[i]) /\ F[i - 1] \in Seq(G)
      BY <1>1, <1>2, <2>1, <2>2
    <3>5. Len(F[i]) = Len(F[i - 1]) + 1
      <4> DEFINE p == F[i - 1]
                 x == s[i]
      <4>1. F[i] = Append(p, x) /\ p \in Seq(G) /\ x \in G
        BY <3>4, <2>2
      <4> HIDE DEF p, x
      <4>2. Len(F[i]) = Len(p) + 1
        BY <4>1, AppendProperties
      <4>3. QED
        BY <4>2 DEF p
    <3>6. QED
      BY <2>1, <3>3, <3>5
  <2>3. CASE s[i] \notin G
    <3>1. Seen(i) = o
      <4>1. \A j \in 1..i : s[j] \in G => j \in 1..(i - 1)
        BY <2>3
      <4>2. \A j \in 1..(i - 1) : j \in 1..i
        BY <1>1
      <4>3. QED
        BY <4>1, <4>2
    <3> HIDE DEF Seen, o
    <3>2. F[i] = F[i - 1]
      BY <1>2, <2>3
    <3>3. QED
      BY <2>1, <3>1, <3>2
  <2>4. QED
    BY <2>2, <2>3
<1>7. n \in S
  <2> HIDE DEF S
  <2>1. \A i \in 0..n : i \in S
    BY <1>1, <1>5, <1>6, PrefixInduction
  <2>2. QED
    BY <2>1, <1>1
<1>8. Seen(n) = G
  BY <1>4
<1>9. \A x \in G : \E i \in DOMAIN F[n] : F[n][i] = x
  <2>1. ASSUME NEW x \in G PROVE \E i \in DOMAIN F[n] : F[n][i] = x
    <3>1. PICK j \in 1..n : s[j] = x
      BY <1>4
    <3>2. n \in 0..n
      BY <1>1
    <3>3. QED
      BY <3>1, <3>2, <1>2
  <2>2. QED
    BY <2>1
<1>10. F[n] \in Seq(G) /\ Len(F[n]) = Cardinality(G)
  <2> HIDE DEF Seen
  <2>1. n \in 0..n /\ Len(F[n]) = Cardinality(Seen(n))
    BY <1>7
  <2>2. QED
    BY <2>1, <1>1, <1>2, <1>8
<1>11. QED
  BY <1>9, <1>10 DEF n

\* The two halves of SymOrder.
Halves(names, a, b) ==
  /\ names = a \o b
  /\ a \in Seq(Locals) /\ Len(a) = Cardinality(Locals)
  /\ b \in Seq(Globals)
  /\ \A n \in Locals : \E i \in DOMAIN a : a[i] = n
  /\ \A n \in Globals : \E i \in DOMAIN b : b[i] = n

LEMMA SymOrderHalves ==
  ASSUME TabOK(symtab, sections), NEW ord \in SetToSeqs(DOMAIN symtab)
  PROVE  \E a, b : Halves(SymOrder(ord), a, b)
<1> DEFINE D == DOMAIN symtab
<1>1. /\ ord \in Seq(D) /\ \A i, j \in 1..Len(ord) : i # j => ord[i] # ord[j]
      /\ \A m \in D : \E i \in 1..Len(ord) : ord[i] = m
  BY HashOrder
<1>2. Locals \subseteq D /\ Globals \subseteq D
  BY DEF Locals, Globals
<1> HIDE DEF D
<1>3. ASSUME NEW G, G \subseteq D
      PROVE  /\ Filtered(ord, G) \in Seq(G) /\ Len(Filtered(ord, G)) = Cardinality(G)
             /\ \A x \in G : \E i \in DOMAIN Filtered(ord, G) : Filtered(ord, G)[i] = x
  <2>1. PICK F : IsSelection(ord, G, F) /\ Filtered(ord, G) = F[Len(ord)]
    BY <1>1, FilteredIsSelection
  <2>2. /\ F[Len(ord)] \in Seq(G) /\ Len(F[Len(ord)]) = Cardinality(G)
        /\ \A x \in G : \E i \in DOMAIN F[Len(ord)] : F[Len(ord)][i] = x
    BY <1>1, <1>3, <2>1, SelectionCount
  <2>3. QED
    BY <2>1, <2>2
<1>4. SymOrder(ord) = Filtered(ord, Locals) \o Filtered(ord, Globals)
  BY DEF SymOrder, Globals
<1> DEFINE a == Filtered(ord, Locals)
           b == Filtered(ord, Globals)
<1>5. /\ a \in Seq(Locals) /\ Len(a) = Cardinality(Locals) /\ b \in Seq(Globals)
      /\ \A n \in Locals : \E i \in DOMAIN a : a[i] = n
      /\ \A n \in Globals : \E i \in DOMAIN b : b[i] = n
  BY <1>2, <1>3
<1>6. SymOrder(ord) = a \o b
  BY <1>4
<1> HIDE DEF a, b
<1>7. Halves(SymOrder(ord), a, b)
  BY <1>5, <1>6 DEF Halves
<1>8. QED
  BY <1>7

\* The layout of the file.
LEMMA AlignFacts ==
  ASSUME NEW n \in Nat, NEW a \in {8, 16}
  PROVE  AlignTo(n, a) \in Nat /\ AlignTo(n, a) >= n
<1>1. CASE a = 8
  BY <1>1 DEF AlignTo
<1>2. CASE a = 16
  BY <1>2 DEF AlignTo
<1>3. QED
  BY <1>1, <1>2

IsPacked(off, start, n, sizes, a) ==
  /\ off \in [1..(n + 1) -> Nat] /\ off[1] = start
  /\ \A i \in 2..(n + 1) : off[i] = AlignTo(off[i - 1] + sizes[i - 1], a)

LEMMA PackedFacts ==
  ASSUME NEW start \in Nat, NEW n \in Nat, NEW sizes \in [1..n -> Nat], NEW a \in {8, 16}
  PROVE  IsPacked(Packed(start, sizes, a), start, n, sizes, a)
<1> DEFINE Body(f) == [i \in 1..(n + 1) |-> IF i = 1 THEN start ELSE AlignTo(f[i - 1] + sizes[i - 1], a)]
           F == CHOOSE f : f = Body(f)
           g == [p \in (1..n) \X Nat |-> AlignTo(p[2] + sizes[p[1]], a)]
<1>1. Len(sizes) = n
  BY FunctionLength
<1>2. Packed(start, sizes, a) = F
  BY <1>1 DEF Packed
<1>3. \E f : f = Body(f)
  <2>1. \A i \in 1..n : \A x \in Nat : g[<<i, x>>] = AlignTo(x + sizes[i], a) /\ g[<<i, x>>] \in Nat
    <3>1. \A i \in 1..n : \A x \in Nat : x + sizes[i] \in Nat
      OBVIOUS
    <3>2. QED
      BY <3>1, AlignFacts
  <2>2. IsStep(n, Nat, g)
    <3>1. g \in [(1..n) \X Nat -> Nat]
      BY <2>1
    <3> HIDE DEF g
    <3>2. QED
      BY <3>1 DEF IsStep
  <2> HIDE DEF g
  <2>3. PICK h : IsRun(n, Nat, start, g, h)
    BY <2>2, PrefixRecursion
  <2>4. h \in [0..n -> Nat] /\ h[0] = start /\ \A i \in 1..n : h[i] = g[<<i, h[i - 1]>>]
    BY <2>3 DEF IsRun
  <2> DEFINE f == [i \in 1..(n + 1) |-> h[i - 1]]
  <2>5. ASSUME NEW i \in 1..(n + 1), i # 1
        PROVE  f[i] = AlignTo(f[i - 1] + sizes[i - 1], a)
    <3>1. i - 1 \in 1..n /\ i - 1 \in 1..(n + 1) /\ (i - 1) - 1 \in 0..n
      BY <2>5
    <3>2. h[i - 1] = AlignTo(h[(i - 1) - 1] + sizes[i - 1], a)
      BY <3>1, <2>1, <2>4
    <3>3. QED
      BY <3>1, <3>2
  <2>6. n >= 0 => f[1] = start
    <3>1. 1 \in 1..(n + 1) /\ 1 - 1 = 0
      OBVIOUS
    <3>2. QED
      BY <3>1, <2>4
  <2>7. f = [i \in 1..(n + 1) |-> f[i]]
    OBVIOUS
  <2> HIDE DEF f
  <2>8. f = Body(f)
    <3>1. ASSUME NEW i \in 1..(n + 1)
          PROVE  f[i] = IF i = 1 THEN start ELSE AlignTo(f[i - 1] + sizes[i - 1], a)
      BY <2>5, <2>6
    <3>2. QED
      BY <3>1, <2>7
  <2>9. QED
    BY <2>8
<1>4. F = Body(F)
  BY <1>3
<1> HIDE DEF F
<1>5. F[1] = start /\ \A i \in 2..(n + 1) : F[i] = AlignTo(F[i - 1] + sizes[i - 1], a)
  <2>1. 1 \in 1..(n + 1) /\ \A i \in 2..(n + 1) : i \in 1..(n + 1) /\ i # 1
    OBVIOUS
  <2>2. QED
    BY <1>4, <2>1
<1> DEFINE S == {i \in 0..n : F[i + 1] \in Nat}
<1>6. 0 \in S
  BY <1>5
<1>7. ASSUME NEW i \in 1..n, i - 1 \in S PROVE i \in S
  <2>1. F[i] \in Nat /\ i + 1 \in 2..(n + 1) /\ (i + 1) - 1 = i
    BY <1>7
  <2>2. F[i] + sizes[i] \in Nat
    BY <2>1
  <2>3. F[i + 1] = AlignTo(F[i] + sizes[i], a)
    BY <2>1, <1>5
  <2>4. F[i + 1] \in Nat
    <3> DEFINE x == F[i] + sizes[i]
    <3>1. x \in Nat /\ F[i + 1] = AlignTo(x, a)
      BY <2>2, <2>3
    <3> HIDE DEF x
    <3>2. QED
      BY <3>1, AlignFacts
  <2>5. i \in 0..n
    OBVIOUS
  <2>6. QED
    BY <2>4, <2>5
<1>8. \A i \in 0..n : i \in S
  <2> HIDE DEF S
  <2>1. QED
    BY <1>6, <1>7, PrefixInduction
<1>9. F \in [1..(n + 1) -> Nat]
  <2>1. \A i \in 1..(n + 1) : i - 1 \in 0..n /\ (i - 1) + 1 = i
    OBVIOUS
  <2>2. \A i \in 1..(n + 1) : F[i] \in Nat
    BY <2>1, <1>8
  <2>3. F = [i \in 1..(n + 1) |-> F[i]]
    BY <1>4
  <2>4. QED
    BY <2>2, <2>3
<1>10. QED
  BY <1>2, <1>5, <1>9 DEF IsPacked

\* Parts one after the other, between two offsets.
PartRec == [off : Nat, size : Nat]

Chain(s, lo, hi) ==
  /\ s \in Seq(PartRec) /\ lo \in Nat /\ hi \in Nat /\ lo <= hi
  /\ \A i \in 1..Len(s) : lo <= s[i].off /\ s[i].off + s[i].size <= hi
  /\ \A i, j \in 1..Len(s) : i < j => s[i].off + s[i].size <= s[j].off

LEMMA ChainConcat ==
  ASSUME NEW s, NEW t, NEW lo, NEW mid, NEW hi, Chain(s, lo, mid), Chain(t, mid, hi)
  PROVE  Chain(s \o t, lo, hi)
<1> DEFINE n == Len(s)
           m == Len(t)
           q == s \o t
<1>1. /\ n \in Nat /\ m \in Nat /\ lo \in Nat /\ mid \in Nat /\ hi \in Nat /\ lo <= mid /\ mid <= hi
      /\ \A i \in 1..n : s[i] \in PartRec /\ lo <= s[i].off /\ s[i].off + s[i].size <= mid
      /\ \A i \in 1..m : t[i] \in PartRec /\ mid <= t[i].off /\ t[i].off + t[i].size <= hi
  BY LenProperties DEF Chain
<1>2. /\ q \in Seq(PartRec) /\ Len(q) = n + m
      /\ \A i \in 1..(n + m) : q[i] = IF i <= n THEN s[i] ELSE t[i - n]
  BY ConcatProperties DEF Chain
<1>3. /\ \A i, j \in 1..n : i < j => s[i].off + s[i].size <= s[j].off
      /\ \A i, j \in 1..m : i < j => t[i].off + t[i].size <= t[j].off
  BY DEF Chain
<1> HIDE DEF n, m, q
<1>4. ASSUME NEW i \in 1..(n + m)
      PROVE  \/ i \in 1..n /\ q[i] = s[i]
             \/ i - n \in 1..m /\ ~(i <= n) /\ q[i] = t[i - n]
  BY <1>1, <1>2
<1>5. \A x \in PartRec : x.off \in Nat /\ x.size \in Nat
  BY DEF PartRec
<1>6. ASSUME NEW i \in 1..(n + m)
      PROVE  q[i] \in PartRec /\ lo <= q[i].off /\ q[i].off + q[i].size <= hi
  <2>1. CASE i \in 1..n /\ q[i] = s[i]
    BY <2>1, <1>1, <1>5
  <2>2. CASE i - n \in 1..m /\ ~(i <= n) /\ q[i] = t[i - n]
    BY <2>2, <1>1, <1>5
  <2>3. QED
    BY <2>1, <2>2, <1>4
<1>7. ASSUME NEW i \in 1..(n + m), NEW j \in 1..(n + m), i < j
      PROVE  q[i].off + q[i].size <= q[j].off
  <2>1. CASE i \in 1..n /\ q[i] = s[i] /\ j \in 1..n /\ q[j] = s[j]
    BY <2>1, <1>3, <1>7
  <2>2. CASE i \in 1..n /\ q[i] = s[i] /\ j - n \in 1..m /\ q[j] = t[j - n]
    BY <2>2, <1>1, <1>5
  <2>3. CASE i - n \in 1..m /\ q[i] = t[i - n] /\ j - n \in 1..m /\ q[j] = t[j - n]
    <3>1. i - n < j - n
      BY <1>1, <1>7
    <3>2. QED
      BY <2>3, <3>1, <1>3
  <2>4. CASE ~(i <= n) /\ j \in 1..n
    BY <2>4, <1>1, <1>7
  <2>5. QED
    BY <2>1, <2>2, <2>3, <2>4, <1>4
<1>8. Chain(q, lo, hi)
  BY <1>1, <1>2, <1>6, <1>7 DEF Chain
<1>9. QED
  BY <1>8 DEF q

LEMMA PackedChain ==
  ASSUME NEW start \in Nat, NEW n \in Nat, NEW sizes \in [1..n -> Nat], NEW a \in {8, 16}, NEW off,
         IsPacked(off, start, n, sizes, a)
  PROVE  /\ off[n + 1] \in Nat
         /\ Chain([i \in 1..n |-> [off |-> off[i], size |-> sizes[i]]], start, off[n + 1])
<1> DEFINE q == [i \in 1..n |-> [off |-> off[i], size |-> sizes[i]]]
<1>1. /\ \A i \in 1..(n + 1) : off[i] \in Nat
      /\ off[1] = start
  BY DEF IsPacked
<1>2. ASSUME NEW i \in 1..n PROVE off[i] + sizes[i] <= off[i + 1]
  <2>1. i + 1 \in 2..(n + 1) /\ (i + 1) - 1 = i /\ i \in 1..(n + 1)
    OBVIOUS
  <2>2. off[i] + sizes[i] \in Nat
    BY <2>1, <1>1
  <2>3. off[i + 1] = AlignTo(off[i] + sizes[i], a)
    BY <2>1 DEF IsPacked
  <2>4. QED
    BY <2>2, <2>3, AlignFacts
<1> DEFINE S == {j \in 0..n : start <= off[j + 1] /\ \A i \in 1..j : off[i] + sizes[i] <= off[j + 1]}
<1>3. 0 \in S
  BY <1>1
<1>4. ASSUME NEW j \in 1..n, j - 1 \in S PROVE j \in S
  <2>1. (j - 1) + 1 = j /\ j \in 1..(n + 1) /\ j + 1 \in 1..(n + 1) /\ j \in 0..n
    OBVIOUS
  <2>2. start <= off[j] /\ \A i \in 1..(j - 1) : off[i] + sizes[i] <= off[j]
    BY <1>4, <2>1
  <2>3. off[j] + sizes[j] <= off[j + 1] /\ sizes[j] \in Nat /\ off[j] \in Nat /\ off[j + 1] \in Nat
    BY <1>1, <1>2, <2>1
  <2>4. start <= off[j + 1]
    BY <2>2, <2>3
  <2>5. ASSUME NEW i \in 1..j PROVE off[i] + sizes[i] <= off[j + 1]
    <3>1. CASE i = j
      BY <3>1, <2>3
    <3>2. CASE i # j
      <4>1. i \in 1..(j - 1) /\ i \in 1..(n + 1) /\ i \in 1..n
        BY <3>2
      <4>2. off[i] \in Nat /\ sizes[i] \in Nat
        BY <4>1, <1>1
      <4>3. off[i] + sizes[i] <= off[j]
        BY <4>1, <2>2
      <4> DEFINE u == off[i]
                 v == sizes[i]
                 w == off[j]
                 x == sizes[j]
                 y == off[j + 1]
      <4>4. /\ u \in Nat /\ v \in Nat /\ w \in Nat /\ x \in Nat /\ y \in Nat
            /\ u + v <= w /\ w + x <= y
        BY <4>2, <4>3, <2>3
      <4> HIDE DEF u, v, w, x, y
      <4>5. u + v <= y
        BY <4>4
      <4>6. QED
        BY <4>5 DEF u, v, y
    <3>3. QED
      BY <3>1, <3>2
  <2>6. QED
    BY <2>1, <2>4, <2>5
<1>5. \A j \in 0..n : j \in S
  <2> HIDE DEF S
  <2>1. QED
    BY <1>3, <1>4, PrefixInduction
<1>6. \A j \in 0..n : start <= off[j + 1] /\ \A i \in 1..j : off[i] + sizes[i] <= off[j + 1]
  BY <1>5
<1>7. q \in Seq(PartRec) /\ Len(q) = n
  <2>1. \A i \in 1..n : off[i] \in Nat /\ sizes[i] \in Nat
    BY <1>1
  <2>2. q \in [1..n -> PartRec]
    BY <2>1 DEF PartRec
  <2> HIDE DEF q
  <2>3. QED
    BY <2>2, FunctionLength
<1>8. \A i \in 1..n : q[i].off = off[i] /\ q[i].size = sizes[i]
  OBVIOUS
<1> HIDE DEF q, S
<1>9. ASSUME NEW i \in 1..n PROVE start <= q[i].off /\ q[i].off + q[i].size <= off[n + 1]
  <2>1. i - 1 \in 0..n /\ (i - 1) + 1 = i /\ n \in 0..n
    OBVIOUS
  <2>2. start <= off[i] /\ off[i] + sizes[i] <= off[n + 1]
    BY <2>1, <1>6
  <2>3. QED
    BY <2>2, <1>8
<1>10. ASSUME NEW i \in 1..n, NEW j \in 1..n, i < j PROVE q[i].off + q[i].size <= q[j].off
  <2>1. j - 1 \in 0..n /\ (j - 1) + 1 = j /\ i \in 1..(j - 1)
    BY <1>10
  <2>2. off[i] + sizes[i] <= off[j]
    BY <2>1, <1>6
  <2>3. QED
    BY <2>2, <1>8
<1>11. n \in 0..n /\ n + 1 \in 1..(n + 1)
  OBVIOUS
<1>12. Chain(q, start, off[n + 1])
  BY <1>1, <1>6, <1>7, <1>9, <1>10, <1>11 DEF Chain
<1>13. QED
  BY <1>1, <1>11, <1>12 DEF q

\* A part that ends where the next one starts, or before.
LEMMA TailChain ==
  ASSUME NEW a1 \in Nat, NEW s1 \in Nat, NEW a2 \in Nat, NEW s2 \in Nat, NEW a3 \in Nat, NEW s3 \in Nat,
         NEW a4 \in Nat, NEW s4 \in Nat, NEW a5 \in Nat, NEW s5 \in Nat,
         a1 + s1 <= a2, a2 + s2 <= a3, a3 + s3 <= a4, a4 + s4 <= a5
  PROVE  Chain(<<[off |-> a1, size |-> s1], [off |-> a2, size |-> s2], [off |-> a3, size |-> s3],
                 [off |-> a4, size |-> s4], [off |-> a5, size |-> s5]>>, a1, a5 + s5)
<1> DEFINE p1 == [off |-> a1, size |-> s1]
           p2 == [off |-> a2, size |-> s2]
           p3 == [off |-> a3, size |-> s3]
           p4 == [off |-> a4, size |-> s4]
           p5 == [off |-> a5, size |-> s5]
           q == <<p1, p2, p3, p4, p5>>
<1>1. /\ p1 \in PartRec /\ p2 \in PartRec /\ p3 \in PartRec /\ p4 \in PartRec /\ p5 \in PartRec
      /\ p1.off = a1 /\ p1.size = s1 /\ p2.off = a2 /\ p2.size = s2 /\ p3.off = a3 /\ p3.size = s3
      /\ p4.off = a4 /\ p4.size = s4 /\ p5.off = a5 /\ p5.size = s5
  BY DEF PartRec
<1> HIDE DEF p1, p2, p3, p4, p5
<1>2. /\ q \in Seq(PartRec) /\ Len(q) = 5
      /\ q[1] = p1 /\ q[2] = p2 /\ q[3] = p3 /\ q[4] = p4 /\ q[5] = p5
  BY <1>1
<1> HIDE DEF q
<1>3. /\ a1 <= a2 /\ a2 <= a3 /\ a3 <= a4 /\ a4 <= a5
      /\ a1 + s1 <= a3 /\ a1 + s1 <= a4 /\ a1 + s1 <= a5 /\ a1 + s1 <= a5 + s5
      /\ a2 + s2 <= a4 /\ a2 + s2 <= a5 /\ a2 + s2 <= a5 + s5
      /\ a3 + s3 <= a5 /\ a3 + s3 <= a5 + s5 /\ a4 + s4 <= a5 + s5
  OBVIOUS
<1>4. /\ q[1].off = a1 /\ q[1].size = s1 /\ q[2].off = a2 /\ q[2].size = s2
      /\ q[3].off = a3 /\ q[3].size = s3 /\ q[4].off = a4 /\ q[4].size = s4
      /\ q[5].off = a5 /\ q[5].size = s5
  BY <1>1, <1>2
<1>5. /\ \A i \in 1..5 : a1 <= q[i].off /\ q[i].off + q[i].size <= a5 + s5
      /\ \A i, j \in 1..5 : i < j => q[i].off + q[i].size <= q[j].off
  <2> DEFINE In(i) == a1 <= q[i].off /\ q[i].off + q[i].size <= a5 + s5
             Before(i, j) == q[i].off + q[i].size <= q[j].off
  <2>1. In(1) /\ In(2) /\ In(3) /\ In(4) /\ In(5)
    BY <1>3, <1>4
  <2>2. /\ Before(1, 2) /\ Before(1, 3) /\ Before(1, 4) /\ Before(1, 5)
        /\ Before(2, 3) /\ Before(2, 4) /\ Before(2, 5)
        /\ Before(3, 4) /\ Before(3, 5) /\ Before(4, 5)
    BY <1>3, <1>4
  <2> HIDE DEF In, Before
  <2>3. \A i \in 1..5 : In(i)
    <3>1. \A i \in 1..5 : i = 1 \/ i = 2 \/ i = 3 \/ i = 4 \/ i = 5
      OBVIOUS
    <3>2. QED
      BY <2>1, <3>1
  <2>4. \A i, j \in 1..5 : i < j => Before(i, j)
    <3>1. ASSUME NEW i \in 1..5, NEW j \in 1..5, i < j
          PROVE  \/ i = 1 /\ (j = 2 \/ j = 3 \/ j = 4 \/ j = 5)
                 \/ i = 2 /\ (j = 3 \/ j = 4 \/ j = 5)
                 \/ i = 3 /\ (j = 4 \/ j = 5)
                 \/ i = 4 /\ j = 5
      BY <3>1
    <3>2. QED
      BY <2>2, <3>1
  <2>5. QED
    BY <2>3, <2>4 DEF In, Before
<1>6. Chain(q, a1, a5 + s5)
  <2>1. a1 <= a5 + s5 /\ a5 + s5 \in Nat
    OBVIOUS
  <2>2. QED
    BY <1>2, <1>5, <2>1 DEF Chain
<1>7. QED
  BY <1>6 DEF q, p1, p2, p3, p4, p5

LEMMA NatProduct ==
  ASSUME NEW a \in Nat, NEW b \in Nat
  PROVE  a * b \in Nat
<1>1. a * b \in Int /\ a * b >= 0
  OBVIOUS
<1>2. QED
  BY <1>1

LEMMA StrtabSize ==
  ASSUME NEW n \in Nat
  PROVE  build_strtab(n) \in Nat
<1>1. NameLen + 1 \in Nat
  BY CcwasAssumption
<1>2. n * (NameLen + 1) \in Nat
  BY <1>1, NatProduct
<1>3. QED
  BY <1>2 DEF build_strtab

LEMMA FunctionLen ==
  ASSUME NEW n \in Nat, NEW f, DOMAIN f = 1..n, f = [i \in 1..n |-> f[i]]
  PROVE  Len(f) = n
<1>1. f \in [1..n -> {f[i] : i \in 1..n}]
  OBVIOUS
<1>2. QED
  BY <1>1, FunctionLength

\* No relocation has a section, so there is at most one table, of section 1.
LEMMA NrelaValue ==
  ASSUME UnitOK
  PROVE  Nrela \in {0, 1}
<1>1. sections \in Seq(SectionRec) /\ relocs \in Seq(RelocRec)
  BY DEF UnitOK, RelocsOK
<1>2. 0 \notin DOMAIN sections
  BY <1>1, LenProperties
<1>3. \A i \in DOMAIN relocs : relocs[i].section = 0
  <2>1. \A i \in DOMAIN relocs : relocs[i] \in RelocRec
    BY <1>1, LenProperties
  <2>2. QED
    BY <2>1 DEF RelocRec
<1>4. {i \in DOMAIN relocs : relocs[i].section \in DOMAIN sections} = {}
  BY <1>2, <1>3
<1>5. QED
  BY <1>4 DEF Nrela

\* What a relocation table says: an entry of relocs, with the index of its symbol.
LEMMA RelaEntries ==
  ASSUME UnitOK, NEW names \in Seq(DOMAIN symtab), NEW i, NEW n
  PROVE  /\ Len(Rela(names, i, n)) \in Nat /\ DOMAIN Rela(names, i, n) = 1..Len(Rela(names, i, n))
         /\ \A j \in DOMAIN Rela(names, i, n) : \E r \in RelocRec :
              /\ RelocOK(r, sections, DOMAIN symtab)
              /\ Rela(names, i, n)[j].offset = r.offset /\ Rela(names, i, n)[j].addend = r.addend
              /\ Rela(names, i, n)[j].home = r.home /\ Rela(names, i, n)[j].label = r.symbol
              /\ Rela(names, i, n)[j].sym = SymIndex(names, r.symbol)
<1> DEFINE G == {r \in RelocRec : RelocOK(r, sections, DOMAIN symtab)}
           mine == Filtered(relocs, {r \in ToSet(relocs) : RelaOf(r, n) = i})
           q == Rela(names, i, n)
<1>1. mine \in Seq(G)
  <2>1. RelocsOK(relocs, sections, DOMAIN symtab)
    BY DEF UnitOK
  <2>2. relocs \in Seq(G)
    BY <2>1, RelocSeq
  <2> DEFINE X == {r \in ToSet(relocs) : RelaOf(r, n) = i}
  <2> HIDE DEF G, X
  <2>3. Filtered(relocs, X) \in Seq(G \cap X)
    BY <2>2, FilteredType
  <2>4. Filtered(relocs, X) \in Seq(G)
    <3> DEFINE c == Filtered(relocs, X)
    <3>1. /\ Len(c) \in Nat /\ c = [k \in 1..Len(c) |-> c[k]]
          /\ \A k \in 1..Len(c) : c[k] \in G \cap X
      BY <2>3, LenProperties
    <3> HIDE DEF c
    <3>2. c \in [1..Len(c) -> G]
      BY <3>1
    <3>3. QED
      BY <3>1, <3>2, FunctionLength DEF c
  <2>5. QED
    BY <2>4 DEF X
<1>2. q = [j \in DOMAIN mine |->
             [offset |-> mine[j].offset, sym |-> SymIndex(names, mine[j].symbol),
              type |-> reloc_to_elf_type(mine[j].type, opts.arch), addend |-> mine[j].addend,
              home |-> mine[j].home, label |-> mine[j].symbol]]
  BY DEF Rela
<1> HIDE DEF G, mine
<1>3. Len(mine) \in Nat /\ DOMAIN mine = 1..Len(mine) /\ \A j \in DOMAIN mine : mine[j] \in G
  BY <1>1, LenProperties
<1> DEFINE entry(j) == [offset |-> mine[j].offset, sym |-> SymIndex(names, mine[j].symbol),
                        type |-> reloc_to_elf_type(mine[j].type, opts.arch), addend |-> mine[j].addend,
                        home |-> mine[j].home, label |-> mine[j].symbol]
<1> HIDE DEF q
<1>4. DOMAIN q = 1..Len(mine) /\ (\A j \in DOMAIN mine : q[j] = entry(j)) /\ q = [j \in 1..Len(mine) |-> q[j]]
  BY <1>2, <1>3
<1>5. Len(q) = Len(mine)
  BY <1>3, <1>4, FunctionLen
<1>6. ASSUME NEW j \in DOMAIN q
      PROVE  \E r \in RelocRec :
              /\ RelocOK(r, sections, DOMAIN symtab)
              /\ q[j].offset = r.offset /\ q[j].addend = r.addend
              /\ q[j].home = r.home /\ q[j].label = r.symbol
              /\ q[j].sym = SymIndex(names, r.symbol)
  <2>1. mine[j] \in G /\ q[j] = entry(j)
    BY <1>3, <1>4
  <2>2. mine[j] \in RelocRec /\ RelocOK(mine[j], sections, DOMAIN symtab)
    BY <2>1 DEF G
  <2>3. /\ q[j].offset = mine[j].offset /\ q[j].addend = mine[j].addend
        /\ q[j].home = mine[j].home /\ q[j].label = mine[j].symbol
        /\ q[j].sym = SymIndex(names, mine[j].symbol)
    BY <2>1
  <2>4. QED
    BY <2>2, <2>3
<1>7. QED
  BY <1>3, <1>4, <1>5, <1>6 DEF q

\* The parts of the file follow each other.
LEMMA FileChain ==
  ASSUME UnitOK, NEW names \in Seq(DOMAIN symtab)
  PROVE  Chain(ElfFile(names).parts, 0, ElfFile(names).total)
<1> DEFINE e == ElfFile(names)
           nsec == Len(sections)
           nrela == Nrela
           sizes == [i \in 1..nsec |-> Len(sections[i].data)]
           secs == Packed(EhdrSize, sizes, 16)
           rela == [i \in 1..nrela |-> Rela(names, i, nrela)]
           rsizes == [i \in 1..nrela |-> RelaSize * Len(rela[i])]
           relas == Packed(secs[nsec + 1], rsizes, 8)
           symoff == relas[nrela + 1]
           symsize == SymSize * (Len(names) + 1)
           stroff == symoff + symsize
           strsize == build_strtab(Len(names))
           shstroff == stroff + strsize
           shstrlen == build_strtab(nsec + 4 + nrela)
           noteoff == AlignTo(shstroff + shstrlen, 8)
           shoff == AlignTo(noteoff + NoteSize, 8)
           shsize == (1 + nsec + nrela + 4) * ShdrSize
           A == <<[off |-> 0, size |-> EhdrSize]>>
           B == [i \in 1..nsec |-> [off |-> secs[i], size |-> Len(sections[i].data)]]
           C == [i \in 1..nrela |-> [off |-> relas[i], size |-> RelaSize * Len(rela[i])]]
           T == <<[off |-> symoff, size |-> symsize], [off |-> stroff, size |-> strsize],
                  [off |-> shstroff, size |-> shstrlen], [off |-> noteoff, size |-> NoteSize],
                  [off |-> shoff, size |-> shsize]>>
<1>1. e.parts = A \o B \o C \o T /\ e.total = shoff + shsize
  BY DEF ElfFile
<1> HIDE DEF e
<1>2. sections \in Seq(SectionRec) /\ nsec \in Nat /\ \A i \in 1..nsec : sections[i] \in SectionRec
  BY LenProperties DEF UnitOK
<1>3. sizes \in [1..nsec -> Nat]
  BY <1>2, SectionTypes
<1>4. B = [i \in 1..nsec |-> [off |-> secs[i], size |-> sizes[i]]]
  OBVIOUS
<1>5. nrela \in {0, 1}
  BY NrelaValue
<1> HIDE DEF nsec, nrela, sizes
<1>6. 64 \in Nat /\ EhdrSize = 64 /\ 16 \in {8, 16} /\ 8 \in {8, 16}
  BY DEF EhdrSize
<1>7. IsPacked(secs, EhdrSize, nsec, sizes, 16)
  BY <1>2, <1>3, <1>6, PackedFacts
<1> HIDE DEF secs, B
<1>8. secs[nsec + 1] \in Nat /\ Chain(B, EhdrSize, secs[nsec + 1])
  BY <1>2, <1>3, <1>4, <1>6, <1>7, PackedChain
<1>9. rsizes \in [1..nrela -> Nat]
  <2>1. ASSUME NEW i \in 1..nrela PROVE RelaSize * Len(rela[i]) \in Nat
    <3>1. rela[i] = Rela(names, i, nrela)
      OBVIOUS
    <3> HIDE DEF rela
    <3>2. Len(rela[i]) \in Nat
      BY <3>1, RelaEntries
    <3>3. QED
      BY <3>2 DEF RelaSize
  <2>2. QED
    BY <2>1
<1>10. C = [i \in 1..nrela |-> [off |-> relas[i], size |-> rsizes[i]]]
  OBVIOUS
<1> HIDE DEF rela, rsizes
<1>11. nrela \in Nat
  BY <1>5
<1>12. IsPacked(relas, secs[nsec + 1], nrela, rsizes, 8)
  BY <1>6, <1>8, <1>9, <1>11, PackedFacts
<1> HIDE DEF relas, C
<1>13. symoff \in Nat /\ Chain(C, secs[nsec + 1], symoff)
  BY <1>6, <1>8, <1>9, <1>10, <1>11, <1>12, PackedChain
<1> HIDE DEF symoff
<1>14. /\ symsize \in Nat /\ stroff \in Nat /\ strsize \in Nat /\ shstroff \in Nat /\ shstrlen \in Nat
       /\ noteoff \in Nat /\ NoteSize \in Nat /\ shoff \in Nat /\ shsize \in Nat
       /\ shstroff + shstrlen <= noteoff /\ noteoff + NoteSize <= shoff
  <2>1. Len(names) \in Nat
    BY LenProperties
  <2>2. symsize \in Nat
    BY <2>1 DEF SymSize
  <2>3. strsize \in Nat
    BY <2>1, StrtabSize
  <2>4. nsec + 4 + nrela \in Nat
    BY <1>2, <1>11
  <2>5. shstrlen \in Nat
    BY <2>4, StrtabSize
  <2>6. shsize \in Nat
    BY <1>2, <1>11 DEF ShdrSize
  <2> HIDE DEF symsize, strsize, shstrlen, shsize
  <2>7. stroff \in Nat /\ shstroff \in Nat /\ shstroff + shstrlen \in Nat
    BY <1>13, <2>2, <2>3, <2>5
  <2> HIDE DEF stroff, shstroff
  <2>8. noteoff \in Nat /\ noteoff >= shstroff + shstrlen
    BY <1>6, <2>7, AlignFacts
  <2> HIDE DEF noteoff
  <2>9. NoteSize \in Nat /\ noteoff + NoteSize \in Nat
    BY <2>8 DEF NoteSize
  <2>10. shoff \in Nat /\ shoff >= noteoff + NoteSize
    BY <1>6, <2>9, AlignFacts
  <2> HIDE DEF shoff
  <2>11. QED
    BY <2>2, <2>3, <2>5, <2>6, <2>7, <2>8, <2>9, <2>10
<1>15. symoff + symsize <= stroff /\ stroff + strsize <= shstroff
  <2> HIDE DEF symsize, strsize, shstrlen, noteoff, shoff, shsize
  <2>1. stroff = symoff + symsize /\ shstroff = stroff + strsize
    OBVIOUS
  <2>2. symoff \in Nat /\ symsize \in Nat /\ stroff \in Nat /\ strsize \in Nat
    BY <1>13, <1>14
  <2> HIDE DEF stroff, shstroff
  <2>3. QED
    BY <2>1, <2>2
<1> HIDE DEF symsize, stroff, strsize, shstroff, shstrlen, noteoff, shoff, shsize
<1>16. Chain(T, symoff, shoff + shsize)
  BY <1>13, <1>14, <1>15, TailChain
<1> HIDE DEF T
<1>17. Chain(A, 0, EhdrSize)
  <2> DEFINE p == [off |-> 0, size |-> EhdrSize]
  <2>1. p \in PartRec /\ p.off = 0 /\ p.size = 64
    BY <1>6 DEF PartRec
  <2> HIDE DEF p
  <2>2. <<p>> \in Seq(PartRec) /\ Len(<<p>>) = 1 /\ <<p>>[1] = p
    BY <2>1
  <2>3. Chain(<<p>>, 0, EhdrSize)
    BY <2>1, <2>2, <1>6 DEF Chain
  <2>4. QED
    BY <2>3 DEF p
<1> HIDE DEF A
<1>18. Chain(A \o B, 0, secs[nsec + 1])
  BY <1>8, <1>17, ChainConcat
<1>19. Chain(A \o B \o C, 0, symoff)
  BY <1>13, <1>18, ChainConcat
<1>20. Chain(A \o B \o C \o T, 0, shoff + shsize)
  BY <1>16, <1>19, ChainConcat
<1>21. QED
  BY <1>1, <1>20 DEF e

\* The names of the file: locals in front, and every symbol is there.
LEMMA HalvesFacts ==
  ASSUME NEW names, NEW a, NEW b, Halves(names, a, b)
  PROVE  /\ names \in Seq(DOMAIN symtab) /\ Len(names) \in Nat /\ Cardinality(Locals) \in Nat
         /\ \A i \in 1..Len(names) : (names[i] \in Locals) <=> (i <= Cardinality(Locals))
         /\ \A n \in DOMAIN symtab : \E i \in 1..Len(names) : names[i] = n
<1> DEFINE D == DOMAIN symtab
           L == Locals
           G == Globals
           p == Len(a)
           m == Len(b)
<1>1. /\ names = a \o b /\ a \in Seq(L) /\ p = Cardinality(L) /\ b \in Seq(G)
      /\ \A n \in L : \E i \in DOMAIN a : a[i] = n
      /\ \A n \in G : \E i \in DOMAIN b : b[i] = n
  BY DEF Halves
<1>2. L \subseteq D /\ G \subseteq D /\ L \cap G = {} /\ D = L \cup G
  BY DEF Locals, Globals
<1> HIDE DEF D, L, G
<1>3. /\ p \in Nat /\ m \in Nat /\ DOMAIN a = 1..p /\ DOMAIN b = 1..m
      /\ (\A i \in 1..p : a[i] \in L) /\ \A i \in 1..m : b[i] \in G
  BY <1>1, LenProperties
<1>4. /\ Len(names) = p + m
      /\ \A i \in 1..(p + m) : names[i] = IF i <= p THEN a[i] ELSE b[i - p]
  BY <1>1, ConcatProperties
<1> HIDE DEF p, m
<1>5. names \in Seq(D)
  <2>1. a \in Seq(D) /\ b \in Seq(D)
    <3>1. a = [i \in 1..p |-> a[i]] /\ b = [i \in 1..m |-> b[i]]
      BY <1>1, <1>3, LenProperties
    <3>2. a \in [1..p -> D] /\ b \in [1..m -> D]
      BY <1>2, <1>3, <3>1
    <3>3. QED
      BY <1>3, <3>2, FunctionLength
  <2>2. QED
    BY <1>1, <2>1, ConcatProperties
<1>6. ASSUME NEW i \in 1..(p + m) PROVE (names[i] \in L) <=> (i <= p)
  <2>1. CASE i <= p
    <3>1. i \in 1..p /\ names[i] = a[i]
      BY <1>3, <1>4, <2>1
    <3>2. QED
      BY <2>1, <3>1, <1>3
  <2>2. CASE ~(i <= p)
    <3>1. i - p \in 1..m /\ names[i] = b[i - p]
      BY <1>3, <1>4, <2>2
    <3>2. names[i] \in G
      BY <3>1, <1>3
    <3>3. QED
      BY <2>2, <3>2, <1>2
  <2>3. QED
    BY <2>1, <2>2
<1>7. ASSUME NEW n \in D PROVE \E i \in 1..(p + m) : names[i] = n
  <2>1. CASE n \in L
    <3>1. PICK i \in 1..p : a[i] = n
      BY <1>1, <1>3, <2>1
    <3>2. i \in 1..(p + m) /\ i <= p
      BY <1>3
    <3>3. QED
      BY <1>4, <3>1, <3>2
  <2>2. CASE n \in G
    <3>1. PICK i \in 1..m : b[i] = n
      BY <1>1, <1>3, <2>2
    <3>2. i + p \in 1..(p + m) /\ ~(i + p <= p) /\ (i + p) - p = i
      BY <1>3
    <3>3. names[i + p] = b[i]
      BY <1>4, <3>2
    <3>4. QED
      BY <3>1, <3>2, <3>3
  <2>3. QED
    BY <2>1, <2>2, <1>2
<1>8. /\ Len(names) = p + m /\ p + m \in Nat /\ p = Cardinality(L) /\ p \in Nat
  BY <1>1, <1>3, <1>4 DEF p
<1> HIDE DEF p
<1>9. /\ \A i \in 1..Len(names) : (names[i] \in L) <=> (i <= Cardinality(L))
      /\ \A n \in D : \E i \in 1..Len(names) : names[i] = n
  BY <1>6, <1>7, <1>8
<1>10. QED
  BY <1>5, <1>8, <1>9 DEF D, L

\* A name that is in the table has an index, and it is its own.
LEMMA SymIndexFacts ==
  ASSUME NEW T, NEW names \in Seq(T), NEW n
  PROVE  /\ SymIndex(names, n) # 0 => /\ SymIndex(names, n) \in 1..Len(names)
                                      /\ names[SymIndex(names, n)] = n
         /\ (\E i \in 1..Len(names) : names[i] = n) => SymIndex(names, n) # 0
<1> DEFINE at == {i \in DOMAIN names : names[i] = n}
<1>1. SymIndex(names, n) = IF at = {} THEN 0 ELSE Min(at)
  BY DEF SymIndex
<1>2. DOMAIN names = 1..Len(names) /\ Len(names) \in Nat
  BY LenProperties
<1>3. at \subseteq Nat /\ 0 \notin at
  BY <1>2
<1>4. ASSUME at # {} PROVE Min(at) \in at
  <2> HIDE DEF at
  <2>1. PICK x \in at : \A y \in at : x <= y
    BY <1>3, <1>4, LeastNatural
  <2>2. QED
    BY <2>1 DEF Min
<1>5. ASSUME SymIndex(names, n) # 0
      PROVE  SymIndex(names, n) \in 1..Len(names) /\ names[SymIndex(names, n)] = n
  <2>1. SymIndex(names, n) \in at
    BY <1>1, <1>4, <1>5
  <2>2. QED
    BY <2>1, <1>2
<1>6. ASSUME \E i \in 1..Len(names) : names[i] = n PROVE SymIndex(names, n) # 0
  <2>1. at # {}
    BY <1>2, <1>6
  <2>2. QED
    BY <1>1, <1>3, <1>4, <2>1
<1>7. QED
  BY <1>5, <1>6

\* What the properties say of a file.
FileOK(o) ==
  /\ \A i \in DOMAIN o.syms : (o.syms[i].binding = 0) = (i < o.first_global)
  /\ \A i, j \in DOMAIN o.parts : i < j => o.parts[i].off + o.parts[i].size <= o.parts[j].off
  /\ \A i \in DOMAIN o.parts : o.parts[i].off + o.parts[i].size <= o.total
  /\ \A i \in DOMAIN o.rela : \A j \in DOMAIN o.rela[i] :
       LET r == o.rela[i][j]
           called == r.addend = -4 /\ sections[r.home].data[r.offset] \in {232, 233}
       IN /\ called => r.sym # 0
          /\ r.sym # 0 => o.syms[r.sym].name = r.label

LEMMA FileSound ==
  ASSUME UnitOK, NEW ord \in SetToSeqs(DOMAIN symtab)
  PROVE  FileOK(ElfFile(SymOrder(ord)))
<1> DEFINE names == SymOrder(ord)
           o == ElfFile(names)
<1>1. TabOK(symtab, sections)
  BY DEF UnitOK
<1>2. PICK a, b : Halves(names, a, b)
  BY <1>1, SymOrderHalves
<1> HIDE DEF names
<1>3. /\ names \in Seq(DOMAIN symtab) /\ Len(names) \in Nat /\ Cardinality(Locals) \in Nat
      /\ \A i \in 1..Len(names) : (names[i] \in Locals) <=> (i <= Cardinality(Locals))
      /\ \A n \in DOMAIN symtab : \E i \in 1..Len(names) : names[i] = n
  BY <1>2, HalvesFacts
<1>4. DOMAIN names = 1..Len(names) /\ \A i \in 1..Len(names) : names[i] \in DOMAIN symtab
  BY <1>3, LenProperties
<1>5. /\ o.syms = [i \in DOMAIN names |-> SymEntry(names[i])]
      /\ o.first_global = 1 + Cardinality(Locals)
      /\ o.rela = [i \in 1..Nrela |-> Rela(names, i, Nrela)]
  BY DEF ElfFile
<1>6. Chain(o.parts, 0, o.total)
  BY <1>3, FileChain
<1> HIDE DEF o
<1>7. \A n \in DOMAIN symtab : SymEntry(n).name = n /\ SymEntry(n).binding = symtab[n].binding
  BY DEF SymEntry
<1>8. ASSUME NEW i \in DOMAIN o.syms PROVE (o.syms[i].binding = 0) = (i < o.first_global)
  <2> DEFINE n == names[i]
  <2>1. i \in 1..Len(names) /\ o.syms[i] = SymEntry(n)
    BY <1>4, <1>5
  <2>2. n \in DOMAIN symtab
    BY <1>4, <2>1
  <2> HIDE DEF n
  <2>3. o.syms[i].binding = symtab[n].binding
    BY <2>1, <2>2, <1>7
  <2>4. (symtab[n].binding = 0) <=> (n \in Locals)
    BY <2>2 DEF Locals
  <2>5. (n \in Locals) <=> (i <= Cardinality(Locals))
    BY <2>1, <1>3 DEF n
  <2>6. (i <= Cardinality(Locals)) <=> (i < o.first_global)
    BY <2>1, <1>3, <1>5
  <2>7. QED
    BY <2>3, <2>4, <2>5, <2>6
<1>9. DOMAIN o.parts = 1..Len(o.parts)
  BY <1>6, LenProperties DEF Chain
<1>10. /\ \A i, j \in DOMAIN o.parts : i < j => o.parts[i].off + o.parts[i].size <= o.parts[j].off
       /\ \A i \in DOMAIN o.parts : o.parts[i].off + o.parts[i].size <= o.total
  BY <1>6, <1>9 DEF Chain
<1>11. ASSUME NEW i \in DOMAIN o.rela, NEW j \in DOMAIN o.rela[i]
       PROVE  LET r == o.rela[i][j]
                  called == r.addend = -4 /\ sections[r.home].data[r.offset] \in {232, 233}
              IN /\ called => r.sym # 0
                 /\ r.sym # 0 => o.syms[r.sym].name = r.label
  <2> DEFINE R == Rela(names, i, Nrela)
             r == R[j]
  <2>1. o.rela[i] = R /\ j \in DOMAIN R
    BY <1>5
  <2>2. PICK q \in RelocRec :
          /\ RelocOK(q, sections, DOMAIN symtab)
          /\ r.offset = q.offset /\ r.addend = q.addend
          /\ r.home = q.home /\ r.label = q.symbol
          /\ r.sym = SymIndex(names, q.symbol)
    BY <1>3, <2>1, RelaEntries
  <2> HIDE DEF R, r
  <2>3. ASSUME r.addend = -4, sections[r.home].data[r.offset] \in {232, 233} PROVE r.sym # 0
    <3>1. q.symbol \in DOMAIN symtab
      BY <2>2, <2>3 DEF RelocOK
    <3>2. QED
      BY <1>3, <2>2, <3>1, SymIndexFacts
  <2>4. ASSUME r.sym # 0 PROVE o.syms[r.sym].name = r.label
    <3>1. r.sym \in 1..Len(names) /\ names[r.sym] = r.label
      BY <1>3, <2>2, <2>4, SymIndexFacts
    <3>2. o.syms[r.sym] = SymEntry(names[r.sym]) /\ names[r.sym] \in DOMAIN symtab
      BY <1>4, <1>5, <3>1
    <3>3. QED
      BY <1>7, <3>1, <3>2
  <2>5. o.rela[i][j] = r
    BY <2>1 DEF r
  <2>6. QED
    BY <2>3, <2>4, <2>5
<1>12. FileOK(o)
  BY <1>8, <1>10, <1>11 DEF FileOK
<1>13. QED
  BY <1>12 DEF o, names

----------------------------------------------------------------------------
(* The whole run.  What the template pass and the parser consume:           *)
TextOK ==
  /\ phase \in {"text", "template", "parse", "write", "done", "failed"}
  /\ opts \in Options /\ pieces \in 0..MaxPieces /\ gensym \in 0..Len(GensymNames)
  /\ todo \in Seq(Seq(Piece)) /\ Len(todo) <= MaxDepth
  /\ buf \in Seq(Text)

\* An object is written at the end, from the unit as it then is.
WrittenOK == object.written => phase = "done" /\ FileOK(object)

AsmInv == TextOK /\ UnitOK /\ WrittenOK

LEMMA InitInv == Init => AsmInv
<1> SUFFICES ASSUME Init PROVE AsmInv
  OBVIOUS
<1>1. MaxPieces \in Nat /\ MaxDepth \in Nat /\ Len(GensymNames) \in Nat
  BY CcwasAssumption, LenProperties
<1>2. TextOK
  <2>1. opts \in Options /\ phase \in {"text", "template"}
    BY DEF Init
  <2>2. todo = <<>> /\ pieces = 0 /\ buf = <<>> /\ gensym = 0
    BY DEF Init
  <2>3. todo \in Seq(Seq(Piece)) /\ Len(todo) = 0 /\ buf \in Seq(Text)
    BY <2>2, EmptySeq
  <2>4. QED
    BY <1>1, <2>1, <2>2, <2>3 DEF TextOK
<1>3. /\ sections = <<Section(".text", "progbits", {"alloc", "exec"}),
                      Section(".data", "progbits", {"alloc", "write"}),
                      Section(".bss", "nobits", {"alloc", "write"})>>
      /\ symtab = NoSyms /\ relocs = <<>> /\ cur = 1
      /\ in_macro = FALSE /\ errors = 0 /\ warnings = 0
  BY DEF Init, ccw_unit_init
<1>4. sections \in Seq(SectionRec) /\ Len(sections) = 3 /\ cur \in DOMAIN sections
  <2> DEFINE a == Section(".text", "progbits", {"alloc", "exec"})
             b == Section(".data", "progbits", {"alloc", "write"})
             c == Section(".bss", "nobits", {"alloc", "write"})
  <2>1. <<>> \in Seq(Byte)
    BY EmptySeq
  <2>2. a \in SectionRec /\ b \in SectionRec /\ c \in SectionRec
    BY <2>1 DEF SectionRec, Section
  <2>3. sections = <<a, b, c>> /\ cur = 1
    BY <1>3
  <2> HIDE DEF a, b, c
  <2>4. QED
    BY <2>2, <2>3
<1>5. TabOK(symtab, sections)
  <2>1. DOMAIN symtab = {} /\ symtab \in [{} -> SymbolRec]
    BY <1>3 DEF NoSyms
  <2>2. IsFiniteSet({})
    BY FS_EmptySet
  <2>3. QED
    BY <2>1, <2>2 DEF TabOK
<1>6. RelocsOK(relocs, sections, DOMAIN symtab)
  <2>1. relocs \in Seq(RelocRec) /\ Len(relocs) = 0
    BY <1>3, EmptySeq
  <2>2. QED
    BY <2>1 DEF RelocsOK
<1>7. UnitOK
  BY <1>3, <1>4, <1>5, <1>6 DEF UnitOK
<1>8. WrittenOK
  BY DEF Init, NoObject, WrittenOK
<1>9. QED
  BY <1>2, <1>7, <1>8 DEF AsmInv

\* A step writes the object, or leaves it alone before the end.
LEMMA ObjectStep ==
  ASSUME Next
  PROVE  write_elf64 \/ (phase # "done" /\ object' = object)
<1>1. CASE CopySource \/ TextRead
  BY <1>1 DEF CopySource, TextRead
<1>2. CASE Template \/ IncludedPiece
  BY <1>2 DEF Template, EmitLine, EmitHelper, l_zstring, l_gensym, l_include, l_error,
              IncludedPiece, Templating, Fails
<1>3. CASE IncludeMissing \/ IncludeTooDeep \/ ccw_lccwas_seal \/ EmptySource
  BY <1>3 DEF IncludeMissing, IncludeTooDeep, ccw_lccwas_seal, EmptySource, Fails
<1>4. CASE DefineLabel \/ SelectSection \/ Global \/ Align \/ Data \/ Ascii \/ Space \/ Equ
           \/ ErrorDirective \/ Macro \/ Ignored \/ SkipInsn \/ Insn
  BY <1>4 DEF DefineLabel, SelectSection, Global, Align, Data, Ascii, Space, Equ,
              ErrorDirective, Macro, Ignored, SkipInsn, Insn, Parses
<1>5. CASE Continued \/ Redefined \/ BadAlign \/ AliasRefused \/ InsnRefused \/ ParseDone
  BY <1>5 DEF Continued, Redefined, BadAlign, AliasRefused, InsnRefused, ParseDone, Refused, Fails
<1>6. CASE NamesOverflow \/ WriteRefused
  BY <1>6 DEF NamesOverflow, WriteRefused, Fails
<1>7. QED
  BY <1>1, <1>2, <1>3, <1>4, <1>5, <1>6 DEF Next

LEMMA WrittenStep ==
  ASSUME AsmInv, Next
  PROVE  WrittenOK'
<1>1. CASE write_elf64
  <2>1. UnitOK
    BY DEF AsmInv
  <2>2. PICK ord \in SetToSeqs(DOMAIN symtab) : object' = ElfFile(SymOrder(ord))
    BY <1>1 DEF write_elf64
  <2>3. phase' = "done" /\ sections' = sections
    BY <1>1 DEF write_elf64, unit
  <2>4. FileOK(ElfFile(SymOrder(ord)))
    BY <2>1, FileSound
  <2>5. FileOK(object')
    BY <2>2, <2>4
  <2>6. FileOK(object)'
    BY <2>3, <2>5 DEF FileOK
  <2>7. QED
    BY <2>3, <2>6 DEF WrittenOK
<1>2. CASE phase # "done" /\ object' = object
  BY <1>2 DEF AsmInv, WrittenOK
<1>3. QED
  BY <1>1, <1>2, ObjectStep

\* The unit changes by a line of text, or not at all.
LEMMA UnitStep ==
  ASSUME AsmInv, Next
  PROVE  UnitOK'
<1>1. UnitOK /\ buf \in Seq(Text)
  BY DEF AsmInv, TextOK
<1>2. ASSUME UNCHANGED unit PROVE UnitOK'
  BY <1>1, <1>2 DEF UnitOK, unit, TabOK, RelocsOK
<1>3. CASE CopySource \/ TextRead \/ IncludedPiece
  BY <1>2, <1>3 DEF CopySource, TextRead, IncludedPiece, Templating
<1>4. CASE Template \/ IncludeMissing \/ IncludeTooDeep \/ ccw_lccwas_seal \/ EmptySource
  BY <1>2, <1>4 DEF Template, EmitLine, EmitHelper, l_zstring, l_gensym, l_include, l_error, Templating,
                    IncludeMissing, IncludeTooDeep, ccw_lccwas_seal, EmptySource, Fails
<1>5. CASE DefineLabel \/ Global \/ Equ
  BY <1>1, <1>5, SymbolLines
<1>6. CASE SelectSection \/ Align \/ Ascii \/ Space
  BY <1>1, <1>6, SectionLines
<1>7. CASE Data
  BY <1>1, <1>7, DataLine
<1>8. CASE Insn
  BY <1>1, <1>8, InsnLine
<1>9. CASE ErrorDirective \/ Macro
  <2>1. UNCHANGED <<sections, symtab, relocs, cur>>
    BY <1>9 DEF ErrorDirective, Macro
  <2>2. in_macro' \in BOOLEAN /\ errors' \in Nat /\ warnings' \in Nat
    <3>1. in_macro \in BOOLEAN /\ errors \in Nat /\ warnings \in Nat
      BY <1>1 DEF UnitOK
    <3>2. CASE ErrorDirective
      BY <3>1, <3>2 DEF ErrorDirective
    <3>3. CASE Macro
      BY <3>1, <3>3 DEF Macro
    <3>4. QED
      BY <1>9, <3>2, <3>3
  <2>3. QED
    BY <1>1, <2>1, <2>2 DEF UnitOK, TabOK, RelocsOK
<1>10. CASE Continued \/ Ignored \/ SkipInsn \/ ParseDone \/ write_elf64
  BY <1>2, <1>10 DEF Continued, Ignored, SkipInsn, ParseDone, write_elf64
<1>11. CASE Redefined \/ BadAlign \/ AliasRefused \/ InsnRefused \/ NamesOverflow \/ WriteRefused
  BY <1>2, <1>11 DEF Redefined, BadAlign, AliasRefused, InsnRefused, NamesOverflow, WriteRefused,
                     Refused, Fails
<1>12. QED
  BY <1>3, <1>4, <1>5, <1>6, <1>7, <1>8, <1>9, <1>10, <1>11 DEF Next

\* A line of the source, or of a template, is text.
LEMMA TextPieces ==
  /\ buf \in Seq(Text) => \A l \in Text : Append(buf, l) \in Seq(Text)
  /\ \A p \in Piece : p \in Text \/ (p.k = "include" /\ p.file \in DOMAIN Files)
  /\ \A p \in Text : p.k # "include"
<1>1. \A p \in Piece : p \in Text \/ (p.k = "include" /\ p.file \in DOMAIN Files)
  BY DEF Piece
<1>2. \A p \in Text : p.k # "include"
  BY LineFacts
<1>3. ASSUME NEW l \in Text, buf \in Seq(Text) PROVE Append(buf, l) \in Seq(Text)
  BY <1>3, AppendProperties
<1>4. QED
  BY <1>1, <1>2, <1>3

\* What the calls of a template add.
LEMMA TemplateStep ==
  ASSUME TextOK, CopySource \/ EmitLine \/ EmitHelper \/ l_zstring \/ l_gensym \/ l_include
  PROVE  TextOK'
<1>1. /\ opts \in Options /\ pieces \in 0..MaxPieces /\ gensym \in 0..Len(GensymNames)
      /\ todo \in Seq(Seq(Piece)) /\ Len(todo) <= MaxDepth /\ buf \in Seq(Text)
      /\ MaxPieces \in Nat /\ MaxDepth \in Nat \ {0} /\ Lines \subseteq Text
      /\ GensymNames \in Seq(STRING) /\ Len(GensymNames) \in Nat
      /\ \A f \in DOMAIN Files : Files[f] \in Seq(Piece)
  BY CcwasAssumption, LenProperties DEF TextOK
<1>2. phase' \in {"text", "template"} /\ opts' = opts
  BY DEF CopySource, EmitLine, EmitHelper, l_zstring, l_gensym, l_include, Templating
<1>3. ASSUME MorePieces PROVE pieces' \in 0..MaxPieces
  BY <1>1, <1>3 DEF MorePieces
<1>4. CASE CopySource \/ EmitLine \/ EmitHelper
  <2>1. PICK l \in Lines : buf' = Append(buf, l)
    BY <1>4 DEF CopySource, EmitLine, EmitHelper, Append1
  <2>2. buf' \in Seq(Text)
    BY <2>1, <1>1, TextPieces
  <2>3. MorePieces /\ todo' = todo /\ gensym' = gensym
    BY <1>4 DEF CopySource, EmitLine, EmitHelper
  <2>4. QED
    BY <1>1, <1>2, <1>3, <2>2, <2>3 DEF TextOK
<1>5. CASE l_zstring
  <2> DEFINE byte(v) == [k |-> "data", width |-> 1, cont |-> FALSE,
                         vals |-> <<Word("number", "digit", v)>>]
  <2>1. ASSUME NEW v \in Int PROVE byte(v) \in Text
    <3> DEFINE w == Word("number", "digit", v)
    <3>1. w \in Token
      BY <2>1, NumberName DEF Word, Token
    <3> HIDE DEF w
    <3>2. <<w>> \in Seq(Token)
      BY <3>1
    <3> DEFINE vals == <<w>>
    <3> HIDE DEF vals
    <3>3. [k |-> "data", width |-> 1, cont |-> FALSE, vals |-> vals]
            \in [k : {"data"}, width : {1, 2, 4, 8}, vals : Seq(Token), cont : BOOLEAN]
      BY <3>2 DEF vals
    <3>4. QED
      BY <3>3 DEF Text, vals, w
  <2>2. buf' = buf \o <<byte(7), byte(0)>> /\ MorePieces /\ todo' = todo /\ gensym' = gensym
    BY <1>5 DEF l_zstring
  <2> DEFINE x == byte(7)
             y == byte(0)
  <2>3. x \in Text /\ y \in Text /\ buf' = buf \o <<x, y>>
    BY <2>1, <2>2
  <2> HIDE DEF x, y
  <2>4. <<x, y>> \in Seq(Text)
    BY <2>3
  <2>5. buf' \in Seq(Text)
    BY <2>3, <2>4, <1>1, ConcatProperties
  <2>6. QED
    BY <1>1, <1>2, <1>3, <2>2, <2>5 DEF TextOK
<1>6. CASE l_gensym
  <2> DEFINE l == [k |-> "label", name |-> GensymNames[gensym + 1], cont |-> FALSE]
  <2>1. /\ buf' = Append(buf, l) /\ gensym' = gensym + 1 /\ gensym < Len(GensymNames)
        /\ todo' = todo /\ pieces' = pieces
    BY <1>6 DEF l_gensym, Append1
  <2>2. gensym + 1 \in 1..Len(GensymNames)
    BY <2>1, <1>1
  <2>3. GensymNames[gensym + 1] \in STRING
    BY <2>2, <1>1, LenProperties
  <2>4. l \in Text
    BY <2>3 DEF Text
  <2> HIDE DEF l
  <2>5. buf' \in Seq(Text)
    BY <2>1, <2>4, <1>1, TextPieces
  <2>6. QED
    BY <1>1, <1>2, <2>1, <2>2, <2>5 DEF TextOK
<1>7. CASE l_include
  <2>1. PICK f \in DOMAIN Files : todo' = <<Files[f]>>
    BY <1>7 DEF l_include
  <2>2. MorePieces /\ buf' = buf /\ gensym' = gensym
    BY <1>7 DEF l_include
  <2> DEFINE p == Files[f]
  <2>3. p \in Seq(Piece) /\ todo' = <<p>>
    BY <1>1, <2>1
  <2> HIDE DEF p
  <2>4. todo' \in Seq(Seq(Piece)) /\ Len(todo') = 1
    BY <2>3
  <2>5. Len(todo') <= MaxDepth
    BY <2>4, <1>1
  <2>6. QED
    BY <1>1, <1>2, <1>3, <2>2, <2>4, <2>5 DEF TextOK
<1>8. QED
  BY <1>4, <1>5, <1>6, <1>7

\* The expansion of the included files.
LEMMA IncludeStep ==
  ASSUME TextOK, IncludedPiece
  PROVE  TextOK'
<1> DEFINE n == Len(todo)
           top == todo[n]
           outer == SubSeq(todo, 1, n - 1)
           rest == Tail(top)
<1>1. /\ opts \in Options /\ pieces \in 0..MaxPieces /\ gensym \in 0..Len(GensymNames)
      /\ todo \in Seq(Seq(Piece)) /\ n \in Nat /\ n <= MaxDepth /\ buf \in Seq(Text)
      /\ MaxDepth \in Nat /\ \A f \in DOMAIN Files : Files[f] \in Seq(Piece)
  BY CcwasAssumption, LenProperties DEF TextOK
<1>2. /\ phase = "template" /\ phase' = phase /\ opts' = opts
      /\ pieces' = pieces /\ gensym' = gensym /\ todo # <<>>
  BY DEF IncludedPiece, Templating
<1>3. \/ todo' = outer /\ buf' = buf
      \/ /\ top # <<>> /\ Head(top).k = "include" /\ n < MaxDepth
         /\ todo' = outer \o <<rest, Files[Head(top).file]>> /\ buf' = buf
      \/ /\ top # <<>> /\ Head(top).k # "include"
         /\ todo' = Append(outer, rest) /\ buf' = Append(buf, Head(top))
  BY DEF IncludedPiece, Append1
<1>4. n # 0 /\ top \in Seq(Piece)
  <2>1. n # 0
    BY <1>1, <1>2, EmptySeq
  <2>2. n \in 1..n
    BY <1>1, <2>1
  <2>3. QED
    BY <1>1, <2>1, <2>2, LenProperties
<1>5. outer \in Seq(Seq(Piece)) /\ Len(outer) = n - 1
  <2> DEFINE T == Seq(Piece)
             m == n - 1
  <2>1. m \in Nat /\ m < n /\ todo \in Seq(T) /\ (1 <= m => m - 1 + 1 = m) /\ (~(1 <= m) => m = 0)
    <3>1. n \in Nat /\ n # 0 /\ todo \in Seq(T)
      BY <1>1, <1>4
    <3> HIDE DEF n, T
    <3>2. QED
      BY <3>1
  <2>2. \A i \in 1..m : todo[i] \in T
    <3>1. \A i \in 1..m : i \in 1..n
      BY <1>1, <2>1
    <3>2. QED
      BY <2>1, <3>1, LenProperties
  <2> HIDE DEF T, m, n
  <2>3. SubSeq(todo, 1, m) \in Seq(T) /\ Len(SubSeq(todo, 1, m)) = IF 1 <= m THEN m - 1 + 1 ELSE 0
    BY <2>1, <2>2, SubSeqProperties
  <2>4. QED
    BY <2>1, <2>3 DEF T, m
<1>6. top # <<>> => Head(top) \in Piece /\ rest \in Seq(Piece)
  BY <1>4, HeadTailProperties
<1> HIDE DEF n, top, outer, rest
<1>7. todo' \in Seq(Seq(Piece)) /\ Len(todo') <= MaxDepth /\ buf' \in Seq(Text)
  <2>1. CASE todo' = outer /\ buf' = buf
    BY <1>1, <1>4, <1>5, <2>1
  <2>2. CASE /\ top # <<>> /\ Head(top).k = "include" /\ n < MaxDepth
             /\ todo' = outer \o <<rest, Files[Head(top).file]>> /\ buf' = buf
    <3> DEFINE f == Files[Head(top).file]
    <3>1. f \in Seq(Piece)
      BY <1>1, <1>6, <2>2, TextPieces
    <3> HIDE DEF f
    <3>2. <<rest, f>> \in Seq(Seq(Piece)) /\ Len(<<rest, f>>) = 2
      BY <3>1, <1>6, <2>2
    <3>3. todo' = outer \o <<rest, f>>
      BY <2>2 DEF f
    <3>4. todo' \in Seq(Seq(Piece)) /\ Len(todo') = n + 1
      <4>1. Len(outer \o <<rest, f>>) = Len(outer) + 2
        BY <1>5, <3>2, ConcatProperties
      <4>2. QED
        BY <1>1, <1>5, <3>2, <3>3, <4>1, ConcatProperties
    <3>5. QED
      BY <1>1, <2>2, <3>4
  <2>3. CASE /\ top # <<>> /\ Head(top).k # "include"
             /\ todo' = Append(outer, rest) /\ buf' = Append(buf, Head(top))
    <3>1. Head(top) \in Text
      BY <1>6, <2>3, TextPieces
    <3>2. buf' \in Seq(Text)
      BY <1>1, <2>3, <3>1, TextPieces
    <3>3. todo' \in Seq(Seq(Piece)) /\ Len(todo') = Len(outer) + 1
      BY <1>5, <1>6, <2>3, AppendProperties
    <3>4. QED
      BY <1>1, <1>4, <1>5, <3>2, <3>3
  <2>4. QED
    BY <1>3, <2>1, <2>2, <2>3
<1>8. QED
  BY <1>1, <1>2, <1>7 DEF TextOK

LEMMA TextStep ==
  ASSUME AsmInv, Next
  PROVE  TextOK'
<1>1. TextOK
  BY DEF AsmInv
<1>2. ASSUME phase' \in {"parse", "write", "done", "failed"}, UNCHANGED <<opts, template>>,
             buf' \in Seq(Text)
      PROVE  TextOK'
  BY <1>1, <1>2 DEF TextOK, template
<1>3. buf \in Seq(Text)
  BY <1>1 DEF TextOK
<1>4. buf # <<>> => Tail(buf) \in Seq(Text)
  BY <1>3, HeadTailProperties
<1>5. CASE CopySource \/ EmitLine \/ EmitHelper \/ l_zstring \/ l_gensym \/ l_include
  BY <1>1, <1>5, TemplateStep
<1>6. CASE IncludedPiece
  BY <1>1, <1>6, IncludeStep
<1>7. CASE IncludeMissing \/ IncludeTooDeep \/ l_error \/ ccw_lccwas_seal \/ EmptySource \/ TextRead
  <2>1. phase' \in {"parse", "failed"} /\ UNCHANGED <<opts, template, buf>>
    BY <1>7 DEF IncludeMissing, IncludeTooDeep, l_error, ccw_lccwas_seal, EmptySource, TextRead, Fails
  <2>2. QED
    BY <1>2, <1>3, <2>1
<1>8. CASE DefineLabel \/ SelectSection \/ Global \/ Align \/ Data \/ Ascii \/ Space \/ Equ
           \/ ErrorDirective \/ Macro \/ Ignored \/ SkipInsn \/ Insn \/ Continued
  <2>1. /\ phase = "parse" /\ UNCHANGED <<phase, opts, template>>
        /\ buf # <<>> /\ buf' = Tail(buf)
    <3>1. CASE Continued
      <4>1. buf # <<>>
        <5>1. Len(<<>>) = 0
          OBVIOUS
        <5>2. QED
          BY <3>1, <5>1 DEF Continued
      <4>2. QED
        BY <3>1, <4>1 DEF Continued
    <3>2. CASE ~Continued
      BY <1>8, <3>2 DEF DefineLabel, SelectSection, Global, Align, Data, Ascii, Space, Equ,
                        ErrorDirective, Macro, Ignored, SkipInsn, Insn, Parses
    <3>3. QED
      BY <3>1, <3>2
  <2>2. QED
    BY <1>2, <1>4, <2>1
<1>9. CASE Redefined \/ BadAlign \/ AliasRefused \/ InsnRefused
  <2>1. phase' = "failed" /\ UNCHANGED <<opts, template, buf>>
    BY <1>9 DEF Redefined, BadAlign, AliasRefused, InsnRefused, Refused, Fails
  <2>2. QED
    BY <1>2, <1>3, <2>1
<1>10. CASE ParseDone \/ write_elf64 \/ NamesOverflow \/ WriteRefused
  <2>1. phase' \in {"write", "done", "failed"} /\ UNCHANGED <<opts, template, buf>>
    BY <1>10 DEF ParseDone, write_elf64, NamesOverflow, WriteRefused, Fails
  <2>2. QED
    BY <1>2, <1>3, <2>1
<1>11. QED
  BY <1>5, <1>6, <1>7, <1>8, <1>9, <1>10 DEF Next, Template

----------------------------------------------------------------------------
(* The object file says what the source said: types, labels inside their    *)
(* sections, the locals first, parts that do not overlap, zeros under every *)
(* branch, and the target of every call or jmp in the symbol table          *)
(* (ccw_parse_asm, write_elf64).                                            *)
LEMMA InvStep == AsmInv /\ [Next]_vars => AsmInv'
<1> SUFFICES ASSUME AsmInv, [Next]_vars PROVE AsmInv'
  OBVIOUS
<1>1. CASE Next
  BY <1>1, TextStep, UnitStep, WrittenStep DEF AsmInv
<1>2. CASE UNCHANGED vars
  BY <1>2 DEF vars, template, unit, AsmInv, TextOK, UnitOK, TabOK, RelocsOK, WrittenOK, FileOK
<1>3. QED
  BY <1>1, <1>2

LEMMA InvSound == AsmInv => ObjectSound
<1> SUFFICES ASSUME AsmInv PROVE ObjectSound
  OBVIOUS
<1>1. TextOK /\ UnitOK /\ WrittenOK
  BY DEF AsmInv
<1>2. /\ sections \in Seq(SectionRec) /\ cur \in DOMAIN sections
      /\ TabOK(symtab, sections) /\ RelocsOK(relocs, sections, DOMAIN symtab)
      /\ in_macro \in BOOLEAN /\ errors \in Nat /\ warnings \in Nat
  BY <1>1 DEF UnitOK
<1>3. relocs \in Seq(RelocRec) /\ \A i \in 1..Len(relocs) : RelocOK(relocs[i], sections, DOMAIN symtab)
  BY <1>2 DEF RelocsOK
<1>4. DOMAIN relocs = 1..Len(relocs) /\ \A i \in 1..Len(relocs) : relocs[i] \in RelocRec
  BY <1>3, LenProperties
<1>5. \A i \in DOMAIN sections : sections[i] \in SectionRec
  BY <1>2, LenProperties
<1>6. CcwasTypeOK
  <2>1. ASSUME NEW i \in DOMAIN sections, NEW j \in DOMAIN sections[i].data
        PROVE  sections[i].data[j] \in Byte
    <3> DEFINE d == sections[i].data
    <3>1. d \in Seq(Byte) /\ DOMAIN d = 1..Len(d)
      BY <1>5, SectionTypes
    <3> HIDE DEF d
    <3>2. j \in DOMAIN d
      BY DEF d
    <3>3. d[j] \in Byte
      BY <3>1, <3>2, LenProperties
    <3>4. QED
      BY <3>3 DEF d
  <2>2. \A n \in DOMAIN symtab : symtab[n].section \in 0..Len(sections)
    BY <1>2 DEF TabOK
  <2>3. ASSUME NEW i \in DOMAIN relocs PROVE relocs[i].offset \in Nat /\ relocs[i].home \in DOMAIN sections
    <3>1. relocs[i] \in RelocRec /\ RelocOK(relocs[i], sections, DOMAIN symtab)
      BY <1>3, <1>4
    <3>2. QED
      BY <3>1 DEF RelocRec, RelocOK
  <2>4. object.written => phase = "done"
    BY <1>1 DEF WrittenOK
  <2>5. QED
    BY <1>1, <1>2, <2>1, <2>2, <2>3, <2>4 DEF CcwasTypeOK, TextOK
<1>7. LabelsInside
  BY <1>2 DEF TabOK, LabelsInside
<1>8. LocalsFirst /\ PartsDisjoint /\ CallVisible
  BY <1>1 DEF WrittenOK, FileOK, LocalsFirst, PartsDisjoint, CallVisible
<1>9. BranchPatch
  BY <1>3, <1>4 DEF BranchPatch, RelocOK
<1>10. QED
  BY <1>6, <1>7, <1>8, <1>9 DEF ObjectSound

THEOREM ObjectsAreSound == Spec => []ObjectSound
<1>1. Spec => []AsmInv
  <2>1. AsmInv /\ [Next]_vars => AsmInv'
    BY InvStep
  <2>2. QED
    BY InitInv, <2>1, PTL DEF Spec
<1>2. AsmInv => ObjectSound
  BY InvSound
<1>3. QED
  BY <1>1, <1>2, PTL

----------------------------------------------------------------------------
(* What a step does to a symbol that is in the table.                       *)
KeepsDefinition(n) ==
  symtab[n].defined =>
    /\ symtab'[n].defined
    /\ symtab'[n].value = symtab[n].value
    /\ symtab'[n].section = symtab[n].section

KeepsBinding(n) ==
  symtab[n].binding = 1 => symtab'[n].binding = 1 \/ (Line.k = "equ" /\ Line.name = n)

LEMMA SymbolStep ==
  ASSUME AsmInv, [Next]_vars, NEW n \in DOMAIN symtab
  PROVE  KeepsDefinition(n) /\ KeepsBinding(n)
<1>1. symtab[n] \in SymbolRec
  BY DEF AsmInv, UnitOK, TabOK
<1>2. ASSUME symtab' = symtab PROVE KeepsDefinition(n) /\ KeepsBinding(n)
  BY <1>2 DEF KeepsDefinition, KeepsBinding
<1>3. ASSUME NEW m, NEW sym, symtab' = ccw_symtab_define(symtab, m, sym), n # m
      PROVE  KeepsDefinition(n) /\ KeepsBinding(n)
  BY <1>3 DEF KeepsDefinition, KeepsBinding, ccw_symtab_define
<1>4. ASSUME NEW sym, symtab' = ccw_symtab_define(symtab, n, sym) PROVE symtab'[n] = sym
  BY <1>4 DEF ccw_symtab_define
<1>5. CASE DefineLabel
  <2> DEFINE b == IF Line.name \in DOMAIN symtab THEN symtab[Line.name].binding ELSE 0
             sym == Symbol(Here, cur, b, TRUE)
  <2>1. symtab' = ccw_symtab_define(symtab, Line.name, sym) /\ ~Defined(Line.name)
    BY <1>5 DEF DefineLabel
  <2>2. sym.binding = b
    BY DEF Symbol
  <2>3. n = Line.name => b = symtab[n].binding /\ ~symtab[n].defined
    BY <2>1 DEF Defined
  <2> HIDE DEF sym, b
  <2>4. CASE n = Line.name
    <3>1. symtab'[n] = sym
      BY <1>4, <2>1, <2>4
    <3>2. QED
      BY <2>2, <2>3, <2>4, <3>1 DEF KeepsDefinition, KeepsBinding
  <2>5. QED
    BY <1>3, <2>1, <2>4
<1>6. CASE Global
  <2>1. CASE Line.name \in DOMAIN symtab
    <3>1. symtab' = [symtab EXCEPT ![Line.name].binding = 1]
      BY <1>6, <2>1 DEF Global
    <3>2. CASE n = Line.name
      <4>1. symtab'[n] = [symtab[n] EXCEPT !.binding = 1]
        BY <3>1, <3>2
      <4>2. QED
        BY <4>1, <1>1 DEF SymbolRec, KeepsDefinition, KeepsBinding
    <3>3. CASE n # Line.name
      BY <3>1, <3>3 DEF KeepsDefinition, KeepsBinding
    <3>4. QED
      BY <3>2, <3>3
  <2>2. CASE Line.name \notin DOMAIN symtab
    <3>1. symtab' = ccw_symtab_define(symtab, Line.name, Symbol(0, 0, 1, FALSE))
      BY <1>6, <2>2 DEF Global
    <3>2. n # Line.name
      BY <2>2
    <3>3. QED
      BY <1>3, <3>1, <3>2
  <2>3. QED
    BY <2>1, <2>2
<1>7. CASE Equ
  <2>1. /\ symtab' = ccw_symtab_define(symtab, Line.name, Symbol(Line.value, 0, 0, TRUE))
        /\ ~Defined(Line.name) /\ Line.k = "equ"
    BY <1>7 DEF Equ, Parses
  <2>2. CASE n = Line.name
    <3>1. ~symtab[n].defined
      BY <2>1, <2>2 DEF Defined
    <3>2. QED
      BY <2>1, <2>2, <3>1 DEF KeepsDefinition, KeepsBinding
  <2>3. QED
    BY <1>3, <2>1, <2>2
<1>8. CASE Insn
  <2>1. \/ symtab' = symtab
        \/ /\ symtab' = ccw_symtab_define(symtab, LineLabel, Symbol(0, 0, 1, FALSE))
           /\ LineLabel \notin DOMAIN symtab
    BY <1>8 DEF Insn
  <2>2. QED
    BY <1>2, <1>3, <2>1
<1>9. CASE CopySource \/ TextRead \/ IncludedPiece \/ Template \/ IncludeMissing \/ IncludeTooDeep
           \/ ccw_lccwas_seal \/ EmptySource
  BY <1>2, <1>9 DEF CopySource, TextRead, IncludedPiece, Templating, Template, EmitLine, EmitHelper,
                    l_zstring, l_gensym, l_include, l_error, IncludeMissing, IncludeTooDeep,
                    ccw_lccwas_seal, EmptySource, Fails, unit
<1>10. CASE SelectSection \/ Align \/ Data \/ Ascii \/ Space \/ ErrorDirective \/ Macro
            \/ Ignored \/ SkipInsn \/ Continued
  BY <1>2, <1>10 DEF SelectSection, Align, Data, Ascii, Space, ErrorDirective, Macro,
                     Ignored, SkipInsn, Continued, unit
<1>11. CASE Redefined \/ BadAlign \/ AliasRefused \/ InsnRefused \/ ParseDone \/ write_elf64
            \/ NamesOverflow \/ WriteRefused
  BY <1>2, <1>11 DEF Redefined, BadAlign, AliasRefused, InsnRefused, ParseDone, write_elf64,
                     NamesOverflow, WriteRefused, Refused, Fails, unit
<1>12. CASE UNCHANGED vars
  BY <1>2, <1>12 DEF vars, unit
<1>13. QED
  BY <1>5, <1>6, <1>7, <1>8, <1>9, <1>10, <1>11, <1>12 DEF Next

(* Once defined, by a label or by .equ, a symbol keeps its value and its    *)
(* section, and once global it is local again only by an .equ of its name   *)
(* (ccw_parse_asm, ccw_symtab_define).                                      *)
THEOREM SymbolsAreKept == Spec => SymbolsKept
<1>1. Spec => []AsmInv
  <2>1. AsmInv /\ [Next]_vars => AsmInv'
    BY InvStep
  <2>2. QED
    BY InitInv, <2>1, PTL DEF Spec
<1>2. AsmInv /\ [Next]_vars =>
        [\A n \in DOMAIN symtab :
           symtab[n].defined =>
             /\ symtab'[n].defined
             /\ symtab'[n].value = symtab[n].value
             /\ symtab'[n].section = symtab[n].section]_vars
  BY SymbolStep DEF KeepsDefinition
<1>3. AsmInv /\ [Next]_vars =>
        [\A n \in DOMAIN symtab :
           symtab[n].binding = 1 =>
             symtab'[n].binding = 1 \/ (Line.k = "equ" /\ Line.name = n)]_vars
  BY SymbolStep DEF KeepsBinding
<1>4. Spec => DefinedOnce
  BY <1>1, <1>2, PTL DEF Spec, DefinedOnce
<1>5. Spec => GlobalKept
  BY <1>1, <1>3, PTL DEF Spec, GlobalKept
<1>6. QED
  BY <1>4, <1>5 DEF SymbolsKept

=============================================================================
