------------------------------ MODULE AsmCheck ------------------------------
(***************************************************************************)
(* What the pure parts of ccwas must compute, over bounded inputs: a       *)
(* reference decoder of the x86-64 machine code the encoder emits, the     *)
(* forms it is known to get wrong, and the properties that compare them.   *)
(***************************************************************************)
EXTENDS Ccwas, AsmExpr

CONSTANTS Insns,    \* instructions [m, ops] to encode
          MemTexts, \* insides of bracket operands
          Names,    \* the names in them
          ExprTexts \* token sequences to parse as expressions

(* The comparisons do not depend on the state and are made where parsing    *)
(* starts on a text of no piece of the source.                              *)
AtStart == phase = "parse" /\ pieces = 0

----------------------------------------------------------------------------
(* The decoder, after the instruction set manual.  An operand is a          *)
(* register <<"r", n>>, a number <<"i", v>> or a memory operand             *)
(* <<"m", base, index, disp>> with -1 for no register.                      *)
HasRex(b) == b # <<>> /\ b[1] \in 64 .. 79

RexBit(b, i) == IF HasRex(b) THEN (b[1] \div 2 ^ i) % 2 ELSE 0

Opcode(b) == IF HasRex(b) THEN Tail(b) ELSE b

(* A little-endian number of at most 4 bytes, sign-extended.                *)
Signed(s) ==
  LET low == FoldLeft(LAMBDA v, i : v + s[i] * 256 ^ (i - 1), 0,
                      [i \in 1 .. (IF Len(s) > 3 THEN 3 ELSE Len(s)) |-> i])
  IN IF s = <<>> THEN 0
     ELSE IF s[Len(s)] < 128 THEN low
     ELSE low - 256 ^ (IF Len(s) > 3 THEN 3 ELSE Len(s))

Reg(m) == (m \div 8) % 8

(* The r/m operand that starts at the ModRM byte s[1], and what follows it. *)
RmOperand(b, s) ==
  LET mod == s[1] \div 64
      rm == s[1] % 8
      sib == mod # 3 /\ rm = 4
      cut == sib /\ Len(s) < 2
      sb == IF sib /\ ~cut THEN s[2] ELSE 0
      base == IF sib THEN sb % 8 ELSE rm
      index == ((sb \div 8) % 8) + 8 * RexBit(b, 1)
      at == IF sib THEN 3 ELSE 2
      abs == mod = 0 /\ base = 5
      len == CASE mod = 1 -> 1 [] mod = 2 \/ abs -> 4 [] OTHER -> 0
      disp == SubSeq(s, at, Min({at + len - 1, Len(s)}))
  IN IF mod = 3 THEN [op |-> <<"r", rm + 8 * RexBit(b, 0)>>, rest |-> Tail(s)]
     ELSE [op |-> IF cut \/ Len(disp) < len \/ (abs /\ ~sib) THEN <<"rip or short">>
                  ELSE <<"m", IF abs THEN -1 ELSE base + 8 * RexBit(b, 0),
                         IF sib /\ index # 4 THEN index ELSE -1, Signed(disp)>>,
           rest |-> SubSeq(s, at + len, Len(s))]

KeyOf(f, v) == CHOOSE k \in DOMAIN f : f[k] = v

Ran(f) == {f[k] : k \in DOMAIN f}

Wrong == <<"?">>

(* The instruction, or Wrong when bytes are left over or none fits.         *)
Decoded(b) ==
  LET s == Opcode(b)
      o == s[1]
      two == o = 15
      p == IF two THEN s[2] ELSE o
      t == SubSeq(s, IF two THEN 3 ELSE 2, Len(s))
      rm == RmOperand(b, t)
      reg == <<"r", Reg(t[1]) + 8 * RexBit(b, 2)>>
      opreg == <<"r", (o % 8) + 8 * RexBit(b, 0)>>
      digit == Reg(t[1])
      imm == <<"i", Signed(rm.rest)>>
  IN CASE b = <<>> -> Wrong
       [] b = <<144>> -> <<"nop">>
       [] b = <<195>> -> <<"ret">>
       [] b = <<204>> -> <<"int3">>
       [] b = <<15, 5>> -> <<"syscall">>
       [] ~two /\ o \in {232, 233} /\ Len(t) = 4 ->
            <<IF o = 232 THEN "call" ELSE "jmp", <<"i", Signed(t)>>>>
       [] two /\ p \in Ran(Jcc) /\ Len(t) = 4 -> <<KeyOf(Jcc, p), <<"i", Signed(t)>>>>
       [] ~two /\ o \in 80 .. 87 /\ t = <<>> -> <<"push", opreg>>
       [] ~two /\ o \in 88 .. 95 /\ t = <<>> -> <<"pop", opreg>>
       [] ~two /\ o \in 184 .. 191 /\ Len(t) = 8 -> <<"mov", opreg, <<"i", Signed(t)>>>>
       [] ~two /\ o \in {137, 133} \cup Ran(AluRR) /\ rm.rest = <<>> ->
            <<CASE o = 137 -> "mov" [] o = 133 -> "test" [] OTHER -> KeyOf(AluRR, o),
              rm.op, reg>>
       [] ~two /\ o \in {139, 141} /\ rm.rest = <<>> ->
            <<IF o = 139 THEN "mov" ELSE "lea", reg, rm.op>>
       [] ~two /\ o \in {131, 129} /\ Len(rm.rest) = (IF o = 131 THEN 1 ELSE 4) ->
            <<<<"add", "or", "adc", "sbb", "and", "sub", "xor", "cmp">>[digit + 1],
              rm.op, imm>>
       [] ~two /\ o \in {209, 211, 193} /\ digit \in Ran(ShiftDigit)
          /\ Len(rm.rest) = (IF o = 193 THEN 1 ELSE 0) ->
            <<KeyOf(ShiftDigit, digit), rm.op,
              CASE o = 209 -> <<"i", 1>> [] o = 211 -> <<"r", 1>> [] OTHER -> imm>>
       [] ~two /\ o = 255 /\ digit \in {0, 1} /\ rm.rest = <<>> ->
            <<IF digit = 0 THEN "inc" ELSE "dec", rm.op>>
       [] ~two /\ o = 247 /\ digit \in Ran(NotNeg) /\ rm.rest = <<>> ->
            <<KeyOf(NotNeg, digit), rm.op>>
       [] ~two /\ o = 107 /\ Len(rm.rest) = 1 -> <<"imul", reg, rm.op, imm>>
       [] two /\ p \in {175, 183, 191, 68, 69} /\ rm.rest = <<>> ->
            <<CASE p = 175 -> "imul" [] p = 183 -> "movzx" [] p = 191 -> "movsx"
                [] p = 68 -> "cmove" [] OTHER -> "cmovne", reg, rm.op>>
       [] two /\ p \in Ran(Setcc) /\ rm.rest = <<>> -> <<KeyOf(Setcc, p), rm.op>>
       [] OTHER -> Wrong

(* What the statement says, in the same terms.  A name that is no register  *)
(* stays a name.                                                            *)
RegOrName(r) == IF r = "" THEN -1 ELSE IF lookup_reg(r) THEN RegNo[r] ELSE -2

SaidOp(op) ==
  CASE op.kind = "reg" -> <<"r", RegNo[op.reg]>>
    [] op.kind = "imm" -> <<"i", op.imm>>
    [] op.kind = "label" -> <<"i", 0>>
    [] OTHER -> <<"m", RegOrName(op.base), RegOrName(op.index), op.disp>>

Said(insn) == <<insn.m>> \o [i \in DOMAIN insn.ops |-> SaidOp(insn.ops[i])]

(* The memory operands the encoder does not encode as they are written.     *)
MiscodedMem(mem, store) ==
  \/ RegOrName(mem.base) = -2 \/ RegOrName(mem.index) = -2
  \/ mem.index # "" /\ (store \/ mem.base = "" \/ RegNo[mem.index] = 4)
  \/ lookup_reg(mem.base) /\ mem.index = "" /\ RegNo[mem.base] = 12
  \/ lookup_reg(mem.base) /\ RegNo[mem.base] % 8 = 5 /\ mem.disp = 0

Miscoded(insn) ==
  \/ \E i \in DOMAIN insn.ops : insn.ops[i].kind = "mem" /\ MiscodedMem(insn.ops[i], i = 1)
  \/ insn.m \in {"add", "sub", "cmp", "imul"}
     /\ \E i \in DOMAIN insn.ops : insn.ops[i].kind = "mem"
  \/ insn.m = "test" /\ Len(insn.ops) = 2 /\ insn.ops[2].kind = "imm"
  \/ insn.m = "imul" /\ Len(insn.ops) = 3 /\ insn.ops[3].imm \notin -128 .. 127
  \/ insn.m \in DOMAIN ShiftDigit /\ insn.ops[2].kind = "imm"
     /\ insn.ops[2].imm \notin -128 .. 127

InsnsDecode ==
  \A insn \in Insns :
    LET b == ccw_encode_insn(insn.m, insn.ops).b
    IN b # <<>> => (Decoded(b) = Said(insn)) = ~Miscoded(insn)

(* Every instruction the encoder accepts decodes to the operation and the   *)
(* operands of the statement, except exactly the forms of Miscoded, which   *)
(* decode to something else (ccw_encode_x86.c; registers are compared by    *)
(* number: every operand size is encoded as the 64-bit one).                *)
EncodeDecodes == AtStart => InsnsDecode

----------------------------------------------------------------------------
(* The texts whose terms the hand-written reader keeps: a name, with at     *)
(* most one signed number or added name behind it, or a signed number       *)
(* alone.                                                                   *)
Kept(in) ==
  \/ Len(in) = 1 /\ in[1].c = "alpha"
  \/ Len(in) = 2 /\ in[1].t \in {"+", "-"} /\ in[2].c = "digit"
  \/ Len(in) = 2 /\ in[1].t = "+" /\ in[2].c = "alpha"
  \/ Len(in) = 3 /\ in[1].c = "alpha" /\ in[2].t \in {"+", "-"} /\ in[3].c = "digit"
  \/ Len(in) = 3 /\ in[1].c = "alpha" /\ in[2].t = "+" /\ in[3].c = "alpha"
  \/ Len(in) \in {3, 5} /\ in[Len(in) - 1].t = "*" /\ in[Len(in)].n = 1
     /\ in[Len(in) - 2].c = "alpha" /\ in[1].c = "alpha"
     /\ (Len(in) = 5 => in[2].t = "+")

Bracket(in) == <<Punct("[")>> \o in \o <<Punct("]")>>

SumsKept ==
  \A in \in MemTexts :
    (ReadMem(ccw_parse_mem(Bracket(in)), Names) = SaidMem(in, Names)) = Kept(in)

(* ccw_parse_mem reads a bracket operand as the sum it is written as        *)
(* exactly when it has one of the shapes of Kept (ccw_parse.c): terms after *)
(* the second and every scale but 1 are lost.                               *)
MemSum == AtStart => SumsKept

TsReads ==
  \A in \in MemTexts :
    LET ts == read_mem("x86-64", Bracket(in))
    IN Kept(in) /\ in[1].t = "word" /\ ts.kind # "none"
       /\ (\A i \in DOMAIN in : in[i].t # "*")
       => ts = ccw_parse_mem(Bracket(in))

(* Where the Tree-sitter reader does not decline an operand that starts     *)
(* with a name, it gives what the hand-written one gives for the shapes of  *)
(* Kept without a scale (ccw_parse_ts.c: "match it exactly").               *)
ReadersAgree == AtStart => TsReads

TreesMeant == \A toks \in ExprTexts : ccw_expr_parse(toks) = Meant(toks)

(* The parser builds for every token sequence the tree its grammar gives    *)
(* it, and refuses every other sequence (ccw_symtab.c, expr_bitor down to   *)
(* expr_primary).                                                           *)
ExprTree == AtStart => TreesMeant

(* Operands and expressions mean what their text says, and both readers of  *)
(* operands agree.                                                          *)
TextMeans == MemSum /\ ReadersAgree /\ ExprTree

=============================================================================
