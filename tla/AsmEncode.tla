----------------------------- MODULE AsmEncode -----------------------------
(***************************************************************************)
(* The x86-64 encoder of ccwas (toolchain/ccwas/encode/ccw_encode_x86.c):  *)
(* an instruction is a mnemonic and parsed operands, its encoding          *)
(* [b |-> the bytes, rel |-> the offset in them of a rel32 placeholder or  *)
(* 0, decl |-> whether an unknown target is declared].  No bytes is the    *)
(* error return.                                                           *)
(***************************************************************************)
EXTENDS AsmOperand

(* The names of each register number, from 0, in all widths.  The four high *)
(* bytes have the numbers of rsp to rdi.                                     *)
RegNames ==
  <<{"rax", "eax", "ax", "al"}, {"rcx", "ecx", "cx", "cl"}, {"rdx", "edx", "dx", "dl"},
    {"rbx", "ebx", "bx", "bl"}, {"rsp", "esp", "sp", "spl", "ah"}, {"rbp", "ebp", "bp", "bpl", "ch"},
    {"rsi", "esi", "si", "sil", "dh"}, {"rdi", "edi", "di", "dil", "bh"},
    {"r8", "r8d", "r8w", "r8b"}, {"r9", "r9d", "r9w", "r9b"}, {"r10", "r10d", "r10w", "r10b"},
    {"r11", "r11d", "r11w", "r11b"}, {"r12", "r12d", "r12w", "r12b"}, {"r13", "r13d", "r13w", "r13b"},
    {"r14", "r14d", "r14w", "r14b"}, {"r15", "r15d", "r15w", "r15b"}>>

RegNo == [r \in UNION ToSet(RegNames) |-> (CHOOSE i \in DOMAIN RegNames : r \in RegNames[i]) - 1]

(* Names of x86_regs of the parser that the encoder does not have: rip and  *)
(* the xmm registers.                                                       *)
lookup_reg(r) == r \in DOMAIN RegNo

(* REX.B, REX.R and REX.X of a register.                                    *)
reg_requires_rex(r) == IF RegNo[r] >= 8 THEN 1 ELSE 0

emit_rex(w, r, x, b) == 64 + 8 * w + 4 * r + 2 * x + b

emit_modrm(mod, reg, rm) == (mod % 4) * 64 + (reg % 8) * 8 + (rm % 8)

emit_sib(scale, index, base) == (scale % 4) * 64 + (index % 8) * 8 + (base % 8)

(* The i-th byte (from 0) of a value below 2^23 in absolute value.          *)
ByteAt(v, i) ==
  IF i < 3 THEN (v \div <<1, 256, 65536>>[i + 1]) % 256 ELSE IF v < 0 THEN 255 ELSE 0

emit_imm(v, n) == [i \in 1 .. n |-> ByteAt(v, i - 1)]

Enc(bytes) == [b |-> bytes, rel |-> 0, decl |-> FALSE]

NoEnc == Enc(<<>>)

(* mov, the ALU operations and test on two registers: REX.W op /r.          *)
encode_alu_rr(op, d, s) ==
  Enc(<<emit_rex(1, reg_requires_rex(s), 0, reg_requires_rex(d)), op,
        emit_modrm(3, RegNo[s], RegNo[d])>>)

encode_mov_rr(d, s) == encode_alu_rr(137, d, s)

encode_test_rr(d, s) == encode_alu_rr(133, d, s)

encode_pushpop_r(r, is_push) ==
  Enc((IF RegNo[r] >= 8 THEN <<65>> ELSE <<>>)
      \o <<(IF is_push THEN 80 ELSE 88) + (RegNo[r] % 8)>>)

encode_simple(m) ==
  CASE m = "nop" -> Enc(<<144>>)
    [] m = "ret" -> Enc(<<195>>)
    [] m = "int3" -> Enc(<<204>>)
    [] m = "syscall" -> Enc(<<15, 5>>)
    [] OTHER -> NoEnc

encode_branch(op) == [b |-> <<op, 0, 0, 0, 0>>, rel |-> 1, decl |-> TRUE]

(* Unlike encode_branch it does not declare the target.                     *)
encode_jcc(op) == [b |-> <<15, op, 0, 0, 0, 0>>, rel |-> 2, decl |-> FALSE]

encode_mov_ri(d, v) ==
  Enc(<<emit_rex(1, 0, 0, reg_requires_rex(d)), 184 + (RegNo[d] % 8)>> \o emit_imm(v, 8))

encode_alu_ri(digit, d, v) ==
  LET short == v \in -128 .. 127
  IN Enc(<<emit_rex(1, 0, 0, reg_requires_rex(d)), IF short THEN 131 ELSE 129,
           emit_modrm(3, digit, RegNo[d])>>
         \o emit_imm(v, IF short THEN 1 ELSE 4))

(* The count register must have the number of cl: ecx and rcx pass too.     *)
encode_shift_rr(digit, d, s) ==
  IF RegNo[s] # 1 THEN NoEnc
  ELSE Enc(<<emit_rex(1, 0, 0, reg_requires_rex(d)), 211, emit_modrm(3, digit, RegNo[d])>>)

encode_shift_ri(digit, d, v) ==
  LET head == <<emit_rex(1, 0, 0, reg_requires_rex(d)), IF v = 1 THEN 209 ELSE 193,
                emit_modrm(3, digit, RegNo[d])>>
  IN Enc(IF v = 1 THEN head ELSE head \o emit_imm(v, 1))

encode_incdec_r(r, is_inc) ==
  Enc(<<emit_rex(1, 0, 0, reg_requires_rex(r)), 255,
        emit_modrm(3, IF is_inc THEN 0 ELSE 1, RegNo[r])>>)

encode_notneg_r(r, digit) ==
  Enc(<<emit_rex(1, 0, 0, reg_requires_rex(r)), 247, emit_modrm(3, digit, RegNo[r])>>)

(* The displacement of a memory operand: mod, and its bytes.                *)
DispMod(d) == IF d = 0 THEN 0 ELSE IF d \in -128 .. 127 THEN 1 ELSE 2

DispBytes(d) == emit_imm(d, CASE DispMod(d) = 0 -> 0 [] DispMod(d) = 1 -> 1 [] OTHER -> 4)

AbsMem(r, op, d) ==
  <<emit_rex(1, reg_requires_rex(r), 0, 0), op, emit_modrm(0, RegNo[r], 4), emit_sib(0, 4, 5)>>
  \o emit_imm(d, 4)

(* Only the number 4 gets its SIB byte: r12, which needs one too, has 12.   *)
BaseMem(r, op, base, d) ==
  <<emit_rex(1, reg_requires_rex(r), 0, reg_requires_rex(base)), op>>
  \o (IF RegNo[base] = 4 THEN <<emit_modrm(DispMod(d), RegNo[r], 4), emit_sib(0, 4, 4)>>
      ELSE <<emit_modrm(DispMod(d), RegNo[r], RegNo[base])>>)
  \o DispBytes(d)

\* Mutant: the extension bit of the index register is left out.
ShortIndexMem(r, op, base, index, d) ==
  LET known == lookup_reg(base)
  IN <<emit_rex(1, reg_requires_rex(r), 0, IF known THEN reg_requires_rex(base) ELSE 0), op,
       emit_modrm(DispMod(d), RegNo[r], 4),
       emit_sib(0, RegNo[index], IF known THEN RegNo[base] ELSE 5)>>
     \o DispBytes(d)

IndexMem(r, op, base, index, d) ==
  LET known == lookup_reg(base)
  IN <<emit_rex(1, reg_requires_rex(r), reg_requires_rex(index),
                IF known THEN reg_requires_rex(base) ELSE 0), op,
       emit_modrm(DispMod(d), RegNo[r], 4),
       emit_sib(0, RegNo[index], IF known THEN RegNo[base] ELSE 5)>>
     \o DispBytes(d)

(* lea and mov from memory.  A base or index that is no register of the     *)
(* table counts as absent.                                                  *)
encode_lea_rm(op, r, mem) ==
  Enc(CASE lookup_reg(mem.index) -> IndexMem(r, op, mem.base, mem.index, mem.disp)
        [] ~lookup_reg(mem.index) /\ lookup_reg(mem.base) -> BaseMem(r, op, mem.base, mem.disp)
        [] OTHER -> AbsMem(r, op, mem.disp))

encode_mov_rm(r, mem) == encode_lea_rm(139, r, mem)

(* The index of the operand is not encoded.                                 *)
encode_mov_mr(mem, s) ==
  Enc(IF lookup_reg(mem.base) THEN BaseMem(s, 137, mem.base, mem.disp)
      ELSE AbsMem(s, 137, mem.disp))

(* REX.W 0F op /r with the destination in reg: imul, movsx, movzx, cmovcc.  *)
encode_imul_rr(op, d, s) ==
  Enc(<<emit_rex(1, reg_requires_rex(d), 0, reg_requires_rex(s)), 15, op,
        emit_modrm(3, RegNo[d], RegNo[s])>>)

encode_movext(is_sx, d, s) == encode_imul_rr(IF is_sx THEN 191 ELSE 183, d, s)

encode_cmovcc(op, d, s) == encode_imul_rr(op, d, s)

encode_imul_rri(d, s, v) ==
  Enc(<<emit_rex(1, reg_requires_rex(d), 0, reg_requires_rex(s)), 107,
        emit_modrm(3, RegNo[d], RegNo[s])>> \o emit_imm(v, 1))

encode_setcc(op, d) ==
  LET hi == reg_requires_rex(d)
  IN Enc((IF hi = 1 THEN <<emit_rex(0, hi, 0, hi)>> ELSE <<>>)
         \o <<15, op, emit_modrm(3, 0, RegNo[d])>>)

----------------------------------------------------------------------------
(* The tables of the dispatcher: opcode, or the digit of the ModRM byte.    *)
Setcc == [sete |-> 148, setne |-> 149, setg |-> 159, setge |-> 157, setl |-> 156, setle |-> 158]

Jcc == [je |-> 132, jne |-> 133, jg |-> 143, jge |-> 141, jl |-> 140, jle |-> 142,
        ja |-> 135, jae |-> 131, jb |-> 130, jbe |-> 134]

AluRR == [add |-> 1, sub |-> 41, and |-> 33, or |-> 9, xor |-> 49, cmp |-> 57]

AluRI == [add |-> 0, sub |-> 5, and |-> 4, or |-> 1, xor |-> 6, cmp |-> 7, test |-> 0]

ShiftDigit == [shl |-> 4, shr |-> 5, sar |-> 7]

NotNeg == [not |-> 2, neg |-> 3, idiv |-> 7, div |-> 6]

OneReg(m, r) ==
  CASE ~lookup_reg(r) -> NoEnc
    [] m \in {"push", "pop"} /\ lookup_reg(r) -> encode_pushpop_r(r, m = "push")
    [] m \in {"inc", "dec"} /\ lookup_reg(r) -> encode_incdec_r(r, m = "inc")
    [] m \in DOMAIN NotNeg /\ lookup_reg(r) -> encode_notneg_r(r, NotNeg[m])
    [] m \in DOMAIN Setcc /\ lookup_reg(r) -> encode_setcc(Setcc[m], r)
    [] OTHER -> NoEnc

OneLabel(m) ==
  CASE m = "call" -> encode_branch(232)
    [] m = "jmp" -> encode_branch(233)
    [] m \in DOMAIN Jcc -> encode_jcc(Jcc[m])
    [] OTHER -> NoEnc

RegReg(m, d, s) ==
  IF ~lookup_reg(d) \/ ~lookup_reg(s) THEN NoEnc
  ELSE CASE m = "mov" -> encode_mov_rr(d, s)
         [] m \in DOMAIN AluRR -> encode_alu_rr(AluRR[m], d, s)
         [] m = "test" -> encode_test_rr(d, s)
         [] m = "imul" -> encode_imul_rr(175, d, s)
         [] m \in {"movsx", "movzx"} -> encode_movext(m = "movsx", d, s)
         [] m \in {"cmove", "cmovne"} -> encode_cmovcc(IF m = "cmove" THEN 68 ELSE 69, d, s)
         [] m \in DOMAIN ShiftDigit -> encode_shift_rr(ShiftDigit[m], d, s)
         [] OTHER -> NoEnc

RegImm(m, d, v) ==
  IF ~lookup_reg(d) THEN NoEnc
  ELSE CASE m = "mov" -> encode_mov_ri(d, v)
         [] m \in DOMAIN AluRI -> encode_alu_ri(AluRI[m], d, v)
         [] m \in DOMAIN ShiftDigit -> encode_shift_ri(ShiftDigit[m], d, v)
         [] OTHER -> NoEnc

(* The arithmetic with a memory operand is a stub: it is encoded as a mov.  *)
RegMem(m, d, mem) ==
  IF ~lookup_reg(d) THEN NoEnc
  ELSE CASE m = "lea" -> encode_lea_rm(141, d, mem)
         [] m \in {"mov", "add", "sub", "cmp", "imul"} -> encode_mov_rm(d, mem)
         [] OTHER -> NoEnc

MemReg(m, mem, s) ==
  IF lookup_reg(s) /\ m \in {"mov", "add", "sub", "cmp"} THEN encode_mov_mr(mem, s)
  ELSE NoEnc

(* The mnemonics of x86_64_isa.  Only the mnemonic is validated, not the    *)
(* form; other targets accept every one.                                    *)
x86_64_isa == (DOMAIN Setcc) \cup (DOMAIN Jcc) \cup (DOMAIN AluRI) \cup (DOMAIN ShiftDigit)
              \cup (DOMAIN NotNeg)
              \cup {"mov", "imul", "inc", "dec", "push", "pop", "nop", "ret", "int3", "syscall",
                    "call", "jmp", "lea", "movsx", "movzx", "cmove", "cmovne"}

ccw_isa_validate(arch, m) == arch # "x86-64" \/ m \in x86_64_isa

(* The target is not asked: there is one encoder.                           *)
ccw_encode_insn(m, ops) ==
  LET sig == [i \in DOMAIN ops |-> ops[i].kind]
  IN CASE sig = <<>> -> encode_simple(m)
       [] sig = <<"reg">> -> OneReg(m, ops[1].reg)
       [] sig = <<"label">> -> OneLabel(m)
       [] sig = <<"reg", "reg">> -> RegReg(m, ops[1].reg, ops[2].reg)
       [] sig = <<"reg", "imm">> -> RegImm(m, ops[1].reg, ops[2].imm)
       [] sig = <<"reg", "mem">> -> RegMem(m, ops[1].reg, ops[2])
       [] sig = <<"mem", "reg">> -> MemReg(m, ops[1], ops[2].reg)
       [] sig = <<"reg", "reg", "imm">> ->
            IF m = "imul" /\ lookup_reg(ops[1].reg) /\ lookup_reg(ops[2].reg)
            THEN encode_imul_rri(ops[1].reg, ops[2].reg, ops[3].imm) ELSE NoEnc
       [] OTHER -> NoEnc

=============================================================================
