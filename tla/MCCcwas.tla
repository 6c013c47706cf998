------------------------------ MODULE MCCcwas ------------------------------
(* Small instances of Ccwas and of its pure parts.                         *)
EXTENDS AsmCheck

MCX86Reg == DOMAIN RegNo \cup {"rip"}

W(name) == Word(name, "alpha", 0)

N(v) == Word("number", "digit", v)

Op(name) == <<W(name)>>

L(k) == [k |-> k, cont |-> FALSE]

Named(k, n) == [k |-> k, name |-> n, cont |-> FALSE]

InsnLine(m, ops) == [k |-> "insn", m |-> m, ops |-> ops, cont |-> FALSE]

DataLine(width, vals) == [k |-> "data", width |-> width, vals |-> vals, cont |-> FALSE]

MCLines ==
  {Named("label", "f"), Named("label", "g"), Named("global", "f"), Named("section", ".data"),
   Named("section", ".x"),
   [k |-> "equ", name |-> "f", value |-> 5, cont |-> FALSE],
   [k |-> "align", n |-> 8, cont |-> FALSE], [k |-> "align", n |-> 3, cont |-> FALSE],
   DataLine(8, <<N(300), W("g")>>), [k |-> "ascii", bytes |-> <<65>>, nul |-> TRUE, cont |-> FALSE],
   [k |-> "space", n |-> 3, cont |-> FALSE], L("error"), L("warning"), L("macro"), L("endm"),
   L("ignored"), L("alias"),
   InsnLine("call", <<Op("f")>>), InsnLine("je", <<Op("g")>>),
   InsnLine("push", <<Op("r9")>>), InsnLine("frob", <<>>),
   [InsnLine("jmp", <<Op("g")>>) EXCEPT !.cont = TRUE]}

Opt(arch, t) ==
  [arch |-> arch, format |-> "elf", template |-> t, werror |-> t,
   ts |-> t]

MCOptions == {Opt("x86-64", FALSE), Opt("aarch64", TRUE)}

(* A template that includes itself and one that does not.                   *)
MCFiles ==
  [loop |-> <<[k |-> "include", file |-> "loop"]>>,
   once |-> <<Named("label", "f"), Named("global", "f")>>]

MCGensymNames == <<"L0">>

----------------------------------------------------------------------------
R3 == {"rax", "rsp", "r12", "rbp", "r9"}

Mems == {MemOp(b, i, d) : b \in R3 \cup {"", "sym"}, i \in {"", "rcx", "rsp", "r12", "sym"},
                          d \in {0, 8, -300}}

MCInsns ==
  LET Two == {"mov", "add", "cmp", "test", "imul", "movsx", "cmove", "shl", "lea"}
      I == {-200, -1, 1, 5}
  IN {[m |-> m, ops |-> <<>>] : m \in {"nop", "ret", "int3", "syscall", "mov"}}
     \cup {[m |-> m, ops |-> <<LabelOp("f")>>] : m \in {"call", "jmp", "push"} \cup DOMAIN Jcc}
     \cup {[m |-> m, ops |-> <<RegOp(r)>>] :
             m \in {"push", "pop", "inc", "dec"} \cup (DOMAIN NotNeg) \cup (DOMAIN Setcc), r \in R3}
     \cup {[m |-> m, ops |-> <<RegOp(r), RegOp(s)>>] : m \in Two, r \in R3, s \in R3 \cup {"cl"}}
     \cup {[m |-> m, ops |-> <<RegOp(r), ImmOp(v)>>] : m \in Two, r \in R3, v \in I}
     \cup {[m |-> m, ops |-> <<RegOp(r), x>>] : m \in Two, r \in {"rax", "r9"}, x \in Mems}
     \cup {[m |-> m, ops |-> <<x, RegOp(r)>>] : m \in Two, r \in {"rax", "r9"}, x \in Mems}
     \cup {[m |-> "imul", ops |-> <<RegOp(r), RegOp(s), ImmOp(v)>>] : r \in R3, s \in R3, v \in I}

MCNames == {"rax", "rbx", "sym"}

Terms == {W(n) : n \in MCNames} \cup {N(1), N(4)}

Signs == {Punct("+"), Punct("-")}

(* Texts whose terms cannot cancel, with a number behind every "*".         *)
MCMemTexts ==
  {in \in {<<a>> : a \in Terms}
         \cup (Signs \X Terms)
         \cup (Terms \X (Signs \cup {Punct("*")}) \X Terms)
         \cup (Terms \X Signs \X Terms \X (Signs \cup {Punct("*")}) \X Terms) :
     /\ \A i, j \in DOMAIN in : in[i].t = "word" /\ in[i] = in[j] => i = j
     /\ \A i \in DOMAIN in : in[i].t = "*" => in[i - 1].c = "alpha" /\ in[i + 1].c = "digit"}

MCExprTexts ==
  LET T(t) == [t |-> t]
      Toks == {[t |-> "int", v |-> 2], [t |-> "sym", n |-> "a"], T("."), T("-"), T("*"), T("%"),
               T("<<"), T("|"), T("("), T(")"), T("~")}
  IN UNION {[1 .. n -> Toks] : n \in 0 .. 4}

=============================================================================
