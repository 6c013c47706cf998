------------------------------- MODULE Ccwas -------------------------------
(***************************************************************************)
(* One run of the assembler: the driver and its phases                     *)
(* (toolchain/ccwas/driver/main.c, and ccwas.c with the same steps), the   *)
(* template pass (lccwas), the parse pass with encoding (parse/ccw_parse.c *)
(* on the unit of sema/ccw_symtab.c) and the ELF writer (obj/).            *)
(*                                                                         *)
(* A line of text is a record [k, ...] for the statement it holds; cont is *)
(* its trailing backslash.  A section is named by its header index: 1 is   *)
(* .text, 2 .data, 3 .bss, and 0 is "no section" (-1 in the code).         *)
(***************************************************************************)
EXTENDS AsmEncode, Selection

CONSTANTS
  Lines,        \* the lines of text a source or a template can produce
  Options,      \* [arch, format, template, werror, ts, files] of an invocation
  Files,        \* template files: name -> sequence of pieces
  MaxPieces,    \* bound: pieces of the source file
  MaxDepth,     \* nested includes the Lua state allows (its limit on C calls)
  GensymNames,  \* the labels ccwas.gensym returns, one for each count (bound: its length)
  NameLen,      \* the length of every symbol and section name
  MaxShNames    \* the size of shstr_names (32)

Byte == 0 .. 255

(* The lines, by the kind of their statement.  An include is a piece of a   *)
(* template, and never a line.                                              *)
Text ==
  [k : {"label", "global", "section"}, name : STRING, cont : BOOLEAN]
  \cup [k : {"equ"}, name : STRING, value : Int, cont : BOOLEAN]
  \cup [k : {"align", "space"}, n : Int, cont : BOOLEAN]
  \cup [k : {"data"}, width : {1, 2, 4, 8}, vals : Seq(Token), cont : BOOLEAN]
  \cup [k : {"ascii"}, bytes : Seq(Byte), nul : BOOLEAN, cont : BOOLEAN]
  \cup [k : {"insn"}, m : STRING, ops : Seq(Seq(Token)), cont : BOOLEAN]
  \cup [k : {"error", "warning", "macro", "endm", "ignored", "blank", "alias"}, cont : BOOLEAN]

Piece == Text \cup [k : {"include"}, file : DOMAIN Files]

ASSUME CcwasAssumption ==
  /\ MaxPieces \in Nat /\ MaxDepth \in Nat \ {0}
  /\ NameLen \in Nat /\ MaxShNames \in Nat
  /\ Lines \subseteq Text /\ GensymNames \in Seq(STRING)
  /\ \A f \in DOMAIN Files : Files[f] \in Seq(Piece)

VARIABLES
  phase,     \* "template", "parse", "write", "done" or "failed"
  opts,      \* the options of this run
  todo,      \* stack of what the template pass has still to expand
  pieces,    \* how many pieces of the source have been taken
  buf,       \* the emission buffer, then the lines still to parse
  gensym,    \* the counter of ccwas.gensym
  sections, symtab, relocs, cur, in_macro, errors, warnings,
  object     \* the object file, NoObject if none was written

unit == <<sections, symtab, relocs, cur, in_macro, errors, warnings>>

template == <<todo, pieces, gensym>>

vars == <<phase, opts, template, buf, unit, object>>

NoObject == [written |-> FALSE]

Section(name, type, flags) ==
  [name |-> name, type |-> type, flags |-> flags, align |-> 16, data |-> <<>>]

Symbol(v, s, b, d) == [value |-> v, section |-> s, binding |-> b, defined |-> d]

NoSyms == [n \in {} |-> Symbol(0, 0, 0, FALSE)]

ccw_unit_init ==
  /\ sections = <<Section(".text", "progbits", {"alloc", "exec"}),
                  Section(".data", "progbits", {"alloc", "write"}),
                  Section(".bss", "nobits", {"alloc", "write"})>>
  /\ symtab = NoSyms
  /\ relocs = <<>> /\ cur = 1 /\ in_macro = FALSE /\ errors = 0 /\ warnings = 0

Init ==
  /\ opts \in Options
  /\ phase = IF opts.template THEN "template" ELSE "text"
  /\ todo = <<>> /\ pieces = 0 /\ buf = <<>> /\ gensym = 0
  /\ ccw_unit_init
  /\ object = NoObject

Fails == phase' = "failed" /\ UNCHANGED <<opts, template, buf, unit, object>>

----------------------------------------------------------------------------
(* The template pass.  Text outside the tags is copied; a chunk is a        *)
(* sequence of calls of the ccwas module, taken one by one.  The emitting   *)
(* functions write whole lines.                                             *)
Append1(l) == buf' = Append(buf, l)

Templating == phase = "template" /\ UNCHANGED <<phase, opts, unit, object>>

MorePieces == pieces < MaxPieces /\ pieces' = pieces + 1

(* A tag-free source without --template is the buffer as it is.             *)
CopySource ==
  /\ phase = "text" /\ MorePieces
  /\ \E l \in Lines : Append1(l)
  /\ UNCHANGED <<phase, opts, todo, gensym, unit, object>>

(* Text, emit, emitln and emitf.                                            *)
EmitLine ==
  /\ Templating /\ todo = <<>> /\ MorePieces
  /\ \E l \in Lines : Append1(l)
  /\ UNCHANGED <<todo, gensym>>

(* The bound on the exponent is TLC's: in the code n has 64 bits.           *)
PowerOfTwo(n) == n > 0 /\ \E i \in 0 .. 30 : n = 2 ^ i

(* db, dw, dd, dq, label, section, global, equ and align: one line of one   *)
(* kind each.  The data helpers take integers only, align a power of two.   *)
EmitHelper ==
  /\ Templating /\ todo = <<>> /\ MorePieces
  /\ \E l \in Lines : /\ l.k \in {"data", "label", "section", "global", "equ", "align"}
                      /\ l.k = "align" => PowerOfTwo(l.n)
                      /\ l.k = "data" => \A i \in DOMAIN l.vals : l.vals[i].c = "digit"
                      /\ Append1(l)
  /\ UNCHANGED <<todo, gensym>>

(* bytes and zstring: a .byte line, and for zstring a second one.           *)
l_zstring ==
  /\ Templating /\ todo = <<>> /\ MorePieces
  /\ LET byte(v) == [k |-> "data", width |-> 1, cont |-> FALSE,
                     vals |-> <<Word("number", "digit", v)>>]
     IN buf' = buf \o <<byte(7), byte(0)>>
  /\ UNCHANGED <<todo, gensym>>

(* gensym, and the label it returns written with label.                     *)
l_gensym ==
  /\ Templating /\ todo = <<>> /\ gensym < Len(GensymNames)
  /\ gensym' = gensym + 1
  /\ Append1([k |-> "label", name |-> GensymNames[gensym + 1], cont |-> FALSE])
  /\ UNCHANGED <<todo, pieces>>

(* An included file is expanded in place, into the same buffer; a missing   *)
(* one raises.  No cycle is detected: one ends when Lua refuses to nest.    *)
l_include ==
  /\ Templating /\ todo = <<>> /\ MorePieces
  /\ \E f \in DOMAIN Files : todo' = <<Files[f]>>
  /\ UNCHANGED <<buf, gensym>>

IncludeMissing == phase = "template" /\ todo = <<>> /\ Fails

\* Mutant: the piece that was expanded goes to the end of its file.
RotatingIncludedPiece ==
  /\ Templating /\ todo # <<>>
  /\ LET top == todo[Len(todo)]
         outer == SubSeq(todo, 1, Len(todo) - 1)
     IN todo' = IF top = <<>> THEN outer ELSE Append(outer, Append(Tail(top), Head(top)))
  /\ UNCHANGED <<buf, pieces, gensym>>

(* The next piece of the innermost file; at its end the outer one goes on.  *)
IncludedPiece ==
  /\ Templating /\ todo # <<>>
  /\ LET top == todo[Len(todo)]
         outer == SubSeq(todo, 1, Len(todo) - 1)
     IN IF top = <<>> THEN todo' = outer /\ UNCHANGED buf
        ELSE IF Head(top).k = "include"
        THEN /\ Len(todo) < MaxDepth
             /\ todo' = outer \o <<Tail(top), Files[Head(top).file]>>
             /\ UNCHANGED buf
        ELSE todo' = Append(outer, Tail(top)) /\ Append1(Head(top))
  /\ UNCHANGED <<pieces, gensym>>

IncludeTooDeep ==
  /\ phase = "template" /\ Len(todo) = MaxDepth
  /\ todo[Len(todo)] # <<>> /\ Head(todo[Len(todo)]).k = "include"
  /\ Fails

(* ccwas.error, a Lua error, an unterminated tag.                           *)
l_error == phase = "template" /\ Fails

(* The end of the source: the buffer is taken and sealed.  A buffer to      *)
(* which nothing was ever written is NULL, and the run fails.               *)
ccw_lccwas_seal ==
  /\ phase = "template" /\ todo = <<>> /\ buf # <<>>
  /\ phase' = "parse"
  /\ UNCHANGED <<opts, template, buf, unit, object>>

EmptySource == phase \in {"template", "text"} /\ todo = <<>> /\ buf = <<>> /\ Fails

TextRead ==
  /\ phase = "text" /\ buf # <<>>
  /\ phase' = "parse"
  /\ UNCHANGED <<opts, template, buf, unit, object>>

----------------------------------------------------------------------------
(* The unit.                                                                *)
ccw_symtab_define(tab, n, sym) ==
  [m \in (DOMAIN tab) \cup {n} |-> IF m = n THEN sym ELSE tab[m]]

ccw_unit_emit_bytes(bytes) ==
  sections' = [sections EXCEPT ![cur].data = @ \o bytes]

(* Every caller passes -1 for the section; home records where the           *)
(* relocation was asked for and is not in the code.                         *)
Reloc(type, offset, symbol, addend) ==
  [type |-> type, offset |-> offset, symbol |-> symbol, addend |-> addend,
   section |-> 0, home |-> cur]

ccw_unit_emit_reloc(r) == relocs' = Append(relocs, r)

Here == Len(sections[cur].data)

Defined(n) == n \in DOMAIN symtab /\ symtab[n].defined

Zeros(n) == [i \in 1 .. n |-> 0]

(* One line is parsed and leaves the buffer; the phase stays.               *)
Line == Head(buf)

Parses(kinds) ==
  /\ phase = "parse" /\ buf # <<>> /\ Line.k \in kinds
  /\ Line.cont => Len(buf) = 1
  /\ buf' = Tail(buf)
  /\ UNCHANGED <<phase, opts, template, object>>

(* A line that ends in a backslash is replaced by the one after it.         *)
Continued ==
  /\ phase = "parse" /\ Len(buf) > 1 /\ Line.cont
  /\ buf' = Tail(buf)
  /\ UNCHANGED <<phase, opts, template, unit, object>>

Refused(kinds) ==
  phase = "parse" /\ buf # <<>> /\ Line.k \in kinds /\ (Line.cont => Len(buf) = 1) /\ Fails

\* Mutant: a label is always defined as local.
LocalDefineLabel ==
  /\ Parses({"label"}) /\ ~Defined(Line.name)
  /\ symtab' = ccw_symtab_define(symtab, Line.name, Symbol(Here, cur, 0, TRUE))
  /\ UNCHANGED <<sections, relocs, cur, in_macro, errors, warnings>>

(* A label, and a directive that is not known: its whole text is a label.   *)
DefineLabel ==
  /\ Parses({"label"}) /\ ~Defined(Line.name)
  /\ LET binding == IF Line.name \in DOMAIN symtab THEN symtab[Line.name].binding ELSE 0
     IN symtab' = ccw_symtab_define(symtab, Line.name, Symbol(Here, cur, binding, TRUE))
  /\ UNCHANGED <<sections, relocs, cur, in_macro, errors, warnings>>

Redefined == Refused({"label", "equ"}) /\ Defined(Line.name)

(* .text, .data, .bss and .section: find the first of that name or add it.  *)
SelectSection ==
  /\ Parses({"section"})
  /\ LET found == {i \in DOMAIN sections : sections[i].name = Line.name}
     IN IF found # {}
        THEN cur' = Min(found) /\ UNCHANGED sections
        ELSE /\ sections' = Append(sections, Section(Line.name, "progbits", {"alloc", "exec"}))
             /\ cur' = Len(sections) + 1
  /\ UNCHANGED <<symtab, relocs, in_macro, errors, warnings>>

Global ==
  /\ Parses({"global"})
  /\ symtab' = IF Line.name \in DOMAIN symtab
               THEN [symtab EXCEPT ![Line.name].binding = 1]
               ELSE ccw_symtab_define(symtab, Line.name, Symbol(0, 0, 1, FALSE))
  /\ UNCHANGED <<sections, relocs, cur, in_macro, errors, warnings>>

(* The section's alignment becomes that of its last .align.                 *)
Align ==
  /\ Parses({"align"}) /\ PowerOfTwo(Line.n)
  /\ LET pad == (Line.n - (Here % Line.n)) % Line.n
         fill == IF opts.arch = "x86-64" /\ "exec" \in sections[cur].flags THEN 144 ELSE 0
     IN sections' = [sections EXCEPT ![cur].align = Line.n,
                                     ![cur].data = @ \o [i \in 1 .. pad |-> fill]]
  /\ UNCHANGED <<symtab, relocs, cur, in_macro, errors, warnings>>

BadAlign == Refused({"align"}) /\ ~PowerOfTwo(Line.n)

(* .byte, .2byte, .4byte and .8byte: a label becomes a relocation and zeros.*)
(* Every width but 8 asks for a 32-bit one.                                 *)
DataBytes(vals, width) ==
  FlattenSeq([i \in DOMAIN vals |->
                IF vals[i].label # NULL THEN Zeros(width) ELSE emit_imm(vals[i].value, width)])

Data ==
  /\ Parses({"data"})
  /\ LET vals == ccw_parse_data_values(Line.vals)
     IN /\ ccw_unit_emit_bytes(DataBytes(vals, Line.width))
        /\ relocs' = relocs \o
             FlattenSeq([i \in DOMAIN vals |->
               IF vals[i].label = NULL THEN <<>>
               ELSE <<Reloc(IF Line.width = 8 THEN "abs64" ELSE "abs32",
                            Here + (i - 1) * Line.width, vals[i].label, 0)>>])
  /\ UNCHANGED <<symtab, cur, in_macro, errors, warnings>>

(* .ascii and .asciz emit the argument with its quotes.                     *)
Ascii ==
  /\ Parses({"ascii"})
  /\ ccw_unit_emit_bytes(<<34>> \o Line.bytes \o <<34>> \o (IF Line.nul THEN <<0>> ELSE <<>>))
  /\ UNCHANGED <<symtab, relocs, cur, in_macro, errors, warnings>>

Space ==
  /\ Parses({"space"})
  /\ ccw_unit_emit_bytes(Zeros(Line.n))
  /\ UNCHANGED <<symtab, relocs, cur, in_macro, errors, warnings>>

(* The binding of an earlier .global is lost.                               *)
Equ ==
  /\ Parses({"equ"}) /\ ~Defined(Line.name)
  /\ symtab' = ccw_symtab_define(symtab, Line.name, Symbol(Line.value, 0, 0, TRUE))
  /\ UNCHANGED <<sections, relocs, cur, in_macro, errors, warnings>>

ErrorDirective ==
  /\ Parses({"error", "warning"})
  /\ errors' = errors + (IF Line.k = "error" THEN 1 ELSE 0)
  /\ warnings' = warnings + (IF Line.k = "warning" THEN 1 ELSE 0)
  /\ UNCHANGED <<sections, symtab, relocs, cur, in_macro>>

Macro ==
  /\ Parses({"macro", "endm"})
  /\ in_macro' = (Line.k = "macro")
  /\ UNCHANGED <<sections, symtab, relocs, cur, errors, warnings>>

(* .local, .include, .arch and the conditionals are read and ignored.       *)
Ignored == Parses({"ignored", "blank"}) /\ UNCHANGED unit

(* .globl, .long, ... : the names that are refused.                         *)
AliasRefused == Refused({"alias"})

(* The body of a macro: only its instructions are skipped.                  *)
SkipInsn == Parses({"insn"}) /\ in_macro /\ UNCHANGED unit

LineCode == ccw_encode_insn(Line.m, InsnOperands(opts.arch, opts.ts, Line.ops))

LineLabel == InsnOperands(opts.arch, opts.ts, Line.ops)[1].label

Insn ==
  /\ Parses({"insn"}) /\ ~in_macro
  /\ ccw_isa_validate(opts.arch, Line.m) /\ LineCode.b # <<>>
  /\ ccw_unit_emit_bytes(LineCode.b)
  /\ IF LineCode.rel = 0 THEN UNCHANGED <<symtab, relocs>>
     ELSE /\ symtab' = IF LineCode.decl /\ LineLabel \notin DOMAIN symtab
                       THEN ccw_symtab_define(symtab, LineLabel, Symbol(0, 0, 1, FALSE))
                       ELSE symtab
          /\ ccw_unit_emit_reloc(Reloc("pc32", Here + LineCode.rel, LineLabel, -4))
  /\ UNCHANGED <<cur, in_macro, errors, warnings>>

InsnRefused ==
  /\ Refused({"insn"}) /\ ~in_macro
  /\ ~ccw_isa_validate(opts.arch, Line.m) \/ LineCode.b = <<>>

(* The end of the text: the counters decide.                                *)
ParseDone ==
  /\ phase = "parse" /\ buf = <<>>
  /\ phase' = IF errors > 0 \/ (opts.werror /\ warnings > 0) THEN "failed" ELSE "write"
  /\ UNCHANGED <<opts, template, buf, unit, object>>

----------------------------------------------------------------------------
(* The object writer.  The file is described by its parts: offsets and      *)
(* sizes in bytes, the symbol table and the relocation tables.              *)
EhdrSize == 64
ShdrSize == 64
SymSize == 24
RelaSize == 24
NoteSize == 32

AlignTo(n, a) == ((n + a - 1) \div a) * a

RelocTypes == [abs64 |-> "R_X86_64_64", pc32 |-> "R_X86_64_PC32", abs32 |-> "R_X86_64_32"]

(* The other targets have no PC32 or ABS32 and take their default.          *)
reloc_to_elf_type(t, arch) ==
  CASE arch = "x86-64" -> RelocTypes[t]
    [] arch = "aarch64" -> "R_AARCH64_ABS64"
    [] arch = "riscv64" -> "R_RISCV_64"
    [] OTHER -> "none"

arch_to_emachine(arch) ==
  CASE arch = "aarch64" -> "EM_AARCH64" [] arch = "riscv64" -> "EM_RISCV" [] OTHER -> "EM_X86_64"

(* Relocation sections exist for the sections up to the last relocation's;  *)
(* since no relocation has one, there is one, that of section 1.            *)
Nrela ==
  LET known == {i \in DOMAIN relocs : relocs[i].section \in DOMAIN sections}
  IN IF relocs = <<>> THEN 0
     ELSE IF known = {} THEN 1 ELSE relocs[Max(known)].section

RelaOf(r, nrela) == IF r.section \in 1 .. nrela THEN r.section ELSE 1

(* The offsets of consecutive parts of the given sizes, each rounded up to  *)
(* its alignment after it: <<offset of each>> and the end.                  *)
Packed(start, sizes, a) ==
  LET off[i \in 1 .. Len(sizes) + 1] ==
        IF i = 1 THEN start ELSE AlignTo(off[i - 1] + sizes[i - 1], a)
  IN off

build_strtab(n) == 1 + n * (NameLen + 1)

Locals == {n \in DOMAIN symtab : symtab[n].binding = 0}

\* Mutant: the symbols in the order of the hash table.
HashSymOrder(ord) == ord

(* The symbols, locals first; ord is the order in which khash gives the     *)
(* names.                                                                   *)
SymOrder(ord) == Filtered(ord, Locals) \o Filtered(ord, DOMAIN symtab \ Locals)

SymEntry(n) ==
  [name |-> n, binding |-> symtab[n].binding,
   type |-> IF symtab[n].section = 0 THEN "notype" ELSE "func",
   shndx |-> symtab[n].section, value |-> symtab[n].value]

(* The index of a name in the table, 0 (the null symbol) if it has none.    *)
SymIndex(names, n) ==
  LET at == {i \in DOMAIN names : names[i] = n} IN IF at = {} THEN 0 ELSE Min(at)

Rela(names, i, nrela) ==
  LET mine == Filtered(relocs, {r \in ToSet(relocs) : RelaOf(r, nrela) = i})
  IN [j \in DOMAIN mine |->
        [offset |-> mine[j].offset, sym |-> SymIndex(names, mine[j].symbol),
         type |-> reloc_to_elf_type(mine[j].type, opts.arch), addend |-> mine[j].addend,
         home |-> mine[j].home, label |-> mine[j].symbol]]

ElfFile(names) ==
  LET nsec == Len(sections)
      nrela == Nrela
      secs == Packed(EhdrSize, [i \in 1 .. nsec |-> Len(sections[i].data)], 16)
      rela == [i \in 1 .. nrela |-> Rela(names, i, nrela)]
      relas == Packed(secs[nsec + 1], [i \in 1 .. nrela |-> RelaSize * Len(rela[i])], 8)
      symoff == relas[nrela + 1]
      stroff == symoff + SymSize * (Len(names) + 1)
      shstroff == stroff + build_strtab(Len(names))
      shstrlen == build_strtab(nsec + 4 + nrela)
      noteoff == AlignTo(shstroff + shstrlen, 8)
      shoff == AlignTo(noteoff + NoteSize, 8)
      shnum == 1 + nsec + nrela + 4
      Part(off, size) == [off |-> off, size |-> size]
  IN [written |-> TRUE, machine |-> arch_to_emachine(opts.arch),
      parts |-> <<Part(0, EhdrSize)>>
                \o [i \in 1 .. nsec |-> Part(secs[i], Len(sections[i].data))]
                \o [i \in 1 .. nrela |-> Part(relas[i], RelaSize * Len(rela[i]))]
                \o <<Part(symoff, SymSize * (Len(names) + 1)),
                     Part(stroff, build_strtab(Len(names))),
                     Part(shstroff, shstrlen), Part(noteoff, NoteSize),
                     Part(shoff, shnum * ShdrSize)>>,
      total |-> shoff + shnum * ShdrSize,
      syms |-> [i \in DOMAIN names |-> SymEntry(names[i])],
      first_global |-> 1 + Cardinality(Locals),
      rela |-> rela, shstrndx |-> 1 + nsec + nrela + 2,
      aligns |-> [i \in 1 .. nsec |-> sections[i].align]]

(* The names of the section headers go into an array of MaxShNames; more    *)
(* names are written past its end, and what follows is undefined: here the  *)
(* run ends without an object.                                              *)
ShNames == 1 + Len(sections) + 4 + Nrela

write_elf64 ==
  /\ phase = "write" /\ opts.format = "elf" /\ ShNames <= MaxShNames
  /\ \E ord \in SetToSeqs(DOMAIN symtab) : object' = ElfFile(SymOrder(ord))
  /\ phase' = "done"
  /\ UNCHANGED <<opts, template, buf, unit>>

NamesOverflow == phase = "write" /\ opts.format = "elf" /\ ShNames > MaxShNames /\ Fails

(* PE and Mach-O are not implemented, an unknown format ends the run, and   *)
(* the output file may not open.                                            *)
WriteRefused == phase = "write" /\ Fails

----------------------------------------------------------------------------
(* What a template can call.                                                *)
Template == EmitLine \/ EmitHelper \/ l_zstring \/ l_gensym \/ l_include \/ l_error

Next ==
  \/ CopySource \/ TextRead
  \/ Template \/ IncludeMissing \/ IncludedPiece \/ IncludeTooDeep
  \/ ccw_lccwas_seal \/ EmptySource
  \/ Continued \/ DefineLabel \/ Redefined \/ SelectSection \/ Global \/ Align \/ BadAlign
  \/ Data \/ Ascii \/ Space \/ Equ \/ ErrorDirective \/ Macro \/ Ignored \/ AliasRefused
  \/ SkipInsn \/ Insn \/ InsnRefused
  \/ ParseDone \/ write_elf64 \/ NamesOverflow \/ WriteRefused

(* The run is one thread that only stops at the end of a phase it failed.   *)
Spec == Init /\ [][Next]_vars /\ WF_vars(Next)

----------------------------------------------------------------------------
(* Types: what is emitted are bytes whatever the width of the value, and    *)
(* symbols and relocations name sections that exist (ccw_parse_asm).        *)
CcwasTypeOK ==
  /\ phase \in {"text", "template", "parse", "write", "done", "failed"}
  /\ opts \in Options
  /\ pieces \in 0 .. MaxPieces /\ gensym \in 0 .. Len(GensymNames)
  /\ Len(todo) <= MaxDepth
  /\ cur \in DOMAIN sections
  /\ \A i \in DOMAIN sections : \A j \in DOMAIN sections[i].data : sections[i].data[j] \in Byte
  /\ \A n \in DOMAIN symtab : symtab[n].section \in 0 .. Len(sections)
  /\ \A i \in DOMAIN relocs : relocs[i].offset \in Nat /\ relocs[i].home \in DOMAIN sections
  /\ in_macro \in BOOLEAN /\ errors \in Nat /\ warnings \in Nat
  /\ object.written => phase = "done"

(* A label stays inside the section it was defined in, and one defined at   *)
(* the end of a section is at most its length: sections only grow, whatever *)
(* is emitted in between and wherever (CCW_STMT_LABEL of ccw_parse_asm).    *)
LabelsInside ==
  \A n \in DOMAIN symtab :
    symtab[n].section # 0 => symtab[n].value <= Len(sections[symtab[n].section].data)

(* Redefinition is fatal: once a symbol is defined, by a label or by .equ,  *)
(* no later line changes its value or section (CCWAS.md 7.1; ccw_parse_asm  *)
(* and ccw_symtab_define, which would overwrite it).                        *)
DefinedOnce ==
  [][\A n \in DOMAIN symtab :
       symtab[n].defined =>
         /\ symtab'[n].defined
         /\ symtab'[n].value = symtab[n].value
         /\ symtab'[n].section = symtab[n].section]_vars

(* A symbol made global stays global, whichever of .global and its label    *)
(* comes first; only .equ drops the binding (ccw_parse_asm).                *)
GlobalKept ==
  [][\A n \in DOMAIN symtab :
       symtab[n].binding = 1 =>
         symtab'[n].binding = 1 \/ (Line.k = "equ" /\ Line.name = n)]_vars

(* The part of the linker's contract on the symbol table: the locals come   *)
(* first and sh_info is the index of the first symbol that is not local     *)
(* (write_elf64, first_global).                                             *)
LocalsFirst ==
  object.written =>
    \A i \in DOMAIN object.syms : (object.syms[i].binding = 0) = (i < object.first_global)

(* No two parts of the file overlap and all of them lie inside it: header,  *)
(* section contents (.bss included), relocations, symbols, strings, note    *)
(* and section headers (write_elf64).                                       *)
PartsDisjoint ==
  object.written =>
    /\ \A i, j \in DOMAIN object.parts :
         i < j => object.parts[i].off + object.parts[i].size <= object.parts[j].off
    /\ \A i \in DOMAIN object.parts :
         object.parts[i].off + object.parts[i].size <= object.total

(* The bytes a relocation of a branch patches are the four zero bytes of    *)
(* the branch's displacement, inside its section (encode_branch and         *)
(* encode_jcc compute the offset from the length before and after the       *)
(* opcode).                                                                 *)
BranchPatch ==
  \A i \in DOMAIN relocs :
    relocs[i].type = "pc32" =>
      LET data == sections[relocs[i].home].data
      IN \A b \in 1 .. 4 : relocs[i].offset + b \in DOMAIN data /\ data[relocs[i].offset + b] = 0

(* The relocation of a call or jmp always names its target, declared or     *)
(* not: "so the relocation remains visible to the linker instead of         *)
(* silently becoming relocation index zero" (encode_branch).  A conditional *)
(* jump and a data directive name theirs if some other line did.            *)
CallVisible ==
  object.written =>
    \A i \in DOMAIN object.rela : \A j \in DOMAIN object.rela[i] :
      LET r == object.rela[i][j]
          called == r.addend = -4 /\ sections[r.home].data[r.offset] \in {232, 233}
      IN /\ called => r.sym # 0
         /\ r.sym # 0 => object.syms[r.sym].name = r.label

(* Every run ends, with an object or a diagnostic, also when a template     *)
(* includes itself (ccw_lccwas_expand_file has no cycle check).             *)
AssemblyEnds == <>(phase \in {"done", "failed"})

(* What the object says is what the source said, in whatever order sections, *)
(* labels, declarations and uses come: labels and relocations point at what *)
(* they stand at, every called name is there, and no part runs over another. *)
ObjectSound ==
  /\ CcwasTypeOK /\ LabelsInside /\ LocalsFirst
  /\ PartsDisjoint /\ BranchPatch /\ CallVisible

(* A symbol keeps its first definition and its binding to the end.          *)
SymbolsKept == DefinedOnce /\ GlobalKept

=============================================================================
