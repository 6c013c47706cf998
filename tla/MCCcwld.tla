------------------------------- MODULE MCCcwld -------------------------------
(* Links of small objects, archives, shared objects and LTO modules.        *)
EXTENDS Ccwld

MCFile == {"main", "alt", "weak", "liba", "libb", "so", "ir", "bad"}

Sec(n, kind, al, size, align) ==
  [name |-> n, kind |-> kind, alloc |-> al, size |-> size, align |-> align]
Sym(n, b, sh, v) == [name |-> n, binding |-> b, shndx |-> sh, value |-> v]
Rel(sec, sym, off, type, add) ==
  [sec |-> sec, sym |-> sym, offset |-> off, type |-> type, addend |-> add]
Obj(sh, sy, re) == [etype |-> "rel", shdrs |-> sh, syms |-> sy, relas |-> re]

text(size) == Sec("text", "progbits", TRUE, size, 4)
data(size) == Sec("data", "progbits", TRUE, size, 2)
bss(size)  == Sec("bss", "nobits", TRUE, size, 8)
meta       == Sec("symtab", "meta", FALSE, 0, 0)
note       == Sec("comment", "progbits", FALSE, 3, 1)

Main == Obj(<<text(9), meta, data(4), note>>,
            <<Sym("l", "local", 3, 1), Sym("start", "global", 1, 0), Sym("g", "global", 0, 0)>>,
            <<Rel(1, "g", 0, "PC32", -4), Rel(1, "l", 5, "32", 0)>>)
Alt  == Obj(<<text(8)>>, <<Sym("g", "global", 1, 2), Sym("h", "global", 0, 0)>>,
            <<Rel(1, "h", 4, "32S", 1)>>)
Weak == Obj(<<data(6), bss(3)>>, <<Sym("g", "weak", 2, 0), Sym("h", "weak", 0, 0)>>,
            <<Rel(1, "g", 0, "PLT32", 0)>>)
M1   == Obj(<<text(4)>>, <<Sym("g", "global", 1, 0), Sym("h", "global", 0, 0)>>,
            <<Rel(1, "h", 0, "PC32", 0)>>)
M2   == Obj(<<data(8), meta>>, <<Sym("h", "global", 1, 3), Sym("l", "weak", -1, 7)>>,
            <<Rel(1, "l", 0, "64", 0)>>)
Bad  == [Main EXCEPT !.shdrs = <<>>]
So   == [etype |-> "dyn", shdrs |-> <<data(2)>>, relas |-> <<>>,
         syms |-> <<Sym("h", "global", -1, 5), Sym("k", "global", 0, 0)>>]
Ir   == Obj(<<Sec(".ccw.lto", "progbits", TRUE, 2, 1)>>, <<Sym("h", "weak", -1, 1)>>, <<>>)

MCElf ==
  [main |-> Main, alt |-> Alt, weak |-> Weak, so |-> So, ir |-> Ir,
   bad |-> [Main EXCEPT !.etype = "none"],
   liba |-> [etype |-> "ar", members |-> <<M1, M2>>,
             index |-> <<[name |-> "h", member |-> 2], [name |-> "g", member |-> 1],
                         [name |-> "g", member |-> 3]>>],
   libb |-> [etype |-> "ar", members |-> <<M2, Bad>>,
             index |-> <<[name |-> "h", member |-> 1], [name |-> "g", member |-> 2]>>]]

MCSymbol == {"start", "g", "h", "l", "k"}

Paths == MCFile \cup (MCFile \X {1, 2}) \cup {"lto"}
Inputs(fs) == [i \in DOMAIN fs |->
                 [file |-> fs[i], startup |-> fs[i] = "alt" /\ Len(fs) = 2,
                  as_needed |-> fs[i] = "so", group |-> fs[i] = "liba"]]

Sel(globs, keep) == [files |-> Paths, globs |-> globs, keep |-> keep]
Out(n, sels) ==
  [name |-> n, sels |-> sels, align |-> 4, subalign |-> 0, vma_expr |-> 0, at_expr |-> 0,
   region |-> "", at_region |-> "", phdr |-> "", load |-> n \notin {"B", "E"}, vma |-> 0, lma |-> 0, size |-> 0]

Lists == {<<"main">>, <<"main", "alt">>, <<"main", "weak">>, <<"weak", "main", "liba">>,
          <<"main", "liba">>, <<"liba", "main">>, <<"main", "libb", "liba">>,
          <<"main", "alt", "so">>, <<"so", "main", "alt">>, <<"main", "alt", "weak", "libb">>,
          <<"main", "alt", "ir">>, <<"alt", "liba">>, <<"main", "bad">>, <<"weak", "main", "weak", "liba">>,
          <<"alt", "main", "alt">>, <<>>}

Text == Out("T", <<Sel({"text"}, TRUE)>>)
Data == Out("D", <<Sel({"data"}, FALSE), Sel({"data", "bss", ".ccw.lto"}, TRUE)>>)
Bss  == Out("B", <<Sel({"bss"}, FALSE)>>)
None == Out("E", <<>>)
Ram  == [name |-> "ram", origin |-> 144, length |-> 20]

Shapes ==
  {<<Text, Data>>,
   <<[Text EXCEPT !.sels = <<Sel({"text"}, FALSE)>>], [Data EXCEPT !.subalign = 8]>>,
   <<[Text EXCEPT !.region = "ram", !.at_region = "ram"],
     [Data EXCEPT !.region = "ram", !.at_region = "ram"]>>,
   <<None, Text, [Data EXCEPT !.sels = <<Sel({"data", ".ccw.lto"}, FALSE)>>], Bss>>,
   <<[Data EXCEPT !.vma_expr = 3, !.at_expr = 2], Text>>,
   <<Text, [Data EXCEPT !.vma_expr = 4, !.at_expr = 4]>>}

(* Expressions: 1 is 5, 2 is dot, 3 is dot + 5, 4 is symbol k, 5 is         *)
(* MAX(k, 5), 6 is k + k, 13 is (5 - dot) - 5, 18 is 5 - (dot - 5), 23 and  *)
(* 25 are ALIGN(dot, 4) and ALIGN(dot, 8).                                  *)
Sub(i, j) == Node("binary", "sub", 0, "", i, j, 0)
MCExprs ==
  <<Node("int", "", 5, "", 0, 0, 0), Node("dot", "", 0, "", 0, 0, 0),
    Node("binary", "add", 0, "", 7, 8, 0), Node("symbol", "", 0, "k", 0, 0, 0),
    Node("max", "", 0, "", 9, 10, 0), Node("binary", "add", 0, "", 11, 12, 0),
    Node("dot", "", 0, "", 0, 0, 0), Node("int", "", 5, "", 0, 0, 0),
    Node("symbol", "", 0, "k", 0, 0, 0), Node("int", "", 5, "", 0, 0, 0),
    Node("symbol", "", 0, "k", 0, 0, 0), Node("symbol", "", 0, "k", 0, 0, 0),
    Sub(14, 17), Sub(15, 16), Node("int", "", 5, "", 0, 0, 0),
    Node("dot", "", 0, "", 0, 0, 0), Node("int", "", 5, "", 0, 0, 0),
    Sub(19, 20), Node("int", "", 5, "", 0, 0, 0), Sub(21, 22),
    Node("dot", "", 0, "", 0, 0, 0), Node("int", "", 5, "", 0, 0, 0),
    Node("align", "", 4, "", 24, 0, 0), Node("dot", "", 0, "", 0, 0, 0),
    Node("align", "", 8, "", 26, 0, 0), Node("dot", "", 0, "", 0, 0, 0)>>

St(what, n, pr, e, sec) == [what |-> what, name |-> n, provide |-> pr, expr |-> e, sec |-> sec]

Scripts ==
  {<<>>,
   <<St("sym", "k", FALSE, 3, 1), St("dot", "", FALSE, 3, 1), St("sym", "h", TRUE, 4, 0)>>,
   <<St("sym", "h", TRUE, 2, 2), St("sym", "g", FALSE, 1, 0)>>,
   <<St("sym", "k", FALSE, 1, 0), St("sym", "l", FALSE, 6, 0)>>}

Op(src, ph, what) == [src |-> src, phase |-> ph, what |-> what, name |-> "h", val |-> 9,
                      globs |-> {"data"}, from |-> 1, to |-> 2]

OpLists ==
  {<<>>,
   <<Op("hook", "on_resolved", "set_symbol"), Op("plugin", "on_resolved", "set_symbol"),
     Op("plugin", "on_gc", "keep_section")>>,
   <<Op("plugin", "on_gc", "move_section"), Op("hook", "on_emit", "add_note"),
     Op("plugin", "on_emit", "set_symbol")>>,
   <<Op("hook", "on_layout", "move_section")>>}

Ltos == {[on |-> FALSE, ok |-> TRUE, native |-> <<>>],
         [on |-> TRUE, ok |-> TRUE, native |-> <<Bad, M2>>],
         [on |-> TRUE, ok |-> FALSE, native |-> <<>>]}

Make(fs, secs, stmts, ops, gc, lt) ==
  [inputs |-> Inputs(fs), secs |-> secs, mems |-> <<Ram>>, stmts |-> stmts,
   exprs |-> MCExprs, phdrs |-> <<>>, attrs |-> [n \in {"k"} |-> TRUE],
   entry |-> "start", gc |-> gc, reloc |-> FALSE, ops |-> ops, lto |-> lt, note |-> 40,
   format |-> "elf"]

NoLto == CHOOSE l \in Ltos : ~l.on
Plain == Make(<<"weak", "main", "liba">>, <<[Text EXCEPT !.phdr = "h"], Data>>, <<>>, <<>>, FALSE, NoLto)
Head_(n) == [name |-> n, type |-> "LOAD", align |-> 8, vaddr |-> 5]

MCPlan ==
  {Make(fs, secs, stmts, <<>>, gc, NoLto) :
     fs \in Lists, secs \in Shapes, stmts \in Scripts, gc \in BOOLEAN}
  \cup
  {Make(fs, <<Text, Data>>, stmts, ops, TRUE, lt) :
     fs \in {<<"main", "alt", "ir">>, <<"main", "liba">>}, stmts \in Scripts,
     ops \in OpLists, lt \in Ltos}
  \cup
  {[Plain EXCEPT !.phdrs = <<Head_("h"), Head_("none")>>], [Plain EXCEPT !.reloc = TRUE],
   [Plain EXCEPT !.note = 3000], [Plain EXCEPT !.format = "pe"]}
==============================================================================
