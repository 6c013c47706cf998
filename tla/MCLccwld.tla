------------------------------ MODULE MCLccwld ------------------------------
(* Command lines and short scripts over one call of each kind, and a few    *)
(* more where two calls have to meet.                                       *)
EXTENDS Lccwld

Cmd == [valid |-> TRUE, script |-> "lua", unsafe |-> FALSE, entry |-> "", defines |-> <<>>,
        defsyms |-> <<>>, search_paths |-> <<>>, inputs |-> <<"a">>, plugins |-> <<>>,
        plugin_opts |-> <<>>, main |-> <<"main">>, lto_pipeline |-> "", lto_jobs |-> 0, lto_cache_dir |-> ""]
KV(k, v) == [key |-> k, val |-> v]

Full == [Cmd EXCEPT !.entry = "start", !.search_paths = <<"lib", ".">>, !.unsafe = TRUE,
                    !.main = <<".", "main">>,
                    !.defines = <<KV("D", 1), KV("D", 2)>>, !.plugins = <<"p">>,
                    !.lto_pipeline = "o2"]

MCDriver == {Cmd, Full, [Cmd EXCEPT !.valid = FALSE], [Cmd EXCEPT !.script = "ld"],
             [Full EXCEPT !.script = "none"], [Cmd EXCEPT !.script = "none"]}

(* Two scripts of the working directory, with "." and without, one of lib.   *)
MCFile == {<<"main">>, <<".", "main">>, <<"inc">>, <<".", "inc">>, <<"lib", "far">>}

Elt(el, id) == [el |-> el, id |-> id, file |-> "*", globs |-> <<"t">>, keep |-> FALSE]
sel   == Elt("sel", 0)
blank == [sel EXCEPT !.globs = <<>>]

Out(name, region, phdr, vma, input, body) ==
  [fn |-> "out", name |-> name, region |-> region, at_region |-> "", phdr |-> phdr,
   align |-> 0, subalign |-> 0, load |-> TRUE, vma |-> vma, at |-> Nil, fill |-> Nil,
   input |-> input, body |-> body]

O(kind, format, soname) == [NoOutput EXCEPT !.kind = kind, !.format = format, !.soname = soname]

Assign(name, v) == [fn |-> "assign", name |-> name, v |-> v, provide |-> FALSE, hidden |-> FALSE]

MCCall ==
  {[fn |-> "output", o |-> O("exe", "pe", "")], [fn |-> "output", o |-> O("exe", "", "s")],
   [fn |-> "input", paths |-> <<"b", "">>], [fn |-> "input", paths |-> <<"b">>],
   [fn |-> "group", paths |-> <<"a", "b">>],
   [fn |-> "search_path", paths |-> <<"lib">>], [fn |-> "startup", path |-> "s"],
   [fn |-> "memory", list |-> <<[name |-> "m", attrs |-> "rx", origin |-> 0, length |-> 8]>>],
   [fn |-> "sections", body |-> <<Elt("stmt", 1), Elt("other", 0)>>],
   Out("x", "", "", Nil, <<sel>>, <<Elt("stmt", 1), Elt("stmt", 2)>>),
   Out("x", "m", "h", Num(1), <<>>, <<Elt("stmt", 1), sel, Elt("stmt", 1), blank>>),
   [fn |-> "phdrs", list |-> <<[name |-> "h", type |-> "", flags |-> 0, align |-> 0]>>],
   [fn |-> "version", list |-> <<[name |-> "V", globals |-> <<"f">>, default |-> "nil"]>>],
   Assign("s", push_binary_mm("add", l_cond(l_named("defined", "s"), mm_unm(l_dot), Num(1)),
                              l_max(mm_bnot(l_abs(l_dot)), l_min(l_segment_start("h", Num(1)), l_dot)))), Assign(".", l_align(l_dot, Str("s"))),
   Assign("s", mm_compare("lt", l_symbol("s"), Num(1))),
   [fn |-> "attr", name |-> "s", visibility |-> "hidden", binding |-> "", alias |-> ""],
   [fn |-> "gensym", prefix |-> "g", long |-> FALSE],
   [fn |-> "gensym", prefix |-> "g", long |-> TRUE],
   [fn |-> "lto", enable |-> FALSE, pipeline |-> "", jobs |-> 0, cache_dir |-> ""],
   [fn |-> "plugin", path |-> "q", opts |-> <<KV("k", 2)>>],
   [fn |-> "plugin_opt", key |-> "k", val |-> 1], [fn |-> "plugin_opt", key |-> "j", val |-> 1],
   [fn |-> "on", phase |-> "gc", cb |-> "f"], [fn |-> "error"],
   [fn |-> "include", lua |-> TRUE, leaf |-> <<"inc">>],
   [fn |-> "include", lua |-> TRUE, leaf |-> <<"far">>],
   [fn |-> "include", lua |-> TRUE, leaf |-> <<".", "main">>],
   [fn |-> "as_needed"], [fn |-> "pcall"]}
=============================================================================
