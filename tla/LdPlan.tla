------------------------------- MODULE LdPlan -------------------------------
(***************************************************************************)
(* The link plan of CCWld and its builders (toolchain/ccwld/plan).  A      *)
(* builder takes a plan and gives the set of the plans it may leave: one,  *)
(* or none when it refuses.  The symbols and the steps of the location     *)
(* counter are two arrays in the code, each entry with a number drawn from *)
(* one counter; here they are one sequence in that order.  An expression   *)
(* is a tree, which its canonical text determines.                         *)
(***************************************************************************)
EXTENDS Integers, Sequences, FiniteSets, SequencesExt

(* A string that is not there.                                              *)
NULL == ""

Expr(kind, op, ival, name, args) ==
  [kind |-> kind, op |-> op, ival |-> ival, name |-> name, args |-> args]

NoExpr == Expr("none", NULL, 0, NULL, <<>>)

NoOutput == [kind |-> NULL, format |-> NULL, entry |-> NULL, soname |-> NULL, osabi |-> NULL]

plan_new(target, frontend) ==
  [target |-> target, frontend |-> frontend, output |-> NoOutput, inputs |-> <<>>,
   paths |-> <<>>, mems |-> <<>>, secs |-> <<>>, stmts |-> <<>>, attrs |-> <<>>,
   phdrs |-> <<>>, vers |-> <<>>, plugins |-> <<>>, hooks |-> <<>>,
   lto |-> [enabled |-> FALSE, pipeline |-> NULL, jobs |-> 0, cache_dir |-> NULL],
   env |-> <<>>, gensym |-> 0, reproducible |-> TRUE, sealed |-> FALSE,
   serialized |-> <<>>]

(* What every builder does first.                                           *)
Built(p, ok, q) == IF ~p.sealed /\ ok THEN {q} ELSE {}

valid_format(f) == f \in {NULL, "elf", "pe", "macho", "wasm"}

valid_kind(k) == k \in {"exe", "dso", "reloc", "pie"}

plan_output(p, o) ==
  Built(p, /\ valid_kind(o.kind) /\ valid_format(o.format)
           /\ ~(o.soname # NULL /\ o.format \notin {NULL, "elf"}),
        [p EXCEPT !.output = [o EXCEPT !.format = IF @ = NULL THEN "elf" ELSE @]])

Input(path, as_needed, startup) ==
  [path |-> path, as_needed |-> as_needed, startup |-> startup, is_group |-> FALSE,
   group_start |-> FALSE]

plan_input(p, path, as_needed, startup) ==
  Built(p, path # NULL, [p EXCEPT !.inputs = Append(@, Input(path, as_needed, startup))])

plan_group(p, paths) ==
  Built(p, \A i \in DOMAIN paths : paths[i] # NULL,
        [p EXCEPT !.inputs = @ \o [i \in DOMAIN paths |->
           [Input(paths[i], FALSE, FALSE) EXCEPT !.is_group = TRUE,
                                                 !.group_start = (i = 1)]]])

plan_search_path(p, path) == Built(p, path # NULL, [p EXCEPT !.paths = Append(@, path)])

plan_memory(p, name, attrs, origin, length) ==
  Built(p, name # NULL /\ length # 0,
        [p EXCEPT !.mems = Append(@, [name |-> name, attrs |-> attrs, origin |-> origin,
                                      length |-> length])])

(* A list of globs is one selector over all files; an empty one is none.    *)
split_selector(globs, keep) ==
  IF globs = <<>> THEN <<>> ELSE <<[file |-> "*", globs |-> globs, keep |-> keep]>>

plan_section_full(p, name, region, align, selector, keep, at_region, fill) ==
  Built(p, name # NULL,
        [p EXCEPT !.secs = Append(@,
           [name |-> name, region |-> region, at_region |-> at_region, phdr |-> NULL,
            align |-> IF align = 0 THEN 1 ELSE align, subalign |-> 0, load |-> TRUE,
            vma |-> NoExpr, at |-> NoExpr, fill |-> fill,
            sels |-> split_selector(selector, FALSE) \o split_selector(keep, TRUE)])])

plan_section(p, name, region, align, selector, at_region) ==
  plan_section_full(p, name, region, align, selector, <<>>, at_region, NoExpr)

(* Two sections may have one name; the later one is meant.                  *)
last_section(p, name) == {i \in DOMAIN p.secs :
                            /\ p.secs[i].name = name
                            /\ \A j \in DOMAIN p.secs : p.secs[j].name = name => j <= i}

plan_selector(p, name, file, globs, keep) ==
  UNION {Built(p, TRUE, [p EXCEPT !.secs[i].sels =
                           Append(@, [file |-> file, globs |-> globs, keep |-> keep])])
         : i \in last_section(p, name)}

(* set_vma, set_at, set_subalign, set_phdr, set_load, set_region,           *)
(* set_at_region and set_fill.                                              *)
plan_section_set(p, name, field, v) ==
  UNION {Built(p, TRUE, [p EXCEPT !.secs[i][field] = v]) : i \in last_section(p, name)}

(* sec: the section a statement belongs to, 0 for none.                     *)
plan_symbol_at(p, name, expr, provide, hidden, sec) ==
  Built(p, name # NULL /\ expr # NoExpr,
        [p EXCEPT !.stmts = Append(@,
           [what |-> "sym", name |-> name, expr |-> expr, provide |-> provide,
            hidden |-> hidden, visibility |-> IF hidden THEN "hidden" ELSE "default",
            binding |-> "global", sec |-> sec])])

plan_dotstep(p, expr, sec) ==
  Built(p, expr # NoExpr,
        [p EXCEPT !.stmts = Append(@,
           [what |-> "dot", name |-> ".", expr |-> expr, provide |-> FALSE,
            hidden |-> FALSE, visibility |-> NULL, binding |-> NULL, sec |-> sec])])

plan_attr(p, name, visibility, binding, alias) ==
  Built(p, name # NULL,
        [p EXCEPT !.attrs = Append(@, [name |-> name, visibility |-> visibility,
                                       binding |-> binding, alias |-> alias])])

plan_phdr(p, name, type, flags, align) ==
  Built(p, name # NULL,
        [p EXCEPT !.phdrs = Append(@,
           [name |-> name, type |-> IF type = NULL THEN "LOAD" ELSE type, flags |-> flags,
            align |-> IF align = 0 THEN 4096 ELSE align])])

plan_version(p, symbol, version, is_default) ==
  Built(p, symbol # NULL /\ version # NULL,
        [p EXCEPT !.vers = Append(@, [symbol |-> symbol, version |-> version,
                                      is_default |-> is_default])])

(* Whatever the arguments are, LTO is on afterwards.                        *)
plan_lto(p, pipeline, jobs, cache_dir) ==
  Built(p, TRUE,
        [p EXCEPT !.lto = [enabled |-> TRUE, pipeline |-> pipeline,
                           jobs |-> IF jobs = 0 THEN 1 ELSE jobs, cache_dir |-> cache_dir]])

plan_plugin(p, path, options) ==
  Built(p, path # NULL, [p EXCEPT !.plugins = Append(@, [path |-> path, options |-> options])])

plan_hook(p, phase, fn) ==
  Built(p, fn # NULL, [p EXCEPT !.hooks = Append(@, [phase |-> phase, fn |-> fn])])

(* A key that is bound is bound again in its place.  Whether the binding    *)
(* came from --defsym is not used.                                          *)
plan_env(p, key, val, defsym) ==
  Built(p, TRUE,
        LET bound == {i \in DOMAIN p.env : p.env[i].key = key}
        IN IF bound = {} THEN [p EXCEPT !.env = Append(@, [key |-> key, val |-> val])]
           ELSE [p EXCEPT !.env = [i \in DOMAIN @ |->
                  IF i \in bound THEN [@[i] EXCEPT !.val = val] ELSE @[i]]])

(* Not a builder: a sealed plan counts as well.                             *)
plan_gensym(p) == [p EXCEPT !.gensym = @ + 1]

(***************************************************************************)
(* Serialization and the seal.                                             *)
(***************************************************************************)
(* What is linked and where the sections go.                                *)
Placed(p) ==
  [target |-> p.target, output |-> p.output, inputs |-> p.inputs, paths |-> p.paths,
   mems |-> p.mems, secs |-> p.secs]

Symbols(stmts) == SelectSeq(stmts, LAMBDA s : s.what = "sym")

Dots(stmts) ==
  LET steps == SelectSeq(stmts, LAMBDA s : s.what = "dot")
  IN [i \in DOMAIN steps |-> [sec |-> steps[i].sec, expr |-> steps[i].expr]]

(* The order of the entries is kept within each array, and the order        *)
(* between a symbol and a step of the location counter in neither.  Hooks,  *)
(* bindings, the front end and the options of the driver are not written.   *)
serialize(p) ==
  Placed(p) @@ [symbols |-> Symbols(p.stmts), dots |-> Dots(p.stmts), phdrs |-> p.phdrs,
                vers |-> p.vers, lto |-> p.lto, plugins |-> p.plugins, attrs |-> p.attrs]

Names(s) == {s[i].name : i \in DOMAIN s}

FormatFits(p) == /\ p.phdrs # <<>> => p.output.format # "pe"
                 /\ p.vers # <<>> => p.output.format = "elf"

RefsResolve(p) ==
  \A i \in DOMAIN p.secs :
    LET s == p.secs[i]
    IN /\ s.region # NULL => s.region \in Names(p.mems)
       /\ s.at_region # NULL => s.at_region \in Names(p.mems)
       /\ s.phdr # NULL => s.phdr \in Names(p.phdrs)

plan_seal(p) ==
  IF ~p.sealed /\ p.output.kind # NULL /\ FormatFits(p) /\ RefsResolve(p)
  THEN {[p EXCEPT !.sealed = TRUE, !.serialized = <<serialize(p)>>]} ELSE {}

(***************************************************************************)
(* What the driver declares (ccwld.c): before the script, and -e after it. *)
(***************************************************************************)
(* One argument of the command line d, of those the option has.             *)
Declare(p, d, option, a) ==
  CASE option = "defines" -> plan_env(p, a.key, a.val, FALSE)
    [] option = "defsyms" -> plan_env(p, a.key, a.val, TRUE)
    [] option = "search_paths" -> plan_search_path(p, a)
    [] option = "inputs" -> plan_input(p, a, FALSE, FALSE)
    [] option = "plugins" -> plan_plugin(p, a, d.plugin_opts)

(* All of them, from any of the plans ps.                                   *)
Chain(ps, d, option) ==
  LET after[i \in 0 .. Len(d[option])] ==
        IF i = 0 THEN ps
        ELSE UNION {Declare(p, d, option, d[option][i]) : p \in after[i - 1]}
  IN after[Len(d[option])]

apply_driver_defs(p, d) ==
  LET q == Chain(Chain(Chain({p}, d, "search_paths"), d, "inputs"), d, "plugins")
  IN IF d.lto_pipeline = NULL THEN q
     ELSE UNION {plan_lto(r, d.lto_pipeline, d.lto_jobs, d.lto_cache_dir) : r \in q}

driver_entry_override(p, entry) ==
  IF p.output.kind = NULL \/ entry = NULL THEN {p}
  ELSE plan_output(p, [p.output EXCEPT !.entry = entry])

(* The sections of a plan that declares none.                               *)
synthesize_defaults(p) ==
  LET sec(q, n, a) == UNION {plan_section(r, n, NULL, a, <<n>>, NULL) : r \in q}
      all == sec(sec(sec(sec({p}, ".text", 16), ".rodata", 8), ".data", 8), ".bss", 8)
  IN UNION {plan_section_set(q, ".bss", "load", FALSE) : q \in all}
=============================================================================
