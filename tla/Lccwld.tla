------------------------------- MODULE Lccwld -------------------------------
(***************************************************************************)
(* From the command line to a sealed plan: the driver of CCWld, its Lua    *)
(* front end lccwld, and the calls that phase hooks make on the front end  *)
(* while the link runs (toolchain/ccwld/driver, lccwld, ccwld.c).  A       *)
(* script is any sequence of calls.  A call that raises an error unwinds   *)
(* to the nearest pcall of the script, and keeps what it did until then.   *)
(*                                                                         *)
(* The path of a script is the sequence of the names between its slashes,  *)
(* as somebody spelled it: one script may have several paths.              *)
(***************************************************************************)
EXTENDS LdPlan, Selection

CONSTANTS Driver,     \* command lines
          Call,       \* calls that scripts and hooks make
          File,       \* the paths at which there is a script
          MaxCalls,   \* a script makes at most so many calls
          MaxInclude, \* LCCWLD_MAX_INCLUDE (32)
          MaxHooks    \* LCCWLD_MAX_HOOKS (64)

ASSUME LccwldAssumption == MaxCalls \in Nat /\ MaxInclude \in Nat \ {0} /\ MaxHooks \in Nat

VARIABLES cmd,    \* the command line
          ctx,    \* the context of the front end, lua_ctx
          stage,  \* "setup", "script", "sealed" or "failed"
          calls   \* how many calls were made

vars == <<cmd, ctx, stage, calls>>

(* ctx: p the plan, sink the deferred statements, depth as_needed_depth,    *)
(* stack the scripts being run, frames the calls that are open, pending the *)
(* options for the next plugin, hooks the slots taken, names what gensym    *)
(* gave, output_set.                                                        *)
NewCtx(p, file) ==
  [p |-> p, sink |-> <<>>, depth |-> 0, stack |-> <<file>>, frames |-> <<>>,
   pending |-> <<>>, hooks |-> 0, names |-> <<>>, output_set |-> FALSE]

(***************************************************************************)
(* Deferred expressions: Lua values, and the operators on them.            *)
(***************************************************************************)
Nil     == [t |-> "nil", e |-> NoExpr]
Num(n)  == [t |-> "number", e |-> Expr("int", NULL, n, NULL, <<>>)]
Str(s)  == [t |-> "string", e |-> Expr("symbol", NULL, 0, s, <<>>)]
Ud(e)   == [t |-> "expr", e |-> e]

(* A number is itself, a string the symbol of that name even if it is a     *)
(* numeral; NULL for anything else.                                         *)
lift_operand(v) == IF v.t \in {"expr", "number", "string"} THEN v.e ELSE NoExpr

(* Operands that cannot be lifted raise an error: the result is no value.   *)
Op(kind, op, args) ==
  IF \E i \in DOMAIN args : lift_operand(args[i]) = NoExpr THEN Nil
  ELSE Ud(Expr(kind, op, 0, NULL, [i \in DOMAIN args |-> lift_operand(args[i])]))

push_binary_mm(op, a, b) == Op("binary", op, <<a, b>>)

(* Lua turns what __eq, __lt and __le return into a boolean, and TRUE is    *)
(* what an expression turns into.                                           *)
mm_compare(op, a, b) == [t |-> "boolean", e |-> NoExpr]

mm_unm(a) == Op("unary", "neg", <<a>>)

mm_bnot(a) == Op("binary", "xor", <<a, Num(-1)>>)

l_symbol(name) == Ud(Expr("symbol", NULL, 0, name, <<>>))
l_dot          == Ud(Expr("dot", NULL, 0, NULL, <<>>))

l_align(a, b) == Op("align", NULL, <<a, b>>)

(* addr, loadaddr, sizeof, origin, length and defined.                      *)
l_named(kind, name) == Ud(Expr(kind, NULL, 0, name, <<>>))

l_max(a, b)     == Op("max", NULL, <<a, b>>)
l_min(a, b)     == Op("min", NULL, <<a, b>>)
l_abs(a)        == Op("unary", "abs", <<a>>)
l_cond(a, b, c) == Op("cond", NULL, <<a, b, c>>)

l_segment_start(name, d) ==
  IF lift_operand(d) = NoExpr THEN Nil
  ELSE Ud(Expr("segment_start", NULL, 0, name, <<lift_operand(d)>>))

(***************************************************************************)
(* The functions of the module.  Each gives [x, ok]: the context it leaves *)
(* and whether it returned.                                                *)
(***************************************************************************)
Ret(x)   == [x |-> x, ok |-> TRUE]
Raise(x) == [x |-> x, ok |-> FALSE]

(* The builder's plan, or its error.                                        *)
With(x, ps) == IF ps = {} THEN Raise(x) ELSE Ret([x EXCEPT !.p = CHOOSE p \in ps : TRUE])

(* A selector without patterns is refused when it is used.                  *)
apply_selector(x, el, name) ==
  IF el.globs = <<>> THEN Raise(x)
  ELSE With(x, plan_selector(x.p, name, el.file, el.globs, el.keep))

\* Mutant: a statement that was placed may be placed again.
RepeatingSinkApply(x, id, sec) ==
  LET s == x.sink[id]
  IN With(x, IF s.name = "." THEN plan_dotstep(x.p, s.expr, sec)
             ELSE plan_symbol_at(x.p, s.name, s.expr, s.provide, s.hidden, sec))

sink_apply(x, id, sec) ==
  LET s == x.sink[id]
      r == With(x, IF s.name = "." THEN plan_dotstep(x.p, s.expr, sec)
                   ELSE plan_symbol_at(x.p, s.name, s.expr, s.provide, s.hidden, sec))
  IN IF r.ok THEN Ret([r.x EXCEPT !.sink[id].consumed = TRUE]) ELSE r

(* An entry of a list: a selector (only inside out), a statement that       *)
(* nothing has consumed, or something that is passed over.                  *)
stmt_from_handle(x, el) ==
  {id \in DOMAIN x.sink : el.el = "stmt" /\ el.id = id /\ ~x.sink[id].consumed}

(* An attribute that is an expression.                                      *)
OutExpr(x, name, field, v) ==
  IF v = Nil THEN Ret(x)
  ELSE IF lift_operand(v) = NoExpr THEN Raise(x)
  ELSE With(x, plan_section_set(x.p, name, field, lift_operand(v)))

(***************************************************************************)
(* The loops over the arguments of a call.  loop: what it does with each   *)
(* of them, and the output section it is about.                            *)
(***************************************************************************)
OutLoop(does, name, sec) == [does |-> does, name |-> name, sec |-> sec]
Loop(does) == OutLoop(does, NULL, 0)

(* One argument.  An entry that is no selector and no statement is passed   *)
(* over.                                                                    *)
Round(x, loop, a) ==
  CASE loop.does = "input" -> With(x, plan_input(x.p, a, x.depth > 0, FALSE))
    [] loop.does = "search_path" -> With(x, plan_search_path(x.p, a))
    [] loop.does = "memory" ->
         With(x, plan_memory(x.p, a.name, a.attrs, a.origin, a.length))
    [] loop.does = "phdr" -> With(x, plan_phdr(x.p, a.name, a.type, a.flags, a.align))
    [] loop.does = "version" -> With(x, plan_version(x.p, a.sym, a.ver, a.def))
    [] loop.does = "attr" -> With(x, plan_section_set(x.p, loop.name, a.f, a.v))
    [] loop.does = "expr" -> OutExpr(x, loop.name, a.f, a.v)
    [] loop.does = "selector" ->
         IF a.el = "sel" THEN apply_selector(x, a, loop.name) ELSE Raise(x)
    [] loop.does = "entry" ->
         IF a.el = "sel" THEN apply_selector(x, a, loop.name)
         ELSE IF stmt_from_handle(x, a) # {} THEN sink_apply(x, a.id, loop.sec) ELSE Ret(x)
    [] loop.does = "stmt" ->
         IF stmt_from_handle(x, a) # {} THEN sink_apply(x, a.id, loop.sec) ELSE Ret(x)
    [] loop.does = "flush" -> IF x.sink[a].consumed THEN Ret(x) ELSE sink_apply(x, a, loop.sec)

(* Every argument until one raises.                                         *)
Each(x, loop, args) ==
  LET after[i \in 0 .. Len(args)] ==
        IF i = 0 THEN Ret(x)
        ELSE IF after[i - 1].ok THEN Round(after[i - 1].x, loop, args[i]) ELSE after[i - 1]
  IN after[Len(args)]

l_output(x, c) ==
  IF c.o.soname # NULL /\ c.o.kind # "dso" THEN Raise(x)
  ELSE LET r == With(x, plan_output(x.p, c.o))
       IN IF r.ok THEN Ret([r.x EXCEPT !.output_set = TRUE]) ELSE r

(* NULL is an argument that is no string.                                     *)
l_input(x, c) == Each(x, Loop("input"), c.paths)

l_group(x, c) ==
  IF \E i \in DOMAIN c.paths : c.paths[i] = NULL THEN Raise(x)
  ELSE IF c.paths = <<>> THEN Ret(x) ELSE With(x, plan_group(x.p, c.paths))

l_search_path(x, c) == Each(x, Loop("search_path"), c.paths)

l_startup(x, c) == With(x, plan_input(x.p, c.path, FALSE, TRUE))

l_memory(x, c) == Each(x, Loop("memory"), c.list)

l_sections(x, c) == Each(x, Loop("stmt"), c.body)

(* The section, its attributes, the selectors of input, then the entries in *)
(* their order.  A section that fails half way stays in the plan.           *)
l_out(x, c) ==
  LET sec   == Len(x.p.secs) + 1
      attrs == <<[f |-> "phdr", v |-> c.phdr], [f |-> "subalign", v |-> c.subalign],
                 [f |-> "load", v |-> c.load]>>
      exprs == <<[f |-> "vma", v |-> c.vma], [f |-> "at", v |-> c.at],
                 [f |-> "fill", v |-> c.fill]>>
      a == With(x, plan_section(x.p, c.name, c.region, c.align, <<>>, c.at_region))
      b == Each(a.x, OutLoop("attr", c.name, sec), attrs)
      d == Each(b.x, OutLoop("expr", c.name, sec), exprs)
      e == Each(d.x, OutLoop("selector", c.name, sec), c.input)
  IN IF ~a.ok THEN a ELSE IF ~d.ok THEN d ELSE IF ~e.ok THEN e
     ELSE Each(e.x, OutLoop("entry", c.name, sec), c.body)

l_phdrs(x, c) == Each(x, Loop("phdr"), c.list)

(* The first node of a version is the default one unless it says otherwise. *)
l_version(x, c) ==
  LET nodes == FlattenSeq([i \in DOMAIN c.list |->
                 [k \in DOMAIN c.list[i].globals |->
                    [sym |-> c.list[i].globals[k], ver |-> c.list[i].name,
                     def |-> IF c.list[i].default = "nil" THEN i = 1
                             ELSE c.list[i].default = "true"]]])
  IN Each(x, Loop("version"), nodes)

(* assign, provide and provide_hidden only take note of the statement.      *)
assign_impl(x, c) ==
  IF lift_operand(c.v) = NoExpr THEN Raise(x)
  ELSE Ret([x EXCEPT !.sink = Append(@, [name |-> c.name, expr |-> lift_operand(c.v),
                                         provide |-> c.provide, hidden |-> c.hidden,
                                         consumed |-> FALSE])])

(* hidden, weaken and alias.                                                *)
l_attr(x, c) == With(x, plan_attr(x.p, c.name, c.visibility, c.binding, c.alias))

(* gensym: a prefix that does not fit is cut, and then nothing is counted.  *)
l_gensym(x, c) ==
  Ret([x EXCEPT !.p = IF c.long THEN @ ELSE plan_gensym(@),
                !.names = Append(@, <<c.prefix, IF c.long THEN 0 ELSE x.p.gensym + 1>>)])

l_lto(x, c) ==
  IF c.enable /\ c.pipeline = NULL THEN Raise(x)
  ELSE With(x, plan_lto(x.p, c.pipeline, c.jobs, c.cache_dir))

(* Options but for those with these keys.                                   *)
Without(options, keys) == Filtered(options, {o \in Range(options) : o.key \notin keys})

(* The options that are pending join those of the call, which win, and are  *)
(* pending no more.                                                         *)
l_plugin(x, c) ==
  LET own == {c.opts[i].key : i \in DOMAIN c.opts}
      all == c.opts \o Without(x.pending, own)
  IN With([x EXCEPT !.pending = <<>>], plan_plugin(x.p, c.path, all))

l_plugin_opt(x, c) ==
  Ret([x EXCEPT !.pending = Append(Without(@, {c.key}),
                                   [key |-> c.key, val |-> c.val])])

(* A slot is taken before the plan is asked.                                *)
l_on(x, c) ==
  IF c.phase \notin {"resolved", "gc", "layout", "emit"} \/ x.hooks >= MaxHooks THEN Raise(x)
  ELSE With([x EXCEPT !.hooks = @ + 1], plan_hook(x.p, c.phase, c.cb))

(* error, a failed assert, and tostring of a deferred expression.           *)
l_error(x, c) == Raise(x)

Opens(path) == path \in File

(* A name with a slash in it is a path, any other is in the directory of    *)
(* the script that includes it.                                             *)
Beside(x, leaf) == IF Len(leaf) > 1 THEN leaf ELSE Front(Last(x.stack)) \o leaf

(* The path of an included script: the first that opens, there or along the *)
(* search paths of the plan.                                                *)
Candidate(x, leaf) ==
  LET tried == <<Beside(x, leaf)>> \o [i \in DOMAIN x.p.paths |-> <<x.p.paths[i]>> \o leaf]
      found == {i \in DOMAIN tried : Opens(tried[i])}
  IN {tried[i] : i \in {j \in found : \A k \in found : j <= k}}

(* A cycle is a path that is open already, spelled the same way.            *)
l_include(x, c) ==
  IF \/ ~c.lua \/ Len(x.stack) >= MaxInclude \/ Candidate(x, c.leaf) = {}
     \/ \E i \in DOMAIN x.stack : x.stack[i] \in Candidate(x, c.leaf)
  THEN Raise(x)
  ELSE Ret([x EXCEPT !.stack = Append(@, CHOOSE f \in Candidate(x, c.leaf) : TRUE),
                     !.frames = Append(@, "include")])

l_as_needed(x, c) ==
  Ret([x EXCEPT !.depth = @ + 1, !.frames = Append(@, "as_needed")])

(* pcall is Lua's own.                                                      *)
l_pcall(x, c) == Ret([x EXCEPT !.frames = Append(@, "pcall")])

(* The innermost open call is over, by a return or by an error.             *)
Leave(x) ==
  LET f == Last(x.frames)
  IN [x EXCEPT !.frames = Front(@),
               !.depth = IF f = "as_needed" THEN @ - 1 ELSE @,
               !.stack = IF f = "include" THEN Front(@) ELSE @]

\* Mutant: an error jumps to the pcall and closes nothing on the way.
JumpingUnwind(x) ==
  LET pcalls == {i \in DOMAIN x.frames : x.frames[i] = "pcall"}
  IN [x EXCEPT !.frames = IF pcalls = {} THEN <<>>
                          ELSE SubSeq(@, 1, (CHOOSE i \in pcalls : \A j \in pcalls : j <= i) - 1)]

(* An error leaves open calls until a pcall, which it leaves too.           *)
Unwind(x) ==
  LET pcalls == {i \in DOMAIN x.frames : x.frames[i] = "pcall"}
      keep   == IF pcalls = {} THEN 0 ELSE (CHOOSE i \in pcalls : \A j \in pcalls : j <= i) - 1
      out[n \in 0 .. Len(x.frames) - keep] == IF n = 0 THEN x ELSE Leave(out[n - 1])
  IN out[Len(x.frames) - keep]

Caught(x) == \E i \in DOMAIN x.frames : x.frames[i] = "pcall"

Do(x, c) ==
  CASE c.fn = "output" -> l_output(x, c)     [] c.fn = "input" -> l_input(x, c)
    [] c.fn = "group" -> l_group(x, c)       [] c.fn = "search_path" -> l_search_path(x, c)
    [] c.fn = "startup" -> l_startup(x, c)   [] c.fn = "memory" -> l_memory(x, c)
    [] c.fn = "sections" -> l_sections(x, c) [] c.fn = "out" -> l_out(x, c)
    [] c.fn = "phdrs" -> l_phdrs(x, c)       [] c.fn = "version" -> l_version(x, c)
    [] c.fn = "assign" -> assign_impl(x, c)  [] c.fn = "attr" -> l_attr(x, c)
    [] c.fn = "gensym" -> l_gensym(x, c)     [] c.fn = "lto" -> l_lto(x, c)
    [] c.fn = "plugin" -> l_plugin(x, c)     [] c.fn = "plugin_opt" -> l_plugin_opt(x, c)
    [] c.fn = "on" -> l_on(x, c)             [] c.fn = "error" -> l_error(x, c)
    [] c.fn = "include" -> l_include(x, c)   [] c.fn = "as_needed" -> l_as_needed(x, c)
    [] c.fn = "pcall" -> l_pcall(x, c)

(* Lua looks a function up by its name, and a list argument is a sequence.  *)
ApiFunctions == {"output", "input", "group", "search_path", "startup", "memory", "sections",
                 "out", "phdrs", "version", "assign", "attr", "gensym", "lto", "plugin",
                 "plugin_opt", "on", "error", "include", "as_needed", "pcall"}

Listed(s) == s \in Seq(Range(s))

ASSUME CallAssumption ==
  \A c \in Call :
    /\ c.fn \in ApiFunctions
    /\ c.fn \in {"input", "search_path"} => Listed(c.paths)
    /\ c.fn \in {"memory", "phdrs", "version"} => Listed(c.list)
    /\ c.fn = "version" => \A i \in DOMAIN c.list : Listed(c.list[i].globals)
    /\ c.fn \in {"sections", "out"} => Listed(c.body)
    /\ c.fn = "out" => Listed(c.input)
    /\ c.fn = "plugin" => Listed(c.opts)
    /\ c.fn = "include" => Listed(c.leaf)

ASSUME DriverAssumption ==
  \A d \in Driver : /\ Listed(d.defines) /\ Listed(d.defsyms) /\ Listed(d.search_paths)
                    /\ Listed(d.inputs) /\ Listed(d.plugins)

(***************************************************************************)
(* The link as the driver runs it.                                         *)
(***************************************************************************)
(* -D and --defsym, then what the driver declares.                          *)
Declared(p, d) ==
  UNION {apply_driver_defs(q, d) : q \in Chain(Chain({p}, d, "defines"), d, "defsyms")}

Init ==
  /\ cmd \in Driver /\ stage = "setup" /\ calls = 0
  /\ ctx = NewCtx(plan_new("x86_64", "api"), NULL)

Fail == stage' = "failed" /\ UNCHANGED <<cmd, ctx, calls>>

(* No script and no input, a library that is not found, a -D without a      *)
(* value; and every ld-script: its grammar is refused by the parser library. *)
SetupFails == stage = "setup" /\ (~cmd.valid \/ cmd.script = "ld") /\ Fail

SetupLua ==
  /\ stage = "setup" /\ cmd.valid /\ cmd.script = "lua"
  /\ \E p \in Declared(plan_new("x86_64", "lua"), cmd) :
       ctx' = NewCtx([p EXCEPT !.reproducible = ~cmd.unsafe], cmd.main)
  /\ stage' = "script"
  /\ UNCHANGED <<cmd, calls>>

(* Without a script the command line is the plan; link_run gives it the     *)
(* default sections and seals it.                                           *)
SetupApi ==
  /\ stage = "setup" /\ cmd.valid /\ cmd.script = "none"
  /\ LET out == [NoOutput EXCEPT !.kind = "exe", !.format = "elf", !.entry = cmd.entry]
         ps  == UNION {Declared(q, cmd) : q \in plan_output(plan_new("x86_64", "api"), out)}
     IN \E p \in UNION {plan_seal(q) : q \in UNION {synthesize_defaults(r) : r \in ps}} :
          ctx' = NewCtx(p, NULL)
  /\ stage' = "sealed"
  /\ UNCHANGED <<cmd, calls>>

(* A call of the script, or of a hook while the link runs: what is open in  *)
(* a hook is opened and closed by the hook.                                 *)
Perform(c) ==
  LET r == Do(ctx, c)
  IN /\ ctx' = IF r.ok THEN r.x ELSE Unwind(r.x)
     /\ stage' = IF r.ok \/ Caught(r.x) THEN stage ELSE "failed"

ScriptCalls ==
  /\ stage \in {"script", "sealed"} /\ calls < MaxCalls
  /\ stage = "sealed" => ctx.p.hooks # <<>>
  /\ \E c \in Call : Perform(c)
  /\ calls' = calls + 1
  /\ UNCHANGED cmd

Returns ==
  /\ stage \in {"script", "sealed"} /\ ctx.frames # <<>>
  /\ ctx' = Leave(ctx)
  /\ UNCHANGED <<cmd, stage, calls>>

(* The end of the script: statements that nothing consumed go to the top    *)
(* level, then the default output, -e, and the seal.                        *)
Flushed(x) == Each(x, Loop("flush"), [i \in DOMAIN x.sink |-> i])

Finished(x, entry) ==
  LET def == [NoOutput EXCEPT !.kind = "exe", !.format = "elf"]
      ps  == IF x.output_set THEN {x.p} ELSE plan_output(x.p, def)
      qs  == UNION {driver_entry_override(p, entry) : p \in ps}
  IN UNION {plan_seal(q) : q \in qs}

Seal ==
  /\ stage = "script" /\ ctx.frames = <<>>
  /\ LET r  == Flushed(ctx)
         ps == IF r.ok THEN Finished(r.x, cmd.entry) ELSE {}
     IN IF ps = {} THEN ctx' = r.x /\ stage' = "failed"
        ELSE ctx' = [r.x EXCEPT !.p = CHOOSE p \in ps : TRUE] /\ stage' = "sealed"
  /\ UNCHANGED <<cmd, calls>>

Next == SetupFails \/ SetupLua \/ SetupApi \/ ScriptCalls \/ Returns \/ Seal

Spec == Init /\ [][Next]_vars

(***************************************************************************)
(* Properties                                                              *)
(***************************************************************************)
(* Types: every index that the context keeps is an index of what it is for. *)
LccwldTypeOK ==
  /\ stage \in {"setup", "script", "sealed", "failed"}
  /\ ctx.depth \in Nat /\ ctx.hooks \in 0 .. MaxHooks
  /\ \A i \in DOMAIN ctx.p.stmts : ctx.p.stmts[i].sec \in 0 .. Len(ctx.p.secs)
  /\ \A i \in DOMAIN ctx.p.hooks : i <= ctx.hooks
  /\ ctx.p.sealed = (stage = "sealed" \/ (stage = "failed" /\ ctx.p.sealed))

(* l_as_needed: an input is as-needed exactly when it was declared inside   *)
(* as_needed, also after errors that passed through it were caught.         *)
AsNeededScope ==
  stage # "failed" =>
    (ctx.depth > 0 <=> \E i \in DOMAIN ctx.frames : ctx.frames[i] = "as_needed")

(* assign, provide: in a plan that is sealed every statement of the script  *)
(* is there once, wherever and how often its handle was used, and those     *)
(* that were placed in a section come with the section that was declared    *)
(* around them.                                                             *)
StmtsOnce ==
  [][ stage = "script" /\ stage' = "sealed" =>
        LET made == [i \in DOMAIN ctx'.sink |-> <<ctx'.sink[i].name, ctx'.sink[i].expr>>]
            here == [i \in DOMAIN ctx'.p.stmts |-> <<ctx'.p.stmts[i].name, ctx'.p.stmts[i].expr>>]
            count(s, v) == Cardinality({i \in DOMAIN s : s[i] = v})
        IN \A v \in Range(made) \cup Range(here) : count(made, v) = count(here, v) ]_vars

(* ccwld_plan_seal: what is linked is what was hashed; hooks that call the  *)
(* builders while the link runs change nothing of it.                       *)
SealFrozen == ctx.p.sealed => ctx.p.serialized = <<serialize(ctx.p)>>

(* l_out: a selector belongs to the section it was written in, even when a  *)
(* section of that name was declared before.                                *)
SelectorsAtLast ==
  [][ stage = "script" /\ stage' = "script" =>
        \A i \in DOMAIN ctx.p.secs : ctx'.p.secs[i] = ctx.p.secs[i] ]_vars

(* l_include: the stack holds the main script and one path for each include *)
(* that is open, also after errors that passed through some, it has room,   *)
(* and no path is on it twice.  That is all the check for cycles gives: a   *)
(* script that has two paths may run inside itself.                         *)
IncludeSane ==
  /\ Len(ctx.stack) = 1 + Cardinality({i \in DOMAIN ctx.frames : ctx.frames[i] = "include"})
  /\ Len(ctx.stack) <= MaxInclude
  /\ \A i, j \in DOMAIN ctx.stack : i # j => ctx.stack[i] # ctx.stack[j]

(* gensym: names do not repeat, as long as prefixes fit the buffer.         *)
GensymFresh ==
  \A i, j \in {k \in DOMAIN ctx.names : ctx.names[k][2] # 0} : i # j => ctx.names[i] # ctx.names[j]

(* l_plugin: an option that plugin_opt gave reaches the next plugin that is *)
(* registered, and no other.                                                *)
PendingOnce ==
  [][ Len(ctx'.p.plugins) > Len(ctx.p.plugins) /\ stage = "script" =>
        /\ ctx'.pending = <<>>
        /\ \A i \in DOMAIN ctx.pending :
             \E k \in DOMAIN ctx'.p.plugins[Len(ctx'.p.plugins)].options :
               ctx'.p.plugins[Len(ctx'.p.plugins)].options[k].key = ctx.pending[i].key ]_vars

(* However a script nests calls, catches errors and includes files, the     *)
(* context is sound: scopes end with their calls, fresh names are fresh, and *)
(* the plan does not change any more once it is sealed.                     *)
ScriptSound == LccwldTypeOK /\ AsNeededScope /\ SealFrozen /\ IncludeSane /\ GensymFresh

(* What a script declared is in the plan as often as it should be and where *)
(* it should be: statements, selectors, plugins and their options.          *)
CallsKept == StmtsOnce /\ SelectorsAtLast /\ PendingOnce

=============================================================================
