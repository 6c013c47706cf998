---------------------------- MODULE DriverProofs ----------------------------
(***************************************************************************)
(* What the driver of CCWld does before and around the phases of a link.   *)
(*                                                                         *)
(* The script (Lccwld): for every command line, every set of calls and     *)
(* every number of them, the context of the front end is sound, and a plan *)
(* that is sealed does not change any more.                                *)
(*                                                                         *)
(* The cache (LinkCache): for every number of links, files and versions,   *)
(* what is in the cache was written to its end and is, but for the race    *)
(* between the hash and the load and for files that could not be read,     *)
(* what its key names; a link that reports success has left an output that *)
(* was written to its end.  Bytes are missing only where a loss went       *)
(* unnoticed.                                                              *)
(***************************************************************************)
EXTENDS Lccwld, LinkCache, SequenceLemmas, FiniteSetTheorems, TLAPS

(***************************************************************************)
(* Records and sequences of which only the shape matters.                  *)
(***************************************************************************)
Shaped(r, F) == r = [f \in F |-> r[f]]

PlanFields == {"target", "frontend", "output", "inputs", "paths", "mems", "secs", "stmts",
               "attrs", "phdrs", "vers", "plugins", "hooks", "lto", "env", "gensym",
               "reproducible", "sealed", "serialized"}

CtxFields == {"p", "sink", "depth", "stack", "frames", "pending", "hooks", "names",
              "output_set"}

Sets(r, f, v, s) == s = [r EXCEPT ![f] = v]

\* A field that is set is set, and the others stay.
LEMMA SetField ==
  ASSUME NEW r, NEW F, Shaped(r, F), NEW f \in F, NEW v, NEW s, Sets(r, f, v, s)
  PROVE  Shaped(s, F) /\ s[f] = v /\ \A g \in F : g # f => s[g] = r[g]
BY DEF Shaped, Sets

LEMMA ListedAppend ==
  ASSUME NEW s, Listed(s), NEW e
  PROVE  /\ Listed(Append(s, e)) /\ Len(Append(s, e)) = Len(s) + 1
         /\ Append(s, e)[Len(s) + 1] = e
         /\ \A i \in 1..Len(s) : Append(s, e)[i] = s[i]
<1> DEFINE S == Range(s) \cup {e}
           t == Append(s, e)
<1>1. s \in Seq(S)
  BY DEF Listed
<1>2. /\ t \in Seq(S) /\ Len(t) = Len(s) + 1 /\ t[Len(s) + 1] = e
      /\ \A i \in 1..Len(s) : t[i] = s[i]
  BY <1>1, AppendProperties
<1>3. Listed(t)
  <2> HIDE DEF t, S
  <2>1. t \in [1..Len(t) -> Range(t)] /\ Len(t) \in Nat
    BY <1>2 DEF Range
  <2> QED
    BY <2>1 DEF Listed
<1> QED
  BY <1>2, <1>3

LEMMA ListedFacts ==
  ASSUME NEW s, Listed(s)
  PROVE  Len(s) \in Nat /\ DOMAIN s = 1..Len(s) /\ s = [i \in 1..Len(s) |-> s[i]]
BY DEF Listed

LEMMA ListedOf ==
  ASSUME NEW n \in Nat, NEW s, s = [i \in 1..n |-> s[i]]
  PROVE  Listed(s) /\ Len(s) = n
<1>1. s \in [1..n -> Range(s)]
  BY DEF Range
<1> QED
  BY <1>1 DEF Listed

LEMMA ListedSet ==
  ASSUME NEW s, Listed(s), NEW i, NEW e, NEW t, Sets(s, i, e, t)
  PROVE  /\ Listed(t) /\ Len(t) = Len(s)
         /\ \A j \in DOMAIN s : t[j] = IF j = i THEN e ELSE s[j]
<1>1. t = [j \in 1..Len(s) |-> IF j = i THEN e ELSE s[j]]
  BY ListedFacts DEF Sets
<1> QED
  BY <1>1, ListedFacts, ListedOf

LEMMA ListedFront ==
  ASSUME NEW s, Listed(s), Len(s) # 0
  PROVE  /\ Listed(Front(s)) /\ Len(Front(s)) = Len(s) - 1 /\ Last(s) = s[Len(s)]
         /\ \A i \in 1..(Len(s) - 1) : Front(s)[i] = s[i]
<1>1. s \in Seq(Range(s)) /\ Len(s) \in Nat /\ Len(s) > 0
  BY ListedFacts DEF Listed
<1> DEFINE t == Front(s)
<1>2. t = SubSeq(s, 1, Len(s) - 1)
  BY DEF Front
<1> HIDE DEF t
<1>3. t \in Seq(Range(s)) /\ Len(t) = Len(s) - 1 /\ \A i \in 1..(Len(s) - 1) : t[i] = s[i]
  <2>1. \A i \in 1 .. (Len(s) - 1) : s[i] \in Range(s)
    BY <1>1
  <2>2. Len(s) - 1 \in Int /\ (1 <= Len(s) - 1 \/ Len(s) - 1 = 0)
    <3>1. \A n \in Nat : n > 0 => n - 1 \in Int /\ (1 <= n - 1 \/ n - 1 = 0)
      OBVIOUS
    <3>2. Len(s) \in Nat /\ Len(s) > 0
      BY <1>1
    <3> QED
      BY <3>1, <3>2
  <2> QED
    BY <1>1, <1>2, <2>1, <2>2, SubSeqProperties
<1>4. t = [i \in 1..(Len(s) - 1) |-> t[i]]
  <2>1. t = [i \in 1..Len(t) |-> t[i]]
    BY <1>3
  <2> QED
    BY <2>1, <1>3
<1>5. Listed(t)
  BY <1>1, <1>4, ListedOf
<1> QED
  BY <1>3, <1>5 DEF t, Last

(***************************************************************************)
(* The builders: a plan that is sealed is left alone.                      *)
(***************************************************************************)
(* The plan as the context relies on it; sealed, it is what was serialized. *)
PlanOK(p) ==
  /\ Shaped(p, PlanFields)
  /\ p.gensym \in Nat /\ p.sealed \in BOOLEAN
  /\ Listed(p.hooks) /\ Listed(p.stmts) /\ Listed(p.secs) /\ Listed(p.plugins)
  /\ \A i \in DOMAIN p.stmts : p.stmts[i].sec \in 0 .. Len(p.secs)
  /\ p.sealed => p.serialized = <<serialize(p)>>

(* What a builder does to the plan, as far as the context can tell.         *)
PlanKept(p, q) ==
  /\ PlanOK(q)
  /\ q.sealed = p.sealed /\ q.gensym = p.gensym
  /\ Len(q.hooks) = Len(p.hooks) /\ Len(q.secs) >= Len(p.secs)

(* What is declared to stay where it was declared.                          *)
PlanStays(p, q) == q.secs = p.secs /\ q.stmts = p.stmts /\ q.plugins = p.plugins

Watched == {"gensym", "sealed", "hooks", "stmts", "secs", "serialized"}

LEMMA KeptRefl ==
  ASSUME NEW p, PlanOK(p) PROVE PlanKept(p, p)
BY ListedFacts DEF PlanOK, PlanKept

LEMMA KeptTrans ==
  ASSUME NEW p, NEW q, NEW r, PlanOK(p), PlanKept(p, q), PlanKept(q, r)
  PROVE  PlanKept(p, r)
<1>1. Len(p.secs) \in Nat /\ Len(q.secs) \in Nat /\ Len(r.secs) \in Nat
  BY ListedFacts DEF PlanOK, PlanKept
<1> QED
  BY <1>1 DEF PlanKept

\* Most builders write a field of their own.
LEMMA OtherField ==
  ASSUME NEW p, PlanOK(p), ~p.sealed, NEW f \in PlanFields \ Watched, NEW v,
         f = "plugins" => Listed(v), NEW q, Sets(p, f, v, q)
  PROVE  /\ PlanKept(p, q) /\ q.secs = p.secs /\ q.stmts = p.stmts /\ q[f] = v
         /\ f # "plugins" => PlanStays(p, q)
<1>1. Shaped(q, PlanFields) /\ q[f] = v /\ \A g \in PlanFields : g # f => q[g] = p[g]
  <2>1. Shaped(p, PlanFields) /\ f \in PlanFields
    BY DEF PlanOK
  <2> QED
    BY <2>1, SetField
<1>2. /\ q["gensym"] = p["gensym"] /\ q["sealed"] = p["sealed"] /\ q["hooks"] = p["hooks"]
      /\ q["stmts"] = p["stmts"] /\ q["secs"] = p["secs"]
  BY <1>1 DEF PlanFields, Watched
<1>3. /\ q.gensym = p.gensym /\ q.sealed = p.sealed /\ q.hooks = p.hooks
      /\ q.stmts = p.stmts /\ q.secs = p.secs
  BY <1>2
<1>5. q["plugins"] = IF f = "plugins" THEN v ELSE p["plugins"]
  BY <1>1 DEF PlanFields
<1>6. (f # "plugins" => q.plugins = p.plugins) /\ Listed(q.plugins)
  BY <1>5 DEF PlanOK
<1>4. PlanKept(p, q)
  BY <1>1, <1>3, <1>6, ListedFacts DEF PlanOK, PlanKept
<1> QED
  BY <1>1, <1>3, <1>4, <1>6 DEF PlanStays

\* A section is added or changed.
LEMMA SectionsField ==
  ASSUME NEW p, PlanOK(p), ~p.sealed, NEW v, Listed(v), Len(v) >= Len(p.secs), NEW q,
         Sets(p, "secs", v, q)
  PROVE  PlanKept(p, q) /\ q.secs = v /\ q.stmts = p.stmts /\ q.plugins = p.plugins
<1>1. Shaped(p, PlanFields) /\ "secs" \in PlanFields
  BY DEF PlanOK, PlanFields
<1>2. Shaped(q, PlanFields) /\ q["secs"] = v /\ \A g \in PlanFields : g # "secs" => q[g] = p[g]
  BY <1>1, SetField
<1>3. /\ q["gensym"] = p["gensym"] /\ q["sealed"] = p["sealed"] /\ q["hooks"] = p["hooks"]
      /\ q["stmts"] = p["stmts"] /\ q["plugins"] = p["plugins"]
  BY <1>2 DEF PlanFields
<1>4. /\ q.gensym = p.gensym /\ q.sealed = p.sealed /\ q.hooks = p.hooks
      /\ q.stmts = p.stmts /\ q.secs = v /\ q.plugins = p.plugins
  BY <1>2, <1>3
<1>5. Len(p.secs) \in Nat /\ Len(v) \in Nat
  BY ListedFacts DEF PlanOK
<1>6. \A i \in DOMAIN q.stmts : q.stmts[i].sec \in 0 .. Len(q.secs)
  BY <1>4, <1>5 DEF PlanOK
<1> QED
  BY <1>2, <1>4, <1>5, <1>6, ListedFacts DEF PlanOK, PlanKept

\* A statement is added, inside a section that there is.
LEMMA StatementsField ==
  ASSUME NEW p, PlanOK(p), ~p.sealed, NEW e, e.sec \in 0 .. Len(p.secs), NEW q,
         Sets(p, "stmts", Append(p.stmts, e), q)
  PROVE  /\ PlanKept(p, q) /\ q.secs = p.secs /\ q.plugins = p.plugins
         /\ q.stmts = Append(p.stmts, e)
<1>1. Shaped(p, PlanFields) /\ "stmts" \in PlanFields
  BY DEF PlanOK, PlanFields
<1> DEFINE v == Append(p.stmts, e)
<1>9. Sets(p, "stmts", v, q)
  OBVIOUS
<1>2. Shaped(q, PlanFields) /\ q["stmts"] = v /\ \A g \in PlanFields : g # "stmts" => q[g] = p[g]
  <2> HIDE DEF v
  <2> QED
    BY <1>1, <1>9, SetField
<1>3. /\ q["gensym"] = p["gensym"] /\ q["sealed"] = p["sealed"] /\ q["hooks"] = p["hooks"]
      /\ q["secs"] = p["secs"] /\ q["plugins"] = p["plugins"]
  BY <1>2 DEF PlanFields
<1>4. /\ q.gensym = p.gensym /\ q.sealed = p.sealed /\ q.hooks = p.hooks
      /\ q.secs = p.secs /\ q.stmts = v /\ q.plugins = p.plugins
  BY <1>2, <1>3
<1>5. /\ Listed(v) /\ Len(v) = Len(p.stmts) + 1 /\ v[Len(p.stmts) + 1] = e
      /\ \A i \in 1..Len(p.stmts) : v[i] = p.stmts[i]
  BY ListedAppend DEF PlanOK
<1>v. v = Append(p.stmts, e)
  OBVIOUS
<1> HIDE DEF v
<1>6. /\ Len(p.stmts) \in Nat /\ DOMAIN p.stmts = 1..Len(p.stmts)
      /\ DOMAIN v = 1..(Len(p.stmts) + 1)
  BY <1>5, ListedFacts DEF PlanOK
<1>7. ASSUME NEW i \in DOMAIN v PROVE v[i].sec \in 0 .. Len(p.secs)
  <2>1. CASE i = Len(p.stmts) + 1
    BY <2>1, <1>5
  <2>2. CASE i # Len(p.stmts) + 1
    <3>1. i \in 1..Len(p.stmts)
      BY <2>2, <1>6
    <3> QED
      BY <3>1, <1>5, <1>6 DEF PlanOK
  <2> QED
    BY <2>1, <2>2
<1>8. Len(p.secs) \in Nat /\ Len(p.hooks) \in Nat
  BY ListedFacts DEF PlanOK
<1> QED
  BY <1>v, <1>2, <1>4, <1>5, <1>7, <1>8 DEF PlanOK, PlanKept

LEMMA OutputKept ==
  ASSUME NEW p, PlanOK(p), NEW o,
         NEW q \in plan_output(p, o)
  PROVE  PlanKept(p, q) /\ PlanStays(p, q)
<1>1. ~p.sealed /\ \E v : Sets(p, "output", v, q)
  BY DEF plan_output, Built, Sets
<1> QED
  BY <1>1, OtherField DEF PlanFields, Watched

LEMMA InputKept ==
  ASSUME NEW p, PlanOK(p), NEW path, NEW as_needed, NEW startup,
         NEW q \in plan_input(p, path, as_needed, startup)
  PROVE  PlanKept(p, q) /\ PlanStays(p, q)
<1>1. ~p.sealed /\ \E v : Sets(p, "inputs", v, q)
  BY DEF plan_input, Built, Sets
<1> QED
  BY <1>1, OtherField DEF PlanFields, Watched

LEMMA GroupKept ==
  ASSUME NEW p, PlanOK(p), NEW paths,
         NEW q \in plan_group(p, paths)
  PROVE  PlanKept(p, q) /\ PlanStays(p, q)
<1>1. ~p.sealed /\ \E v : Sets(p, "inputs", v, q)
  BY DEF plan_group, Built, Sets
<1> QED
  BY <1>1, OtherField DEF PlanFields, Watched

LEMMA SearchPathKept ==
  ASSUME NEW p, PlanOK(p), NEW path,
         NEW q \in plan_search_path(p, path)
  PROVE  PlanKept(p, q) /\ PlanStays(p, q)
<1>1. ~p.sealed /\ \E v : Sets(p, "paths", v, q)
  BY DEF plan_search_path, Built, Sets
<1> QED
  BY <1>1, OtherField DEF PlanFields, Watched

LEMMA MemoryKept ==
  ASSUME NEW p, PlanOK(p), NEW name, NEW attrs, NEW origin, NEW length,
         NEW q \in plan_memory(p, name, attrs, origin, length)
  PROVE  PlanKept(p, q) /\ PlanStays(p, q)
<1>1. ~p.sealed /\ \E v : Sets(p, "mems", v, q)
  BY DEF plan_memory, Built, Sets
<1> QED
  BY <1>1, OtherField DEF PlanFields, Watched

LEMMA AttrKept ==
  ASSUME NEW p, PlanOK(p), NEW name, NEW visibility, NEW binding, NEW alias,
         NEW q \in plan_attr(p, name, visibility, binding, alias)
  PROVE  PlanKept(p, q) /\ PlanStays(p, q)
<1>1. ~p.sealed /\ \E v : Sets(p, "attrs", v, q)
  BY DEF plan_attr, Built, Sets
<1> QED
  BY <1>1, OtherField DEF PlanFields, Watched

LEMMA PhdrKept ==
  ASSUME NEW p, PlanOK(p), NEW name, NEW type, NEW flags, NEW align,
         NEW q \in plan_phdr(p, name, type, flags, align)
  PROVE  PlanKept(p, q) /\ PlanStays(p, q)
<1>1. ~p.sealed /\ \E v : Sets(p, "phdrs", v, q)
  BY DEF plan_phdr, Built, Sets
<1> QED
  BY <1>1, OtherField DEF PlanFields, Watched

LEMMA VersionKept ==
  ASSUME NEW p, PlanOK(p), NEW symbol, NEW version, NEW is_default,
         NEW q \in plan_version(p, symbol, version, is_default)
  PROVE  PlanKept(p, q) /\ PlanStays(p, q)
<1>1. ~p.sealed /\ \E v : Sets(p, "vers", v, q)
  BY DEF plan_version, Built, Sets
<1> QED
  BY <1>1, OtherField DEF PlanFields, Watched

LEMMA LtoKept ==
  ASSUME NEW p, PlanOK(p), NEW pipeline, NEW jobs, NEW cache_dir,
         NEW q \in plan_lto(p, pipeline, jobs, cache_dir)
  PROVE  PlanKept(p, q) /\ PlanStays(p, q)
<1>1. ~p.sealed /\ \E v : Sets(p, "lto", v, q)
  BY DEF plan_lto, Built, Sets
<1> QED
  BY <1>1, OtherField DEF PlanFields, Watched

LEMMA PluginAdded ==
  ASSUME NEW p, PlanOK(p), NEW path, NEW options,
         NEW q \in plan_plugin(p, path, options)
  PROVE  /\ PlanKept(p, q) /\ q.secs = p.secs /\ q.stmts = p.stmts
         /\ q.plugins = Append(p.plugins, [path |-> path, options |-> options])
<1> DEFINE v == Append(p.plugins, [path |-> path, options |-> options])
<1>1. ~p.sealed /\ Sets(p, "plugins", v, q)
  BY DEF plan_plugin, Built, Sets
<1>3. Listed(v)
  BY ListedAppend DEF PlanOK
<1> HIDE DEF v
<1>2. PlanKept(p, q) /\ q.secs = p.secs /\ q.stmts = p.stmts /\ q["plugins"] = v
  BY <1>1, <1>3, OtherField DEF PlanFields, Watched
<1> QED
  BY <1>2 DEF v

LEMMA PluginKept ==
  ASSUME NEW p, PlanOK(p), NEW path, NEW options,
         NEW q \in plan_plugin(p, path, options)
  PROVE  PlanKept(p, q) /\ q.secs = p.secs /\ q.stmts = p.stmts
<1> DEFINE v == Append(p.plugins, [path |-> path, options |-> options])
<1>1. /\ PlanKept(p, q) /\ q.secs = p.secs /\ q.stmts = p.stmts /\ q.plugins = v
  BY PluginAdded
<1> HIDE DEF v
<1> QED
  BY <1>1

LEMMA EnvKept ==
  ASSUME NEW p, PlanOK(p), NEW name, NEW val, NEW defsym,
         NEW q \in plan_env(p, name, val, defsym)
  PROVE  PlanKept(p, q) /\ PlanStays(p, q)
<1>1. ~p.sealed /\ \E v : Sets(p, "env", v, q)
  BY DEF plan_env, Built, Sets
<1> QED
  BY <1>1, OtherField DEF PlanFields, Watched

(* The section that is being declared is the last one, and has its name.    *)
SecFields == {"name", "region", "at_region", "phdr", "align", "subalign", "load", "vma", "at",
              "fill", "sels"}

Latest(p, q, name) ==
  LET n == Len(p.secs) + 1
  IN /\ Len(q.secs) = n /\ Shaped(q.secs[n], SecFields) /\ q.secs[n].name = name
     /\ \A i \in 1..Len(p.secs) : q.secs[i] = p.secs[i]

LEMMA SectionKept ==
  ASSUME NEW p, PlanOK(p), NEW name, NEW region, NEW align, NEW selector, NEW at_region,
         NEW q \in plan_section(p, name, region, align, selector, at_region)
  PROVE  /\ PlanKept(p, q) /\ Len(q.secs) = Len(p.secs) + 1
         /\ q.stmts = p.stmts /\ q.plugins = p.plugins /\ Latest(p, q, name)
<1> DEFINE Sec(e) == Shaped(e, SecFields) /\ e.name = name
<1>1. ~p.sealed /\ \E e : Sec(e) /\ Sets(p, "secs", Append(p.secs, e), q)
  <2> DEFINE e == [name |-> name, region |-> region, at_region |-> at_region, phdr |-> NULL,
                   align |-> IF align = 0 THEN 1 ELSE align, subalign |-> 0, load |-> TRUE,
                   vma |-> NoExpr, at |-> NoExpr, fill |-> NoExpr,
                   sels |-> split_selector(selector, FALSE) \o split_selector(<<>>, TRUE)]
  <2>1. Sec(e)
    BY DEF Shaped, SecFields
  <2>2. ~p.sealed /\ Sets(p, "secs", Append(p.secs, e), q)
    BY DEF plan_section, plan_section_full, Built, Sets
  <2> HIDE DEF e
  <2> QED
    BY <2>1, <2>2
<1>2. PICK e : Sec(e) /\ Sets(p, "secs", Append(p.secs, e), q)
  BY <1>1
<1> DEFINE v == Append(p.secs, e)
<1>3. /\ Listed(v) /\ Len(v) = Len(p.secs) + 1 /\ Len(p.secs) \in Nat
      /\ v[Len(p.secs) + 1] = e /\ \A i \in 1..Len(p.secs) : v[i] = p.secs[i]
  BY ListedAppend, ListedFacts DEF PlanOK
<1>4. Sets(p, "secs", v, q)
  BY <1>2
<1> HIDE DEF v
<1>8. PlanKept(p, q) /\ q.secs = v /\ q.stmts = p.stmts /\ q.plugins = p.plugins
  BY <1>1, <1>3, <1>4, SectionsField
<1>9. Latest(p, q, name)
  BY <1>2, <1>3, <1>8 DEF Latest
<1> QED
  BY <1>3, <1>8, <1>9

(* One attribute of the last section with a name is written.                *)
Written(p, q, name, field) ==
  \E i \in last_section(p, name) :
    \E w, e : Sets(p.secs[i], field, w, e) /\ Sets(p.secs, i, e, q.secs)

LEMMA WrittenKept ==
  ASSUME NEW p, PlanOK(p), ~p.sealed, NEW name, NEW field, NEW i \in last_section(p, name),
         NEW w, NEW e, Sets(p.secs[i], field, w, e), NEW v, Sets(p.secs, i, e, v),
         NEW q, Sets(p, "secs", v, q)
  PROVE  /\ PlanKept(p, q) /\ q.stmts = p.stmts /\ q.plugins = p.plugins
         /\ Written(p, q, name, field)
<1>3. Listed(p.secs)
  BY DEF PlanOK
<1>4. Listed(v) /\ Len(v) = Len(p.secs) /\ Len(p.secs) \in Nat
  BY <1>3, ListedSet, ListedFacts
<1>5. PlanKept(p, q) /\ q.secs = v /\ q.stmts = p.stmts /\ q.plugins = p.plugins
  BY <1>4, SectionsField
<1> QED
  BY <1>5 DEF Written

LEMMA SelectorKept ==
  ASSUME NEW p, PlanOK(p), NEW name, NEW file, NEW globs, NEW keep,
         NEW q \in plan_selector(p, name, file, globs, keep)
  PROVE  /\ PlanKept(p, q) /\ q.stmts = p.stmts /\ q.plugins = p.plugins
         /\ Written(p, q, name, "sels")
<1>1. PICK i \in last_section(p, name) :
        /\ ~p.sealed
        /\ q = [p EXCEPT !.secs[i].sels = Append(@, [file |-> file, globs |-> globs, keep |-> keep])]
  BY DEF plan_selector, Built
<1> DEFINE w == Append(p.secs[i].sels, [file |-> file, globs |-> globs, keep |-> keep])
           e == [p.secs[i] EXCEPT !["sels"] = w]
           v == [p.secs EXCEPT ![i] = e]
<1>2. Sets(p.secs[i], "sels", w, e) /\ Sets(p.secs, i, e, v) /\ Sets(p, "secs", v, q)
  BY <1>1 DEF Sets
<1>3. ~p.sealed
  BY <1>1
<1> HIDE DEF w, e, v
<1> QED
  BY <1>2, <1>3, WrittenKept

LEMMA SectionSetKept ==
  ASSUME NEW p, PlanOK(p), NEW name, NEW field, NEW w,
         NEW q \in plan_section_set(p, name, field, w)
  PROVE  /\ PlanKept(p, q) /\ q.stmts = p.stmts /\ q.plugins = p.plugins
         /\ Written(p, q, name, field)
<1>1. PICK i \in last_section(p, name) :
        ~p.sealed /\ q = [p EXCEPT !.secs[i][field] = w]
  BY DEF plan_section_set, Built
<1> DEFINE e == [p.secs[i] EXCEPT ![field] = w]
           v == [p.secs EXCEPT ![i] = e]
<1>2. Sets(p.secs[i], field, w, e) /\ Sets(p.secs, i, e, v) /\ Sets(p, "secs", v, q)
  BY <1>1 DEF Sets
<1>3. ~p.sealed
  BY <1>1
<1> HIDE DEF e, v
<1> QED
  BY <1>2, <1>3, WrittenKept

LEMMA LatestKept ==
  ASSUME NEW p, PlanOK(p), NEW q, PlanOK(q), NEW name, Latest(p, q, name),
         NEW field \in SecFields \ {"name"}, NEW r, Written(q, r, name, field)
  PROVE  Latest(p, r, name)
<1> DEFINE n == Len(p.secs) + 1
<1>1. /\ Len(q.secs) = n /\ Shaped(q.secs[n], SecFields) /\ q.secs[n].name = name
      /\ \A i \in 1..Len(p.secs) : q.secs[i] = p.secs[i]
  BY DEF Latest
<1>2. Len(p.secs) \in Nat /\ DOMAIN q.secs = 1..n /\ Listed(q.secs)
  BY <1>1, ListedFacts DEF PlanOK
<1>3. PICK i \in last_section(q, name) :
        \E w, e : Sets(q.secs[i], field, w, e) /\ Sets(q.secs, i, e, r.secs)
  BY DEF Written
<1>4. i = n
  BY <1>1, <1>2 DEF last_section
<1>5. PICK w, e : Sets(q.secs[n], field, w, e) /\ Sets(q.secs, n, e, r.secs)
  BY <1>3, <1>4
<1>6. Shaped(e, SecFields) /\ e["name"] = q.secs[n]["name"]
  <2>1. field \in SecFields /\ "name" \in SecFields /\ field # "name"
    BY DEF SecFields
  <2> HIDE DEF n
  <2> QED
    BY <1>1, <1>5, <2>1, SetField
<1>7. /\ Listed(r.secs) /\ Len(r.secs) = n /\ r.secs[n] = e
      /\ \A j \in 1..n : j # n => r.secs[j] = q.secs[j]
  BY <1>1, <1>2, <1>5, ListedSet
<1> QED
  BY <1>1, <1>2, <1>6, <1>7 DEF Latest

LEMMA SymbolKept ==
  ASSUME NEW p, PlanOK(p), NEW name, NEW expr, NEW provide, NEW hidden,
         NEW sec \in 0 .. Len(p.secs),
         NEW q \in plan_symbol_at(p, name, expr, provide, hidden, sec)
  PROVE  /\ PlanKept(p, q) /\ q.secs = p.secs /\ q.plugins = p.plugins
         /\ \E e : e.name = name /\ e.expr = expr /\ q.stmts = Append(p.stmts, e)
<1>1. ~p.sealed /\ \E e : /\ e.sec = sec /\ e.name = name /\ e.expr = expr
                          /\ Sets(p, "stmts", Append(p.stmts, e), q)
  BY DEF plan_symbol_at, Built, Sets
<1> QED
  BY <1>1, StatementsField

LEMMA DotstepKept ==
  ASSUME NEW p, PlanOK(p), NEW expr, NEW sec \in 0 .. Len(p.secs),
         NEW q \in plan_dotstep(p, expr, sec)
  PROVE  /\ PlanKept(p, q) /\ q.secs = p.secs /\ q.plugins = p.plugins
         /\ \E e : e.name = "." /\ e.expr = expr /\ q.stmts = Append(p.stmts, e)
<1>1. ~p.sealed /\ \E e : /\ e.sec = sec /\ e.name = "." /\ e.expr = expr
                          /\ Sets(p, "stmts", Append(p.stmts, e), q)
  BY DEF plan_dotstep, Built, Sets
<1> QED
  BY <1>1, StatementsField

(***************************************************************************)
(* How often a value is in a sequence.                                     *)
(***************************************************************************)
Count(s, v) == Cardinality({i \in DOMAIN s : s[i] = v})

LEMMA CountFinite ==
  ASSUME NEW s, Listed(s), NEW v
  PROVE  IsFiniteSet({i \in DOMAIN s : s[i] = v}) /\ Count(s, v) \in Nat
<1>1. DOMAIN s = 1..Len(s) /\ Len(s) \in Nat /\ 1 \in Int /\ Len(s) \in Int
  BY ListedFacts
<1>2. IsFiniteSet(1..Len(s))
  BY <1>1, FS_Interval
<1>3. {i \in DOMAIN s : s[i] = v} \subseteq 1..Len(s)
  BY <1>1
<1>4. IsFiniteSet({i \in DOMAIN s : s[i] = v})
  BY <1>2, <1>3, FS_Subset
<1> QED
  BY <1>4, FS_CardinalityType DEF Count

\* One more element.
LEMMA CountLonger ==
  ASSUME NEW s, Listed(s), NEW t, Listed(t), Len(t) = Len(s) + 1,
         \A i \in 1..Len(s) : t[i] = s[i], NEW v
  PROVE  Count(t, v) = Count(s, v) + (IF t[Len(t)] = v THEN 1 ELSE 0)
<1> DEFINE A == {i \in DOMAIN s : s[i] = v}
           B == {i \in DOMAIN t : t[i] = v}
<1>1. /\ DOMAIN s = 1..Len(s) /\ Len(s) \in Nat
      /\ DOMAIN t = 1..(Len(s) + 1)
  BY ListedFacts
<1>2. IsFiniteSet(A) /\ Cardinality(A) \in Nat
  BY CountFinite DEF Count
<1>3. CASE t[Len(t)] = v
  <2>1. B = A \cup {Len(s) + 1} /\ Len(s) + 1 \notin A
    BY <1>1, <1>3
  <2> HIDE DEF A, B
  <2>2. Cardinality(B) = Cardinality(A) + 1
    BY <1>2, <2>1, FS_AddElement
  <2> QED
    BY <2>2, <1>3 DEF Count, A, B
<1>4. CASE t[Len(t)] # v
  <2>1. B = A
    BY <1>1, <1>4
  <2>2. Count(s, v) = Cardinality(A) /\ Count(t, v) = Cardinality(B)
    BY DEF Count
  <2> HIDE DEF A, B
  <2> QED
    BY <2>1, <2>2, <1>2, <1>4
<1> QED
  BY <1>3, <1>4

LEMMA CountAppend ==
  ASSUME NEW s, Listed(s), NEW e, NEW v
  PROVE  /\ Count(Append(s, e), v) = Count(s, v) + (IF e = v THEN 1 ELSE 0)
         /\ Count(s, v) \in Nat
<1> DEFINE t == Append(s, e)
<1>1. /\ Listed(t) /\ Len(t) = Len(s) + 1 /\ t[Len(t)] = e
      /\ \A i \in 1..Len(s) : t[i] = s[i]
  BY ListedAppend
<1> HIDE DEF t
<1>2. Count(t, v) = Count(s, v) + (IF t[Len(t)] = v THEN 1 ELSE 0)
  BY <1>1, CountLonger
<1> QED
  BY <1>1, <1>2, CountFinite DEF t

LEMMA CountFront ==
  ASSUME NEW s, Listed(s), Len(s) # 0, NEW v
  PROVE  /\ Count(s, v) = Count(Front(s), v) + (IF Last(s) = v THEN 1 ELSE 0)
         /\ Count(Front(s), v) \in Nat
<1> DEFINE t == Front(s)
<1>1. /\ Listed(t) /\ Len(s) = Len(t) + 1 /\ Last(s) = s[Len(s)]
      /\ \A i \in 1..Len(t) : s[i] = t[i]
  BY ListedFront, ListedFacts
<1> HIDE DEF t
<1>2. Count(s, v) = Count(t, v) + (IF s[Len(s)] = v THEN 1 ELSE 0)
  BY <1>1, CountLonger
<1> QED
  BY <1>1, <1>2, CountFinite DEF t

LEMMA CountPositive ==
  ASSUME NEW s, Listed(s), NEW v
  PROVE  Count(s, v) > 0 <=> \E i \in DOMAIN s : s[i] = v
<1> DEFINE A == {i \in DOMAIN s : s[i] = v}
<1>1. IsFiniteSet(A) /\ Cardinality(A) \in Nat
  BY CountFinite DEF Count
<1>2. Cardinality(A) = 0 <=> A = {}
  <2> HIDE DEF A
  <2> QED
    BY <1>1, FS_EmptySet
<1>3. A # {} <=> \E i \in DOMAIN s : s[i] = v
  OBVIOUS
<1> HIDE DEF A
<1> QED
  BY <1>1, <1>2, <1>3 DEF Count, A

LEMMA CountEmpty ==
  ASSUME NEW v PROVE Listed(<<>>) /\ Len(<<>>) = 0 /\ Count(<<>>, v) = 0
<1>1. {i \in DOMAIN <<>> : <<>>[i] = v} = {}
  OBVIOUS
<1>2. Cardinality({}) = 0
  BY FS_EmptySet
<1> QED
  BY <1>1, <1>2 DEF Listed, Count

(***************************************************************************)
(* The context.                                                            *)
(***************************************************************************)
(* The open calls account for the depth and for the paths on the stack,     *)
(* which are different.                                                     *)
ScopesOK(x) ==
  /\ Listed(x.frames) /\ Listed(x.stack)
  /\ x.depth = Count(x.frames, "as_needed")
  /\ Len(x.stack) = 1 + Count(x.frames, "include")
  /\ Len(x.stack) <= MaxInclude
  /\ \A i, j \in DOMAIN x.stack : i # j => x.stack[i] # x.stack[j]

(* The names that were given carry numbers that the counter has passed.     *)
NamesOK(x) ==
  /\ Listed(x.names)
  /\ \A k \in DOMAIN x.names : x.names[k][2] \in 0 .. x.p.gensym
  /\ \A i, j \in DOMAIN x.names :
       x.names[i][2] # 0 /\ x.names[i][2] = x.names[j][2] => i = j

(* A slot is taken for every hook of the plan.                              *)
HooksOK(x) == x.hooks \in 0 .. MaxHooks /\ Len(x.p.hooks) <= x.hooks

(* The context is sound.                                                    *)
CtxOK(x) ==
  /\ Shaped(x, CtxFields) /\ PlanOK(x.p) /\ Listed(x.sink)
  /\ ScopesOK(x) /\ NamesOK(x) /\ HooksOK(x)

(* What the functions that only build leave alone.                          *)
CtxKept(x, y) ==
  /\ Shaped(y, CtxFields) /\ PlanKept(x.p, y.p) /\ Listed(y.sink)
  /\ y.depth = x.depth /\ y.stack = x.stack /\ y.frames = x.frames
  /\ y.hooks = x.hooks /\ y.names = x.names

Builds(x, r) == CtxKept(x, r.x) /\ r.ok \in BOOLEAN

LEMMA KeptOK ==
  ASSUME NEW x, CtxOK(x), NEW y, CtxKept(x, y)
  PROVE  CtxOK(y)
<1>1. PlanOK(y.p) /\ y.p.gensym = x.p.gensym /\ Len(y.p.hooks) = Len(x.p.hooks)
  BY DEF CtxKept, PlanKept
<1>2. ScopesOK(y)
  BY DEF CtxKept, CtxOK, ScopesOK
<1>3. NamesOK(y) /\ HooksOK(y)
  BY <1>1 DEF CtxKept, CtxOK, NamesOK, HooksOK
<1> QED
  BY <1>1, <1>2, <1>3 DEF CtxOK, CtxKept

LEMMA SameCtx ==
  ASSUME NEW x, CtxOK(x) PROVE CtxKept(x, x)
BY KeptRefl DEF CtxOK, CtxKept

LEMMA CtxTrans ==
  ASSUME NEW x, NEW y, NEW z, CtxOK(x), CtxKept(x, y), CtxKept(y, z)
  PROVE  CtxKept(x, z)
<1>1. PlanKept(x.p, z.p)
  BY KeptTrans DEF CtxOK, CtxKept
<1> QED
  BY <1>1 DEF CtxKept

LEMMA RetRaise ==
  ASSUME NEW x PROVE /\ Ret(x).x = x /\ Ret(x).ok = TRUE
                     /\ Raise(x).x = x /\ Raise(x).ok = FALSE
BY DEF Ret, Raise

LEMMA SameBuilds ==
  ASSUME NEW x, CtxOK(x) PROVE Builds(x, Ret(x)) /\ Builds(x, Raise(x))
BY SameCtx, RetRaise DEF Builds

LEMMA SetPlan ==
  ASSUME NEW x, Shaped(x, CtxFields), NEW q, NEW y, y = [x EXCEPT !.p = q]
  PROVE  /\ Shaped(y, CtxFields) /\ y.p = q
         /\ y.sink = x.sink /\ y.depth = x.depth /\ y.stack = x.stack
         /\ y.frames = x.frames /\ y.hooks = x.hooks /\ y.names = x.names
         /\ y.pending = x.pending
<1>1. Sets(x, "p", q, y) /\ "p" \in CtxFields
  BY DEF Sets, CtxFields
<1>2. Shaped(y, CtxFields) /\ y["p"] = q /\ \A g \in CtxFields : g # "p" => y[g] = x[g]
  BY <1>1, SetField
<1>3. /\ y["sink"] = x["sink"] /\ y["depth"] = x["depth"] /\ y["stack"] = x["stack"]
      /\ y["frames"] = x["frames"] /\ y["hooks"] = x["hooks"] /\ y["names"] = x["names"]
      /\ y["pending"] = x["pending"]
  BY <1>2 DEF CtxFields
<1> QED
  BY <1>2, <1>3

LEMMA WithBuilds ==
  ASSUME NEW x, CtxOK(x), NEW ps, \A q \in ps : PlanKept(x.p, q)
  PROVE  /\ Builds(x, With(x, ps))
         /\ With(x, ps).ok => ps # {} /\ With(x, ps).x.p \in ps
         /\ ~With(x, ps).ok => With(x, ps).x = x
         /\ With(x, ps).x.sink = x.sink /\ With(x, ps).x.pending = x.pending
<1>1. CASE ps = {}
  <2>1. With(x, ps) = Raise(x)
    BY <1>1 DEF With
  <2> QED
    BY <2>1, SameBuilds, RetRaise
<1>2. CASE ps # {}
  <2> DEFINE q == CHOOSE p \in ps : TRUE
             y == [x EXCEPT !.p = q]
  <2>1. With(x, ps) = Ret(y)
    BY <1>2 DEF With
  <2>2. q \in ps
    BY <1>2
  <2>3. PlanKept(x.p, q)
    BY <2>2
  <2>4. Shaped(x, CtxFields) /\ y = [x EXCEPT !.p = q]
    BY DEF CtxOK
  <2> HIDE DEF q, y
  <2>5. CtxKept(x, y) /\ y.p = q /\ y.sink = x.sink /\ y.pending = x.pending
    BY <2>3, <2>4, SetPlan DEF CtxKept, CtxOK
  <2> QED
    BY <1>2, <2>1, <2>2, <2>5, RetRaise DEF Builds
<1> QED
  BY <1>1, <1>2

\* A field of the context that only its own function reads.
LEMMA SetOther ==
  ASSUME NEW x, CtxOK(x), NEW f \in {"pending", "output_set", "sink"}, NEW v,
         f = "sink" => Listed(v), NEW y, Sets(x, f, v, y)
  PROVE  CtxKept(x, y) /\ y[f] = v /\ y.p = x.p
<1>1. Shaped(x, CtxFields) /\ f \in CtxFields
  BY DEF CtxOK, CtxFields
<1>2. Shaped(y, CtxFields) /\ y[f] = v /\ \A g \in CtxFields : g # f => y[g] = x[g]
  BY <1>1, SetField
<1>3. /\ y["p"] = x["p"] /\ y["depth"] = x["depth"] /\ y["stack"] = x["stack"]
      /\ y["frames"] = x["frames"] /\ y["hooks"] = x["hooks"] /\ y["names"] = x["names"]
      /\ y["sink"] = IF f = "sink" THEN v ELSE x["sink"]
  BY <1>2 DEF CtxFields
<1>4. /\ y.p = x.p /\ y.depth = x.depth /\ y.stack = x.stack
      /\ y.frames = x.frames /\ y.hooks = x.hooks /\ y.names = x.names
      /\ y.sink = IF f = "sink" THEN v ELSE x.sink
  BY <1>3
<1>5. PlanKept(x.p, y.p) /\ Listed(y.sink)
  BY <1>4, KeptRefl DEF CtxOK
<1> QED
  BY <1>2, <1>4, <1>5 DEF CtxKept

(***************************************************************************)
(* The loops.                                                              *)
(***************************************************************************)
LEMMA SinkApplyBuilds ==
  ASSUME NEW x, CtxOK(x), NEW id, NEW sec \in 0 .. Len(x.p.secs)
  PROVE  Builds(x, sink_apply(x, id, sec))
<1> DEFINE s  == x.sink[id]
           ps == IF s.name = "." THEN plan_dotstep(x.p, s.expr, sec)
                 ELSE plan_symbol_at(x.p, s.name, s.expr, s.provide, s.hidden, sec)
           r  == With(x, ps)
           y  == [r.x EXCEPT !.sink[id].consumed = TRUE]
<1>1. \A q \in ps : PlanKept(x.p, q)
  BY DotstepKept, SymbolKept DEF CtxOK
<1>2. sink_apply(x, id, sec) = IF r.ok THEN Ret(y) ELSE r
  BY DEF sink_apply
<1> HIDE DEF ps
<1>3. Builds(x, r)
  BY <1>1, WithBuilds
<1>4. \E e, v : Sets(r.x, "sink", v, y) /\ Sets(r.x.sink, id, e, v)
  BY DEF Sets
<1>5. PICK e, v : Sets(r.x, "sink", v, y) /\ Sets(r.x.sink, id, e, v)
  BY <1>4
<1> HIDE DEF r, y
<1>6. CtxKept(x, r.x) /\ CtxOK(r.x) /\ Listed(r.x.sink)
  BY <1>3, KeptOK DEF Builds, CtxKept
<1>7. Listed(v)
  BY <1>5, <1>6, ListedSet
<1>8. CtxKept(r.x, y)
  BY <1>5, <1>6, <1>7, SetOther
<1>9. CtxKept(x, y)
  BY <1>6, <1>8, CtxTrans
<1> QED
  BY <1>2, <1>3, <1>9, RetRaise DEF Builds

LEMMA SelectorBuilds ==
  ASSUME NEW x, CtxOK(x), NEW el, NEW name
  PROVE  Builds(x, apply_selector(x, el, name))
<1> DEFINE ps == plan_selector(x.p, name, el.file, el.globs, el.keep)
<1>1. apply_selector(x, el, name) = IF el.globs = <<>> THEN Raise(x) ELSE With(x, ps)
  BY DEF apply_selector
<1>2. \A q \in ps : PlanKept(x.p, q)
  BY SelectorKept DEF CtxOK
<1> HIDE DEF ps
<1> QED
  BY <1>1, <1>2, WithBuilds, SameBuilds

LEMMA OutExprBuilds ==
  ASSUME NEW x, CtxOK(x), NEW name, NEW field, NEW v
  PROVE  Builds(x, OutExpr(x, name, field, v))
<1> DEFINE ps == plan_section_set(x.p, name, field, lift_operand(v))
<1>1. OutExpr(x, name, field, v) =
        IF v = Nil THEN Ret(x) ELSE IF lift_operand(v) = NoExpr THEN Raise(x) ELSE With(x, ps)
  BY DEF OutExpr
<1>2. \A q \in ps : PlanKept(x.p, q)
  BY SectionSetKept DEF CtxOK
<1> HIDE DEF ps
<1> QED
  BY <1>1, <1>2, WithBuilds, SameBuilds

LoopKinds == {"input", "search_path", "memory", "phdr", "version", "attr", "expr",
              "selector", "entry", "stmt", "flush"}

\* One argument.
LEMMA RoundBuilds ==
  ASSUME NEW x, CtxOK(x), NEW loop, loop.does \in LoopKinds,
         loop.sec \in 0 .. Len(x.p.secs), NEW a
  PROVE  Builds(x, Round(x, loop, a))
<1>1. PlanOK(x.p)
  BY DEF CtxOK
<1>2. CASE loop.does = "input"
  <2> DEFINE ps == plan_input(x.p, a, x.depth > 0, FALSE)
  <2>1. Round(x, loop, a) = With(x, ps)
    BY <1>2 DEF Round
  <2>2. \A q \in ps : PlanKept(x.p, q)
    BY <1>1, InputKept
  <2> HIDE DEF ps
  <2> QED
    BY <2>1, <2>2, WithBuilds
<1>3. CASE loop.does = "search_path"
  <2>1. Round(x, loop, a) = With(x, plan_search_path(x.p, a))
    BY <1>3 DEF Round
  <2> QED
    BY <1>1, <2>1, WithBuilds, SearchPathKept
<1>4. CASE loop.does = "memory"
  <2>1. Round(x, loop, a) = With(x, plan_memory(x.p, a.name, a.attrs, a.origin, a.length))
    BY <1>4 DEF Round
  <2> QED
    BY <1>1, <2>1, WithBuilds, MemoryKept
<1>5. CASE loop.does = "phdr"
  <2>1. Round(x, loop, a) = With(x, plan_phdr(x.p, a.name, a.type, a.flags, a.align))
    BY <1>5 DEF Round
  <2> QED
    BY <1>1, <2>1, WithBuilds, PhdrKept
<1>6. CASE loop.does = "version"
  <2>1. Round(x, loop, a) = With(x, plan_version(x.p, a.sym, a.ver, a.def))
    BY <1>6 DEF Round
  <2> QED
    BY <1>1, <2>1, WithBuilds, VersionKept
<1>7. CASE loop.does = "attr"
  <2>1. Round(x, loop, a) = With(x, plan_section_set(x.p, loop.name, a.f, a.v))
    BY <1>7 DEF Round
  <2> QED
    BY <1>1, <2>1, WithBuilds, SectionSetKept
<1>8. CASE loop.does = "expr"
  <2>1. Round(x, loop, a) = OutExpr(x, loop.name, a.f, a.v)
    BY <1>8 DEF Round
  <2> QED
    BY <2>1, OutExprBuilds
<1>9. CASE loop.does = "selector"
  <2>1. Round(x, loop, a) = IF a.el = "sel" THEN apply_selector(x, a, loop.name) ELSE Raise(x)
    BY <1>9 DEF Round
  <2> QED
    BY <2>1, SelectorBuilds, SameBuilds
<1>10. CASE loop.does = "entry"
  <2>1. Round(x, loop, a) =
          IF a.el = "sel" THEN apply_selector(x, a, loop.name)
          ELSE IF stmt_from_handle(x, a) # {} THEN sink_apply(x, a.id, loop.sec) ELSE Ret(x)
    BY <1>10 DEF Round
  <2> QED
    BY <2>1, SelectorBuilds, SinkApplyBuilds, SameBuilds
<1>11. CASE loop.does = "stmt"
  <2>1. Round(x, loop, a) =
          IF stmt_from_handle(x, a) # {} THEN sink_apply(x, a.id, loop.sec) ELSE Ret(x)
    BY <1>11 DEF Round
  <2> QED
    BY <2>1, SinkApplyBuilds, SameBuilds
<1>12. CASE loop.does = "flush"
  <2>1. Round(x, loop, a) =
          IF x.sink[a].consumed THEN Ret(x) ELSE sink_apply(x, a, loop.sec)
    BY <1>12 DEF Round
  <2> QED
    BY <2>1, SinkApplyBuilds, SameBuilds
<1> QED
  BY <1>2, <1>3, <1>4, <1>5, <1>6, <1>7, <1>8, <1>9, <1>10, <1>11, <1>12 DEF LoopKinds

\* Each is one round after the other, until one raises.
After(x, loop, args, i, r) == IF r.ok THEN Round(r.x, loop, args[i]) ELSE r

LEMMA EachRuns ==
  ASSUME NEW x, NEW loop, NEW args, Len(args) \in Nat
  PROVE  \E f : /\ f[0] = Ret(x) /\ Each(x, loop, args) = f[Len(args)]
               /\ \A i \in 1..Len(args) : f[i] = After(x, loop, args, i, f[i - 1])
<1> DEFINE n == Len(args)
           Rec(j, f) == f = [i \in 0..j |-> IF i = 0 THEN Ret(x)
                                           ELSE After(x, loop, args, i, f[i - 1])]
           S == {j \in 0..n : \E f : Rec(j, f)}
<1>1. 0 \in S
  <2>1. Rec(0, [i \in 0..0 |-> Ret(x)])
    OBVIOUS
  <2> HIDE DEF Rec
  <2> QED
    BY <2>1
<1>2. ASSUME NEW j \in 1..n, j - 1 \in S PROVE j \in S
  <2>1. PICK f : Rec(j - 1, f)
    BY <1>2
  <2> DEFINE h == [i \in 0..j |-> IF i = j THEN After(x, loop, args, j, f[j - 1]) ELSE f[i]]
  <2>2. ASSUME NEW i \in 0..j
        PROVE  h[i] = IF i = 0 THEN Ret(x) ELSE After(x, loop, args, i, h[i - 1])
    <3>1. CASE i = j
      BY <3>1
    <3>2. CASE i # j
      BY <2>1, <3>2
    <3> QED
      BY <3>1, <3>2
  <2>3. h = [i \in 0..j |-> h[i]]
    OBVIOUS
  <2> HIDE DEF h
  <2>4. Rec(j, h)
    BY <2>2, <2>3
  <2> HIDE DEF Rec
  <2> QED
    BY <2>4
<1>3. n \in S
  <2> HIDE DEF S
  <2>1. \A i \in 0..n : i \in S
    BY <1>1, <1>2, PrefixInduction
  <2> QED
    BY <2>1
<1> DEFINE g == CHOOSE f : Rec(n, f)
<1>4. Rec(n, g)
  <2> HIDE DEF Rec
  <2> QED
    BY <1>3
<1>5. Each(x, loop, args) = g[n]
  BY DEF Each, After
<1> HIDE DEF g
<1> QED
  BY <1>4, <1>5

LEMMA EachBuilds ==
  ASSUME NEW x, CtxOK(x), NEW loop, loop.does \in LoopKinds,
         loop.sec \in 0 .. Len(x.p.secs), NEW args, Listed(args)
  PROVE  Builds(x, Each(x, loop, args))
<1>1. Len(args) \in Nat
  BY ListedFacts
<1>2. PICK f : /\ f[0] = Ret(x) /\ Each(x, loop, args) = f[Len(args)]
               /\ \A i \in 1..Len(args) : f[i] = After(x, loop, args, i, f[i - 1])
  BY <1>1, EachRuns
<1> DEFINE S == {i \in 0..Len(args) : Builds(x, f[i])}
<1>3. 0 \in S
  BY <1>1, <1>2, SameBuilds
<1>4. ASSUME NEW i \in 1..Len(args), i - 1 \in S PROVE i \in S
  <2> DEFINE r == f[i - 1]
  <2>1. Builds(x, r) /\ CtxOK(r.x) /\ CtxKept(x, r.x)
    BY <1>4, KeptOK DEF Builds
  <2>2. f[i] = IF r.ok THEN Round(r.x, loop, args[i]) ELSE r
    BY <1>2 DEF After
  <2> HIDE DEF r
  <2>3. loop.sec \in 0 .. Len(r.x.p.secs)
    <3>1. Len(r.x.p.secs) >= Len(x.p.secs) /\ Len(x.p.secs) \in Nat /\ Len(r.x.p.secs) \in Nat
      BY <2>1, ListedFacts DEF CtxKept, PlanKept, CtxOK, PlanOK
    <3> QED
      BY <3>1
  <2>4. Builds(r.x, Round(r.x, loop, args[i]))
    BY <2>1, <2>3, RoundBuilds
  <2>5. CtxKept(x, Round(r.x, loop, args[i]).x)
    BY <2>1, <2>4, CtxTrans DEF Builds
  <2>6. Builds(x, f[i])
    BY <2>1, <2>2, <2>4, <2>5 DEF Builds
  <2> QED
    BY <2>6, <1>1
<1>5. Len(args) \in S
  <2> HIDE DEF S
  <2>1. \A i \in 0..Len(args) : i \in S
    BY <1>1, <1>3, <1>4, PrefixInduction
  <2> QED
    BY <2>1, <1>1
<1> QED
  BY <1>2, <1>5

(***************************************************************************)
(* The functions of the module that only build.                            *)
(***************************************************************************)
\* One builder, and what it leaves alone.
LEMMA OneBuilder ==
  ASSUME NEW x, CtxOK(x), NEW r, NEW ps, r = With(x, ps), \A q \in ps : PlanKept(x.p, q)
  PROVE  Builds(x, r)
BY WithBuilds

LEMMA OutputBuilds ==
  ASSUME NEW x, CtxOK(x), NEW c PROVE Builds(x, l_output(x, c))
<1> DEFINE ps == plan_output(x.p, c.o)
           r  == With(x, ps)
           y  == [r.x EXCEPT !.output_set = TRUE]
<1>1. \/ l_output(x, c) = Raise(x) \/ l_output(x, c) = r \/ l_output(x, c) = Ret(y)
  BY DEF l_output
<1>2. \A q \in ps : PlanKept(x.p, q)
  BY OutputKept DEF CtxOK
<1> HIDE DEF ps
<1>3. Builds(x, r)
  BY <1>2, WithBuilds
<1>4. Sets(r.x, "output_set", TRUE, y)
  BY DEF Sets
<1> HIDE DEF r, y
<1>5. CtxKept(x, r.x) /\ CtxOK(r.x)
  BY <1>3, KeptOK DEF Builds
<1>6. CtxKept(r.x, y)
  BY <1>4, <1>5, SetOther
<1>7. CtxKept(x, y)
  BY <1>5, <1>6, CtxTrans
<1> QED
  BY <1>1, <1>3, <1>7, SameBuilds, RetRaise DEF Builds

LEMMA LoopFields ==
  ASSUME NEW x, CtxOK(x), NEW does, NEW name, NEW sec
  PROVE  /\ Loop(does).does = does /\ Loop(does).sec \in 0 .. Len(x.p.secs)
         /\ OutLoop(does, name, sec).does = does /\ OutLoop(does, name, sec).sec = sec
<1>1. Len(x.p.secs) \in Nat
  BY ListedFacts DEF CtxOK, PlanOK
<1> QED
  BY <1>1 DEF Loop, OutLoop

\* The functions that are one loop over one argument.
LEMMA LoopsBuild ==
  ASSUME NEW x, CtxOK(x), NEW c \in Call
  PROVE  /\ c.fn = "input" => Builds(x, l_input(x, c))
         /\ c.fn = "search_path" => Builds(x, l_search_path(x, c))
         /\ c.fn = "memory" => Builds(x, l_memory(x, c))
         /\ c.fn = "sections" => Builds(x, l_sections(x, c))
         /\ c.fn = "phdrs" => Builds(x, l_phdrs(x, c))
<1>1. ASSUME NEW does \in LoopKinds, NEW args, Listed(args)
      PROVE  Builds(x, Each(x, Loop(does), args))
  <2>1. Loop(does).does \in LoopKinds /\ Loop(does).sec \in 0 .. Len(x.p.secs)
    BY LoopFields
  <2> QED
    BY <1>1, <2>1, EachBuilds
<1>2. c.fn = "input" => Builds(x, l_input(x, c))
  BY <1>1, CallAssumption DEF l_input, LoopKinds
<1>3. c.fn = "search_path" => Builds(x, l_search_path(x, c))
  BY <1>1, CallAssumption DEF l_search_path, LoopKinds
<1>4. c.fn = "memory" => Builds(x, l_memory(x, c))
  BY <1>1, CallAssumption DEF l_memory, LoopKinds
<1>5. c.fn = "sections" => Builds(x, l_sections(x, c))
  BY <1>1, CallAssumption DEF l_sections, LoopKinds
<1>6. c.fn = "phdrs" => Builds(x, l_phdrs(x, c))
  BY <1>1, CallAssumption DEF l_phdrs, LoopKinds
<1> QED
  BY <1>2, <1>3, <1>4, <1>5, <1>6

LEMMA ListedIn ==
  ASSUME NEW T, NEW s \in Seq(T) PROVE Listed(s)
<1>1. Len(s) \in Nat /\ s = [i \in 1..Len(s) |-> s[i]]
  OBVIOUS
<1> QED
  BY <1>1, ListedOf

LEMMA VersionNodes ==
  ASSUME NEW x, NEW c \in Call, c.fn = "version"
  PROVE  \E nodes : Listed(nodes) /\ l_version(x, c) = Each(x, Loop("version"), nodes)
<1> DEFINE node(i, k) == [sym |-> c.list[i].globals[k], ver |-> c.list[i].name,
                          def |-> IF c.list[i].default = "nil" THEN i = 1
                                  ELSE c.list[i].default = "true"]
           of(i) == [k \in DOMAIN c.list[i].globals |-> node(i, k)]
           T     == UNION {{node(i, k) : k \in DOMAIN c.list[i].globals} : i \in DOMAIN c.list}
           s     == [i \in DOMAIN c.list |-> of(i)]
           nodes == FlattenSeq(s)
<1>1. l_version(x, c) = Each(x, Loop("version"), nodes)
  BY DEF l_version
<1>2. Listed(c.list) /\ \A i \in DOMAIN c.list : Listed(c.list[i].globals)
  BY CallAssumption
<1>3. ASSUME NEW i \in DOMAIN c.list PROVE of(i) \in Seq(T)
  <2>1. /\ DOMAIN c.list[i].globals = 1..Len(c.list[i].globals)
        /\ Len(c.list[i].globals) \in Nat
    BY <1>2, ListedFacts
  <2>2. \A k \in DOMAIN c.list[i].globals : node(i, k) \in T
    OBVIOUS
  <2> HIDE DEF node, T
  <2>3. of(i) \in [1..Len(c.list[i].globals) -> T]
    BY <2>1, <2>2
  <2> HIDE DEF of
  <2> QED
    BY <2>1, <2>3, FunctionLength
<1>4. s \in Seq(Seq(T))
  <2>1. DOMAIN c.list = 1..Len(c.list) /\ Len(c.list) \in Nat
    BY <1>2, ListedFacts
  <2> HIDE DEF of, T
  <2>2. s \in [1..Len(c.list) -> Seq(T)]
    BY <1>3, <2>1
  <2> HIDE DEF s
  <2> QED
    BY <2>1, <2>2, FunctionLength
<1> HIDE DEF T, s
<1>5. Listed(nodes)
  BY <1>4, FlattenType, ListedIn
<1> HIDE DEF nodes
<1> QED
  BY <1>1, <1>5

LEMMA VersionBuilds ==
  ASSUME NEW x, CtxOK(x), NEW c \in Call, c.fn = "version"
  PROVE  Builds(x, l_version(x, c))
<1>1. Loop("version").does \in LoopKinds /\ Loop("version").sec \in 0 .. Len(x.p.secs)
  BY LoopFields DEF LoopKinds
<1> QED
  BY <1>1, VersionNodes, EachBuilds

LEMMA OutBuilds ==
  ASSUME NEW x, CtxOK(x), NEW c \in Call, c.fn = "out"
  PROVE  Builds(x, l_out(x, c))
<1> DEFINE sec   == Len(x.p.secs) + 1
           attrs == <<[f |-> "phdr", v |-> c.phdr], [f |-> "subalign", v |-> c.subalign],
                      [f |-> "load", v |-> c.load]>>
           exprs == <<[f |-> "vma", v |-> c.vma], [f |-> "at", v |-> c.at],
                      [f |-> "fill", v |-> c.fill]>>
           ps == plan_section(x.p, c.name, c.region, c.align, <<>>, c.at_region)
           a == With(x, ps)
           b == Each(a.x, OutLoop("attr", c.name, sec), attrs)
           d == Each(b.x, OutLoop("expr", c.name, sec), exprs)
           e == Each(d.x, OutLoop("selector", c.name, sec), c.input)
           g == Each(e.x, OutLoop("entry", c.name, sec), c.body)
<1>1. l_out(x, c) = IF ~a.ok THEN a ELSE IF ~d.ok THEN d ELSE IF ~e.ok THEN e ELSE g
  BY DEF l_out
<1>2. Listed(c.input) /\ Listed(c.body)
  BY CallAssumption
<1>3. Listed(attrs) /\ Listed(exprs)
  <2>1. attrs = [i \in 1..3 |-> attrs[i]] /\ exprs = [i \in 1..3 |-> exprs[i]]
    OBVIOUS
  <2> HIDE DEF attrs, exprs
  <2> QED
    BY <2>1, ListedOf
<1>4. \A q \in ps : PlanKept(x.p, q) /\ Len(q.secs) = sec
  BY SectionKept DEF CtxOK
<1> HIDE DEF ps, attrs, exprs
<1>5. Builds(x, a) /\ (a.ok => a.x.p \in ps)
  BY <1>4, WithBuilds
<1>6. Len(x.p.secs) \in Nat
  BY ListedFacts DEF CtxOK, PlanOK
<1>7. CASE a.ok
  <2> DEFINE Good(r) == Builds(x, r) /\ CtxOK(r.x) /\ sec \in 0 .. Len(r.x.p.secs)
  <2>1. ASSUME NEW r, Good(r), NEW does \in LoopKinds, NEW args, Listed(args)
        PROVE  Good(Each(r.x, OutLoop(does, c.name, sec), args))
    <3> DEFINE t == Each(r.x, OutLoop(does, c.name, sec), args)
    <3>1. /\ OutLoop(does, c.name, sec).does \in LoopKinds
          /\ OutLoop(does, c.name, sec).sec \in 0 .. Len(r.x.p.secs)
      BY <2>1, LoopFields
    <3>2. Builds(r.x, t)
      BY <2>1, <3>1, EachBuilds
    <3> HIDE DEF t
    <3>3. CtxKept(x, t.x) /\ CtxOK(t.x)
      BY <2>1, <3>2, CtxTrans, KeptOK DEF Builds
    <3>4. Len(t.x.p.secs) >= Len(r.x.p.secs)
      BY <3>2 DEF Builds, CtxKept, PlanKept
    <3>5. Len(t.x.p.secs) \in Nat /\ Len(r.x.p.secs) \in Nat
      BY <2>1, <3>3, ListedFacts DEF CtxOK, PlanOK
    <3>6. sec \in 0 .. Len(t.x.p.secs)
      <4>1. \A i, j, k \in Nat : i + 1 \in 0 .. j /\ k >= j => i + 1 \in 0 .. k
        OBVIOUS
      <4> QED
        BY <2>1, <3>4, <3>5, <1>6, <4>1
    <3>7. Good(t)
      BY <3>2, <3>3, <3>6 DEF Builds
    <3> QED
      BY <3>7 DEF t
  <2>2. Good(a)
    <3>1. CtxOK(a.x) /\ Len(a.x.p.secs) = sec
      BY <1>4, <1>5, <1>7, KeptOK DEF Builds
    <3> QED
      BY <1>5, <1>6, <3>1
  <2>3. {"attr", "expr", "selector", "entry"} \subseteq LoopKinds
    BY DEF LoopKinds
  <2> HIDE DEF Good, a, sec
  <2>4. Good(b)
    BY <1>3, <2>1, <2>2, <2>3
  <2> HIDE DEF b
  <2>5. Good(d)
    BY <1>3, <2>1, <2>3, <2>4
  <2> HIDE DEF d
  <2>6. Good(e)
    BY <1>2, <2>1, <2>3, <2>5
  <2> HIDE DEF e
  <2>7. Good(g)
    BY <1>2, <2>1, <2>3, <2>6
  <2> HIDE DEF g
  <2> QED
    BY <1>1, <1>5, <2>5, <2>6, <2>7 DEF Good
<1>8. CASE ~a.ok
  BY <1>1, <1>5, <1>8
<1> QED
  BY <1>7, <1>8

LEMMA AssignBuilds ==
  ASSUME NEW x, CtxOK(x), NEW c PROVE Builds(x, assign_impl(x, c))
<1> DEFINE s == [name |-> c.name, expr |-> lift_operand(c.v), provide |-> c.provide,
                 hidden |-> c.hidden, consumed |-> FALSE]
           v == Append(x.sink, s)
           y == [x EXCEPT !.sink = v]
<1>1. assign_impl(x, c) = Raise(x) \/ assign_impl(x, c) = Ret(y)
  BY DEF assign_impl
<1>2. Listed(v)
  BY ListedAppend DEF CtxOK
<1>3. Sets(x, "sink", v, y)
  BY DEF Sets
<1> HIDE DEF v, y
<1>4. CtxKept(x, y)
  BY <1>2, <1>3, SetOther
<1> QED
  BY <1>1, <1>4, SameBuilds, RetRaise DEF Builds

LEMMA PluginBuilds ==
  ASSUME NEW x, CtxOK(x), NEW c PROVE Builds(x, l_plugin(x, c))
<1> DEFINE y == [x EXCEPT !.pending = <<>>]
<1>1. \E all : l_plugin(x, c) = With(y, plan_plugin(x.p, c.path, all))
  BY DEF l_plugin
<1>2. PICK all : l_plugin(x, c) = With(y, plan_plugin(x.p, c.path, all))
  BY <1>1
<1>3. Sets(x, "pending", <<>>, y)
  BY DEF Sets
<1> HIDE DEF y
<1>4. CtxKept(x, y) /\ CtxOK(y) /\ y.p = x.p
  BY <1>3, SetOther, KeptOK
<1> DEFINE r == With(y, plan_plugin(x.p, c.path, all))
<1>5. Builds(y, r)
  BY <1>4, WithBuilds, PluginKept DEF CtxOK
<1> HIDE DEF r
<1>6. CtxKept(x, r.x)
  BY <1>4, <1>5, CtxTrans DEF Builds
<1> QED
  BY <1>2, <1>5, <1>6 DEF Builds, r

LEMMA PluginOptBuilds ==
  ASSUME NEW x, CtxOK(x), NEW c PROVE Builds(x, l_plugin_opt(x, c))
<1>1. \E v, y : Sets(x, "pending", v, y) /\ l_plugin_opt(x, c) = Ret(y)
  BY DEF l_plugin_opt, Sets
<1>2. PICK v, y : Sets(x, "pending", v, y) /\ l_plugin_opt(x, c) = Ret(y)
  BY <1>1
<1>3. CtxKept(x, y)
  BY <1>2, SetOther
<1> QED
  BY <1>2, <1>3, RetRaise DEF Builds

LEMMA OthersBuild ==
  ASSUME NEW x, CtxOK(x), NEW c
  PROVE  /\ Builds(x, l_group(x, c)) /\ Builds(x, l_startup(x, c))
         /\ Builds(x, l_attr(x, c)) /\ Builds(x, l_lto(x, c)) /\ Builds(x, l_error(x, c))
<1>1. PlanOK(x.p)
  BY DEF CtxOK
<1>2. Builds(x, l_group(x, c))
  <2>1. \/ l_group(x, c) = Raise(x) \/ l_group(x, c) = Ret(x)
        \/ l_group(x, c) = With(x, plan_group(x.p, c.paths))
    BY DEF l_group
  <2> QED
    BY <1>1, <2>1, GroupKept, OneBuilder, SameBuilds
<1>3. Builds(x, l_startup(x, c))
  BY <1>1, InputKept, WithBuilds DEF l_startup
<1>4. Builds(x, l_attr(x, c))
  BY <1>1, AttrKept, WithBuilds DEF l_attr
<1>5. Builds(x, l_lto(x, c))
  <2>1. \/ l_lto(x, c) = Raise(x)
        \/ l_lto(x, c) = With(x, plan_lto(x.p, c.pipeline, c.jobs, c.cache_dir))
    BY DEF l_lto
  <2> QED
    BY <1>1, <2>1, LtoKept, OneBuilder, SameBuilds
<1>6. Builds(x, l_error(x, c))
  BY SameBuilds DEF l_error
<1> QED
  BY <1>2, <1>3, <1>4, <1>5, <1>6

(***************************************************************************)
(* The functions that change what the context keeps: names, hooks and the  *)
(* calls that are open.                                                    *)
(***************************************************************************)
Outcome(x, r) == CtxOK(r.x) /\ r.ok \in BOOLEAN /\ r.x.p.sealed = x.p.sealed

(* What is declared and noted stays.                                        *)
Untouched(x, y) == y.sink = x.sink /\ y.pending = x.pending /\ PlanStays(x.p, y.p)

LEMMA BuildsOutcome ==
  ASSUME NEW x, CtxOK(x), NEW r, Builds(x, r) PROVE Outcome(x, r)
BY KeptOK DEF Builds, Outcome, CtxKept, PlanKept

LEMMA SameUntouched ==
  ASSUME NEW x PROVE Untouched(x, Ret(x).x) /\ Untouched(x, Raise(x).x)
BY RetRaise DEF Untouched, PlanStays

\* What is serialized is none of these three fields.
LEMMA SameSerialized ==
  ASSUME NEW p, NEW q,
         \A g \in PlanFields : g \notin {"gensym", "sealed", "serialized"} => q[g] = p[g]
  PROVE  /\ serialize(q) = serialize(p)
         /\ q.hooks = p.hooks /\ q.stmts = p.stmts /\ q.secs = p.secs
         /\ q.plugins = p.plugins
<1>1. /\ q["target"] = p["target"] /\ q["output"] = p["output"] /\ q["inputs"] = p["inputs"]
      /\ q["paths"] = p["paths"] /\ q["mems"] = p["mems"] /\ q["secs"] = p["secs"]
      /\ q["stmts"] = p["stmts"] /\ q["phdrs"] = p["phdrs"] /\ q["vers"] = p["vers"]
      /\ q["lto"] = p["lto"] /\ q["plugins"] = p["plugins"] /\ q["attrs"] = p["attrs"]
      /\ q["hooks"] = p["hooks"]
  BY DEF PlanFields
<1>2. /\ q.target = p.target /\ q.output = p.output /\ q.inputs = p.inputs
      /\ q.paths = p.paths /\ q.mems = p.mems /\ q.secs = p.secs
      /\ q.stmts = p.stmts /\ q.phdrs = p.phdrs /\ q.vers = p.vers
      /\ q.lto = p.lto /\ q.plugins = p.plugins /\ q.attrs = p.attrs
      /\ q.hooks = p.hooks
  BY <1>1
<1>3. serialize(q) = serialize(p)
  BY <1>2 DEF serialize, Placed
<1> QED
  BY <1>2, <1>3

\* gensym counts whether the plan is sealed or not, and is not serialized.
LEMMA GensymPlan ==
  ASSUME NEW p, PlanOK(p)
  PROVE  /\ PlanOK(plan_gensym(p)) /\ plan_gensym(p).gensym = p.gensym + 1
         /\ plan_gensym(p).sealed = p.sealed
         /\ plan_gensym(p).hooks = p.hooks /\ PlanStays(p, plan_gensym(p))
<1> DEFINE q == plan_gensym(p)
<1>1. Sets(p, "gensym", p.gensym + 1, q)
  BY DEF plan_gensym, Sets
<1>2. Shaped(p, PlanFields) /\ "gensym" \in PlanFields
  BY DEF PlanOK, PlanFields
<1> HIDE DEF q
<1>3. /\ Shaped(q, PlanFields) /\ q["gensym"] = p.gensym + 1
      /\ \A g \in PlanFields : g # "gensym" => q[g] = p[g]
  BY <1>1, <1>2, SetField
<1>4. q["sealed"] = p["sealed"] /\ q["serialized"] = p["serialized"]
  BY <1>3 DEF PlanFields
<1>5. q.sealed = p.sealed /\ q.serialized = p.serialized /\ q.gensym = p.gensym + 1
  BY <1>3, <1>4
<1>6. /\ serialize(q) = serialize(p)
      /\ q.hooks = p.hooks /\ q.stmts = p.stmts /\ q.secs = p.secs
      /\ q.plugins = p.plugins
  BY <1>3, SameSerialized
<1>7. PlanOK(q)
  BY <1>3, <1>5, <1>6 DEF PlanOK
<1> QED
  BY <1>5, <1>6, <1>7 DEF q, PlanStays

\* Setting any field of a context.
LEMMA SetCtx ==
  ASSUME NEW x, Shaped(x, CtxFields), NEW f \in CtxFields, NEW v, NEW y, Sets(x, f, v, y)
  PROVE  /\ Shaped(y, CtxFields)
         /\ y.p = IF f = "p" THEN v ELSE x.p
         /\ y.sink = IF f = "sink" THEN v ELSE x.sink
         /\ y.depth = IF f = "depth" THEN v ELSE x.depth
         /\ y.stack = IF f = "stack" THEN v ELSE x.stack
         /\ y.frames = IF f = "frames" THEN v ELSE x.frames
         /\ y.hooks = IF f = "hooks" THEN v ELSE x.hooks
         /\ y.names = IF f = "names" THEN v ELSE x.names
         /\ y.pending = IF f = "pending" THEN v ELSE x.pending
<1>1. Shaped(y, CtxFields) /\ y[f] = v /\ \A g \in CtxFields : g # f => y[g] = x[g]
  BY SetField
<1>2. /\ y["p"] = IF f = "p" THEN v ELSE x["p"]
      /\ y["sink"] = IF f = "sink" THEN v ELSE x["sink"]
      /\ y["depth"] = IF f = "depth" THEN v ELSE x["depth"]
      /\ y["stack"] = IF f = "stack" THEN v ELSE x["stack"]
      /\ y["frames"] = IF f = "frames" THEN v ELSE x["frames"]
      /\ y["hooks"] = IF f = "hooks" THEN v ELSE x["hooks"]
      /\ y["names"] = IF f = "names" THEN v ELSE x["names"]
      /\ y["pending"] = IF f = "pending" THEN v ELSE x["pending"]
  BY <1>1 DEF CtxFields
<1> QED
  BY <1>1, <1>2

LEMMA GensymOutcome ==
  ASSUME NEW x, CtxOK(x), NEW c 
  PROVE  Outcome(x, l_gensym(x, c)) /\ Untouched(x, l_gensym(x, c).x)
<1> DEFINE q == IF c.long THEN x.p ELSE plan_gensym(x.p)
           e == <<c.prefix, IF c.long THEN 0 ELSE x.p.gensym + 1>>
           v == Append(x.names, e)
           y == [x EXCEPT !.p = q]
           z == [y EXCEPT !.names = v]
<1>1. l_gensym(x, c) = Ret(z)
  BY DEF l_gensym
<1>2. Sets(x, "p", q, y) /\ Sets(y, "names", v, z)
  BY DEF Sets
<1>3. /\ PlanOK(x.p) /\ x.p.gensym \in Nat /\ Shaped(x, CtxFields)
      /\ "p" \in CtxFields /\ "names" \in CtxFields
  BY DEF CtxOK, PlanOK, CtxFields
<1>4. /\ PlanOK(q) /\ q.sealed = x.p.sealed /\ q.hooks = x.p.hooks
      /\ q.gensym = x.p.gensym + (IF c.long THEN 0 ELSE 1) /\ PlanStays(x.p, q)
  BY <1>3, GensymPlan DEF PlanStays
<1>5. e[2] = IF c.long THEN 0 ELSE x.p.gensym + 1
  OBVIOUS
<1>6. /\ Listed(v) /\ Len(v) = Len(x.names) + 1 /\ v[Len(x.names) + 1] = e
      /\ \A i \in 1..Len(x.names) : v[i] = x.names[i]
  BY ListedAppend DEF CtxOK, NamesOK
<1> HIDE DEF q, e, v, y, z
<1>7. Shaped(y, CtxFields) /\ y.p = q /\ y.sink = x.sink /\ y.depth = x.depth
      /\ y.stack = x.stack /\ y.frames = x.frames /\ y.hooks = x.hooks
      /\ y.pending = x.pending
  BY <1>2, <1>3, SetCtx
<1>8. Shaped(z, CtxFields) /\ z.p = q /\ z.sink = x.sink /\ z.depth = x.depth
      /\ z.stack = x.stack /\ z.frames = x.frames /\ z.hooks = x.hooks /\ z.names = v
      /\ z.pending = x.pending
  BY <1>2, <1>3, <1>7, SetCtx
<1>9. ScopesOK(z) /\ HooksOK(z)
  BY <1>4, <1>8 DEF CtxOK, ScopesOK, HooksOK
<1>10. /\ DOMAIN x.names = 1..Len(x.names) /\ Len(x.names) \in Nat
       /\ DOMAIN v = 1..(Len(x.names) + 1)
  BY <1>6, ListedFacts DEF CtxOK, NamesOK
<1>11. ASSUME NEW k \in DOMAIN v
       PROVE  /\ v[k][2] \in 0 .. q.gensym
              /\ k = Len(x.names) + 1 =>
                   v[k][2] = IF c.long THEN 0 ELSE x.p.gensym + 1
              /\ k # Len(x.names) + 1 =>
                   k \in DOMAIN x.names /\ v[k] = x.names[k] /\ v[k][2] \in 0 .. x.p.gensym
  <2>1. CASE k = Len(x.names) + 1
    BY <1>3, <1>4, <1>5, <1>6, <2>1
  <2>2. CASE k # Len(x.names) + 1
    <3>1. k \in DOMAIN x.names /\ v[k] = x.names[k]
      BY <1>6, <1>10, <2>2
    <3>2. x.names[k][2] \in 0 .. x.p.gensym
      BY <3>1 DEF CtxOK, NamesOK
    <3> QED
      BY <1>3, <1>4, <2>2, <3>1, <3>2
  <2> QED
    BY <2>1, <2>2
<1>12. ASSUME NEW i \in DOMAIN v, NEW j \in DOMAIN v, v[i][2] # 0, v[i][2] = v[j][2]
       PROVE  i = j
  <2>1. CASE i = Len(x.names) + 1 \/ j = Len(x.names) + 1
    BY <1>3, <1>11, <1>12, <2>1
  <2>2. CASE i # Len(x.names) + 1 /\ j # Len(x.names) + 1
    BY <1>11, <1>12, <2>2 DEF CtxOK, NamesOK
  <2> QED
    BY <2>1, <2>2
<1>13. NamesOK(z)
  BY <1>6, <1>8, <1>11, <1>12 DEF NamesOK
<1>14. CtxOK(z)
  BY <1>4, <1>8, <1>9, <1>13 DEF CtxOK
<1> QED
  BY <1>1, <1>4, <1>8, <1>14, RetRaise DEF Outcome, Untouched

LEMMA OnOutcome ==
  ASSUME NEW x, CtxOK(x), NEW c 
  PROVE  Outcome(x, l_on(x, c)) /\ Untouched(x, l_on(x, c).x)
<1> DEFINE y  == [x EXCEPT !.hooks = x.hooks + 1]
           ps == plan_hook(x.p, c.phase, c.cb)
           r  == With(y, ps)
<1>1. l_on(x, c) = Raise(x) \/ (x.hooks < MaxHooks /\ l_on(x, c) = r)
  <2>1. x.hooks \in Nat /\ MaxHooks \in Nat
    BY LccwldAssumption DEF CtxOK, HooksOK
  <2> QED
    BY <2>1 DEF l_on
<1>2. CASE x.hooks < MaxHooks /\ l_on(x, c) = r
  <2>1. Sets(x, "hooks", x.hooks + 1, y) /\ Shaped(x, CtxFields) /\ "hooks" \in CtxFields
    BY DEF Sets, CtxOK, CtxFields
  <2> HIDE DEF y, ps
  <2>2. /\ Shaped(y, CtxFields) /\ y.p = x.p /\ y.sink = x.sink /\ y.depth = x.depth
        /\ y.stack = x.stack /\ y.frames = x.frames /\ y.hooks = x.hooks + 1
        /\ y.names = x.names /\ y.pending = x.pending
    BY <2>1, SetCtx
  <2>3. /\ x.hooks \in 0 .. MaxHooks /\ MaxHooks \in Nat
        /\ Len(x.p.hooks) <= x.hooks /\ Len(x.p.hooks) \in Nat
    BY LccwldAssumption, ListedFacts DEF CtxOK, PlanOK, HooksOK
  <2>4. CtxOK(y)
    <3>1. HooksOK(y)
      BY <1>2, <2>2, <2>3 DEF HooksOK
    <3>2. ScopesOK(y) /\ NamesOK(y)
      BY <2>2 DEF CtxOK, ScopesOK, NamesOK
    <3> QED
      BY <2>2, <3>1, <3>2 DEF CtxOK
  <2>5. CASE ps = {}
    <3>1. r = Raise(y)
      BY <2>5 DEF With
    <3>2. l_on(x, c).x = y /\ l_on(x, c).ok = FALSE
      <4>1. l_on(x, c) = Raise(y)
        BY <1>2, <3>1
      <4> QED
        BY <4>1, RetRaise
    <3> QED
      BY <2>2, <2>4, <3>2 DEF Outcome, Untouched, PlanStays
  <2>6. CASE ps # {}
    <3> DEFINE q == CHOOSE p \in ps : TRUE
               z == [y EXCEPT !.p = q]
    <3>1. q \in ps /\ r = Ret(z)
      BY <2>6 DEF With
    <3>2. \A w \in ps : ~x.p.sealed /\ \E e : Sets(x.p, "hooks", Append(x.p.hooks, e), w)
      BY DEF ps, plan_hook, Built, Sets
    <3>3. Sets(y, "p", q, z) /\ "p" \in CtxFields
      BY DEF Sets, CtxFields
    <3> HIDE DEF q, z
    <3>4. PICK e : Sets(x.p, "hooks", Append(x.p.hooks, e), q)
      BY <3>1, <3>2
    <3> DEFINE v == Append(x.p.hooks, e)
    <3>5. Listed(v) /\ Len(v) = Len(x.p.hooks) + 1
      BY ListedAppend DEF CtxOK, PlanOK
    <3>6. Sets(x.p, "hooks", v, q)
      BY <3>4
    <3> HIDE DEF v
    <3>7. Shaped(x.p, PlanFields) /\ "hooks" \in PlanFields
      BY DEF CtxOK, PlanOK, PlanFields
    <3>8. /\ Shaped(q, PlanFields) /\ q["hooks"] = v
          /\ \A g \in PlanFields : g # "hooks" => q[g] = x.p[g]
      BY <3>6, <3>7, SetField
    <3>9. /\ q["gensym"] = x.p["gensym"] /\ q["sealed"] = x.p["sealed"]
          /\ q["stmts"] = x.p["stmts"] /\ q["secs"] = x.p["secs"]
          /\ q["plugins"] = x.p["plugins"]
      BY <3>8 DEF PlanFields
    <3>10. /\ q.gensym = x.p.gensym /\ q.sealed = x.p.sealed
           /\ q.stmts = x.p.stmts /\ q.secs = x.p.secs /\ q.hooks = v
           /\ q.plugins = x.p.plugins
      BY <3>8, <3>9
    <3>11. PlanOK(q)
      BY <3>1, <3>2, <3>5, <3>8, <3>10 DEF CtxOK, PlanOK
    <3>12. /\ Shaped(z, CtxFields) /\ z.p = q /\ z.sink = x.sink /\ z.depth = x.depth
           /\ z.stack = x.stack /\ z.frames = x.frames /\ z.hooks = x.hooks + 1
           /\ z.names = x.names /\ z.pending = x.pending
      BY <2>2, <3>3, SetCtx
    <3>13. HooksOK(z)
      BY <1>2, <2>3, <3>5, <3>10, <3>12 DEF HooksOK
    <3>14. ScopesOK(z) /\ NamesOK(z)
      BY <3>10, <3>12 DEF CtxOK, ScopesOK, NamesOK
    <3>15. CtxOK(z)
      BY <3>11, <3>12, <3>13, <3>14 DEF CtxOK
    <3>16. l_on(x, c).x = z /\ l_on(x, c).ok = TRUE
      <4>1. l_on(x, c) = Ret(z)
        BY <1>2, <3>1
      <4> QED
        BY <4>1, RetRaise
    <3> QED
      BY <3>10, <3>12, <3>15, <3>16 DEF Outcome, Untouched, PlanStays
  <2> QED
    BY <2>5, <2>6
<1> QED
  BY <1>1, <1>2, SameBuilds, BuildsOutcome, SameUntouched

\* A call is opened: as_needed, include and pcall.
LEMMA OpensOutcome ==
  ASSUME NEW x, CtxOK(x), NEW c
  PROVE  /\ Outcome(x, l_as_needed(x, c)) /\ Untouched(x, l_as_needed(x, c).x)
         /\ Outcome(x, l_pcall(x, c)) /\ Untouched(x, l_pcall(x, c).x)
         /\ Outcome(x, l_include(x, c)) /\ Untouched(x, l_include(x, c).x)
<1>1. /\ Shaped(x, CtxFields) /\ {"frames", "depth", "stack"} \subseteq CtxFields
      /\ Listed(x.frames) /\ Listed(x.stack)
  BY DEF CtxOK, ScopesOK, CtxFields
<1>2. ASSUME NEW e
      PROVE  /\ Listed(Append(x.frames, e))
             /\ \A v : /\ Count(Append(x.frames, e), v) = Count(x.frames, v) + (IF e = v THEN 1 ELSE 0)
                       /\ Count(x.frames, v) \in Nat
  BY <1>1, ListedAppend, CountAppend
<1>3. Outcome(x, l_as_needed(x, c)) /\ Untouched(x, l_as_needed(x, c).x)
  <2> DEFINE v == Append(x.frames, "as_needed")
             y == [x EXCEPT !.depth = x.depth + 1]
             z == [y EXCEPT !.frames = v]
  <2>1. l_as_needed(x, c) = Ret(z)
    BY DEF l_as_needed
  <2>2. Sets(x, "depth", x.depth + 1, y) /\ Sets(y, "frames", v, z)
    BY DEF Sets
  <2>3. /\ Listed(v) /\ Count(v, "as_needed") = Count(x.frames, "as_needed") + 1
        /\ Count(v, "include") = Count(x.frames, "include")
    BY <1>2
  <2> HIDE DEF v, y, z
  <2>4. /\ Shaped(y, CtxFields) /\ y.p = x.p /\ y.sink = x.sink /\ y.depth = x.depth + 1
        /\ y.stack = x.stack /\ y.hooks = x.hooks /\ y.names = x.names /\ y.pending = x.pending
    BY <1>1, <2>2, SetCtx
  <2>5. /\ Shaped(z, CtxFields) /\ z.p = x.p /\ z.sink = x.sink /\ z.depth = x.depth + 1
        /\ z.stack = x.stack /\ z.hooks = x.hooks /\ z.names = x.names /\ z.pending = x.pending /\ z.frames = v
    BY <1>1, <2>2, <2>4, SetCtx
  <2>6. ScopesOK(z)
    BY <2>3, <2>5 DEF CtxOK, ScopesOK
  <2>7. NamesOK(z) /\ HooksOK(z)
    BY <2>5 DEF CtxOK, NamesOK, HooksOK
  <2>8. CtxOK(z)
    BY <2>5, <2>6, <2>7 DEF CtxOK
  <2> QED
    BY <2>1, <2>5, <2>8, RetRaise DEF Outcome, Untouched, PlanStays
<1>4. Outcome(x, l_pcall(x, c)) /\ Untouched(x, l_pcall(x, c).x)
  <2> DEFINE v == Append(x.frames, "pcall")
             z == [x EXCEPT !.frames = v]
  <2>1. l_pcall(x, c) = Ret(z)
    BY DEF l_pcall
  <2>2. Sets(x, "frames", v, z)
    BY DEF Sets
  <2>3. /\ Listed(v) /\ Count(v, "as_needed") = Count(x.frames, "as_needed")
        /\ Count(v, "include") = Count(x.frames, "include")
    BY <1>2
  <2> HIDE DEF v, z
  <2>5. /\ Shaped(z, CtxFields) /\ z.p = x.p /\ z.sink = x.sink /\ z.depth = x.depth
        /\ z.stack = x.stack /\ z.hooks = x.hooks /\ z.names = x.names /\ z.pending = x.pending /\ z.frames = v
    BY <1>1, <2>2, SetCtx
  <2>6. ScopesOK(z)
    BY <2>3, <2>5 DEF CtxOK, ScopesOK
  <2>7. NamesOK(z) /\ HooksOK(z)
    BY <2>5 DEF CtxOK, NamesOK, HooksOK
  <2>8. CtxOK(z)
    BY <2>5, <2>6, <2>7 DEF CtxOK
  <2> QED
    BY <2>1, <2>5, <2>8, RetRaise DEF Outcome, Untouched, PlanStays
<1>5. Outcome(x, l_include(x, c)) /\ Untouched(x, l_include(x, c).x)
  <2> DEFINE refused == \/ ~c.lua \/ Len(x.stack) >= MaxInclude \/ Candidate(x, c.leaf) = {}
                        \/ \E i \in DOMAIN x.stack : x.stack[i] \in Candidate(x, c.leaf)
             f == CHOOSE g \in Candidate(x, c.leaf) : TRUE
             s == Append(x.stack, f)
             v == Append(x.frames, "include")
             y == [x EXCEPT !.stack = s]
             z == [y EXCEPT !.frames = v]
  <2>1. CASE refused
    <3>1. l_include(x, c) = Raise(x)
      BY <2>1 DEF l_include
    <3> QED
      BY <3>1, SameBuilds, BuildsOutcome, SameUntouched
  <2>2. CASE ~refused
    <3>1. l_include(x, c) = Ret(z)
      BY <2>2 DEF l_include
    <3>2. Sets(x, "stack", s, y) /\ Sets(y, "frames", v, z)
      BY DEF Sets
    <3>3. /\ Listed(v) /\ Count(v, "as_needed") = Count(x.frames, "as_needed")
          /\ Count(v, "include") = Count(x.frames, "include") + 1
      BY <1>2
    <3>4. f \in Candidate(x, c.leaf)
      BY <2>2
    <3>5. \A i \in DOMAIN x.stack : x.stack[i] # f
      BY <2>2, <3>4
    <3> HIDE DEF f
    <3>6. /\ Listed(s) /\ Len(s) = Len(x.stack) + 1 /\ s[Len(x.stack) + 1] = f
          /\ \A i \in 1..Len(x.stack) : s[i] = x.stack[i]
      BY <1>1, ListedAppend
    <3>7. ~(Len(x.stack) >= MaxInclude)
      BY <2>2
    <3> HIDE DEF s, v, y, z, refused
    <3>8. /\ Shaped(y, CtxFields) /\ y.p = x.p /\ y.sink = x.sink /\ y.depth = x.depth
          /\ y.stack = s /\ y.hooks = x.hooks /\ y.names = x.names /\ y.pending = x.pending
      BY <1>1, <3>2, SetCtx
    <3>9. /\ Shaped(z, CtxFields) /\ z.p = x.p /\ z.sink = x.sink /\ z.depth = x.depth
          /\ z.stack = s /\ z.hooks = x.hooks /\ z.names = x.names /\ z.pending = x.pending /\ z.frames = v
      BY <1>1, <3>2, <3>8, SetCtx
    <3>10. /\ Len(x.stack) \in Nat /\ MaxInclude \in Nat /\ DOMAIN x.stack = 1..Len(x.stack)
           /\ DOMAIN s = 1..(Len(x.stack) + 1)
      BY <1>1, <3>6, ListedFacts, LccwldAssumption
    <3>11. ASSUME NEW i \in DOMAIN s, NEW j \in DOMAIN s, i # j PROVE s[i] # s[j]
      <4>1. CASE i = Len(x.stack) + 1
        <5>1. j \in DOMAIN x.stack /\ s[j] = x.stack[j]
          BY <3>6, <3>10, <3>11, <4>1
        <5> QED
          BY <3>5, <3>6, <4>1, <5>1
      <4>2. CASE j = Len(x.stack) + 1
        <5>1. i \in DOMAIN x.stack /\ s[i] = x.stack[i]
          BY <3>6, <3>10, <3>11, <4>2
        <5> QED
          BY <3>5, <3>6, <4>2, <5>1
      <4>3. CASE i # Len(x.stack) + 1 /\ j # Len(x.stack) + 1
        <5>1. i \in DOMAIN x.stack /\ s[i] = x.stack[i] /\ j \in DOMAIN x.stack /\ s[j] = x.stack[j]
          BY <3>6, <3>10, <4>3
        <5> QED
          BY <3>11, <5>1 DEF CtxOK, ScopesOK
      <4> QED
        BY <4>1, <4>2, <4>3
    <3>12. Len(s) <= MaxInclude
      BY <3>6, <3>7, <3>10
    <3>13. Len(s) = 1 + Count(v, "include")
      <4>1. Len(x.stack) = 1 + Count(x.frames, "include") /\ Count(x.frames, "include") \in Nat
        BY <1>2 DEF CtxOK, ScopesOK
      <4> QED
        BY <3>3, <3>6, <4>1
    <3>14. ScopesOK(z)
      BY <3>3, <3>6, <3>9, <3>11, <3>12, <3>13 DEF CtxOK, ScopesOK
    <3>15. NamesOK(z) /\ HooksOK(z)
      BY <3>9 DEF CtxOK, NamesOK, HooksOK
    <3>16. CtxOK(z)
      BY <3>9, <3>14, <3>15 DEF CtxOK
    <3> QED
      BY <3>1, <3>9, <3>16, RetRaise DEF Outcome, Untouched, PlanStays
  <2> QED
    BY <2>1, <2>2
<1> QED
  BY <1>3, <1>4, <1>5

\* Do is the function that the call names.
LEMMA DoIs ==
  ASSUME NEW x, NEW c
  PROVE  /\ c.fn = "output" => Do(x, c) = l_output(x, c)
         /\ c.fn = "input" => Do(x, c) = l_input(x, c)
         /\ c.fn = "group" => Do(x, c) = l_group(x, c)
         /\ c.fn = "search_path" => Do(x, c) = l_search_path(x, c)
         /\ c.fn = "startup" => Do(x, c) = l_startup(x, c)
         /\ c.fn = "memory" => Do(x, c) = l_memory(x, c)
         /\ c.fn = "sections" => Do(x, c) = l_sections(x, c)
         /\ c.fn = "out" => Do(x, c) = l_out(x, c)
         /\ c.fn = "phdrs" => Do(x, c) = l_phdrs(x, c)
         /\ c.fn = "version" => Do(x, c) = l_version(x, c)
         /\ c.fn = "assign" => Do(x, c) = assign_impl(x, c)
         /\ c.fn = "attr" => Do(x, c) = l_attr(x, c)
         /\ c.fn = "gensym" => Do(x, c) = l_gensym(x, c)
         /\ c.fn = "lto" => Do(x, c) = l_lto(x, c)
         /\ c.fn = "plugin" => Do(x, c) = l_plugin(x, c)
         /\ c.fn = "plugin_opt" => Do(x, c) = l_plugin_opt(x, c)
         /\ c.fn = "on" => Do(x, c) = l_on(x, c)
         /\ c.fn = "error" => Do(x, c) = l_error(x, c)
         /\ c.fn = "include" => Do(x, c) = l_include(x, c)
         /\ c.fn = "as_needed" => Do(x, c) = l_as_needed(x, c)
         /\ c.fn = "pcall" => Do(x, c) = l_pcall(x, c)
<1>1. /\ c.fn = "output" => Do(x, c) = l_output(x, c)
      /\ c.fn = "input" => Do(x, c) = l_input(x, c)
      /\ c.fn = "group" => Do(x, c) = l_group(x, c)
      /\ c.fn = "search_path" => Do(x, c) = l_search_path(x, c)
      /\ c.fn = "startup" => Do(x, c) = l_startup(x, c)
      /\ c.fn = "memory" => Do(x, c) = l_memory(x, c)
      /\ c.fn = "sections" => Do(x, c) = l_sections(x, c)
  BY DEF Do
<1>2. /\ c.fn = "out" => Do(x, c) = l_out(x, c)
      /\ c.fn = "phdrs" => Do(x, c) = l_phdrs(x, c)
      /\ c.fn = "version" => Do(x, c) = l_version(x, c)
      /\ c.fn = "assign" => Do(x, c) = assign_impl(x, c)
      /\ c.fn = "attr" => Do(x, c) = l_attr(x, c)
      /\ c.fn = "gensym" => Do(x, c) = l_gensym(x, c)
      /\ c.fn = "lto" => Do(x, c) = l_lto(x, c)
  BY DEF Do
<1>3. /\ c.fn = "plugin" => Do(x, c) = l_plugin(x, c)
      /\ c.fn = "plugin_opt" => Do(x, c) = l_plugin_opt(x, c)
      /\ c.fn = "on" => Do(x, c) = l_on(x, c)
      /\ c.fn = "error" => Do(x, c) = l_error(x, c)
      /\ c.fn = "include" => Do(x, c) = l_include(x, c)
      /\ c.fn = "as_needed" => Do(x, c) = l_as_needed(x, c)
      /\ c.fn = "pcall" => Do(x, c) = l_pcall(x, c)
  BY DEF Do
<1> QED
  BY <1>1, <1>2, <1>3

\* Whatever is called, the context is sound afterwards.
LEMMA DoOutcome ==
  ASSUME NEW x, CtxOK(x), NEW c \in Call
  PROVE  Outcome(x, Do(x, c))
<1>1. c.fn \in ApiFunctions
  BY CallAssumption
<1>5. /\ c.fn \in {"output", "input", "group", "search_path", "startup", "memory", "sections"}
           => Builds(x, Do(x, c))
      /\ c.fn \in {"out", "phdrs", "version", "assign", "attr", "lto", "plugin", "plugin_opt",
                   "error"} => Builds(x, Do(x, c))
  BY DoIs, OutputBuilds, LoopsBuild, VersionBuilds, OutBuilds, AssignBuilds,
     PluginBuilds, PluginOptBuilds, OthersBuild
<1>6. c.fn \in {"gensym", "on", "include", "as_needed", "pcall"} => Outcome(x, Do(x, c))
  BY DoIs, GensymOutcome, OnOutcome, OpensOutcome
<1> QED
  BY <1>1, <1>5, <1>6, BuildsOutcome DEF ApiFunctions

\* The innermost call is left: what it opened is closed.
LEMMA LeaveOK ==
  ASSUME NEW x, CtxOK(x), Len(x.frames) # 0
  PROVE  /\ CtxOK(Leave(x)) /\ Leave(x).p = x.p
         /\ Leave(x).sink = x.sink /\ Leave(x).pending = x.pending
         /\ Len(Leave(x).frames) = Len(x.frames) - 1
<1> DEFINE f == Last(x.frames)
           v == Front(x.frames)
           d == IF f = "as_needed" THEN x.depth - 1 ELSE x.depth
           s == IF f = "include" THEN Front(x.stack) ELSE x.stack
           a == [x EXCEPT !.frames = v]
           b == [a EXCEPT !.depth = d]
           z == [b EXCEPT !.stack = s]
<1>1. Leave(x) = z
  BY DEF Leave
<1>2. Sets(x, "frames", v, a) /\ Sets(a, "depth", d, b) /\ Sets(b, "stack", s, z)
  BY DEF Sets
<1>3. /\ Shaped(x, CtxFields) /\ {"frames", "depth", "stack"} \subseteq CtxFields
      /\ Listed(x.frames) /\ Listed(x.stack)
  BY DEF CtxOK, ScopesOK, CtxFields
<1>4. Listed(v) /\ Len(v) = Len(x.frames) - 1
  BY <1>3, ListedFront
<1>5. \A w : /\ Count(x.frames, w) = Count(v, w) + (IF f = w THEN 1 ELSE 0)
             /\ Count(v, w) \in Nat
  BY <1>3, CountFront
<1>6. /\ x.depth = Count(x.frames, "as_needed")
      /\ Len(x.stack) = 1 + Count(x.frames, "include")
      /\ Len(x.stack) <= MaxInclude /\ MaxInclude \in Nat
      /\ \A i, j \in DOMAIN x.stack : i # j => x.stack[i] # x.stack[j]
  BY LccwldAssumption DEF CtxOK, ScopesOK
<1>7. d = Count(v, "as_needed")
  <2>1. /\ Count(x.frames, "as_needed") = Count(v, "as_needed") + (IF f = "as_needed" THEN 1 ELSE 0)
        /\ Count(v, "as_needed") \in Nat
    BY <1>5
  <2> HIDE DEF f, v
  <2> QED
    BY <1>6, <2>1
<1>8. /\ Listed(s) /\ Len(s) = 1 + Count(v, "include") /\ Len(s) <= MaxInclude
      /\ \A i, j \in DOMAIN s : i # j => s[i] # s[j]
  <2>1. /\ Count(x.frames, "include") = Count(v, "include") + (IF f = "include" THEN 1 ELSE 0)
        /\ Count(v, "include") \in Nat
    BY <1>5
  <2>2. CASE f = "include"
    <3> DEFINE u == Front(x.stack)
    <3>1. Len(x.stack) = 2 + Count(v, "include") /\ Len(x.stack) # 0 /\ Len(x.stack) \in Nat
      BY <1>6, <2>1, <2>2
    <3>2. /\ Listed(u) /\ Len(u) = Len(x.stack) - 1
          /\ \A i \in 1..(Len(x.stack) - 1) : u[i] = x.stack[i]
      BY <1>3, <3>1, ListedFront
    <3>3. s = u
      BY <2>2
    <3> HIDE DEF u, s, v, f
    <3>4. Len(u) = 1 + Count(v, "include") /\ Len(u) <= MaxInclude
      BY <1>6, <2>1, <3>1, <3>2
    <3>5. /\ DOMAIN x.stack = 1..Len(x.stack)
          /\ DOMAIN u = 1..(Len(x.stack) - 1)
      BY <1>3, <3>2, ListedFacts
    <3>6. ASSUME NEW i \in DOMAIN u, NEW j \in DOMAIN u, i # j PROVE u[i] # u[j]
      <4>1. /\ i \in DOMAIN x.stack /\ j \in DOMAIN x.stack
            /\ u[i] = x.stack[i] /\ u[j] = x.stack[j]
        BY <3>1, <3>2, <3>5
      <4> QED
        BY <1>6, <3>6, <4>1
    <3> QED
      BY <3>2, <3>3, <3>4, <3>6
  <2>3. CASE f # "include"
    <3>1. s = x.stack /\ Count(v, "include") = Count(x.frames, "include")
      BY <2>1, <2>3
    <3> HIDE DEF s, v, f
    <3> QED
      BY <1>3, <1>6, <3>1
  <2> QED
    BY <2>2, <2>3
<1> HIDE DEF f, v, d, s, a, b, z
<1>9. /\ Shaped(a, CtxFields) /\ a.p = x.p /\ a.sink = x.sink /\ a.frames = v
      /\ a.stack = x.stack /\ a.hooks = x.hooks /\ a.names = x.names /\ a.pending = x.pending
  BY <1>2, <1>3, SetCtx
<1>10. /\ Shaped(b, CtxFields) /\ b.p = x.p /\ b.sink = x.sink /\ b.frames = v
       /\ b.depth = d /\ b.hooks = x.hooks /\ b.names = x.names /\ b.pending = x.pending
  BY <1>2, <1>3, <1>9, SetCtx
<1>11. /\ Shaped(z, CtxFields) /\ z.p = x.p /\ z.sink = x.sink /\ z.frames = v
       /\ z.depth = d /\ z.stack = s /\ z.hooks = x.hooks /\ z.names = x.names /\ z.pending = x.pending
  BY <1>2, <1>3, <1>10, SetCtx
<1>12. ScopesOK(z)
  BY <1>4, <1>7, <1>8, <1>11 DEF ScopesOK
<1>13. NamesOK(z) /\ HooksOK(z)
  BY <1>11 DEF CtxOK, NamesOK, HooksOK
<1>14. CtxOK(z)
  BY <1>11, <1>12, <1>13 DEF CtxOK
<1> QED
  BY <1>1, <1>4, <1>11, <1>14

LEMMA GreatestIndex ==
  ASSUME NEW n \in Nat, NEW T \in SUBSET (1..n), T # {}
  PROVE  \E i \in T : \A j \in T : j <= i
<1> DEFINE D == {n - i : i \in T}
<1>1. D \subseteq Nat /\ D # {}
  OBVIOUS
<1>2. \E e \in D : \A g \in D : e <= g
  <2> HIDE DEF D
  <2> QED
    BY <1>1, LeastNatural
<1>3. PICK i \in T : \A g \in D : n - i <= g
  BY <1>2
<1>4. \A j \in T : n - i <= n - j
  BY <1>3
<1>5. \A j \in T : j <= i
  BY <1>4
<1> QED
  BY <1>5

\* An error leaves one call after the other.
LEMMA UnwindOK ==
  ASSUME NEW x, CtxOK(x)
  PROVE  /\ CtxOK(Unwind(x)) /\ Unwind(x).p = x.p
         /\ Unwind(x).sink = x.sink /\ Unwind(x).pending = x.pending
<1> DEFINE pcalls == {i \in DOMAIN x.frames : x.frames[i] = "pcall"}
           keep == IF pcalls = {} THEN 0
                   ELSE (CHOOSE i \in pcalls : \A j \in pcalls : j <= i) - 1
           n == Len(x.frames) - keep
           Rec(j, f) == f = [i \in 0..j |-> IF i = 0 THEN x ELSE Leave(f[i - 1])]
           S == {j \in 0..n : \E f : Rec(j, f)}
<1>1. Len(x.frames) \in Nat /\ DOMAIN x.frames = 1..Len(x.frames)
  BY ListedFacts DEF CtxOK, ScopesOK
<1>2. keep \in 0 .. Len(x.frames)
  <2>1. CASE pcalls = {}
    BY <1>1, <2>1
  <2>2. CASE pcalls # {}
    <3>1. pcalls \in SUBSET (1..Len(x.frames))
      BY <1>1
    <3> HIDE DEF pcalls
    <3>2. \E i \in pcalls : \A j \in pcalls : j <= i
      BY <1>1, <2>2, <3>1, GreatestIndex
    <3>3. (CHOOSE i \in pcalls : \A j \in pcalls : j <= i) \in 1..Len(x.frames)
      BY <3>1, <3>2
    <3> QED
      BY <1>1, <2>2, <3>3
  <2> QED
    BY <2>1, <2>2
<1>3. Unwind(x) = (CHOOSE f : Rec(n, f))[n]
  BY DEF Unwind
<1> HIDE DEF keep
<1>4. n \in Nat /\ n <= Len(x.frames)
  BY <1>1, <1>2
<1> HIDE DEF n
<1>5. 0 \in S
  <2>1. Rec(0, [i \in 0..0 |-> x])
    OBVIOUS
  <2> HIDE DEF Rec
  <2> QED
    BY <1>4, <2>1
<1>6. ASSUME NEW j \in 1..n, j - 1 \in S PROVE j \in S
  <2>1. PICK f : Rec(j - 1, f)
    BY <1>6
  <2> DEFINE h == [i \in 0..j |-> IF i = j THEN Leave(f[j - 1]) ELSE f[i]]
  <2>2. ASSUME NEW i \in 0..j PROVE h[i] = IF i = 0 THEN x ELSE Leave(h[i - 1])
    <3>1. CASE i = j
      BY <1>4, <3>1
    <3>2. CASE i # j
      BY <1>4, <2>1, <3>2
    <3> QED
      BY <3>1, <3>2
  <2>3. h = [i \in 0..j |-> h[i]]
    OBVIOUS
  <2> HIDE DEF h
  <2>4. Rec(j, h)
    BY <2>2, <2>3
  <2> HIDE DEF Rec
  <2> QED
    BY <2>4
<1>7. n \in S
  <2> HIDE DEF S
  <2>1. \A i \in 0..n : i \in S
    BY <1>4, <1>5, <1>6, PrefixInduction
  <2> QED
    BY <2>1, <1>4
<1> DEFINE g == CHOOSE f : Rec(n, f)
<1>8. Rec(n, g)
  <2> HIDE DEF Rec
  <2> QED
    BY <1>7
<1>9. Unwind(x) = g[n]
  BY <1>3
<1> HIDE DEF g
<1>10. g[0] = x /\ \A i \in 1..n : g[i] = Leave(g[i - 1])
  BY <1>4, <1>8
<1> DEFINE Same(y) == y.p = x.p /\ y.sink = x.sink /\ y.pending = x.pending
           L == {i \in 0..n : CtxOK(g[i]) /\ Same(g[i]) /\ Len(g[i].frames) = Len(x.frames) - i}
<1>11. 0 \in L
  BY <1>1, <1>4, <1>10
<1>12. ASSUME NEW i \in 1..n, i - 1 \in L PROVE i \in L
  <2> DEFINE y == g[i - 1]
  <2>1. CtxOK(y) /\ Same(y) /\ Len(y.frames) = Len(x.frames) - (i - 1)
    BY <1>12
  <2>2. g[i] = Leave(y)
    BY <1>10
  <2> HIDE DEF y
  <2>3. Len(y.frames) # 0
    BY <1>1, <1>4, <2>1
  <2>4. /\ CtxOK(Leave(y)) /\ Leave(y).p = y.p /\ Leave(y).sink = y.sink
        /\ Leave(y).pending = y.pending /\ Len(Leave(y).frames) = Len(y.frames) - 1
    BY <2>1, <2>3, LeaveOK
  <2>5. CtxOK(g[i]) /\ Same(g[i]) /\ Len(g[i].frames) = Len(x.frames) - i
    BY <1>1, <1>4, <2>1, <2>2, <2>4
  <2> QED
    BY <1>4, <2>5
<1>13. n \in L
  <2> HIDE DEF L
  <2>1. \A i \in 0..n : i \in L
    BY <1>4, <1>11, <1>12, PrefixInduction
  <2> QED
    BY <2>1, <1>4
<1> QED
  BY <1>9, <1>13

(***************************************************************************)
(* The plan before the script and after it.                                *)
(***************************************************************************)
(* A plan that may still be built, without hooks and statements.            *)
Fresh(p) == PlanOK(p) /\ ~p.sealed /\ Len(p.hooks) = 0 /\ p.stmts = <<>>

LEMMA NewFresh ==
  ASSUME NEW target, NEW frontend PROVE Fresh(plan_new(target, frontend))
<1> DEFINE p == plan_new(target, frontend)
<1>1. /\ Shaped(p, PlanFields) /\ p.gensym = 0 /\ p.sealed = FALSE
      /\ p.hooks = <<>> /\ p.stmts = <<>> /\ p.secs = <<>> /\ p.plugins = <<>>
  BY DEF plan_new, Shaped, PlanFields
<1> HIDE DEF p
<1>2. Listed(<<>>) /\ Len(<<>>) = 0 /\ DOMAIN <<>> = {}
  BY CountEmpty
<1>3. ~p.sealed /\ p.sealed \in BOOLEAN /\ p.gensym \in Nat /\ Len(p.hooks) = 0
  <2>1. p.gensym \in Nat /\ Len(p.hooks) = 0
    BY <1>1, <1>2
  <2>2. ~p.sealed /\ p.sealed \in BOOLEAN
    BY <1>1, Zenon
  <2> QED
    BY <2>1, <2>2
<1>4. \A i \in DOMAIN p.stmts : p.stmts[i].sec \in 0 .. Len(p.secs)
  BY <1>1, <1>2
<1>5. /\ Listed(p.hooks) /\ Listed(p.stmts) /\ Listed(p.secs) /\ Listed(p.plugins)
      /\ Shaped(p, PlanFields)
  BY <1>1, <1>2
<1>6. PlanOK(p)
  BY <1>3, <1>4, <1>5 DEF PlanOK
<1> QED
  BY <1>1, <1>3, <1>6 DEF Fresh, p

LEMMA KeptFresh ==
  ASSUME NEW p, Fresh(p), NEW q, PlanKept(p, q), q.stmts = p.stmts PROVE Fresh(q)
BY DEF Fresh, PlanKept

Options == {"defines", "defsyms", "search_paths", "inputs", "plugins"}

LEMMA DeclareKept ==
  ASSUME NEW p, PlanOK(p), NEW d, NEW option \in Options, NEW a,
         NEW q \in Declare(p, d, option, a)
  PROVE  PlanKept(p, q) /\ q.stmts = p.stmts
<1>1. \/ \E k, v, b : q \in plan_env(p, k, v, b)
      \/ q \in plan_search_path(p, a)
      \/ \E b, e : q \in plan_input(p, a, b, e)
      \/ \E o : q \in plan_plugin(p, a, o)
  BY DEF Declare, Options
<1>2. CASE \E k, v, b : q \in plan_env(p, k, v, b)
  BY <1>2, EnvKept DEF PlanStays
<1>3. CASE q \in plan_search_path(p, a)
  BY <1>3, SearchPathKept DEF PlanStays
<1>4. CASE \E b, e : q \in plan_input(p, a, b, e)
  BY <1>4, InputKept DEF PlanStays
<1>5. CASE \E o : q \in plan_plugin(p, a, o)
  BY <1>5, PluginKept
<1> QED
  BY <1>1, <1>2, <1>3, <1>4, <1>5

\* One option of the command line after the other.
LEMMA ChainFresh ==
  ASSUME NEW ps, \A p \in ps : Fresh(p), NEW d, NEW option \in Options, Listed(d[option])
  PROVE  \A p \in Chain(ps, d, option) : Fresh(p)
<1> DEFINE args == d[option]
           n == Len(args)
           Turn(i, s) == UNION {Declare(p, d, option, args[i]) : p \in s}
           Rec(j, f) == f = [i \in 0..j |-> IF i = 0 THEN ps ELSE Turn(i, f[i - 1])]
           S == {j \in 0..n : \E f : Rec(j, f)}
<1>1. Chain(ps, d, option) = (CHOOSE f : Rec(n, f))[n]
  BY DEF Chain
<1>2. n \in Nat
  BY ListedFacts
<1>3. ASSUME NEW i, NEW s, \A p \in s : Fresh(p) PROVE \A p \in Turn(i, s) : Fresh(p)
  BY <1>3, DeclareKept, KeptFresh DEF Fresh
<1> HIDE DEF n, Turn
<1>5. 0 \in S
  <2>1. Rec(0, [i \in 0..0 |-> ps])
    OBVIOUS
  <2> HIDE DEF Rec
  <2> QED
    BY <1>2, <2>1
<1>6. ASSUME NEW j \in 1..n, j - 1 \in S PROVE j \in S
  <2>1. PICK f : Rec(j - 1, f)
    BY <1>6
  <2> DEFINE h == [i \in 0..j |-> IF i = j THEN Turn(j, f[j - 1]) ELSE f[i]]
  <2>2. ASSUME NEW i \in 0..j PROVE h[i] = IF i = 0 THEN ps ELSE Turn(i, h[i - 1])
    <3>1. CASE i = j
      BY <1>2, <3>1
    <3>2. CASE i # j
      BY <1>2, <2>1, <3>2
    <3> QED
      BY <3>1, <3>2
  <2>3. h = [i \in 0..j |-> h[i]]
    OBVIOUS
  <2> HIDE DEF h
  <2>4. Rec(j, h)
    BY <2>2, <2>3
  <2> HIDE DEF Rec
  <2> QED
    BY <2>4
<1>7. n \in S
  <2> HIDE DEF S
  <2>1. \A i \in 0..n : i \in S
    BY <1>2, <1>5, <1>6, PrefixInduction
  <2> QED
    BY <2>1, <1>2
<1> DEFINE g == CHOOSE f : Rec(n, f)
<1>8. Rec(n, g)
  <2> HIDE DEF Rec
  <2> QED
    BY <1>7
<1>9. Chain(ps, d, option) = g[n]
  BY <1>1
<1> HIDE DEF g
<1>10. g[0] = ps /\ \A i \in 1..n : g[i] = Turn(i, g[i - 1])
  BY <1>2, <1>8
<1> DEFINE L == {i \in 0..n : \A p \in g[i] : Fresh(p)}
<1>11. 0 \in L
  BY <1>2, <1>10
<1>12. ASSUME NEW i \in 1..n, i - 1 \in L PROVE i \in L
  <2>1. \A p \in Turn(i, g[i - 1]) : Fresh(p)
    BY <1>3, <1>12
  <2> QED
    BY <1>2, <1>10, <2>1
<1>13. n \in L
  <2> HIDE DEF L
  <2>1. \A i \in 0..n : i \in L
    BY <1>2, <1>11, <1>12, PrefixInduction
  <2> QED
    BY <2>1, <1>2
<1> QED
  BY <1>9, <1>13

LEMMA DeclaredFresh ==
  ASSUME NEW p, Fresh(p), NEW d \in Driver
  PROVE  \A q \in Declared(p, d) : Fresh(q)
<1>1. /\ Listed(d["defines"]) /\ Listed(d["defsyms"]) /\ Listed(d["search_paths"])
      /\ Listed(d["inputs"]) /\ Listed(d["plugins"])
  BY DriverAssumption
<1>2. \A o \in {"defines", "defsyms", "search_paths", "inputs", "plugins"} : o \in Options
  BY DEF Options
<1> DEFINE a == Chain({p}, d, "defines")
           b == Chain(a, d, "defsyms")
<1>3. \A q \in {p} : Fresh(q)
  OBVIOUS
<1>4. \A q \in a : Fresh(q)
  BY <1>1, <1>2, <1>3, ChainFresh
<1> HIDE DEF a
<1>5. \A q \in b : Fresh(q)
  BY <1>1, <1>2, <1>4, ChainFresh
<1>6. Declared(p, d) = UNION {apply_driver_defs(q, d) : q \in b}
  BY DEF Declared, a
<1> HIDE DEF b
<1>7. ASSUME NEW r \in b PROVE \A q \in apply_driver_defs(r, d) : Fresh(q)
  <2> DEFINE e == Chain({r}, d, "search_paths")
             f == Chain(e, d, "inputs")
             g == Chain(f, d, "plugins")
  <2>1. \A q \in {r} : Fresh(q)
    BY <1>5
  <2>2. \A q \in e : Fresh(q)
    BY <1>1, <1>2, <2>1, ChainFresh
  <2> HIDE DEF e
  <2>3. \A q \in f : Fresh(q)
    BY <1>1, <1>2, <2>2, ChainFresh
  <2> HIDE DEF f
  <2>4. \A q \in g : Fresh(q)
    BY <1>1, <1>2, <2>3, ChainFresh
  <2>5. apply_driver_defs(r, d) =
          IF d.lto_pipeline = NULL THEN g
          ELSE UNION {plan_lto(q, d.lto_pipeline, d.lto_jobs, d.lto_cache_dir) : q \in g}
    BY DEF apply_driver_defs, e, f
  <2> HIDE DEF g
  <2>6. ASSUME NEW q \in g, NEW w \in plan_lto(q, d.lto_pipeline, d.lto_jobs, d.lto_cache_dir)
        PROVE  Fresh(w)
    BY <2>4, LtoKept, KeptFresh DEF Fresh, PlanStays
  <2> QED
    BY <2>4, <2>5, <2>6
<1> QED
  BY <1>6, <1>7

\* The sections of a plan that declares none.
LEMMA DefaultsFresh ==
  ASSUME NEW p, Fresh(p) PROVE \A q \in synthesize_defaults(p) : Fresh(q)
<1> DEFINE sec(s, n, a) == UNION {plan_section(r, n, NULL, a, <<n>>, NULL) : r \in s}
<1>1. ASSUME NEW s, \A r \in s : Fresh(r), NEW n, NEW a
      PROVE  \A q \in sec(s, n, a) : Fresh(q)
  <2>1. ASSUME NEW r \in s, NEW q \in plan_section(r, n, NULL, a, <<n>>, NULL) PROVE Fresh(q)
    <3>1. Fresh(r) /\ PlanOK(r)
      BY <1>1 DEF Fresh
    <3>2. PlanKept(r, q) /\ q.stmts = r.stmts
      BY <3>1, SectionKept
    <3> QED
      BY <3>1, <3>2, KeptFresh
  <2> QED
    BY <2>1
<1> DEFINE a == sec({p}, ".text", 16)
           b == sec(a, ".rodata", 8)
           c == sec(b, ".data", 8)
           d == sec(c, ".bss", 8)
<1>2. synthesize_defaults(p) = UNION {plan_section_set(q, ".bss", "load", FALSE) : q \in d}
  BY DEF synthesize_defaults
<1> HIDE DEF sec
<1>3. \A q \in a : Fresh(q)
  <2>1. \A q \in {p} : Fresh(q)
    OBVIOUS
  <2> QED
    BY <1>1, <2>1
<1> HIDE DEF a
<1>4. \A q \in b : Fresh(q)
  BY <1>1, <1>3
<1> HIDE DEF b
<1>5. \A q \in c : Fresh(q)
  BY <1>1, <1>4
<1> HIDE DEF c
<1>6. \A q \in d : Fresh(q)
  BY <1>1, <1>5
<1> HIDE DEF d
<1>7. ASSUME NEW r \in d, NEW q \in plan_section_set(r, ".bss", "load", FALSE) PROVE Fresh(q)
  BY <1>6, SectionSetKept, KeptFresh DEF Fresh
<1> QED
  BY <1>2, <1>7

\* The seal serializes what is sealed.
Sealed(p, q) ==
  /\ PlanOK(q) /\ q.sealed /\ q.gensym = p.gensym /\ Len(q.hooks) = Len(p.hooks)
  /\ PlanStays(p, q)

LEMMA SealSeals ==
  ASSUME NEW p, PlanOK(p), NEW q \in plan_seal(p) PROVE Sealed(p, q)
<1> DEFINE w == <<serialize(p)>>
           r == [p EXCEPT !.sealed = TRUE]
<1>1. Sets(p, "sealed", TRUE, r) /\ Sets(r, "serialized", w, q)
  BY DEF plan_seal, Sets
<1>2. Shaped(p, PlanFields) /\ "sealed" \in PlanFields /\ "serialized" \in PlanFields
  BY DEF PlanOK, PlanFields
<1> HIDE DEF w, r
<1>3. /\ Shaped(r, PlanFields) /\ r["sealed"] = TRUE
      /\ \A g \in PlanFields : g # "sealed" => r[g] = p[g]
  <2>1. ASSUME NEW t, Sets(p, "sealed", t, r)
        PROVE  /\ Shaped(r, PlanFields) /\ r["sealed"] = t
               /\ \A g \in PlanFields : g # "sealed" => r[g] = p[g]
    BY <1>2, <2>1, SetField
  <2> QED
    BY <1>1, <2>1, Zenon
<1>4. /\ Shaped(q, PlanFields) /\ q["serialized"] = w
      /\ \A g \in PlanFields : g # "serialized" => q[g] = r[g]
  BY <1>1, <1>2, <1>3, SetField
<1>5. q["sealed"] = TRUE /\ q["gensym"] = p["gensym"]
  BY <1>3, <1>4 DEF PlanFields
<1>6. q.sealed = TRUE /\ q.gensym = p.gensym /\ q.serialized = w
  BY <1>4, <1>5
<1>7. \A g \in PlanFields : g \notin {"gensym", "sealed", "serialized"} => q[g] = p[g]
  BY <1>3, <1>4
<1>8. /\ serialize(q) = serialize(p)
      /\ q.hooks = p.hooks /\ q.stmts = p.stmts /\ q.secs = p.secs
      /\ q.plugins = p.plugins
  BY <1>7, SameSerialized
<1>9. q.serialized = <<serialize(q)>>
  BY <1>6, <1>8 DEF w
<1>10. PlanOK(q)
  BY <1>4, <1>6, <1>8, <1>9 DEF PlanOK
<1> QED
  BY <1>6, <1>8, <1>10 DEF Sealed, PlanStays

\* The end of the script: what it left, with the default output and -e, sealed.
LEMMA FinishedSealed ==
  ASSUME NEW x, CtxOK(x), NEW entry, NEW q \in Finished(x, entry)
  PROVE  Sealed(x.p, q)
<1> DEFINE def == [NoOutput EXCEPT !.kind = "exe", !.format = "elf"]
           ps == IF x.output_set THEN {x.p} ELSE plan_output(x.p, def)
           qs == UNION {driver_entry_override(p, entry) : p \in ps}
<1>1. Finished(x, entry) = UNION {plan_seal(r) : r \in qs}
  BY DEF Finished
<1>2. \A p \in ps : PlanKept(x.p, p) /\ PlanStays(x.p, p)
  BY OutputKept, KeptRefl DEF CtxOK, PlanStays
<1> HIDE DEF ps
<1>3. ASSUME NEW p \in ps, NEW r \in driver_entry_override(p, entry)
      PROVE  PlanKept(x.p, r) /\ PlanStays(x.p, r)
  <2>1. PlanOK(p) /\ PlanKept(x.p, p) /\ PlanOK(x.p) /\ PlanStays(x.p, p)
    BY <1>2 DEF PlanKept, CtxOK
  <2>2. r = p \/ \E o : r \in plan_output(p, o)
    BY DEF driver_entry_override
  <2>3. PlanKept(p, r) /\ PlanStays(p, r)
    BY <2>1, <2>2, OutputKept, KeptRefl DEF PlanStays
  <2> QED
    BY <2>1, <2>3, KeptTrans DEF PlanStays
<1>4. \A r \in qs : PlanKept(x.p, r) /\ PlanStays(x.p, r)
  BY <1>3
<1> HIDE DEF qs
<1>5. PICK r \in qs : q \in plan_seal(r)
  BY <1>1
<1>6. PlanKept(x.p, r) /\ PlanStays(x.p, r) /\ Sealed(r, q)
  BY <1>4, <1>5, SealSeals DEF PlanKept
<1> QED
  BY <1>6 DEF PlanKept, PlanStays, Sealed

LEMMA NewCtxOK ==
  ASSUME NEW p, PlanOK(p), Len(p.hooks) = 0, NEW file
  PROVE  CtxOK(NewCtx(p, file)) /\ NewCtx(p, file).p = p
<1> DEFINE x == NewCtx(p, file)
<1>1. /\ Shaped(x, CtxFields) /\ x.p = p /\ x.sink = <<>> /\ x.depth = 0
      /\ x.stack = <<file>> /\ x.frames = <<>> /\ x.hooks = 0 /\ x.names = <<>>
  BY DEF NewCtx, Shaped, CtxFields
<1> HIDE DEF x
<1>2. /\ Listed(<<>>) /\ Len(<<>>) = 0 /\ DOMAIN <<>> = {}
      /\ Count(<<>>, "as_needed") = 0 /\ Count(<<>>, "include") = 0
  BY CountEmpty
<1>3. Listed(<<file>>) /\ Len(<<file>>) = 1 /\ DOMAIN <<file>> = {1}
  <2> DEFINE s == <<file>>
  <2>1. s = [i \in 1..1 |-> s[i]] /\ DOMAIN s = {1}
    OBVIOUS
  <2> HIDE DEF s
  <2>2. Listed(s) /\ Len(s) = 1
    BY <2>1, ListedOf
  <2> QED
    BY <2>1, <2>2 DEF s
<1>4. MaxInclude \in Nat \ {0} /\ MaxHooks \in Nat
  BY LccwldAssumption
<1>5. ScopesOK(x)
  <2>1. \A i, j \in DOMAIN x.stack : i = j
    BY <1>1, <1>3
  <2> QED
    BY <1>1, <1>2, <1>3, <1>4, <2>1 DEF ScopesOK
<1>6. NamesOK(x) /\ HooksOK(x)
  BY <1>1, <1>2, <1>4 DEF NamesOK, HooksOK
<1> QED
  BY <1>1, <1>2, <1>5, <1>6 DEF CtxOK, x

(***************************************************************************)
(* The steps.                                                              *)
(***************************************************************************)
(* The inductive invariant: the context is sound, whatever is open, and the *)
(* plan is sealed exactly from the seal on.                                 *)
ScriptIInv ==
  /\ stage \in {"setup", "script", "sealed", "failed"}
  /\ cmd \in Driver /\ CtxOK(ctx)
  /\ stage \in {"setup", "script"} => ~ctx.p.sealed
  /\ stage = "sealed" => ctx.p.sealed

LEMMA ScriptInit == Init => ScriptIInv
<1> SUFFICES ASSUME Init PROVE ScriptIInv
  OBVIOUS
<1>1. \E f, g : ctx = NewCtx(plan_new(f, g), NULL)
  BY DEF Init
<1>2. PICK f, g : ctx = NewCtx(plan_new(f, g), NULL)
  BY <1>1
<1>3. Fresh(plan_new(f, g))
  BY NewFresh
<1>4. CtxOK(ctx) /\ ~ctx.p.sealed
  BY <1>2, <1>3, NewCtxOK DEF Fresh
<1> QED
  BY <1>4 DEF Init, ScriptIInv

LEMMA SetupLuaStep ==
  ASSUME ScriptIInv, SetupLua PROVE ScriptIInv'
<1> DEFINE d == Declared(plan_new("x86_64", "lua"), cmd)
<1>1. PICK p \in d : ctx' = NewCtx([p EXCEPT !.reproducible = ~cmd.unsafe], cmd.main)
  BY DEF SetupLua
<1>2. Fresh(p)
  BY NewFresh, DeclaredFresh DEF ScriptIInv
<1> DEFINE v == ~cmd.unsafe
           q == [p EXCEPT !.reproducible = v]
<1>3. Sets(p, "reproducible", v, q)
  BY DEF Sets
<1>4. ctx' = NewCtx(q, cmd.main)
  BY <1>1
<1> HIDE DEF v, q
<1>5. Fresh(q)
  <2>2. "reproducible" \in PlanFields \ Watched /\ "reproducible" # "plugins"
    BY DEF PlanFields, Watched
  <2>3. PICK w : Sets(p, "reproducible", w, q)
    BY <1>3
  <2>4. PlanOK(p) /\ ~p.sealed
    BY <1>2 DEF Fresh
  <2>5. PlanKept(p, q)
    BY <2>2, <2>3, <2>4, OtherField
  <2>6. q.stmts = p.stmts
    BY <2>2, <2>3, <2>4, OtherField
  <2>1. PlanKept(p, q) /\ q.stmts = p.stmts
    BY <2>5, <2>6
  <2> QED
    BY <1>2, <2>1, KeptFresh
<1>6. CtxOK(ctx') /\ ~ctx'.p.sealed
  BY <1>4, <1>5, NewCtxOK DEF Fresh
<1> QED
  BY <1>6 DEF SetupLua, ScriptIInv

LEMMA SetupApiStep ==
  ASSUME ScriptIInv, SetupApi PROVE ScriptIInv'
<1> DEFINE exe == [NoOutput EXCEPT !.kind = "exe", !.format = "elf", !.entry = cmd.entry]
           os  == plan_output(plan_new("x86_64", "api"), exe)
           ps  == UNION {Declared(q, cmd) : q \in os}
           ds  == UNION {synthesize_defaults(r) : r \in ps}
<1>1. \E p \in UNION {plan_seal(q) : q \in ds} : ctx' = NewCtx(p, NULL)
  BY DEF SetupApi
<1>2. \A q \in os : Fresh(q)
  BY NewFresh, OutputKept, KeptFresh DEF Fresh, PlanStays
<1> HIDE DEF os
<1>3. \A q \in ps : Fresh(q)
  BY <1>2, DeclaredFresh DEF ScriptIInv
<1> HIDE DEF ps
<1>4. \A q \in ds : Fresh(q)
  BY <1>3, DefaultsFresh
<1> HIDE DEF ds
<1>5. PICK q \in ds : \E p \in plan_seal(q) : ctx' = NewCtx(p, NULL)
  BY <1>1
<1>8. PICK p \in plan_seal(q) : ctx' = NewCtx(p, NULL)
  BY <1>5
<1>6. Sealed(q, p) /\ Fresh(q)
  BY <1>4, <1>8, SealSeals DEF Fresh
<1>7. CtxOK(ctx') /\ ctx'.p.sealed
  BY <1>8, <1>6, NewCtxOK DEF Fresh, Sealed
<1> QED
  BY <1>7 DEF SetupApi, ScriptIInv

\* An error that no pcall catches ends the script.
LEMMA CallStep ==
  ASSUME ScriptIInv, ScriptCalls PROVE ScriptIInv'
<1>1. PICK c \in Call : Perform(c)
  BY DEF ScriptCalls
<1> DEFINE r == Do(ctx, c)
<1>2. Outcome(ctx, r)
  BY DoOutcome DEF ScriptIInv
<1>3. /\ ctx' = r.x \/ ctx' = Unwind(r.x)
      /\ stage' = stage \/ stage' = "failed"
  BY <1>1 DEF Perform
<1> HIDE DEF r
<1>4. CtxOK(ctx') /\ ctx'.p.sealed = ctx.p.sealed
  BY <1>2, <1>3, UnwindOK DEF Outcome
<1> QED
  BY <1>3, <1>4 DEF ScriptCalls, ScriptIInv

LEMMA ReturnStep ==
  ASSUME ScriptIInv, Returns PROVE ScriptIInv'
<1>1. ctx.frames # <<>> /\ ctx' = Leave(ctx)
  BY DEF Returns
<1>2. Len(ctx.frames) # 0
  BY <1>1, EmptySeq DEF ScriptIInv, CtxOK, ScopesOK, Listed
<1>3. CtxOK(ctx') /\ ctx'.p = ctx.p
  BY <1>1, <1>2, LeaveOK DEF ScriptIInv
<1> QED
  BY <1>3 DEF Returns, ScriptIInv

LEMMA SealStep ==
  ASSUME ScriptIInv, Seal PROVE ScriptIInv'
<1> DEFINE x  == Flushed(ctx).x
           fs == IF Flushed(ctx).ok THEN Finished(x, cmd.entry) ELSE {}
           p  == CHOOSE q \in fs : TRUE
<1>1. CtxOK(ctx) /\ ~ctx.p.sealed
  BY DEF ScriptIInv, Seal
<1>2. Outcome(ctx, Ret(x))
  <2> DEFINE ids == [i \in DOMAIN ctx.sink |-> i]
             e   == Each(ctx, Loop("flush"), ids)
  <2>1. Listed(ids)
    <3>1. DOMAIN ctx.sink = 1..Len(ctx.sink) /\ Len(ctx.sink) \in Nat
      BY <1>1, ListedFacts DEF CtxOK
    <3>2. ids = [i \in 1..Len(ctx.sink) |-> ids[i]]
      BY <3>1
    <3> HIDE DEF ids
    <3> QED
      BY <3>1, <3>2, ListedOf
  <2>2. x = e.x
    BY DEF Flushed
  <2> HIDE DEF ids
  <2>3. Loop("flush").does \in LoopKinds /\ Loop("flush").sec \in 0 .. Len(ctx.p.secs)
    BY <1>1, LoopFields DEF LoopKinds
  <2>4. Builds(ctx, e)
    BY <1>1, <2>1, <2>3, EachBuilds
  <2> HIDE DEF e, x
  <2>5. Outcome(ctx, e)
    BY <1>1, <2>4, BuildsOutcome
  <2>6. Ret(x).x = e.x /\ Ret(x).ok = TRUE
    BY <2>2, RetRaise
  <2> QED
    BY <2>5, <2>6 DEF Outcome
<1>3. CtxOK(x) /\ x.p.sealed = ctx.p.sealed
  BY <1>2, RetRaise DEF Outcome
<1>4. \/ fs = {} /\ ctx' = x /\ stage' = "failed"
      \/ fs # {} /\ ctx' = [x EXCEPT !.p = p] /\ stage' = "sealed"
  BY DEF Seal
<1>5. cmd' = cmd
  BY DEF Seal
<1> HIDE DEF x, fs
<1>6. CASE fs = {} /\ ctx' = x /\ stage' = "failed"
  BY <1>3, <1>5, <1>6 DEF ScriptIInv
<1>7. CASE fs # {} /\ ctx' = [x EXCEPT !.p = p] /\ stage' = "sealed"
  <2>1. p \in fs
    BY <1>7
  <2>2. Sealed(x.p, p)
    BY <1>3, <2>1, FinishedSealed DEF fs
  <2> DEFINE y == [x EXCEPT !.p = p]
  <2>3. Shaped(x, CtxFields) /\ y = [x EXCEPT !.p = p] /\ ctx' = y
    BY <1>3, <1>7 DEF CtxOK
  <2> HIDE DEF p, y
  <2>4. /\ Shaped(y, CtxFields) /\ y.p = p
        /\ y.sink = x.sink /\ y.depth = x.depth /\ y.stack = x.stack
        /\ y.frames = x.frames /\ y.hooks = x.hooks /\ y.names = x.names
    BY <2>3, SetPlan
  <2>5. ScopesOK(y) /\ NamesOK(y) /\ HooksOK(y)
    BY <1>3, <2>2, <2>4 DEF CtxOK, ScopesOK, NamesOK, HooksOK, Sealed
  <2>6. CtxOK(y) /\ y.p.sealed
    BY <1>3, <2>2, <2>4, <2>5 DEF CtxOK, Sealed
  <2> QED
    BY <1>5, <1>7, <2>3, <2>6 DEF ScriptIInv
<1> QED
  BY <1>4, <1>6, <1>7

(* The strengthening is an invariant of every command line and script.      *)
THEOREM ScriptInductive == Spec => []ScriptIInv
<1>1. ASSUME ScriptIInv, [Next]_vars PROVE ScriptIInv'
  <2>1. CASE SetupFails
    BY <1>1, <2>1 DEF SetupFails, Fail, ScriptIInv
  <2>2. CASE UNCHANGED vars
    BY <1>1, <2>2 DEF vars, ScriptIInv
  <2> QED
    BY <1>1, <2>1, <2>2, SetupLuaStep, SetupApiStep, CallStep, ReturnStep, SealStep DEF Next
<1> QED
  BY <1>1, ScriptInit, PTL DEF Spec

\* What the invariant says of the properties.
LEMMA ScriptImplies == ScriptIInv => ScriptSound
<1> SUFFICES ASSUME ScriptIInv PROVE ScriptSound
  OBVIOUS
<1>1. /\ CtxOK(ctx) /\ PlanOK(ctx.p) /\ ScopesOK(ctx) /\ NamesOK(ctx) /\ HooksOK(ctx)
  BY DEF ScriptIInv, CtxOK
<1>2. LccwldTypeOK
  <2>1. stage \in {"setup", "script", "sealed", "failed"}
    BY DEF ScriptIInv
  <2>2. ctx.depth \in Nat /\ ctx.hooks \in 0 .. MaxHooks
    BY <1>1, CountFinite DEF ScopesOK, HooksOK
  <2>3. \A i \in DOMAIN ctx.p.stmts : ctx.p.stmts[i].sec \in 0 .. Len(ctx.p.secs)
    BY <1>1 DEF PlanOK
  <2>4. ASSUME NEW i \in DOMAIN ctx.p.hooks PROVE i <= ctx.hooks
    <3>1. /\ i \in 1..Len(ctx.p.hooks) /\ Len(ctx.p.hooks) \in Nat
          /\ Len(ctx.p.hooks) <= ctx.hooks /\ ctx.hooks \in Nat
      BY <1>1, ListedFacts, LccwldAssumption DEF PlanOK, HooksOK
    <3> QED
      BY <3>1
  <2>5. ctx.p.sealed = (stage = "sealed" \/ (stage = "failed" /\ ctx.p.sealed))
    BY <1>1 DEF PlanOK, ScriptIInv
  <2> QED
    BY <2>1, <2>2, <2>3, <2>4, <2>5 DEF LccwldTypeOK
<1>3. AsNeededScope
  <2>1. /\ ctx.depth > 0 <=> \E i \in DOMAIN ctx.frames : ctx.frames[i] = "as_needed"
    BY <1>1, CountPositive DEF ScopesOK
  <2> QED
    BY <2>1 DEF AsNeededScope
<1>4. SealFrozen
  BY <1>1 DEF PlanOK, SealFrozen
<1>5. IncludeSane
  BY <1>1 DEF ScopesOK, IncludeSane, Count
<1>6. GensymFresh
  <2>1. ASSUME NEW i \in DOMAIN ctx.names, NEW j \in DOMAIN ctx.names,
               ctx.names[i][2] # 0, i # j, ctx.names[i] = ctx.names[j]
        PROVE  FALSE
    BY <1>1, <2>1 DEF NamesOK
  <2> QED
    BY <2>1 DEF GensymFresh
<1> QED
  BY <1>2, <1>3, <1>4, <1>5, <1>6 DEF ScriptSound

(* However a script nests as_needed, include and pcall and wherever an error *)
(* passes through them (run_chunk, l_include, l_as_needed), the scopes end   *)
(* with their calls, the paths on the stack are those of the open includes,  *)
(* no two spelled alike, names are fresh, and the sealed plan is what was    *)
(* hashed (ccwld_plan_seal), whatever the hooks call after that.             *)
THEOREM ScriptsSound == Spec => []ScriptSound
BY ScriptInductive, ScriptImplies, PTL

(***************************************************************************)
(* What a script declared is in the plan.                                  *)
(***************************************************************************)
SinkFields == {"name", "expr", "provide", "hidden", "consumed"}

Value(s) == <<s.name, s.expr>>

UsedAs(x, v) == {i \in DOMAIN x.sink : x.sink[i].consumed /\ Value(x.sink[i]) = v}

PlacedAs(p, v) == {i \in DOMAIN p.stmts : Value(p.stmts[i]) = v}

(* What the script has noted: every statement of the plan is one that was   *)
(* consumed, as often as it was.                                            *)
NotesOK(x) ==
  /\ Listed(x.pending)
  /\ \A i \in DOMAIN x.sink : Shaped(x.sink[i], SinkFields) /\ x.sink[i].consumed \in BOOLEAN
  /\ \A v : Cardinality(UsedAs(x, v)) = Cardinality(PlacedAs(x.p, v))

LEMMA NotesSame ==
  ASSUME NEW x, NotesOK(x), NEW y, Listed(y.pending), y.sink = x.sink, y.p.stmts = x.p.stmts
  PROVE  NotesOK(y)
BY DEF NotesOK, UsedAs, PlacedAs

\* One more, or none.
LEMMA OneMore ==
  ASSUME NEW A, IsFiniteSet(A), NEW e, e \notin A, NEW more \in BOOLEAN,
         NEW B, B = IF more THEN A \cup {e} ELSE A
  PROVE  Cardinality(A) \in Nat /\ Cardinality(B) = Cardinality(A) + (IF more THEN 1 ELSE 0)
<1>1. Cardinality(A) \in Nat
  BY FS_CardinalityType
<1>2. CASE more
  BY <1>1, <1>2, FS_AddElement
<1>3. CASE ~more
  BY <1>1, <1>3
<1> QED
  BY <1>1, <1>2, <1>3

LEMMA ConsumedEntry ==
  ASSUME NEW s, Shaped(s, SinkFields), NEW u, NEW t, Sets(s, "consumed", u, t)
  PROVE  Shaped(t, SinkFields) /\ t["consumed"] = u /\ Value(t) = Value(s)
<1>1. "consumed" \in SinkFields /\ "name" \in SinkFields /\ "expr" \in SinkFields
  BY DEF SinkFields
<1>2. Shaped(t, SinkFields) /\ t["consumed"] = u /\ \A g \in SinkFields : g # "consumed" => t[g] = s[g]
  BY <1>1, SetField
<1>3. t["name"] = s["name"] /\ t["expr"] = s["expr"]
  BY <1>1, <1>2
<1> QED
  BY <1>2, <1>3 DEF Value

\* A statement is consumed and placed.
LEMMA PlacedNotes ==
  ASSUME NEW x, CtxOK(x), NotesOK(x), NEW id \in DOMAIN x.sink, ~x.sink[id].consumed,
         NEW y, y.pending = x.pending,
         NEW t, NEW u, u = TRUE, Sets(x.sink[id], "consumed", u, t), Sets(x.sink, id, t, y.sink),
         NEW e, Value(e) = Value(x.sink[id]), y.p.stmts = Append(x.p.stmts, e)
  PROVE  NotesOK(y) /\ Len(y.sink) = Len(x.sink)
         /\ \A k \in DOMAIN x.sink : x.sink[k].consumed => y.sink[k].consumed
<1> DEFINE s == x.sink[id]
           n == Len(x.p.stmts)
<1>1. /\ Listed(x.sink) /\ Listed(x.p.stmts) /\ n \in Nat /\ DOMAIN x.p.stmts = 1..n
      /\ Len(x.sink) \in Nat /\ DOMAIN x.sink = 1..Len(x.sink)
  BY ListedFacts DEF CtxOK, PlanOK
<1>2. /\ Listed(y.sink) /\ Len(y.sink) = Len(x.sink)
      /\ \A k \in DOMAIN x.sink : y.sink[k] = IF k = id THEN t ELSE x.sink[k]
  BY <1>1, ListedSet
<1>3. DOMAIN y.sink = DOMAIN x.sink
  BY <1>1, <1>2, ListedFacts
<1>4. Shaped(t, SinkFields) /\ t["consumed"] = u /\ Value(t) = Value(s)
  <2>1. Shaped(s, SinkFields) /\ Sets(s, "consumed", u, t)
    BY DEF NotesOK
  <2> HIDE DEF s
  <2> QED
    BY <2>1, ConsumedEntry
<1>5. t.consumed = u /\ Value(t) = Value(s)
  BY <1>4 DEF Value
<1>6. /\ Len(y.p.stmts) = n + 1 /\ y.p.stmts[n + 1] = e
      /\ DOMAIN y.p.stmts = 1..(n + 1)
      /\ \A i \in 1..n : y.p.stmts[i] = x.p.stmts[i]
  BY <1>1, ListedAppend, ListedFacts
<1>7. ASSUME NEW v PROVE Cardinality(UsedAs(y, v)) = Cardinality(PlacedAs(y.p, v))
  <2>1. IsFiniteSet(UsedAs(x, v)) /\ IsFiniteSet(PlacedAs(x.p, v))
    <3>1. UsedAs(x, v) \subseteq 1..Len(x.sink) /\ PlacedAs(x.p, v) \subseteq 1..n
      BY <1>1 DEF UsedAs, PlacedAs
    <3>2. IsFiniteSet(1..Len(x.sink)) /\ IsFiniteSet(1..n)
      <4>1. 1 \in Int /\ n \in Int /\ Len(x.sink) \in Int
        BY <1>1
      <4> QED
        BY <4>1, FS_Interval
    <3> QED
      BY <3>1, <3>2, FS_Subset
  <2> DEFINE more == Value(s) = v
  <2>2. id \notin UsedAs(x, v) /\ n + 1 \notin PlacedAs(x.p, v)
    BY <1>1 DEF UsedAs, PlacedAs
  <2>3. UsedAs(y, v) = IF more THEN UsedAs(x, v) \cup {id} ELSE UsedAs(x, v)
    BY <1>2, <1>3, <1>5 DEF UsedAs
  <2>4. PlacedAs(y.p, v) = IF more THEN PlacedAs(x.p, v) \cup {n + 1} ELSE PlacedAs(x.p, v)
    BY <1>1, <1>6 DEF PlacedAs
  <2>5. Cardinality(UsedAs(x, v)) = Cardinality(PlacedAs(x.p, v)) /\ more \in BOOLEAN
    BY DEF NotesOK
  <2> HIDE DEF more, n
  <2> QED
    BY <2>1, <2>2, <2>3, <2>4, <2>5, OneMore
<1>8. \A i \in DOMAIN y.sink : Shaped(y.sink[i], SinkFields) /\ y.sink[i].consumed \in BOOLEAN
  BY <1>2, <1>3, <1>4, <1>5 DEF NotesOK
<1>9. Listed(y.pending)
  BY DEF NotesOK
<1>10. \A k \in DOMAIN x.sink : x.sink[k].consumed => y.sink[k].consumed
  BY <1>2, <1>5
<1> QED
  BY <1>2, <1>7, <1>8, <1>9, <1>10 DEF NotesOK

(* What a loop carries on from one round to the next: a loop that belongs   *)
(* to out works on the section declared last, the others on none.           *)
Placing == {"attr", "expr", "selector", "entry"}

SecsOf(p, q, r, loop) ==
  IF loop.does \in Placing THEN Latest(p, q, loop.name) => Latest(p, r, loop.name)
  ELSE r.secs = q.secs

Carries(p, x, y, loop) ==
  /\ NotesOK(y) /\ Len(y.sink) = Len(x.sink)
  /\ \A k \in DOMAIN x.sink : x.sink[k].consumed => y.sink[k].consumed
  /\ y.p.plugins = x.p.plugins /\ SecsOf(p, x.p, y.p, loop)

LEMMA SecsSame ==
  ASSUME NEW p, NEW q, NEW r, r.secs = q.secs, NEW loop PROVE SecsOf(p, q, r, loop)
BY DEF SecsOf, Latest

LEMMA CarriesTrans ==
  ASSUME NEW p, NEW x, NEW y, NEW z, NEW loop, CtxOK(x), CtxOK(y),
         Carries(p, x, y, loop), Carries(p, y, z, loop)
  PROVE  Carries(p, x, z, loop)
<1>1. DOMAIN x.sink = DOMAIN y.sink
  BY ListedFacts DEF CtxOK, Carries
<1>2. SecsOf(p, x.p, z.p, loop)
  BY DEF Carries, SecsOf
<1> QED
  BY <1>1, <1>2 DEF Carries

LEMMA CarriesSame ==
  ASSUME NEW p, NEW x, NotesOK(x), NEW loop PROVE Carries(p, x, x, loop)
BY SecsSame DEF Carries

LEMMA WithCarries ==
  ASSUME NEW p, NEW x, CtxOK(x), NotesOK(x), NEW loop, NEW ps,
         \A q \in ps : /\ PlanKept(x.p, q) /\ q.stmts = x.p.stmts /\ q.plugins = x.p.plugins
                       /\ SecsOf(p, x.p, q, loop)
  PROVE  Carries(p, x, With(x, ps).x, loop)
<1> DEFINE r == With(x, ps)
<1>1. /\ Builds(x, r) /\ (r.ok => r.x.p \in ps) /\ (~r.ok => r.x = x)
      /\ r.x.sink = x.sink /\ r.x.pending = x.pending
  BY WithBuilds
<1> HIDE DEF r
<1>2. CASE r.ok
  <2>1. /\ r.x.p.stmts = x.p.stmts /\ r.x.p.plugins = x.p.plugins
        /\ SecsOf(p, x.p, r.x.p, loop)
    BY <1>1, <1>2
  <2>2. NotesOK(r.x)
    BY <1>1, <2>1, NotesSame DEF NotesOK
  <2> QED
    BY <1>1, <2>1, <2>2 DEF Carries, r
<1>3. CASE ~r.ok
  BY <1>1, <1>3, CarriesSame DEF r
<1> QED
  BY <1>2, <1>3

\* Builders that leave sections, statements and plugins alone.
LEMMA StaysCarry ==
  ASSUME NEW p, NEW x, CtxOK(x), NotesOK(x), NEW loop, NEW ps,
         \A q \in ps : PlanKept(x.p, q) /\ PlanStays(x.p, q)
  PROVE  Carries(p, x, With(x, ps).x, loop)
BY WithCarries, SecsSame DEF PlanStays

LEMMA SinkApplyCarries ==
  ASSUME NEW p, NEW x, CtxOK(x), NotesOK(x), NEW loop, NEW id \in DOMAIN x.sink,
         ~x.sink[id].consumed, NEW sec \in 0 .. Len(x.p.secs)
  PROVE  /\ Carries(p, x, sink_apply(x, id, sec).x, loop)
         /\ sink_apply(x, id, sec).ok => sink_apply(x, id, sec).x.sink[id].consumed
<1> DEFINE s  == x.sink[id]
           ps == IF s.name = "." THEN plan_dotstep(x.p, s.expr, sec)
                 ELSE plan_symbol_at(x.p, s.name, s.expr, s.provide, s.hidden, sec)
           r  == With(x, ps)
           u  == TRUE
           t  == [r.x.sink[id] EXCEPT !["consumed"] = u]
           v  == [r.x.sink EXCEPT ![id] = t]
           y  == [r.x EXCEPT !.sink = v]
<1>1. sink_apply(x, id, sec) = IF r.ok THEN Ret(y) ELSE r
  BY DEF sink_apply
<1>2. \A q \in ps : /\ PlanKept(x.p, q) /\ q.secs = x.p.secs /\ q.plugins = x.p.plugins
                    /\ \E e : Value(e) = Value(s) /\ q.stmts = Append(x.p.stmts, e)
  <2>1. CASE s.name = "."
    BY <2>1, DotstepKept DEF CtxOK, Value
  <2>2. CASE s.name # "."
    BY <2>2, SymbolKept DEF CtxOK, Value
  <2> QED
    BY <2>1, <2>2
<1>3. /\ Sets(r.x.sink[id], "consumed", u, t) /\ Sets(r.x.sink, id, t, v)
      /\ Sets(r.x, "sink", v, y) /\ u = TRUE
  BY DEF Sets
<1> HIDE DEF ps
<1>4. /\ Builds(x, r) /\ (r.ok => r.x.p \in ps) /\ (~r.ok => r.x = x)
      /\ r.x.sink = x.sink /\ r.x.pending = x.pending
  BY <1>2, WithBuilds
<1> HIDE DEF r, t, v, y, u
<1>5. CASE ~r.ok
  BY <1>1, <1>4, <1>5, CarriesSame
<1>6. CASE r.ok
  <2>1. Shaped(r.x, CtxFields) /\ "sink" \in CtxFields
    BY <1>4 DEF Builds, CtxKept, CtxFields
  <2>2. y.p = r.x.p /\ y.sink = v /\ y.pending = r.x.pending
    BY <1>3, <2>1, SetCtx
  <2>3. PICK e : Value(e) = Value(s) /\ y.p.stmts = Append(x.p.stmts, e)
    BY <1>2, <1>4, <1>6, <2>2
  <2>4. y.p.secs = x.p.secs /\ y.p.plugins = x.p.plugins
    BY <1>2, <1>4, <1>6, <2>2
  <2>5. Sets(x.sink[id], "consumed", u, t) /\ Sets(x.sink, id, t, y.sink) /\ y.pending = x.pending
    BY <1>3, <1>4, <2>2
  <2>6. /\ NotesOK(y) /\ Len(y.sink) = Len(x.sink)
        /\ \A k \in DOMAIN x.sink : x.sink[k].consumed => y.sink[k].consumed
    BY <1>3, <2>3, <2>5, PlacedNotes
  <2>7. Carries(p, x, y, loop)
    BY <2>4, <2>6, SecsSame DEF Carries
  <2>8. y.sink[id] = t
    BY <2>5, ListedSet DEF CtxOK
  <2>9. t.consumed
    <3>1. Shaped(x.sink[id], SinkFields) /\ "consumed" \in SinkFields
      BY DEF NotesOK, SinkFields
    <3>2. t["consumed"] = u
      BY <2>5, <3>1, SetField
    <3> QED
      BY <1>3, <3>2
  <2>10. sink_apply(x, id, sec).x = y
    BY <1>1, <1>6, RetRaise
  <2> QED
    BY <2>7, <2>8, <2>9, <2>10
<1> QED
  BY <1>5, <1>6

\* An attribute or a selector of the section that is declared.
LEMMA WrittenCarries ==
  ASSUME NEW p, PlanOK(p), NEW x, CtxOK(x), NotesOK(x), NEW loop, loop.does \in Placing,
         NEW field \in SecFields \ {"name"}, NEW ps,
         \A q \in ps : /\ PlanKept(x.p, q) /\ q.stmts = x.p.stmts /\ q.plugins = x.p.plugins
                       /\ Written(x.p, q, loop.name, field)
  PROVE  Carries(p, x, With(x, ps).x, loop)
<1>1. ASSUME NEW q \in ps PROVE SecsOf(p, x.p, q, loop)
  <2>1. PlanOK(x.p) /\ Written(x.p, q, loop.name, field)
    BY <1>1 DEF CtxOK
  <2>2. Latest(p, x.p, loop.name) => Latest(p, q, loop.name)
    BY <2>1, LatestKept
  <2> QED
    BY <2>2 DEF SecsOf
<1> QED
  BY <1>1, WithCarries

LEMMA SelectorCarries ==
  ASSUME NEW p, PlanOK(p), NEW x, CtxOK(x), NotesOK(x), NEW loop, loop.does \in Placing, NEW el
  PROVE  Carries(p, x, apply_selector(x, el, loop.name).x, loop)
<1> DEFINE ps == plan_selector(x.p, loop.name, el.file, el.globs, el.keep)
<1>1. apply_selector(x, el, loop.name) = IF el.globs = <<>> THEN Raise(x) ELSE With(x, ps)
  BY DEF apply_selector
<1>2. \A q \in ps : /\ PlanKept(x.p, q) /\ q.stmts = x.p.stmts /\ q.plugins = x.p.plugins
                    /\ Written(x.p, q, loop.name, "sels")
  BY SelectorKept DEF CtxOK
<1>3. "sels" \in SecFields \ {"name"}
  BY DEF SecFields
<1> HIDE DEF ps
<1>4. Carries(p, x, With(x, ps).x, loop)
  BY <1>2, <1>3, WrittenCarries
<1> QED
  BY <1>1, <1>4, CarriesSame, RetRaise

\* One argument.
LEMMA RoundCarries ==
  ASSUME NEW p, PlanOK(p), NEW x, CtxOK(x), NotesOK(x), NEW loop, loop.does \in LoopKinds,
         loop.sec \in 0 .. Len(x.p.secs), NEW a,
         loop.does \in {"attr", "expr"} => a.f \in SecFields \ {"name"},
         loop.does = "flush" => a \in DOMAIN x.sink
  PROVE  Carries(p, x, Round(x, loop, a).x, loop)
<1>1. PlanOK(x.p)
  BY DEF CtxOK
<1>r. ASSUME NEW r, r = Ret(x) \/ r = Raise(x) PROVE Carries(p, x, r.x, loop)
  <2>1. r.x = x
    BY <1>r, RetRaise
  <2> QED
    BY <2>1, CarriesSame
<1>2. CASE loop.does = "input"
  <2>1. Round(x, loop, a) = With(x, plan_input(x.p, a, x.depth > 0, FALSE))
    BY <1>2 DEF Round
  <2> QED
    BY <1>1, <2>1, StaysCarry, InputKept
<1>3. CASE loop.does = "search_path"
  <2>1. Round(x, loop, a) = With(x, plan_search_path(x.p, a))
    BY <1>3 DEF Round
  <2> QED
    BY <1>1, <2>1, StaysCarry, SearchPathKept
<1>4. CASE loop.does = "memory"
  <2>1. Round(x, loop, a) = With(x, plan_memory(x.p, a.name, a.attrs, a.origin, a.length))
    BY <1>4 DEF Round
  <2> QED
    BY <1>1, <2>1, StaysCarry, MemoryKept
<1>5. CASE loop.does = "phdr"
  <2>1. Round(x, loop, a) = With(x, plan_phdr(x.p, a.name, a.type, a.flags, a.align))
    BY <1>5 DEF Round
  <2> QED
    BY <1>1, <2>1, StaysCarry, PhdrKept
<1>6. CASE loop.does = "version"
  <2>1. Round(x, loop, a) = With(x, plan_version(x.p, a.sym, a.ver, a.def))
    BY <1>6 DEF Round
  <2> QED
    BY <1>1, <2>1, StaysCarry, VersionKept
<1>7. CASE loop.does = "attr"
  <2> DEFINE ps == plan_section_set(x.p, loop.name, a.f, a.v)
  <2>1. Round(x, loop, a) = With(x, ps)
    BY <1>7 DEF Round
  <2>2. \A q \in ps : /\ PlanKept(x.p, q) /\ q.stmts = x.p.stmts /\ q.plugins = x.p.plugins
                      /\ Written(x.p, q, loop.name, a.f)
    BY <1>1, SectionSetKept
  <2>3. loop.does \in Placing /\ a.f \in SecFields \ {"name"}
    BY <1>7 DEF Placing
  <2> HIDE DEF ps
  <2> QED
    BY <2>1, <2>2, <2>3, WrittenCarries
<1>8. CASE loop.does = "expr"
  <2> DEFINE ps == plan_section_set(x.p, loop.name, a.f, lift_operand(a.v))
  <2>1. Round(x, loop, a) = Ret(x) \/ Round(x, loop, a) = Raise(x) \/ Round(x, loop, a) = With(x, ps)
    <3>1. Round(x, loop, a) = OutExpr(x, loop.name, a.f, a.v)
      BY <1>8 DEF Round
    <3> QED
      BY <3>1 DEF OutExpr
  <2>2. \A q \in ps : /\ PlanKept(x.p, q) /\ q.stmts = x.p.stmts /\ q.plugins = x.p.plugins
                      /\ Written(x.p, q, loop.name, a.f)
    BY <1>1, SectionSetKept
  <2>3. loop.does \in Placing /\ a.f \in SecFields \ {"name"}
    BY <1>8 DEF Placing
  <2> HIDE DEF ps
  <2>4. Carries(p, x, With(x, ps).x, loop)
    BY <2>2, <2>3, WrittenCarries
  <2>5. CASE Round(x, loop, a) = With(x, ps)
    BY <2>4, <2>5
  <2>6. CASE Round(x, loop, a) # With(x, ps)
    BY <1>r, <2>1, <2>6
  <2> QED
    BY <2>5, <2>6
<1>s. ASSUME NEW r, r = (IF stmt_from_handle(x, a) # {} THEN sink_apply(x, a.id, loop.sec) ELSE Ret(x))
      PROVE  Carries(p, x, r.x, loop)
  <2>1. CASE stmt_from_handle(x, a) # {}
    <3>1. a.id \in DOMAIN x.sink /\ ~x.sink[a.id].consumed
      BY <2>1 DEF stmt_from_handle
    <3> QED
      BY <1>s, <2>1, <3>1, SinkApplyCarries
  <2>2. CASE stmt_from_handle(x, a) = {}
    BY <1>s, <2>2, CarriesSame, RetRaise
  <2> QED
    BY <2>1, <2>2
<1>9. CASE loop.does = "selector"
  <2>1. Round(x, loop, a) = IF a.el = "sel" THEN apply_selector(x, a, loop.name) ELSE Raise(x)
    BY <1>9 DEF Round
  <2>2. loop.does \in Placing
    BY <1>9 DEF Placing
  <2> QED
    <3>1. CASE a.el = "sel"
      BY <2>1, <2>2, <3>1, SelectorCarries
    <3>2. CASE a.el # "sel"
      BY <1>r, <2>1, <3>2
    <3> QED
      BY <3>1, <3>2
<1>10. CASE loop.does = "entry"
  <2>1. Round(x, loop, a) =
          IF a.el = "sel" THEN apply_selector(x, a, loop.name)
          ELSE IF stmt_from_handle(x, a) # {} THEN sink_apply(x, a.id, loop.sec) ELSE Ret(x)
    BY <1>10 DEF Round
  <2>2. loop.does \in Placing
    BY <1>10 DEF Placing
  <2>3. CASE a.el = "sel"
    BY <2>1, <2>2, <2>3, SelectorCarries
  <2>4. CASE a.el # "sel"
    BY <1>s, <2>1, <2>4
  <2> QED
    BY <2>3, <2>4
<1>11. CASE loop.does = "stmt"
  <2>1. Round(x, loop, a) =
          IF stmt_from_handle(x, a) # {} THEN sink_apply(x, a.id, loop.sec) ELSE Ret(x)
    BY <1>11 DEF Round
  <2> QED
    BY <1>s, <2>1
<1>12. CASE loop.does = "flush"
  <2>1. Round(x, loop, a) =
          IF x.sink[a].consumed THEN Ret(x) ELSE sink_apply(x, a, loop.sec)
    BY <1>12 DEF Round
  <2>2. a \in DOMAIN x.sink
    BY <1>12
  <2> QED
    <3>1. CASE x.sink[a].consumed
      BY <1>r, <2>1, <3>1
    <3>2. CASE ~x.sink[a].consumed
      BY <2>1, <2>2, <3>2, SinkApplyCarries
    <3> QED
      BY <3>1, <3>2
<1> QED
  BY <1>2, <1>3, <1>4, <1>5, <1>6, <1>7, <1>8, <1>9, <1>10, <1>11, <1>12 DEF LoopKinds

\* All of them.
LEMMA EachCarries ==
  ASSUME NEW p, PlanOK(p), NEW x, CtxOK(x), NotesOK(x), NEW loop, loop.does \in LoopKinds,
         loop.sec \in 0 .. Len(x.p.secs), NEW args, Listed(args),
         loop.does \in {"attr", "expr"} =>
           \A i \in 1..Len(args) : args[i].f \in SecFields \ {"name"},
         loop.does = "flush" => \A i \in 1..Len(args) : args[i] \in DOMAIN x.sink
  PROVE  /\ Carries(p, x, Each(x, loop, args).x, loop)
         /\ loop.does = "flush" /\ Each(x, loop, args).ok =>
              \A i \in 1..Len(args) : Each(x, loop, args).x.sink[args[i]].consumed
<1>1. Len(args) \in Nat
  BY ListedFacts
<1>2. PICK f : /\ f[0] = Ret(x) /\ Each(x, loop, args) = f[Len(args)]
               /\ \A i \in 1..Len(args) : f[i] = After(x, loop, args, i, f[i - 1])
  BY <1>1, EachRuns
<1> DEFINE Good(i) == /\ Builds(x, f[i]) /\ Carries(p, x, f[i].x, loop)
                      /\ loop.does = "flush" /\ f[i].ok =>
                           \A k \in 1..i : f[i].x.sink[args[k]].consumed
           S == {i \in 0..Len(args) : Good(i)}
<1>3. 0 \in S
  <2>1. f[0].x = x
    BY <1>2, RetRaise
  <2> QED
    BY <1>1, <1>2, <2>1, SameBuilds, CarriesSame
<1>4. ASSUME NEW i \in 1..Len(args), i - 1 \in S PROVE i \in S
  <2> DEFINE r == f[i - 1]
             z == Round(r.x, loop, args[i])
  <2>1. /\ Builds(x, r) /\ CtxOK(r.x) /\ CtxKept(x, r.x) /\ Carries(p, x, r.x, loop)
        /\ loop.does = "flush" /\ r.ok => \A k \in 1..(i - 1) : r.x.sink[args[k]].consumed
    BY <1>4, KeptOK DEF Builds
  <2>2. f[i] = IF r.ok THEN z ELSE r
    BY <1>2 DEF After
  <2> HIDE DEF r
  <2>3. loop.sec \in 0 .. Len(r.x.p.secs)
    <3>1. Len(r.x.p.secs) >= Len(x.p.secs) /\ Len(x.p.secs) \in Nat /\ Len(r.x.p.secs) \in Nat
      BY <2>1, ListedFacts DEF CtxKept, PlanKept, CtxOK, PlanOK
    <3> QED
      BY <3>1
  <2>4. DOMAIN r.x.sink = DOMAIN x.sink /\ NotesOK(r.x)
    BY <2>1, ListedFacts DEF CtxOK, Carries
  <2>5. Builds(r.x, z)
    BY <2>1, <2>3, RoundBuilds
  <2>6. Carries(p, r.x, z.x, loop)
    BY <2>1, <2>3, <2>4, RoundCarries
  <2>7. CtxKept(x, z.x) /\ CtxOK(z.x) /\ z.ok \in BOOLEAN
    BY <2>1, <2>5, CtxTrans, KeptOK DEF Builds
  <2>8. Carries(p, x, z.x, loop)
    BY <2>1, <2>6, <2>7, CarriesTrans
  <2>9. ASSUME loop.does = "flush", r.ok, z.ok PROVE \A k \in 1..i : z.x.sink[args[k]].consumed
    <3>1. \A k \in 1..(i - 1) : z.x.sink[args[k]].consumed
      <4>1. \A k \in 1..(i - 1) : args[k] \in DOMAIN r.x.sink /\ r.x.sink[args[k]].consumed
        BY <1>1, <2>1, <2>4, <2>9
      <4> QED
        BY <2>6, <4>1 DEF Carries
    <3>2. z.x.sink[args[i]].consumed
      <4>1. z = IF r.x.sink[args[i]].consumed THEN Ret(r.x) ELSE sink_apply(r.x, args[i], loop.sec)
        BY <2>9 DEF Round
      <4>2. args[i] \in DOMAIN r.x.sink
        BY <2>4, <2>9
      <4>3. CASE r.x.sink[args[i]].consumed
        BY <4>1, <4>3, RetRaise
      <4>4. CASE ~r.x.sink[args[i]].consumed
        BY <2>1, <2>3, <2>4, <2>9, <4>1, <4>2, <4>4, SinkApplyCarries
      <4> QED
        BY <4>3, <4>4
    <3>3. \A k \in 1..i : k \in 1..(i - 1) \/ k = i
      BY <1>1
    <3> QED
      BY <3>1, <3>2, <3>3
  <2>10. \A k \in 1..(i - 1) : k \in 1..i
    OBVIOUS
  <2>11. Good(i)
    <3> HIDE DEF z
    <3>1. CASE r.ok
      BY <2>2, <2>7, <2>8, <2>9, <3>1 DEF Builds
    <3>2. CASE ~r.ok
      BY <2>1, <2>2, <3>2
    <3> QED
      BY <3>1, <3>2
  <2> QED
    BY <1>1, <2>11
<1>5. Len(args) \in S
  <2> HIDE DEF S
  <2>1. \A i \in 0..Len(args) : i \in S
    BY <1>1, <1>3, <1>4, PrefixInduction
  <2> QED
    BY <2>1, <1>1
<1> QED
  BY <1>2, <1>5

(***************************************************************************)
(* What each function of the module keeps.                                 *)
(***************************************************************************)
(* The options that were pending are those of the plugin that is added.     *)
Handed(x, y) ==
  LET options == y.p.plugins[Len(y.p.plugins)].options
  IN /\ y.pending = <<>>
     /\ \A i \in DOMAIN x.pending : \E k \in DOMAIN options : options[k].key = x.pending[i].key

Keeps(x, y) ==
  /\ NotesOK(y)
  /\ \A i \in 1..Len(x.p.secs) : y.p.secs[i] = x.p.secs[i]
  /\ y.p.plugins = x.p.plugins \/ Handed(x, y)

LEMMA UntouchedKeeps ==
  ASSUME NEW x, NotesOK(x), NEW y, Untouched(x, y) PROVE Keeps(x, y)
<1>1. NotesOK(y)
  BY NotesSame DEF Untouched, PlanStays, NotesOK
<1> QED
  BY <1>1 DEF Keeps, Untouched, PlanStays

LEMMA KeepsUntouched ==
  ASSUME NEW x, NEW y, Keeps(x, y), NEW z, Untouched(y, z) PROVE Keeps(x, z)
<1>1. NotesOK(z)
  BY NotesSame DEF Keeps, Untouched, PlanStays, NotesOK
<1>2. z.p.plugins = y.p.plugins /\ z.p.secs = y.p.secs /\ z.pending = y.pending
  BY DEF Untouched, PlanStays
<1> QED
  BY <1>1, <1>2 DEF Keeps, Handed

LEMMA CarriesKeeps ==
  ASSUME NEW p, NEW x, NEW y, NEW loop, Carries(p, x, y, loop), loop.does \notin Placing
  PROVE  Keeps(x, y)
BY DEF Carries, SecsOf, Keeps

LEMMA StayingKeeps ==
  ASSUME NEW x, CtxOK(x), NotesOK(x), NEW ps,
         \A q \in ps : PlanKept(x.p, q) /\ PlanStays(x.p, q)
  PROVE  Keeps(x, With(x, ps).x)
<1>1. Loop("stmt").does \notin Placing
  BY DEF Loop, OutLoop, Placing
<1>2. Carries(x.p, x, With(x, ps).x, Loop("stmt"))
  BY StaysCarry
<1> QED
  BY <1>1, <1>2, CarriesKeeps

LEMMA LoopKeeps ==
  ASSUME NEW x, CtxOK(x), NotesOK(x), NEW does \in LoopKinds \ (Placing \cup {"flush"}),
         NEW args, Listed(args)
  PROVE  Keeps(x, Each(x, Loop(does), args).x)
<1>1. Loop(does).does = does /\ Loop(does).sec \in 0 .. Len(x.p.secs)
  BY LoopFields
<1>2. does \notin {"attr", "expr"} /\ does # "flush" /\ does \notin Placing /\ does \in LoopKinds
  BY DEF Placing
<1>3. PlanOK(x.p)
  BY DEF CtxOK
<1> DEFINE loop == Loop(does)
<1> HIDE DEF loop
<1>4. loop.does = does /\ loop.sec \in 0 .. Len(x.p.secs)
  BY <1>1 DEF loop
<1>5. Carries(x.p, x, Each(x, loop, args).x, loop)
  BY <1>2, <1>3, <1>4, EachCarries
<1> QED
  BY <1>2, <1>4, <1>5, CarriesKeeps DEF loop

LEMMA LoopsKeep ==
  ASSUME NEW x, CtxOK(x), NotesOK(x), NEW c \in Call
  PROVE  /\ c.fn = "input" => Keeps(x, l_input(x, c).x)
         /\ c.fn = "search_path" => Keeps(x, l_search_path(x, c).x)
         /\ c.fn = "memory" => Keeps(x, l_memory(x, c).x)
         /\ c.fn = "sections" => Keeps(x, l_sections(x, c).x)
         /\ c.fn = "phdrs" => Keeps(x, l_phdrs(x, c).x)
         /\ c.fn = "version" => Keeps(x, l_version(x, c).x)
<1>1. {"input", "search_path", "memory", "stmt", "phdr", "version"}
        \subseteq LoopKinds \ (Placing \cup {"flush"})
  BY DEF LoopKinds, Placing
<1>2. c.fn = "input" => Keeps(x, l_input(x, c).x)
  BY <1>1, LoopKeeps, CallAssumption DEF l_input
<1>3. c.fn = "search_path" => Keeps(x, l_search_path(x, c).x)
  BY <1>1, LoopKeeps, CallAssumption DEF l_search_path
<1>4. c.fn = "memory" => Keeps(x, l_memory(x, c).x)
  BY <1>1, LoopKeeps, CallAssumption DEF l_memory
<1>5. c.fn = "sections" => Keeps(x, l_sections(x, c).x)
  BY <1>1, LoopKeeps, CallAssumption DEF l_sections
<1>6. c.fn = "phdrs" => Keeps(x, l_phdrs(x, c).x)
  BY <1>1, LoopKeeps, CallAssumption DEF l_phdrs
<1>7. c.fn = "version" => Keeps(x, l_version(x, c).x)
  BY <1>1, LoopKeeps, VersionNodes
<1> QED
  BY <1>2, <1>3, <1>4, <1>5, <1>6, <1>7

LEMMA OutputKeeps ==
  ASSUME NEW x, CtxOK(x), NotesOK(x), NEW c PROVE Keeps(x, l_output(x, c).x)
<1> DEFINE ps == plan_output(x.p, c.o)
           r  == With(x, ps)
           y  == [r.x EXCEPT !.output_set = TRUE]
<1>1. \/ l_output(x, c) = Raise(x) \/ l_output(x, c) = r \/ l_output(x, c) = Ret(y)
  BY DEF l_output
<1>2. \A q \in ps : PlanKept(x.p, q) /\ PlanStays(x.p, q)
  BY OutputKept DEF CtxOK
<1> HIDE DEF ps
<1>3. Keeps(x, r.x) /\ Builds(x, r)
  BY <1>2, StayingKeeps, WithBuilds
<1>4. \E v : Sets(r.x, "output_set", v, y)
  BY DEF Sets
<1> HIDE DEF r, y
<1>5. Untouched(r.x, y)
  <2>1. Shaped(r.x, CtxFields) /\ "output_set" \in CtxFields
    BY <1>3 DEF Builds, CtxKept, CtxFields
  <2> QED
    BY <1>4, <2>1, SetCtx DEF Untouched, PlanStays
<1>6. Keeps(x, y)
  BY <1>3, <1>5, KeepsUntouched
<1>7. Keeps(x, x)
  BY UntouchedKeeps DEF Untouched, PlanStays
<1> QED
  BY <1>1, <1>3, <1>6, <1>7, RetRaise

LEMMA SameKeeps ==
  ASSUME NEW x, NotesOK(x), NEW r, r = Ret(x) \/ r = Raise(x) PROVE Keeps(x, r.x)
<1>1. r.x = x
  BY RetRaise
<1> QED
  BY <1>1, UntouchedKeeps DEF Untouched, PlanStays

LEMMA OthersKeep ==
  ASSUME NEW x, CtxOK(x), NotesOK(x), NEW c
  PROVE  /\ Keeps(x, l_group(x, c).x) /\ Keeps(x, l_startup(x, c).x)
         /\ Keeps(x, l_attr(x, c).x) /\ Keeps(x, l_lto(x, c).x) /\ Keeps(x, l_error(x, c).x)
<1>1. PlanOK(x.p)
  BY DEF CtxOK
<1>2. Keeps(x, l_group(x, c).x)
  <2>1. \/ l_group(x, c) = Raise(x) \/ l_group(x, c) = Ret(x)
        \/ l_group(x, c) = With(x, plan_group(x.p, c.paths))
    BY DEF l_group
  <2>2. Keeps(x, With(x, plan_group(x.p, c.paths)).x)
    BY <1>1, GroupKept, StayingKeeps
  <2> QED
    BY <2>1, <2>2, SameKeeps
<1>3. Keeps(x, l_startup(x, c).x)
  BY <1>1, InputKept, StayingKeeps DEF l_startup
<1>4. Keeps(x, l_attr(x, c).x)
  BY <1>1, AttrKept, StayingKeeps DEF l_attr
<1>5. Keeps(x, l_lto(x, c).x)
  <2>1. \/ l_lto(x, c) = Raise(x)
        \/ l_lto(x, c) = With(x, plan_lto(x.p, c.pipeline, c.jobs, c.cache_dir))
    BY DEF l_lto
  <2>2. Keeps(x, With(x, plan_lto(x.p, c.pipeline, c.jobs, c.cache_dir)).x)
    BY <1>1, LtoKept, StayingKeeps
  <2> QED
    BY <2>1, <2>2, SameKeeps
<1>6. Keeps(x, l_error(x, c).x)
  BY SameKeeps DEF l_error
<1> QED
  BY <1>2, <1>3, <1>4, <1>5, <1>6

\* A statement is noted; the plan has it when it is consumed.
LEMMA AssignKeeps ==
  ASSUME NEW x, CtxOK(x), NotesOK(x), NEW c PROVE Keeps(x, assign_impl(x, c).x)
<1> DEFINE s == [name |-> c.name, expr |-> lift_operand(c.v), provide |-> c.provide,
                 hidden |-> c.hidden, consumed |-> FALSE]
           v == Append(x.sink, s)
           y == [x EXCEPT !.sink = v]
           n == Len(x.sink)
<1>1. assign_impl(x, c) = Raise(x) \/ assign_impl(x, c) = Ret(y)
  BY DEF assign_impl
<1>2. Shaped(s, SinkFields)
  BY DEF Shaped, SinkFields
<1>3. ~s.consumed /\ s.consumed \in BOOLEAN
  BY Zenon
<1>4. Sets(x, "sink", v, y)
  BY DEF Sets
<1> HIDE DEF s
<1>5. /\ Listed(v) /\ Len(v) = n + 1 /\ v[n + 1] = s /\ n \in Nat
      /\ DOMAIN x.sink = 1..n /\ DOMAIN v = 1..(n + 1)
      /\ \A i \in 1..n : v[i] = x.sink[i]
  BY ListedAppend, ListedFacts DEF CtxOK
<1> HIDE DEF v, y, n
<1>6. y.p = x.p /\ y.sink = v /\ y.pending = x.pending
  <2>1. Shaped(x, CtxFields) /\ "sink" \in CtxFields
    BY DEF CtxOK, CtxFields
  <2> QED
    BY <1>4, <2>1, SetCtx
<1>7. \A i \in DOMAIN v : Shaped(v[i], SinkFields) /\ v[i].consumed \in BOOLEAN
  <2>1. \A i \in 1..(n + 1) : i = n + 1 \/ i \in 1..n
    BY <1>5
  <2>2. \A i \in 1..n : Shaped(v[i], SinkFields) /\ v[i].consumed \in BOOLEAN
    BY <1>5 DEF NotesOK
  <2> QED
    BY <1>2, <1>3, <1>5, <2>1, <2>2
<1>8. ASSUME NEW w PROVE UsedAs(y, w) = UsedAs(x, w)
  <2>1. \A i : i \in 1..n <=> i \in 1..(n + 1) /\ i # n + 1
    BY <1>5
  <2> QED
    BY <1>3, <1>5, <1>6, <2>1 DEF UsedAs
<1>9. NotesOK(y)
  BY <1>6, <1>7, <1>8 DEF NotesOK
<1>10. Keeps(x, y)
  BY <1>6, <1>9 DEF Keeps
<1> QED
  BY <1>1, <1>10, SameKeeps, RetRaise

\* What is left of options is a list, and has those with other keys.
LEMMA WithoutFacts ==
  ASSUME NEW s, Listed(s), NEW keys
  PROVE  /\ Listed(Without(s, keys))
         /\ \A i \in DOMAIN s : s[i].key \notin keys =>
              \E k \in DOMAIN Without(s, keys) : Without(s, keys)[k] = s[i]
<1> DEFINE T == Range(s)
           G == {o \in T : o.key \notin keys}
<1>1. Without(s, keys) = Filtered(s, G)
  BY DEF Without
<1>2. s \in Seq(T) /\ Len(s) \in Nat /\ DOMAIN s = 1..Len(s)
  BY ListedFacts DEF Listed
<1>3. \A i \in DOMAIN s : s[i].key \notin keys => s[i] \in G
  BY DEF Range
<1> HIDE DEF T, G
<1>4. PICK F : IsSelection(s, G, F) /\ Filtered(s, G) = F[Len(s)]
  BY <1>2, FilteredIsSelection
<1>5. SelectionOf(T, s, G, F)
  BY <1>2, <1>4, SelectionFacts
<1>6. Len(s) \in 0..Len(s)
  BY <1>2
<1>7. /\ F[Len(s)] \in Seq(T \cap G)
      /\ \A j \in 1..Len(s) : s[j] \in G => \E k \in DOMAIN F[Len(s)] : F[Len(s)][k] = s[j]
  BY <1>5, <1>6 DEF SelectionOf
<1>8. Listed(Filtered(s, G))
  BY <1>4, <1>7, ListedIn
<1> QED
  BY <1>1, <1>2, <1>3, <1>4, <1>7, <1>8

LEMMA PluginOptKeeps ==
  ASSUME NEW x, CtxOK(x), NotesOK(x), NEW c PROVE Keeps(x, l_plugin_opt(x, c).x)
<1> DEFINE w == Without(x.pending, {c.key})
           v == Append(w, [key |-> c.key, val |-> c.val])
           y == [x EXCEPT !.pending = v]
<1>1. l_plugin_opt(x, c) = Ret(y)
  BY DEF l_plugin_opt
<1>2. Sets(x, "pending", v, y)
  BY DEF Sets
<1>3. Listed(w)
  BY WithoutFacts DEF NotesOK
<1> HIDE DEF w
<1>4. Listed(v)
  BY <1>3, ListedAppend
<1> HIDE DEF v, y
<1>5. y.p = x.p /\ y.sink = x.sink /\ y.pending = v
  <2>1. Shaped(x, CtxFields) /\ "pending" \in CtxFields
    BY DEF CtxOK, CtxFields
  <2> QED
    BY <1>2, <2>1, SetCtx
<1>6. NotesOK(y)
  BY <1>4, <1>5, NotesSame
<1>7. Keeps(x, y)
  BY <1>5, <1>6 DEF Keeps
<1> QED
  BY <1>1, <1>7, RetRaise

LEMMA ListedConcat ==
  ASSUME NEW s, Listed(s), NEW t, Listed(t)
  PROVE  /\ \A i \in DOMAIN s : i \in DOMAIN (s \o t) /\ (s \o t)[i] = s[i]
         /\ \A i \in DOMAIN t : Len(s) + i \in DOMAIN (s \o t) /\ (s \o t)[Len(s) + i] = t[i]
<1> DEFINE T == Range(s) \cup Range(t)
           n == Len(s)
           m == Len(t)
           w == s \o t
<1>1. s \in Seq(T) /\ t \in Seq(T)
  BY DEF Listed
<1>2. n \in Nat /\ m \in Nat /\ DOMAIN s = 1..n /\ DOMAIN t = 1..m
  BY ListedFacts
<1> HIDE DEF T
<1>3. /\ w \in Seq(T) /\ Len(w) = n + m
      /\ \A i \in 1..(n + m) : w[i] = IF i <= n THEN s[i] ELSE t[i - n]
  BY <1>1, ConcatProperties
<1> HIDE DEF w
<1>4. DOMAIN w = 1..(n + m)
  BY <1>2, <1>3
<1> HIDE DEF n, m
<1>5. ASSUME NEW i \in 1..n PROVE i \in 1..(n + m) /\ w[i] = s[i]
  BY <1>2, <1>3
<1>6. ASSUME NEW i \in 1..m PROVE n + i \in 1..(n + m) /\ w[n + i] = t[i]
  <2>1. n + i \in 1..(n + m) /\ ~(n + i <= n) /\ (n + i) - n = i
    BY <1>2
  <2> QED
    BY <1>3, <2>1
<1> QED
  BY <1>2, <1>4, <1>5, <1>6 DEF w, n

\* The options that were pending go with the plugin, but for the keys it has itself.
LEMMA PluginKeeps ==
  ASSUME NEW x, CtxOK(x), NotesOK(x), NEW c \in Call, c.fn = "plugin"
  PROVE  Keeps(x, l_plugin(x, c).x)
<1> DEFINE own == {c.opts[i].key : i \in DOMAIN c.opts}
           w   == Without(x.pending, own)
           all == c.opts \o w
           y   == [x EXCEPT !.pending = <<>>]
           ps  == plan_plugin(x.p, c.path, all)
           r   == With(y, ps)
<1>1. l_plugin(x, c) = r
  BY DEF l_plugin
<1>2. ASSUME NEW i \in DOMAIN x.pending
      PROVE  \E k \in DOMAIN all : all[k].key = x.pending[i].key
  <2>1. Listed(c.opts) /\ Listed(w) /\ Listed(x.pending)
    BY CallAssumption, WithoutFacts DEF NotesOK
  <2>4. \A j \in DOMAIN x.pending : x.pending[j].key \notin own =>
          \E k \in DOMAIN w : w[k] = x.pending[j]
    <3> HIDE DEF own
    <3> QED
      BY <2>1, WithoutFacts
  <2>2. CASE x.pending[i].key \in own
    <3>1. PICK k \in DOMAIN c.opts : c.opts[k].key = x.pending[i].key
      BY <2>2
    <3> HIDE DEF w
    <3> QED
      BY <2>1, <3>1, ListedConcat
  <2>3. CASE x.pending[i].key \notin own
    <3>1. PICK k \in DOMAIN w : w[k] = x.pending[i]
      BY <2>3, <2>4
    <3> HIDE DEF w
    <3>2. Len(c.opts) + k \in DOMAIN all /\ all[Len(c.opts) + k] = w[k]
      BY <2>1, ListedConcat
    <3> HIDE DEF all
    <3> QED
      BY <3>1, <3>2
  <2> QED
    BY <2>2, <2>3
<1>3. Sets(x, "pending", <<>>, y)
  BY DEF Sets
<1> HIDE DEF all, y
<1>4. CtxOK(y) /\ y.p = x.p /\ y.sink = x.sink /\ y.pending = <<>>
  <2>1. CtxOK(y)
    BY <1>3, SetOther, KeptOK
  <2>2. Shaped(x, CtxFields) /\ "pending" \in CtxFields
    BY DEF CtxOK, CtxFields
  <2> QED
    BY <1>3, <2>1, <2>2, SetCtx
<1>5. \A q \in ps : PlanKept(y.p, q)
  BY <1>4, PluginKept DEF CtxOK
<1> DEFINE o == [path |-> c.path, options |-> all]
<1>6. \A q \in ps : q.secs = x.p.secs /\ q.stmts = x.p.stmts /\ q.plugins = Append(x.p.plugins, o)
  BY PluginAdded DEF CtxOK
<1>7. o.options = all
  OBVIOUS
<1> HIDE DEF ps, o
<1>8. /\ (r.ok => r.x.p \in ps) /\ (~r.ok => r.x = y)
      /\ r.x.sink = y.sink /\ r.x.pending = y.pending
  BY <1>4, <1>5, WithBuilds
<1> HIDE DEF r
<1>9. Listed(<<>>)
  BY CountEmpty
<1>10. r.x.pending = <<>> /\ r.x.sink = x.sink
  BY <1>4, <1>8
<1>11. CASE r.ok
  <2>1. /\ r.x.p.secs = x.p.secs /\ r.x.p.stmts = x.p.stmts
        /\ r.x.p.plugins = Append(x.p.plugins, o)
    BY <1>6, <1>8, <1>11
  <2>2. NotesOK(r.x)
    BY <1>9, <1>10, <2>1, NotesSame
  <2>3. r.x.p.plugins[Len(r.x.p.plugins)] = o
    BY <2>1, ListedAppend DEF CtxOK, PlanOK
  <2>4. Handed(x, r.x)
    BY <1>2, <1>7, <1>10, <2>3 DEF Handed
  <2> QED
    BY <1>1, <2>1, <2>2, <2>4 DEF Keeps
<1>12. CASE ~r.ok
  <2>1. r.x.p = x.p
    BY <1>4, <1>8, <1>12
  <2>2. NotesOK(r.x)
    BY <1>9, <1>10, <2>1, NotesSame
  <2> QED
    BY <1>1, <2>1, <2>2 DEF Keeps
<1> QED
  BY <1>11, <1>12

\* What is written inside out is written to the section that it declared.
LEMMA OutKeeps ==
  ASSUME NEW x, CtxOK(x), NotesOK(x), NEW c \in Call, c.fn = "out"
  PROVE  Keeps(x, l_out(x, c).x)
<1> DEFINE sec   == Len(x.p.secs) + 1
           attrs == <<[f |-> "phdr", v |-> c.phdr], [f |-> "subalign", v |-> c.subalign],
                      [f |-> "load", v |-> c.load]>>
           exprs == <<[f |-> "vma", v |-> c.vma], [f |-> "at", v |-> c.at],
                      [f |-> "fill", v |-> c.fill]>>
           ps == plan_section(x.p, c.name, c.region, c.align, <<>>, c.at_region)
           a == With(x, ps)
           b == Each(a.x, OutLoop("attr", c.name, sec), attrs)
           d == Each(b.x, OutLoop("expr", c.name, sec), exprs)
           e == Each(d.x, OutLoop("selector", c.name, sec), c.input)
           g == Each(e.x, OutLoop("entry", c.name, sec), c.body)
<1>1. l_out(x, c) = IF ~a.ok THEN a ELSE IF ~d.ok THEN d ELSE IF ~e.ok THEN e ELSE g
  BY DEF l_out
<1>2. Listed(c.input) /\ Listed(c.body) /\ PlanOK(x.p)
  BY CallAssumption DEF CtxOK
<1> DEFINE Fields(s) == \A i \in 1..Len(s) : s[i].f \in SecFields \ {"name"}
<1>3. Listed(attrs) /\ Listed(exprs) /\ Fields(attrs) /\ Fields(exprs)
  <2>1. attrs = [i \in 1..3 |-> attrs[i]] /\ exprs = [i \in 1..3 |-> exprs[i]]
    OBVIOUS
  <2>2. ASSUME NEW i \in 1..3
        PROVE  attrs[i].f \in SecFields \ {"name"} /\ exprs[i].f \in SecFields \ {"name"}
    BY DEF SecFields
  <2> HIDE DEF attrs, exprs
  <2>3. Listed(attrs) /\ Listed(exprs) /\ Len(attrs) = 3 /\ Len(exprs) = 3
    BY <2>1, ListedOf
  <2> QED
    BY <2>2, <2>3
<1>4. \A q \in ps : /\ PlanKept(x.p, q) /\ Len(q.secs) = sec /\ q.stmts = x.p.stmts
                    /\ q.plugins = x.p.plugins /\ Latest(x.p, q, c.name)
  BY <1>2, SectionKept
<1> HIDE DEF ps, attrs, exprs, Fields
<1>5. /\ Builds(x, a) /\ (a.ok => a.x.p \in ps) /\ (~a.ok => a.x = x)
      /\ a.x.sink = x.sink /\ a.x.pending = x.pending
  BY <1>4, WithBuilds
<1>6. Len(x.p.secs) \in Nat
  BY <1>2, ListedFacts DEF PlanOK
<1>7. CASE a.ok
  <2> DEFINE Good(r) == /\ CtxOK(r.x) /\ NotesOK(r.x) /\ sec \in 0 .. Len(r.x.p.secs)
                        /\ Latest(x.p, r.x.p, c.name) /\ r.x.p.plugins = x.p.plugins
  <2>1. ASSUME NEW r, Good(r), NEW does \in Placing, NEW args, Listed(args),
               does \in {"attr", "expr"} => Fields(args)
        PROVE  Good(Each(r.x, OutLoop(does, c.name, sec), args))
    <3> DEFINE loop == OutLoop(does, c.name, sec)
               t == Each(r.x, loop, args)
    <3>1. loop.does = does /\ loop.name = c.name /\ loop.sec = sec
      BY DEF OutLoop
    <3>2. loop.does \in LoopKinds /\ loop.does # "flush" /\ loop.sec \in 0 .. Len(r.x.p.secs)
      BY <2>1, <3>1 DEF LoopKinds, Placing
    <3>3. loop.does \in {"attr", "expr"} =>
            \A i \in 1..Len(args) : args[i].f \in SecFields \ {"name"}
      BY <2>1, <3>1 DEF Fields
    <3> HIDE DEF loop
    <3>4. Builds(r.x, t)
      BY <2>1, <3>2, EachBuilds
    <3>5. Carries(x.p, r.x, t.x, loop)
      BY <1>2, <2>1, <3>2, <3>3, EachCarries
    <3> HIDE DEF t
    <3>6. CtxOK(t.x) /\ CtxKept(r.x, t.x)
      BY <2>1, <3>4, KeptOK DEF Builds
    <3>7. NotesOK(t.x) /\ Latest(x.p, t.x.p, c.name) /\ t.x.p.plugins = x.p.plugins
      BY <2>1, <3>1, <3>5 DEF Carries, SecsOf
    <3>8. sec \in 0 .. Len(t.x.p.secs)
      BY <1>6, <3>7 DEF Latest
    <3>9. Good(t)
      BY <3>6, <3>7, <3>8
    <3> QED
      BY <3>9 DEF t, loop
  <2>2. Good(a)
    <3>1. /\ CtxOK(a.x) /\ Len(a.x.p.secs) = sec /\ Latest(x.p, a.x.p, c.name)
          /\ a.x.p.plugins = x.p.plugins /\ a.x.p.stmts = x.p.stmts
      BY <1>4, <1>5, <1>7, KeptOK DEF Builds
    <3>2. NotesOK(a.x)
      BY <1>5, <3>1, NotesSame DEF NotesOK
    <3> QED
      BY <1>6, <3>1, <3>2
  <2>3. /\ {"attr", "expr", "selector", "entry"} \subseteq Placing
        /\ "selector" \notin {"attr", "expr"} /\ "entry" \notin {"attr", "expr"}
    BY DEF Placing
  <2> HIDE DEF Good, a, sec
  <2>4. Good(b)
    BY <1>3, <2>1, <2>2, <2>3
  <2> HIDE DEF b
  <2>5. Good(d)
    BY <1>3, <2>1, <2>3, <2>4
  <2> HIDE DEF d
  <2>6. Good(e)
    BY <1>2, <2>1, <2>3, <2>5
  <2> HIDE DEF e
  <2>7. Good(g)
    BY <1>2, <2>1, <2>3, <2>6
  <2> HIDE DEF g
  <2>8. ASSUME NEW r, Good(r) PROVE Keeps(x, r.x)
    BY <2>8 DEF Good, Keeps, Latest
  <2> QED
    BY <1>1, <1>7, <2>5, <2>6, <2>7, <2>8
<1>8. CASE ~a.ok
  <2>1. Keeps(x, a.x)
    BY <1>5, <1>8, UntouchedKeeps DEF Untouched, PlanStays
  <2> QED
    BY <1>1, <1>8, <2>1
<1> QED
  BY <1>7, <1>8

\* Whatever is called keeps what was declared.
LEMMA DoKeeps ==
  ASSUME NEW x, CtxOK(x), NotesOK(x), NEW c \in Call
  PROVE  Keeps(x, Do(x, c).x)
<1>1. c.fn \in ApiFunctions
  BY CallAssumption
<1>5. /\ c.fn \in {"output", "input", "group", "search_path", "startup", "memory", "sections"}
           => Keeps(x, Do(x, c).x)
      /\ c.fn \in {"out", "phdrs", "version", "assign", "attr", "lto", "plugin", "plugin_opt",
                   "error"} => Keeps(x, Do(x, c).x)
  BY DoIs, OutputKeeps, LoopsKeep, OutKeeps, AssignKeeps, PluginKeeps,
     PluginOptKeeps, OthersKeep
<1>6. c.fn \in {"gensym", "on", "include", "as_needed", "pcall"} => Untouched(x, Do(x, c).x)
  BY DoIs, GensymOutcome, OnOutcome, OpensOutcome
<1> QED
  BY <1>1, <1>5, <1>6, UntouchedKeeps DEF ApiFunctions

(***************************************************************************)
(* The steps, and what each of them keeps.                                 *)
(***************************************************************************)
(* The inductive invariant: while the script runs, what it noted is what    *)
(* the plan has of it.                                                      *)
NotesIInv == ScriptIInv /\ (stage = "script" => NotesOK(ctx))

LEMMA NewNotes ==
  ASSUME NEW p, p.stmts = <<>>, NEW file PROVE NotesOK(NewCtx(p, file))
<1> DEFINE x == NewCtx(p, file)
<1>1. x.p = p /\ x.sink = <<>> /\ x.pending = <<>>
  BY DEF NewCtx
<1> HIDE DEF x
<1>2. Listed(<<>>) /\ DOMAIN <<>> = {}
  BY CountEmpty
<1>3. \A v : UsedAs(x, v) = {} /\ PlacedAs(x.p, v) = {}
  BY <1>1, <1>2 DEF UsedAs, PlacedAs
<1>4. \A i \in DOMAIN x.sink : Shaped(x.sink[i], SinkFields) /\ x.sink[i].consumed \in BOOLEAN
  BY <1>1, <1>2
<1>5. Listed(x.pending)
  BY <1>1, <1>2
<1> QED
  BY <1>3, <1>4, <1>5 DEF NotesOK, x

LEMMA SetupNotes ==
  ASSUME ScriptIInv, SetupLua PROVE NotesOK(ctx')
<1> DEFINE d == Declared(plan_new("x86_64", "lua"), cmd)
<1>1. PICK p \in d : ctx' = NewCtx([p EXCEPT !.reproducible = ~cmd.unsafe], cmd.main)
  BY DEF SetupLua
<1>2. Fresh(p)
  BY NewFresh, DeclaredFresh DEF ScriptIInv
<1> DEFINE q == [p EXCEPT !.reproducible = ~cmd.unsafe]
<1>3. q.stmts = p.stmts
  OBVIOUS
<1>4. ctx' = NewCtx(q, cmd.main)
  BY <1>1
<1> HIDE DEF q
<1>5. q.stmts = <<>>
  BY <1>2, <1>3 DEF Fresh
<1> QED
  BY <1>4, <1>5, NewNotes

LEMMA CallKeeps ==
  ASSUME ScriptIInv, NotesOK(ctx), ScriptCalls PROVE Keeps(ctx, ctx')
<1>1. PICK c \in Call : Perform(c)
  BY DEF ScriptCalls
<1> DEFINE r == Do(ctx, c)
<1>2. Outcome(ctx, r) /\ Keeps(ctx, r.x)
  BY DoOutcome, DoKeeps DEF ScriptIInv
<1>3. ctx' = r.x \/ ctx' = Unwind(r.x)
  BY <1>1 DEF Perform
<1> HIDE DEF r
<1>4. Untouched(r.x, Unwind(r.x))
  BY <1>2, UnwindOK DEF Outcome, Untouched, PlanStays
<1>5. Keeps(ctx, Unwind(r.x))
  BY <1>2, <1>4, KeepsUntouched
<1> QED
  BY <1>2, <1>3, <1>5

LEMMA ReturnKeeps ==
  ASSUME ScriptIInv, NotesOK(ctx), Returns PROVE Keeps(ctx, ctx')
<1>1. ctx.frames # <<>> /\ ctx' = Leave(ctx) /\ CtxOK(ctx)
  BY DEF Returns, ScriptIInv
<1>2. Len(ctx.frames) # 0
  BY <1>1, EmptySeq DEF ScriptIInv, CtxOK, ScopesOK, Listed
<1>3. Untouched(ctx, Leave(ctx))
  BY <1>1, <1>2, LeaveOK DEF Untouched, PlanStays
<1> QED
  BY <1>1, <1>3, UntouchedKeeps

\* At the end every statement has been consumed.
LEMMA FlushedNotes ==
  ASSUME NEW x, CtxOK(x), NotesOK(x)
  PROVE  /\ Builds(x, Flushed(x)) /\ NotesOK(Flushed(x).x) /\ Flushed(x).x.p.plugins = x.p.plugins
         /\ Flushed(x).ok =>
              \A i \in DOMAIN Flushed(x).x.sink : Flushed(x).x.sink[i].consumed
<1> DEFINE ids  == [i \in DOMAIN x.sink |-> i]
           loop == Loop("flush")
           r    == Each(x, loop, ids)
<1>1. Flushed(x) = r
  BY DEF Flushed
<1>2. DOMAIN x.sink = 1..Len(x.sink) /\ Len(x.sink) \in Nat
  BY ListedFacts DEF CtxOK
<1>3. Listed(ids) /\ Len(ids) = Len(x.sink) /\ \A i \in 1..Len(x.sink) : ids[i] = i
  <2>1. ids = [i \in 1..Len(x.sink) |-> ids[i]] /\ \A i \in 1..Len(x.sink) : ids[i] = i
    BY <1>2
  <2> HIDE DEF ids
  <2> QED
    BY <1>2, <2>1, ListedOf
<1>4. loop.does = "flush" /\ loop.sec \in 0 .. Len(x.p.secs)
  BY LoopFields
<1>5. "flush" \in LoopKinds /\ "flush" \notin {"attr", "expr"} /\ PlanOK(x.p)
  BY DEF LoopKinds, CtxOK
<1> HIDE DEF ids, loop
<1>6. Builds(x, r)
  BY <1>3, <1>4, <1>5, EachBuilds
<1>7. \A i \in 1..Len(ids) : ids[i] \in DOMAIN x.sink
  BY <1>2, <1>3
<1>8. /\ Carries(x.p, x, r.x, loop)
      /\ r.ok => \A i \in 1..Len(ids) : r.x.sink[ids[i]].consumed
  BY <1>3, <1>4, <1>5, <1>7, EachCarries
<1> HIDE DEF r
<1>9. NotesOK(r.x) /\ r.x.p.plugins = x.p.plugins /\ Len(r.x.sink) = Len(x.sink)
  BY <1>8 DEF Carries
<1>10. DOMAIN r.x.sink = 1..Len(x.sink)
  BY <1>6, <1>9, ListedFacts DEF Builds, CtxKept
<1> QED
  BY <1>1, <1>3, <1>6, <1>8, <1>9, <1>10

\* The seal leaves the statements of the plan, all of which were noted.
LEMMA SealKeeps ==
  ASSUME ScriptIInv, NotesOK(ctx), Seal
  PROVE  /\ ctx'.p.plugins = ctx.p.plugins
         /\ stage' = "sealed" =>
              \A v : Cardinality({i \in DOMAIN ctx'.sink : Value(ctx'.sink[i]) = v}) =
                     Cardinality(PlacedAs(ctx'.p, v))
<1> DEFINE x  == Flushed(ctx).x
           fs == IF Flushed(ctx).ok THEN Finished(x, cmd.entry) ELSE {}
           p  == CHOOSE q \in fs : TRUE
<1>1. CtxOK(ctx)
  BY DEF ScriptIInv
<1>2. /\ Builds(ctx, Flushed(ctx)) /\ NotesOK(x) /\ x.p.plugins = ctx.p.plugins
      /\ Flushed(ctx).ok => \A i \in DOMAIN x.sink : x.sink[i].consumed
  BY <1>1, FlushedNotes
<1>3. CtxOK(x)
  BY <1>1, <1>2, KeptOK DEF Builds
<1>4. \/ fs = {} /\ ctx' = x /\ stage' = "failed"
      \/ fs # {} /\ ctx' = [x EXCEPT !.p = p] /\ Flushed(ctx).ok
  BY DEF Seal
<1> HIDE DEF x
<1>5. CASE fs = {} /\ ctx' = x /\ stage' = "failed"
  BY <1>2, <1>5
<1>6. CASE fs # {} /\ ctx' = [x EXCEPT !.p = p] /\ Flushed(ctx).ok
  <2>1. p \in Finished(x, cmd.entry)
    BY <1>6
  <2>2. PlanStays(x.p, p)
    BY <1>3, <2>1, FinishedSealed DEF Sealed
  <2> DEFINE y == [x EXCEPT !.p = p]
  <2>3. Shaped(x, CtxFields) /\ y = [x EXCEPT !.p = p] /\ ctx' = y
    BY <1>3, <1>6 DEF CtxOK
  <2> HIDE DEF p, y, fs
  <2>4. y.p = p /\ y.sink = x.sink
    BY <2>3, SetPlan
  <2>5. ASSUME NEW v
        PROVE  Cardinality({i \in DOMAIN y.sink : Value(y.sink[i]) = v}) =
               Cardinality(PlacedAs(y.p, v))
    <3>1. \A i \in DOMAIN x.sink : x.sink[i].consumed
      BY <1>2, <1>6
    <3>2. {i \in DOMAIN y.sink : Value(y.sink[i]) = v} = UsedAs(x, v)
      BY <2>4, <3>1 DEF UsedAs
    <3>3. PlacedAs(y.p, v) = PlacedAs(x.p, v)
      BY <2>2, <2>4 DEF PlanStays, PlacedAs
    <3> QED
      BY <1>2, <3>2, <3>3 DEF NotesOK
  <2> QED
    BY <1>2, <2>2, <2>3, <2>4, <2>5 DEF PlanStays
<1> QED
  BY <1>4, <1>5, <1>6

LEMMA NotesStep ==
  ASSUME NotesIInv, [Next]_vars, ScriptIInv' PROVE NotesIInv'
<1> SUFFICES ASSUME stage' = "script" PROVE NotesOK(ctx')
  BY DEF NotesIInv
<1>1. CASE SetupFails
  BY <1>1 DEF SetupFails, Fail
<1>2. CASE SetupLua
  BY <1>2, SetupNotes DEF NotesIInv
<1>3. CASE SetupApi
  BY <1>3 DEF SetupApi
<1>4. CASE ScriptCalls
  <2>1. stage = "script"
    BY <1>4 DEF ScriptCalls, Perform
  <2> QED
    BY <1>4, <2>1, CallKeeps DEF NotesIInv, Keeps
<1>5. CASE Returns
  <2>1. stage = "script"
    BY <1>5 DEF Returns
  <2> QED
    BY <1>5, <2>1, ReturnKeeps DEF NotesIInv, Keeps
<1>6. CASE Seal
  BY <1>6 DEF Seal
<1>7. CASE UNCHANGED vars
  BY <1>7 DEF vars, NotesIInv
<1> QED
  BY <1>1, <1>2, <1>3, <1>4, <1>5, <1>6, <1>7 DEF Next

LEMMA NotesInductive == Spec => []NotesIInv
<1>1. ScriptIInv /\ Init => NotesIInv
  BY DEF Init, NotesIInv
<1>2. NotesIInv /\ [Next]_vars /\ ScriptIInv' => NotesIInv'
  BY NotesStep
<1> QED
  BY <1>1, <1>2, ScriptInit, ScriptInductive, PTL DEF Spec

\* The steps of a script: calls that go on, returns, and the end.
LEMMA ScriptSteps ==
  ASSUME NotesIInv, Next, stage = "script"
  PROVE  NotesOK(ctx) /\ (ScriptCalls \/ Returns \/ Seal)
BY DEF NotesIInv, Next, SetupFails, SetupLua, SetupApi

(* assign, provide and provide_hidden (lccwld_api.c) only note a statement;  *)
(* the lists of sections and out place it, and the end of the script what is *)
(* left: in the plan that is sealed each is there once, however its handle   *)
(* was used.  A section that was declared is not written to from outside it, *)
(* and the options that were pending reach the next plugin and no other.     *)
THEOREM CallsAreKept == Spec => CallsKept
<1> DEFINE IsSealed == stage = "script" /\ stage' = "sealed"
           Once ==
             LET made == [i \in DOMAIN ctx'.sink |-> <<ctx'.sink[i].name, ctx'.sink[i].expr>>]
                 here == [i \in DOMAIN ctx'.p.stmts |->
                            <<ctx'.p.stmts[i].name, ctx'.p.stmts[i].expr>>]
                 count(s, v) == Cardinality({i \in DOMAIN s : s[i] = v})
             IN \A v \in Range(made) \cup Range(here) : count(made, v) = count(here, v)
           GoesOn == stage = "script" /\ stage' = "script"
           SecsStay == \A i \in DOMAIN ctx.p.secs : ctx'.p.secs[i] = ctx.p.secs[i]
           Adds == Len(ctx'.p.plugins) > Len(ctx.p.plugins) /\ stage = "script"
           Gets ==
             /\ ctx'.pending = <<>>
             /\ \A i \in DOMAIN ctx.pending :
                  \E k \in DOMAIN ctx'.p.plugins[Len(ctx'.p.plugins)].options :
                    ctx'.p.plugins[Len(ctx'.p.plugins)].options[k].key = ctx.pending[i].key
<1>1. ASSUME NotesIInv, [Next]_vars, ~UNCHANGED vars, stage = "script"
      PROVE  /\ stage' = "sealed" => Seal
             /\ Seal \/ Keeps(ctx, ctx')
             /\ NotesOK(ctx) /\ ScriptIInv /\ CtxOK(ctx)
  <2>1. NotesOK(ctx) /\ (ScriptCalls \/ Returns \/ Seal) /\ ScriptIInv
    BY <1>1, ScriptSteps DEF NotesIInv
  <2>2. ScriptCalls \/ Returns => stage' # "sealed" /\ Keeps(ctx, ctx')
    BY <1>1, <2>1, CallKeeps, ReturnKeeps DEF ScriptCalls, Perform, Returns
  <2> QED
    BY <2>1, <2>2 DEF ScriptIInv
<1>2. NotesIInv /\ [Next]_vars => [IsSealed => Once]_vars
  <2> SUFFICES ASSUME NotesIInv, [Next]_vars, ~UNCHANGED vars, IsSealed PROVE Once
    OBVIOUS
  <2>1. \A v : Cardinality({i \in DOMAIN ctx'.sink : Value(ctx'.sink[i]) = v}) =
               Cardinality(PlacedAs(ctx'.p, v))
    BY <1>1, SealKeeps
  <2> DEFINE made == [i \in DOMAIN ctx'.sink |-> Value(ctx'.sink[i])]
             here == [i \in DOMAIN ctx'.p.stmts |-> Value(ctx'.p.stmts[i])]
  <2>2. ASSUME NEW v
        PROVE  Cardinality({i \in DOMAIN made : made[i] = v}) =
               Cardinality({i \in DOMAIN here : here[i] = v})
    <3>1. {i \in DOMAIN made : made[i] = v} = {i \in DOMAIN ctx'.sink : Value(ctx'.sink[i]) = v}
      OBVIOUS
    <3>2. {i \in DOMAIN here : here[i] = v} = PlacedAs(ctx'.p, v)
      BY DEF PlacedAs
    <3> QED
      BY <2>1, <3>1, <3>2
  <2> QED
    BY <2>2 DEF Value
<1>3. NotesIInv /\ [Next]_vars => [GoesOn => SecsStay]_vars
  <2> SUFFICES ASSUME NotesIInv, [Next]_vars, ~UNCHANGED vars, GoesOn PROVE SecsStay
    OBVIOUS
  <2>1. Keeps(ctx, ctx') /\ CtxOK(ctx)
    BY <1>1 DEF Seal
  <2>2. DOMAIN ctx.p.secs = 1..Len(ctx.p.secs)
    BY <2>1, ListedFacts DEF CtxOK, PlanOK
  <2> QED
    BY <2>1, <2>2 DEF Keeps
<1>4. NotesIInv /\ [Next]_vars => [Adds => Gets]_vars
  <2> SUFFICES ASSUME NotesIInv, [Next]_vars, ~UNCHANGED vars, Adds PROVE Gets
    OBVIOUS
  <2>1. CtxOK(ctx) /\ (Keeps(ctx, ctx') \/ ctx'.p.plugins = ctx.p.plugins)
    BY <1>1, SealKeeps
  <2>2. Len(ctx.p.plugins) \in Nat
    BY <2>1, ListedFacts DEF CtxOK, PlanOK
  <2>3. ctx'.p.plugins # ctx.p.plugins
    BY <2>2
  <2> QED
    BY <2>1, <2>3 DEF Keeps, Handed
<1>5. Spec => StmtsOnce
  BY <1>2, NotesInductive, PTL DEF Spec, StmtsOnce
<1>6. Spec => SelectorsAtLast
  BY <1>3, NotesInductive, PTL DEF Spec, SelectorsAtLast
<1>7. Spec => PendingOnce
  BY <1>4, NotesInductive, PTL DEF Spec, PendingOnce
<1> QED
  BY <1>5, <1>6, <1>7, PTL DEF CallsKept

(***************************************************************************)
(* The link cache.                                                         *)
(***************************************************************************)
Maps(S, V) == UNION {[D -> V] : D \in SUBSET S}

(* What is hashed of a file: its contents, or that it could not be read.    *)
Hashes == Version \cup {Unread}

FileSet == [image : Maps(Files, Version), bytes : Bytes]

Types ==
  /\ content \in [Files -> Version] /\ pc \in [Links -> Pcs] /\ runs \in 0 .. MaxRuns
  /\ key \in [Links -> Maps(Keyed, Hashes)] /\ img \in [Links -> Maps(Files, Version)]
  /\ out \in [Links -> FileSet] /\ src \in [Links -> FileSet] /\ tmp \in [Links -> FileSet]
  /\ cache \in [DOMAIN cache -> FileSet]
  /\ moved \subseteq Links /\ raced \subseteq DOMAIN cache /\ unnoticed \in BOOLEAN

(* A file written to its end, where bytes are missing only if some were     *)
(* lost unnoticed.                                                          *)
Closed(file, lost) == file.bytes # "open" /\ (file.bytes = "short" => lost)

(* A closed image of versions that the files have had.                      *)
Complete(file, now, lost) ==
  /\ Closed(file, lost) /\ DOMAIN file.image = Files
  /\ \A f \in Files : file.image[f] <= now[f]

CacheInv ==
  \A k \in DOMAIN cache :
    /\ k \in Maps(Keyed, Hashes) /\ DOMAIN k = Keyed
    /\ Complete(cache[k], content, unnoticed)
    /\ k \in raced \/ \A f \in Keyed : k[f] = Unread \/ cache[k].image[f] = k[f]

(* How far a link's key and image have come at each place.                  *)
Progress(l) ==
  /\ pc[l] \in Ended => DOMAIN key[l] = {}
  /\ pc[l] \notin Ended \cup {"key"} => DOMAIN key[l] = Keyed
  /\ pc[l] \in Ended \cup {"key", "lookup", "restore"} => DOMAIN img[l] = {}
  /\ pc[l] \in {"emit", "store", "copy", "rename"} => DOMAIN img[l] = Files

(* The image read agrees with what is hashed of each file, unless the files *)
(* moved in between or it was not read for the hash, and so far so do those *)
(* on disk.                                                                 *)
Reads(l) ==
  /\ \A f \in DOMAIN img[l] : img[l][f] <= content[f]
  /\ l \notin moved =>
       \A f \in DOMAIN key[l] :
         \/ key[l][f] = Unread
         \/ key[l][f] = IF f \in DOMAIN img[l] THEN img[l][f] ELSE content[f]

(* Where the bytes of the link are on their way into the cache.             *)
Carried(l) ==
  /\ pc[l] = "restore" => Complete(src[l], content, unnoticed)
  /\ pc[l] \in {"store", "copy", "rename", "done"} => Complete(out[l], content, unnoticed)
  /\ pc[l] = "store" => out[l].image = img[l]
  /\ pc[l] = "copy" => Closed(src[l], unnoticed) /\ src[l].image = img[l]
  /\ pc[l] = "rename" => Closed(tmp[l], unnoticed) /\ tmp[l].image = img[l]

LinkInv(l) == Progress(l) /\ Reads(l) /\ Carried(l)

(* The inductive invariant.                                                 *)
CacheIInv == Types /\ CacheInv /\ \A l \in Links : LinkInv(l)

LEMMA MapsMember ==
  ASSUME NEW S, NEW V, NEW m \in Maps(S, V)
  PROVE  DOMAIN m \subseteq S /\ m \in [DOMAIN m -> V]
BY DEF Maps

LEMMA NothingIsMap ==
  ASSUME NEW S, NEW V
  PROVE  Nothing \in Maps(S, V) /\ DOMAIN Nothing = {}
<1>1. Nothing \in [{} -> V] /\ DOMAIN Nothing = {}
  BY DEF Nothing
<1>2. {} \in SUBSET S
  OBVIOUS
<1> QED
  BY <1>1, <1>2 DEF Maps

LEMMA NoFileIsFile ==
  NoFile \in FileSet
BY NothingIsMap DEF NoFile, FileOf, FileSet, Bytes

LEMMA ExtendMap ==
  ASSUME NEW S, NEW V, NEW m \in Maps(S, V), NEW f \in S, NEW v \in V
  PROVE  Extend(m, f, v) \in Maps(S, V)
<1>1. DOMAIN m \subseteq S /\ m \in [DOMAIN m -> V]
  BY MapsMember
<1>2. Extend(m, f, v) \in [(DOMAIN m \cup {f}) -> V]
  BY <1>1 DEF Extend
<1>3. (DOMAIN m \cup {f}) \in SUBSET S
  BY <1>1
<1> QED
  BY <1>2, <1>3 DEF Maps

\* A copy is of the same image, and is closed if what it is made from is.
LEMMA CopiedIsFile ==
  ASSUME NEW file \in FileSet, NEW cut \in BOOLEAN, NEW lost
  PROVE  /\ Copied(file, cut) \in FileSet
         /\ Copied(file, cut).image = file.image
         /\ Closed(file, lost) => Closed(Copied(file, cut), lost \/ cut)
BY DEF FileSet, Copied, FileOf, Closed, Bytes

\* What was complete stays so when more is lost.
LEMMA CompleteLater ==
  ASSUME NEW file, NEW now, NEW lost, NEW more, lost => more
  PROVE  /\ Closed(file, lost) => Closed(file, more)
         /\ Complete(file, now, lost) => Complete(file, now, more)
BY DEF Closed, Complete

(* The inductive invariant holds of an empty cache.                         *)
LEMMA CacheInitInv ==
  ASSUME CacheInit PROVE CacheIInv
<1>1. 0 \in Version /\ 0 \in 0 .. MaxRuns /\ Nothing \in Maps(Keyed, Hashes) /\ Nothing \in Maps(Files, Version)
  BY CacheAssumption, NothingIsMap DEF Version
<1>2. NoFile \in FileSet
  BY NoFileIsFile
<1>3. Types
  BY <1>1, <1>2 DEF CacheInit, Types, Pcs, Ended
<1>4. CacheInv
  BY DEF CacheInit, CacheInv
<1>5. ASSUME NEW l \in Links PROVE LinkInv(l)
  <2>1. pc[l] = "key" /\ key[l] = Nothing /\ img[l] = Nothing
    BY DEF CacheInit
  <2> QED
    BY <2>1, NothingIsMap DEF LinkInv, Progress, Reads, Carried, Ended
<1> QED
  BY <1>3, <1>4, <1>5 DEF CacheIInv

(* A step of one link leaves the invariant of the others alone.             *)
LEMMA OtherLink ==
  ASSUME NEW l \in Links, NEW m \in Links, m # l, LinkInv(m),
         content' = content, pc'[m] = pc[m], key'[m] = key[m], img'[m] = img[m],
         out'[m] = out[m], src'[m] = src[m], tmp'[m] = tmp[m],
         m \in moved' <=> m \in moved, unnoticed => unnoticed'
  PROVE  LinkInv(m)'
<1>1. Progress(m)' /\ Reads(m)'
  BY DEF LinkInv, Progress, Reads, Ended
<1>2. Carried(m)'
  BY CompleteLater DEF LinkInv, Carried
<1> QED
  BY <1>1, <1>2 DEF LinkInv

LEMMA SameCache ==
  ASSUME CacheInv, content' = content, cache' = cache, raced' = raced, unnoticed => unnoticed'
  PROVE  CacheInv'
BY CompleteLater DEF CacheInv

LEMMA StepInv ==
  ASSUME CacheIInv, NEW l \in Links, Step(l)
  PROVE  CacheIInv'
<1> USE DEF CacheIInv
<1>t. /\ pc[l] \in Pcs /\ key[l] \in Maps(Keyed, Hashes) /\ img[l] \in Maps(Files, Version)
      /\ out[l] \in FileSet /\ src[l] \in FileSet /\ tmp[l] \in FileSet /\ LinkInv(l)
      /\ Nothing \in Maps(Keyed, Hashes) /\ Nothing \in Maps(Files, Version) /\ NoFile \in FileSet
      /\ \A k \in DOMAIN cache : cache[k] \in FileSet
  BY NothingIsMap, NoFileIsFile DEF Types
<1>1. ASSUME NEW f \in Files, hash_file(l, f) PROVE CacheIInv'
  <2>0. f \in Keyed /\ f \notin DOMAIN key[l]
    BY <1>1 DEF hash_file
  <2>v. PICK v \in {content[f], Unread} : key' = [key EXCEPT ![l] = Extend(@, f, v)]
    BY <1>1 DEF hash_file
  <2>h. v \in Hashes
    BY <2>v DEF Types, Hashes
  <2>1. /\ key'[l] \in Maps(Keyed, Hashes)
        /\ DOMAIN key'[l] = DOMAIN key[l] \cup {f}
        /\ \A g \in DOMAIN key'[l] : key'[l][g] = IF g = f THEN v ELSE key[l][g]
    <3>1. key'[l] = Extend(key[l], f, v)
      BY <2>v DEF Types
    <3>2. Extend(key[l], f, v) \in Maps(Keyed, Hashes)
      BY <1>t, <2>0, <2>h, ExtendMap
    <3>3. DOMAIN Extend(key[l], f, v) = DOMAIN key[l] \cup {f}
      BY DEF Extend
    <3>4. ASSUME NEW g \in DOMAIN key[l] \cup {f}
          PROVE  Extend(key[l], f, v)[g] = IF g = f THEN v ELSE key[l][g]
      BY <3>4 DEF Extend
    <3> QED
      BY <3>1, <3>2, <3>3, <3>4
  <2>2. Types'
    BY <1>1, <2>1 DEF hash_file, Types, history
  <2>3. CacheInv'
    BY <1>1, SameCache DEF hash_file, history
  <2>6. /\ pc[l] = "key" /\ DOMAIN img[l] = {}
        /\ pc' = pc /\ img' = img /\ content' = content /\ moved' = moved
    BY <1>1, <1>t DEF hash_file, history, LinkInv, Progress, Ended
  <2>7. Progress(l)'
    BY <2>6 DEF Progress, Ended
  <2>8. Reads(l)'
    BY <1>t, <2>v, <2>1, <2>6 DEF LinkInv, Reads
  <2>4. LinkInv(l)'
    BY <2>6, <2>7, <2>8 DEF LinkInv, Carried
  <2>5. ASSUME NEW m \in Links, m # l PROVE LinkInv(m)'
    BY <1>1, <2>5, OtherLink DEF hash_file, history, Types
  <2> QED
    BY <2>2, <2>3, <2>4, <2>5
<1>2. ASSUME NEW f \in Files, ccwld_phase_load(l, f) PROVE CacheIInv'
  <2>0. f \notin DOMAIN img[l] /\ content[f] \in Version /\ pc[l] = "load"
    BY <1>2 DEF ccwld_phase_load, Types
  <2>1. /\ img'[l] \in Maps(Files, Version)
        /\ DOMAIN img'[l] = DOMAIN img[l] \cup {f}
        /\ \A g \in DOMAIN img'[l] : img'[l][g] = IF g = f THEN content[f] ELSE img[l][g]
    <3>1. img'[l] = Extend(img[l], f, content[f])
      BY <1>2 DEF ccwld_phase_load, Types
    <3>2. /\ Extend(img[l], f, content[f]) \in Maps(Files, Version)
          /\ DOMAIN Extend(img[l], f, content[f]) = DOMAIN img[l] \cup {f}
          /\ \A g \in DOMAIN img[l] \cup {f} :
               Extend(img[l], f, content[f])[g] = IF g = f THEN content[f] ELSE img[l][g]
      <4>1. img[l] \in Maps(Files, Version) /\ f \in Files /\ content[f] \in Version
        BY <1>t, <2>0
      <4>2. Extend(img[l], f, content[f]) \in Maps(Files, Version)
        BY <4>1, ExtendMap
      <4>3. DOMAIN Extend(img[l], f, content[f]) = DOMAIN img[l] \cup {f}
        BY DEF Extend
      <4>4. ASSUME NEW g \in DOMAIN img[l] \cup {f}
            PROVE  Extend(img[l], f, content[f])[g] = IF g = f THEN content[f] ELSE img[l][g]
        BY <4>4 DEF Extend
      <4> QED
        BY <4>2, <4>3, <4>4
    <3> QED
      BY <3>1, <3>2
  <2>2. Types'
    BY <1>2, <2>1 DEF ccwld_phase_load, Types, history
  <2>3. CacheInv'
    BY <1>2, SameCache DEF ccwld_phase_load, history
  <2>v. content[f] <= content[f]
    BY <2>0, CacheAssumption DEF Version
  <2>6. pc' = pc /\ key' = key /\ content' = content /\ moved' = moved
    BY <1>2 DEF ccwld_phase_load, history
  <2>7. Progress(l)'
    BY <1>t, <2>0, <2>6 DEF LinkInv, Progress, Ended
  <2>8. Reads(l)'
    BY <1>t, <2>0, <2>1, <2>6, <2>v DEF LinkInv, Reads
  <2>4. LinkInv(l)'
    BY <2>0, <2>6, <2>7, <2>8 DEF LinkInv, Carried
  <2>5. ASSUME NEW m \in Links, m # l PROVE LinkInv(m)'
    BY <1>2, <2>5, OtherLink DEF ccwld_phase_load, history, Types
  <2> QED
    BY <2>2, <2>3, <2>4, <2>5
<1>3. CASE ccwld_cache_key(l)
  <2>2. Types'
    BY <1>3 DEF ccwld_cache_key, Goes, Types, history, Pcs
  <2>3. CacheInv'
    BY <1>3, SameCache DEF ccwld_cache_key, history
  <2>4. LinkInv(l)'
    BY <1>3, <1>t DEF ccwld_cache_key, Goes, Types, history, LinkInv, Progress, Reads, Carried, Ended
  <2>5. ASSUME NEW m \in Links, m # l PROVE LinkInv(m)'
    BY <1>3, <2>5, OtherLink DEF ccwld_cache_key, Goes, history, Types
  <2> QED
    BY <2>2, <2>3, <2>4, <2>5
<1>4. CASE ccwld_cache_lookup(l)
  <2>1. cache[key[l]] \in FileSet /\ Complete(cache[key[l]], content, unnoticed)
    BY <1>4, <1>t DEF ccwld_cache_lookup, CacheInv
  <2>2. Types'
    BY <1>4, <1>t, <2>1 DEF ccwld_cache_lookup, Goes, Types, history, Pcs
  <2>3. CacheInv'
    BY <1>4, SameCache DEF ccwld_cache_lookup, history
  <2>4. LinkInv(l)'
    BY <1>4, <1>t, <2>1 DEF ccwld_cache_lookup, Goes, Types, history, LinkInv, Progress, Reads, Carried, Ended
  <2>5. ASSUME NEW m \in Links, m # l PROVE LinkInv(m)'
    BY <1>4, <2>5, OtherLink DEF ccwld_cache_lookup, Goes, history, Types
  <2> QED
    BY <2>2, <2>3, <2>4, <2>5
<1>5. CASE Restored(l)
  <2>0. PICK cut \in BOOLEAN : /\ out' = [out EXCEPT ![l] = Copied(src[l], cut)]
                               /\ unnoticed' = (unnoticed \/ cut)
    BY <1>5 DEF Restored
  <2> DEFINE new == Copied(src[l], cut)
  <2>1. /\ new \in FileSet /\ new.image = src[l].image
        /\ Closed(src[l], unnoticed) => Closed(new, unnoticed \/ cut)
    BY <1>t, CopiedIsFile
  <2> HIDE DEF new
  <2>2. Types'
    BY <1>5, <1>t, <2>0, <2>1 DEF Restored, Ends, Types, Pcs, Ended, new
  <2>3. CacheInv'
    BY <1>5, <2>0, SameCache DEF Restored
  <2>6. Complete(new, content, unnoticed')
    BY <1>5, <1>t, <2>0, <2>1 DEF Restored, LinkInv, Carried, Complete
  <2>7. /\ pc'[l] = "done" /\ out'[l] = new /\ key'[l] = Nothing /\ img'[l] = Nothing
        /\ content' = content
    BY <1>5, <2>0 DEF Restored, Ends, Types, new
  <2>4. LinkInv(l)'
    BY <2>6, <2>7, NothingIsMap DEF LinkInv, Progress, Reads, Carried, Ended
  <2>5. ASSUME NEW m \in Links, m # l PROVE LinkInv(m)'
    BY <1>5, <2>0, <2>5, OtherLink DEF Restored, Ends, Types
  <2> QED
    BY <2>2, <2>3, <2>4, <2>5
<1>6. CASE Miss(l)
  <2>2. Types'
    BY <1>6 DEF Miss, Goes, Types, history, Pcs
  <2>3. CacheInv'
    BY <1>6, SameCache DEF Miss, history
  <2>4. LinkInv(l)'
    BY <1>6, <1>t DEF Miss, Goes, Types, history, LinkInv, Progress, Reads, Carried, Ended
  <2>5. ASSUME NEW m \in Links, m # l PROVE LinkInv(m)'
    BY <1>6, <2>5, OtherLink DEF Miss, Goes, history, Types
  <2> QED
    BY <2>2, <2>3, <2>4, <2>5
<1>7. CASE EmitOpen(l)
  <2>2. Types'
    BY <1>7, <1>t DEF EmitOpen, Goes, Types, history, Pcs
  <2>3. CacheInv'
    BY <1>7, SameCache DEF EmitOpen, history
  <2>4. LinkInv(l)'
    BY <1>7, <1>t DEF EmitOpen, Goes, Types, history, LinkInv, Progress, Reads, Carried, Ended
  <2>5. ASSUME NEW m \in Links, m # l PROVE LinkInv(m)'
    BY <1>7, <2>5, OtherLink DEF EmitOpen, Goes, history, Types
  <2> QED
    BY <2>2, <2>3, <2>4, <2>5
<1>8. CASE ccwld_emit_object(l)
  <2>0. PICK bytes \in {"short", "all"} :
          /\ out' = [out EXCEPT ![l] = FileOf(img[l], bytes)]
          /\ unnoticed' = (unnoticed \/ bytes = "short")
    BY <1>8 DEF ccwld_emit_object
  <2> DEFINE new == FileOf(img[l], bytes)
  <2>1. new \in FileSet /\ Closed(new, unnoticed') /\ new.image = img[l]
    BY <1>t, <2>0 DEF FileOf, FileSet, Closed, Bytes
  <2> HIDE DEF new
  <2>2. Types'
    BY <1>8, <2>0, <2>1 DEF ccwld_emit_object, Goes, Types, history, Pcs, new
  <2>3. CacheInv'
    BY <1>8, <2>0, SameCache DEF ccwld_emit_object
  <2>6. pc[l] = "emit" /\ pc'[l] = "store" /\ out'[l] = new /\ UNCHANGED <<key, img, content, moved>>
    BY <1>8, <2>0 DEF ccwld_emit_object, Goes, Types, new
  <2>7. Progress(l)' /\ Reads(l)'
    BY <1>t, <2>6 DEF LinkInv, Progress, Reads, Ended
  <2>8. DOMAIN img[l] = Files /\ \A f \in Files : img[l][f] <= content[f]
    BY <1>t, <2>6 DEF LinkInv, Progress, Reads
  <2>9. Complete(new, content, unnoticed')
    BY <2>1, <2>8 DEF Complete
  <2>4. LinkInv(l)'
    BY <2>1, <2>6, <2>7, <2>9 DEF LinkInv, Carried
  <2>5. ASSUME NEW m \in Links, m # l PROVE LinkInv(m)'
    BY <1>8, <2>0, <2>5, OtherLink DEF ccwld_emit_object, Goes, history, Types
  <2> QED
    BY <2>2, <2>3, <2>4, <2>5
<1>9. CASE StoreOpen(l)
  <2>2. Types'
    BY <1>9, <1>t DEF StoreOpen, Goes, Types, history, Pcs
  <2>3. CacheInv'
    BY <1>9, SameCache DEF StoreOpen, history
  <2>6. pc[l] = "store" /\ pc'[l] = "copy" /\ src'[l] = out[l] /\ UNCHANGED <<out, key, img, content, moved, unnoticed>>
    BY <1>9 DEF StoreOpen, Goes, Types, history
  <2>7. Progress(l)' /\ Reads(l)'
    BY <1>t, <2>6 DEF LinkInv, Progress, Reads, Ended
  <2>8. Complete(out[l], content, unnoticed) /\ out[l].image = img[l]
    BY <1>t, <2>6 DEF LinkInv, Carried
  <2>9. Closed(out[l], unnoticed)
    BY <2>8 DEF Complete
  <2>4. LinkInv(l)'
    BY <2>6, <2>7, <2>8, <2>9 DEF LinkInv, Carried
  <2>5. ASSUME NEW m \in Links, m # l PROVE LinkInv(m)'
    BY <1>9, <2>5, OtherLink DEF StoreOpen, Goes, history, Types
  <2> QED
    BY <2>2, <2>3, <2>4, <2>5
<1>10. CASE StoreCopy(l)
  <2>0. PICK cut \in BOOLEAN : /\ tmp' = [tmp EXCEPT ![l] = Copied(src[l], cut)]
                               /\ unnoticed' = (unnoticed \/ cut)
    BY <1>10 DEF StoreCopy
  <2> DEFINE new == Copied(src[l], cut)
  <2>1. /\ new \in FileSet /\ new.image = src[l].image
        /\ Closed(src[l], unnoticed) => Closed(new, unnoticed \/ cut)
    BY <1>t, CopiedIsFile
  <2> HIDE DEF new
  <2>2. Types'
    BY <1>10, <2>0, <2>1 DEF StoreCopy, Goes, Types, history, Pcs, new
  <2>3. CacheInv'
    BY <1>10, <2>0, SameCache DEF StoreCopy
  <2>6. pc[l] = "copy" /\ pc'[l] = "rename" /\ tmp'[l] = new /\ UNCHANGED <<out, key, img, content, moved>>
    BY <1>10, <2>0 DEF StoreCopy, Goes, Types, new
  <2>7. Progress(l)' /\ Reads(l)'
    BY <1>t, <2>6 DEF LinkInv, Progress, Reads, Ended
  <2>8. Complete(out[l], content, unnoticed')
    BY <1>t, <2>0, <2>6, CompleteLater DEF LinkInv, Carried
  <2>9. Closed(new, unnoticed') /\ new.image = img[l]
    BY <1>t, <2>0, <2>1, <2>6 DEF LinkInv, Carried
  <2>4. LinkInv(l)'
    BY <2>6, <2>7, <2>8, <2>9 DEF LinkInv, Carried
  <2>5. ASSUME NEW m \in Links, m # l PROVE LinkInv(m)'
    BY <1>10, <2>0, <2>5, OtherLink DEF StoreCopy, Goes, history, Types
  <2> QED
    BY <2>2, <2>3, <2>4, <2>5
<1>11. CASE ccwld_cache_store(l)
  <2>0. pc[l] = "rename" /\ DOMAIN key[l] = Keyed /\ DOMAIN img[l] = Files
    BY <1>11, <1>t DEF ccwld_cache_store, LinkInv, Progress, Ended
  <2>1. /\ DOMAIN cache' = DOMAIN cache \cup {key[l]}
        /\ \A k \in DOMAIN cache' : cache'[k] = IF k = key[l] THEN tmp[l] ELSE cache[k]
        /\ cache' \in [DOMAIN cache' -> FileSet]
    BY <1>11, <1>t DEF ccwld_cache_store, Extend
  <2>r. raced \subseteq raced' /\ raced' \subseteq raced \cup {key[l]} /\ (l \in moved => key[l] \in raced')
    BY <1>11 DEF ccwld_cache_store
  <2>2. Types'
    BY <1>11, <1>t, <2>1, <2>r DEF ccwld_cache_store, Ends, Types, Pcs, Ended
  <2>6. Closed(tmp[l], unnoticed) /\ tmp[l].image = img[l]
    BY <1>t, <2>0 DEF LinkInv, Carried
  <2>7. Complete(tmp[l], content, unnoticed)
    BY <1>t, <2>0, <2>6 DEF LinkInv, Reads, Complete
  <2>8. l \in moved \/ \A f \in Keyed : key[l][f] = Unread \/ tmp[l].image[f] = key[l][f]
    BY <1>t, <2>0, <2>6, CacheAssumption DEF LinkInv, Reads
  <2>3. CacheInv'
    <3> SUFFICES ASSUME NEW k \in DOMAIN cache'
                 PROVE  /\ k \in Maps(Keyed, Hashes) /\ DOMAIN k = Keyed
                        /\ Complete(cache'[k], content, unnoticed)
                        /\ k \in raced' \/ \A f \in Keyed : k[f] = Unread \/ cache'[k].image[f] = k[f]
      BY <1>11 DEF CacheInv, ccwld_cache_store
    <3>1. CASE k = key[l]
      BY <3>1, <1>t, <2>0, <2>1, <2>r, <2>7, <2>8
    <3>2. CASE k # key[l]
      BY <3>2, <2>1, <2>r DEF CacheInv
    <3> QED
      BY <3>1, <3>2
  <2>9. pc'[l] = "done" /\ key'[l] = Nothing /\ img'[l] = Nothing /\ UNCHANGED <<out, content, unnoticed>>
    BY <1>11 DEF ccwld_cache_store, Ends, Types
  <2>4. LinkInv(l)'
    BY <1>t, <2>0, <2>9, NothingIsMap DEF LinkInv, Progress, Reads, Carried, Ended
  <2>5. ASSUME NEW m \in Links, m # l PROVE LinkInv(m)'
    BY <1>11, <2>5, OtherLink DEF ccwld_cache_store, Ends, Types
  <2> QED
    BY <2>2, <2>3, <2>4, <2>5
<1>12. CASE StoreFails(l)
  <2>2. Types'
    BY <1>12, <1>t DEF StoreFails, Ends, Types, Pcs, Ended
  <2>3. CacheInv'
    BY <1>12, SameCache DEF StoreFails
  <2>6. /\ pc[l] \in {"store", "copy", "rename"}
        /\ pc'[l] = "done" /\ key'[l] = Nothing /\ img'[l] = Nothing /\ UNCHANGED <<out, content, unnoticed>>
    BY <1>12 DEF StoreFails, Ends, Types
  <2>4. LinkInv(l)'
    BY <1>t, <2>6, NothingIsMap DEF LinkInv, Progress, Reads, Carried, Ended
  <2>5. ASSUME NEW m \in Links, m # l PROVE LinkInv(m)'
    BY <1>12, <2>5, OtherLink DEF StoreFails, Ends, Types
  <2> QED
    BY <2>2, <2>3, <2>4, <2>5
<1>13. CASE Fails(l)
  <2>2. Types'
    BY <1>13, <1>t DEF Fails, Ends, Types, Pcs, Ended
  <2>3. CacheInv'
    BY <1>13, SameCache DEF Fails
  <2>6. pc'[l] = "failed" /\ key'[l] = Nothing /\ img'[l] = Nothing
    BY <1>13 DEF Fails, Ends, Types
  <2>4. LinkInv(l)'
    BY <2>6, NothingIsMap DEF LinkInv, Progress, Reads, Carried, Ended
  <2>5. ASSUME NEW m \in Links, m # l PROVE LinkInv(m)'
    BY <1>13, <2>5, OtherLink DEF Fails, Ends, Types
  <2> QED
    BY <2>2, <2>3, <2>4, <2>5
<1> QED
  BY <1>1, <1>2, <1>3, <1>4, <1>5, <1>6, <1>7, <1>8, <1>9, <1>10, <1>11, <1>12, <1>13 DEF Step

LEMMA RebuildInv ==
  ASSUME CacheIInv, NEW f \in Files, Rebuild(f)
  PROVE  CacheIInv'
<1> USE DEF CacheIInv
<1>1. /\ content' \in [Files -> Version]
      /\ content'[f] = content[f] + 1
      /\ \A g \in Files : content[g] \in Nat /\ content'[g] \in Nat /\ content[g] <= content'[g]
      /\ \A g \in Files \ {f} : content'[g] = content[g]
  BY CacheAssumption DEF Rebuild, Types, Version
<1>2. moved' \subseteq Links
  BY DEF Rebuild, Types
<1>3. Types'
  BY <1>1, <1>2 DEF Rebuild, Types
<1>4. ASSUME NEW file \in FileSet, Complete(file, content, unnoticed)
      PROVE  Complete(file, content', unnoticed)
  <2>1. file.image \in [Files -> Version]
    BY <1>4, MapsMember DEF Complete, FileSet
  <2>2. \A g \in Files : file.image[g] \in Nat
    BY <2>1, CacheAssumption DEF Version
  <2> QED
    BY <1>1, <1>4, <2>2 DEF Complete
<1>5. CacheInv'
  BY <1>4 DEF CacheInv, Rebuild, Types
<1>6. ASSUME NEW m \in Links PROVE LinkInv(m)'
  <2>0. LinkInv(m) /\ src[m] \in FileSet /\ out[m] \in FileSet
    BY DEF Types
  <2>1. Progress(m)'
    BY <2>0 DEF LinkInv, Progress, Rebuild
  <2>2. Carried(m)'
    BY <1>4, <2>0 DEF LinkInv, Carried, Rebuild
  <2>3. DOMAIN img[m] \subseteq Files /\ \A g \in DOMAIN img[m] : img[m][g] \in Nat
    BY MapsMember, CacheAssumption DEF Types, Version
  <2>4. \A g \in DOMAIN img'[m] : img'[m][g] <= content'[g]
    BY <1>1, <2>0, <2>3 DEF LinkInv, Reads, Rebuild
  <2>5. DOMAIN key[m] \subseteq Files
    BY MapsMember, CacheAssumption DEF Types
  <2>6. m \notin moved' => m \notin moved /\ f \notin (DOMAIN key[m]) \ DOMAIN img[m]
    BY DEF Rebuild
  <2>7. Reads(m)'
    BY <1>1, <2>0, <2>4, <2>5, <2>6 DEF LinkInv, Reads, Rebuild
  <2> QED
    BY <2>1, <2>2, <2>7 DEF LinkInv
<1> QED
  BY <1>3, <1>5, <1>6

LEMMA RestInv ==
  ASSUME CacheIInv, NEW l \in Links, Killed(l) \/ Again(l)
  PROVE  CacheIInv'
<1> USE DEF CacheIInv
<1>t. /\ LinkInv(l) /\ out[l] \in FileSet
      /\ Nothing \in Maps(Keyed, Hashes) /\ Nothing \in Maps(Files, Version) /\ NoFile \in FileSet
  BY NothingIsMap, NoFileIsFile DEF Types
<1>1. CASE Killed(l)
  <2>2. Types'
    BY <1>1, <1>t DEF Killed, Ends, Types, Pcs, Ended
  <2>3. CacheInv'
    BY <1>1, SameCache DEF Killed
  <2>6. pc'[l] = "failed" /\ key'[l] = Nothing /\ img'[l] = Nothing
    BY <1>1 DEF Killed, Ends, Types
  <2>4. LinkInv(l)'
    BY <2>6, NothingIsMap DEF LinkInv, Progress, Reads, Carried, Ended
  <2>5. ASSUME NEW m \in Links, m # l PROVE LinkInv(m)'
    BY <1>1, <2>5, OtherLink DEF Killed, Ends, Types
  <2> QED
    BY <2>2, <2>3, <2>4, <2>5
<1>2. CASE Again(l)
  <2>1. runs' \in 0 .. MaxRuns
    BY <1>2, CacheAssumption DEF Again, Types
  <2>2. Types'
    BY <1>2, <1>t, <2>1 DEF Again, Types, Pcs, Ended, history
  <2>3. CacheInv'
    BY <1>2, SameCache DEF Again, history
  <2>6. pc'[l] = "key" /\ UNCHANGED <<key, img, content, moved>> /\ pc[l] \in Ended
    BY <1>2 DEF Again, Types, history
  <2>4. LinkInv(l)'
    BY <1>t, <2>6 DEF LinkInv, Progress, Reads, Carried, Ended
  <2>5. ASSUME NEW m \in Links, m # l PROVE LinkInv(m)'
    BY <1>2, <2>5, OtherLink DEF Again, Types, history
  <2> QED
    BY <2>2, <2>3, <2>4, <2>5
<1> QED
  BY <1>1, <1>2

LEMMA CacheNextInv ==
  ASSUME CacheIInv, [CacheNext]_linkVars
  PROVE  CacheIInv'
<1>1. CASE CacheNext
  BY <1>1, StepInv, RebuildInv, RestInv DEF CacheNext
<1>2. CASE UNCHANGED linkVars
  <2>1. CacheInv' /\ Types'
    BY <1>2, SameCache DEF CacheIInv, linkVars, Types
  <2>2. ASSUME NEW m \in Links PROVE LinkInv(m)'
    BY <1>2 DEF CacheIInv, linkVars, LinkInv, Progress, Reads, Carried
  <2> QED
    BY <2>1, <2>2 DEF CacheIInv
<1> QED
  BY <1>1, <1>2

(* The strengthening is an invariant of every behaviour of the links.       *)
THEOREM CacheInductive == CacheSpec => []CacheIInv
<1>1. CacheInit => CacheIInv
  BY CacheInitInv
<1>2. CacheIInv /\ [CacheNext]_linkVars => CacheIInv'
  BY CacheNextInv
<1> QED
  BY <1>1, <1>2, PTL DEF CacheSpec

LEMMA FileSetOK ==
  ASSUME NEW file \in FileSet PROVE FileOK(file)
BY MapsMember DEF FileSet, FileOK, MapOver

(* Every variable keeps its type, and every key names all the keyed files.  *)
THEOREM CacheTypes == CacheSpec => []CacheTypeOK
<1>1. CacheIInv => CacheTypeOK
  <2> SUFFICES ASSUME CacheIInv PROVE CacheTypeOK
    OBVIOUS
  <2>1. ASSUME NEW l \in Links
        PROVE  /\ MapOver(key[l], Keyed, Version \cup {Unread})
               /\ MapOver(img[l], Files, Version)
               /\ FileOK(out[l]) /\ FileOK(src[l]) /\ FileOK(tmp[l])
    <3>1. /\ key[l] \in Maps(Keyed, Hashes) /\ img[l] \in Maps(Files, Version)
          /\ out[l] \in FileSet /\ src[l] \in FileSet /\ tmp[l] \in FileSet
      BY DEF CacheIInv, Types
    <3> QED
      BY <3>1, FileSetOK, MapsMember DEF MapOver, Hashes
  <2>2. \A k \in DOMAIN cache : FileOK(cache[k]) /\ DOMAIN k = Keyed
    BY FileSetOK DEF CacheIInv, Types, CacheInv
  <2> QED
    BY <2>1, <2>2 DEF CacheIInv, Types, CacheTypeOK
<1> QED
  BY <1>1, CacheInductive, PTL

(* Whatever is killed, fails or runs at the same time (ccwld_cache_store),  *)
(* an entry of the cache is an image of every file that was written to its  *)
(* end, and lacks bytes only if some were lost unnoticed.                   *)
THEOREM EntriesWhole == CacheSpec => []EntryWhole
<1>1. CacheIInv => EntryWhole
  BY DEF CacheIInv, CacheInv, Complete, Closed, WrittenOut, EntryWhole
<1> QED
  BY <1>1, CacheInductive, PTL

(* The race between the hash and the load of a file (ccwld_link_run), and a *)
(* file that is not read for the hash (hash_file), are the only ways to an  *)
(* entry that is not what its key names.                                    *)
THEOREM EntriesKeyed == CacheSpec => []EntryKeyed
<1>1. CacheIInv => EntryKeyed
  BY DEF CacheIInv, CacheInv, EntryKeyed
<1> QED
  BY <1>1, CacheInductive, PTL

(* A link that reports success, whether it restored an entry, linked, or    *)
(* failed to store what it linked, has left an output that was written to   *)
(* its end, and lacks bytes only if some were lost unnoticed (copy_file,    *)
(* ccwld_emit_elf).                                                         *)
THEOREM OutputsWhole == CacheSpec => []DoneWhole
<1>1. CacheIInv => DoneWhole
  BY DEF CacheIInv, LinkInv, Carried, Complete, Closed, WrittenOut, DoneWhole
<1> QED
  BY <1>1, CacheInductive, PTL

(* The cache directory is sound for any number of links and files           *)
(* (ccwld_cache_store, ccwld_link_run).                                     *)
THEOREM CachesSound == CacheSpec => []CacheSound
<1>1. CacheTypeOK /\ EntryWhole /\ EntryKeyed => CacheSound
  BY DEF CacheSound
<1> QED
  BY <1>1, CacheTypes, EntriesWhole, EntriesKeyed, PTL

=============================================================================
