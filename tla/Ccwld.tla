-------------------------------- MODULE Ccwld --------------------------------
(***************************************************************************)
(* The linker CCWld from a sealed plan to an image: load, resolve, LTO,    *)
(* garbage collection, layout, relocation (toolchain/ccwld/ccwld.c and     *)
(* phases/).  A step is one turn of the loop a phase consists of.  Names   *)
(* are values, a glob is the set of names it matches, the bytes of a       *)
(* section are its size.  Indexes count from 1, and 0 is the code's -1.    *)
(***************************************************************************)
EXTENDS LdImage, Selection

CONSTANTS Symbol,     \* names of symbols
          File,       \* input files
          Elf,        \* what is in a file: [File -> contents]
          Plan,       \* the sealed plans
          ScanRounds, \* an archive is scanned at most so often (64)
          Base        \* where an executable begins (0x400080)

IsList(s) == s \in Seq(ToSet(s))

(* What the readers of ELF files and archives return.  A binding that is     *)
(* neither local nor weak counts as global, as merge_object takes it        *)
(* (ccwld_resolve.c:26,41,88).                                              *)
IsElf(c) ==
  /\ IsList(c.shdrs) /\ IsList(c.syms)
  /\ \A i \in DOMAIN c.syms : c.syms[i].binding \in {"local", "weak", "global"}

IsArchive(c) == /\ IsList(c.index) /\ IsList(c.members)
                /\ \A i \in DOMAIN c.members : IsElf(c.members[i])

ASSUME LinkAssumption ==
  /\ ScanRounds \in Nat \ {0} /\ Base \in 0 .. W - 1
  /\ \A f \in File : IF Elf[f].etype = "ar" THEN IsArchive(Elf[f]) ELSE IsElf(Elf[f])
  /\ \A p \in Plan : /\ IsList(p.inputs) /\ IsList(p.secs) /\ IsList(p.lto.native)
                     /\ \A i \in DOMAIN p.inputs : p.inputs[i].file \in File
                     /\ \A i \in DOMAIN p.lto.native : IsElf(p.lto.native[i])

VARIABLES plan,    \* the plan of this link
          osecs,   \* its output sections, in the order of layout
          objs,    \* loaded objects, archives and shared objects
          rsyms,   \* the resolved symbols
          phase,   \* the phase that runs
          at, k,   \* the indexes of its loops
          scan,    \* the archive scan that a merge returns to
          todo,    \* input sections waiting for a place in osecs[at]
          dot,     \* the location counter
          lmas,    \* the load address cursor of every region
          visited, \* marks on the nodes of expressions
          muts,    \* mutations recorded for the conflict scan
          reported,\* phases for which a conflict was reported
          patched, \* relocations applied
          lto,     \* the backend has replaced its modules
          entry_value, \* the address of the entry, taken at the end of layout
          exit     \* "running", "ok" or the class of the error

place == <<todo, dot, lmas, visited, patched>>
hooks == <<muts, reported, entry_value>>

vars == <<plan, osecs, objs, rsyms, phase, at, k, scan, lto, exit, place, hooks>>

(***************************************************************************)
(* ELF contents to sections, symbols and relocations.                      *)
(***************************************************************************)
sec_materialized(s) == s.kind # "meta"

(* The number of an ELF section among the materialized ones, whatever it is *)
(* itself: a section of metadata gets the number of the next one.           *)
map_shndx(c, e) ==
  IF e \in DOMAIN c.shdrs
  THEN Cardinality({j \in 1 .. e - 1 : sec_materialized(c.shdrs[j])}) + 1
  ELSE 0

NewSec(s) ==
  [name |-> s.name, alloc |-> s.alloc, size |-> s.size,
   align |-> IF s.align = 0 THEN 1 ELSE s.align,
   data |-> s.kind # "nobits" /\ s.size > 0,
   live |-> 1, placed |-> FALSE, out_sec |-> 0, out_off |-> 0]

(* shndx: 0 undefined, -1 absolute, otherwise the number of a section.      *)
NewSym(c, s) ==
  [name |-> s.name, binding |-> s.binding, value |-> s.value,
   shndx |-> CASE s.shndx = 0 -> 0
               [] s.shndx = -1 -> -1
               [] OTHER -> IF map_shndx(c, s.shndx) = 0
                           THEN -1 ELSE map_shndx(c, s.shndx)]

NewReloc(c, r) ==
  [sec |-> map_shndx(c, r.sec), offset |-> r.offset, type |-> r.type,
   sym |-> r.sym, addend |-> r.addend]

Blank == [kind |-> "object", secs |-> <<>>, syms |-> <<>>, relocs |-> <<>>,
          members |-> <<>>, index |-> <<>>, extracted |-> {}, used |-> FALSE,
          as_needed |-> FALSE, group |-> FALSE, path |-> "lto"]

load_elf_mem(c) ==
  LET secs == Filtered(c.shdrs, {s \in ToSet(c.shdrs) : sec_materialized(s)})
  IN [Blank EXCEPT
        !.kind   = IF c.etype = "dyn" THEN "dso"
                   ELSE IF \E i \in DOMAIN secs : secs[i].name = ".ccw.lto" THEN "lto"
                   ELSE "object",
        !.secs   = [i \in DOMAIN secs |-> NewSec(secs[i])],
        !.syms   = [i \in DOMAIN c.syms |-> NewSym(c, c.syms[i])],
        !.relocs = [i \in DOMAIN c.relas |-> NewReloc(c, c.relas[i])]]

(* The symbol table of an archive, without the entries that hit no member.  *)
ArchiveIndex(c) ==
  Filtered(c.index, {x \in ToSet(c.index) : x.member \in DOMAIN c.members})

(* Members are only named here, and loaded when the resolver wants one.     *)
load_archive(c) ==
  [Blank EXCEPT !.kind = "archive", !.members = c.members, !.index = ArchiveIndex(c)]

Loadable(c) == c.etype \in {"rel", "dyn"} /\ Len(c.shdrs) > 0

(* Startup objects first, then the others as they were declared.            *)
LoadOrder == Filtered(plan.inputs, {x \in ToSet(plan.inputs) : x.startup})
             \o Filtered(plan.inputs, {x \in ToSet(plan.inputs) : ~x.startup})

NoSym == [defined |-> FALSE, obj |-> 0, isym |-> 0, weak |-> FALSE,
          script |-> FALSE, referenced |-> FALSE, value |-> 0, known |-> FALSE]

NoCursor == [i \in {} |-> 0]

NoScan == [ar |-> 0, i |-> 1, n |-> 0, round |-> 1]

Init ==
  /\ plan \in Plan
  /\ osecs = plan.secs
  /\ objs = <<>> /\ rsyms = [n \in Symbol |-> NoSym]
  /\ phase = "load" /\ at = 1 /\ k = 1 /\ scan = NoScan
  /\ todo = <<>> /\ dot = 0 /\ lmas = NoCursor /\ visited = {} /\ patched = {}
  /\ muts = {} /\ reported = {} /\ entry_value = 0
  /\ lto = FALSE /\ exit = "running"

(* A phase that returns 0 ends the link.                                    *)
Fail(class) ==
  /\ exit' = class /\ phase' = "done"
  /\ UNCHANGED <<plan, osecs, objs, rsyms, at, k, scan, lto, place, hooks>>

Goto(p) == phase' = p /\ at' = 1 /\ k' = 1 /\ UNCHANGED exit

(***************************************************************************)
(* load                                                                    *)
(***************************************************************************)
LoadInput ==
  /\ phase = "load" /\ plan.inputs # <<>> /\ at <= Len(LoadOrder)
  /\ LET in == LoadOrder[at]
         c  == Elf[in.file]
         o  == IF c.etype = "ar" THEN load_archive(c) ELSE load_elf_mem(c)
     IN /\ c.etype = "ar" \/ Loadable(c)
        /\ objs' = Append(objs, [o EXCEPT !.as_needed = in.as_needed,
                                          !.group = in.group, !.path = in.file])
  /\ at' = at + 1
  /\ UNCHANGED <<plan, osecs, rsyms, phase, k, scan, lto, exit, place, hooks>>

(* No input at all, an input that cannot be opened, another format.         *)
LoadFails ==
  /\ phase = "load"
  /\ \/ plan.inputs = <<>>
     \/ /\ at <= Len(LoadOrder)
        /\ ~(Elf[LoadOrder[at].file].etype = "ar" \/ Loadable(Elf[LoadOrder[at].file]))
  /\ Fail("link")

LoadEnds ==
  /\ phase = "load" /\ plan.inputs # <<>> /\ at > Len(LoadOrder)
  /\ Goto("merge")
  /\ UNCHANGED <<plan, osecs, objs, rsyms, scan, lto, place, hooks>>

(***************************************************************************)
(* resolve, passes 1 and 2                                                 *)
(***************************************************************************)
(* What merge_object makes of one symbol of object i.  No symbol is from    *)
(* the script yet: those follow the merges, and LTO empties the table.      *)
Duplicate(r, s) == s.shndx # 0 /\ r.defined /\ ~r.weak /\ s.binding # "weak"

Merged(r, s, i, n) ==
  LET ref == [r EXCEPT !.referenced = TRUE]
  IN IF s.shndx = 0 \/ (r.defined /\ ~(r.weak /\ s.binding # "weak"))
     THEN ref
     ELSE [ref EXCEPT !.defined = TRUE, !.obj = i, !.isym = n,
                      !.weak = (s.binding = "weak"), !.script = FALSE,
                      !.known = FALSE]

(* A shared object never merges: its exports define what nothing else has,  *)
(* and reference nothing.                                                   *)
Exported(r, s, i, n) ==
  IF r.defined \/ s.shndx = 0 THEN r
  ELSE [r EXCEPT !.defined = TRUE, !.obj = i, !.isym = n,
                 !.weak = (s.binding = "weak"), !.script = FALSE, !.known = FALSE]

MergeSym ==
  /\ phase = "merge" /\ at <= Len(objs)
  /\ objs[at].kind # "archive" /\ k <= Len(objs[at].syms)
  /\ LET s == objs[at].syms[k]
     IN /\ s.binding = "local" \/ objs[at].kind = "dso" \/ ~Duplicate(rsyms[s.name], s)
        /\ rsyms' = IF s.binding = "local" THEN rsyms
                    ELSE [rsyms EXCEPT ![s.name] = IF objs[at].kind = "dso"
                                                   THEN Exported(@, s, at, k)
                                                   ELSE Merged(@, s, at, k)]
  /\ k' = k + 1
  /\ UNCHANGED <<plan, osecs, objs, phase, at, scan, lto, exit, place, hooks>>

MergeFails ==
  /\ phase = "merge" /\ at <= Len(objs)
  /\ objs[at].kind \notin {"archive", "dso"} /\ k <= Len(objs[at].syms)
  /\ LET s == objs[at].syms[k]
     IN s.binding # "local" /\ Duplicate(rsyms[s.name], s)
  /\ Fail("link")

(* The object is merged: on to the next input, or back to the archive that  *)
(* it was extracted from.                                                   *)
MergeEnds ==
  /\ phase = "merge" /\ at <= Len(objs)
  /\ objs[at].kind = "archive" \/ k > Len(objs[at].syms)
  /\ objs' = IF objs[at].kind \in {"archive", "dso"} THEN objs
             ELSE [objs EXCEPT ![at].used = TRUE]
  /\ IF scan.ar = 0 THEN phase' = phase /\ at' = at + 1 /\ k' = 1
                    ELSE phase' = "scan" /\ UNCHANGED <<at, k>>
  /\ UNCHANGED <<plan, osecs, rsyms, scan, lto, exit, place, hooks>>

ScanStarts ==
  /\ phase = "merge" /\ at > Len(objs)
  /\ Goto("scan") /\ scan' = [NoScan EXCEPT !.ar = 1]
  /\ UNCHANGED <<plan, osecs, objs, rsyms, lto, place, hooks>>

(* Does the i-th symbol of the index call for its member?                   *)
Wanted(a, i) ==
  LET x == objs[a].index[i]
  IN /\ rsyms[x.name].referenced /\ ~rsyms[x.name].defined
     /\ x.member \notin objs[a].extracted

ScanPasses ==
  /\ phase = "scan" /\ scan.ar <= Len(objs) /\ objs[scan.ar].kind = "archive"
  /\ scan.i <= Len(objs[scan.ar].index) /\ ~Wanted(scan.ar, scan.i)
  /\ scan' = [scan EXCEPT !.i = @ + 1]
  /\ UNCHANGED <<plan, osecs, objs, rsyms, phase, at, k, lto, exit, place, hooks>>

ExtractMember ==
  /\ phase = "scan" /\ scan.ar <= Len(objs) /\ objs[scan.ar].kind = "archive"
  /\ scan.i <= Len(objs[scan.ar].index) /\ Wanted(scan.ar, scan.i)
  /\ LET m == objs[scan.ar].index[scan.i].member
         c == objs[scan.ar].members[m]
     IN /\ Loadable(c)
        /\ objs' = Append([objs EXCEPT ![scan.ar].extracted = @ \cup {m},
                                       ![scan.ar].used = TRUE],
                          [load_elf_mem(c) EXCEPT !.group = objs[scan.ar].group,
                                                  !.path = <<objs[scan.ar].path, m>>])
  /\ phase' = "merge" /\ at' = Len(objs) + 1 /\ k' = 1
  /\ scan' = [scan EXCEPT !.i = @ + 1, !.n = @ + 1]
  /\ UNCHANGED <<plan, osecs, rsyms, lto, exit, place, hooks>>

ExtractFails ==
  /\ phase = "scan" /\ scan.ar <= Len(objs) /\ objs[scan.ar].kind = "archive"
  /\ scan.i <= Len(objs[scan.ar].index) /\ Wanted(scan.ar, scan.i)
  /\ ~Loadable(objs[scan.ar].members[objs[scan.ar].index[scan.i].member])
  /\ Fail("link")

\* Mutant: a round that extracts one member is the last.
HastyScanDone ==
  objs[scan.ar].kind # "archive" \/ scan.n <= 1 \/ scan.round = ScanRounds

ScanDone ==
  objs[scan.ar].kind # "archive" \/ scan.n = 0 \/ scan.round = ScanRounds

(* The end of a round.  An archive of a group and one that stands alone are *)
(* scanned alike: by itself, until a round extracts nothing.                *)
RoundEnds ==
  /\ phase = "scan" /\ scan.ar <= Len(objs)
  /\ objs[scan.ar].kind = "archive" => scan.i > Len(objs[scan.ar].index)
  /\ scan' = IF ScanDone
             THEN [NoScan EXCEPT !.ar = scan.ar + 1]
             ELSE [scan EXCEPT !.i = 1, !.n = 0, !.round = @ + 1]
  /\ UNCHANGED <<plan, osecs, objs, rsyms, phase, at, k, lto, exit, place, hooks>>

ScanEnds ==
  /\ phase = "scan" /\ scan.ar > Len(objs)
  /\ Goto("script") /\ scan' = NoScan
  /\ rsyms' = [n \in Symbol |-> IF n \in DOMAIN plan.attrs
                                THEN [rsyms[n] EXCEPT !.weak = plan.attrs[n]]
                                ELSE rsyms[n]]
  /\ UNCHANGED <<plan, osecs, objs, lto, place, hooks>>


(***************************************************************************)
(* resolve, passes 3 to 5                                                  *)
(***************************************************************************)
Syms == SelectSeq(plan.stmts, LAMBDA s : s.what = "sym")

(* An assignment to what an object or a shared object defines.              *)
Overrides(s, r) == ~s.provide /\ r.defined /\ ~r.script /\ r.obj # 0

Scripted(s, r) ==
  IF s.provide /\ (r.defined \/ ~r.referenced) THEN r
  ELSE [r EXCEPT !.defined = TRUE, !.script = TRUE, !.known = FALSE]

ApplySymbol ==
  /\ phase = "script" /\ at <= Len(Syms)
  /\ ~Overrides(Syms[at], rsyms[Syms[at].name])
  /\ rsyms' = [rsyms EXCEPT ![Syms[at].name] = Scripted(Syms[at], @)]
  /\ at' = at + 1
  /\ UNCHANGED <<plan, osecs, objs, phase, k, scan, lto, exit, place, hooks>>

ApplyFails ==
  /\ phase = "script" /\ at <= Len(Syms)
  /\ Overrides(Syms[at], rsyms[Syms[at].name])
  /\ Fail("link")

Undefined == {n \in Symbol : rsyms[n].referenced /\ ~rsyms[n].defined}

Won(i) == \E n \in Symbol : rsyms[n].obj = i /\ rsyms[n].defined /\ ~rsyms[n].script

(* An as-needed shared object that won nothing is marked unused, which each *)
(* of them is all along: only merge_object says that an object is used.     *)
ResolveEnds ==
  /\ phase = "script" /\ at > Len(Syms)
  /\ \A n \in Undefined : rsyms[n].weak
  /\ objs' = [i \in DOMAIN objs |->
                IF objs[i].kind = "dso" /\ objs[i].as_needed /\ ~Won(i)
                THEN [objs[i] EXCEPT !.used = FALSE] ELSE objs[i]]
  /\ rsyms' = [n \in Symbol |-> IF n \in Undefined
                                THEN [rsyms[n] EXCEPT !.value = 0, !.known = TRUE]
                                ELSE rsyms[n]]
  /\ Goto(IF lto THEN "gc" ELSE "on_resolved")
  /\ UNCHANGED <<plan, osecs, scan, lto, place, hooks>>

ResolveFails ==
  /\ phase = "script" /\ at > Len(Syms)
  /\ \E n \in Undefined : ~rsyms[n].weak
  /\ Fail("link")

(***************************************************************************)
(* Plugins and hooks, at the four points between the phases                *)
(***************************************************************************)
After == [on_resolved |-> "lto", on_gc |-> "layout", on_layout |-> "relocate",
          on_emit |-> "emit"]

(* Plugins in the order of registration, then hooks.                        *)
Ops == SelectSeq(plan.ops, LAMBDA o : o.src = "plugin" /\ o.phase = phase)
       \o SelectSeq(plan.ops, LAMBDA o : o.src = "hook" /\ o.phase = phase)

Sections(os) == UNION {{i} \X (DOMAIN os[i].secs) : i \in DOMAIN os}

(* The phase a mutator is for, and its own conditions.                      *)
Accepted(o) ==
  CASE o.what = "set_symbol"   -> phase \in {"on_resolved", "on_layout"}
    [] o.what = "keep_section" -> phase = "on_gc" /\ \E x \in Sections(objs) :
                                     LET s == objs[x[1]].secs[x[2]]
                                     IN s.live = 1 /\ s.name \in o.globs
    [] o.what = "move_section" -> /\ phase = "on_gc" /\ o.from # o.to
                                  /\ {o.from, o.to} \subseteq DOMAIN osecs
    [] o.what = "add_note"     -> phase = "on_emit"

Key(o) == CASE o.what = "move_section" -> <<o.what, o.from, o.to>>
            [] o.what = "keep_section" -> <<o.what, o.globs>>
            [] OTHER -> <<o.what, o.name>>

(* A key that is recorded for this phase is not recorded again, whoever     *)
(* comes with it.                                                           *)
record_mut(o) ==
  IF \E m \in muts : m.key = Key(o) /\ m.phase = phase THEN muts
  ELSE muts \cup {[key |-> Key(o), src |-> o.src, phase |-> phase]}

Move(s, from, to) == InsertAt(RemoveAt(s, from), to, s[from])

(* keep_section makes its sections roots, but the sweep is over; a note     *)
(* changes nothing that is modelled here.                                   *)
RunOp ==
  /\ phase \in DOMAIN After /\ at <= Len(Ops) /\ Accepted(Ops[at])
  /\ LET o == Ops[at]
     IN /\ rsyms' = IF o.what = "set_symbol"
                    THEN [rsyms EXCEPT ![o.name].value = o.val,
                                       ![o.name].known = TRUE,
                                       ![o.name].defined = TRUE]
                    ELSE rsyms
        /\ osecs' = IF o.what = "move_section" THEN Move(osecs, o.from, o.to) ELSE osecs
        /\ muts' = record_mut(o)
  /\ at' = at + 1
  /\ UNCHANGED <<plan, objs, phase, k, scan, lto, exit, place, reported, entry_value>>

(* A refused call raises an error in a Lua hook; a plugin sees a 0 and may  *)
(* go on.                                                                   *)
OpIgnored ==
  /\ phase \in DOMAIN After /\ at <= Len(Ops) /\ ~Accepted(Ops[at])
  /\ Ops[at].src = "plugin"
  /\ at' = at + 1
  /\ UNCHANGED <<plan, osecs, objs, rsyms, phase, k, scan, lto, exit, place, hooks>>

OpFails ==
  /\ phase \in DOMAIN After /\ at <= Len(Ops) /\ ~Accepted(Ops[at])
  /\ Fail(IF Ops[at].src = "plugin" THEN "abi" ELSE "link")

conflict_scan ==
  \E p, h \in muts : /\ p.src = "plugin" /\ h.src = "hook"
                     /\ p.key = h.key /\ p.phase = phase /\ h.phase = phase

DispatchEnds ==
  /\ phase \in DOMAIN After /\ at > Len(Ops)
  /\ reported' = IF conflict_scan THEN reported \cup {phase} ELSE reported
  /\ Goto(After[phase])
  /\ UNCHANGED <<plan, osecs, objs, rsyms, scan, lto, place, muts, entry_value>>

(***************************************************************************)
(* LTO                                                                     *)
(***************************************************************************)
IsLto(i) == objs[i].kind = "lto"

Fed == \E x \in Sections(objs) :
         IsLto(x[1]) /\ objs[x[1]].secs[x[2]].name = ".ccw.lto"
                     /\ objs[x[1]].secs[x[2]].data

(* Not configured, or no module to compile.                                 *)
LtoSkips ==
  /\ phase = "lto" /\ (plan.lto.on => plan.lto.ok /\ ~Fed)
  /\ Goto("gc")
  /\ UNCHANGED <<plan, osecs, objs, rsyms, scan, lto, place, hooks>>

(* No backend of that name, the wrong ABI, a session, module or run that it *)
(* refuses.                                                                 *)
LtoFails == phase = "lto" /\ plan.lto.on /\ ~plan.lto.ok /\ Fail("abi")

(* The modules die and their symbols are undefined; the native objects that *)
(* can be loaded follow the others, and then everything is resolved again.  *)
LtoRuns ==
  /\ phase = "lto" /\ plan.lto.on /\ plan.lto.ok /\ Fed
  /\ LET native == Filtered(plan.lto.native, {c \in ToSet(plan.lto.native) : Loadable(c)})
         dead   == [i \in DOMAIN objs |->
                      IF IsLto(i)
                      THEN [objs[i] EXCEPT !.secs = [s \in DOMAIN @ |-> [@[s] EXCEPT !.live = 0]]]
                      ELSE objs[i]]
     IN /\ objs' = dead \o [i \in DOMAIN native |-> load_elf_mem(native[i])]
        /\ rsyms' = [n \in Symbol |->
                       IF native # <<>> THEN NoSym
                       ELSE IF rsyms[n].obj # 0 /\ IsLto(rsyms[n].obj)
                       THEN [rsyms[n] EXCEPT !.defined = FALSE, !.obj = 0, !.isym = 0,
                                             !.known = FALSE]
                       ELSE rsyms[n]]
        /\ Goto(IF native = <<>> THEN "gc" ELSE "merge")
  /\ lto' = TRUE
  /\ UNCHANGED <<plan, osecs, scan, place, hooks>>

(***************************************************************************)
(* gc.  live: 0 dead, 1 not visited, 2 marked.                             *)
(***************************************************************************)
Matches(sel, i, s) == objs[i].path \in sel.files /\ objs[i].secs[s].name \in sel.globs

(* Only the first selector that matches speaks for an output section.       *)
Kept(i, s) ==
  \E o \in DOMAIN osecs :
    LET m == {j \in DOMAIN osecs[o].sels : Matches(osecs[o].sels[j], i, s)}
    IN \E j \in m : osecs[o].sels[j].keep /\ \A l \in m : j <= l

(* The input section that defines a name, as a set of at most one: symbols  *)
(* that are local to an object are not in the table.                        *)
defining_sec(os, name) ==
  LET r == rsyms[name]
  IN IF name \in Symbol /\ r.defined /\ r.obj # 0 /\ r.isym # 0
        /\ os[r.obj].syms[r.isym].shndx \in DOMAIN os[r.obj].secs
     THEN {<<r.obj, os[r.obj].syms[r.isym].shndx>>} ELSE {}

Edges(os, x) ==
  UNION {defining_sec(os, os[x[1]].relocs[r].sym) :
           r \in {q \in DOMAIN os[x[1]].relocs :
                    os[x[1]].relocs[q].sec = x[2] /\ os[x[1]].relocs[q].sym \in Symbol}}

\* Mutant: a root marks what it refers to, and that marks nothing.
ShallowMarked(os, start) ==
  (start \cup UNION {Edges(os, x) : x \in start})
  \cap {x \in Sections(os) : os[x[1]].secs[x[2]].live = 1}

(* The unvisited sections that mark_sec reaches from those of start.        *)
Marked(os, start) ==
  LET open == {x \in Sections(os) : os[x[1]].secs[x[2]].live = 1}
      reach[n \in 0 .. Cardinality(open)] ==
        IF n = 0 THEN start \cap open
        ELSE reach[n - 1] \cup ((UNION {Edges(os, x) : x \in reach[n - 1]}) \cap open)
  IN reach[Cardinality(open)]

SetLive(os, xs, v) ==
  [i \in DOMAIN os |->
     [os[i] EXCEPT !.secs = [s \in DOMAIN @ |->
        IF <<i, s>> \in xs THEN [@[s] EXCEPT !.live = v] ELSE @[s]]]]

GcSkips ==
  /\ phase = "gc" /\ ~plan.gc
  /\ Goto("on_gc")
  /\ UNCHANGED <<plan, osecs, objs, rsyms, scan, lto, place, hooks>>

(* One turn of the loop over the sections that looks for roots.             *)
GcSection ==
  /\ phase = "gc" /\ plan.gc /\ at <= Len(objs)
  /\ IF k > Len(objs[at].secs) THEN at' = at + 1 /\ k' = 1 /\ objs' = objs
     ELSE LET s == objs[at].secs[k]
          IN /\ k' = k + 1 /\ at' = at
             /\ objs' = IF s.live # 1 THEN objs
                        ELSE IF ~s.alloc THEN SetLive(objs, {<<at, k>>}, 0)
                        ELSE IF Kept(at, k) THEN SetLive(objs, Marked(objs, {<<at, k>>}), 2)
                        ELSE objs
  /\ UNCHANGED <<plan, osecs, rsyms, phase, scan, lto, exit, place, hooks>>

(* The entry, the symbols of shared objects, and the sweep.                 *)
GcEnds ==
  /\ phase = "gc" /\ plan.gc /\ at > Len(objs)
  /\ LET dyn   == {n \in Symbol : /\ rsyms[n].referenced /\ rsyms[n].defined
                                  /\ ~rsyms[n].script /\ rsyms[n].obj # 0
                                  /\ objs[rsyms[n].obj].kind = "dso"}
         start == UNION {defining_sec(objs, n) : n \in dyn \cup ({plan.entry} \cap Symbol)}
         os    == SetLive(objs, Marked(objs, start), 2)
         swept == {x \in Sections(os) : os[x[1]].kind # "lto"}
         is(v) == {x \in swept : os[x[1]].secs[x[2]].live = v}
     IN objs' = SetLive(SetLive(os, is(1), 0), is(2), 1)
  /\ Goto("on_gc")
  /\ UNCHANGED <<plan, osecs, rsyms, scan, lto, place, hooks>>

(***************************************************************************)
(* layout                                                                  *)
(***************************************************************************)
Env(d) == [x |-> plan.exprs, syms |-> Syms, mems |-> plan.mems, secs |-> osecs,
           phdrs |-> plan.phdrs, dot |-> d,
           rs |-> [n \in Symbol |-> IF rsyms[n].defined /\ rsyms[n].known
                                    THEN {rsyms[n].value} ELSE {}]]

Eval(e, d) == expr_eval(Env(d), e, visited)
Value(r)   == CHOOSE v \in r.v : TRUE

LayoutStarts ==
  /\ phase = "layout" /\ Goto("section")
  /\ dot' = (IF plan.reloc THEN 0 ELSE Base) /\ lmas' = NoCursor
  /\ UNCHANGED <<plan, osecs, objs, rsyms, scan, lto, hooks, todo, visited, patched>>

(* Sections that can still be placed: the shared objects have theirs, and   *)
(* only a shared object that is used would give them.                       *)
Placeable(i, s) ==
  LET is == objs[i].secs[s]
  IN /\ is.live # 0 /\ ~is.placed /\ is.alloc
     /\ objs[i].kind # "lto" /\ (objs[i].kind = "dso" => objs[i].used)

(* Selectors in their order, then objects, then sections.                   *)
Placement(o) ==
  LET sel(x)   == {j \in DOMAIN osecs[o].sels : Matches(osecs[o].sels[j], x[1], x[2])}
      first(x) == CHOOSE j \in sel(x) : \A l \in sel(x) : j <= l
      xs       == {x \in Sections(objs) : Placeable(x[1], x[2]) /\ sel(x) # {}}
      before(x, y) == \/ first(x) < first(y)
                      \/ first(x) = first(y) /\ x[1] < y[1]
                      \/ first(x) = first(y) /\ x[1] = y[1] /\ x[2] < y[2]
  IN SetToSortSeq(xs, before)

Region(name) == {plan.mems[i] : i \in plan_find(plan.mems, name)}

(* An explicit address, the origin of the region, or where we are.          *)
StartSection ==
  /\ phase = "section" /\ at <= Len(osecs)
  /\ LET o   == osecs[at]
         r   == Eval(o.vma_expr, dot)
         lo  == {m.origin : m \in Region(o.region)} \cup {dot}
         raw == IF o.vma_expr # 0 THEN Value(r) ELSE Max(lo)
     IN /\ o.vma_expr # 0 => r.v # {}
        /\ visited' = IF o.vma_expr # 0 THEN r.vis ELSE visited
        /\ dot' = align_up(raw, o.align)
        /\ osecs' = [osecs EXCEPT ![at].vma = align_up(raw, o.align)]
  /\ todo' = Placement(at) /\ phase' = "place"
  /\ UNCHANGED <<plan, objs, rsyms, at, k, scan, lto, exit, hooks, lmas, patched>>

StartFails ==
  /\ phase = "section" /\ at <= Len(osecs)
  /\ osecs[at].vma_expr # 0 /\ Eval(osecs[at].vma_expr, dot).v = {}
  /\ Fail("link")

\* Mutant: the offset inside the output section is forgotten.
ForgetfulAdvance(o, off, is) == (o.vma + is.size) % W

(* Where the next input section can begin.                                  *)
Advance(o, off, is) == (o.vma + off + is.size) % W

PlaceOne ==
  /\ phase = "place" /\ todo # <<>>
  /\ LET x   == Head(todo)
         is  == objs[x[1]].secs[x[2]]
         o   == osecs[at]
         off == align_up((W + dot - o.vma) % W, IF o.subalign # 0 THEN o.subalign ELSE is.align)
     IN /\ objs' = [objs EXCEPT ![x[1]].secs[x[2]] =
                      [@ EXCEPT !.out_sec = at, !.out_off = off, !.placed = TRUE]]
        /\ dot' = Advance(o, off, is)
  /\ todo' = Tail(todo)
  /\ UNCHANGED <<plan, osecs, rsyms, phase, at, k, scan, lto, exit, hooks, lmas,
                 visited, patched>>

(* Where a section is loaded: an expression at its address, the cursor of a *)
(* region, or its address.                                                  *)
AtCursor(o) ==
  align_up(IF o.at_region \in DOMAIN lmas THEN lmas[o.at_region]
           ELSE Max({m.origin : m \in Region(o.at_region)} \cup {0}), o.align)

Lma(o) == IF o.at_expr # 0 THEN Eval(o.at_expr, o.vma).v
          ELSE {IF o.at_region # "" THEN AtCursor(o) ELSE o.vma}

Overflows(o, size) ==
  \E m \in Region(o.region) : (o.vma + size) % W > (m.origin + m.length) % W

(* A symbol of an input gets its value once its section has a place.        *)
Refreshed(secs, n, is_at(_)) ==
  LET r == rsyms[n]
      s == objs[r.obj].syms[r.isym]
      x == objs[r.obj].secs[s.shndx]
  IN IF ~r.defined \/ r.script \/ r.obj = 0 \/ r.isym = 0 \/ r.known THEN r
     ELSE IF s.shndx = -1 THEN [r EXCEPT !.value = s.value, !.known = TRUE]
     ELSE IF s.shndx \in DOMAIN objs[r.obj].secs /\ x.out_sec # 0 /\ is_at(x.out_sec)
     THEN [r EXCEPT !.value = (secs[x.out_sec].vma + x.out_off + s.value) % W,
                    !.known = TRUE]
     ELSE r

EndSection ==
  /\ phase = "place" /\ todo = <<>>
  /\ LET o    == osecs[at]
         size == (W + dot - o.vma) % W
     IN /\ Lma(o) # {} /\ ~Overflows(o, size)
        /\ osecs' = [osecs EXCEPT ![at].size = size, ![at].lma = CHOOSE v \in Lma(o) : TRUE]
        /\ visited' = IF o.at_expr # 0 THEN Eval(o.at_expr, o.vma).vis ELSE visited
        /\ lmas' = IF o.at_expr = 0 /\ o.at_region # ""
                   THEN [m \in DOMAIN lmas \cup {o.at_region} |->
                           IF m = o.at_region THEN (AtCursor(o) + size) % W ELSE lmas[m]]
                   ELSE lmas
        /\ rsyms' = [n \in Symbol |-> Refreshed(osecs, n, LAMBDA s : s = at)]
  /\ phase' = "stmt" /\ k' = 1
  /\ UNCHANGED <<plan, objs, at, scan, lto, exit, hooks, todo, dot, patched>>

EndFails ==
  /\ phase = "place" /\ todo = <<>>
  /\ LET o == osecs[at]
     IN Lma(o) = {} \/ Overflows(o, (W + dot - o.vma) % W)
  /\ Fail("link")

SectionsEnd ==
  /\ phase = "section" /\ at > Len(osecs)
  /\ rsyms' = [n \in Symbol |-> Refreshed(osecs, n, LAMBDA s : TRUE)]
  /\ phase' = "stmt" /\ k' = 1
  /\ UNCHANGED <<plan, osecs, objs, at, scan, lto, exit, place, hooks>>

(* The statements of a section follow it, those of no section all sections. *)
(* A statement keeps the number its section had when the plan was sealed.   *)
Here(st) == st.sec = IF at > Len(osecs) THEN 0 ELSE at

(* A PROVIDE is passed over only when nothing defines its name.             *)
Skipped(st) == st.what = "sym" /\ st.provide /\ ~rsyms[st.name].defined

SkipStmt ==
  /\ phase = "stmt" /\ k <= Len(plan.stmts)
  /\ ~Here(plan.stmts[k]) \/ Skipped(plan.stmts[k])
  /\ k' = k + 1
  /\ UNCHANGED <<plan, osecs, objs, rsyms, phase, at, scan, lto, exit, place, hooks>>

RunStmt ==
  /\ phase = "stmt" /\ k <= Len(plan.stmts)
  /\ LET st == plan.stmts[k]
         r  == Eval(st.expr, dot)
     IN /\ Here(st) /\ ~Skipped(st) /\ r.v # {}
        /\ visited' = r.vis
        /\ dot' = IF st.what = "dot" THEN Value(r) ELSE dot
        /\ rsyms' = IF st.what = "dot" THEN rsyms
                    ELSE [rsyms EXCEPT ![st.name] =
                            [@ EXCEPT !.value = Value(r), !.known = TRUE,
                                      !.script = @ \/ ~rsyms[st.name].defined,
                                      !.defined = TRUE]]
  /\ k' = k + 1
  /\ UNCHANGED <<plan, osecs, objs, phase, at, scan, lto, exit, hooks, todo, lmas, patched>>

StmtFails ==
  /\ phase = "stmt" /\ k <= Len(plan.stmts)
  /\ Here(plan.stmts[k]) /\ ~Skipped(plan.stmts[k])
  /\ Eval(plan.stmts[k].expr, dot).v = {}
  /\ Fail("link")

StmtsEnd ==
  /\ phase = "stmt" /\ k > Len(plan.stmts) /\ at <= Len(osecs)
  /\ phase' = "section" /\ at' = at + 1
  /\ UNCHANGED <<plan, osecs, objs, rsyms, k, scan, lto, exit, place, hooks>>

(* Symbols without a value and sections without a place are fatal.          *)
LayoutBad ==
  \/ \E n \in Symbol : rsyms[n].defined /\ ~rsyms[n].known /\ ~rsyms[n].script
  \/ \E x \in Sections(objs) : Placeable(x[1], x[2])

LayoutEnds ==
  /\ phase = "stmt" /\ k > Len(plan.stmts) /\ at > Len(osecs) /\ ~LayoutBad
  /\ Goto("on_layout")
  /\ entry_value' = IF plan.entry \in Symbol /\ rsyms[plan.entry].known
                    THEN rsyms[plan.entry].value ELSE 0
  /\ UNCHANGED <<plan, osecs, objs, rsyms, scan, lto, place, muts, reported>>

LayoutFails ==
  /\ phase = "stmt" /\ k > Len(plan.stmts) /\ at > Len(osecs) /\ LayoutBad
  /\ Fail("link")

(***************************************************************************)
(* relocate (x86-64)                                                       *)
(***************************************************************************)
(* The bytes and the range of a relocation; in these models an address has  *)
(* Bits bits, and the narrow fields a half, a quarter and an eighth of them. *)
Howto(type) ==
  LET signed(n)   == -(2 ^ (n - 1)) .. 2 ^ (n - 1) - 1
      unsigned(n) == 0 .. 2 ^ n - 1
  IN CASE type = "64"   -> [pc |-> FALSE, width |-> 8, fits |-> unsigned(Bits)]
       [] type \in {"PC32", "PLT32"} -> [pc |-> TRUE, width |-> 4, fits |-> signed(Bits \div 2)]
       [] type = "32"   -> [pc |-> FALSE, width |-> 4, fits |-> unsigned(Bits \div 2)]
       [] type = "32S"  -> [pc |-> FALSE, width |-> 4, fits |-> signed(Bits \div 2)]
       [] type = "PC16" -> [pc |-> TRUE, width |-> 2, fits |-> signed(Bits \div 4)]
       [] type = "PC8"  -> [pc |-> TRUE, width |-> 1, fits |-> signed(Bits \div 8)]
       [] OTHER         -> [pc |-> FALSE, width |-> 0, fits |-> {}]

Signed(v) == IF v >= W \div 2 THEN v - W ELSE v

Address(x) == (osecs[objs[x[1]].secs[x[2]].out_sec].vma + objs[x[1]].secs[x[2]].out_off) % W

\* Mutant: local symbols are looked up in the table of all objects.
GlobalRsValue(i, name) ==
  LET r == rsyms[name]
  IN IF r.defined /\ r.known THEN {r.value}
     ELSE IF r.weak \/ ~r.defined THEN {0} ELSE {}

(* The object's own local symbol of that name before the resolved one.      *)
rs_value(i, name) ==
  LET own == {n \in DOMAIN objs[i].syms : /\ objs[i].syms[n].binding = "local"
                                          /\ objs[i].syms[n].name = name}
      s   == objs[i].syms[CHOOSE n \in own : \A m \in own : n <= m]
      r   == rsyms[name]
  IN IF own # {}
     THEN IF s.shndx = -1 THEN {s.value}
          ELSE IF s.shndx \in DOMAIN objs[i].secs /\ objs[i].secs[s.shndx].placed
          THEN {(Address(<<i, s.shndx>>) + s.value) % W} ELSE {}
     ELSE IF r.defined /\ r.known THEN {r.value}
     ELSE IF r.weak THEN {0} ELSE {}

(* Relocations in dead, unplaced or empty sections have no site.            *)
HasSite(i, r) ==
  /\ objs[i].kind \notin {"dso", "lto"}
  /\ r.sec \in DOMAIN objs[i].secs
  /\ LET is == objs[i].secs[r.sec] IN is.live # 0 /\ is.placed /\ is.data

(* The value to write, {} when it cannot be written.                        *)
Field64(i, r) ==
  LET h   == Howto(r.type)
      P   == (Address(<<i, r.sec>>) + r.offset) % W
      raw(S) == IF h.pc THEN (2 * W + S + r.addend - P) % W ELSE (W + S + r.addend) % W
      val(S) == IF h.pc \/ r.type = "32S" THEN Signed(raw(S)) ELSE raw(S)
      S0  == IF r.sym \in Symbol THEN rs_value(i, r.sym) ELSE {0}
  IN {val(S) : S \in {T \in S0 : /\ r.offset + h.width <= objs[i].secs[r.sec].size
                                 /\ val(T) \in h.fits}}

RelocStep ==
  /\ phase = "relocate" /\ at <= Len(objs)
  /\ IF k > Len(objs[at].relocs)
     THEN at' = at + 1 /\ k' = 1 /\ UNCHANGED patched
     ELSE LET r == objs[at].relocs[k]
          IN /\ HasSite(at, r) => Field64(at, r) # {}
             /\ patched' = IF HasSite(at, r)
                           THEN patched \cup {[obj |-> at, rel |-> k,
                                               field |-> CHOOSE v \in Field64(at, r) : TRUE]}
                           ELSE patched
             /\ k' = k + 1 /\ at' = at
  /\ UNCHANGED <<plan, osecs, objs, rsyms, phase, scan, lto, exit, hooks, todo, dot,
                 lmas, visited>>

RelocFails ==
  /\ phase = "relocate" /\ at <= Len(objs) /\ k <= Len(objs[at].relocs)
  /\ HasSite(at, objs[at].relocs[k]) /\ Field64(at, objs[at].relocs[k]) = {}
  /\ Fail("link")

RelocateEnds ==
  /\ phase = "relocate" /\ at > Len(objs)
  /\ Goto("on_emit")
  /\ UNCHANGED <<plan, osecs, objs, rsyms, scan, lto, place, hooks>>

(***************************************************************************)
(* emit                                                                    *)
(***************************************************************************)
Phnum == IF plan.reloc THEN 0 ELSE Max({1, Len(plan.phdrs)})

(* The names that the symbol table has.                                     *)
Listed == {n \in Symbol : rsyms[n].referenced \/ rsyms[n].defined}

(* The input section of a definition.                                       *)
Isec(r) ==
  {objs[r.obj].secs[s] : s \in {q \in {objs[r.obj].syms[r.isym].shndx} :
                                 r.obj # 0 /\ r.isym # 0 /\ q \in DOMAIN objs[r.obj].secs}}

Notes == SelectSeq(plan.ops, LAMBDA o : o.what = "add_note" /\ o.phase = "on_emit")

(* The file that emit_elf64 writes.  A note takes eight bytes more.         *)
Image ==
  LET lay == FileLayout(osecs, Phnum, notetotal(plan.note + 8 * Len(Notes)), Cardinality(Listed))
  IN [lay   |-> lay,
      entry |-> entry_value,
      segs  |-> [i \in 1 .. Phnum |-> Segment(osecs, lay.sec, plan.phdrs, i)],
      shdrs |-> Shdrs(osecs, lay.sec),
      syms  |-> [n \in Listed |-> [shndx |-> st_shndx(osecs, rsyms[n], Isec(rsyms[n])),
                                   value |-> IF rsyms[n].known THEN rsyms[n].value ELSE 0]]]

(* The input sections that were copied into output section o.               *)
Members(o) ==
  LET xs == SetToSortSeq({x \in Sections(objs) : LET s == objs[x[1]].secs[x[2]]
                                                 IN s.placed /\ s.out_sec = o /\ s.data},
                         LAMBDA x, y : x[1] < y[1] \/ (x[1] = y[1] /\ x[2] < y[2]))
  IN [i \in DOMAIN xs |-> LET s == objs[xs[i][1]].secs[xs[i][2]]
                          IN [id |-> xs[i], off |-> s.out_off, size |-> s.size]]

(* The image is written, or the file system refuses it.                     *)
Emit ==
  /\ phase = "emit" /\ phase' = "done"
  /\ plan.format = "elf" /\ exit' \in {"ok", "link"}
  /\ UNCHANGED <<plan, osecs, objs, rsyms, at, k, scan, lto, place, hooks>>

(* The other formats have no emitter in this build.                         *)
EmitRefuses == phase = "emit" /\ plan.format # "elf" /\ Fail("usage")

Load    == LoadInput \/ LoadFails \/ LoadEnds
Resolve == \/ MergeSym \/ MergeFails \/ MergeEnds \/ ScanStarts \/ ScanPasses
           \/ ExtractMember \/ ExtractFails \/ RoundEnds \/ ScanEnds
           \/ ApplySymbol \/ ApplyFails \/ ResolveEnds \/ ResolveFails
Dispatch == RunOp \/ OpIgnored \/ OpFails \/ DispatchEnds
Lto     == LtoSkips \/ LtoFails \/ LtoRuns
Gc      == GcSkips \/ GcSection \/ GcEnds
Layout  == \/ LayoutStarts \/ StartSection \/ StartFails \/ PlaceOne \/ EndSection
           \/ EndFails \/ SectionsEnd \/ SkipStmt \/ RunStmt \/ StmtFails \/ StmtsEnd
           \/ LayoutEnds \/ LayoutFails
Relocate == RelocStep \/ RelocFails \/ RelocateEnds

Next == Load \/ Resolve \/ Dispatch \/ Lto \/ Gc \/ Layout \/ Relocate \/ Emit \/ EmitRefuses

Spec == Init /\ [][Next]_vars /\ WF_vars(Next)

(***************************************************************************)
(* Properties                                                              *)
(***************************************************************************)
(* Types: every index of the loops and of the tables is an index of what    *)
(* it is used on, whatever the phases did to the tables.                    *)
LinkTypeOK ==
  /\ phase \in {"load", "merge", "scan", "script", "lto", "gc", "layout", "section",
                "place", "stmt", "relocate", "emit", "done"} \cup DOMAIN After
  /\ exit \in {"running", "ok", "link", "abi", "usage"}
  /\ at \in 1 .. Len(objs) + Len(osecs) + Len(plan.stmts) + Len(plan.ops) + Len(plan.inputs) + 1
  /\ dot \in 0 .. W - 1 /\ visited \subseteq DOMAIN plan.exprs
  /\ \A n \in Symbol :
       LET r == rsyms[n]
       IN /\ r.value \in 0 .. W - 1
          /\ r.obj # 0 => r.obj \in DOMAIN objs /\ r.isym \in DOMAIN objs[r.obj].syms
  /\ \A x \in Sections(objs) :
       LET s == objs[x[1]].secs[x[2]]
       IN s.placed <=> s.out_sec \in DOMAIN osecs

(* The definitions of a name in link order, and those that win.             *)
Definitions(n) ==
  {d \in UNION {{i} \X (DOMAIN objs[i].syms) : i \in DOMAIN objs} :
     LET s == objs[d[1]].syms[d[2]] IN s.name = n /\ s.binding # "local" /\ s.shndx # 0}

Strong(n) == {d \in Definitions(n) : /\ objs[d[1]].kind # "dso"
                                     /\ objs[d[1]].syms[d[2]].binding = "global"}

First(D) == CHOOSE d \in D : \A e \in D : d[1] < e[1] \/ (d[1] = e[1] /\ d[2] <= e[2])

(* merge_object and its link order: when the archives are scanned and when  *)
(* they are done, a name belongs to its only strong definition in an        *)
(* object, without one to the first definition of all, and without any to   *)
(* nobody; a member that is extracted later takes its place in this order.  *)
MergeRule ==
  phase \in {"scan", "script"} =>
    \A n \in Symbol :
      LET r == rsyms[n]
      IN ~r.script =>
           IF Strong(n) # {} THEN r.defined /\ Strong(n) = {<<r.obj, r.isym>>}
           ELSE IF Definitions(n) # {}
           THEN r.defined /\ First(Definitions(n)) = <<r.obj, r.isym>>
           ELSE ~r.defined

(* archive_scan_once: an archive is left only when no member of it defines  *)
(* a name that is referenced and undefined, unless the rounds ran out.      *)
ScanFixpoint ==
  [][ (/\ phase = "scan" /\ phase' = "scan" /\ scan.ar <= Len(objs) /\ scan'.ar > scan.ar
       /\ scan.round < ScanRounds)
      => \A i \in DOMAIN objs[scan.ar].index : ~Wanted(scan.ar, i) ]_vars

(* gc: no section that stays refers to a section that went, and a section   *)
(* that a selector keeps or that holds the entry stays.                     *)
GcClosed ==
  (plan.gc /\ phase \in {"on_gc", "layout"}) =>
    \A x \in Sections(objs) :
      LET live(y) == objs[y[1]].secs[y[2]].live = 1
          alloc(y) == objs[y[1]].secs[y[2]].alloc
      IN /\ live(x) /\ objs[x[1]].kind # "lto" =>
              \A y \in Edges(objs, x) : alloc(y) /\ objs[y[1]].kind # "lto" => live(y)
         /\ (alloc(x) /\ objs[x[1]].kind # "lto"
             /\ (Kept(x[1], x[2]) \/ (plan.entry \in Symbol /\ x \in defining_sec(objs, plan.entry))))
            => live(x)

(* layout: two input sections never share an address.  The code does not    *)
(* check addresses that a script gives, by an address of a section or by    *)
(* an assignment to the location counter: such plans are excepted.          *)
NoOverlap ==
  (/\ \A o \in DOMAIN osecs : osecs[o].vma_expr = 0
   /\ \A j \in DOMAIN plan.stmts : plan.stmts[j].what # "dot") =>
    \A x, y \in {z \in Sections(objs) : objs[z[1]].secs[z[2]].placed} :
      LET size(z) == objs[z[1]].secs[z[2]].size
      IN x # y => \/ Address(x) + size(x) <= Address(y)
                  \/ Address(y) + size(y) <= Address(x)

(* AT>: sections loaded into one region follow each other there.            *)
LoadNoOverlap ==
  \A o, q \in {z \in DOMAIN osecs : z < at /\ phase \in {"section", "place"}} :
    (o # q /\ osecs[o].at_region # "" /\ osecs[o].at_region = osecs[q].at_region
     /\ osecs[o].at_expr = 0 /\ osecs[q].at_expr = 0)
    => \/ osecs[o].lma + osecs[o].size <= osecs[q].lma
       \/ osecs[q].lma + osecs[q].size <= osecs[o].lma

(* Names that get a value otherwise; the address a name leads to.           *)
Mentioned == {Syms[i].name : i \in DOMAIN Syms}
             \cup {plan.ops[i].name : i \in {j \in DOMAIN plan.ops :
                                               plan.ops[j].what = "set_symbol"}}

Target(i, n) ==
  LET own == {j \in DOMAIN objs[i].syms : /\ objs[i].syms[j].binding = "local"
                                          /\ objs[i].syms[j].name = n}
      d   == IF own # {} THEN <<i, CHOOSE j \in own : \A l \in own : j <= l>>
             ELSE IF Strong(n) # {} THEN First(Strong(n)) ELSE First(Definitions(n))
      s   == objs[d[1]].syms[d[2]]
  IN IF s.shndx = -1 THEN s.value ELSE (Address(<<d[1], s.shndx>>) + s.value) % W

(* relocate: every relocation in a section that is in the image is written, *)
(* and leads to the definition that won in resolve, wherever layout put its *)
(* section, for every name that neither the script nor a hook or plugin     *)
(* gives a value; a local name leads into its own object.                   *)
RelocRight ==
  phase = "on_emit" /\ ~lto =>
    \A i \in {o \in DOMAIN objs : objs[o].kind = "object"} : \A j \in DOMAIN objs[i].relocs :
      LET r == objs[i].relocs[j]
          P == (Address(<<i, r.sec>>) + r.offset) % W
      IN (/\ r.sym \in Symbol \ Mentioned /\ r.sec \in DOMAIN objs[i].secs
          /\ objs[i].secs[r.sec].placed /\ objs[i].secs[r.sec].data
          /\ \/ Definitions(r.sym) # {}
             \/ \E n \in DOMAIN objs[i].syms : /\ objs[i].syms[n].name = r.sym
                                               /\ objs[i].syms[n].binding = "local")
         => \E p \in patched :
              /\ p.obj = i /\ p.rel = j
              /\ (2 * W + p.field) % W
                   = (2 * W + Target(i, r.sym) + r.addend
                      - IF Howto(r.type).pc THEN P ELSE 0) % W

(* emit_elf64: the parts of the file follow each other without overlap, and *)
(* the file is as long as its last part: no copy runs over another.         *)
ImageDisjoint ==
  exit = "ok" =>
    LET l    == Image.lay
        outs == sec_of_emit(osecs)
        part(from, size) == [from |-> from, to |-> from + size]
        parts == <<part(0, Ehsize + Phnum * Phentsize)>>
                 \o [i \in DOMAIN outs |-> part(l.sec[i], IF osecs[outs[i]].load
                                                           THEN osecs[outs[i]].size ELSE 0)]
                 \o <<part(l.note, notetotal(plan.note + 8 * Len(Notes))),
                      part(l.symtab, (Cardinality(Listed) + 1) * Symsize),
                      part(l.strtab, strtab_len(Cardinality(Listed))),
                      part(l.shstrtab, strtab_len(Len(outs) + 4)),
                      part(l.shoff, (5 + Len(outs)) * Shentsize)>>
    IN /\ \A i \in 1 .. Len(parts) - 1 : parts[i].to <= parts[i + 1].from
       /\ parts[Len(parts)].to = l.total

(* The symbol table and the section table agree: a symbol that is in a      *)
(* section lies in it, also when empty sections before it are not written   *)
(* and when hooks have reordered the sections.                              *)
SymbolsInSections ==
  exit = "ok" =>
    \A n \in Listed \ Mentioned :
      LET s == Image.syms[n]
      IN s.shndx > 0 => /\ s.shndx \in DOMAIN Image.shdrs
                        /\ s.value \in Image.shdrs[s.shndx].addr ..
                              Image.shdrs[s.shndx].addr + Image.shdrs[s.shndx].size

(* expr_eval gives an expression its meaning or nothing: a mark that was    *)
(* left behind makes evaluations fail, never wrong.                         *)
EvalSound ==
  \A e \in DOMAIN plan.exprs :
    Eval(e, dot).v # {} => Eval(e, dot).v = Meaning(Env(dot), e)

(* The text of an expression tells what it means: the plan, and through it  *)
(* the key of the link cache, carries expressions as text.  expr_equal does *)
(* too, but for the boundaries of ALIGN, which it does not compare.         *)
TextTells ==
  phase = "layout" =>
    LET x == plan.exprs
        Text[e \in DOMAIN x] == to_string(x, e)
        Means[e \in DOMAIN x] == Meaning(Env(dot), e)
    IN \A d, e \in DOMAIN x :
         /\ Text[d] = Text[e] => Means[d] = Means[e]
         /\ expr_equal(x, d, e) /\ (\A i \in Subtree(x, d) : x[i].kind # "align")
              => Text[d] = Text[e]

(* The link ends: every loop of the phases runs out.                        *)
LinkEnds == <>(phase = "done")

(* A name means one definition from resolve to relocation: the one the link *)
(* order makes win, wherever hooks, collection and layout put it.           *)
NamesSound == MergeRule /\ RelocRight

(* Layout places every section that is kept once and apart from the others, *)
(* where it runs and where it is loaded.                                    *)
LayoutSound == LinkTypeOK /\ NoOverlap /\ LoadNoOverlap

(* The parts of the image do not run over each other, and its symbols lead  *)
(* into the sections they name (ccwld_emit_elf.c).                          *)
ImageSound == ImageDisjoint /\ SymbolsInSections

(* Expressions evaluate to their meaning and print so that they can be told *)
(* apart (ccwld_expr.c).                                                    *)
ExprSound == EvalSound /\ TextTells

(* The link ends, and the archives are left only when they have nothing more *)
(* to give (ccwld_resolve.c) or the rounds ran out.                         *)
LinkProgress == ScanFixpoint /\ LinkEnds

(***************************************************************************)
(* What the documents say and the code does not do                         *)
(***************************************************************************)
(* ccwld_layout.c:184 "keeping file and virtual addresses page-congruent":  *)
(* what a loader puts at the address of an input section are the bytes of   *)
(* this section.                                                            *)
ImageLoads ==
  (exit = "ok" /\ ~plan.reloc /\ plan.phdrs = <<>>) =>
    \A x \in {y \in Sections(objs) : objs[y[1]].secs[y[2]].placed} :
      LET is   == objs[x[1]].secs[x[2]]
          at_(f) == {Byte(Image.shdrs[i].size, Members(sec_of_emit(osecs)[i]), f - Image.shdrs[i].offset) :
                       i \in {j \in DOMAIN Image.shdrs :
                                /\ ~Image.shdrs[j].nobits
                                /\ f \in Image.shdrs[j].offset ..
                                         Image.shdrs[j].offset + Image.shdrs[j].size - 1}}
      IN (is.data /\ osecs[is.out_sec].load) =>
           \A b \in 0 .. is.size - 1 :
             \E f \in MappedFrom(Image.segs, (Address(x) + b) % W) : at_(f) = {<<x, b>>}
=============================================================================
