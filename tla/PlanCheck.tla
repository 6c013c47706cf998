----------------------------- MODULE PlanCheck -----------------------------
(***************************************************************************)
(* What surrounds the Sched stage in src/sched/sched.c: how the manifests  *)
(* are read, and ccw_plan_check, which compares a plan with the manifests  *)
(* that are in force now.                                                  *)
(*                                                                         *)
(* A line of a manifest is [t, v]: "path" (- path: v), "name" (name: v),   *)
(* "caps" (capabilities:), "item" (- v), "other", or "blank", which is an  *)
(* empty line or a comment.  No value has a comma or is empty, but for the *)
(* value Unclean.                                                          *)
(***************************************************************************)
EXTENDS Pipeline

CONSTANTS
  Echo,           \* word -> the words that follow its first occurrence in
                  \* "node <id> <kind> ", for the words that occur there
  Unclean,        \* a name that clean_scalar refuses
  ManifestFiles   \* the files whose reading is checked

ASSUME EchoAssumption == \A w \in DOMAIN Echo : Echo[w] \in Seq(STRING)

ASSUME FilesAssumption ==
  \A f \in ManifestFiles :
    /\ Len(f) \in Nat /\ DOMAIN f = 1..Len(f)
    /\ \A i \in DOMAIN f : /\ f[i].t \in {"path", "name", "caps", "item", "other", "blank"}
                           /\ f[i].t = "name" => f[i].v # <<>>

NoKernel == [path |-> FALSE, name |-> <<>>, caps |-> <<>>]

\* A kernel that has no name yet stays pending, with the capabilities it has.
finish_kernel(r) ==
  IF r.cur.name = <<>> THEN r
  ELSE IF ~r.cur.path \/ r.cur.name = Unclean THEN [r EXCEPT !.ok = FALSE]
  ELSE [r EXCEPT !.cur = NoKernel,
                 !.kernels = Append(@, [name |-> r.cur.name, caps |-> r.cur.caps])]

KernelLine(r, l) ==
  IF ~r.ok THEN r
  ELSE CASE l.t = "path" -> [finish_kernel(r) EXCEPT !.cur.path = TRUE, !.in_caps = FALSE]
         [] l.t = "name" /\ r.cur.path -> [r EXCEPT !.cur.name = l.v]
         [] l.t = "caps" /\ r.cur.path -> [r EXCEPT !.in_caps = TRUE]
         [] l.t = "item" /\ r.in_caps -> [r EXCEPT !.cur.caps = Append(@, l.v)]
         [] l.t = "blank" -> r
         [] OTHER -> [r EXCEPT !.in_caps = FALSE]

NoneRead == [kernels |-> <<>>, cur |-> NoKernel, in_caps |-> FALSE, ok |-> TRUE]

\* Mutant: a new entry forgets the one that is pending.
DroppingLoadKernels(lines) ==
  LET line(r, l) == IF l.t = "path" /\ r.cur.name = <<>>
                    THEN KernelLine([r EXCEPT !.cur = NoKernel], l) ELSE KernelLine(r, l)
      upto[i \in 0..Len(lines)] == IF i = 0 THEN NoneRead ELSE line(upto[i - 1], lines[i])
      r == finish_kernel(upto[Len(lines)])
  IN [ok |-> r.ok /\ r.kernels # <<>>, kernels |-> r.kernels]

load_kernels(lines) ==
  LET upto[i \in 0..Len(lines)] ==
        IF i = 0 THEN NoneRead ELSE KernelLine(upto[i - 1], lines[i])
      r == finish_kernel(upto[Len(lines)])
  IN [ok |-> r.ok /\ r.kernels # <<>>, kernels |-> r.kernels]

\* A name takes the path before it: a second name of an entry is refused.  The name of
\* a ruleset is one word.
RuleLine(r, l) ==
  IF ~r.ok THEN r
  ELSE CASE l.t = "path" -> [r EXCEPT !.path = TRUE]
         [] l.t = "name" -> IF ~r.path \/ l.v = Unclean THEN [r EXCEPT !.ok = FALSE]
                            ELSE [r EXCEPT !.path = FALSE, !.rules = Append(@, Head(l.v))]
         [] OTHER -> r

load_rules(lines) ==
  LET upto[i \in 0..Len(lines)] ==
        IF i = 0 THEN [rules |-> <<>>, path |-> FALSE, ok |-> TRUE]
        ELSE RuleLine(upto[i - 1], lines[i])
      r == upto[Len(lines)]
  IN [ok |-> r.ok /\ r.rules # <<>>, rules |-> r.rules]

\* The indexes ccw_sched_new builds: a name that is there twice means the first.
Indexed(kernels, rules) ==
  LET first(nm) == kernels[SelectInSeq(kernels, LAMBDA k : k.name = nm)]
  IN [kernels |-> {kernels[i].name : i \in DOMAIN kernels},
      rules   |-> ToSet(rules),
      caps    |-> [nm \in {kernels[i].name : i \in DOMAIN kernels} |->
                     ToSet(first(nm).caps)]]

\* The members of a line are what follows the first place where its name stands.
Seen(words) ==
  IF Head(words) \in DOMAIN Echo THEN Echo[Head(words)] \o words ELSE Tail(words)

\* Mutant: the rulesets of a rewrite are not looked up.
LenientPlanCheck(t, known) ==
  \A i \in DOMAIN t.lines :
    LET nm == <<Head(t.lines[i].words)>>
    IN t.lines[i].kind = "kernel" =>
         nm \in known.kernels /\ ToSet(Seen(t.lines[i].words)) \subseteq known.caps[nm]

ccw_plan_check(t, known) ==
  \A i \in DOMAIN t.lines :
    LET nm   == <<Head(t.lines[i].words)>>
        seen == ToSet(Seen(t.lines[i].words))
    IN CASE t.lines[i].kind = "kernel"  -> nm \in known.kernels /\ seen \subseteq known.caps[nm]
         [] t.lines[i].kind = "rewrite" -> seen \subseteq known.rules
         [] OTHER -> TRUE

(***************************************************************************)
(* Properties.                                                             *)
(***************************************************************************)
\* SCHED.md: "Plans are invalidated by manifest drift, not silently re-resolved."
\* When an execution stops because a kernel or ruleset of the plan is gone
\* (find_node_rule, kernel_by_name), ccw_plan_check against the same manifests
\* refuses the plan.
DriftCaught == why = "absent" => ~ccw_plan_check(text, manifest)

\* The words that the check takes for members of node n because its name stands in the
\* line before its place (strstr).
Stray(n) ==
  IF n.name[1] \in DOMAIN Echo THEN ToSet(Echo[n.name[1]]) \cup {n.name[1]} ELSE {}

\* The check refuses a plan that was sealed with the manifests in force, and whose
\* kernels have names without blanks, for two reasons that are no drift: a stray word
\* that is no member of anything, or two kernels have the name and the later one was
\* preferred (ccw_sched_require_capability takes the last, kernel_by_name the first).
OwnPlanChecks ==
  text # NoPlan /\ (\A i \in DOMAIN nodes : nodes[i].kind = "kernel" => Len(nodes[i].name) = 1) =>
    (ccw_plan_check(text, Indexed(KernelManifest, Rulesets)) <=>
       \A i \in DOMAIN nodes :
         LET same == {k \in DOMAIN KernelManifest : KernelManifest[k].name = nodes[i].name}
         IN /\ nodes[i].kind = "rewrite" => Stray(nodes[i]) \subseteq ToSet(Rulesets)
            /\ nodes[i].kind = "kernel" =>
                 \A k \in same : (\A j \in same : k <= j) =>
                   Stray(nodes[i]) \cup ToSet(nodes[i].members) \subseteq
                     ToSet(KernelManifest[k].caps))

\* Where the entries of a file begin, the lines of one, and those that name it.
Starts(f) == {i \in DOMAIN f : f[i].t = "path"}
EntryLines(f, s) == {i \in s..Len(f) : \A h \in s + 1..i : f[h].t # "path"}
NameLines(f, s) == {i \in EntryLines(f, s) : f[i].t = "name"}
Named(f) == {s \in Starts(f) : NameLines(f, s) # {}}

\* The line whose name an entry has: the last one.
LastName(f, s) == {i \in NameLines(f, s) : \A j \in NameLines(f, s) : j <= i}

\* Its lines that name a capability.
CapLines(f, s) ==
  {i \in EntryLines(f, s) : /\ f[i].t = "item"
                            /\ \E h \in s..i : f[h].t = "caps" /\ \A j \in h..i : f[j].t # "other"}

\* The entries that make up the kernel whose name stands in entry s: that one and those
\* right before it that have no name.
PartsOf(f, s) == {p \in Starts(f) : p <= s /\ \A q \in Named(f) : ~(p <= q /\ q < s)}

\* Kernel.yaml (load_kernels): a file is read when it names a kernel and every name that
\* counts is clean, and then there is one kernel for every entry with a name, in their
\* order, with the capabilities of the entries that are its parts.
KernelsRead ==
  \A f \in ManifestFiles :
    LET r == load_kernels(f)
        place(s) == Cardinality({q \in Named(f) : q <= s})
    IN /\ r.ok <=> /\ Named(f) # {}
                   /\ \A s \in Named(f) : \A i \in LastName(f, s) : f[i].v # Unclean
       /\ r.ok => /\ Len(r.kernels) = Cardinality(Named(f))
                  /\ \A s \in Named(f) :
                       /\ \A i \in LastName(f, s) : r.kernels[place(s)].name = f[i].v
                       /\ ToSet(r.kernels[place(s)].caps)
                            = {f[c].v : c \in UNION {CapLines(f, p) : p \in PartsOf(f, s)}}

\* Stdrewrite.yaml (load_rules): a file is read when every name is clean and has an
\* entry of its own, and then no ruleset of it is lost.
RulesRead ==
  \A f \in ManifestFiles :
    LET r == load_rules(f)
        names == {i \in DOMAIN f : f[i].t = "name"}
        own(i) == \E s \in Starts(f) : s < i /\ \A j \in names : ~(s < j /\ j < i)
    IN /\ r.ok <=> names # {} /\ \A i \in names : f[i].v # Unclean /\ own(i)
       /\ r.ok => /\ Len(r.rules) = Cardinality(names)
                  /\ \A i \in names : r.rules[Cardinality({j \in names : j <= i})] = Head(f[i].v)

\* ccw_plan_check refuses when the manifests drifted so that an execution would stop,
\* and otherwise only for the two reasons that are no drift.
CheckVerdict == DriftCaught /\ OwnPlanChecks

\* A scheduler is made of manifests that say, entry by entry, what was written to them
\* (load_kernels and load_rules, which ccw_sched_new calls before a script makes its
\* first call).
ManifestsRead == nodes = <<>> /\ text = NoPlan => KernelsRead /\ RulesRead

=============================================================================
