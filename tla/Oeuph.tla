------------------------------- MODULE Oeuph -------------------------------
(***************************************************************************)
(* Oeuph: loading a ruleset (oeuph/ccw_oeuph_ruleset_load.c) and one run   *)
(* of equality saturation over the instructions of a module                *)
(* (ccw_oeuph_run in oeuph/ccw_oeuph.c); and the semantic analysis that    *)
(* only checks that its rulesets exist (oeuph/ccw_sema.c).                 *)
(*                                                                         *)
(* A step of saturation is one rule in one direction over the nodes it     *)
(* found; the steps between two of them (rebuild and budgets, extraction   *)
(* and writeback) are actions of their own.                                *)
(***************************************************************************)
EXTENDS Egraph

CONSTANTS
  Inputs,    \* [forms, program, model, nodes, classes, iterations] of a run
  SemaCalls, \* [sets, valid] of an analysis; sets: name -> rules it holds
  Meaning(_, _, _), \* Meaning(op, values, e): what an operation computes
  Envs       \* values of the registers

VARIABLES
  phase,    \* where the call is
  input,    \* what it was called with
  next,     \* the next form, instruction or ruleset
  rules,    \* the ruleset: sequence of [lhs, rhs, both], NoRules before one is declared
  program,  \* the instructions: sequence of [op, ops]
  g,        \* the e-graph of the current instruction
  iter, rule, dir, grew,
  stats,    \* [iterations, applications, saturated, hit]
  start,    \* history: g at the start of the iteration
  chosen,   \* history: the node written back last, 0 for none
  marks     \* the rulesets recorded as applied on the module

saturation == <<iter, rule, dir, grew>>

vars == <<phase, input, next, rules, program, g, saturation, stats, start, chosen, marks>>

NoRules == <<[lhs |-> <<>>, rhs |-> <<>>, both |-> FALSE]>>

Idle(p, i) ==
  /\ phase = p /\ input = i /\ next = 1 /\ rules = NoRules
  /\ g = EmptyGraph /\ iter = 0 /\ rule = 1 /\ dir = 1 /\ grew = FALSE
  /\ stats = [iterations |-> 0, applications |-> 0, saturated |-> TRUE, hit |-> ""]
  /\ start = EmptyGraph /\ chosen = 0 /\ marks = <<>>

Init ==
  \/ \E i \in Inputs : Idle("load", i) /\ program = i.program
  \/ \E i \in SemaCalls : Idle("sema", i) /\ program = <<>>

Fails == phase' = "failed" /\ UNCHANGED <<input, next, rules, program, g, saturation, stats,
                                          start, chosen, marks>>

----------------------------------------------------------------------------
(* The loader.  A form is [k |-> "ruleset"], [k |-> "rule", lhs, rhs, both, *)
(* whole] or [k |-> "other"] (another list) or [k |-> "atom"]; whole says   *)
(* that the rule has a name, a left and a right side.  Options other than   *)
(* :bidirectional are ignored, and no side condition is ever given.         *)
Form == input.forms[next]

Loads(kinds) == phase = "load" /\ next <= Len(input.forms) /\ Form.k \in kinds

Loaded(rs) ==
  /\ rules' = rs /\ next' = next + 1
  /\ UNCHANGED <<phase, input, program, g, saturation, stats, start, chosen, marks>>

LoadRuleset == Loads({"ruleset"}) /\ Loaded(IF rules = NoRules THEN <<>> ELSE rules)

LoadOther == Loads({"other"}) /\ Loaded(rules)

RuleOK == Form.whole /\ ccw_pattern_parse(Form.lhs).ok /\ ccw_pattern_parse(Form.rhs).ok

ccw_oeuph_rule_add ==
  /\ Loads({"rule"}) /\ rules # NoRules /\ RuleOK
  /\ Loaded(Append(rules, [lhs |-> ccw_pattern_parse(Form.lhs).nodes,
                           rhs |-> ccw_pattern_parse(Form.rhs).nodes, both |-> Form.both]))

LoadFails ==
  /\ Loads({"atom", "rule"})
  /\ Form.k = "rule" => rules = NoRules \/ ~RuleOK
  /\ Fails

LoadEnd ==
  /\ phase = "load" /\ next > Len(input.forms)
  /\ phase' = IF rules = NoRules THEN "failed" ELSE "import"
  /\ next' = 1
  /\ UNCHANGED <<input, rules, program, g, saturation, stats, start, chosen, marks>>

----------------------------------------------------------------------------
(* The run.  An operand is a constant or a name: a register, and just so a  *)
(* label or a function.                                                     *)
import_operand(h, opnd) ==
  eg_add_node(h, IF opnd.k = "const" THEN Const(opnd.v) ELSE RegLeaf(opnd.reg))

ImportedOps(ops) ==
  FoldLeft(LAMBDA r, o : LET one == import_operand(r.g, o)
                         IN [g |-> one.g, ch |-> Append(r.ch, one.id)],
           [g |-> EmptyGraph, ch |-> <<>>], ops)

import_instr ==
  /\ phase = "import" /\ next <= Len(program) /\ Len(program[next].ops) <= MaxChildren
  /\ LET ops == ImportedOps(program[next].ops)
     IN g' = eg_add_node(ops.g, OpNode(program[next].op, ops.ch)).g
  /\ phase' = IF input.iterations = 0 THEN "extract" ELSE "rules"
  /\ iter' = 0 /\ rule' = 1 /\ dir' = 1 /\ grew' = FALSE
  /\ start' = g' /\ stats' = [stats EXCEPT !.iterations = @ + (IF input.iterations = 0 THEN 0 ELSE 1)]
  /\ UNCHANGED <<input, next, rules, program, chosen, marks>>

SkipInstr ==
  /\ phase = "import" /\ next <= Len(program) /\ Len(program[next].ops) > MaxChildren
  /\ next' = next + 1
  /\ UNCHANGED <<phase, input, rules, program, g, saturation, stats, start, chosen, marks>>

(* The node of the instruction itself is the last one imported.             *)
Root == Count(ImportedOps(program[next].ops).g) + 1

(* One node against one pattern: match, instantiate, union.                 *)
ApplyAt(s, from, to, ni) ==
  LET m == match_node(s.g, from, 1, ni, NoBindings)
      made == instantiate(s.g, to, 1, m.b)
  IN IF ~m.ok THEN s
     ELSE IF made.id = 0 THEN [s EXCEPT !.g = made.g]
     ELSE IF eg_find(made.g, ni) = eg_find(made.g, made.id) THEN [s EXCEPT !.g = made.g]
     ELSE [g |-> eg_union(made.g, ni, made.id), n |-> s.n + 1]

Applied(h, from, to) ==
  FoldLeft(LAMBDA s, ni : ApplyAt(s, from, to, ni), [g |-> h, n |-> 0],
           [i \in 1 .. Count(h) |-> i])

\* Mutant: a rule that applied is tried again at once.
TurningApplyRule ==
  /\ phase = "rules" /\ rule <= Len(rules)
  /\ LET r == rules[rule]
         done == Applied(g, r.lhs, r.rhs)
     IN /\ g' = done.g
        /\ grew' = (grew \/ done.n > 0)
        /\ stats' = [stats EXCEPT !.applications = @ + done.n]
        /\ dir' = 1 /\ rule' = IF done.n > 0 THEN rule ELSE rule + 1
        /\ phase' = IF Overrun(done.g) THEN "undefined" ELSE "rules"
  /\ UNCHANGED <<input, next, rules, program, iter, start, chosen, marks>>

ApplyRule ==
  /\ phase = "rules" /\ rule <= Len(rules)
  /\ LET r == rules[rule]
         to == IF dir = 1 THEN r.rhs ELSE r.lhs
         done == Applied(g, IF dir = 1 THEN r.lhs ELSE r.rhs, to)
     IN /\ g' = done.g
        /\ grew' = (grew \/ done.n > 0)
        /\ stats' = [stats EXCEPT !.applications = @ + done.n]
        /\ IF dir = 1 /\ r.both THEN dir' = 2 /\ rule' = rule ELSE dir' = 1 /\ rule' = rule + 1
        /\ phase' = IF Overrun(done.g) THEN "undefined" ELSE "rules"
  /\ UNCHANGED <<input, next, rules, program, iter, start, chosen, marks>>

\* Mutant: the nodes are compared as they were before the iteration.
StaleBudget(h, late) ==
  CASE Count(start) > input.nodes -> "nodes"
    [] eg_class_count(start) > input.classes -> "classes"
    [] late -> "time"
    [] OTHER -> ""

(* The end of an iteration: congruence is restored and the budgets are      *)
(* looked at, once.  The clock may have run out at any of them.             *)
Budget(h, late) ==
  CASE Count(h) > input.nodes -> "nodes"
    [] eg_class_count(h) > input.classes -> "classes"
    [] late -> "time"
    [] OTHER -> ""

EndIteration ==
  /\ phase = "rules" /\ rule > Len(rules)
  /\ \E late \in BOOLEAN :
       LET h == eg_rebuild(g)
           hit == Budget(h, late)
           last == iter + 1 = input.iterations
           stops == hit # "" \/ ~grew \/ last
           why == IF hit = "" /\ grew /\ last THEN "iterations" ELSE hit
       IN /\ g' = h
          /\ start' = h
          /\ stats' = [stats EXCEPT !.saturated = @ /\ why = "",
                                    !.hit = IF why # "" THEN why ELSE @,
                                    !.iterations = @ + (IF stops THEN 0 ELSE 1)]
          /\ phase' = IF stops THEN "extract" ELSE "rules"
          /\ iter' = iter + 1 /\ rule' = 1 /\ dir' = 1 /\ grew' = FALSE
  /\ UNCHANGED <<input, next, rules, program, chosen, marks>>

(* The operand a child becomes: the child node itself, whatever is best in  *)
(* its class; an operation becomes the register "".                         *)
WrittenOperand(n) == IF n.k = "const" THEN [k |-> "const", v |-> n.v, reg |-> ""]
                     ELSE [k |-> "reg", v |-> 0, reg |-> n.reg]

Reads(opnd) == WrittenOperand(IF opnd.k = "const" THEN Const(opnd.v) ELSE RegLeaf(opnd.reg))

(* A leaf is not written back; an instruction that already is what was      *)
(* chosen is left as it is.                                                 *)
writeback_instr(ins, h, i) ==
  LET n == h.nodes[i]
      ops == [c \in DOMAIN n.ch |-> WrittenOperand(h.nodes[n.ch[c]])]
  IN IF n.k # "op" \/ (n.op = ins.op /\ ops = [c \in DOMAIN ins.ops |-> Reads(ins.ops[c])])
     THEN ins ELSE [op |-> n.op, ops |-> ops]

Extraction ==
  /\ phase = "extract"
  /\ LET pick == extract(g, input.model).node[eg_find(g, Root)]
     IN /\ program' = [program EXCEPT ![next] = writeback_instr(@, g, pick)]
        /\ chosen' = pick
  /\ phase' = "wrote"
  /\ UNCHANGED <<input, next, rules, g, saturation, stats, start, marks>>

NextInstr ==
  /\ phase = "wrote"
  /\ phase' = "import" /\ next' = next + 1 /\ g' = EmptyGraph /\ start' = EmptyGraph /\ chosen' = 0
  /\ UNCHANGED <<input, rules, program, saturation, stats, marks>>

RunEnd ==
  /\ phase = "import" /\ next > Len(program)
  /\ phase' = "done"
  /\ UNCHANGED <<input, next, rules, program, g, saturation, stats, start, chosen, marks>>

----------------------------------------------------------------------------
(* ccw_sema_analyze: every ruleset is looked for and recorded as applied;   *)
(* the module is validated afterwards.                                      *)
SemaRuleset ==
  /\ phase = "sema" /\ next <= Len(input.sets) /\ input.sets[next].rules > 0
  /\ marks' = Append(marks, input.sets[next].name) /\ next' = next + 1
  /\ UNCHANGED <<phase, input, rules, program, g, saturation, stats, start, chosen>>

SemaMissing ==
  phase = "sema" /\ next <= Len(input.sets) /\ input.sets[next].rules = 0 /\ Fails

SemaEnd ==
  /\ phase = "sema" /\ next > Len(input.sets)
  /\ phase' = IF input.valid THEN "done" ELSE "failed"
  /\ UNCHANGED <<input, next, rules, program, g, saturation, stats, start, chosen, marks>>

(* The caller has its result; what an overrun does is left open.            *)
Returned == phase \in {"done", "failed", "undefined"} /\ UNCHANGED vars

----------------------------------------------------------------------------
Next ==
  \/ LoadRuleset \/ LoadOther \/ ccw_oeuph_rule_add \/ LoadFails \/ LoadEnd
  \/ import_instr \/ SkipInstr \/ ApplyRule \/ EndIteration \/ Extraction \/ NextInstr \/ RunEnd
  \/ SemaRuleset \/ SemaMissing \/ SemaEnd \/ Returned

Spec == Init /\ [][Next]_vars

----------------------------------------------------------------------------
(* Types: the root of a class is never a later node than its members, and   *)
(* children are made before their parents (eg_union, eg_add_node).          *)
OeuphTypeOK ==
  /\ phase \in {"load", "import", "rules", "extract", "wrote", "sema",
                "done", "failed", "undefined"}
  /\ Len(g.cls) = Count(g)
  /\ \A i \in DOMAIN g.cls : g.cls[i] \in 1 .. i /\ g.cls[g.cls[i]] = g.cls[i]
  /\ \A i \in DOMAIN g.nodes : \A c \in DOMAIN g.nodes[i].ch : g.nodes[i].ch[c] \in 1 .. i - 1
  /\ dir \in {1, 2} /\ grew \in BOOLEAN /\ stats.saturated = (stats.hit = "")

(* After every iteration the graph is congruent: two nodes of the same      *)
(* operation on equal classes are in one class, whatever the unions of the  *)
(* iteration were (eg_rebuild).                                             *)
Congruent ==
  phase \in {"extract", "wrote"} \/ (phase = "rules" /\ rule = 1 /\ dir = 1) =>
    \A i, j \in DOMAIN g.nodes : SameNode(g, g.nodes[i], g.nodes[j]) => g.cls[i] = g.cls[j]

(* The value of the term that was extracted for a class.                    *)
RECURSIVE TermValue(_, _, _, _)
TermValue(h, best, c, e) ==
  LET n == h.nodes[best.node[c]]
  IN CASE n.k = "const" -> Meaning("iconst", <<n.v>>, e)
       [] n.k = "reg" -> e[n.reg]
       [] OTHER -> Meaning(n.op, [x \in DOMAIN n.ch |-> TermValue(h, best, eg_find(h, n.ch[x]), e)], e)

NodeValue(h, best, i, e) ==
  LET n == h.nodes[i]
  IN IF n.k = "op"
     THEN Meaning(n.op, [x \in DOMAIN n.ch |-> TermValue(h, best, eg_find(h, n.ch[x]), e)], e)
     ELSE IF n.k = "const" THEN Meaning("iconst", <<n.v>>, e) ELSE e[n.reg]

(* With rules that are equivalences, all nodes of a class have one value    *)
(* for every value of the registers: matching, instantiation, unions and    *)
(* rebuilding never put two different ones together (ccw_oeuph_run).        *)
ClassSound ==
  phase = "extract" =>
    LET best == extract(g, input.model)
    IN \A i \in DOMAIN g.nodes : \A e \in Envs :
         NodeValue(g, best, i, e) = TermValue(g, best, eg_find(g, i), e)

(* The least cost of a term of at most n levels for each class.             *)
LeastCost(h, model, n) ==
  LET level[k \in 0 .. n] ==
        IF k = 0 THEN [i \in 1 .. Count(h) |-> Inf]
        ELSE [c \in 1 .. Count(h) |->
                Min({level[k - 1][c]} \cup
                    {CostOver(h, model, level[k - 1], i) : i \in {j \in 1 .. Count(h) : eg_find(h, j) = c}})]
  IN level[n]

(* What extraction finds for a class is the cheapest of all its terms, and  *)
(* the node it chose has that cost (extract: the loop stops only when no    *)
(* node improves).                                                          *)
ExtractLeast ==
  phase = "extract" =>
    LET best == extract(g, input.model)
    IN \A c \in Classes(g) :
         /\ best.cost[c] = LeastCost(g, input.model, Count(g))[c]
         /\ best.cost[c] # Inf => CostOver(g, input.model, best.cost, best.node[c]) = best.cost[c]

(* The budgets are looked at between iterations only, so one iteration may  *)
(* pass them; no further one starts: an iteration after the first begins    *)
(* within every budget (ccw_oeuph_run, "Hitting any budget stops").         *)
BudgetStops ==
  phase = "rules" /\ iter > 0 =>
    /\ Count(start) <= input.nodes
    /\ eg_class_count(start) <= input.classes
    /\ iter < input.iterations

(* The value of an instruction, and a node whose operands are leaves.       *)
InstrValue(ins, e) ==
  Meaning(ins.op, [c \in DOMAIN ins.ops |->
                     IF ins.ops[c].k = "const" THEN Meaning("iconst", <<ins.ops[c].v>>, e)
                     ELSE e[ins.ops[c].reg]], e)

Flat(h, i) == \A c \in DOMAIN h.nodes[i].ch : h.nodes[h.nodes[i].ch[c]].k # "op"

(* An instruction is only replaced by one of the same value, if every       *)
(* operand of the chosen node is a leaf; a chosen node with an operation    *)
(* below it is written with the register "" in its place                    *)
(* (writeback_instr).                                                       *)
WritebackMeans ==
  phase = "wrote" =>
    IF Flat(g, chosen)
    THEN \A e \in Envs : InstrValue(program[next], e) = InstrValue(input.program[next], e)
    ELSE \E c \in DOMAIN program[next].ops : program[next].ops[c] = [k |-> "reg", v |-> 0, reg |-> ""]

(* The arrays are too short for the nodes exactly when there are more nodes *)
(* than the first allocation holds: the shared capacity is doubled for the  *)
(* second array although the first was not (reserve_items in eg_add_node).  *)
OverrunAt == Overrun(g) = (Count(g) > FirstCap)

(* Saturated is what stats says it is: no rule can be applied any more.     *)
SaturatedMeans ==
  phase = "extract" /\ stats.saturated /\ input.iterations > 0 =>
    \A r \in DOMAIN rules :
      /\ Applied(g, rules[r].lhs, rules[r].rhs).n = 0
      /\ rules[r].both => Applied(g, rules[r].rhs, rules[r].lhs).n = 0

(* The tree a parsed pattern stands for.                                    *)
RECURSIVE Tree(_, _)
Tree(pat, i) ==
  [kind |-> pat[i].kind, text |-> pat[i].text, value |-> pat[i].value,
   ch |-> [c \in DOMAIN pat[i].ch |-> Tree(pat, pat[i].ch[c])]]

RECURSIVE TreeOf(_)
TreeOf(src) ==
  LET T(kind, text, value, ch) == [kind |-> kind, text |-> text, value |-> value, ch |-> ch]
      A(s) == CASE s.c = "var" -> T("var", s.s, 0, <<>>) [] s.c = "int" -> T("const", "", s.v, <<>>)
                [] OTHER -> T("op", s.s, 0, <<>>)
  IN IF src.t = "atom" THEN A(src)
     ELSE IF src.items[1].s = "iconst"
     THEN IF src.items[2].c = "var" THEN T("const_var", src.items[2].s, 0, <<>>)
          ELSE T("const", "", src.items[2].v, <<>>)
     ELSE T("op", src.items[1].s, 0, [i \in 1 .. Len(src.items) - 1 |-> TreeOf(src.items[i + 1])])

(* A rule that was added has the trees its form was written with: the       *)
(* numbering of the nodes loses nothing (parse_list fills in the children   *)
(* of a node that was allocated before them).                               *)
RulesParsed ==
  phase = "load" /\ rules # NoRules /\ rules # <<>> =>
    \A f \in DOMAIN input.forms :
      f < next /\ input.forms[f].k = "rule" =>
        \E r \in DOMAIN rules : /\ Tree(rules[r].lhs, 1) = TreeOf(input.forms[f].lhs)
                                /\ Tree(rules[r].rhs, 1) = TreeOf(input.forms[f].rhs)

(* The marks of an analysis are those of the rulesets before the first one  *)
(* that is missing: a failed analysis leaves them on the module             *)
(* (ccw_sema_analyze).                                                      *)
SemaMarks ==
  phase \in {"done", "failed"} /\ "sets" \in DOMAIN input =>
    LET missing == {i \in DOMAIN input.sets : input.sets[i].rules = 0}
        n == IF missing = {} THEN Len(input.sets) ELSE Min(missing) - 1
    IN /\ marks = [i \in 1 .. n |-> input.sets[i].name]
       /\ phase = "done" => missing = {} /\ input.valid

(* A bound on the steps that are left.                                      *)
Rank ==
  LET width == 2 * Len(input.forms) + 2
      W == input.iterations * width + 4
      Left == Len(program) - next + 1
  IN CASE phase = "load" -> Len(program) * W + 3 + Len(input.forms) - next
       [] phase = "import" -> Left * W + 1
       [] phase = "rules" ->
            (Left - 1) * W + 3 + (input.iterations - iter) * width - (2 * (rule - 1) + dir)
       [] phase = "extract" -> (Left - 1) * W + 3
       [] phase = "wrote" -> (Left - 1) * W + 2
       [] phase = "sema" -> Len(input.sets) - next + 2
       [] OTHER -> 0

(* The call returns for every ruleset, also one that never saturates: every *)
(* step brings the end nearer (with no state in which nothing can be done,  *)
(* which is checked as deadlock).                                           *)
OeuphEnds == [][Rank' < Rank /\ Rank' >= 0]_vars

(* The e-graph is sound and closed under congruence after every iteration,  *)
(* and its arrays hold it exactly until the first allocation is full.       *)
GraphSound == OeuphTypeOK /\ Congruent /\ ClassSound /\ OverrunAt

(* What is chosen for an instruction costs least, and what is written back  *)
(* in its place computes the same (extract, writeback_instr).               *)
ResultSound == ExtractLeast /\ WritebackMeans

(* What callers are told is so: rules loaded as they were written, why a    *)
(* run stopped, which analyses were made.                                   *)
ReportSound == BudgetStops /\ SaturatedMeans /\ RulesParsed /\ SemaMarks

=============================================================================
