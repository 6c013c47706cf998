# A TLA+ model of CCWeave

CCWeave is a compiler toolkit in C. Front ends build **Weave IR** modules;
**kernels** (R7RS Scheme) analyse and edit them through the **Glue** accessors
of an executor; **Oeuph** rewrites them with e-graphs; **Sched** (Lua scripts)
says which kernels and rulesets run in which order. Compilers (Cephyr, Delphia),
interpreters (Moonix, SML-Parthia) and a toolchain (CCWas, CCWld, CCWmk) are
built on top. No part of the code outside `third_party/` starts a thread. What is
hard here is *long sequences of legal calls*: vectors that change under the index
that walks them, artifacts (a plan, an object file, an image) that are computed in
one place and used in others, scripts that call builders in any order, failures in
the middle. Processes do meet in one place, the linker's cache directory.

The project models the middle of the toolkit (the IR and its edits, the executor
and its accessors, the CFG kernels, Oeuph, plans from script to execution) and the
path from assembly text to an executable (CCWas, CCWld and its cache).

## 1. Inventory

| Part | State | Operations | Interacts with | What makes it correct |
|---|---|---|---|---|
| Weave IR (`ir/ccw_ir.c`) | node table, child vectors, `attached`, function list | build, append, replace, insert before, delete, block delete, block merge, CFG queries | kernels (through Glue), Oeuph, parser, validator | every node has one owner; ids never come back; edits lose no edge; every call returns |
| Validator (`ccw_ir_validate.c`) | none | one check | host, before and after kernels | accepts what the rest of the code can handle |
| Parser, printer (`ccw_ir_parse.c`, `ccw_ir_print.c`) | none | text to table and back | hosts | round trip |
| CFG kernels (`kernels/block-merge.scm`, `cfg-canonicalize.scm`, `unreachable-elim.scm`) | loop indices, a set of reachable blocks | `kernel-apply` | Weave IR | they end, do what their description says, leave a valid module |
| Other kernels (`kernels/`) | facts, attributes | `kernel-apply` | Weave IR | the same |
| Glue (`glue/`), S7 executor (`executors/s7`) | bindings, kernel slots, libraries, `current_ir`, edit hook | bind, load, unload, apply, accessors | Weave IR, kernels, host | an edit the host refuses has no effect; accessors work on the module of the innermost application; ids and bindings stay |
| Oeuph (`oeuph/`) | e-nodes, classes, rules, budgets | load, match, union, rebuild, extract, write back, analyse | Weave IR, rulesets | equivalence; least cost; budgets; an end |
| Sched builder (`sched/sched.c`) | nodes, edges, sealed flag, manifest indexes | require, probe, rewrite, edge, barrier, seal | Lua front end, manifests | barriers order everything; only partial orders are sealed; the text says what was built |
| Manifests and plan checker (`sched/sched.c`) | pending entry | load, check | builder, execution | drift is caught; entries are read as written |
| Plan execution (`sched/sched.c`) | `done[]`, position in a node | apply rewrites, apply kernels | Oeuph, executor, manifests | the order of the edges, each node once, nothing after a failure, an end |
| Cephyr's Sched stage (`compilers/cephyr/driver/cephyr_driver.c`) | one plan | run script, apply rewrites, apply kernels | all of the above | the same, over both passes |
| Sched Lua front end (`sched/sched_lua.c`), `ccw-sched` | a scheduler per userdata | method calls, check, hash | builder | arguments arrive as they were given |
| CCWas (`toolchain/ccwas`) | template buffer, sections, symbols, relocations | expand, parse, encode, write ELF | CCWld | labels and relocations point where they should; parts of the object are disjoint; bytes decode to what was written |
| CCWld script and plan (`ccwld/lccwld`, `plan`, `expr`) | plan, context stacks, hooks, statements | script functions, seal | phases | scopes end; a sealed plan is fixed |
| CCWld phases (`ccwld/phases`, `ccwld.c`) | objects, resolved symbols, output sections | load, resolve, LTO, collect, layout, relocate, hooks | plan, plugins, writer | one definition wins; what is referenced stays; no overlap; relocations lead to the winner |
| CCWld writer (`ccwld/emit`) | image | emit | phases | headers describe the bytes |
| CCWld cache (`ccwld/cache`) | directory of images | key, lookup, store | other links | entries are complete and belong to their key |
| CCWmk (`toolchain/ccwmk`) | build graph | make | | targets built after their inputs |
| Moonix, SML-Parthia (`interpreters/`) | tiers, environments | run | Sched, IR | a tier changes nothing observable |
| Cephyr, Delphia front ends (`compilers/`), FrontMX, standard library, manifest tools | | | | outside this model |

`PROJECT.json` lists the same parts with their status, and under `hazards` the
places where the code can go wrong in a way that a test hardly reaches.

## 2. Modules

| Module | Models | Role |
|---|---|---|
| `WeaveIR` | `ir/ccw_ir.c`, structural rules of `ccw_ir_validate.c` | component |
| `CfgKernels` | the three CFG kernels, `ccw_ir_parse` | composes kernels with `WeaveIR` |
| `Executor` | `executors/s7`, `glue/ccw_host_accessors.c` | composes executor, Glue and `WeaveIR` |
| `Egraph`, `Oeuph` | `oeuph/` | pure part, and the run |
| `Sched` | the plan builder, the text of a plan, `parse_plan_text` | component |
| `PlanOrder` | section 6 of `.agents/SCHED.md` | abstract specification |
| `PlanRun` | the two functions that execute a plan | component, implements `PlanOrder` twice |
| `Pipeline` | `run_sched_plan` of the Cephyr driver | composes `Sched` and `PlanRun` |
| `PlanCheck` | manifest readers, `ccw_plan_check` | composes with `Pipeline` |
| `LdPlan`, `Lccwld` | `ccwld/plan`, `ccwld/lccwld` | plan as a value, the script |
| `LdExpr`, `LdImage`, `Ccwld` | `ccwld/expr`, `emit`, `phases`, `ccwld.c` | pure parts, and the link |
| `LinkCache` | `ccwld/cache`, its use in `ccwld_link_run` | component, several processes |
| `AsmExpr`, `AsmOperand`, `AsmEncode`, `Ccwas`, `AsmCheck` | `ccwas/sema`, `parse`, `encode`, `lccwas`, `obj` | pure parts, the assembler, their references |
| `Selection` | copying loops with a condition | used by `Ccwas`, `Ccwld` and `Lccwld` |
| `SequenceLemmas`, `WeaveIRProofs`, `CfgKernelsProofs`, `ExecutorProofs`, `PipelineProofs` (also of `Sched` and `PlanRun`), `DriverProofs` (of `Lccwld` and `LinkCache`), `CcwasProofs`, `CcwldProofs` | | theorems |
| `MC*` | | instances for TLC |

Definitions whose comment begins with *Mutant* are deliberate faults. No
specification uses them; each is the form of one definition under which one
property fails, which shows that the property depends on that code.

### WeaveIR

An id indexes the fields of `ccw_ir_node`; one function per field (`kind`,
`parent`, `children`, `opcode`, `operands`, `name`), the set `attached` for the
flag. `kind = "dead"` is `CCW_NODE_DEAD`, also for ids not handed out. Every
exported operation that changes the structure is an action with its guards as
conjuncts; a call that returns an error and changes nothing is no step. A failed
`ccw_ir_build_*` *is* a step: it leaves an instruction that no block lists.
Operands are reduced to the block name they carry, because the control flow
graph (`Targets`) is computed from names on every query, as in the code. A call
that never returns sets `call` to `"hung"`. Types, attributes, parameters and
constants are left out. `Valid` has the structural rules of the validator.

### CfgKernels

A step is one turn of the inner loop of a kernel, with all accessor calls it
makes. `i`, `fi`, `reachable` are the Scheme variables; nothing else runs in
between, so what can go stale is what a turn carries over to the next: the index
into a vector that has shrunk, and the set computed before the first deletion.
`Parsed` is the table that the parser builds, ids in its order. A kernel may
start on a module that the validator would refuse (a block without predecessors,
which unreachable-elim is there to delete): `accepted` remembers which. `JumpsLast`
says of the programs that only the last instruction of a block names blocks; it is
a hypothesis of two theorems and no assumption of the module.

### Executor

`kernels` are the slots of the executor with the capability list that the host
saw, `libs` what Scheme has under each library name now, `frames` the
applications in progress. Host code runs outside any application, or inside an
accessor or the edit hook, so applications nest. An accessor is an operation of
`WeaveIR` behind its argument checks and the hook; a call that fails raises and
changes nothing, and the kernel goes on or its application ends with an error.
An index is an `int` of `IntRange` values, cut as `arg_index` cuts it.

### Egraph, Oeuph

`Egraph` has the union-find forest as the root of each node, patterns, matching,
instantiation, extraction and the pattern parser, as recursive operators over
values; `Oeuph` loads a ruleset form by form, imports an instruction, applies one
rule in one direction per step, rebuilds and looks at the budgets at the end of an
iteration, extracts, and writes back. The clock may run out at the end of any
iteration. What an operation means is a parameter (`Meaning`); the instance has
arithmetic of three bits, so that classes can be compared by value.

### Sched, PlanOrder, PlanRun, Pipeline, PlanCheck

`Sched` is a script: any sequence of builder calls. Names are sequences of their
blank separated words, since the text of a plan is split at blanks. `Wildcard` is
the relation that `wildcard()` computes, a constant here. `Acyclic` takes one
free node per round as `acyclic` does; its counters are the number of edges from
nodes that are left. `PlanRun` has one action for every way a turn of the loop
can go, and an action for the return of each function. The manifests are chosen
anew by each pass, because each reads the files again. `Pipeline` lets a script
run, reads the text back, and executes it. `PlanCheck` adds the readers of
`Kernel.yaml` and `Stdrewrite.yaml`, line by line, and the checker, with
`Echo` for where a name is found inside the line before its place.

`PlanOrder` says that nodes are finished one at a time, after their predecessors.
`RewritePass` and `KernelPass` instantiate it with `done["rewrite"]` and
`done["kernel"]`.

### LdPlan, Lccwld

A builder of the plan takes a plan and returns the set of the plans it may leave,
empty when it refuses. `Lccwld` is the driver, then a script that makes any calls
of a given set, nested in `as_needed`, `include` and `pcall`; an error unwinds to
the nearest `pcall` and keeps what was done. After the seal, hooks may still call.
The path of a script is the sequence of the names between its slashes, as it was
spelled, and `File` has the paths that open: `include` resolves a path against the
including script and the search paths (`Beside`, `Candidate`) and looks for cycles
among spellings, as the code does. A search path is one name.

### LdExpr, Ccwld, LdImage

The nodes of all expressions are one table, because the cycle marks of the
evaluator are on the nodes and shared. A step of `Ccwld` is one turn of the loop
of a phase: an input loaded, an object merged, an archive scanned, a section
marked, an output section laid out with its statements, an object relocated; plugins
and hooks come between the phases and change the tables. An address is `Bits`
wide. `LdImage` computes the image from the tables: which sections are written,
offsets, headers, symbols, segments.

### LinkCache

Processes link the same plan into outputs of their own, with files rebuilt under
them and kills at any step. The bytes of a file are `"open"` from when it is
truncated until its writer closes it (a writer that is killed or fails leaves it so),
then `"all"`, or `"short"` after one of the losses that the code does not ask about:
the `fclose` of the output (`ccwld_emit_object`) and a read error of `copy_file`
(`Restored`, `StoreCopy`). A file that is missing, or whose read ends early, is hashed
as `Unread`. `moved` remembers that a keyed file changed between hash and load, `raced`
the entries stored by such links, `unnoticed` that bytes were lost; none influences a
step. The mode of files is left out.

### AsmExpr, AsmOperand, AsmEncode, Ccwas, AsmCheck

The first three are the parsers over tokens and the encoder, as operators that
return what the code returns. `Ccwas` takes the source line by line: templates
first, with includes, then statements that switch sections, define symbols, emit
bytes and relocations, then the ELF writer. `AsmCheck` holds the references: a
decoder of machine code, sums of memory operands, expression trees.

## 3. Runs

A property that is a conjunction of named parts is listed with its parts.

| Run | Instance | Checks | Result |
|---|---|---|---|
| `ir_table` | 5 nodes, one name, `br` and `add` | `TableSound` (`TypeOK`, `Ownership`), `DeadForever`, `EdgesSurvive` | holds, 1.09 M states |
| `cfg_kernels` | every program of 3 blocks over the kinds of blocks, chains and loops of 4, functions of one block; one name contains `.merge` | `KernelResults` (`NoChainLeft`, `OnlyLoopsStay`, `ReachNotStale`), `CommitValid`, `KernelReturns` | holds, 15 k states |
| `executor` | 4 kernel files (one raises, one lacks an export, two of one name), 2 modules, 8 nodes, depth 2 | `FramesSound` (`CurrentIrScope`, `RunsListed`, `RunsExported`), `SlotsSound` (`ExecTypeOK`, `WalkComplete`), `IsolatedIR`, `HandlesKept` (`BindingsFrozen`, `IdsStable`), `RefusalHolds` | holds, 799 k states |
| `oeuph` | 8 rulesets over 5 programs, two cost models, budgets that bite and that do not; 10 malformed files; analyses of up to 3 rulesets | `GraphSound` (`OeuphTypeOK`, `Congruent`, `ClassSound`, `OverrunAt`), `ResultSound` (`ExtractLeast`, `WritebackMeans`), `ReportSound` (`BudgetStops`, `SaturatedMeans`, `RulesParsed`, `SemaMarks`), `OeuphEnds` | holds; no deadlock |
| `pipeline` | scripts of 3 nodes, seal, check, execution, 3 manifests; all manifest files of 5 lines | `PlanSound` (`SchedTypeOK`, `BarriersComplete`, `SealedIsOrder`, `SealedParses`, `RoundTrip`), `BarrierRespected`, `SealedNeverStuck`, `CheckVerdict` (`DriftCaught`, `OwnPlanChecks`), `ManifestsRead` (`KernelsRead`, `RulesRead`) | holds, 416 k states |
| `plan_run` | all plans of 3 nodes, cyclic ones too | `OrderInPass`, `FinishedRun` (`RunTypeOK`, `AllApplied`, `Deterministic`), `PassesAreOrders` (both refinements of `PlanOrder`), `RunEnds` | holds, 52 k states |
| `lccwld` | 6 command lines, scripts of up to 4 calls of every function, 3 files at 5 paths, with and without a search path | `ScriptSound` (`LccwldTypeOK`, `AsNeededScope`, `SealFrozen`, `IncludeSane`, `GensymFresh`), `CallsKept` (`StmtsOnce`, `SelectorsAtLast`, `PendingOnce`) | holds, 93 k states |
| `ccwld` | 16 input lists over 8 files (objects, archives, a shared object, LTO, a bad one), 6 layouts, 4 scripts, plugins and hooks | `NamesSound` (`MergeRule`, `RelocRight`), `GcClosed`, `LayoutSound` (`LinkTypeOK`, `NoOverlap`, `LoadNoOverlap`), `ImageSound` (`ImageDisjoint`, `SymbolsInSections`), `ExprSound` (`EvalSound`, `TextTells`), `LinkProgress` (`ScanFixpoint`, `LinkEnds`) | holds, 28 k states |
| `link_cache` | 2 processes, of which one runs again, one file in the key and one found by search, one rebuild of each | `CacheSound` (`CacheTypeOK`, `EntryWhole`, `EntryKeyed`), `DoneWhole`, `LinksEnd` | holds, 1.24 M states |
| `ccwas` | sources of 3 pieces out of 22 kinds of line, 2 targets; instructions over 5 registers with all operand shapes, memory operands of up to 3 terms, expressions of up to 4 tokens | `ObjectSound` (`CcwasTypeOK`, `LabelsInside`, `LocalsFirst`, `PartsDisjoint`, `BranchPatch`, `CallVisible`), `SymbolsKept` (`DefinedOnce`, `GlobalKept`), `EncodeDecodes`, `TextMeans` (`MemSum`, `ReadersAgree`, `ExprTree`), `AssemblyEnds` | holds, 457 k states |
| `merge_hang` | block-merge, 2 blocks | `NeverHangs` | violated |
| `image_loads` | as `ccwld` | `ImageLoads` | violated |

**What the violated ones show.**

* `merge_hang`: `^b: add; br ^b` has one successor with one predecessor, so
  `block-merge.scm` merges it with itself, and `ccw_ir_block_merge` appends to
  the vector it walks. With the jump alone in the block, the same call deletes
  the block, and a function without blocks is left.
* `image_loads`: layout packs output sections in memory, the writer packs them in
  the file with other gaps, and the default segment maps the file from offset 0 at
  the address that is right for its first section; the data of a later section is
  then loaded from the bytes of something else.

**What some properties except.** A property that the code meets only with
exceptions names them in its definition, so that nothing else can go wrong
unnoticed: `OwnPlanChecks` (a plan refused although nothing drifted), `NoOverlap`
(addresses given by the script), `RelocRight` (names a script or hook gives a
value), `EncodeDecodes` (the forms listed as miscoded in `AsmCheck`), `MemSum`,
`ReadersAgree`, `WritebackMeans` (nested results), `SealedParses` (one-word names),
`OnlyLoopsStay` (unreachable circles), `CommitValid` (a function that block-merge
empties), `EdgesSurvive` (an empty swallowed block), `EntryKeyed` (the race, and
files not read for the key), `EntryWhole` and `DoneWhole` (bytes may be missing after a
loss that nobody noticed, and only then; a file that was never written to its end is
no entry and no output of a success), `IncludeSane` (about spellings of paths).
`OverrunAt` states exactly when something that should not happen does.

**Bounds.** Five nodes are the least in which a merge moves an instruction (a
function, two blocks, a jump and what it leads to). The kernel runs, whose tables
have up to 13 nodes, and the proofs, which have no bound, cover longer moves. Three
blocks have every relation between the block in hand, its successor and a third
(before, between, after in the vector); the longer chains let two merges meet.
Three plan nodes have a barrier with work on both sides, every cycle up to length
three, and an edge over a barrier. Two kernels, two nested applications and two
modules let a stale slot, handle or library be met; an index is cut to one of
`IntRange = 16` values, which no vector of the instance is long enough to tell from
an index out of range. Two links are enough for a race, since a link only meets the
cache directory, the third may find what the two have stored, and the proof has any
number. The linker's instance has a name
with a strong, a weak and an archive definition, a local that hides it, a member
that needs another member before it in the archive, and every kind of section
placement; three pieces of source let a label, its use and its declaration come in
every order. `FirstCap`, `MaxPatNodes`, `MaxChildren`, `MaxInclude`, `MaxHooks`,
`ScanRounds`, `MaxShNames` and `MaxDepth` are limits of the code, made small so
that they are reached; `MaxNodes`, `MaxOperands`, `BlockWidth`, `MaxPlan`,
`MaxCalls`, `MaxKernels`, `MaxPieces`, `MaxVersion` and `MaxRuns` bound what the
code leaves to memory or to its callers. `Bits = 20` holds every address of the
instance.

**Deadlock** is checked in `oeuph`. Elsewhere a script, a kernel, a link and a
host really stop, so it is not.

**Fairness.** `KSpec`, `RSpec` and the specifications of `Ccwld` and `Ccwas` assume
weak fairness of the whole next-state relation: the code is sequential, so a call
that was made continues until it returns. `LinkCache` has weak fairness of every
process, which the operating system schedules; nothing obliges a file to be
rebuilt, a process to be killed or to run again. No choice among steps is assumed
fair. `Spec` of `WeaveIR`, `SSpec`, `PSpec`, `ExecSpec` and `Lccwld` have no
fairness, since nothing obliges a host or a script to make another call. `Oeuph`
needs none: `OeuphEnds` is a rank that every step lowers.

## 4. Proofs

All theorems are for arbitrary values of the constants. The assumptions are that
bounds are naturals, that `NoName` and the other null values are no values, and
that inputs have their types: `IRAssumption`, `KernelAssumption`,
`ProgramAssumption` (programs fit the table, blocks have names), `SchedAssumption`,
`RunAssumption` (a plan is a sequence of nodes, and edges join nodes of it),
`EchoAssumption`, `FilesAssumption` (the kinds of line, and that a name is not empty),
`ExecAssumption`, `CacheAssumption`, `CcwasAssumption`, `LinkAssumption` (what the
readers of ELF files and archives return: lists, and one of three bindings),
`LccwldAssumption`, `CallAssumption` (a call is of a function that the module
registers, and its lists are sequences), `DriverAssumption` (the same of options). Two theorems have a
hypothesis of their own, `JumpsLast`.

Induction over data is not available. Where an argument needs it, the least
counterexample takes its place (`LeastNatural` of `SequenceLemmas`), also for the
existence of the recursive functions that the models define: `PrefixInduction` and
`PrefixRecursion` make of it induction and recursion over the prefixes of a sequence,
and give what flattening and selecting return.

* `WeaveIRProofs`. `TablesSound` (from `TypeCorrect` and `OwnershipHolds`),
  `IdsNeverReused`, `EdgesNeverLost`. The inductive invariant is
  `IInv == TypeOK /\ Fresh /\ Ownership`. `Ownership` alone is not inductive: a new
  id must not be listed anywhere, which `Fresh` says of ids above `node_count`.
  One lemma per operation; the splices rest on lemmas that say, index by index, what
  inserting into and removing from a vector returns. `EdgesNeverLost`: targets are
  looked up by name on every query, so deleting a block could redirect a branch to a
  namesake further on. The lookup of a name changes by the removal of a block only
  if that block was the answer, that is if some jump leads to it, which the
  preconditions of delete and merge exclude for all blocks that stay. The proof
  found that an empty block, once swallowed, has no way out to hand on; the
  property names that case.
* `CfgKernelsProofs`. `EliminationSound`, `KernelsDoTheirWork`, `CommitsValid`.
  `KInv` adds to `IInv` that there is one function, where the loop stands, that the
  entry stays the first block, and the two stated facts about unreachable-elim.
  `JInv` adds that jumps are at the ends of blocks, that the blocks behind the index
  of cfg-canonicalize are settled (`SettledBehind`), and that an accepted module
  stays formed (`StaysValid`). The arguments:
  + `ReachableFrom` is the least set that has the entry and that no jump leaves.
    As many turns as there are blocks suffice, by counting: a turn that adds nothing
    is the last. A block that unreachable-elim deletes is outside and nothing leads
    to it, so the set before is the least one after; that is `ReachNotStale`.
  + The index of cfg-canonicalize stays where it is after a merge, while the vector
    shrinks, perhaps in front of the index. A merge makes nothing mergeable that was
    not so before, except that the merged block now leaves as the swallowed one did;
    the settled blocks stay settled, and the one that takes over a settled block is
    as settled as that was.
  + A merge keeps every name that a jump still uses; unreachable-elim may take away
    the last way into a block, but such a block is unreachable too, and is gone when
    the kernel returns. So the validator's rules hold again at the end.
  + The table of the parser satisfies all of this: ids are numbered by block and
    position, and `\div` and `%` give both back.

  `JumpsLast` is needed: with a jump in the middle of a block both statements about
  merges are false (section 5). The run has `ASSUME JumpsLast` about its programs.
* `PipelineProofs`, the builder. `PlansAreSound` (with `BarriersOrderAll`, `SealedPlansAreOrders`) and
  `AcyclicIsOrder`. `BuilderInv` is `SInv` (the nodes are a sequence, barriers are
  complete), `EdgesInPlan`, `Typed` and `TextIsPlan`: nothing changes after
  seal, so the text still says what the tables say. `AcyclicIsOrder`: the cycle test accepts
  exactly the partial orders. Soundness takes, of any set of nodes, the one that was
  taken in the earliest round; completeness counts, `r` rounds take `r` nodes.
  `RoundTrip` and `SealedParses` follow the reader over the lines that the writer
  makes, nodes first.
* `PipelineProofs`, the execution. `PassesRefine`: a step of the run is a step or a stutter of
  `PlanOrder`, from the invariant that a pass has finished with nodes of the plan
  only. `RunsInOrder` and `FinishedRunsComplete` need the history: `HInv` says what has
  been applied of the nodes that are done, of the one in hand and of no other
  (`HistoryOK`, `DoneApplied`, `InProgress`, `PassesOver`), that the done nodes are
  closed under predecessors (`DownClosed`), and that they were applied in that order
  (`OrderKept`). For `Deterministic`: the run takes, at each turn, the
  least ready node (a greedy order), and where the first linear extension
  first differs from it, that extension has no lower ready node to offer either.
* `PipelineProofs`, both together. `SealedPlansNeverStuck`, `BarriersDivideWork`, `CheckFindsDrift`.
  `PInv` joins `BuilderInv` and `HInv` by what the text carries over: the executed
  plan is a partial order (`PlanIsOrder`), it is what was read (`PlanRead`), nothing
  is done before it is (`NothingDone`), and an execution that found something absent has
  ended and is one that the checker refuses (`AbsentCaught`). A partial order always has a ready node. A barrier is an
  edge in the builder, in the text and in the executed plan; work on both sides is
  ordered through it although a pass may skip the barrier itself.
* `PipelineProofs`, the manifests. `FilesAreRead`, for files of any length. `ReadUpTo`
  says what the first lines of a `Kernel.yaml` have made of the record that is filled:
  the kernels whose end was seen (`Lists`), and of the pending one its name, its
  capabilities and whether items are taken (`PendingRight`, `Open`). An entry ends when
  another begins or the file is over, and only then are its lines all known
  (`EndFacts`); an entry without a name is carried on into the next (`PartsOf`,
  `PathStep`). The induction over the lines is `PrefixInduction`.
* `ExecutorProofs`. `AppliesSound` (`HandleScoped`, `OnlyListedRun`,
  `OnlyExportedRun`), `Isolation`, `HandlesStay` (`NoRebinding`,
  `KernelIdsNeverReused`), `SlotsStaySound`, `RefusalsHold`. The invariant `ExecIInv`
  adds to the stated ones the types of the executor's part, of which one matters: a
  live slot has a library name. `CurrentIrScope` carries a chain of saved handles,
  each that of the frame below, without which a return could not be shown to restore
  the right one. `EditsSound` lifts `IInv` of the table through every accessor
  (`EditInv`), and that walking by count and index is complete follows from it.
* `DriverProofs`, the script. `ScriptsSound`, for every command line, set of calls and
  length of script. In the invariant `ScriptIInv`, `ScopesOK` counts: the open calls
  of `as_needed` are the depth, those of `include` the paths on the stack less one.
  An error leaves calls one after the other (`UnwindOK`), so what is left of the
  frames still accounts for both. Fresh names carry numbers that the counter has
  passed (`NamesOK`), and every hook of the plan has taken a slot (`HooksOK`). Every
  builder keeps `PlanOK`, and none answers on a sealed plan; what
  is still written, by the seal and by `gensym` after it, is not serialized
  (`SameSerialized`), which is why `SealFrozen` holds. A call with
  several arguments is a recursive function over them (`Each`), and so is the
  unwinding: what they keep is shown for every prefix (`EachBuilds`).

  `CallsAreKept` (`StmtsOnce`, `SelectorsAtLast`, `PendingOnce`) is about single
  steps, from the invariant `NotesOK`: of every value, as many statements are
  consumed as the plan has. A call that raises half way keeps that, because a
  statement is consumed in the round that places it (`PlacedNotes`). At the seal all
  are consumed (`FlushedNotes`), so the two counts are of everything. Inside `out`
  the builders look the section up by name, and what they find is the last of it:
  `Latest` says that it is the one the call declared, whatever other sections share
  its name. That selectors stay where they are follows. Of the options of a plugin,
  each that was pending is its own or has a key that the call gives itself
  (`WithoutFacts`).
* `DriverProofs`, the cache. `CachesSound` (`CacheTypes`, `EntriesWhole`,
  `EntriesKeyed`), `OutputsWhole`.
  That an entry was written to its end is not inductive: `CacheIInv` says of each
  link, by its place, how far key and image have come (`Progress`), that what it read
  agrees with its key unless the files moved or were not read for it (`Reads`), and that
  the file it carries to the output and the temporary file is closed, and short only
  if something was lost (`Closed`), when it gets to the rename (`Carried`). `unnoticed`
  only ever becomes true, so what one link loses leaves what is said of the others
  (`CompleteLater`).
* `CcwasProofs`. `ObjectsAreSound`, `SymbolsAreKept`, for every source text, mnemonic
  and operand. The inductive invariant `AsmInv` has three parts. `TextOK`: the files
  that are open, the pieces left of each and the lines expanded so far. `UnitOK`:
  labels lie inside their sections (`TabOK`), a branch that is recorded for the linker
  still has its four zero bytes, and a call or jump to a name has declared it
  (`RelocOK`). `WrittenOK`: the object, once written, is `FileOK`. A line mostly
  appends bytes, and what was said of the old ones stays true because sections only
  grow (`GrownKeeps`). Under it are the encoder (which forms leave a hole, and
  where) and the operand readers, whose recursion is over positions of a token list.
  For the object file, offsets are a chain in which each part begins behind the last
  (`PackedChain`), and the symbol table is two selections, locals before globals
  (`Halves`), so that the first global index is what the header says.
  `SymbolsAreKept` is about single steps, from the types in `AsmInv`: a second
  definition is refused wherever one can be written.
* `CcwldProofs`, the link up to layout. `CollectionClosed`, `MergesRight`,
  `ArchivesExhausted`, for any inputs, archives, selectors, hooks and LTO objects.
  The inductive invariant `LinkInv` speaks of the phases up to layout, to which none
  of the later ones returns (`LaterPhases`). Its parts:
  + `TablesOK`, `LoopsOK`: objects and symbols lead where they should, and a merge on
    behalf of an archive is of the last object.
  + `MergeOK`: `MergeRule` with the definitions that the merges have come past
    (`Seen`) instead of all. It is inductive because a symbol that is merged comes
    behind all that were: an input follows the inputs, and an extracted member is
    appended, however early its archive stands. That needs the weak mark to be
    the one of the definition that won (`IsWeak`), which holds until the script may
    override it, when no merge is to come.
  + `RoundOK`: a round that has extracted nothing found nothing wanted among the
    index entries behind it, and changed no symbol since. So the round that ends a
    scan with nothing extracted has seen all entries wanting nothing.
  + `GcOK`: the argument of a tricolour collector. `Marking` says that no marked
    section refers to one that waits, and that of the files only sections without a
    place were taken before the sweep; `RootsPassed` that no selected section
    behind the loop waits. `MarkedClosed` is the lemma about `mark_sec`: as many
    turns as there are sections reach everything, by counting. After the sweep a
    hook may reorder output sections, which changes no selector (`MoveKeeps`).

  After LTO everything is merged again, from an empty table, with the dead modules
  still in it: that the same invariant holds at the start of that second merge is
  part of `LtoRunsStep`.

`AcyclicIsOrder`, that seal refuses nothing acyclic in particular, is about the
operators and not an invariant of a run.

Only model-checked:

* liveness (`RunEnds`, `KernelReturns`, `LinksEnd`, `LinkEnds`, `AssemblyEnds`), which
  the prover cannot do;
* everything about `Oeuph`, and `EncodeDecodes` and `TextMeans`: operators of `Egraph`
  and `AsmExpr` are RECURSIVE; `ExprSound`, which is about recursion over expressions;
* of `Ccwld`, what follows the collection: `RelocRight`, `LayoutSound`, `ImageSound`.
  Addresses are modulo `2^Bits` there, and that nothing overlaps is true of links
  that fit, which the instance has and an arbitrary one has not.

## 5. Known divergences

What the code does and a document, a comment or an option says otherwise, met
while modelling. The two that have a run are above.

* **IR and kernels.** `cfg-canonicalize` may let a block swallow the entry.
  Unreachable blocks in a circle stay (`OnlyLoopsStay` has the rest). The
  successor count includes repeated targets and the lookup by index does not, so
  `unreachable-elim` raises on a `br.cond` with equal targets. The validator accepts
  a jump in the middle of a block (`^1: br ^2; br ^2`, `^2: ret`): a merge of the two
  keeps the first jump, which then names a block that is gone, against "valid at
  every commit point" of `SCHED.md`. If the swallowed block is empty, such a
  jump becomes the last instruction, and a chain is left.
* **Executor and Glue.** A later file of the same library name replaces the
  library of a loaded id, also when its load fails after `define-library`; unload
  leaves the library. `GlueSTD.h` calls its edits "the ONLY mutation channel; host
  may interpose/log/reject", but `set-dest!`, `set-operand!`, `analysis-put!` and the builders
  do not ask the hook; the hook is told before the edit may still fail; a refused
  merge is reported as not mergeable. A failed application keeps its edits.
* **Sched.** Edges between rewrites and kernels are not kept across the two passes
  (`SCHED.md` 74). A barrier label of two words seals and does not parse. A nameless
  entry of `Kernel.yaml` gives its capabilities to the next one. The checker may
  refuse a plan without drift: the name occurs in the line before its place, or
  two kernels share it.
* **Oeuph.** Two arrays share one capacity: beyond the first allocation (64 nodes)
  the second is overrun, which `OverrunAt` states. The seed is never used and the
  clock decides, against "fixed seed + budget => reproducible output". An operation
  below the chosen one is written as a register without name. A failing analysis
  leaves its earlier marks.
* **CCWas.** All relocations go to `.rela.text`, since their section is recorded as
  -1; conditional jumps and data do not declare external names; `.equ` loses
  `.global`; the writer of the object ignores what `fwrite` and `fclose` return, so a
  full disk is a success (no property is about the file on disk); a continued line
  loses its first part; several addressing forms are miscoded (listed in `AsmCheck`);
  all targets use the x86 encoder; the tables of section names have fixed sizes that
  nothing checks; includes have no cycle check although `LCCWAS.md` says so, and end at the depth Lua allows.
* **CCWld script.** `lto{enable=false}` turns LTO on; a script without `out()`
  gets no default sections; `--defsym` defines nothing; `assign()` after the seal
  is lost; `on()` takes a slot before it refuses; comparisons of deferred
  expressions become Lua booleans. `LCCWLD.md` says of `include` that it is
  "cycle-checked", and the check compares spellings (`lccwld.c:1238`): `main.lua` that
  includes `./main.lua` runs inside itself, as it does when a script of `lib` includes
  `main.lua` under `-L .`, once for each spelling. The instance has such paths, and
  `IncludeSane` claims no more than that no path is on the stack twice.
* **CCWld phases.** `a=1; b=a; foo=a` is called a cycle, as the marks of the
  evaluator stay. A shared object's definition that wins fails later as never
  valued; one before a strong definition is a duplicate. Undefined weak names are
  errors. Archives of a group are scanned one by one. Collection ignores edges
  through local symbols, and `keep_section` after the sweep does nothing. Conflicts
  between plugin and hook are never reported, since one record is kept for a key and
  a phase (`record_mut`), although `.agents/CCWLD.md` wants a diagnostic. `e_entry` is taken before the layout hooks.
  When the last flush of the output fails, `fclose` says so and nobody asks
  (`ccwld_emit_elf.c:755`): the link is a success with a part of an image.
* **CCWld cache.** `ccwld_cache.h` says that a hit "is a pure file copy" of an
  identical link; files found by search path and plugins are in the key by name
  only, and keyed files are read twice (`EntryKeyed` has what is left of it). A read
  error is the end of the file, for the key and for `copy_file` (`ccwld_cache.c:159`).
  So a short output is stored, an entry may be cut when it is stored and again when it
  is restored, and all of this is success, although `ccwld.c:639` says that "a hit means
  the artifact is byte-identical". In the model such files are `"short"`.

## 6. Not modelled, and the plan

Left out for good: C semantics and lowering (Cephyr, Delphia), type inference and
evaluation (SML-Parthia), formatting and lexing, the 120 kernels that only
annotate, the data of the rulesets, the freestanding libc, vendored code. The
ld-script front end of CCWld is left out because its grammar is refused when its
parser is made: the code behind it never runs. AArch64 and RISC-V relocations and
the writers over LIEF and Binaryen are tables and library calls. Allocation failure
is left out everywhere, and with it the places in which it leaves partial edges
behind (see the hazards).

Next, in this order:
1. `CCWmk`: the build graph and its execution.
2. Moonix: the tiering of the runtime.
3. Proofs: layout of `Ccwld`, for links that fit the address space.
