------------------------------ MODULE Executor ------------------------------
(***************************************************************************)
(* The S7 executor (src/executors/s7) and the host's side of GlueSTD       *)
(* (src/glue/ccw_host_accessors.c) composed with the Weave IR they edit.   *)
(* A host registers accessors, loads kernel files and applies them; while  *)
(* a kernel runs, its accessor calls edit the IR of that apply, behind an  *)
(* edit hook the host may install.  Host code runs outside any apply or    *)
(* inside an accessor or hook that a kernel called, so applies may nest.   *)
(*                                                                         *)
(* Abstractions.  One IR, "main", is the node table of WeaveIR; any other  *)
(* IR is opaque.  An accessor that fails raises in Scheme and changes      *)
(* nothing: the kernel either goes on (a stutter) or ends its apply with   *)
(* an error (Return).  Conversions, texts and kernel options are left out. *)
(***************************************************************************)
EXTENDS WeaveIR, Integers

CONSTANTS
  Files,        \* kernel files: records [key, exports, raises]
  NoKey,        \* key of a file without a define-library form
  Caps,         \* capability names
  IRs,          \* IR handles; "main" is the one WeaveIR keeps
  NoIR,         \* the NULL handle
  Accessors,    \* accessor names the host registers
  Versions,     \* what a name may be bound to
  IntRange,     \* how many values the int has that an index is cut to
  MaxKernels,   \* bound on kernel ids handed out
  MaxDepth,     \* bound on applies in progress
  MaxCalls      \* bound on accessor calls that succeed

ASSUME ExecAssumption ==
  /\ \A f \in Files : f.exports \subseteq {"kernel-info", "kernel-capabilities", "kernel-apply"}
  /\ NoIR \notin IRs /\ "main" \in IRs
  /\ MaxKernels \in Nat /\ MaxDepth \in Nat /\ MaxCalls \in Nat
  \* no vector of the module is longer than an int counts
  /\ IntRange \in Nat \ {0} /\ 2 * MaxNodes <= IntRange
  \* the module that the host starts with
  /\ MaxNodes >= 7 /\ {"entry", "exit", "lost"} \subseteq Names /\ {"br", "ret"} \subseteq Opcodes

VARIABLES
  bindings,     \* accessor name -> version bound, as seen from Scheme
  kernels,      \* the executor's kernel slots [key, caps, live]; the id is the index
  kernel_loaded,\* some load has succeeded
  libs,         \* *ccw-libraries*: key -> the file that defined it last
  offers,       \* what kernel-capabilities of a file answers now
  current_ir,   \* the IR accessors work on
  frames,       \* applies in progress [ir, saved, file, cap, listed]
  refused,      \* edit kinds the installed hook refuses
  calls         \* accessor calls that succeeded, for the bound

xvars == <<bindings, kernels, kernel_loaded, libs, offers, current_ir, frames, refused>>
allVars == <<vars, xvars, calls>>

Required == {"kernel-info", "kernel-capabilities", "kernel-apply"}
NoFile == [key |-> NoKey, exports |-> {}, raises |-> FALSE]
Keys == {f.key : f \in Files} \ {NoKey}
EditKinds == {"replace", "insert_before", "delete", "block_delete"}

(***************************************************************************)
(* Reading the IR: the -count and -ref accessors.                          *)
(***************************************************************************)
\* arg_index: a Scheme integer is cut to an int.
arg_index(i) == LET u == i % IntRange
                IN  IF 2 * u >= IntRange THEN u - IntRange ELSE u

\* What a -count / -ref pair walks: the functions of the module, the blocks of
\* a function, the instructions of a block, the operands of an instruction.
Listing(of, n) ==
  CASE of = "ir-function" -> functions
    [] of = "function-block" /\ Live(n, "function") -> children[n]
    [] of = "block-instr" /\ Live(n, "block") -> children[n]
    [] of = "instr-operand" /\ Live(n, "instr") -> operands[n]
    [] OTHER -> <<>>

\* Mutant: the index is compared with <=, so one past the end is read.
LooseRefAt(of, n, i) ==
  LET s == Listing(of, n) IN IF arg_index(i) \in 1..Len(s) THEN s[arg_index(i)] ELSE 0

\* 0 stands for "index out of range", which the accessor raises.
RefAt(of, n, i) ==
  LET s == Listing(of, n) IN IF arg_index(i) \in 0..(Len(s) - 1) THEN s[arg_index(i) + 1] ELSE 0

CountOf(of, n) == Len(Listing(of, n))

(***************************************************************************)
(* Host operations.                                                        *)
(***************************************************************************)
LiveKernel(id) == id \in DOMAIN kernels /\ kernels[id].live
Exports(key) == IF key \in Keys THEN libs[key].exports ELSE {}

\* ccw_glue_register: replaces the binding of a name, or adds one.
Register(acc, v) ==
  /\ ~kernel_loaded
  /\ bindings' = [bindings EXCEPT ![acc] = v]
  /\ UNCHANGED <<kernels, kernel_loaded, libs, offers, current_ir, frames, refused>>

\* Evaluating the file defines its library, over any of that name, before the
\* load can fail: by an error further down or by a missing export.
Loads(f) == ~f.raises /\ f.key # NoKey /\ Required \subseteq f.exports

\* Mutant: a new kernel takes the slot of one that was unloaded.
ReusingLoad(f) ==
  LET slot == [key |-> f.key, caps |-> {}, live |-> TRUE]
      dead == {id \in DOMAIN kernels : ~kernels[id].live}
  IN  /\ Len(kernels) < MaxKernels
      /\ libs' = IF f.key = NoKey THEN libs ELSE [libs EXCEPT ![f.key] = f]
      /\ kernels' = CASE ~Loads(f) -> kernels
                      [] Loads(f) /\ dead = {} -> Append(kernels, slot)
                      [] OTHER -> [id \in DOMAIN kernels |->
                                     IF id \in dead THEN slot ELSE kernels[id]]
      /\ kernel_loaded' = (kernel_loaded \/ Loads(f))
      /\ UNCHANGED <<bindings, offers, current_ir, frames, refused>>

Load(f) ==
  /\ Len(kernels) < MaxKernels
  /\ libs' = IF f.key = NoKey THEN libs ELSE [libs EXCEPT ![f.key] = f]
  /\ kernels' = IF Loads(f)
                THEN Append(kernels, [key |-> f.key, caps |-> {}, live |-> TRUE])
                ELSE kernels
  /\ kernel_loaded' = (kernel_loaded \/ Loads(f))
  /\ UNCHANGED <<bindings, offers, current_ir, frames, refused>>

Unload(id) ==
  /\ LiveKernel(id)
  /\ kernels' = [kernels EXCEPT ![id] = [key |-> NoKey, caps |-> {}, live |-> FALSE]]
  /\ UNCHANGED <<bindings, kernel_loaded, libs, offers, current_ir, frames, refused>>

\* refresh_capabilities: the cache becomes what kernel-capabilities answers; a
\* missing or raising procedure leaves it empty.
Listed(key) == IF "kernel-capabilities" \in Exports(key) THEN offers[libs[key]] ELSE {}
Refreshed(id) == [kernels EXCEPT ![id].caps = Listed(kernels[id].key)]

CapabilityCount(id) ==
  /\ LiveKernel(id)
  /\ kernels' = Refreshed(id)
  /\ UNCHANGED <<bindings, kernel_loaded, libs, offers, current_ir, frames, refused>>

\* ccw_kernel_capability answers from the cache, and fills only an empty one.
Capability(id) ==
  /\ LiveKernel(id) /\ kernels[id].caps = {}
  /\ kernels' = Refreshed(id)
  /\ UNCHANGED <<bindings, kernel_loaded, libs, offers, current_ir, frames, refused>>

Frame(id, cap, ir) ==
  LET key == kernels[id].key
  IN  [ir |-> ir, saved |-> current_ir, file |-> libs[key], cap |-> cap,
       listed |-> offers[libs[key]]]

\* ccw_kernel_apply up to the call of kernel-apply, with its two refusals.
Apply(id, cap, ir) ==
  /\ LiveKernel(id) /\ Len(frames) < MaxDepth
  /\ kernels' = Refreshed(id)
  /\ IF cap \in kernels'[id].caps /\ "kernel-apply" \in Exports(kernels[id].key)
     THEN frames' = Append(frames, Frame(id, cap, ir)) /\ current_ir' = ir
     ELSE UNCHANGED <<frames, current_ir>>
  /\ UNCHANGED <<bindings, kernel_loaded, libs, offers, refused>>

\* Mutant: a returning apply clears current_ir.
ClearingReturn ==
  /\ frames # <<>>
  /\ current_ir' = NoIR
  /\ frames' = Front(frames)
  /\ UNCHANGED <<bindings, kernels, kernel_loaded, libs, offers, refused>>

\* kernel-apply returned or raised; its edits stay in the IR either way.
Return ==
  /\ frames # <<>>
  /\ current_ir' = Last(frames).saved
  /\ frames' = Front(frames)
  /\ UNCHANGED <<bindings, kernels, kernel_loaded, libs, offers, refused>>

\* ccw_host_set_edit_hook: the hook as the set of edits it refuses.
SetEditHook(kinds) ==
  /\ refused' = kinds
  /\ UNCHANGED <<bindings, kernels, kernel_loaded, libs, offers, current_ir, frames>>

\* A running kernel changes what it lists (kernel-capabilities is a procedure).
ChangeOffer(caps) ==
  /\ frames # <<>> /\ Last(frames).file \in Files
  /\ offers' = [offers EXCEPT ![Last(frames).file] = caps]
  /\ UNCHANGED <<bindings, kernels, kernel_loaded, libs, current_ir, frames, refused>>

(***************************************************************************)
(* Accessor calls of a running kernel.  Node arguments are plain integers, *)
(* so any id may be passed, dead ones and nil included.                    *)
(***************************************************************************)
\* edit_allowed
edit_allowed(k) == k \notin refused

Splice ==
  \/ \E old, new \in Ids : edit_allowed("replace") /\ InstrReplace(old, new)
  \/ \E anchor, new \in Ids : edit_allowed("insert_before") /\ InstrInsertBefore(anchor, new)
  \/ \E ins \in Ids : edit_allowed("delete") /\ InstrDelete(ins)

GlueBlockDelete(blk) == edit_allowed("block_delete") /\ BlockDelete(blk)

\* Mutant: the hook is not asked.
UnaskedGlueBlockMerge(first, second) == BlockMerge(first, second)

\* acc_block_merge asks about the deletion of second, as the incoming node.
GlueBlockMerge(first, second) == edit_allowed("block_delete") /\ BlockMerge(first, second)

\* instr-build, syscall-build and the io builders: a detached instruction,
\* whose operands were all checked first or (syscall) are added until one fails.
GlueBuild(op, ops) ==
  /\ NewNode("instr", NoName, op, ops, 0)
  /\ UNCHANGED <<functions, children, attached>>

\* instr-set-dest! and instr-set-operand!, which do not ask the hook.
GlueSet ==
  \/ \E ins \in Ids, nm \in Names : InstrSetDest(ins, nm)
  \/ \E ins \in Ids, i \in 0..MaxOperands, nm \in Names \cup {NoName} :
       InstrSetOperand(ins, arg_index(i) + 1, nm)

\* Mutant: accessors run on any IR a kernel still holds a handle of.
HandleGlueCall ==
  /\ \E i \in DOMAIN frames : frames[i].ir = "main"
  /\ call = "returned"
  /\ \/ Splice
     \/ \E blk \in Ids : GlueBlockDelete(blk)
     \/ \E op \in Opcodes : GlueBuild(op, <<>>)
     \/ GlueSet

\* The trampoline: accessors run on current_ir, and raise without one.
GlueCall ==
  /\ current_ir = "main" /\ call = "returned"
  /\ \/ Splice
     \/ \E blk \in Ids : GlueBlockDelete(blk)
     \/ \E first, second \in Ids : GlueBlockMerge(first, second)
     \/ \E op \in Opcodes, ops \in {<<>>, <<NoName>>} : GlueBuild(op, ops)
     \/ GlueSet

HostCall ==
  \/ \E acc \in Accessors, v \in Versions : Register(acc, v)
  \/ \E f \in Files : Load(f)
  \/ \E id \in DOMAIN kernels : Unload(id) \/ CapabilityCount(id) \/ Capability(id)
  \/ \E id \in DOMAIN kernels, cap \in Caps, ir \in IRs : Apply(id, cap, ir)
  \/ \E kinds \in {{}, {"block_delete"}, EditKinds} :
       SetEditHook(kinds)

ExecNext ==
  \/ HostCall /\ UNCHANGED <<vars, calls>>
  \/ Return /\ UNCHANGED <<vars, calls>>
  \/ (\E caps \in SUBSET Caps : ChangeOffer(caps)) /\ UNCHANGED <<vars, calls>>
  \/ calls < MaxCalls /\ calls' = calls + 1 /\ GlueCall /\ UNCHANGED xvars

(***************************************************************************)
(* The host starts with a module of one function: an entry block that      *)
(* jumps to an exit block, and a block nothing reaches (2, 3 and 4).       *)
(***************************************************************************)
ExecInit ==
  /\ node_count = 7
  /\ functions = <<1>>
  /\ kind = [i \in Ids |-> CASE i = 1 -> "function" [] i \in 2..4 -> "block"
                             [] i \in 5..7 -> "instr" [] OTHER -> "dead"]
  /\ parent = [i \in Ids |-> IF i \in 2..4 THEN 1 ELSE IF i \in 5..7 THEN i - 3 ELSE 0]
  /\ attached = 5..7
  /\ children = [i \in Ids |-> IF i = 1 THEN <<2, 3, 4>>
                               ELSE IF i \in 2..4 THEN <<i + 3>> ELSE <<>>]
  /\ opcode = [i \in Ids |-> IF i = 5 THEN "br" ELSE IF i \in 6..7 THEN "ret" ELSE NoName]
  /\ operands = [i \in Ids |-> IF i = 5 THEN <<"exit">> ELSE <<>>]
  /\ name = [i \in Ids |-> CASE i = 2 -> "entry" [] i = 3 -> "exit" [] i = 4 -> "lost"
                             [] OTHER -> NoName]
  /\ call = "returned"
  /\ bindings = [acc \in Accessors |-> NoIR]
  /\ kernels = <<>> /\ kernel_loaded = FALSE
  /\ libs = [key \in Keys |-> NoFile]
  /\ offers = [f \in Files \cup {NoFile} |-> IF f = NoFile THEN {} ELSE Caps]
  /\ current_ir = NoIR /\ frames = <<>>
  /\ refused = {} /\ calls = 0

ExecSpec == ExecInit /\ [][ExecNext]_allVars

(***************************************************************************)
(* Properties.                                                             *)
(***************************************************************************)
\* Every slot, frame and handle has its type; kernel_loaded remembers that some
\* load succeeded even when everything was unloaded again (struct ccw_executor).
ExecTypeOK ==
  /\ TypeOK
  /\ bindings \in [Accessors -> Versions \cup {NoIR}]
  /\ \A id \in DOMAIN kernels :
       /\ kernels[id].caps \subseteq Caps
       /\ kernels[id].live => kernels[id].key \in Keys
  /\ kernel_loaded = (kernels # <<>>)
  /\ libs \in [Keys -> Files \cup {NoFile}]
  /\ current_ir \in IRs \cup {NoIR} /\ refused \subseteq EditKinds

\* "non-NULL only during kernel-apply": accessors work on the IR of the innermost
\* apply, however applies nest, return or raise, and on none outside one.
CurrentIrScope ==
  /\ current_ir = IF frames = <<>> THEN NoIR ELSE Last(frames).ir
  /\ \A i \in DOMAIN frames : frames[i].saved = IF i = 1 THEN NoIR ELSE frames[i - 1].ir

\* A module changes only while an apply on it is the innermost one: a kernel
\* cannot reach the IR of the apply that called it, or of one that returned.
IsolatedIR == [][frames = <<>> \/ Last(frames).ir # "main" => UNCHANGED vars]_allVars

\* GlueSTD.h: "MUST NOT be done after any kernel is loaded".  Once some kernel has
\* been loaded no accessor is rebound, not even after the kernel was unloaded.
BindingsFrozen == [][kernels # <<>> => bindings' = bindings]_allVars

\* GlueSTD.h: "Kernel ids are never reused".  A slot never changes its library and
\* a dead one never comes back, whatever is loaded later.
IdsStable ==
  [][\A id \in DOMAIN kernels :
       /\ id \in DOMAIN kernels'
       /\ kernels'[id].live => kernels[id].live /\ kernels'[id].key = kernels[id].key]_allVars

\* GlueSTD.h: "MUST verify the capability is in the kernel's live capability list".
\* What runs was listed by the very procedure that runs, when it was started, though
\* kernels change their lists and later files replace libraries of the same name.
RunsListed == \A i \in DOMAIN frames : frames[i].cap \in frames[i].listed

\* The executor never calls something that is no procedure: the exports verified at
\* load may since have gone with a file of the same name that failed to load.
RunsExported == \A i \in DOMAIN frames : "kernel-apply" \in frames[i].file.exports

\* The hook's refusals hold: with the deletions refused no block dies; with all ways
\* out of a block refused no instruction leaves one, and with all ways in none enters.
RefusalHolds ==
  [][/\ ~edit_allowed("block_delete") => \A n \in Ids : kind[n] = "block" => kind'[n] = "block"
     /\ {"replace", "delete", "block_delete"} \subseteq refused => attached \subseteq attached'
     /\ {"replace", "insert_before"} \subseteq refused => attached' \subseteq attached]_allVars

\* The places that a walk from the functions down visits, and what -ref answers there.
Functions == 0..(CountOf("ir-function", 0) - 1)
FunctionAt(f) == RefAt("ir-function", 0, f)
BlockPlaces ==
  UNION {{f} \X (0..(CountOf("function-block", FunctionAt(f)) - 1)) : f \in Functions}
BlockAt(p) == RefAt("function-block", FunctionAt(p[1]), p[2])
InstrPlaces ==
  UNION {{p} \X (0..(CountOf("block-instr", BlockAt(p)) - 1)) : p \in BlockPlaces}
InstrAt(q) == RefAt("block-instr", BlockAt(q[1]), q[2])

\* Walking the module with -count and -ref from the functions down meets every live
\* block and every attached instruction, each exactly once, after any edits.
WalkComplete ==
  LET exactly(met, nodes) == /\ {m[2] : m \in met} = nodes
                             /\ \A m, n \in met : m[2] = n[2] => m = n
  IN  /\ exactly({<<p, BlockAt(p)>> : p \in BlockPlaces}, {n \in Ids : kind[n] = "block"})
      /\ exactly({<<q, InstrAt(q)>> : q \in InstrPlaces}, attached)

\* The slots of the executor are what loads and unloads left, and accessors find all
\* of the module (ccw_s7_executor.c, ccw_host_accessors.c).
SlotsSound == ExecTypeOK /\ WalkComplete

\* Whatever was loaded, unloaded or replaced and however applies nest, a kernel that
\* runs is one its library exports, for a capability it lists, on the IR it was given
\* (ccw_kernel_apply).
FramesSound == CurrentIrScope /\ RunsListed /\ RunsExported

\* What the host holds of the executor stays what it was: accessors are not bound anew
\* once a kernel was loaded, and ids of kernels are not used again (ccw_kernel_unload).
HandlesKept == BindingsFrozen /\ IdsStable

=============================================================================
