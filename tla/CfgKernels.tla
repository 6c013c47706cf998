----------------------------- MODULE CfgKernels -----------------------------
(***************************************************************************)
(* The three kernels that edit the control flow graph of a parsed module:  *)
(* kernels/block-merge.scm, kernels/cfg-canonicalize.scm and               *)
(* kernels/unreachable-elim.scm.  Each walks every function by index while *)
(* it changes the vectors that it indexes.  One step is one turn of a      *)
(* kernel's inner loop; the Glue accessors it calls are the operators and  *)
(* actions of WeaveIR.                                                     *)
(***************************************************************************)
EXTENDS WeaveIR, Integers

CONSTANTS
  Programs,   \* parsed functions: sequences of blocks, each a sequence of
              \* instructions <<opcode, operands>>; block i is called i
  BlockWidth, \* bound on the instructions of a block of a program
  Kernels     \* the kernels that the host may apply

AllKernels == {"block-merge", "cfg-canonicalize", "unreachable-elim"}

ASSUME KernelAssumption ==
  /\ BlockWidth \in Nat \ {0}
  /\ Kernels \subseteq AllKernels

\* Programs fit the node table, and their blocks have names.
ASSUME ProgramAssumption ==
  \A p \in Programs :
    /\ p \in Seq(Seq(Opcodes \X Seq(Names \cup {NoName})))
    /\ \A b \in DOMAIN p : Len(p[b]) <= BlockWidth /\ b \in Names
    /\ 1 + Len(p) * (BlockWidth + 1) <= MaxNodes

\* Only the last instruction of a block names blocks.  Neither the parser nor the
\* validator asks for that; what the kernels promise below depends on it.
JumpsLast ==
  \A p \in Programs : \A b \in DOMAIN p : \A k \in DOMAIN p[b] :
    k < Len(p[b]) => \A j \in DOMAIN p[b][k][2] : p[b][k][2][j] = NoName

VARIABLES
  kernel,     \* the kernel being applied
  pc,         \* "run", "done", or "error" when it raised a condition
  fi,         \* index of the function it works on
  i,          \* index of the block its loop is at
  reachable,  \* unreachable-elim: the blocks found from the entry; {} before
  entry,      \* history: the entry block of each function when the kernel began
  accepted    \* history: whether the validator accepted the module then

kvars == <<kernel, pc, fi, i, reachable, entry, accepted>>
allVars == <<vars, kvars>>

(***************************************************************************)
(* The module that ccw_ir_parse builds from a program: the function, then  *)
(* each block followed by its instructions.  The ids that a short block    *)
(* leaves out stand for its operands, which are no nodes of the model.     *)
(***************************************************************************)
BlockId(b) == 2 + (b - 1) * (BlockWidth + 1)
BlockOf(n) == 1 + (n - 2) \div (BlockWidth + 1)
Place(n) == (n - 2) % (BlockWidth + 1)       \* 0 for the block itself
InProgram(p, n) == n >= 2 /\ BlockOf(n) <= Len(p) /\ Place(n) <= Len(p[BlockOf(n)])

Parsed(p) ==
  LET isBlock(n) == InProgram(p, n) /\ Place(n) = 0
      isInstr(n) == InProgram(p, n) /\ Place(n) # 0
      At(n) == p[BlockOf(n)][Place(n)]
  IN  /\ node_count = 1 + Len(p) * (BlockWidth + 1)
      /\ functions = <<1>>
      /\ kind = [n \in Ids |-> IF n = 1 THEN "function"
                               ELSE IF isBlock(n) THEN "block"
                               ELSE IF isInstr(n) THEN "instr" ELSE "dead"]
      /\ parent = [n \in Ids |-> IF isBlock(n) THEN 1
                                 ELSE IF isInstr(n) THEN n - Place(n) ELSE 0]
      /\ attached = {n \in Ids : isInstr(n)}
      /\ children = [n \in Ids |->
           IF n = 1 THEN [b \in 1..Len(p) |-> BlockId(b)]
           ELSE IF isBlock(n) THEN [k \in 1..Len(p[BlockOf(n)]) |-> n + k]
           ELSE <<>>]
      /\ opcode = [n \in Ids |-> IF isInstr(n) THEN At(n)[1] ELSE NoName]
      /\ operands = [n \in Ids |-> IF isInstr(n) THEN At(n)[2] ELSE <<>>]
      /\ name = [n \in Ids |-> IF isBlock(n) THEN BlockOf(n) ELSE NoName]
      /\ call = "returned"

\* A host need not validate what it parses before it applies a kernel: the Cephyr
\* driver does not.
KInit ==
  /\ \E p \in Programs : Parsed(p)
  /\ accepted = Valid
  /\ kernel \in Kernels
  /\ pc = "run" /\ fi = 1 /\ i = 1 /\ reachable = {}
  /\ entry = [fn \in ToSet(functions) |-> children[fn][1]]

(***************************************************************************)
(* The loops.                                                              *)
(***************************************************************************)
Running(k) == pc = "run" /\ kernel = k /\ fi <= Len(functions) /\ call = "returned"
fn == functions[fi]
Here == children[fn][i]
InRange == i <= Len(children[fn])

\* Each kernel's outer loop goes to the next function, or returns.
NextFunction ==
  /\ fi' = fi + 1 /\ i' = 1 /\ reachable' = {}
  /\ pc' = IF fi = Len(functions) THEN "done" ELSE "run"
  /\ UNCHANGED <<vars, kernel, entry, accepted>>

Step(nexti) ==
  /\ i' = nexti
  /\ UNCHANGED <<kernel, pc, fi, reachable, entry, accepted>>

\* block-merge.scm: no test that the successor is another block, and the index
\* moves on after a merge.
MergeKernelStep ==
  /\ Running("block-merge") /\ InRange
  /\ \E next \in {SuccessorRef(Here, 0)} :
       IF SuccessorCount(Here) = 1 /\ Cardinality(Predecessors(next)) = 1
       THEN BlockMerge(Here, next)
       ELSE UNCHANGED vars
  /\ Step(i + 1)

\* Mutants: the index moves on after a merge; the index stays at a loop.
HastyCanonicalizeStep ==
  /\ Running("cfg-canonicalize") /\ InRange
  /\ \E next \in {SuccessorRef(Here, 0)} :
       IF SuccessorCount(Here) = 1 /\ next # Here
            /\ Cardinality(Predecessors(next)) = 1
       THEN BlockMerge(Here, next)
       ELSE UNCHANGED vars
  /\ Step(i + 1)
LoopingCanonicalizeStep ==
  /\ Running("cfg-canonicalize") /\ InRange
  /\ \E next \in {SuccessorRef(Here, 0)} :
       IF SuccessorCount(Here) = 1 /\ next # Here
            /\ Cardinality(Predecessors(next)) = 1
       THEN BlockMerge(Here, next) /\ Step(i)
       ELSE UNCHANGED vars /\ Step(IF next = Here THEN i ELSE i + 1)

\* cfg-canonicalize.scm: the index stays after a merge.
CanonicalizeStep ==
  /\ Running("cfg-canonicalize") /\ InRange
  /\ \E next \in {SuccessorRef(Here, 0)} :
       IF SuccessorCount(Here) = 1 /\ next # Here
            /\ Cardinality(Predecessors(next)) = 1
       THEN BlockMerge(Here, next) /\ Step(i)
       ELSE UNCHANGED vars /\ Step(i + 1)

\* The blocks of f reachable from b: what reachable-from has seen when its work
\* list is empty.
ReachableFrom(f, b) ==
  LET upTo[n \in 0..Len(children[f])] ==
        IF n = 0 THEN {b} ELSE UNION {{c} \cup ToSet(Targets(c)) : c \in upTo[n - 1]}
  IN  upTo[Len(children[f])]

\* unreachable-elim.scm: block-succ-ref raises at an index that the count allowed
\* but that is beyond the distinct successors.
ReachRaises(seen) ==
  \E c \in seen : \E idx \in 0..(SuccessorCount(c) - 1) : SuccessorRef(c, idx) = 0

ReachStep ==
  /\ Running("unreachable-elim") /\ InRange /\ reachable = {}
  /\ \E seen \in {ReachableFrom(fn, children[fn][1])} :
       IF ReachRaises(seen)
       THEN pc' = "error" /\ reachable' = reachable
       ELSE pc' = pc /\ reachable' = seen
  /\ UNCHANGED <<vars, kernel, fi, i, entry, accepted>>

\* delete-one!: the first block that is not the entry, was not reached, and has
\* no predecessor.
Doomed(b) == /\ b # entry[fn] /\ b \notin reachable
             /\ Predecessors(b) = {}

DeleteStep ==
  /\ Running("unreachable-elim") /\ reachable # {}
  /\ \E k \in {SelectInSeq(children[fn], Doomed)} : k # 0 /\ BlockDelete(children[fn][k])
  /\ UNCHANGED kvars

FunctionDone ==
  \/ /\ Running("block-merge") \/ Running("cfg-canonicalize")
     /\ ~InRange /\ NextFunction
  \/ /\ Running("unreachable-elim")
     /\ reachable # {} \/ children[fn] = <<>>
     /\ SelectInSeq(children[fn], Doomed) = 0
     /\ NextFunction

KNext == MergeKernelStep \/ CanonicalizeStep \/ ReachStep \/ DeleteStep \/ FunctionDone

\* A kernel that has been called runs until it returns.
KSpec == KInit /\ [][KNext]_allVars /\ WF_allVars(KNext)

(***************************************************************************)
(* Properties.                                                             *)
(***************************************************************************)
\* cfg-canonicalize and unreachable-elim end, whatever the shape of the graph and
\* however the vector they index shrinks under them.  (block-merge may not: see
\* NeverHangs of WeaveIR.)
KernelReturns == kernel # "block-merge" => <>(pc \in {"done", "error"})

\* cfg-canonicalize ("Collapses linear control-flow chains into canonical
\* blocks") leaves no pair of distinct blocks that block-merge! would accept.
NoChainLeft ==
  pc = "done" /\ kernel = "cfg-canonicalize" =>
    \A b \in Ids : kind[b] = "block" =>
      \A c \in ToSet(Targets(b)) \ {b} : ~Mergeable(b, c)

\* unreachable-elim asks which blocks are reachable once, before its first
\* deletion, and uses the answer until its last: it is never stale.
ReachNotStale ==
  reachable # {} /\ fi <= Len(functions) => reachable = ReachableFrom(fn, children[fn][1])

\* unreachable-elim.scm: "Removes CFG blocks unreachable from each function entry."
\* It removes whole unreachable trees, also those that only deletions uncover; what
\* it leaves of the unreachable blocks lies on, or behind, a loop of them.
OnlyLoopsStay ==
  pc = "done" /\ kernel = "unreachable-elim" =>
    \A f \in ToSet(functions) :
      \A b \in ToSet(children[f]) \ ReachableFrom(f, children[f][1]) : Predecessors(b) # {}

\* .agents/SCHED.md: "builder-based mutation guarantee the IR is valid at every
\* commit point".  The one exception is a function that is nothing but a jump to
\* itself: block-merge deletes that block, and an empty function is left.
CommitValid ==
  pc = "done" /\ accepted =>
    Valid \/ (kernel = "block-merge" /\ \E f \in ToSet(functions) : children[f] = <<>>)

\* Each kernel leaves what its description says, although it edits the vectors it
\* walks: no chain to canonicalize, no unreachable tree, and nothing deleted on the
\* word of a set of reachable blocks that has gone stale.
KernelResults == NoChainLeft /\ OnlyLoopsStay /\ ReachNotStale

=============================================================================
