------------------------------ MODULE WeaveIR ------------------------------
(***************************************************************************)
(* The canonical in-memory Weave IR module (src/ir/ccw_ir.c): a node table *)
(* indexed by id, in which functions own a vector of blocks and blocks own *)
(* a vector of instructions, and the structural edits that a kernel makes  *)
(* through the Glue accessors.                                             *)
(*                                                                         *)
(* Abstractions.  Operand nodes are immutable and never die, so an operand *)
(* is its value: the name in a block operand, NoName for every other kind, *)
(* because the control flow graph depends on nothing else.  Types,         *)
(* parameters, attributes and constants are left out.  Node id 0 is nil,   *)
(* as in the code.                                                         *)
(***************************************************************************)
EXTENDS Naturals, Sequences, FiniteSets, SequencesExt

CONSTANTS
  MaxNodes,     \* bound on the node table (the code grows it until memory ends)
  MaxOperands,  \* bound on the operands of one instruction
  Names,        \* block, function and destination names
  MergeNames,   \* those names that contain ".merge"
  NoName,       \* the NULL name
  Opcodes       \* opcodes in use; Terminators says which of them end a block

ASSUME IRAssumption ==
  /\ MaxNodes \in Nat
  /\ MaxOperands \in Nat
  /\ NoName \notin Names
  /\ MergeNames \subseteq Names

Terminators == {"br", "ret", "br.cond", "switch"}
Kinds == {"dead", "function", "block", "instr"}
Ids == 1..MaxNodes

VARIABLES
  node_count,   \* ids 1..node_count have been handed out
  functions,    \* the module's functions, in order
  kind,         \* id -> kind; "dead" also for ids not handed out yet
  parent,       \* id -> block of an instruction, function of a block, or 0
  attached,     \* the instructions that are spliced into a block
  children,     \* id -> blocks of a function, instructions of a block
  opcode,       \* id -> opcode of an instruction
  operands,     \* id -> operands of an instruction
  name,         \* id -> function or block name, destination of an instruction
  call          \* "hung" when a call that never returns is in progress

vars == <<node_count, functions, kind, parent, attached, children, opcode,
          operands, name, call>>

Init ==
  /\ node_count = 0
  /\ functions = <<>>
  /\ kind = [i \in Ids |-> "dead"]
  /\ parent = [i \in Ids |-> 0]
  /\ attached = {}
  /\ children = [i \in Ids |-> <<>>]
  /\ opcode = [i \in Ids |-> NoName]
  /\ operands = [i \in Ids |-> <<>>]
  /\ name = [i \in Ids |-> NoName]
  /\ call = "returned"

(***************************************************************************)
(* Reading the graph.                                                      *)
(***************************************************************************)
\* ccw_ir_node_get_kind: a live node of kind k.
Live(n, k) == n \in Ids /\ kind[n] = k

\* ccw_ir_block_target: the first block of fn called nm, or nil.
BlockTarget(fn, nm) ==
  LET i == SelectInSeq(children[fn], LAMBDA b : name[b] = nm)
  IN  IF i = 0 THEN 0 ELSE children[fn][i]

\* The loop of ccw_ir_block_successors: what the operands resolve to, without the nils.
Resolving(ts) ==
  LET found[k \in 0..Len(ts)] == IF k = 0 THEN <<>>
                                 ELSE IF ts[k] = 0 THEN found[k - 1]
                                 ELSE Append(found[k - 1], ts[k])
  IN  found[Len(ts)]

\* The block operands of the terminator of blk that resolve, in order and
\* with repetitions; none when the last instruction is not a terminator.
Targets(blk) ==
  LET ops == operands[Last(children[blk])]
  IN  IF children[blk] # <<>> /\ opcode[Last(children[blk])] \in Terminators
      THEN Resolving([k \in DOMAIN ops |-> BlockTarget(parent[blk], ops[k])])
      ELSE <<>>

\* ccw_ir_block_successor_count calls the collector without an output vector,
\* so it does not see repetitions; ..._ref calls it with one, and does.
SuccessorCount(blk) == Len(Targets(blk))
FirstPositions(s) == {k \in DOMAIN s : \A j \in 1..(k-1) : s[j] # s[k]}
SuccessorRef(blk, idx) ==
  LET t == Targets(blk)
      k == {j \in FirstPositions(t) :
              Cardinality({p \in FirstPositions(t) : p < j}) = idx}
  IN  IF idx < SuccessorCount(blk) /\ k # {} THEN t[CHOOSE j \in k : TRUE] ELSE 0

\* ccw_ir_block_predecessor_count
Predecessors(blk) == {b \in ToSet(children[parent[blk]]) : blk \in ToSet(Targets(b))}

(***************************************************************************)
(* Construction.                                                           *)
(***************************************************************************)
\* ccw_ir_node_new, with the fields its callers fill in.
NewNode(k, nm, op, ops, par) ==
  LET n == node_count + 1
  IN  /\ node_count < MaxNodes
      /\ node_count' = n
      /\ kind' = [kind EXCEPT ![n] = k]
      /\ name' = [name EXCEPT ![n] = nm]
      /\ opcode' = [opcode EXCEPT ![n] = op]
      /\ operands' = [operands EXCEPT ![n] = ops]
      /\ parent' = [parent EXCEPT ![n] = par]
      /\ UNCHANGED call

FunctionAdd(nm) ==
  /\ NewNode("function", nm, NoName, <<>>, 0)
  /\ functions' = Append(functions, node_count + 1)
  /\ UNCHANGED <<children, attached>>

BlockAdd(fn, nm) ==
  /\ Live(fn, "function")
  /\ NewNode("block", nm, NoName, <<>>, fn)
  /\ children' = [children EXCEPT ![fn] = Append(@, node_count + 1)]
  /\ UNCHANGED <<functions, attached>>

\* Mutant: a free list hands out the ids of dead nodes again.
RecyclingInstrBuild(op) ==
  \E n \in 1..(node_count + 1) :
    /\ n <= MaxNodes /\ kind[n] = "dead"
    /\ node_count' = IF n > node_count THEN n ELSE node_count
    /\ kind' = [kind EXCEPT ![n] = "instr"]
    /\ name' = [name EXCEPT ![n] = NoName]
    /\ opcode' = [opcode EXCEPT ![n] = op]
    /\ operands' = [operands EXCEPT ![n] = <<>>]
    /\ parent' = [parent EXCEPT ![n] = 0]
    /\ UNCHANGED <<functions, children, attached, call>>

InstrBuild(op) ==
  /\ NewNode("instr", NoName, op, <<>>, 0)
  /\ UNCHANGED <<functions, children, attached>>

\* ccw_ir_build_syscall and ccw_ir_build_io: build, add the operands (none is a
\* block; one stands for all), append to blk.  The instruction stays behind,
\* detached, when an argument is no operand, or blk is nil or no live block.
BuildInto(blk, nm, op, argsOk) ==
  LET append == argsOk /\ Live(blk, "block")
      ops == IF argsOk THEN <<NoName>> ELSE <<>>
  IN  /\ NewNode("instr", nm, op, ops, IF append THEN blk ELSE 0)
      /\ attached' = IF append THEN attached \cup {node_count + 1} ELSE attached
      /\ children' = IF append THEN [children EXCEPT ![blk] = Append(@, node_count + 1)]
                               ELSE children
      /\ UNCHANGED functions

InstrSetDest(ins, nm) ==
  /\ Live(ins, "instr")
  /\ name' = [name EXCEPT ![ins] = nm]
  /\ UNCHANGED <<node_count, functions, kind, parent, attached, children,
                 opcode, operands, call>>

InstrAddOperand(ins, nm) ==
  /\ Live(ins, "instr")
  /\ Len(operands[ins]) < MaxOperands
  /\ operands' = [operands EXCEPT ![ins] = Append(@, nm)]
  /\ UNCHANGED <<node_count, functions, kind, parent, attached, children,
                 opcode, name, call>>

InstrSetOperand(ins, idx, nm) ==
  /\ Live(ins, "instr")
  /\ idx \in 1..Len(operands[ins])
  /\ operands' = [operands EXCEPT ![ins] = [@ EXCEPT ![idx] = nm]]
  /\ UNCHANGED <<node_count, functions, kind, parent, attached, children,
                 opcode, name, call>>

(***************************************************************************)
(* Structural edits.                                                       *)
(***************************************************************************)
Detached(ins) == Live(ins, "instr") /\ ins \notin attached
InBlock(ins) == Live(ins, "instr") /\ ins \in attached /\ Live(parent[ins], "block")

\* ccw_node_vec_index_of (1-based; 0 when absent)
IndexOf(blk, ins) == SelectInSeq(children[blk], LAMBDA c : c = ins)

BlockAppendInstr(blk, ins) ==
  /\ Live(blk, "block") /\ Detached(ins)
  /\ parent' = [parent EXCEPT ![ins] = blk]
  /\ attached' = attached \cup {ins}
  /\ children' = [children EXCEPT ![blk] = Append(@, ins)]
  /\ UNCHANGED <<node_count, functions, kind, opcode, operands, name, call>>

\* Mutant: the replaced instruction still counts as attached.
KeepingInstrReplace(old, new) ==
  /\ InBlock(old) /\ Detached(new)
  /\ IndexOf(parent[old], old) # 0
  /\ name' = [name EXCEPT ![new] = IF @ = NoName THEN name[old] ELSE @]
  /\ children' = [children EXCEPT
                    ![parent[old]] = [@ EXCEPT ![IndexOf(parent[old], old)] = new]]
  /\ parent' = [parent EXCEPT ![new] = parent[old], ![old] = 0]
  /\ attached' = attached \cup {new}
  /\ UNCHANGED <<node_count, functions, kind, opcode, operands, call>>

InstrReplace(old, new) ==
  /\ InBlock(old) /\ Detached(new)
  /\ IndexOf(parent[old], old) # 0
  /\ name' = [name EXCEPT ![new] = IF @ = NoName THEN name[old] ELSE @]
  /\ children' = [children EXCEPT
                    ![parent[old]] = [@ EXCEPT ![IndexOf(parent[old], old)] = new]]
  /\ parent' = [parent EXCEPT ![new] = parent[old], ![old] = 0]
  /\ attached' = (attached \cup {new}) \ {old}
  /\ UNCHANGED <<node_count, functions, kind, opcode, operands, call>>

InstrInsertBefore(anchor, new) ==
  /\ InBlock(anchor) /\ Detached(new)
  /\ IndexOf(parent[anchor], anchor) # 0
  /\ children' = [children EXCEPT
                    ![parent[anchor]] = InsertAt(@, IndexOf(parent[anchor], anchor), new)]
  /\ parent' = [parent EXCEPT ![new] = parent[anchor]]
  /\ attached' = attached \cup {new}
  /\ UNCHANGED <<node_count, functions, kind, opcode, operands, name, call>>

InstrDelete(ins) ==
  /\ InBlock(ins)
  /\ IndexOf(parent[ins], ins) # 0
  /\ children' = [children EXCEPT
                    ![parent[ins]] = RemoveAt(@, IndexOf(parent[ins], ins))]
  /\ attached' = attached \ {ins}
  /\ parent' = [parent EXCEPT ![ins] = 0]
  /\ UNCHANGED <<node_count, functions, kind, opcode, operands, name, call>>

\* Mutant: no look at the predecessors.
UncheckedBlockDelete(blk) ==
  /\ Live(blk, "block") /\ Live(parent[blk], "function")
  /\ IndexOf(parent[blk], blk) # 0
  /\ attached' = attached \ ToSet(children[blk])
  /\ kind' = [i \in Ids |-> IF i = blk \/ i \in ToSet(children[blk]) THEN "dead"
                                                                     ELSE kind[i]]
  /\ children' = [children EXCEPT
                    ![parent[blk]] = RemoveAt(@, IndexOf(parent[blk], blk))]
  /\ UNCHANGED <<node_count, functions, parent, opcode, operands, name, call>>

BlockDelete(blk) ==
  /\ Live(blk, "block") /\ Live(parent[blk], "function")
  /\ Predecessors(blk) = {}
  /\ IndexOf(parent[blk], blk) # 0
  /\ attached' = attached \ ToSet(children[blk])
  /\ kind' = [i \in Ids |-> IF i = blk \/ i \in ToSet(children[blk]) THEN "dead"
                                                                     ELSE kind[i]]
  /\ children' = [children EXCEPT
                    ![parent[blk]] = RemoveAt(@, IndexOf(parent[blk], blk))]
  /\ UNCHANGED <<node_count, functions, parent, opcode, operands, name, call>>

\* The guard of ccw_ir_block_merge.
Mergeable(first, second) ==
  /\ Live(first, "block") /\ Live(second, "block")
  /\ parent[first] = parent[second]
  /\ SuccessorCount(first) = 1
  /\ SuccessorRef(first, 0) = second
  /\ Cardinality(Predecessors(second)) = 1

\* Mutant: the instructions that move keep the block they came from as parent.
OrphaningBlockMerge(first, second) ==
  /\ Mergeable(first, second) /\ first # second
  /\ kind' = [kind EXCEPT ![Last(children[first])] = "dead", ![second] = "dead"]
  /\ attached' = attached \ {Last(children[first])}
  /\ children' = [children EXCEPT
       ![first] = Front(@) \o children[second],
       ![parent[first]] = RemoveAt(@, IndexOf(parent[first], second))]
  /\ UNCHANGED <<node_count, functions, parent, opcode, operands, name, call>>

\* The jump of first dies, the instructions of second move to first.  When the
\* two are one block with anything before the jump, the copying loop runs over
\* the vector it appends to and never ends.
BlockMerge(first, second) ==
  LET jump == Last(children[first])
      moved == children[second]
  IN  /\ Mergeable(first, second)
      /\ IF first = second /\ Len(children[first]) > 1
         THEN /\ call' = "hung"
              /\ UNCHANGED <<kind, attached, parent, children>>
         ELSE /\ call' = call
              /\ kind' = [kind EXCEPT ![jump] = "dead", ![second] = "dead"]
              /\ attached' = attached \ {jump}
              /\ parent' = [i \in Ids |-> IF i \in ToSet(moved) /\ i # jump
                                          THEN first ELSE parent[i]]
              /\ children' = [children EXCEPT
                   ![first] = Front(@) \o (IF first = second THEN <<>> ELSE moved),
                   ![parent[first]] = RemoveAt(@, IndexOf(parent[first], second))]
      /\ UNCHANGED <<node_count, functions, opcode, operands, name>>

Next ==
  /\ call = "returned"
  /\ \/ \E nm \in Names : FunctionAdd(nm)
     \/ \E fn \in Ids, nm \in Names : BlockAdd(fn, nm)
     \/ \E op \in Opcodes : InstrBuild(op)
     \/ \E blk \in Ids \cup {0}, op \in Opcodes \ Terminators,
          nm \in Names \cup {NoName}, argsOk \in BOOLEAN : BuildInto(blk, nm, op, argsOk)
     \/ \E ins \in Ids, nm \in Names \cup {NoName} : InstrSetDest(ins, nm)
     \/ \E ins \in Ids, nm \in Names \cup {NoName} : InstrAddOperand(ins, nm)
     \/ \E ins \in Ids, idx \in 1..MaxOperands, nm \in Names \cup {NoName} :
          InstrSetOperand(ins, idx, nm)
     \/ \E blk, ins \in Ids : BlockAppendInstr(blk, ins)
     \/ \E old, new \in Ids : InstrReplace(old, new)
     \/ \E anchor, new \in Ids : InstrInsertBefore(anchor, new)
     \/ \E ins \in Ids : InstrDelete(ins)
     \/ \E blk \in Ids : BlockDelete(blk)
     \/ \E first, second \in Ids : BlockMerge(first, second)

Spec == Init /\ [][Next]_vars

(***************************************************************************)
(* ccw_ir_validate, without the type and profile checks.                   *)
(***************************************************************************)
DistinctNames(s) == \A i, j \in DOMAIN s : name[s[i]] = name[s[j]] => i = j

ValidInstr(fn, blk, ins) ==
  /\ Live(ins, "instr") /\ ins \in attached /\ parent[ins] = blk
  /\ \A nm \in ToSet(operands[ins]) \ {NoName} : BlockTarget(fn, nm) # 0

ValidBlock(fn, i) ==
  LET blk == children[fn][i]
  IN  /\ children[blk] # <<>>
      /\ opcode[Last(children[blk])] \in Terminators
      /\ i > 1 => Predecessors(blk) # {} \/ name[blk] \in MergeNames
      /\ \A ins \in ToSet(children[blk]) : ValidInstr(fn, blk, ins)

ValidFunction(fn) ==
  /\ children[fn] # <<>>
  /\ DistinctNames(children[fn])
  /\ \A i \in DOMAIN children[fn] : ValidBlock(fn, i)

Valid == DistinctNames(functions) /\ \A fn \in ToSet(functions) : ValidFunction(fn)

(***************************************************************************)
(* Properties.                                                             *)
(***************************************************************************)
\* Every field of the node table keeps its type; nil is no node (ccw_ir_node).
TypeOK ==
  /\ node_count \in 0..MaxNodes
  /\ functions \in Seq(Ids)
  /\ kind \in [Ids -> Kinds]
  /\ parent \in [Ids -> Ids \cup {0}]
  /\ attached \subseteq Ids
  /\ children \in [Ids -> Seq(Ids)]
  /\ opcode \in [Ids -> Opcodes \cup {NoName}]
  /\ operands \in [Ids -> Seq(Names \cup {NoName})]
  /\ name \in [Ids -> Names \cup {NoName}]
  /\ call \in {"returned", "hung"}

\* An owner of kind k lists live nodes of kind c that name it as their parent,
\* none of them twice.
Lists(k, c) ==
  \A p \in Ids : kind[p] = k =>
    /\ \A i \in DOMAIN children[p] :
         kind[children[p][i]] = c /\ parent[children[p][i]] = p
    /\ \A i, j \in DOMAIN children[p] : children[p][i] = children[p][j] => i = j

\* n is listed by its parent, which is a live node of kind k.
ListedBy(k, n) ==
  /\ parent[n] \in Ids /\ kind[parent[n]] = k
  /\ \E i \in DOMAIN children[parent[n]] : children[parent[n]][i] = n

BlocksOwned == \A n \in Ids : kind[n] = "block" => ListedBy("function", n)
AttachedOwned == \A n \in attached : kind[n] = "instr" /\ ListedBy("block", n)
ListedAttached == \A p \in Ids : kind[p] = "block" =>
                    \A i \in DOMAIN children[p] : children[p][i] \in attached

\* The ids above node_count are untouched.
Fresh == \A i \in Ids : i > node_count => kind[i] = "dead" /\ children[i] = <<>>

\* The tree that every accessor walks is a tree.  A live block is in its
\* function exactly once; an instruction is attached exactly when it is in the
\* vector of the live block it calls its parent, and then exactly once; so no
\* sequence of splices, deletions and merges shares, loses or resurrects a node.
Ownership ==
  /\ Lists("function", "block")
  /\ Lists("block", "instr")
  /\ BlocksOwned
  /\ AttachedOwned
  /\ ListedAttached

\* What a step may do to the kind of an id that was handed out.
KindStep == \A i \in Ids : i <= node_count =>
              /\ kind'[i] \in {kind[i], "dead"}
              /\ kind[i] = "dead" => kind'[i] = "dead"
\* ccw_ir.h: "deleted node; id never reused".  A node that died stays dead, and
\* a live one never changes its kind otherwise.
DeadForever == [][KindStep]_vars

\* Deleting or merging blocks leaves the control flow graph of the others alone:
\* no surviving edge is lost or redirected, and a merged block leaves the way the
\* one it swallowed did (the preconditions of ccw_ir_block_delete and _merge).  An
\* empty block has no way out to take over: what stood before the jump is then last.
EdgesSurvive ==
  [][\A b \in Ids : kind[b] = "block" /\ kind'[b] = "dead" =>
       \A c \in Ids : kind'[c] = "block" =>
         IF children'[c] = children[c] THEN Targets(c)' = Targets(c)
         ELSE children[b] # <<>> => Targets(c)' = Targets(b)]_vars

\* No library call runs forever (docs/manual/36-errors.md: "Library code must
\* return an error rather than terminating the process.").
NeverHangs == call # "hung"

\* The node table is sound after any sequence of builds, splices, deletions and
\* merges (ccw_ir.c): fields have their types, functions list blocks and blocks list
\* instructions, each exactly once, and parents and the attached flag agree with that.
TableSound == TypeOK /\ Ownership

=============================================================================
