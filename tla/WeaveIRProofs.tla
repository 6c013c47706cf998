--------------------------- MODULE WeaveIRProofs ---------------------------
(***************************************************************************)
(* Proofs about the node table of WeaveIR, for every table size and every  *)
(* set of names and opcodes.                                               *)
(***************************************************************************)
EXTENDS WeaveIR, SequenceLemmas, FiniteSetTheorems, TLAPS

\* ccw_node_vec_index_of finds a node exactly when it is there.
LEMMA IndexOfProperties ==
  ASSUME TypeOK, NEW b \in Ids, NEW n
  PROVE  /\ IndexOf(b, n) \in 0..Len(children[b])
         /\ IndexOf(b, n) # 0 => children[b][IndexOf(b, n)] = n
         /\ (\E j \in DOMAIN children[b] : children[b][j] = n) => IndexOf(b, n) # 0
<1> DEFINE I == {j \in 1..Len(children[b]) : children[b][j] = n}
<1>1. children[b] \in Seq(Ids)
  BY DEF TypeOK
<1>2. IndexOf(b, n) = IF I # {} THEN Min(I) ELSE 0
  BY DEF IndexOf, SelectInSeq
<1>3. ASSUME I # {} PROVE Min(I) \in I
  <2>1. I \subseteq Nat
    BY <1>1
  <2>2. \E x \in I : \A y \in I : x <= y
    BY <2>1, <1>3, LeastNatural
  <2>3. QED
    BY <2>2 DEF Min
<1>4. QED
  BY <1>1, <1>2, <1>3

(***************************************************************************)
(* The inductive invariant.  Ownership needs the types of the fields, and  *)
(* that an id which was never handed out is in nobody's vector.            *)
(***************************************************************************)
IInv == TypeOK /\ Fresh /\ Ownership

\* An empty module satisfies it.
LEMMA InitIInv == Init => IInv
BY IRAssumption DEF Init, IInv, TypeOK, Fresh, Ownership, Lists, BlocksOwned,
                    AttachedOwned, ListedAttached, Ids, Kinds

\* What every vector and set of the table holds.
LEMMA Typing ==
  ASSUME TypeOK
  PROVE  /\ \A p \in Ids : \A j \in DOMAIN children[p] : children[p][j] \in Ids
         /\ attached \subseteq Ids
BY DEF TypeOK

(***************************************************************************)
(* Construction.                                                           *)
(***************************************************************************)
\* What ccw_ir_node_new and its caller leave behind.
Created(n, k, par) ==
  /\ n \in Ids /\ kind[n] = "dead" /\ children[n] = <<>>
  /\ node_count' = n
  /\ \A j \in Ids : kind'[j] = IF j = n THEN k ELSE kind[j]
  /\ \A j \in Ids : parent'[j] = IF j = n THEN par ELSE parent[j]

FieldTypes ==
  /\ node_count \in 0..MaxNodes
  /\ kind \in [Ids -> Kinds]
  /\ parent \in [Ids -> Ids \cup {0}]
  /\ opcode \in [Ids -> Opcodes \cup {NoName}]
  /\ operands \in [Ids -> Seq(Names \cup {NoName})]
  /\ name \in [Ids -> Names \cup {NoName}]
  /\ call \in {"returned", "hung"}

\* ccw_ir_node_new gives out the next id and touches no other node.
LEMMA NewNodeFacts ==
  ASSUME IInv, NEW k \in Kinds, NEW nm \in Names \cup {NoName},
         NEW op \in Opcodes \cup {NoName}, NEW ops \in Seq(Names \cup {NoName}),
         NEW par \in Ids \cup {0}, NewNode(k, nm, op, ops, par)
  PROVE  Created(node_count + 1, k, par) /\ FieldTypes'
<1> DEFINE n == node_count + 1
<1> USE DEF NewNode
<1>1. n \in Ids /\ kind[n] = "dead" /\ children[n] = <<>>
  BY IRAssumption DEF IInv, TypeOK, Fresh, Ids
<1>2. node_count' = n /\ node_count' \in 0..MaxNodes
  BY IRAssumption DEF IInv, TypeOK
<1>3. kind' \in [Ids -> Kinds] /\ \A j \in Ids : kind'[j] = IF j = n THEN k ELSE kind[j]
  BY <1>1 DEF IInv, TypeOK
<1>4. /\ parent' \in [Ids -> Ids \cup {0}]
      /\ \A j \in Ids : parent'[j] = IF j = n THEN par ELSE parent[j]
  BY <1>1 DEF IInv, TypeOK
<1>5. opcode' \in [Ids -> Opcodes \cup {NoName}]
  BY <1>1 DEF IInv, TypeOK
<1>6. operands' \in [Ids -> Seq(Names \cup {NoName})]
  BY <1>1 DEF IInv, TypeOK
<1>7. name' \in [Ids -> Names \cup {NoName}] /\ call' \in {"returned", "hung"}
  BY <1>1 DEF IInv, TypeOK
<1>8. QED
  BY <1>1, <1>2, <1>3, <1>4, <1>5, <1>6, <1>7 DEF Created, FieldTypes

\* An empty vector for every id above the new node.
LEMMA FreshAfterNew ==
  ASSUME IInv, NEW n \in Ids, n = node_count + 1, node_count' = n,
         \A j \in Ids : j # n => kind'[j] = kind[j],
         \A j \in Ids : kind[j] = "dead" /\ j # n => children'[j] = children[j]
  PROVE  Fresh'
BY DEF IInv, TypeOK, Fresh, Ids

\* ccw_ir_function_add: a new function has no blocks and no owner.
LEMMA FunctionAddIInv ==
  ASSUME IInv, NEW nm \in Names, FunctionAdd(nm)
  PROVE  IInv'
<1> DEFINE n == node_count + 1
<1>1. NewNode("function", nm, NoName, <<>>, 0)
  BY DEF FunctionAdd
<1>2. "function" \in Kinds /\ <<>> \in Seq(Names \cup {NoName})
  BY DEF Kinds
<1>3. Created(n, "function", 0) /\ FieldTypes'
  BY <1>1, <1>2, NewNodeFacts
<1>4. attached' = attached /\ children' = children /\ functions' = Append(functions, n)
  BY DEF FunctionAdd
<1>5. TypeOK'
  <2>1. functions' \in Seq(Ids)
    BY <1>3, <1>4 DEF IInv, TypeOK, Created
  <2>2. QED
    BY <1>3, <1>4, <2>1 DEF IInv, TypeOK, FieldTypes
<1>6. Fresh'
  BY <1>3, <1>4, FreshAfterNew DEF Created
<1>t. /\ Ownership
      /\ \A p \in Ids : \A j \in DOMAIN children[p] : children[p][j] \in Ids
      /\ attached \subseteq Ids
  BY Typing DEF IInv
<1> HIDE DEF n
<1>7. Lists("function", "block")' /\ Lists("block", "instr")'
  BY <1>3, <1>4, <1>t DEF Ownership, Lists, Created
<1>8. BlocksOwned'
  BY <1>3, <1>4, <1>t DEF Ownership, BlocksOwned, ListedBy, Created
<1>9. AttachedOwned'
  BY <1>3, <1>4, <1>t DEF Ownership, AttachedOwned, ListedBy, Created
<1>10. ListedAttached'
  BY <1>3, <1>4, <1>t DEF Ownership, ListedAttached, Created
<1>11. QED
  BY <1>5, <1>6, <1>7, <1>8, <1>9, <1>10 DEF IInv, Ownership

\* The vector of p grows by n at its end.
Appended(p, n) ==
  /\ \A q \in Ids : q # p => children'[q] = children[q]
  /\ DOMAIN children[p] = 1..Len(children[p]) /\ Len(children[p]) \in Nat
  /\ DOMAIN children'[p] = 1..(Len(children[p]) + 1)
  /\ \A j \in 1..Len(children[p]) : children'[p][j] = children[p][j]
  /\ children'[p][Len(children[p]) + 1] = n

\* A vector push, index by index.
LEMMA AppendedFacts ==
  ASSUME TypeOK, NEW p \in Ids, NEW n \in Ids,
         children' = [children EXCEPT ![p] = Append(@, n)]
  PROVE  Appended(p, n) /\ children' \in [Ids -> Seq(Ids)]
BY DEF TypeOK, Appended

\* ccw_ir_block_add: the new block is listed once, last, by its function.
LEMMA BlockAddIInv ==
  ASSUME IInv, NEW f \in Ids, NEW nm \in Names, BlockAdd(f, nm)
  PROVE  IInv'
<1> DEFINE n == node_count + 1
<1>1. kind[f] = "function" /\ NewNode("block", nm, NoName, <<>>, f)
  BY DEF BlockAdd, Live
<1>2. "block" \in Kinds /\ <<>> \in Seq(Names \cup {NoName})
  BY DEF Kinds
<1>3. Created(n, "block", f) /\ FieldTypes'
  BY <1>1, <1>2, NewNodeFacts
<1>4. attached' = attached /\ Appended(f, n)
  BY <1>3, AppendedFacts DEF BlockAdd, Created, IInv
<1>5. TypeOK'
  BY <1>3, <1>4, AppendedFacts DEF IInv, TypeOK, FieldTypes, BlockAdd, Created
<1>6. Fresh'
  BY <1>1, <1>3, <1>4, FreshAfterNew DEF Created, Appended
<1>t. /\ Ownership
      /\ \A p \in Ids : \A j \in DOMAIN children[p] : children[p][j] \in Ids
      /\ attached \subseteq Ids
  BY Typing DEF IInv
<1> HIDE DEF n
<1>7. Lists("function", "block")'
  <2>1. ASSUME NEW p \in Ids, kind'[p] = "function", NEW j \in DOMAIN children'[p]
        PROVE  kind'[children'[p][j]] = "block" /\ parent'[children'[p][j]] = p
    BY <2>1, <1>1, <1>3, <1>4, <1>t DEF Ownership, Lists, Created, Appended
  <2>2. ASSUME NEW p \in Ids, kind'[p] = "function",
               NEW i \in DOMAIN children'[p], NEW j \in DOMAIN children'[p],
               children'[p][i] = children'[p][j]
        PROVE  i = j
    <3>1. \A l \in DOMAIN children[f] : children[f][l] # n
      BY <1>1, <1>3, <1>t DEF Ownership, Lists, Created
    <3>2. CASE p = f
      BY <2>2, <3>1, <3>2, <1>1, <1>4, <1>t DEF Ownership, Lists, Appended
    <3>3. CASE p # f
      BY <2>2, <3>3, <1>3, <1>4, <1>t DEF Ownership, Lists, Created, Appended
    <3>4. QED
      BY <3>2, <3>3
  <2>3. QED
    BY <2>1, <2>2 DEF Lists
<1>8. Lists("block", "instr")'
  BY <1>1, <1>3, <1>4, <1>t DEF Ownership, Lists, Created, Appended
<1>9. BlocksOwned'
  BY <1>1, <1>3, <1>4, <1>t DEF Ownership, BlocksOwned, ListedBy, Created, Appended
<1>10. AttachedOwned'
  BY <1>1, <1>3, <1>4, <1>t DEF Ownership, AttachedOwned, ListedBy, Created, Appended
<1>11. ListedAttached'
  BY <1>1, <1>3, <1>4, <1>t DEF Ownership, ListedAttached, Created, Appended
<1>12. QED
  BY <1>5, <1>6, <1>7, <1>8, <1>9, <1>10, <1>11 DEF IInv, Ownership

\* A vector of distinct nodes stays one when a node that it lacks is appended.
LEMMA AppendedDistinct ==
  ASSUME NEW p \in Ids, NEW n, Appended(p, n),
         \A j \in DOMAIN children[p] : children[p][j] # n,
         \A i, j \in DOMAIN children[p] : children[p][i] = children[p][j] => i = j
  PROVE  \A i, j \in DOMAIN children'[p] : children'[p][i] = children'[p][j] => i = j
BY DEF Appended

\* ccw_ir_instr_build, and a build function that gives up: an instruction that
\* no block lists.
LEMMA InstrBuildIInv ==
  ASSUME IInv, NEW nm \in Names \cup {NoName}, NEW op \in Opcodes,
         NEW ops \in Seq(Names \cup {NoName}),
         NewNode("instr", nm, op, ops, 0),
         UNCHANGED <<functions, children, attached>>
  PROVE  IInv'
<1> DEFINE n == node_count + 1
<1>1. "instr" \in Kinds
  BY DEF Kinds
<1>2. Created(n, "instr", 0) /\ FieldTypes'
  BY <1>1, NewNodeFacts
<1>3. TypeOK'
  BY <1>2 DEF IInv, TypeOK, FieldTypes
<1>4. Fresh'
  BY <1>2, FreshAfterNew DEF Created
<1>t. /\ Ownership
      /\ \A p \in Ids : \A j \in DOMAIN children[p] : children[p][j] \in Ids
      /\ attached \subseteq Ids
  BY Typing DEF IInv
<1> HIDE DEF n
<1>5. Lists("function", "block")' /\ Lists("block", "instr")'
  BY <1>2, <1>t DEF Ownership, Lists, Created
<1>6. BlocksOwned'
  BY <1>2, <1>t DEF Ownership, BlocksOwned, ListedBy, Created
<1>7. AttachedOwned'
  BY <1>2, <1>t DEF Ownership, AttachedOwned, ListedBy, Created
<1>8. ListedAttached'
  BY <1>2, <1>t DEF Ownership, ListedAttached, Created
<1>9. QED
  BY <1>3, <1>4, <1>5, <1>6, <1>7, <1>8 DEF IInv, Ownership

\* The ccw_ir_build_* functions: built, then appended or left without a block.
LEMMA BuildIntoIInv ==
  ASSUME IInv, NEW b \in Ids \cup {0}, NEW nm \in Names \cup {NoName},
         NEW op \in Opcodes, NEW argsOk \in BOOLEAN, BuildInto(b, nm, op, argsOk)
  PROVE  IInv'
<1> DEFINE n == node_count + 1
           append == argsOk /\ Live(b, "block")
           ops == IF argsOk THEN <<NoName>> ELSE <<>>
<1>1. ops \in Seq(Names \cup {NoName})
  <2>1. <<NoName>> \in Seq(Names \cup {NoName}) /\ <<>> \in Seq(Names \cup {NoName})
    OBVIOUS
  <2>2. QED
    BY <2>1, Zenon
<1>2. CASE ~append
  <2>1. NewNode("instr", nm, op, ops, 0) /\ UNCHANGED <<functions, children, attached>>
    BY <1>2 DEF BuildInto
  <2>2. QED
    BY <1>1, <2>1, InstrBuildIInv
<1>3. CASE append
  <2>1. /\ b \in Ids /\ kind[b] = "block" /\ NewNode("instr", nm, op, ops, b)
        /\ functions' = functions
        /\ children' = [children EXCEPT ![b] = Append(@, n)]
        /\ attached' = attached \cup {n}
    BY <1>3 DEF BuildInto, Live
  <2> HIDE DEF ops, append
  <2>2. "instr" \in Kinds
    BY DEF Kinds
  <2>3. Created(n, "instr", b) /\ FieldTypes'
    BY <1>1, <2>1, <2>2, NewNodeFacts
  <2>4. children' \in [Ids -> Seq(Ids)]
    BY <2>1, <2>3, AppendedFacts DEF Created, IInv
  <2>5. TypeOK'
    BY <2>1, <2>3, <2>4 DEF IInv, TypeOK, FieldTypes, Created
  <2>6. Appended(b, n)
    BY <2>1, <2>3, AppendedFacts DEF Created, IInv
  <2>7. Fresh'
    BY <2>1, <2>3, <2>6, FreshAfterNew DEF Created, Appended
  <2>t. /\ Ownership
        /\ \A p \in Ids : \A j \in DOMAIN children[p] : children[p][j] \in Ids
        /\ attached \subseteq Ids
    BY Typing DEF IInv
  <2> HIDE DEF n
  <2>8. Lists("function", "block")'
    BY <2>1, <2>3, <2>6, <2>t DEF Ownership, Lists, Created, Appended
  <2>9. Lists("block", "instr")'
    <3>1. \A l \in DOMAIN children[b] : children[b][l] # n
      BY <2>1, <2>3, <2>t DEF Ownership, Lists, Created
    <3>2. \A i, j \in DOMAIN children'[b] : children'[b][i] = children'[b][j] => i = j
      BY <2>1, <2>6, <2>t, <3>1, AppendedDistinct DEF Ownership, Lists
    <3>3. ASSUME NEW p \in Ids, kind'[p] = "block", NEW j \in DOMAIN children'[p]
          PROVE  kind'[children'[p][j]] = "instr" /\ parent'[children'[p][j]] = p
      BY <3>3, <2>1, <2>3, <2>6, <2>t DEF Ownership, Lists, Created, Appended
    <3>4. ASSUME NEW p \in Ids, kind'[p] = "block", p # b
          PROVE  \A i, j \in DOMAIN children'[p] : children'[p][i] = children'[p][j] => i = j
      BY <3>4, <2>1, <2>3, <2>6, <2>t DEF Ownership, Lists, Created, Appended
    <3>5. QED
      BY <3>2, <3>3, <3>4 DEF Lists
  <2>10. BlocksOwned'
    BY <2>1, <2>3, <2>6, <2>t DEF Ownership, BlocksOwned, ListedBy, Created, Appended
  <2>11. AttachedOwned'
    BY <2>1, <2>3, <2>6, <2>t DEF Ownership, AttachedOwned, ListedBy, Created, Appended
  <2>12. ListedAttached'
    BY <2>1, <2>3, <2>6, <2>t DEF Ownership, ListedAttached, Created, Appended
  <2>13. QED
    BY <2>5, <2>7, <2>8, <2>9, <2>10, <2>11, <2>12 DEF IInv, Ownership
<1>4. QED
  BY <1>2, <1>3

(***************************************************************************)
(* Edits that keep every node's kind.                                      *)
(***************************************************************************)
LEMMA FreshAfterEdit ==
  ASSUME IInv, node_count' = node_count,
         \A j \in Ids : kind[j] = "dead" => kind'[j] = "dead" /\ children'[j] = children[j]
  PROVE  Fresh'
BY DEF IInv, TypeOK, Fresh, Ids

\* A detached instruction is in no vector.
LEMMA DetachedUnlisted ==
  ASSUME Ownership, NEW n \in Ids, kind[n] = "instr", n \notin attached
  PROVE  /\ \A p \in Ids : kind[p] \in {"function", "block"} =>
              \A j \in DOMAIN children[p] : children[p][j] # n
BY DEF Ownership, Lists, ListedAttached

\* ccw_ir_block_append_instr: an instruction that no block lists is listed by one.
LEMMA BlockAppendInstrIInv ==
  ASSUME IInv, NEW b \in Ids, NEW n \in Ids, BlockAppendInstr(b, n)
  PROVE  IInv'
<1>1. /\ kind[b] = "block" /\ kind[n] = "instr" /\ n \notin attached
      /\ kind' = kind /\ attached' = attached \cup {n}
      /\ node_count' = node_count
      /\ children' = [children EXCEPT ![b] = Append(@, n)]
  BY DEF BlockAppendInstr, Live, Detached
<1>2. \A j \in Ids : parent'[j] = IF j = n THEN b ELSE parent[j]
  BY DEF BlockAppendInstr, IInv, TypeOK
<1>3. Appended(b, n)
  BY <1>1, AppendedFacts DEF IInv
<1>4. TypeOK'
  <2>1. parent' \in [Ids -> Ids \cup {0}]
    BY DEF BlockAppendInstr, IInv, TypeOK
  <2>2. children' \in [Ids -> Seq(Ids)]
    BY <1>1, AppendedFacts DEF IInv
  <2>3. QED
    BY <1>1, <2>1, <2>2 DEF BlockAppendInstr, IInv, TypeOK
<1>5. Fresh'
  BY <1>1, <1>3, FreshAfterEdit DEF Appended
<1>t. /\ Ownership
      /\ \A p \in Ids : \A j \in DOMAIN children[p] : children[p][j] \in Ids
      /\ attached \subseteq Ids
  BY Typing DEF IInv
<1>u. \A p \in Ids : kind[p] \in {"function", "block"} =>
         \A j \in DOMAIN children[p] : children[p][j] # n
  BY <1>1, <1>t, DetachedUnlisted
<1>6. Lists("function", "block")'
  BY <1>1, <1>2, <1>3, <1>t, <1>u DEF Ownership, Lists, Appended
<1>7. Lists("block", "instr")'
  <2>1. \A i, j \in DOMAIN children'[b] : children'[b][i] = children'[b][j] => i = j
    BY <1>1, <1>3, <1>t, <1>u, AppendedDistinct DEF Ownership, Lists
  <2>2. ASSUME NEW p \in Ids, kind'[p] = "block", NEW j \in DOMAIN children'[p]
        PROVE  kind'[children'[p][j]] = "instr" /\ parent'[children'[p][j]] = p
    BY <2>2, <1>1, <1>2, <1>3, <1>t, <1>u DEF Ownership, Lists, Appended
  <2>3. ASSUME NEW p \in Ids, kind'[p] = "block", p # b
        PROVE  \A i, j \in DOMAIN children'[p] : children'[p][i] = children'[p][j] => i = j
    BY <2>3, <1>1, <1>3, <1>t DEF Ownership, Lists, Appended
  <2>4. QED
    BY <2>1, <2>2, <2>3 DEF Lists
<1>8. BlocksOwned'
  BY <1>1, <1>2, <1>3, <1>t DEF Ownership, BlocksOwned, ListedBy, Appended
<1>9. AttachedOwned'
  BY <1>1, <1>2, <1>3, <1>t DEF Ownership, AttachedOwned, ListedBy, Appended
<1>10. ListedAttached'
  BY <1>1, <1>2, <1>3, <1>t DEF Ownership, ListedAttached, Appended
<1>11. QED
  BY <1>4, <1>5, <1>6, <1>7, <1>8, <1>9, <1>10 DEF IInv, Ownership

\* ccw_ir_instr_replace: the old instruction leaves the table where the new one
\* enters the block.
LEMMA InstrReplaceIInv ==
  ASSUME IInv, NEW o \in Ids, NEW n \in Ids, InstrReplace(o, n)
  PROVE  IInv'
<1> DEFINE b == parent[o]
           k == IndexOf(b, o)
<1>1. /\ kind[o] = "instr" /\ o \in attached /\ b \in Ids /\ kind[b] = "block"
      /\ kind[n] = "instr" /\ n \notin attached
      /\ kind' = kind /\ attached' = (attached \cup {n}) \ {o}
      /\ node_count' = node_count /\ k # 0
  BY DEF InstrReplace, Live, InBlock, Detached
<1>2. \A j \in Ids : parent'[j] = IF j = n THEN b ELSE IF j = o THEN 0 ELSE parent[j]
  BY <1>1 DEF InstrReplace, IInv, TypeOK
<1>3. k \in 1..Len(children[b]) /\ k \in DOMAIN children[b] /\ children[b][k] = o
  BY <1>1, IndexOfProperties DEF IInv, TypeOK
<1>4. /\ \A q \in Ids : q # b => children'[q] = children[q]
      /\ DOMAIN children'[b] = DOMAIN children[b]
      /\ \A j \in DOMAIN children[b] : children'[b][j] = IF j = k THEN n ELSE children[b][j]
  BY <1>1, <1>3 DEF InstrReplace, IInv, TypeOK
<1>5. TypeOK'
  <2>1. parent' \in [Ids -> Ids \cup {0}]
    BY <1>1 DEF InstrReplace, IInv, TypeOK
  <2>2. children' \in [Ids -> Seq(Ids)]
    BY <1>1, <1>3 DEF InstrReplace, IInv, TypeOK
  <2>3. name' \in [Ids -> Names \cup {NoName}]
    BY DEF InstrReplace, IInv, TypeOK
  <2>4. QED
    BY <1>1, <2>1, <2>2, <2>3 DEF InstrReplace, IInv, TypeOK
<1>6. Fresh'
  BY <1>1, <1>4, FreshAfterEdit
<1>t. /\ Ownership
      /\ \A p \in Ids : \A j \in DOMAIN children[p] : children[p][j] \in Ids
      /\ attached \subseteq Ids
  BY Typing DEF IInv
<1>u. \A p \in Ids : kind[p] \in {"function", "block"} =>
         \A j \in DOMAIN children[p] : children[p][j] # n
  BY <1>1, <1>t, DetachedUnlisted
<1> HIDE DEF b, k
<1>7. Lists("function", "block")'
  BY <1>1, <1>2, <1>4, <1>t, <1>u DEF Ownership, Lists
<1>8. Lists("block", "instr")'
  <2>1. ASSUME NEW p \in Ids, kind'[p] = "block", NEW j \in DOMAIN children'[p]
        PROVE  kind'[children'[p][j]] = "instr" /\ parent'[children'[p][j]] = p
    BY <2>1, <1>1, <1>2, <1>3, <1>4, <1>t, <1>u DEF Ownership, Lists
  <2>2. ASSUME NEW p \in Ids, kind'[p] = "block",
               NEW i \in DOMAIN children'[p], NEW j \in DOMAIN children'[p],
               children'[p][i] = children'[p][j]
        PROVE  i = j
    BY <2>2, <1>1, <1>3, <1>4, <1>t, <1>u DEF Ownership, Lists
  <2>3. QED
    BY <2>1, <2>2 DEF Lists
<1>9. BlocksOwned'
  BY <1>1, <1>2, <1>4, <1>t DEF Ownership, BlocksOwned, ListedBy
<1>10. AttachedOwned'
  BY <1>1, <1>2, <1>3, <1>4, <1>t DEF Ownership, AttachedOwned, ListedBy
<1>11. ListedAttached'
  BY <1>1, <1>2, <1>3, <1>4, <1>t DEF Ownership, Lists, ListedAttached
<1>12. QED
  BY <1>5, <1>6, <1>7, <1>8, <1>9, <1>10, <1>11 DEF IInv, Ownership

\* The vector of p loses its position k.
Removed(p, k) ==
  /\ k \in 1..Len(children[p]) /\ Len(children[p]) \in Nat
  /\ DOMAIN children[p] = 1..Len(children[p])
  /\ DOMAIN children'[p] = 1..(Len(children[p]) - 1)
  /\ \A j \in 1..(Len(children[p]) - 1) :
       children'[p][j] = IF j < k THEN children[p][j] ELSE children[p][j + 1]

\* What remains was there, still distinct, and only position k is missing.
LEMMA RemovedFacts ==
  ASSUME NEW p \in Ids, NEW k, Removed(p, k),
         \A i, j \in DOMAIN children[p] : children[p][i] = children[p][j] => i = j
  PROVE  /\ \A j \in DOMAIN children'[p] :
              \E i \in DOMAIN children[p] : i # k /\ children'[p][j] = children[p][i]
         /\ \A i \in DOMAIN children[p] : i # k =>
              \E j \in DOMAIN children'[p] : children'[p][j] = children[p][i]
         /\ \A i, j \in DOMAIN children'[p] : children'[p][i] = children'[p][j] => i = j
         /\ \A j \in DOMAIN children'[p] : children'[p][j] # children[p][k]
<1>1. ASSUME NEW j \in DOMAIN children'[p]
      PROVE  \E i \in DOMAIN children[p] : i # k /\ children'[p][j] = children[p][i]
  <2>1. CASE j < k
    BY <2>1 DEF Removed
  <2>2. CASE ~(j < k)
    <3>1. j + 1 \in DOMAIN children[p] /\ j + 1 # k /\ children'[p][j] = children[p][j + 1]
      BY <2>2 DEF Removed
    <3>2. QED
      BY <3>1
  <2>3. QED
    BY <2>1, <2>2
<1>2. ASSUME NEW i \in DOMAIN children[p], i # k
      PROVE  \E j \in DOMAIN children'[p] : children'[p][j] = children[p][i]
  <2>1. CASE i < k
    BY <2>1 DEF Removed
  <2>2. CASE ~(i < k)
    <3>1. i - 1 \in DOMAIN children'[p] /\ children'[p][i - 1] = children[p][i]
      BY <2>2, <1>2 DEF Removed
    <3>2. QED
      BY <3>1
  <2>3. QED
    BY <2>1, <2>2
<1>3. ASSUME NEW i \in DOMAIN children'[p], NEW j \in DOMAIN children'[p],
             children'[p][i] = children'[p][j]
      PROVE  i = j
  <2>1. CASE i < k /\ j < k
    BY <2>1, <1>3 DEF Removed
  <2>2. CASE i < k /\ ~(j < k)
    <3>1. j + 1 \in DOMAIN children[p] /\ i \in DOMAIN children[p]
      BY <2>2 DEF Removed
    <3>2. children[p][i] = children[p][j + 1]
      BY <2>2, <1>3 DEF Removed
    <3>3. i = j + 1
      BY <3>1, <3>2
    <3>4. QED
      BY <2>2, <3>3 DEF Removed
  <2>3. CASE ~(i < k) /\ j < k
    <3>1. i + 1 \in DOMAIN children[p] /\ j \in DOMAIN children[p]
      BY <2>3 DEF Removed
    <3>2. children[p][i + 1] = children[p][j]
      BY <2>3, <1>3 DEF Removed
    <3>3. i + 1 = j
      BY <3>1, <3>2
    <3>4. QED
      BY <2>3, <3>3 DEF Removed
  <2>4. CASE ~(i < k) /\ ~(j < k)
    <3>1. /\ children[p][i + 1] = children[p][j + 1]
          /\ i + 1 \in DOMAIN children[p] /\ j + 1 \in DOMAIN children[p]
      BY <2>4, <1>3 DEF Removed
    <3>2. i + 1 = j + 1
      BY <3>1
    <3>3. QED
      BY <3>2 DEF Removed
  <2>5. QED
    BY <2>1, <2>2, <2>3, <2>4
<1>4. ASSUME NEW j \in DOMAIN children'[p] PROVE children'[p][j] # children[p][k]
  <2>1. PICK i \in DOMAIN children[p] : i # k /\ children'[p][j] = children[p][i]
    BY <1>1
  <2>2. k \in DOMAIN children[p]
    BY DEF Removed
  <2>3. QED
    BY <2>1, <2>2
<1>5. QED
  BY <1>1, <1>2, <1>3, <1>4

\* ccw_ir_instr_delete closes the gap and leaves the others listed once.
LEMMA InstrDeleteIInv ==
  ASSUME IInv, NEW n \in Ids, InstrDelete(n)
  PROVE  IInv'
<1> DEFINE b == parent[n]
           k == IndexOf(b, n)
<1>1. /\ kind[n] = "instr" /\ n \in attached /\ b \in Ids /\ kind[b] = "block"
      /\ kind' = kind /\ attached' = attached \ {n}
      /\ node_count' = node_count /\ k # 0 /\ parent[n] = b
      /\ children' = [children EXCEPT ![b] = RemoveAt(@, k)]
  BY DEF InstrDelete, Live, InBlock
<1>2. \A j \in Ids : parent'[j] = IF j = n THEN 0 ELSE parent[j]
  BY DEF InstrDelete, IInv, TypeOK
<1>3. k \in 1..Len(children[b]) /\ children[b] \in Seq(Ids) /\ children[b][k] = n
  BY <1>1, IndexOfProperties DEF IInv, TypeOK
<1>4. /\ RemoveAt(children[b], k) \in Seq(Ids)
      /\ Len(RemoveAt(children[b], k)) = Len(children[b]) - 1
      /\ \A j \in 1..(Len(children[b]) - 1) :
           RemoveAt(children[b], k)[j]
             = IF j < k THEN children[b][j] ELSE children[b][j + 1]
  BY <1>3, RemoveAtProperties
<1> HIDE DEF k, b
<1>5. /\ \A q \in Ids : q # b => children'[q] = children[q]
      /\ children'[b] = RemoveAt(children[b], k)
  BY <1>1 DEF IInv, TypeOK
<1>6. Removed(b, k)
  <2> DEFINE s == children[b]
             t == RemoveAt(s, k)
  <2>1. /\ Len(s) \in Nat /\ DOMAIN s = 1..Len(s) /\ k \in 1..Len(s)
        /\ DOMAIN t = 1..(Len(s) - 1)
        /\ \A j \in 1..(Len(s) - 1) : t[j] = IF j < k THEN s[j] ELSE s[j + 1]
    BY <1>3, <1>4, LenProperties
  <2>2. children'[b] = t
    BY <1>5
  <2> HIDE DEF t
  <2>3. QED
    BY <2>1, <2>2 DEF Removed
<1>7. TypeOK'
  <2>1. parent' \in [Ids -> Ids \cup {0}]
    BY DEF InstrDelete, IInv, TypeOK
  <2>2. children' \in [Ids -> Seq(Ids)]
    BY <1>1, <1>4 DEF IInv, TypeOK
  <2>3. QED
    BY <1>1, <2>1, <2>2 DEF InstrDelete, IInv, TypeOK
<1>8. Fresh'
  BY <1>1, <1>5, FreshAfterEdit
<1>t. /\ Ownership
      /\ \A p \in Ids : \A j \in DOMAIN children[p] : children[p][j] \in Ids
      /\ attached \subseteq Ids
  BY Typing DEF IInv
<1>9. /\ \A j \in DOMAIN children'[b] :
           \E i \in DOMAIN children[b] : i # k /\ children'[b][j] = children[b][i]
      /\ \A i \in DOMAIN children[b] : i # k =>
           \E j \in DOMAIN children'[b] : children'[b][j] = children[b][i]
      /\ \A i, j \in DOMAIN children'[b] : children'[b][i] = children'[b][j] => i = j
      /\ \A j \in DOMAIN children'[b] : children'[b][j] # n
  BY <1>1, <1>3, <1>6, <1>t, RemovedFacts DEF Ownership, Lists
<1>10. \A q \in Ids : q # b => children'[q] = children[q]
  BY <1>5
<1>11. children[b][k] = n
  BY <1>3
<1>12. Lists("function", "block")'
  BY <1>1, <1>2, <1>10, <1>t DEF Ownership, Lists
<1>13. Lists("block", "instr")'
  <2>1. ASSUME NEW p \in Ids, kind'[p] = "block", NEW j \in DOMAIN children'[p]
        PROVE  kind'[children'[p][j]] = "instr" /\ parent'[children'[p][j]] = p
    <3>1. CASE p = b
      BY <3>1, <2>1, <1>1, <1>2, <1>9, <1>t DEF Ownership, Lists
    <3>2. CASE p # b
      BY <3>2, <2>1, <1>1, <1>2, <1>10, <1>t DEF Ownership, Lists
    <3>3. QED
      BY <3>1, <3>2
  <2>2. ASSUME NEW p \in Ids, kind'[p] = "block"
        PROVE  \A i, j \in DOMAIN children'[p] : children'[p][i] = children'[p][j] => i = j
    BY <2>2, <1>1, <1>9, <1>10, <1>t DEF Ownership, Lists
  <2>3. QED
    BY <2>1, <2>2 DEF Lists
<1>14. BlocksOwned'
  BY <1>1, <1>2, <1>10, <1>t DEF Ownership, BlocksOwned, ListedBy
<1>15. AttachedOwned'
  BY <1>1, <1>2, <1>9, <1>10, <1>11, <1>t DEF Ownership, AttachedOwned, ListedBy
<1>16. ListedAttached'
  BY <1>1, <1>9, <1>10, <1>t DEF Ownership, ListedAttached, Lists
<1>17. QED
  BY <1>7, <1>8, <1>12, <1>13, <1>14, <1>15, <1>16 DEF IInv, Ownership

\* ccw_ir_instr_insert_before opens a gap for an unlisted instruction.
LEMMA InstrInsertBeforeIInv ==
  ASSUME IInv, NEW a \in Ids, NEW n \in Ids, InstrInsertBefore(a, n)
  PROVE  IInv'
<1> DEFINE b == parent[a]
           k == IndexOf(b, a)
           L == Len(children[b])
<1>1. /\ b \in Ids /\ kind[b] = "block"
      /\ kind[n] = "instr" /\ n \notin attached
      /\ kind' = kind /\ attached' = attached \cup {n}
      /\ node_count' = node_count /\ k # 0
      /\ children' = [children EXCEPT ![b] = InsertAt(@, k, n)]
  BY DEF InstrInsertBefore, Live, InBlock, Detached
<1>2. \A j \in Ids : parent'[j] = IF j = n THEN b ELSE parent[j]
  BY <1>1 DEF InstrInsertBefore, IInv, TypeOK
<1>3. k \in 1..L /\ children[b] \in Seq(Ids) /\ DOMAIN children[b] = 1..L /\ L \in Nat
  BY <1>1, IndexOfProperties DEF IInv, TypeOK
<1>4. /\ InsertAt(children[b], k, n) \in Seq(Ids)
      /\ Len(InsertAt(children[b], k, n)) = L + 1
      /\ \A j \in 1..(L + 1) :
           InsertAt(children[b], k, n)[j]
             = IF j < k THEN children[b][j] ELSE IF j = k THEN n ELSE children[b][j - 1]
  BY <1>3, InsertAtProperties
<1>5. TypeOK'
  <2>1. parent' \in [Ids -> Ids \cup {0}]
    BY <1>1 DEF InstrInsertBefore, IInv, TypeOK
  <2>2. children' \in [Ids -> Seq(Ids)]
    BY <1>1, <1>4 DEF IInv, TypeOK
  <2>3. QED
    BY <1>1, <2>1, <2>2 DEF InstrInsertBefore, IInv, TypeOK
<1> HIDE DEF b, k, L
<1>6. /\ \A q \in Ids : q # b => children'[q] = children[q]
      /\ children'[b] = InsertAt(children[b], k, n)
  BY <1>1 DEF IInv, TypeOK
<1>7. /\ k \in 1..L /\ L \in Nat /\ DOMAIN children[b] = 1..L
      /\ DOMAIN children'[b] = 1..(L + 1)
      /\ \A j \in 1..(L + 1) :
           children'[b][j]
             = IF j < k THEN children[b][j] ELSE IF j = k THEN n ELSE children[b][j - 1]
  BY <1>3, <1>4, <1>6
<1>8. \A q \in Ids : q # b => children'[q] = children[q]
  BY <1>6
<1>9. Fresh'
  BY <1>1, <1>8, FreshAfterEdit
<1>t. /\ Ownership
      /\ \A p \in Ids : \A j \in DOMAIN children[p] : children[p][j] \in Ids
      /\ attached \subseteq Ids
  BY Typing DEF IInv
<1>u. \A p \in Ids : kind[p] \in {"function", "block"} =>
         \A j \in DOMAIN children[p] : children[p][j] # n
  BY <1>1, <1>t, DetachedUnlisted
<1>10. \* nothing but n is new, and nothing is lost
       /\ \A j \in DOMAIN children'[b] :
            \/ j = k /\ children'[b][j] = n
            \/ \E i \in DOMAIN children[b] : children'[b][j] = children[b][i]
       /\ \A i \in DOMAIN children[b] :
            \E j \in DOMAIN children'[b] : children'[b][j] = children[b][i]
       /\ \E j \in DOMAIN children'[b] : children'[b][j] = n
  <2>1. ASSUME NEW j \in DOMAIN children'[b]
        PROVE  \/ j = k /\ children'[b][j] = n
               \/ \E i \in DOMAIN children[b] : children'[b][j] = children[b][i]
    <3>1. CASE j < k
      <4>1. j \in DOMAIN children[b] /\ children'[b][j] = children[b][j]
        BY <3>1, <1>7
      <4>2. QED
        BY <4>1
    <3>2. CASE j = k
      BY <3>2, <1>7
    <3>3. CASE j > k
      <4>1. j - 1 \in DOMAIN children[b] /\ children'[b][j] = children[b][j - 1]
        BY <3>3, <1>7
      <4>2. QED
        BY <4>1
    <3>4. QED
      BY <3>1, <3>2, <3>3, <1>7
  <2>2. ASSUME NEW i \in DOMAIN children[b]
        PROVE  \E j \in DOMAIN children'[b] : children'[b][j] = children[b][i]
    <3>1. CASE i < k
      BY <3>1, <1>7
    <3>2. CASE ~(i < k)
      <4>1. i + 1 \in DOMAIN children'[b] /\ children'[b][i + 1] = children[b][i]
        BY <3>2, <1>7
      <4>2. QED
        BY <4>1
    <3>3. QED
      BY <3>1, <3>2
  <2>3. \E j \in DOMAIN children'[b] : children'[b][j] = n
    <3>1. k \in DOMAIN children'[b] /\ children'[b][k] = n
      BY <1>7
    <3>2. QED
      BY <3>1
  <2>4. QED
    BY <2>1, <2>2, <2>3
<1>11. \A i, j \in DOMAIN children'[b] : children'[b][i] = children'[b][j] => i = j
  <2> SUFFICES ASSUME NEW i \in DOMAIN children'[b], NEW j \in DOMAIN children'[b],
                      children'[b][i] = children'[b][j]
               PROVE  i = j
    OBVIOUS
  <2> DEFINE src(m) == IF m < k THEN m ELSE m - 1
  <2>1. \A m \in DOMAIN children'[b] : m # k =>
          src(m) \in DOMAIN children[b] /\ children'[b][m] = children[b][src(m)]
    <3> SUFFICES ASSUME NEW m \in DOMAIN children'[b], m # k
                 PROVE  src(m) \in DOMAIN children[b] /\ children'[b][m] = children[b][src(m)]
      OBVIOUS
    <3>1. m \in 1..(L + 1) /\ L \in Nat /\ k \in 1..L /\ DOMAIN children[b] = 1..L
      BY <1>7
    <3>2. src(m) \in 1..L
      BY <3>1
    <3>3. children'[b][m] = IF m < k THEN children[b][m] ELSE children[b][m - 1]
      BY <1>7, <3>1
    <3>4. QED
      BY <3>1, <3>2, <3>3
  <2>2. \A m \in DOMAIN children'[b] : (m = k) <=> (children'[b][m] = n)
    BY <1>1, <1>7, <1>u, <2>1
  <2>3. i # k /\ j # k => src(i) = src(j)
    BY <2>1, <1>1, <1>t DEF Ownership, Lists
  <2>4. QED
    BY <2>2, <2>3, <1>7
<1>12. Lists("function", "block")'
  BY <1>1, <1>2, <1>8, <1>t, <1>u DEF Ownership, Lists
<1>13. Lists("block", "instr")'
  <2>1. ASSUME NEW p \in Ids, kind'[p] = "block", NEW j \in DOMAIN children'[p]
        PROVE  kind'[children'[p][j]] = "instr" /\ parent'[children'[p][j]] = p
    BY <2>1, <1>1, <1>2, <1>8, <1>10, <1>t, <1>u DEF Ownership, Lists
  <2>2. ASSUME NEW p \in Ids, kind'[p] = "block"
        PROVE  \A i, j \in DOMAIN children'[p] : children'[p][i] = children'[p][j] => i = j
    BY <2>2, <1>1, <1>8, <1>11, <1>t DEF Ownership, Lists
  <2>3. QED
    BY <2>1, <2>2 DEF Lists
<1>14. BlocksOwned'
  BY <1>1, <1>2, <1>8, <1>t DEF Ownership, BlocksOwned, ListedBy
<1>15. AttachedOwned'
  BY <1>1, <1>2, <1>8, <1>10, <1>t DEF Ownership, AttachedOwned, ListedBy
<1>16. ListedAttached'
  BY <1>1, <1>8, <1>10, <1>t DEF Ownership, ListedAttached
<1>17. QED
  BY <1>5, <1>9, <1>12, <1>13, <1>14, <1>15, <1>16 DEF IInv, Ownership

(***************************************************************************)
(* Edits that kill nodes.                                                  *)
(***************************************************************************)
\* Taking a listed block out of its function's vector.
LEMMA UnlistBlock ==
  ASSUME IInv, NEW b \in Ids, NEW f \in Ids, kind[b] = "block", f = parent[b]
  PROVE  LET k == IndexOf(f, b)
         IN  /\ kind[f] = "function"
             /\ k \in 1..Len(children[f]) /\ children[f][k] = b
             /\ RemoveAt(children[f], k) \in Seq(Ids)
             /\ children'[f] = RemoveAt(children[f], k) => Removed(f, k)
<1> DEFINE k == IndexOf(f, b)
<1>1. kind[f] = "function" /\ \E j \in DOMAIN children[f] : children[f][j] = b
  BY DEF IInv, Ownership, BlocksOwned, ListedBy
<1>2. k \in 1..Len(children[f]) /\ children[f] \in Seq(Ids) /\ children[f][k] = b
  BY <1>1, IndexOfProperties DEF IInv, TypeOK
<1> HIDE DEF k
<1>3. /\ RemoveAt(children[f], k) \in Seq(Ids)
      /\ Len(RemoveAt(children[f], k)) = Len(children[f]) - 1
      /\ \A j \in 1..(Len(children[f]) - 1) :
           RemoveAt(children[f], k)[j]
             = IF j < k THEN children[f][j] ELSE children[f][j + 1]
  BY <1>2, RemoveAtProperties
<1>4. children'[f] = RemoveAt(children[f], k) => Removed(f, k)
  BY <1>2, <1>3 DEF Removed
<1>5. QED
  BY <1>1, <1>2, <1>3, <1>4 DEF k

\* ccw_ir_block_delete: the block dies with its instructions, and its function
\* lists it no longer.
LEMMA BlockDeleteIInv ==
  ASSUME IInv, NEW b \in Ids, BlockDelete(b)
  PROVE  IInv'
<1> DEFINE f == parent[b]
           k == IndexOf(f, b)
           D == ToSet(children[b])
<1>1. /\ kind[b] = "block" /\ f \in Ids /\ kind[f] = "function"
      /\ attached' = attached \ D
      /\ kind' = [j \in Ids |-> IF j = b \/ j \in D THEN "dead" ELSE kind[j]]
      /\ children' = [children EXCEPT ![f] = RemoveAt(@, k)]
      /\ parent' = parent /\ node_count' = node_count
  BY DEF BlockDelete, Live
<1>2. /\ k \in 1..Len(children[f]) /\ children[f][k] = b
      /\ RemoveAt(children[f], k) \in Seq(Ids)
      /\ children'[f] = RemoveAt(children[f], k) => Removed(f, k)
  BY <1>1, UnlistBlock
<1>t. /\ Ownership
      /\ \A p \in Ids : \A j \in DOMAIN children[p] : children[p][j] \in Ids
      /\ attached \subseteq Ids
  BY Typing DEF IInv
<1>3. \A j \in Ids : (j \in D) <=> \E i \in DOMAIN children[b] : children[b][i] = j
  BY DEF ToSet
<1> HIDE DEF k, D
<1>4. TypeOK'
  <2>1. kind' \in [Ids -> Kinds]
    BY <1>1 DEF IInv, TypeOK, Kinds
  <2>2. children' \in [Ids -> Seq(Ids)]
    BY <1>1, <1>2 DEF IInv, TypeOK
  <2>3. QED
    BY <1>1, <2>1, <2>2 DEF BlockDelete, IInv, TypeOK
<1>5. Removed(f, k)
  BY <1>1, <1>2 DEF IInv, TypeOK
<1>6. /\ \A q \in Ids : q # f => children'[q] = children[q]
      /\ \A j \in Ids : kind'[j] = IF j = b \/ j \in D THEN "dead" ELSE kind[j]
  BY <1>1 DEF IInv, TypeOK
<1>7. kind[b] = "block" /\ f \in Ids /\ kind[f] = "function" /\ parent[b] = f
      /\ attached' = attached \ D /\ parent' = parent /\ children[f][k] = b
  BY <1>1, <1>2
<1>8. Fresh'
  BY <1>1, <1>6, FreshAfterEdit
<1> HIDE DEF f
<1>9. /\ \A j \in DOMAIN children'[f] :
           \E i \in DOMAIN children[f] : i # k /\ children'[f][j] = children[f][i]
      /\ \A i \in DOMAIN children[f] : i # k =>
           \E j \in DOMAIN children'[f] : children'[f][j] = children[f][i]
      /\ \A i, j \in DOMAIN children'[f] : children'[f][i] = children'[f][j] => i = j
      /\ \A j \in DOMAIN children'[f] : children'[f][j] # b
  BY <1>5, <1>7, <1>t, RemovedFacts DEF Ownership, Lists
<1>10. \A j \in D : j \in Ids => kind[j] = "instr" /\ parent[j] = b
  BY <1>3, <1>7, <1>t DEF Ownership, Lists
<1>11. Lists("function", "block")'
  <2>1. ASSUME NEW p \in Ids, kind'[p] = "function", NEW j \in DOMAIN children'[p]
        PROVE  kind'[children'[p][j]] = "block" /\ parent'[children'[p][j]] = p
    <3>1. kind[p] = "function"
      BY <2>1, <1>6
    <3>2. CASE p = f
      BY <3>1, <3>2, <1>6, <1>7, <1>9, <1>10, <1>t DEF Ownership, Lists
    <3>3. CASE p # f
      BY <2>1, <3>1, <3>3, <1>6, <1>7, <1>10, <1>t DEF Ownership, Lists
    <3>4. QED
      BY <3>2, <3>3
  <2>2. ASSUME NEW p \in Ids, kind'[p] = "function"
        PROVE  \A i, j \in DOMAIN children'[p] : children'[p][i] = children'[p][j] => i = j
    BY <2>2, <1>6, <1>9, <1>t DEF Ownership, Lists
  <2>3. QED
    BY <2>1, <2>2 DEF Lists
<1>12. Lists("block", "instr")'
  BY <1>6, <1>7, <1>10, <1>t DEF Ownership, Lists
<1>13. BlocksOwned'
  BY <1>6, <1>7, <1>9, <1>10, <1>t DEF Ownership, BlocksOwned, ListedBy
<1>14. AttachedOwned'
  BY <1>3, <1>6, <1>7, <1>10, <1>t DEF Ownership, AttachedOwned, ListedBy
<1>15. ListedAttached'
  BY <1>6, <1>7, <1>10, <1>t DEF Ownership, ListedAttached, Lists
<1>16. QED
  BY <1>4, <1>8, <1>11, <1>12, <1>13, <1>14, <1>15 DEF IInv, Ownership

\* What the guard of ccw_ir_block_merge gives: both blocks are in one function
\* and the first ends in a jump.
LEMMA MergeableFacts ==
  ASSUME IInv, NEW a \in Ids, NEW b \in Ids, Mergeable(a, b)
  PROVE  /\ kind[a] = "block" /\ kind[b] = "block"
         /\ parent[a] = parent[b] /\ parent[a] \in Ids /\ kind[parent[a]] = "function"
         /\ Len(children[a]) \in Nat /\ Len(children[a]) > 0
<1>1. kind[a] = "block" /\ kind[b] = "block" /\ parent[a] = parent[b]
  BY DEF Mergeable, Live
<1>2. parent[a] \in Ids /\ kind[parent[a]] = "function"
  BY <1>1 DEF IInv, Ownership, BlocksOwned, ListedBy
<1>3. children[a] # <<>>
  <2>1. Len(Targets(a)) = 1
    BY DEF Mergeable, SuccessorCount
  <2>2. children[a] = <<>> => Targets(a) = <<>>
    BY DEF Targets
  <2>3. QED
    BY <2>1, <2>2
<1>4. QED
  BY <1>1, <1>2, <1>3 DEF IInv, TypeOK

\* A block whose only instruction jumps to itself merges into nothing.
LEMMA SelfMergeIInv ==
  ASSUME IInv, NEW a \in Ids, Mergeable(a, a), BlockMerge(a, a), Len(children[a]) <= 1
  PROVE  IInv'
<1> DEFINE f == parent[a]
           k == IndexOf(f, a)
           jump == Last(children[a])
<1>1. /\ kind[a] = "block" /\ f \in Ids /\ kind[f] = "function" /\ a # f
      /\ Len(children[a]) = 1 /\ children[a] \in Seq(Ids)
  <2>1. /\ kind[a] = "block" /\ f \in Ids /\ kind[f] = "function"
        /\ Len(children[a]) \in Nat /\ Len(children[a]) > 0
    BY MergeableFacts
  <2>2. children[a] \in Seq(Ids)
    BY DEF IInv, TypeOK
  <2> DEFINE m == Len(children[a])
  <2>3. m \in Nat /\ m > 0 /\ m <= 1
    BY <2>1
  <2>4. m = 1
    <3> HIDE DEF m
    <3> QED
      BY <2>3
  <2>5. QED
    BY <2>1, <2>2, <2>4
<1>2. /\ kind' = [kind EXCEPT ![jump] = "dead", ![a] = "dead"]
      /\ attached' = attached \ {jump}
      /\ parent' = [j \in Ids |-> IF j \in ToSet(children[a]) /\ j # jump THEN a ELSE parent[j]]
      /\ children' = [children EXCEPT ![a] = Front(@) \o <<>>, ![f] = RemoveAt(@, k)]
      /\ UNCHANGED <<node_count, functions, opcode, operands, name, call>>
  BY <1>1 DEF BlockMerge
<1>3. jump \in Ids /\ ToSet(children[a]) = {jump} /\ jump = children[a][1]
  BY <1>1 DEF Last, ToSet
<1>4. Front(children[a]) \o <<>> = <<>>
  BY <1>1 DEF Front
<1>5. /\ k \in 1..Len(children[f]) /\ children[f][k] = a
      /\ RemoveAt(children[f], k) \in Seq(Ids)
      /\ children'[f] = RemoveAt(children[f], k) => Removed(f, k)
  BY <1>1, UnlistBlock
<1>t. /\ Ownership
      /\ \A p \in Ids : \A j \in DOMAIN children[p] : children[p][j] \in Ids
      /\ attached \subseteq Ids
  BY Typing DEF IInv
<1>6. kind[jump] = "instr" /\ parent[jump] = a
  BY <1>1, <1>3, <1>t DEF Ownership, Lists
<1>7. parent' = parent
  BY <1>2, <1>3 DEF IInv, TypeOK
<1>8. children' = [children EXCEPT ![a] = <<>>, ![f] = RemoveAt(@, k)]
  BY <1>2, <1>4
<1> HIDE DEF k, jump
<1>9. TypeOK'
  <2>1. kind' \in [Ids -> Kinds]
    BY <1>2, <1>3 DEF IInv, TypeOK, Kinds
  <2>2. <<>> \in Seq(Ids) /\ children \in [Ids -> Seq(Ids)]
    BY DEF IInv, TypeOK
  <2>3. children' \in [Ids -> Seq(Ids)]
    BY <1>1, <1>5, <1>8, <2>2
  <2>4. QED
    BY <1>2, <1>7, <2>1, <2>3 DEF IInv, TypeOK
<1>10. Removed(f, k)
  BY <1>1, <1>5, <1>8 DEF IInv, TypeOK
<1>11. /\ \A q \in Ids : q # f /\ q # a => children'[q] = children[q]
       /\ \A j \in Ids : kind'[j] = IF j = a \/ j = jump THEN "dead" ELSE kind[j]
  BY <1>2, <1>3, <1>8 DEF IInv, TypeOK
<1>12. Fresh'
  BY <1>1, <1>2, <1>11, FreshAfterEdit
<1>13. /\ kind[a] = "block" /\ f \in Ids /\ kind[f] = "function" /\ parent[a] = f
       /\ attached' = attached \ {jump} /\ parent' = parent /\ children[f][k] = a
       /\ children[a][1] = jump /\ DOMAIN children[a] = {1}
  BY <1>1, <1>2, <1>3, <1>5, <1>7
<1> HIDE DEF f
<1>14. /\ \A j \in DOMAIN children'[f] :
            \E i \in DOMAIN children[f] : i # k /\ children'[f][j] = children[f][i]
       /\ \A i \in DOMAIN children[f] : i # k =>
            \E j \in DOMAIN children'[f] : children'[f][j] = children[f][i]
       /\ \A i, j \in DOMAIN children'[f] : children'[f][i] = children'[f][j] => i = j
       /\ \A j \in DOMAIN children'[f] : children'[f][j] # a
  BY <1>10, <1>13, <1>t, RemovedFacts DEF Ownership, Lists
<1>15. Lists("function", "block")'
  <2>1. ASSUME NEW p \in Ids, kind'[p] = "function", NEW j \in DOMAIN children'[p]
        PROVE  kind'[children'[p][j]] = "block" /\ parent'[children'[p][j]] = p
    <3>1. kind[p] = "function" /\ p # a
      BY <2>1, <1>11, <1>13
    <3>2. CASE p = f
      BY <3>1, <3>2, <1>6, <1>11, <1>13, <1>14, <1>t DEF Ownership, Lists
    <3>3. CASE p # f
      BY <2>1, <3>1, <3>3, <1>6, <1>11, <1>13, <1>t DEF Ownership, Lists
    <3>4. QED
      BY <3>2, <3>3
  <2>2. ASSUME NEW p \in Ids, kind'[p] = "function"
        PROVE  \A i, j \in DOMAIN children'[p] : children'[p][i] = children'[p][j] => i = j
    BY <2>2, <1>11, <1>13, <1>14, <1>t DEF Ownership, Lists
  <2>3. QED
    BY <2>1, <2>2 DEF Lists
<1>16. Lists("block", "instr")'
  BY <1>6, <1>11, <1>13, <1>t DEF Ownership, Lists
<1>17. BlocksOwned'
  BY <1>6, <1>11, <1>13, <1>14, <1>t DEF Ownership, BlocksOwned, ListedBy
<1>18. AttachedOwned'
  BY <1>6, <1>11, <1>13, <1>t DEF Ownership, AttachedOwned, ListedBy
<1>19. ListedAttached'
  BY <1>6, <1>11, <1>13, <1>t DEF Ownership, ListedAttached, Lists
<1>20. QED
  BY <1>9, <1>12, <1>15, <1>16, <1>17, <1>18, <1>19 DEF IInv, Ownership

\* The vector of a becomes its own up to the jump at position m + 1, then b's.
Spliced(a, b, m) ==
  /\ m \in Nat /\ Len(children[b]) \in Nat
  /\ DOMAIN children[a] = 1..(m + 1) /\ DOMAIN children[b] = 1..Len(children[b])
  /\ DOMAIN children'[a] = 1..(m + Len(children[b]))
  /\ \A j \in 1..m : children'[a][j] = children[a][j]
  /\ \A j \in 1..Len(children[b]) : children'[a][m + j] = children[b][j]

\* A spliced vector holds the nodes of both but the jump, each once.
LEMMA SplicedFacts ==
  ASSUME NEW a \in Ids, NEW b \in Ids, NEW m, Spliced(a, b, m),
         \A i, j \in DOMAIN children[a] : children[a][i] = children[a][j] => i = j,
         \A i, j \in DOMAIN children[b] : children[b][i] = children[b][j] => i = j,
         \A i \in DOMAIN children[a], j \in DOMAIN children[b] :
           children[a][i] # children[b][j]
  PROVE  /\ \A j \in DOMAIN children'[a] :
              \/ \E i \in DOMAIN children[a] : i # m + 1 /\ children'[a][j] = children[a][i]
              \/ \E i \in DOMAIN children[b] : children'[a][j] = children[b][i]
         /\ \A i \in DOMAIN children[a] : i # m + 1 =>
              \E j \in DOMAIN children'[a] : children'[a][j] = children[a][i]
         /\ \A i \in DOMAIN children[b] :
              \E j \in DOMAIN children'[a] : children'[a][j] = children[b][i]
         /\ \A i, j \in DOMAIN children'[a] : children'[a][i] = children'[a][j] => i = j
<1> DEFINE M == Len(children[b])
<1>1. /\ m \in Nat /\ M \in Nat
      /\ DOMAIN children[a] = 1..(m + 1) /\ DOMAIN children[b] = 1..M
      /\ DOMAIN children'[a] = 1..(m + M)
      /\ \A j \in 1..m : children'[a][j] = children[a][j]
      /\ \A j \in 1..M : children'[a][m + j] = children[b][j]
  BY DEF Spliced
<1> HIDE DEF M
<1>2. \A j \in 1..m : j \in DOMAIN children[a] /\ j \in DOMAIN children'[a] /\ j # m + 1
  BY <1>1
<1>3. \A j \in 1..M : j \in DOMAIN children[b] /\ m + j \in DOMAIN children'[a]
  BY <1>1
<1>4. \A j \in DOMAIN children'[a] : j \in 1..m \/ \E l \in 1..M : j = m + l
  <2> SUFFICES ASSUME NEW j \in DOMAIN children'[a], j \notin 1..m
               PROVE  \E l \in 1..M : j = m + l
    OBVIOUS
  <2>1. j - m \in 1..M /\ j = m + (j - m)
    BY <1>1
  <2>2. QED
    BY <2>1
<1>5. ASSUME NEW j \in DOMAIN children'[a]
      PROVE  \/ \E i \in DOMAIN children[a] : i # m + 1 /\ children'[a][j] = children[a][i]
             \/ \E i \in DOMAIN children[b] : children'[a][j] = children[b][i]
  <2>1. CASE j \in 1..m
    <3>1. children'[a][j] = children[a][j]
      BY <2>1, <1>1
    <3>2. QED
      BY <2>1, <3>1, <1>2
  <2>2. CASE j \notin 1..m
    <3>1. PICK l \in 1..M : j = m + l
      BY <2>2, <1>4
    <3>2. children'[a][j] = children[b][l] /\ l \in DOMAIN children[b]
      BY <3>1, <1>1, <1>3
    <3>3. QED
      BY <3>2
  <2>3. QED
    BY <2>1, <2>2
<1>6. \A i \in DOMAIN children[a] : i # m + 1 =>
        \E j \in DOMAIN children'[a] : children'[a][j] = children[a][i]
  <2>1. \A i \in DOMAIN children[a] : i # m + 1 => i \in 1..m
    BY <1>1
  <2>2. QED
    BY <1>1, <1>2, <2>1
<1>7. \A i \in DOMAIN children[b] :
        \E j \in DOMAIN children'[a] : children'[a][j] = children[b][i]
  BY <1>1, <1>3
<1>8. ASSUME NEW i \in DOMAIN children'[a], NEW j \in DOMAIN children'[a],
             children'[a][i] = children'[a][j]
      PROVE  i = j
  <2>1. CASE i \in 1..m /\ j \in 1..m
    BY <2>1, <1>1, <1>2, <1>8
  <2>2. CASE i \in 1..m /\ j \notin 1..m
    <3>1. PICK l \in 1..M : j = m + l
      BY <2>2, <1>4
    <3>2. children'[a][j] = children[b][l] /\ l \in DOMAIN children[b]
      BY <3>1, <1>1, <1>3
    <3>3. children'[a][i] = children[a][i] /\ i \in DOMAIN children[a]
      BY <2>2, <1>1, <1>2
    <3>4. QED
      BY <3>2, <3>3, <1>8
  <2>3. CASE i \notin 1..m /\ j \in 1..m
    <3>1. PICK l \in 1..M : i = m + l
      BY <2>3, <1>4
    <3>2. children'[a][i] = children[b][l] /\ l \in DOMAIN children[b]
      BY <3>1, <1>1, <1>3
    <3>3. children'[a][j] = children[a][j] /\ j \in DOMAIN children[a]
      BY <2>3, <1>1, <1>2
    <3>4. QED
      BY <3>2, <3>3, <1>8
  <2>4. CASE i \notin 1..m /\ j \notin 1..m
    <3>1. PICK l \in 1..M : i = m + l
      BY <2>4, <1>4
    <3>2. PICK r \in 1..M : j = m + r
      BY <2>4, <1>4
    <3>3. children'[a][i] = children[b][l] /\ l \in DOMAIN children[b]
      BY <3>1, <1>1, <1>3
    <3>4. children'[a][j] = children[b][r] /\ r \in DOMAIN children[b]
      BY <3>2, <1>1, <1>3
    <3>5. l = r
      BY <3>3, <3>4, <1>8
    <3>6. QED
      BY <3>1, <3>2, <3>5
  <2>5. QED
    BY <2>1, <2>2, <2>3, <2>4
<1>9. QED
  BY <1>5, <1>6, <1>7, <1>8

\* What ccw_ir_block_merge of two blocks does to the vectors.
LEMMA MergeShape ==
  ASSUME IInv, NEW a \in Ids, NEW b \in Ids, a # b, BlockMerge(a, b)
  PROVE  LET f == parent[a]
             k == IndexOf(f, b)
             m == Len(children[a]) - 1
             jump == Last(children[a])
         IN  /\ kind[a] = "block" /\ kind[b] = "block" /\ f = parent[b] /\ f \in Ids
             /\ kind[f] = "function" /\ a # f /\ b # f
             /\ m \in Nat /\ DOMAIN children[a] = 1..(m + 1) /\ jump = children[a][m + 1]
             /\ jump \in Ids
             /\ Front(children[a]) \o children[b] \in Seq(Ids)
             /\ children[f][k] = b
             /\ \A q \in Ids : q # f /\ q # a => children'[q] = children[q]
             /\ Removed(f, k) /\ Spliced(a, b, m)
<1> DEFINE f == parent[a]
           k == IndexOf(f, b)
           m == Len(children[a]) - 1
           jump == Last(children[a])
<1>1. /\ kind[a] = "block" /\ kind[b] = "block" /\ f = parent[b] /\ f \in Ids
      /\ kind[f] = "function" /\ a # f /\ b # f
      /\ Len(children[a]) \in Nat /\ Len(children[a]) > 0
  BY MergeableFacts DEF BlockMerge
<1>2. /\ kind' = [kind EXCEPT ![jump] = "dead", ![b] = "dead"]
      /\ attached' = attached \ {jump}
      /\ parent' = [j \in Ids |-> IF j \in ToSet(children[b]) /\ j # jump THEN a ELSE parent[j]]
      /\ children' = [children EXCEPT ![a] = Front(@) \o children[b], ![f] = RemoveAt(@, k)]
      /\ UNCHANGED <<node_count, functions, opcode, operands, name, call>>
  BY DEF BlockMerge
<1>3. children[a] \in Seq(Ids) /\ children[b] \in Seq(Ids)
  BY DEF IInv, TypeOK
<1>4. m \in Nat /\ DOMAIN children[a] = 1..(m + 1) /\ jump = children[a][m + 1]
      /\ jump \in Ids
  <2> DEFINE L == Len(children[a])
  <2>1. L \in Nat /\ L > 0 /\ DOMAIN children[a] = 1..L /\ m = L - 1
        /\ jump = children[a][L]
    BY <1>1, <1>3 DEF Last
  <2>2. \A i \in 1..L : children[a][i] \in Ids
    BY <1>3
  <2> HIDE DEF L, m, jump
  <2>3. m \in Nat /\ m + 1 = L /\ L \in 1..L
    BY <2>1
  <2>4. QED
    BY <2>1, <2>2, <2>3
<1>5. /\ Front(children[a]) \o children[b] \in Seq(Ids)
      /\ Len(Front(children[a]) \o children[b]) = m + Len(children[b])
      /\ \A j \in 1..m : (Front(children[a]) \o children[b])[j] = children[a][j]
      /\ \A j \in 1..Len(children[b]) :
           (Front(children[a]) \o children[b])[m + j] = children[b][j]
  <2> DEFINE s == children[a]
             t == children[b]
  <2>1. s \in Seq(Ids) /\ t \in Seq(Ids) /\ Len(s) > 0
    BY <1>1, <1>3
  <2>2. /\ Front(s) \o t \in Seq(Ids)
        /\ Len(Front(s) \o t) = Len(s) - 1 + Len(t)
        /\ \A j \in 1..(Len(s) - 1) : (Front(s) \o t)[j] = s[j]
        /\ \A j \in 1..Len(t) : (Front(s) \o t)[Len(s) - 1 + j] = t[j]
    <3> HIDE DEF s, t, m
    <3> QED
      BY <2>1, SpliceProperties
  <2>3. QED
    BY <2>2
<1>6. /\ k \in 1..Len(children[f]) /\ children[f][k] = b
      /\ RemoveAt(children[f], k) \in Seq(Ids)
      /\ children'[f] = RemoveAt(children[f], k) => Removed(f, k)
  BY <1>1, UnlistBlock
<1> HIDE DEF k, jump, m
<1>7. /\ \A q \in Ids : q # f /\ q # a => children'[q] = children[q]
      /\ children'[a] = Front(children[a]) \o children[b]
      /\ children'[f] = RemoveAt(children[f], k)
  BY <1>1, <1>2 DEF IInv, TypeOK
<1>8. Removed(f, k)
  BY <1>6, <1>7
<1>9. Spliced(a, b, m)
  <2>1. /\ Len(children[b]) \in Nat /\ DOMAIN children[b] = 1..Len(children[b])
        /\ DOMAIN (Front(children[a]) \o children[b])
             = 1..Len(Front(children[a]) \o children[b])
    BY <1>3, <1>5, LenProperties
  <2>2. children'[a] = Front(children[a]) \o children[b]
    BY <1>7
  <2>3. DOMAIN children'[a] = 1..(m + Len(children[b]))
    BY <2>1, <2>2, <1>5
  <2>4. QED
    BY <1>4, <1>5, <2>1, <2>2, <2>3 DEF Spliced
<1>10. QED
  BY <1>1, <1>2, <1>4, <1>5, <1>6, <1>7, <1>8, <1>9 DEF k, jump, m

\* ccw_ir_block_merge of two blocks: the instructions of the second change owner
\* together, and the jump and the second block die.
LEMMA DistinctMergeIInv ==
  ASSUME IInv, NEW a \in Ids, NEW b \in Ids, a # b, BlockMerge(a, b)
  PROVE  IInv'
<1> DEFINE f == parent[a]
           k == IndexOf(f, b)
           m == Len(children[a]) - 1
           jump == Last(children[a])
<1>1. /\ kind[a] = "block" /\ kind[b] = "block" /\ f = parent[b] /\ f \in Ids
      /\ kind[f] = "function" /\ a # f /\ b # f
  BY MergeShape
<1>2. /\ kind' = [kind EXCEPT ![jump] = "dead", ![b] = "dead"]
      /\ attached' = attached \ {jump}
      /\ parent' = [j \in Ids |-> IF j \in ToSet(children[b]) /\ j # jump THEN a ELSE parent[j]]
      /\ children' = [children EXCEPT ![a] = Front(@) \o children[b], ![f] = RemoveAt(@, k)]
      /\ UNCHANGED <<node_count, functions, opcode, operands, name, call>>
  BY DEF BlockMerge
<1>4. m \in Nat /\ DOMAIN children[a] = 1..(m + 1) /\ jump = children[a][m + 1]
      /\ jump \in Ids
  BY MergeShape
<1>5. Front(children[a]) \o children[b] \in Seq(Ids)
  BY MergeShape
<1>6. children[f][k] = b /\ RemoveAt(children[f], k) \in Seq(Ids)
  BY <1>1, UnlistBlock
<1>7. \A q \in Ids : q # f /\ q # a => children'[q] = children[q]
  BY MergeShape
<1>8. Removed(f, k)
  BY MergeShape
<1>9. Spliced(a, b, m)
  BY MergeShape
<1>t. /\ Ownership
      /\ \A p \in Ids : \A j \in DOMAIN children[p] : children[p][j] \in Ids
      /\ attached \subseteq Ids
  BY Typing DEF IInv
<1> HIDE DEF k, jump, m
<1>10. TypeOK'
  <2>1. kind' \in [Ids -> Kinds]
    BY <1>2, <1>4 DEF IInv, TypeOK, Kinds
  <2>2. children' \in [Ids -> Seq(Ids)]
    BY <1>1, <1>2, <1>5, <1>6 DEF IInv, TypeOK
  <2>3. parent' \in [Ids -> Ids \cup {0}]
    BY <1>2 DEF IInv, TypeOK
  <2>4. QED
    BY <1>2, <2>1, <2>2, <2>3 DEF IInv, TypeOK
<1>11. \A j \in Ids : kind'[j] = IF j = b \/ j = jump THEN "dead" ELSE kind[j]
  BY <1>2, <1>4 DEF IInv, TypeOK
<1>12. Fresh'
  BY <1>1, <1>2, <1>7, <1>11, FreshAfterEdit
<1>13. jump \in Ids /\ kind[jump] = "instr" /\ parent[jump] = a /\ m + 1 \in DOMAIN children[a]
       /\ children[a][m + 1] = jump
  BY <1>1, <1>4, <1>t DEF Ownership, Lists
<1>14. \A j \in Ids :
         parent'[j] = IF \E i \in DOMAIN children[b] : children[b][i] = j THEN a ELSE parent[j]
  <2>1. \A j \in Ids : (j \in ToSet(children[b])) <=> \E i \in DOMAIN children[b] : children[b][i] = j
    BY DEF ToSet
  <2>2. jump \notin ToSet(children[b])
    BY <1>1, <1>13, <1>t, <2>1 DEF Ownership, Lists
  <2>3. QED
    BY <1>2, <2>1, <2>2
<1>15. /\ kind[a] = "block" /\ kind[b] = "block" /\ f \in Ids /\ kind[f] = "function"
       /\ parent[a] = f /\ parent[b] = f /\ attached' = attached \ {jump}
       /\ children[f][k] = b /\ \A q \in Ids : q # f /\ q # a => children'[q] = children[q]
  BY <1>1, <1>2, <1>6, <1>7
<1> HIDE DEF f
<1>16. /\ \A j \in DOMAIN children'[f] :
            \E i \in DOMAIN children[f] : i # k /\ children'[f][j] = children[f][i]
       /\ \A i \in DOMAIN children[f] : i # k =>
            \E j \in DOMAIN children'[f] : children'[f][j] = children[f][i]
       /\ \A i, j \in DOMAIN children'[f] : children'[f][i] = children'[f][j] => i = j
       /\ \A j \in DOMAIN children'[f] : children'[f][j] # b
  BY <1>8, <1>15, <1>t, RemovedFacts DEF Ownership, Lists
<1>17. /\ \A j \in DOMAIN children'[a] :
            \/ \E i \in DOMAIN children[a] : i # m + 1 /\ children'[a][j] = children[a][i]
            \/ \E i \in DOMAIN children[b] : children'[a][j] = children[b][i]
       /\ \A i \in DOMAIN children[a] : i # m + 1 =>
            \E j \in DOMAIN children'[a] : children'[a][j] = children[a][i]
       /\ \A i \in DOMAIN children[b] :
            \E j \in DOMAIN children'[a] : children'[a][j] = children[b][i]
       /\ \A i, j \in DOMAIN children'[a] : children'[a][i] = children'[a][j] => i = j
  <2>1. \A i \in DOMAIN children[a], j \in DOMAIN children[b] : children[a][i] # children[b][j]
    BY <1>15, <1>t DEF Ownership, Lists
  <2>2. QED
    BY <1>9, <1>15, <1>t, <2>1, SplicedFacts DEF Ownership, Lists
<1>18. Lists("function", "block")'
  <2>1. ASSUME NEW p \in Ids, kind'[p] = "function", NEW j \in DOMAIN children'[p]
        PROVE  kind'[children'[p][j]] = "block" /\ parent'[children'[p][j]] = p
    <3>1. kind[p] = "function" /\ p # a
      BY <2>1, <1>11, <1>15
    <3>2. \A n \in Ids : kind[n] = "block" => parent'[n] = parent[n]
      BY <1>14, <1>15, <1>t DEF Ownership, Lists
    <3>3. CASE p = f
      BY <3>1, <3>2, <3>3, <1>11, <1>13, <1>16, <1>t DEF Ownership, Lists
    <3>4. CASE p # f
      BY <2>1, <3>1, <3>2, <3>4, <1>11, <1>13, <1>15, <1>t DEF Ownership, Lists
    <3>5. QED
      BY <3>3, <3>4
  <2>2. ASSUME NEW p \in Ids, kind'[p] = "function"
        PROVE  \A i, j \in DOMAIN children'[p] : children'[p][i] = children'[p][j] => i = j
    BY <2>2, <1>11, <1>15, <1>16, <1>t DEF Ownership, Lists
  <2>3. QED
    BY <2>1, <2>2 DEF Lists
<1>19. Lists("block", "instr")'
  <2>1. ASSUME NEW p \in Ids, kind'[p] = "block", NEW j \in DOMAIN children'[p]
        PROVE  kind'[children'[p][j]] = "instr" /\ parent'[children'[p][j]] = p
    <3>1. kind[p] = "block" /\ p # b
      BY <2>1, <1>11
    <3>2. CASE p = a
      <4>1. CASE \E i \in DOMAIN children[a] : i # m + 1 /\ children'[a][j] = children[a][i]
        BY <4>1, <3>2, <1>11, <1>13, <1>14, <1>15, <1>t DEF Ownership, Lists
      <4>2. CASE \E i \in DOMAIN children[b] : children'[a][j] = children[b][i]
        BY <4>2, <3>2, <1>11, <1>13, <1>14, <1>15, <1>t DEF Ownership, Lists
      <4>3. QED
        BY <4>1, <4>2, <3>2, <2>1, <1>17
    <3>3. CASE p # a
      BY <2>1, <3>1, <3>3, <1>11, <1>13, <1>14, <1>15, <1>t DEF Ownership, Lists
    <3>4. QED
      BY <3>2, <3>3
  <2>2. ASSUME NEW p \in Ids, kind'[p] = "block"
        PROVE  \A i, j \in DOMAIN children'[p] : children'[p][i] = children'[p][j] => i = j
    BY <2>2, <1>11, <1>15, <1>17, <1>t DEF Ownership, Lists
  <2>3. QED
    BY <2>1, <2>2 DEF Lists
<1>20. BlocksOwned'
  <2>1. \A n \in Ids : kind[n] = "block" => parent'[n] = parent[n]
    BY <1>14, <1>15, <1>t DEF Ownership, Lists
  <2>2. QED
    BY <2>1, <1>11, <1>13, <1>15, <1>16, <1>t DEF Ownership, BlocksOwned, ListedBy
<1>21. AttachedOwned'
  <2> SUFFICES ASSUME NEW n \in attached' PROVE kind'[n] = "instr" /\ ListedBy("block", n)'
    BY DEF AttachedOwned
  <2>1. n \in Ids /\ n \in attached /\ n # jump /\ kind[n] = "instr"
    BY <1>15, <1>t DEF Ownership, AttachedOwned
  <2>2. kind'[n] = "instr"
    BY <2>1, <1>11, <1>15
  <2>3. /\ parent[n] \in Ids /\ kind[parent[n]] = "block"
        /\ \E i \in DOMAIN children[parent[n]] : children[parent[n]][i] = n
    BY <2>1, <1>t DEF Ownership, AttachedOwned, ListedBy
  <2>4. CASE parent[n] = b
    BY <2>1, <2>3, <2>4, <1>11, <1>13, <1>14, <1>15, <1>17, <2>2 DEF ListedBy
  <2>5. CASE parent[n] = a
    <3>1. parent'[n] = a
      BY <2>1, <2>5, <1>14
    <3>2. PICK i \in DOMAIN children[a] : children[a][i] = n
      BY <2>3, <2>5
    <3>3. i # m + 1
      BY <3>2, <2>1, <1>13
    <3>4. kind'[a] = "block"
      BY <1>11, <1>13, <1>15
    <3>5. QED
      BY <3>1, <3>2, <3>3, <3>4, <1>17, <2>2 DEF ListedBy
  <2>6. CASE parent[n] # a /\ parent[n] # b
    <3>1. parent'[n] = parent[n]
      BY <2>1, <2>6, <1>14, <1>15, <1>t DEF Ownership, Lists
    <3>2. QED
      BY <2>1, <2>2, <2>3, <2>6, <3>1, <1>11, <1>13, <1>15 DEF ListedBy
  <2>7. QED
    BY <2>4, <2>5, <2>6
<1>22. ListedAttached'
  <2> SUFFICES ASSUME NEW p \in Ids, kind'[p] = "block", NEW j \in DOMAIN children'[p]
               PROVE  children'[p][j] \in attached'
    BY DEF ListedAttached
  <2>1. kind[p] = "block" /\ p # b /\ p # f
    BY <1>11, <1>15
  <2>2. CASE p = a
    <3>1. CASE \E i \in DOMAIN children[a] : i # m + 1 /\ children'[a][j] = children[a][i]
      BY <3>1, <2>2, <1>13, <1>15, <1>t DEF Ownership, Lists, ListedAttached
    <3>2. CASE \E i \in DOMAIN children[b] : children'[a][j] = children[b][i]
      BY <3>2, <2>2, <1>13, <1>15, <1>t DEF Ownership, Lists, ListedAttached
    <3>3. QED
      BY <3>1, <3>2, <2>2, <1>17
  <2>3. CASE p # a
    BY <2>1, <2>3, <1>13, <1>15, <1>t DEF Ownership, Lists, ListedAttached
  <2>4. QED
    BY <2>2, <2>3
<1>23. QED
  BY <1>10, <1>12, <1>18, <1>19, <1>20, <1>21, <1>22 DEF IInv, Ownership

\* ccw_ir_block_merge: the call that hangs has changed nothing yet; a block that
\* is merged with itself goes away; two blocks become one.
LEMMA BlockMergeIInv ==
  ASSUME IInv, NEW a \in Ids, NEW b \in Ids, BlockMerge(a, b)
  PROVE  IInv'
<1>1. Mergeable(a, b)
  BY DEF BlockMerge
<1>2. CASE a # b
  BY <1>2, DistinctMergeIInv
<1>3. CASE a = b /\ Len(children[a]) > 1
  <2>1. UNCHANGED <<node_count, functions, kind, parent, attached, children,
                    opcode, operands, name>> /\ call' = "hung"
    BY <1>3 DEF BlockMerge
  <2>2. QED
    BY <2>1 DEF IInv, TypeOK, Fresh, Ownership, Lists, BlocksOwned, ListedBy,
                AttachedOwned, ListedAttached
<1>4. CASE a = b /\ ~(Len(children[a]) > 1)
  <2>1. Len(children[a]) \in Nat
    BY <1>1, MergeableFacts
  <2>2. Len(children[a]) <= 1
    BY <2>1, <1>4
  <2>3. QED
    BY <1>1, <1>4, <2>2, SelfMergeIInv
<1>5. QED
  BY <1>2, <1>3, <1>4

\* The setters of an instruction's destination and operands touch no owner.
LEMMA LabelIInv ==
  ASSUME IInv, name' \in [Ids -> Names \cup {NoName}],
         operands' \in [Ids -> Seq(Names \cup {NoName})],
         UNCHANGED <<node_count, functions, kind, parent, attached, children,
                     opcode, call>>
  PROVE  IInv'
BY DEF IInv, TypeOK, Fresh, Ownership, Lists, BlocksOwned, ListedBy,
       AttachedOwned, ListedAttached

\* ccw_ir_instr_set_dest changes a name only.
LEMMA InstrSetDestIInv ==
  ASSUME IInv, NEW n \in Ids, NEW nm \in Names \cup {NoName}, InstrSetDest(n, nm)
  PROVE  IInv'
<1>1. name' \in [Ids -> Names \cup {NoName}] /\ operands' = operands
  BY DEF InstrSetDest, IInv, TypeOK
<1>2. operands' \in [Ids -> Seq(Names \cup {NoName})]
  BY <1>1 DEF IInv, TypeOK
<1>3. QED
  BY <1>1, <1>2, LabelIInv DEF InstrSetDest

\* ccw_ir_instr_add_operand changes an operand vector only.
LEMMA InstrAddOperandIInv ==
  ASSUME IInv, NEW n \in Ids, NEW nm \in Names \cup {NoName}, InstrAddOperand(n, nm)
  PROVE  IInv'
<1>1. operands \in [Ids -> Seq(Names \cup {NoName})]
  BY DEF IInv, TypeOK
<1>2. Append(operands[n], nm) \in Seq(Names \cup {NoName})
  BY <1>1
<1>3. operands' \in [Ids -> Seq(Names \cup {NoName})]
  BY <1>1, <1>2 DEF InstrAddOperand
<1>4. name' \in [Ids -> Names \cup {NoName}]
  BY DEF InstrAddOperand, IInv, TypeOK
<1>5. QED
  BY <1>3, <1>4, LabelIInv DEF InstrAddOperand

\* ccw_ir_instr_set_operand changes an operand vector only.
LEMMA InstrSetOperandIInv ==
  ASSUME IInv, NEW n \in Ids, NEW idx, NEW nm \in Names \cup {NoName},
         InstrSetOperand(n, idx, nm)
  PROVE  IInv'
<1>1. operands \in [Ids -> Seq(Names \cup {NoName})]
  BY DEF IInv, TypeOK
<1>2. [operands[n] EXCEPT ![idx] = nm] \in Seq(Names \cup {NoName})
  <2>1. operands[n] \in Seq(Names \cup {NoName}) /\ idx \in 1..Len(operands[n])
    BY <1>1 DEF InstrSetOperand
  <2>2. QED
    BY <2>1, ExceptSeq
<1>3. operands' \in [Ids -> Seq(Names \cup {NoName})]
  BY <1>1, <1>2 DEF InstrSetOperand
<1>4. name' \in [Ids -> Names \cup {NoName}]
  BY DEF InstrSetOperand, IInv, TypeOK
<1>5. QED
  BY <1>3, <1>4, LabelIInv DEF InstrSetOperand

\* Every edit of the module preserves the inductive invariant.
LEMMA NextIInv == IInv /\ [Next]_vars => IInv'
<1> SUFFICES ASSUME IInv, [Next]_vars PROVE IInv'
  OBVIOUS
<1>1. CASE UNCHANGED vars
  BY <1>1 DEF vars, IInv, TypeOK, Fresh, Ownership, Lists, BlocksOwned, ListedBy,
              AttachedOwned, ListedAttached
<1>2. ASSUME NEW nm \in Names, FunctionAdd(nm) PROVE IInv'
  BY <1>2, FunctionAddIInv
<1>3. ASSUME NEW fn \in Ids, NEW nm \in Names, BlockAdd(fn, nm) PROVE IInv'
  BY <1>3, BlockAddIInv
<1>4. ASSUME NEW op \in Opcodes, InstrBuild(op) PROVE IInv'
  <2>1. NoName \in Names \cup {NoName} /\ <<>> \in Seq(Names \cup {NoName})
    OBVIOUS
  <2>2. NewNode("instr", NoName, op, <<>>, 0) /\ UNCHANGED <<functions, children, attached>>
    BY <1>4 DEF InstrBuild
  <2>3. QED
    BY <2>1, <2>2, InstrBuildIInv
<1>5. ASSUME NEW blk \in Ids \cup {0}, NEW op \in Opcodes \ Terminators,
             NEW nm \in Names \cup {NoName}, NEW argsOk \in BOOLEAN,
             BuildInto(blk, nm, op, argsOk)
      PROVE  IInv'
  BY <1>5, BuildIntoIInv
<1>6. ASSUME NEW ins \in Ids, NEW nm \in Names \cup {NoName}, InstrSetDest(ins, nm)
      PROVE  IInv'
  BY <1>6, InstrSetDestIInv
<1>7. ASSUME NEW ins \in Ids, NEW nm \in Names \cup {NoName}, InstrAddOperand(ins, nm)
      PROVE  IInv'
  BY <1>7, InstrAddOperandIInv
<1>8. ASSUME NEW ins \in Ids, NEW idx \in 1..MaxOperands, NEW nm \in Names \cup {NoName},
             InstrSetOperand(ins, idx, nm)
      PROVE  IInv'
  BY <1>8, InstrSetOperandIInv
<1>9. ASSUME NEW blk \in Ids, NEW ins \in Ids, BlockAppendInstr(blk, ins) PROVE IInv'
  BY <1>9, BlockAppendInstrIInv
<1>10. ASSUME NEW old \in Ids, NEW new \in Ids, InstrReplace(old, new) PROVE IInv'
  BY <1>10, InstrReplaceIInv
<1>11. ASSUME NEW anchor \in Ids, NEW new \in Ids, InstrInsertBefore(anchor, new) PROVE IInv'
  BY <1>11, InstrInsertBeforeIInv
<1>12. ASSUME NEW ins \in Ids, InstrDelete(ins) PROVE IInv'
  BY <1>12, InstrDeleteIInv
<1>13. ASSUME NEW blk \in Ids, BlockDelete(blk) PROVE IInv'
  BY <1>13, BlockDeleteIInv
<1>14. ASSUME NEW first \in Ids, NEW second \in Ids, BlockMerge(first, second) PROVE IInv'
  BY <1>14, BlockMergeIInv
<1>15. QED
  BY <1>1, <1>2, <1>3, <1>4, <1>5, <1>6, <1>7, <1>8, <1>9, <1>10, <1>11, <1>12,
     <1>13, <1>14 DEF Next

\* The table is a forest in every reachable state of ccw_ir.c: the inductive
\* invariant holds throughout.
THEOREM Invariance == Spec => []IInv
<1>1. QED
  BY InitIInv, NextIInv, PTL DEF Spec

\* The fields of the node table keep their types through every sequence of
\* edits (TypeOK), for any size of the table and any names and opcodes.
THEOREM TypeCorrect == Spec => []TypeOK
<1>1. IInv => TypeOK
  BY DEF IInv
<1>2. QED
  BY <1>1, Invariance, PTL

\* No sequence of splices, deletions and merges in ccw_ir.c shares, loses or
\* resurrects a node: the functions, blocks and instructions are always a tree.
THEOREM OwnershipHolds == Spec => []Ownership
<1>1. IInv => Ownership
  BY DEF IInv
<1>2. QED
  BY <1>1, Invariance, PTL

(***************************************************************************)
(* Ids are never reused.                                                   *)
(***************************************************************************)
\* ccw_ir_node_new touches only the id that it hands out.
LEMMA NewNodeKindStep ==
  ASSUME IInv, NEW k, NEW nm, NEW op, NEW ops, NEW par, NewNode(k, nm, op, ops, par)
  PROVE  KindStep
<1>1. node_count \in Nat /\ \A i \in Ids : i \in Nat /\ i # node_count + 1 => kind'[i] = kind[i]
  BY IRAssumption DEF IInv, TypeOK, NewNode
<1>2. \A i \in Ids : i <= node_count => i # node_count + 1
  BY <1>1 DEF Ids
<1>3. QED
  BY <1>1, <1>2 DEF KindStep, Ids

\* A step that changes no kind.
LEMMA SameKindStep == kind' = kind => KindStep
BY DEF KindStep

\* A step in which nodes can only die.
LEMMA DeathKindStep ==
  ASSUME \A i \in Ids : kind'[i] \in {kind[i], "dead"}
  PROVE  KindStep
BY DEF KindStep

\* Every operation of ccw_ir.c is one of the three.
LEMMA NextKindStep == IInv /\ [Next]_vars => KindStep
<1> SUFFICES ASSUME IInv, [Next]_vars PROVE KindStep
  OBVIOUS
<1>1. CASE UNCHANGED vars
  BY <1>1, SameKindStep DEF vars
<1>2. ASSUME NEW nm \in Names, FunctionAdd(nm) PROVE KindStep
  BY <1>2, NewNodeKindStep DEF FunctionAdd
<1>3. ASSUME NEW fn \in Ids, NEW nm \in Names, BlockAdd(fn, nm) PROVE KindStep
  BY <1>3, NewNodeKindStep DEF BlockAdd
<1>4. ASSUME NEW op \in Opcodes, InstrBuild(op) PROVE KindStep
  BY <1>4, NewNodeKindStep DEF InstrBuild
<1>5. ASSUME NEW blk \in Ids \cup {0}, NEW op \in Opcodes \ Terminators,
             NEW nm \in Names \cup {NoName}, NEW argsOk \in BOOLEAN,
             BuildInto(blk, nm, op, argsOk)
      PROVE  KindStep
  BY <1>5, NewNodeKindStep DEF BuildInto
<1>6. CASE \/ \E ins \in Ids, nm \in Names \cup {NoName} : InstrSetDest(ins, nm)
           \/ \E ins \in Ids, nm \in Names \cup {NoName} : InstrAddOperand(ins, nm)
           \/ \E ins \in Ids, idx \in 1..MaxOperands, nm \in Names \cup {NoName} :
                InstrSetOperand(ins, idx, nm)
           \/ \E blk, ins \in Ids : BlockAppendInstr(blk, ins)
           \/ \E old, new \in Ids : InstrReplace(old, new)
           \/ \E anchor, new \in Ids : InstrInsertBefore(anchor, new)
           \/ \E ins \in Ids : InstrDelete(ins)
  <2>1. kind' = kind
    BY <1>6 DEF InstrSetDest, InstrAddOperand, InstrSetOperand, BlockAppendInstr,
                InstrReplace, InstrInsertBefore, InstrDelete
  <2>2. QED
    BY <2>1, SameKindStep
<1>7. ASSUME NEW blk \in Ids, BlockDelete(blk) PROVE KindStep
  <2>1. \A i \in Ids : kind'[i] \in {kind[i], "dead"}
    BY <1>7 DEF BlockDelete
  <2>2. QED
    BY <2>1, DeathKindStep
<1>8. ASSUME NEW first \in Ids, NEW second \in Ids, BlockMerge(first, second) PROVE KindStep
  <2>1. kind \in [Ids -> Kinds]
    BY DEF IInv, TypeOK
  <2>2. kind' = kind \/ kind' = [kind EXCEPT ![Last(children[first])] = "dead",
                                             ![second] = "dead"]
    BY <1>8 DEF BlockMerge
  <2>3. \A i \in Ids : kind'[i] \in {kind[i], "dead"}
    BY <2>1, <2>2
  <2>4. QED
    BY <2>3, DeathKindStep
<1>9. QED
  BY <1>1, <1>2, <1>3, <1>4, <1>5, <1>6, <1>7, <1>8 DEF Next

\* ccw_ir.h: "deleted node; id never reused".  Whatever is edited, a dead id
\* stays dead and a live one never becomes a node of another kind.
THEOREM IdsNeverReused == Spec => DeadForever
<1>1. IInv /\ [Next]_vars => [KindStep]_vars
  BY NextKindStep
<1>2. QED
  BY <1>1, Invariance, PTL DEF Spec, DeadForever

\* The node table of ccw_ir.c is sound, for tables of any size.
THEOREM TablesSound == Spec => []TableSound
<1>1. IInv => TableSound
  BY DEF IInv, TableSound
<1>2. QED
  BY <1>1, Invariance, PTL

(***************************************************************************)
(* The control flow graph.                                                 *)
(***************************************************************************)
\* The loop of ccw_ir_block_successors is a function on its positions.
LEMMA LoopExists ==
  ASSUME NEW ts, Len(ts) \in Nat
  PROVE  \E f : f = [k \in 0..Len(ts) |-> IF k = 0 THEN <<>>
                                          ELSE IF ts[k] = 0 THEN f[k - 1]
                                          ELSE Append(f[k - 1], ts[k])]
<1> DEFINE Step(k, x) == IF ts[k] = 0 THEN x ELSE Append(x, ts[k])
           Rec(n, f) == f = [k \in 0..n |-> IF k = 0 THEN <<>> ELSE Step(k, f[k - 1])]
           Bad == {n \in Nat : ~ \E f : Rec(n, f)}
<1> HIDE DEF Step
<1>1. SUFFICES ASSUME Bad # {} PROVE FALSE
  BY DEF Step
<1>2. PICK n \in Bad : \A l \in Bad : n <= l
  <2>1. Bad \subseteq Nat
    OBVIOUS
  <2> HIDE DEF Bad
  <2>2. QED
    BY <1>1, <2>1, LeastNatural
<1>3. n # 0
  <2> DEFINE g == [k \in 0..0 |-> <<>>]
  <2>1. Rec(0, g)
    OBVIOUS
  <2>2. QED
    BY <2>1
<1>4. n - 1 \in Nat /\ n - 1 \notin Bad
  <2>1. n \in Nat
    OBVIOUS
  <2> HIDE DEF Bad
  <2>2. QED
    BY <2>1, <1>2, <1>3
<1>5. PICK f : Rec(n - 1, f)
  BY <1>4
<1> DEFINE h == [k \in 0..n |-> IF k = n THEN Step(n, f[n - 1]) ELSE f[k]]
<1>6. ASSUME NEW k \in 0..n
      PROVE  h[k] = IF k = 0 THEN <<>> ELSE Step(k, h[k - 1])
  <2>1. CASE k = n
    BY <2>1, <1>3, <1>4
  <2>2. CASE k # n
    <3>1. k \in 0..(n - 1) /\ (k # 0 => k - 1 \in 0..(n - 1) /\ k - 1 # n)
      BY <2>2, <1>4
    <3>2. f[k] = IF k = 0 THEN <<>> ELSE Step(k, f[k - 1])
      BY <3>1, <1>5
    <3>3. QED
      BY <2>2, <3>1, <3>2
  <2>3. QED
    BY <2>1, <2>2
<1>7. Rec(n, h)
  BY <1>6
<1>8. QED
  BY <1>2, <1>7

\* The loop of ccw_ir_block_successors keeps what resolves, and nothing else.
LEMMA ResolvingKeeps ==
  ASSUME NEW ts \in Seq(Nat)
  PROVE  /\ Resolving(ts) \in Seq(Nat)
         /\ ToSet(Resolving(ts)) = {ts[j] : j \in 1..Len(ts)} \ {0}
<1> DEFINE n == Len(ts)
           Step(k, x) == IF ts[k] = 0 THEN x ELSE Append(x, ts[k])
           Rec(f) == f = [k \in 0..n |-> IF k = 0 THEN <<>> ELSE Step(k, f[k - 1])]
           t == CHOOSE f : Rec(f)
           Good(k, x) == x \in Seq(Nat) /\ ToSet(x) = {ts[j] : j \in 1..k} \ {0}
           Bad == {k \in Nat : k <= n /\ ~ Good(k, t[k])}
<1>1. Rec(t)
  <2>1. Len(ts) \in Nat
    BY LenProperties
  <2>2. \E f : Rec(f)
    BY <2>1, LoopExists
  <2> HIDE DEF Rec
  <2>3. QED
    BY <2>2, Zenon
<1>2. Resolving(ts) = t[n]
  BY Zenon DEF Resolving
<1>3. n \in Nat /\ \A k \in 1..n : ts[k] \in Nat
  BY LenProperties, ElementOfSeq
<1>4. t[0] = <<>> /\ \A k \in 1..n : t[k] = Step(k, t[k - 1])
  <2>1. t = [k \in 0..n |-> IF k = 0 THEN <<>> ELSE Step(k, t[k - 1])]
    BY <1>1
  <2> HIDE DEF t, n, Step
  <2>2. QED
    BY <2>1, <1>3
<1> HIDE DEF t, n
<1>5. ASSUME NEW x, NEW k \in 1..n, Good(k - 1, x) PROVE Good(k, Step(k, x))
  <2>0. {ts[j] : j \in 1..k} = {ts[j] : j \in 1..(k - 1)} \cup {ts[k]}
    <3>1. \A j \in 1..k : j = k \/ j \in 1..(k - 1)
      BY <1>3
    <3>2. k \in 1..k /\ \A j \in 1..(k - 1) : j \in 1..k
      BY <1>3
    <3>3. QED
      BY <3>1, <3>2
  <2>1. CASE ts[k] = 0
    BY <2>0, <2>1, <1>5
  <2>2. CASE ts[k] # 0
    <3> DEFINE e == ts[k]
               y == Append(x, e)
    <3>1. e \in Nat /\ x \in Seq(Nat)
      BY <1>3, <1>5
    <3>2. /\ y \in Seq(Nat) /\ Len(x) \in Nat /\ DOMAIN x = 1..Len(x)
          /\ DOMAIN y = 1..(Len(x) + 1)
          /\ \A i \in 1..Len(x) : y[i] = x[i]
          /\ y[Len(x) + 1] = e
      <4> HIDE DEF e
      <4>1. QED
        BY <3>1, AppendFacts
    <3>3. ToSet(y) = ToSet(x) \cup {e}
      <4> DEFINE c == Len(x)
      <4>1. /\ c \in Nat /\ DOMAIN x = 1..c /\ DOMAIN y = 1..(c + 1)
            /\ \A i \in 1..c : y[i] = x[i]
            /\ y[c + 1] = e
        BY <3>2
      <4> HIDE DEF c, y, e
      <4>2. QED
        BY <4>1 DEF ToSet
    <3>4. Step(k, x) = y
      BY <2>2
    <3> HIDE DEF y
    <3>5. QED
      BY <1>5, <2>0, <2>2, <3>2, <3>3, <3>4
  <2>3. QED
    BY <2>1, <2>2
<1> HIDE DEF Step
<1>6. Good(0, t[0])
  BY <1>3, <1>4 DEF ToSet
<1> HIDE DEF Good
<1>7. Bad = {}
  <2> SUFFICES ASSUME Bad # {} PROVE FALSE
    OBVIOUS
  <2>1. PICK k \in Bad : \A l \in Bad : k <= l
    <3>1. Bad \subseteq Nat
      OBVIOUS
    <3> HIDE DEF Bad
    <3>2. QED
      BY <3>1, LeastNatural
  <2>2. k # 0
    BY <1>6
  <2>3. k - 1 \in Nat /\ k \in 1..n /\ k - 1 <= n /\ k - 1 \notin Bad
    <3>1. k \in Nat /\ k <= n
      OBVIOUS
    <3> HIDE DEF Bad
    <3>2. QED
      BY <1>3, <2>1, <2>2, <3>1
  <2>4. Good(k - 1, t[k - 1])
    BY <2>3
  <2>5. Good(k, t[k])
    BY <1>4, <1>5, <2>3, <2>4
  <2>6. QED
    BY <2>5
<1>8. Good(n, t[n])
  BY <1>3, <1>7
<1>9. QED
  BY <1>2, <1>3, <1>8 DEF Good, n

\* ccw_ir_block_target on a vector of blocks: the first that has the name, or nil.
Found(s, nms, nm) ==
  LET I == {i \in 1..Len(s) : nms[s[i]] = nm} IN IF I = {} THEN 0 ELSE s[Min(I)]

IsFirst(s, nms, nm, i) ==
  i \in 1..Len(s) /\ nms[s[i]] = nm /\ \A j \in 1..(i - 1) : nms[s[j]] # nm

LEMMA FoundFirst ==
  ASSUME NEW s, Len(s) \in Nat, NEW nms, NEW nm
  PROVE  /\ \A i : IsFirst(s, nms, nm, i) => Found(s, nms, nm) = s[i]
         /\ (\A i \in 1..Len(s) : nms[s[i]] # nm) => Found(s, nms, nm) = 0
         /\ (\A i \in 1..Len(s) : nms[s[i]] # nm) \/ \E i : IsFirst(s, nms, nm, i)
<1> DEFINE I == {i \in 1..Len(s) : nms[s[i]] = nm}
<1>1. Found(s, nms, nm) = IF I = {} THEN 0 ELSE s[Min(I)]
  BY DEF Found
<1>2. ASSUME NEW i, IsFirst(s, nms, nm, i) PROVE Found(s, nms, nm) = s[i]
  <2>1. i \in I /\ \A y \in I : i <= y
    BY <1>2 DEF IsFirst
  <2>2. \A x \in I : (\A y \in I : x <= y) => x = i
    BY <2>1
  <2> HIDE DEF I
  <2>3. Min(I) = i
    BY <2>1, <2>2 DEF Min
  <2>4. QED
    BY <1>1, <2>1, <2>3
<1>3. (\A i \in 1..Len(s) : nms[s[i]] # nm) => Found(s, nms, nm) = 0
  BY <1>1
<1>4. ASSUME I # {} PROVE \E i : IsFirst(s, nms, nm, i)
  <2>1. PICK i \in I : \A y \in I : i <= y
    <3>1. I \subseteq Nat
      OBVIOUS
    <3> HIDE DEF I
    <3>2. QED
      BY <1>4, <3>1, LeastNatural
  <2>2. IsFirst(s, nms, nm, i)
    BY <2>1 DEF IsFirst
  <2>3. QED
    BY <2>2
<1>5. QED
  BY <1>2, <1>3, <1>4

\* Taking out a block that the name does not resolve to changes nothing.
LEMMA FoundAfterRemoval ==
  ASSUME NEW s, NEW r, NEW nms, NEW nm, NEW k \in 1..Len(s),
         Len(s) \in Nat, Len(r) = Len(s) - 1,
         \A j \in 1..(Len(s) - 1) : r[j] = IF j < k THEN s[j] ELSE s[j + 1],
         Found(s, nms, nm) # s[k]
  PROVE  Found(r, nms, nm) = Found(s, nms, nm)
<1>0. Len(r) \in Nat
  OBVIOUS
<1>1. CASE \A i \in 1..Len(s) : nms[s[i]] # nm
  <2>1. \A j \in 1..Len(r) : \E i \in 1..Len(s) : r[j] = s[i]
    OBVIOUS
  <2>2. \A j \in 1..Len(r) : nms[r[j]] # nm
    BY <1>1, <2>1
  <2>3. QED
    BY <1>0, <1>1, <2>2, FoundFirst
<1>2. ASSUME NEW i, IsFirst(s, nms, nm, i) PROVE Found(r, nms, nm) = Found(s, nms, nm)
  <2>1. Found(s, nms, nm) = s[i] /\ i # k
    BY <1>2, FoundFirst
  <2>2. CASE i < k
    <3>1. i \in 1..Len(r) /\ \A j \in 1..i : r[j] = s[j]
      BY <1>2, <2>2 DEF IsFirst
    <3>2. IsFirst(r, nms, nm, i) /\ r[i] = s[i]
      BY <1>2, <3>1 DEF IsFirst
    <3>3. QED
      BY <1>0, <2>1, <3>2, FoundFirst
  <2>3. CASE i > k
    <3>1. i - 1 \in 1..Len(r) /\ r[i - 1] = s[i]
      BY <1>2, <2>3 DEF IsFirst
    <3>2. \A j \in 1..((i - 1) - 1) : \E l \in 1..(i - 1) : r[j] = s[l]
      BY <1>2, <2>3 DEF IsFirst
    <3>3. IsFirst(r, nms, nm, i - 1)
      BY <1>2, <3>1, <3>2 DEF IsFirst
    <3>4. QED
      BY <1>0, <2>1, <3>1, <3>3, FoundFirst
  <2>4. QED
    BY <1>2, <2>1, <2>2, <2>3 DEF IsFirst
<1>3. QED
  BY <1>1, <1>2, FoundFirst

LEMMA TargetIsFound ==
  ASSUME NEW g, NEW nm, children[g] \in Seq(Ids)
  PROVE  BlockTarget(g, nm) = Found(children[g], name, nm)
<1> DEFINE s == children[g]
           I == {i \in 1..Len(s) : name[s[i]] = nm}
<1>1. I \subseteq Nat \ {0}
  BY LenProperties
<1>2. I # {} => Min(I) # 0
  <2> HIDE DEF I
  <2>1. I # {} => \E x \in I : \A y \in I : x <= y
    BY <1>1, LeastNatural
  <2>2. QED
    BY <1>1, <2>1 DEF Min
<1>3. QED
  BY <1>2 DEF BlockTarget, SelectInSeq, Found

TargetsFound == \A g \in Ids : \A nm : children[g] \in Seq(Ids) =>
                  BlockTarget(g, nm) = Found(children[g], name, nm)

LEMMA TargetsFoundNow == TargetsFound
BY TargetIsFound DEF TargetsFound

LEMMA TargetsFoundNext == TargetsFound'
BY TargetsFoundNow, PTL

\* A name is found among the blocks of the function, or nothing is.
LEMMA TargetListed ==
  ASSUME NEW g, NEW nm, children[g] \in Seq(Ids)
  PROVE  BlockTarget(g, nm) \in ToSet(children[g]) \cup {0}
<1>1. BlockTarget(g, nm) = Found(children[g], name, nm)
  BY TargetIsFound
<1>2. Len(children[g]) \in Nat /\ DOMAIN children[g] = 1..Len(children[g])
  BY LenProperties
<1>3. CASE \A i \in 1..Len(children[g]) : name[children[g][i]] # nm
  BY <1>1, <1>2, <1>3, FoundFirst
<1>4. ASSUME NEW i, IsFirst(children[g], name, nm, i)
      PROVE  BlockTarget(g, nm) \in ToSet(children[g])
  <2>1. Found(children[g], name, nm) = children[g][i]
    BY <1>2, <1>4, FoundFirst
  <2>2. i \in DOMAIN children[g]
    BY <1>2, <1>4 DEF IsFirst
  <2>3. QED
    BY <1>1, <2>1, <2>2 DEF ToSet
<1>5. QED
  BY <1>2, <1>3, <1>4, FoundFirst

\* ccw_ir_block_successors: the successors are what the operands of the terminator
\* resolve to.
TargetsFrom(c, g, ins) ==
  /\ Targets(c) \in Seq(Nat)
  /\ \A x : x \in ToSet(Targets(c)) <=>
       x # 0 /\ \E j \in DOMAIN operands[ins] : x = BlockTarget(g, operands[ins][j])

LEMMA TargetSet ==
  ASSUME IInv, NEW c \in Ids, NEW g \in Ids, parent[c] = g, children[c] # <<>>,
         NEW ins \in Ids, ins = Last(children[c]), opcode[ins] \in Terminators
  PROVE  TargetsFrom(c, g, ins)
<1> DEFINE ops == operands[ins]
           ts == [k \in DOMAIN ops |-> BlockTarget(g, ops[k])]
<1>1. ops \in Seq(Names \cup {NoName}) /\ children[g] \in Seq(Ids)
  BY DEF IInv, TypeOK
<1>2. Targets(c) = Resolving(ts)
  BY DEF Targets
<1>3. DOMAIN ops = 1..Len(ops) /\ Len(ops) \in Nat
  BY <1>1
<1>4. \A nm : BlockTarget(g, nm) \in Nat
  <2>1. ToSet(children[g]) \subseteq Nat
    BY <1>1, IRAssumption DEF ToSet, Ids
  <2>2. QED
    BY <1>1, <2>1, TargetListed
<1>5. ts \in [1..Len(ops) -> Nat] /\ \A j \in DOMAIN ops : ts[j] = BlockTarget(g, ops[j])
  BY <1>3, <1>4
<1> HIDE DEF ts
<1>6. ts \in Seq(Nat) /\ Len(ts) = Len(ops)
  BY <1>3, <1>5, FunctionLength
<1>7. Resolving(ts) \in Seq(Nat) /\ ToSet(Resolving(ts)) = {ts[j] : j \in 1..Len(ts)} \ {0}
  BY <1>6, ResolvingKeeps
<1>8. \A x : x \in {ts[j] : j \in 1..Len(ts)} <=> \E j \in DOMAIN ops : x = BlockTarget(g, ops[j])
  BY <1>3, <1>5, <1>6
<1>9. /\ Targets(c) \in Seq(Nat)
      /\ \A x : x \in ToSet(Targets(c)) <=>
           x # 0 /\ \E j \in DOMAIN ops : x = BlockTarget(g, ops[j])
  BY <1>2, <1>7, <1>8
<1>10. QED
  BY <1>9, Zenon DEF TargetsFrom

\* No operand of a terminator that resolves is lost.
LEMMA ResolvedIsTarget ==
  ASSUME IInv, NEW c \in Ids, NEW g \in Ids, parent[c] = g, children[c] # <<>>, NEW ins \in Ids,
         ins = Last(children[c]), opcode[ins] \in Terminators,
         NEW j \in DOMAIN operands[ins], BlockTarget(g, operands[ins][j]) # 0
  PROVE  BlockTarget(g, operands[ins][j]) \in ToSet(Targets(c))
<1>1. TargetsFrom(c, g, ins)
  BY TargetSet
<1>2. QED
  BY <1>1 DEF TargetsFrom

\* A block that ends as one ended before, in a function where its operands resolve as
\* before, has the successors that one had.
LEMMA SameTargets ==
  ASSUME NEW c \in Ids, NEW e \in Ids, NEW g, parent[c] = g, parent'[e] = g,
         children[c] # <<>>, children'[e] # <<>>, NEW ins \in Ids,
         Last(children[c]) = ins, Last(children'[e]) = ins,
         opcode' = opcode, operands' = operands,
         opcode[ins] \in Terminators =>
           \A j \in DOMAIN operands[ins] :
             BlockTarget(g, operands[ins][j])' = BlockTarget(g, operands[ins][j])
  PROVE  Targets(e)' = Targets(c)
<1> DEFINE ops == operands[ins]
           ts == [k \in DOMAIN ops |-> BlockTarget(g, ops[k])]
<1>1. ops' = ops
  OBVIOUS
<1>2. Targets(c) = IF opcode[ins] \in Terminators THEN Resolving(ts) ELSE <<>>
  BY DEF Targets
<1>3. Targets(e)' = IF opcode'[ins] \in Terminators THEN Resolving(ts') ELSE <<>>
  BY DEF Targets, BlockTarget, Resolving
<1>4. opcode[ins] \in Terminators => ts' = ts
  BY <1>1
<1> HIDE DEF ts
<1>5. QED
  BY <1>2, <1>3, <1>4

\* An empty block has no successors.
LEMMA EmptyTargets ==
  ASSUME NEW c \in Ids, children[c] = <<>>, children'[c] = <<>>
  PROVE  Targets(c) = <<>> /\ Targets(c)' = <<>>
BY DEF Targets

\* Unlisting block d of function f, that the operands of block c do not resolve to.
LEMMA UnlistedTarget ==
  ASSUME IInv, IInv', NEW f \in Ids, NEW k, Removed(f, k), name' = name, NEW nm,
         BlockTarget(f, nm) # children[f][k]
  PROVE  BlockTarget(f, nm)' = BlockTarget(f, nm)
<1> DEFINE s == children[f]
           r == children'[f]
<1>1. s \in Seq(Ids) /\ r \in Seq(Ids)
  BY DEF IInv, TypeOK
<1>2. BlockTarget(f, nm) = Found(s, name, nm)
  BY <1>1, TargetIsFound
<1>3. BlockTarget(f, nm)' = Found(r, name, nm)
  <2>1. (children[f] \in Seq(Ids) => BlockTarget(f, nm) = Found(children[f], name, nm))'
    BY TargetsFoundNext DEF TargetsFound
  <2>2. QED
    BY <1>1, <2>1
<1>4. /\ Len(s) \in Nat /\ k \in 1..Len(s) /\ Len(r) = Len(s) - 1
      /\ \A j \in 1..(Len(s) - 1) : r[j] = IF j < k THEN s[j] ELSE s[j + 1]
  <2>1. DOMAIN r = 1..(Len(s) - 1) /\ DOMAIN r = 1..Len(r) /\ Len(r) \in Nat
    BY <1>1 DEF Removed
  <2>2. /\ Len(s) \in Nat /\ k \in 1..Len(s)
        /\ \A j \in 1..(Len(s) - 1) : r[j] = IF j < k THEN s[j] ELSE s[j + 1]
    BY DEF Removed
  <2> HIDE DEF s, r
  <2>3. Len(r) = Len(s) - 1
    BY <2>1, <2>2
  <2>4. QED
    BY <2>2, <2>3
<1> HIDE DEF s, r
<1>5. QED
  BY <1>2, <1>3, <1>4, FoundAfterRemoval DEF s

\* Block d of function f is unlisted, the labels stay.
Unlisted(f, k, d) ==
  /\ kind[d] = "block" /\ parent[d] = f /\ children[f][k] = d /\ Removed(f, k)
  /\ \A q \in Ids : q # f /\ kind[q] = "function" => children'[q] = children[q]
  /\ name' = name /\ opcode' = opcode /\ operands' = operands

\* A block e that ends the way c did, of which d was no successor, has c's successors.
LEMMA EndsAlike ==
  ASSUME IInv, IInv', NEW f \in Ids, NEW k, NEW d \in Ids, Unlisted(f, k, d),
         NEW c \in Ids, kind[c] = "block", c \notin Predecessors(d), children[c] # <<>>,
         NEW e \in Ids, parent'[e] = parent[c], children'[e] # <<>>,
         Last(children'[e]) = Last(children[c])
  PROVE  Targets(e)' = Targets(c)
<1> PICK g \in Ids : g = parent[c]
  BY DEF IInv, Ownership, BlocksOwned, ListedBy
<1>1. kind[g] = "function" /\ c \in ToSet(children[g])
  BY DEF IInv, Ownership, BlocksOwned, ListedBy, ToSet
<1>2. Last(children[c]) \in Ids
  <2>1. children[c] \in Seq(Ids)
    BY DEF IInv, TypeOK
  <2>2. Len(children[c]) \in 1..Len(children[c])
    BY <2>1, EmptySeq, LenProperties
  <2>3. QED
    BY <2>1, <2>2 DEF Last
<1> PICK ins \in Ids : ins = Last(children[c])
  BY <1>2
<1>3. ASSUME opcode[ins] \in Terminators, NEW j \in DOMAIN operands[ins]
      PROVE  BlockTarget(g, operands[ins][j])' = BlockTarget(g, operands[ins][j])
  <2> PICK nm : nm = operands[ins][j]
    OBVIOUS
  <2>1. operands'[ins][j] = nm
    BY DEF Unlisted
  <2>2. BlockTarget(g, nm)' = BlockTarget(g, nm)
    <3>1. CASE g # f
      <4>1. children'[g] = children[g] /\ name' = name /\ children[g] \in Seq(Ids)
        BY <1>1, <3>1 DEF Unlisted, IInv, TypeOK
      <4>2. BlockTarget(g, nm) = Found(children[g], name, nm)
        BY <4>1, TargetIsFound
      <4>3. (children[g] \in Seq(Ids) => BlockTarget(g, nm) = Found(children[g], name, nm))'
        BY TargetsFoundNext DEF TargetsFound
      <4>4. QED
        BY <4>1, <4>2, <4>3
    <3>2. CASE g = f
      <4>1. d \notin ToSet(Targets(c))
        BY <1>1, <3>2 DEF Unlisted, Predecessors
      <4>2. BlockTarget(g, nm) # d
        <5>1. BlockTarget(g, nm) # 0 => BlockTarget(g, nm) \in ToSet(Targets(c))
          BY <1>3, ResolvedIsTarget
        <5>2. d # 0
          BY DEF Ids
        <5>3. QED
          BY <4>1, <5>1, <5>2
      <4>3. QED
        BY <3>2, <4>2, UnlistedTarget DEF Unlisted
    <3>3. QED
      BY <3>1, <3>2
  <2>3. QED
    BY <2>1, <2>2
<1>4. QED
  BY <1>3, SameTargets DEF Unlisted

\* A block the edit does not touch, and that did not lead to d.
LEMMA UntouchedTargets ==
  ASSUME IInv, IInv', NEW f \in Ids, NEW k, NEW d \in Ids, Unlisted(f, k, d),
         NEW c \in Ids, kind[c] = "block", c \notin Predecessors(d),
         parent'[c] = parent[c], children'[c] = children[c]
  PROVE  Targets(c)' = Targets(c)
<1>1. CASE children[c] = <<>>
  BY <1>1, EmptyTargets
<1>2. CASE children[c] # <<>>
  BY <1>2, EndsAlike
<1>3. QED
  BY <1>1, <1>2

EdgeStep ==
  \A b \in Ids : kind[b] = "block" /\ kind'[b] = "dead" =>
    \A c \in Ids : kind'[c] = "block" =>
      IF children'[c] = children[c] THEN Targets(c)' = Targets(c)
      ELSE children[b] # <<>> => Targets(c)' = Targets(b)

\* ccw_ir_block_delete refuses a block that is a target.
LEMMA DeleteTargets ==
  ASSUME IInv, NEW b \in Ids, BlockDelete(b)
  PROVE  /\ Unlisted(parent[b], IndexOf(parent[b], b), b)
         /\ \A c \in Ids : kind'[c] = "block" =>
              kind[c] = "block" /\ c # b /\ children'[c] = children[c] /\ Targets(c)' = Targets(c)
<1>0. IInv'
  BY BlockDeleteIInv
<1>1. PICK f \in Ids : f = parent[b] /\ kind[f] = "function"
  BY DEF BlockDelete, Live
<1>2. PICK k : k = IndexOf(f, b)
  OBVIOUS
<1>3. /\ kind[b] = "block" /\ Predecessors(b) = {} /\ b # f
      /\ children' = [children EXCEPT ![f] = RemoveAt(@, k)]
      /\ \A j \in Ids : kind'[j] = IF j = b \/ j \in ToSet(children[b]) THEN "dead" ELSE kind[j]
      /\ UNCHANGED <<parent, opcode, operands, name>>
  BY <1>1, <1>2 DEF BlockDelete, Live
<1>4. /\ children'[f] = RemoveAt(children[f], k)
      /\ \A q \in Ids : q # f => children'[q] = children[q]
  BY <1>3 DEF IInv, TypeOK
<1>5. Unlisted(f, k, b)
  <2>1. children[f][k] = b /\ Removed(f, k)
    BY <1>1, <1>2, <1>3, <1>4, UnlistBlock
  <2>2. QED
    BY <1>1, <1>3, <1>4, <2>1 DEF Unlisted
<1>6. \A n \in ToSet(children[b]) : kind[n] = "instr"
  BY <1>3 DEF IInv, Ownership, Lists, ToSet
<1>7. ASSUME NEW c \in Ids, kind'[c] = "block"
      PROVE  kind[c] = "block" /\ c # b /\ children'[c] = children[c] /\ Targets(c)' = Targets(c)
  <2>1. kind[c] = "block" /\ c # f /\ c # b
    BY <1>1, <1>3, <1>7
  <2>2. children'[c] = children[c] /\ parent'[c] = parent[c]
    BY <1>3, <1>4, <2>1
  <2>3. QED
    BY <1>0, <1>3, <1>5, <2>1, <2>2, UntouchedTargets
<1>8. QED
  BY <1>1, <1>2, <1>5, <1>7

LEMMA DeleteEdges ==
  ASSUME IInv, NEW b \in Ids, BlockDelete(b)
  PROVE  EdgeStep
BY DeleteTargets DEF EdgeStep

\* The only way into the second block of a merge is the jump of the first.
LEMMA MergePredecessor ==
  ASSUME IInv, NEW a \in Ids, NEW b \in Ids, Mergeable(a, b)
  PROVE  Predecessors(b) = {a}
<1>1. /\ kind[a] = "block" /\ parent[a] = parent[b] /\ parent[a] \in Ids
      /\ kind[parent[a]] = "function"
  BY MergeableFacts
<1>2. b \in ToSet(Targets(a))
  <2> DEFINE t == Targets(a)
             K == {j \in FirstPositions(t) :
                     Cardinality({p \in FirstPositions(t) : p < j}) = 0}
  <2>1. SuccessorRef(a, 0) = b /\ b # 0
    BY DEF Mergeable, Ids
  <2>2. K # {} /\ b = t[CHOOSE j \in K : TRUE]
    BY <2>1 DEF SuccessorRef
  <2>3. K \subseteq DOMAIN t
    BY DEF FirstPositions
  <2> HIDE DEF K
  <2>4. (CHOOSE j \in K : TRUE) \in K
    BY <2>2
  <2>5. QED
    BY <2>2, <2>3, <2>4 DEF ToSet
<1>3. a \in ToSet(children[parent[b]])
  BY <1>1 DEF IInv, Ownership, BlocksOwned, ListedBy, ToSet
<1>4. a \in Predecessors(b)
  BY <1>2, <1>3 DEF Predecessors
<1>5. IsFiniteSet(Predecessors(b))
  <2>1. ToSet(children[parent[b]]) \subseteq Ids
    BY <1>1 DEF IInv, TypeOK, ToSet
  <2>2. Predecessors(b) \subseteq Ids
    BY <2>1 DEF Predecessors
  <2>3. IsFiniteSet(Ids)
    <3>1. MaxNodes \in Int /\ 1 \in Int
      BY IRAssumption
    <3>2. QED
      BY <3>1, FS_Interval DEF Ids
  <2>4. QED
    BY <2>2, <2>3, FS_Subset
<1>6. Cardinality(Predecessors(b)) = 1
  BY DEF Mergeable
<1>7. \E x : Predecessors(b) = {x}
  BY <1>5, <1>6, FS_Singleton
<1>8. QED
  BY <1>4, <1>7

LEMMA OneElement ==
  /\ \A n \in Nat : n > 0 /\ n <= 1 => n = 1
  /\ \A m, n \in Nat : 1..(m + n) = 1..(m + 1) => n = 1
<1> SUFFICES ASSUME NEW m \in Nat, NEW n \in Nat, 1..(m + n) = 1..(m + 1) PROVE n = 1
  OBVIOUS
<1>1. m + 1 \in 1..(m + n)
  OBVIOUS
<1>2. QED
  BY <1>1

\* ccw_ir_block_merge of a block that jumps to itself: the block dies.
LEMMA SelfMergeTargets ==
  ASSUME IInv, NEW a \in Ids, BlockMerge(a, a), Len(children[a]) <= 1
  PROVE  /\ Unlisted(parent[a], IndexOf(parent[a], a), a)
         /\ \A c \in Ids : kind'[c] = "block" =>
              kind[c] = "block" /\ c # a /\ children'[c] = children[c] /\ Targets(c)' = Targets(c)
<1>0. IInv' /\ Mergeable(a, a)
  BY BlockMergeIInv DEF BlockMerge
<1>1. /\ kind[a] = "block" /\ parent[a] \in Ids /\ kind[parent[a]] = "function"
      /\ Len(children[a]) = 1
  <2>1. /\ kind[a] = "block" /\ parent[a] \in Ids /\ kind[parent[a]] = "function"
        /\ Len(children[a]) \in Nat /\ Len(children[a]) > 0
    BY <1>0, MergeableFacts
  <2>2. QED
    BY <2>1, OneElement
<1>2. PICK f \in Ids : f = parent[a]
  BY <1>1
<1>3. PICK k : k = IndexOf(f, a)
  OBVIOUS
<1>4. PICK jump : jump = Last(children[a])
  OBVIOUS
<1>5. kind[jump] = "instr" /\ \A n \in ToSet(children[a]) : kind[n] = "instr"
  BY <1>1, <1>4 DEF IInv, TypeOK, Ownership, Lists, ToSet, Last
<1>6. /\ kind' = [kind EXCEPT ![jump] = "dead", ![a] = "dead"]
      /\ parent' = [j \in Ids |-> IF j \in ToSet(children[a]) /\ j # jump THEN a ELSE parent[j]]
      /\ children' = [children EXCEPT ![a] = Front(@) \o <<>>, ![f] = RemoveAt(@, k)]
      /\ UNCHANGED <<opcode, operands, name>>
  BY <1>1, <1>2, <1>3, <1>4 DEF BlockMerge
<1>7. /\ children'[f] = RemoveAt(children[f], k)
      /\ \A q \in Ids : q # f /\ q # a => children'[q] = children[q]
      /\ \A q \in Ids : kind'[q] = IF q = a \/ q = jump THEN "dead" ELSE kind[q]
  BY <1>1, <1>2, <1>6 DEF IInv, TypeOK
<1>8. Unlisted(f, k, a)
  <2>1. children[f][k] = a /\ Removed(f, k)
    BY <1>1, <1>2, <1>3, <1>7, UnlistBlock
  <2>2. QED
    BY <1>1, <1>2, <1>6, <1>7, <2>1 DEF Unlisted
<1>9. ASSUME NEW c \in Ids, kind'[c] = "block"
      PROVE  kind[c] = "block" /\ c # a /\ children'[c] = children[c] /\ Targets(c)' = Targets(c)
  <2>1. kind[c] = "block" /\ c # f /\ c # a
    BY <1>1, <1>2, <1>7, <1>9
  <2>2. children'[c] = children[c] /\ parent'[c] = parent[c]
    BY <1>5, <1>6, <1>7, <2>1
  <2>3. c \notin Predecessors(a)
    BY <1>0, <2>1, MergePredecessor
  <2>4. QED
    BY <1>0, <1>8, <2>1, <2>2, <2>3, UntouchedTargets
<1>10. QED
  BY <1>2, <1>3, <1>8, <1>9

LEMMA SelfMergeEdges ==
  ASSUME IInv, NEW a \in Ids, BlockMerge(a, a), Len(children[a]) <= 1
  PROVE  EdgeStep
BY SelfMergeTargets DEF EdgeStep

\* ccw_ir_block_merge of two blocks: the first leaves the way the second did.
LEMMA MergeTargets ==
  ASSUME IInv, NEW a \in Ids, NEW b \in Ids, a # b, BlockMerge(a, b)
  PROVE  /\ Unlisted(parent[b], IndexOf(parent[b], b), b)
         /\ kind'[a] = "block" /\ children'[a] # children[a]
         /\ children[b] # <<>> => Targets(a)' = Targets(b)
         /\ \A c \in Ids : kind'[c] = "block" => kind[c] = "block" /\ c # b
         /\ \A c \in Ids : kind[c] = "block" => parent'[c] = parent[c]
         /\ \A c \in Ids : kind[c] = "block" /\ kind'[c] = "dead" => c = b
         /\ \A c \in Ids : kind'[c] = "block" /\ c # a =>
              children'[c] = children[c] /\ Targets(c)' = Targets(c)
<1>0. IInv' /\ Mergeable(a, b)
  BY BlockMergeIInv DEF BlockMerge
<1>1. PICK f \in Ids : f = parent[a]
  BY MergeShape
<1>2. PICK k : k = IndexOf(f, b)
  OBVIOUS
<1>3. PICK jump : jump = Last(children[a])
  OBVIOUS
<1>4. PICK m : m = Len(children[a]) - 1
  OBVIOUS
<1>5. /\ kind[a] = "block" /\ kind[b] = "block" /\ parent[b] = f
      /\ kind[f] = "function" /\ a # f /\ b # f
  BY <1>1, MergeShape
<1>6. /\ m \in Nat /\ DOMAIN children[a] = 1..(m + 1) /\ jump = children[a][m + 1]
      /\ jump \in Ids /\ children[f][k] = b
      /\ \A q \in Ids : q # f /\ q # a => children'[q] = children[q]
      /\ Removed(f, k) /\ Spliced(a, b, m)
  BY <1>1, <1>2, <1>3, <1>4, MergeShape
<1>7. kind[jump] = "instr" /\ parent[jump] = a
  BY <1>5, <1>6 DEF IInv, Ownership, Lists
<1>8. \A n \in ToSet(children[b]) : kind[n] = "instr" /\ parent[n] = b
  BY <1>5 DEF IInv, Ownership, Lists, ToSet
<1>9. /\ kind' = [kind EXCEPT ![jump] = "dead", ![b] = "dead"]
      /\ parent' = [j \in Ids |-> IF j \in ToSet(children[b]) /\ j # jump THEN a ELSE parent[j]]
      /\ UNCHANGED <<opcode, operands, name>>
  BY <1>3 DEF BlockMerge
<1>10. \A q \in Ids : kind'[q] = IF q = b \/ q = jump THEN "dead" ELSE kind[q]
  BY <1>6, <1>9 DEF IInv, TypeOK
<1>11. Unlisted(f, k, b)
  <2>1. \A q \in Ids : q # f /\ kind[q] = "function" => children'[q] = children[q]
    BY <1>5, <1>6
  <2>2. QED
    BY <1>5, <1>6, <1>9, <2>1 DEF Unlisted
<1>12. \A c \in Ids : kind[c] = "block" => parent'[c] = parent[c]
  BY <1>8, <1>9
<1>13. Predecessors(b) = {a}
  BY <1>0, MergePredecessor
<1>14. ASSUME NEW c \in Ids, kind'[c] = "block", c # a
       PROVE  children'[c] = children[c] /\ Targets(c)' = Targets(c)
  <2>1. kind[c] = "block" /\ c # f
    BY <1>5, <1>10, <1>14
  <2>2. children'[c] = children[c] /\ parent'[c] = parent[c]
    BY <1>6, <1>12, <1>14, <2>1
  <2>3. QED
    BY <1>0, <1>11, <1>13, <1>14, <2>1, <2>2, UntouchedTargets
<1>15. children'[a] # children[a]
  <2> SUFFICES ASSUME children'[a] = children[a] PROVE FALSE
    OBVIOUS
  <2> PICK n : n = Len(children[b])
    OBVIOUS
  <2>1. 1..(m + n) = 1..(m + 1) /\ n \in Nat
    BY <1>6 DEF Spliced
  <2>2. n = 1
    BY <1>6, <2>1, OneElement
  <2>3. children[a][m + 1] = children[b][1] /\ 1 \in DOMAIN children[b]
    BY <1>6, <2>2 DEF Spliced
  <2>4. QED
    BY <1>6, <1>7, <1>8, <2>3 DEF ToSet
<1>16. children[b] # <<>> => Targets(a)' = Targets(b)
  <2> SUFFICES ASSUME children[b] # <<>> PROVE Targets(a)' = Targets(b)
    OBVIOUS
  <2> PICK n : n = Len(children[b])
    OBVIOUS
  <2>1. n \in Nat \ {0}
    <3>1. children[b] \in Seq(Ids)
      BY DEF IInv, TypeOK
    <3>2. QED
      BY <3>1, EmptySeq, LenProperties
  <2>2. DOMAIN children'[a] = 1..(m + n) /\ children'[a][m + n] = children[b][n]
    BY <1>6, <2>1 DEF Spliced
  <2>3. Len(children'[a]) = m + n
    <3>1. children'[a] \in Seq(Ids)
      BY <1>0 DEF IInv, TypeOK
    <3>2. DOMAIN children'[a] = 1..Len(children'[a]) /\ Len(children'[a]) \in Nat
      BY <3>1, LenProperties
    <3>3. m + n \in Nat
      BY <1>6, <2>1
    <3>4. QED
      BY <2>2, <3>2, <3>3
  <2>4. Last(children'[a]) = Last(children[b])
    BY <2>2, <2>3 DEF Last
  <2>5. children'[a] # <<>>
    <3>1. m + n # 0
      BY <1>6, <2>1
    <3>2. QED
      BY <2>3, <3>1
  <2>6. parent'[a] = parent[b] /\ b \notin Predecessors(b)
    BY <1>1, <1>5, <1>12, <1>13
  <2>7. QED
    BY <1>0, <1>5, <1>11, <2>4, <2>5, <2>6, EndsAlike
<1>17. \A d \in Ids : kind[d] = "block" /\ kind'[d] = "dead" => d = b
  BY <1>7, <1>10
<1>18. /\ kind'[a] = "block" /\ parent[b] = parent[a]
       /\ \A c \in Ids : kind'[c] = "block" => kind[c] = "block" /\ c # b
  BY <1>1, <1>5, <1>7, <1>10
<1>19. QED
  BY <1>1, <1>2, <1>11, <1>12, <1>14, <1>15, <1>16, <1>17, <1>18

LEMMA MergeEdges ==
  ASSUME IInv, NEW a \in Ids, NEW b \in Ids, a # b, BlockMerge(a, b)
  PROVE  EdgeStep
BY MergeTargets DEF EdgeStep

\* No other operation of ccw_ir.c kills a block.
LEMMA NextEdgeStep == IInv /\ [Next]_vars => EdgeStep
<1> SUFFICES ASSUME IInv, [Next]_vars PROVE EdgeStep
  OBVIOUS
<1>1. CASE \A d \in Ids : kind[d] = "block" => kind'[d] # "dead"
  BY <1>1 DEF EdgeStep
<1>2. CASE kind' = kind
  BY <1>2 DEF EdgeStep
<1>3. ASSUME NEW k \in Kinds, k # "dead", NEW nm, NEW op, NEW ops, NEW par,
             NewNode(k, nm, op, ops, par)
      PROVE  EdgeStep
  BY <1>1, <1>3 DEF NewNode, IInv, TypeOK
<1>4. ASSUME NEW b \in Ids, BlockDelete(b) PROVE EdgeStep
  BY <1>4, DeleteEdges
<1>5. ASSUME NEW a \in Ids, NEW b \in Ids, BlockMerge(a, b) PROVE EdgeStep
  <2>1. CASE a # b
    BY <1>5, <2>1, MergeEdges
  <2>2. CASE a = b /\ Len(children[a]) > 1
    BY <1>2, <1>5, <2>2 DEF BlockMerge
  <2>3. CASE a = b /\ Len(children[a]) <= 1
    BY <1>5, <2>3, SelfMergeEdges
  <2>4. Len(children[a]) \in Nat
    BY DEF IInv, TypeOK
  <2>5. QED
    BY <2>1, <2>2, <2>3, <2>4
<1>6. CASE UNCHANGED vars
  BY <1>2, <1>6 DEF vars
<1>7. CASE \/ \E nm \in Names : FunctionAdd(nm)
           \/ \E fn \in Ids, nm \in Names : BlockAdd(fn, nm)
           \/ \E op \in Opcodes : InstrBuild(op)
           \/ \E blk \in Ids \cup {0}, op \in Opcodes \ Terminators,
                nm \in Names \cup {NoName}, argsOk \in BOOLEAN : BuildInto(blk, nm, op, argsOk)
  BY <1>3, <1>7 DEF FunctionAdd, BlockAdd, InstrBuild, BuildInto, Kinds
<1>8. CASE \/ \E ins \in Ids, nm \in Names \cup {NoName} : InstrSetDest(ins, nm)
           \/ \E ins \in Ids, nm \in Names \cup {NoName} : InstrAddOperand(ins, nm)
           \/ \E ins \in Ids, idx \in 1..MaxOperands, nm \in Names \cup {NoName} :
                InstrSetOperand(ins, idx, nm)
           \/ \E blk, ins \in Ids : BlockAppendInstr(blk, ins)
           \/ \E old, new \in Ids : InstrReplace(old, new)
           \/ \E anchor, new \in Ids : InstrInsertBefore(anchor, new)
           \/ \E ins \in Ids : InstrDelete(ins)
  BY <1>2, <1>8 DEF InstrSetDest, InstrAddOperand, InstrSetOperand, BlockAppendInstr,
                    InstrReplace, InstrInsertBefore, InstrDelete
<1>9. QED
  BY <1>4, <1>5, <1>6, <1>7, <1>8 DEF Next

\* Deleting and merging blocks in ccw_ir.c never loses or redirects an edge of the
\* control flow graph between the blocks that remain, though branches name their
\* targets and nothing rewrites the names.
THEOREM EdgesNeverLost == Spec => EdgesSurvive
<1>1. IInv /\ [Next]_vars => [EdgeStep]_vars
  BY NextEdgeStep
<1>2. QED
  BY <1>1, Invariance, PTL DEF Spec, EdgesSurvive, EdgeStep

=============================================================================
