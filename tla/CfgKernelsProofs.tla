-------------------------- MODULE CfgKernelsProofs --------------------------
(***************************************************************************)
(* Theorems about the kernels that edit the control flow graph: what each  *)
(* leaves, and that it leaves a valid module.                              *)
(***************************************************************************)
EXTENDS CfgKernels, WeaveIRProofs

(***************************************************************************)
(* reachable-from: the least set with the entry that no jump leaves.       *)
(***************************************************************************)
Widen(s) == UNION {{c} \cup ToSet(Targets(c)) : c \in s}
NoJumpLeaves(s) == \A c \in s : ToSet(Targets(c)) \subseteq s

LEMMA WidenFacts ==
  /\ \A s : s \subseteq Widen(s)
  /\ \A s : NoJumpLeaves(s) => Widen(s) = s
  /\ \A s : Widen(s) = s => NoJumpLeaves(s)
  /\ \A s, t : s \subseteq t /\ NoJumpLeaves(t) => Widen(s) \subseteq t
BY DEF Widen, NoJumpLeaves

LEMMA TurnsExist ==
  ASSUME NEW n \in Nat, NEW b
  PROVE  \E f : f = [k \in 0..n |-> IF k = 0 THEN {b} ELSE Widen(f[k - 1])]
<1> DEFINE Rec(k, f) == f = [r \in 0..k |-> IF r = 0 THEN {b} ELSE Widen(f[r - 1])]
           Bad == {k \in Nat : ~ \E f : Rec(k, f)}
<1>1. SUFFICES ASSUME Bad # {} PROVE FALSE
  OBVIOUS
<1>2. PICK k \in Bad : \A l \in Bad : k <= l
  <2>1. Bad \subseteq Nat
    OBVIOUS
  <2> HIDE DEF Bad
  <2>2. QED
    BY <1>1, <2>1, LeastNatural
<1>3. k # 0
  <2> DEFINE g == [r \in 0..0 |-> {b}]
  <2>1. Rec(0, g)
    OBVIOUS
  <2>2. QED
    BY <2>1
<1>4. k - 1 \in Nat /\ k - 1 \notin Bad
  <2>1. k \in Nat
    OBVIOUS
  <2> HIDE DEF Bad
  <2>2. QED
    BY <2>1, <1>2, <1>3
<1>5. PICK f : Rec(k - 1, f)
  BY <1>4
<1> DEFINE h == [r \in 0..k |-> IF r = k THEN Widen(f[k - 1]) ELSE f[r]]
<1>6. ASSUME NEW r \in 0..k
      PROVE  h[r] = IF r = 0 THEN {b} ELSE Widen(h[r - 1])
  <2>1. CASE r = k
    BY <2>1, <1>3, <1>4
  <2>2. CASE r # k
    <3>1. r \in 0..(k - 1) /\ (r # 0 => r - 1 \in 0..(k - 1) /\ r - 1 # k)
      BY <2>2, <1>4
    <3>2. f[r] = IF r = 0 THEN {b} ELSE Widen(f[r - 1])
      BY <3>1, <1>5
    <3>3. QED
      BY <2>2, <3>1, <3>2
  <2>3. QED
    BY <2>1, <2>2
<1>7. Rec(k, h)
  BY <1>6
<1>8. QED
  BY <1>2, <1>7

\* A set of blocks that one vector of n ids lists has at most n members.
LEMMA ListedBound ==
  ASSUME NEW s \in Seq(Ids)
  PROVE  /\ IsFiniteSet(ToSet(s))
         /\ Cardinality(ToSet(s)) \in Nat /\ Cardinality(ToSet(s)) <= Len(s)
<1> DEFINE D == 1..Len(s)
<1>1. Len(s) \in Nat /\ DOMAIN s = D /\ s = [j \in D |-> s[j]]
  BY LenProperties
<1>2. IsFiniteSet(D) /\ Cardinality(D) = Len(s)
  <2>1. PICK n : n = Len(s)
    OBVIOUS
  <2>2. n \in Nat /\ 1 \in Int /\ n \in Int /\ D = 1..n
    BY <1>1, <2>1
  <2>3. IsFiniteSet(1..n) /\ Cardinality(1..n) = n
    BY <2>2, FS_Interval
  <2>4. QED
    BY <2>1, <2>2, <2>3
<1>3. ToSet(s) = {s[j] : j \in D}
  BY <1>1 DEF ToSet
<1>4. s \in Surjection(D, ToSet(s))
  BY <1>1, <1>3 DEF Surjection
<1> HIDE DEF D
<1>5. IsFiniteSet(ToSet(s)) /\ Cardinality(ToSet(s)) <= Cardinality(D)
  BY <1>2, <1>4, FS_Surjection
<1>6. QED
  BY <1>2, <1>5, FS_CardinalityType

\* Turn by turn, the set grows until no jump leaves it.
LEMMA TurnsGrow ==
  ASSUME NEW B, IsFiniteSet(B), NoJumpLeaves(B), NEW b \in B, NEW n \in Nat,
         NEW t, t[0] = {b}, \A k \in 1..n : t[k] = Widen(t[k - 1])
  PROVE  \A k \in 0..n :
           /\ b \in t[k] /\ t[k] \subseteq B
           /\ \A C : b \in C /\ NoJumpLeaves(C) => t[k] \subseteq C
           /\ NoJumpLeaves(t[k]) \/ Cardinality(t[k]) >= k + 1
<1> DEFINE Good(k, x) ==
             /\ b \in x /\ x \subseteq B
             /\ \A C : b \in C /\ NoJumpLeaves(C) => x \subseteq C
             /\ NoJumpLeaves(x) \/ Cardinality(x) >= k + 1
           Bad == {k \in Nat : k <= n /\ ~ Good(k, t[k])}
<1>2. Good(0, {b})
  <2>1. Cardinality({b}) = 1
    BY FS_Singleton
  <2>2. QED
    BY <2>1
<1>3. ASSUME NEW x, NEW k \in 1..n, Good(k - 1, x) PROVE Good(k, Widen(x))
  <2>1. /\ b \in Widen(x) /\ Widen(x) \subseteq B
        /\ \A C : b \in C /\ NoJumpLeaves(C) => Widen(x) \subseteq C
    <3>1. x \subseteq Widen(x)
      BY WidenFacts
    <3>2. \A C : b \in C /\ NoJumpLeaves(C) => Widen(x) \subseteq C
      BY <1>3, WidenFacts
    <3>3. Widen(x) \subseteq B
      BY <3>2
    <3>4. QED
      BY <1>3, <3>1, <3>2, <3>3
  <2>2. CASE NoJumpLeaves(x)
    BY <2>1, <2>2, WidenFacts
  <2>3. CASE ~ NoJumpLeaves(x)
    <3>1. x # Widen(x) /\ x \subseteq Widen(x)
      BY <2>3, WidenFacts
    <3>2. IsFiniteSet(Widen(x)) /\ IsFiniteSet(x)
      BY <1>3, <2>1, FS_Subset
    <3>3. /\ Cardinality(x) <= Cardinality(Widen(x))
          /\ Cardinality(Widen(x)) # Cardinality(x)
      BY <3>1, <3>2, FS_Subset
    <3>4. Cardinality(x) \in Nat /\ Cardinality(Widen(x)) \in Nat
      BY <3>2, FS_CardinalityType
    <3>5. Cardinality(x) >= k
      BY <1>3, <2>3
    <3>6. Cardinality(Widen(x)) >= k + 1
      BY <3>3, <3>4, <3>5
    <3>7. QED
      BY <2>1, <3>6
  <2>4. QED
    BY <2>2, <2>3
<1> HIDE DEF Good
<1>4. Bad = {}
  <2> SUFFICES ASSUME Bad # {} PROVE FALSE
    OBVIOUS
  <2>1. PICK k \in Bad : \A l \in Bad : k <= l
    <3>1. Bad \subseteq Nat
      OBVIOUS
    <3> HIDE DEF Bad
    <3>2. QED
      BY <3>1, LeastNatural
  <2>2. k # 0
    BY <1>2
  <2>3. k - 1 \in Nat /\ k \in 1..n /\ k - 1 <= n /\ k - 1 \notin Bad
    <3>1. k \in Nat /\ k <= n
      OBVIOUS
    <3> HIDE DEF Bad
    <3>2. QED
      BY <2>1, <2>2, <3>1
  <2>4. Good(k - 1, t[k - 1])
    BY <2>3
  <2>5. Good(k, t[k])
    BY <1>3, <2>3, <2>4
  <2>6. QED
    BY <2>5
<1>5. \A k \in 0..n : Good(k, t[k])
  BY <1>4
<1>6. QED
  BY <1>5 DEF Good

\* What ReachableFrom computes is that least set, whatever the shape of the graph:
\* as many turns as there are blocks are enough.
ReachIsLeast ==
  \A f \in Ids, b \in Ids :
    /\ children[f] \in Seq(Ids) /\ b \in ToSet(children[f])
    /\ NoJumpLeaves(ToSet(children[f]))
    => /\ b \in ReachableFrom(f, b) /\ ReachableFrom(f, b) \subseteq ToSet(children[f])
       /\ NoJumpLeaves(ReachableFrom(f, b))
       /\ \A C : b \in C /\ NoJumpLeaves(C) => ReachableFrom(f, b) \subseteq C

LEMMA ReachIsLeastNow == ReachIsLeast
<1> SUFFICES ASSUME NEW f \in Ids, NEW b \in Ids,
                    children[f] \in Seq(Ids), b \in ToSet(children[f]),
                    NoJumpLeaves(ToSet(children[f]))
             PROVE  /\ b \in ReachableFrom(f, b)
                    /\ ReachableFrom(f, b) \subseteq ToSet(children[f])
                    /\ NoJumpLeaves(ReachableFrom(f, b))
                    /\ \A C : b \in C /\ NoJumpLeaves(C) => ReachableFrom(f, b) \subseteq C
  BY DEF ReachIsLeast
<1> DEFINE n == Len(children[f])
           B == ToSet(children[f])
           Rec(g) == g = [k \in 0..n |-> IF k = 0 THEN {b} ELSE Widen(g[k - 1])]
           t == CHOOSE g : Rec(g)
<1>1. n \in Nat
  BY LenProperties
<1>2. Rec(t)
  <2>1. \E g : Rec(g)
    <3> HIDE DEF n
    <3> QED
      BY <1>1, TurnsExist, Zenon
  <2> HIDE DEF Rec
  <2>2. QED
    BY <2>1, Zenon
<1>3. ReachableFrom(f, b) = t[n]
  BY Zenon DEF ReachableFrom, Widen
<1>4. IsFiniteSet(B) /\ Cardinality(B) \in Nat /\ Cardinality(B) <= n
  BY ListedBound
<1> HIDE DEF n, B, t
<1>5. /\ b \in t[n] /\ t[n] \subseteq B
      /\ \A C : b \in C /\ NoJumpLeaves(C) => t[n] \subseteq C
      /\ NoJumpLeaves(t[n]) \/ Cardinality(t[n]) >= n + 1
  <2>1. b \in B /\ NoJumpLeaves(B) /\ n \in 0..n
    BY <1>1 DEF B
  <2>2. t = [k \in 0..n |-> IF k = 0 THEN {b} ELSE Widen(t[k - 1])]
    BY <1>2
  <2> HIDE DEF Rec
  <2>3. t[0] = {b} /\ \A k \in 1..n : t[k] = Widen(t[k - 1])
    <3>1. 0 \in 0..n /\ \A k \in 1..n : k \in 0..n /\ k # 0
      BY <1>1
    <3>2. \A k \in 0..n : t[k] = IF k = 0 THEN {b} ELSE Widen(t[k - 1])
      BY <2>2, Zenon
    <3>3. QED
      BY <3>1, <3>2, Zenon
  <2>4. QED
    BY <1>1, <1>4, <2>1, <2>3, TurnsGrow
<1>6. NoJumpLeaves(t[n])
  <2>1. Cardinality(t[n]) \in Nat /\ Cardinality(t[n]) <= Cardinality(B)
    BY <1>4, <1>5, FS_Subset, FS_CardinalityType
  <2>2. QED
    BY <1>1, <1>4, <1>5, <2>1
<1>7. QED
  BY <1>3, <1>5, <1>6 DEF B

LEMMA ReachIsLeastNext == ReachIsLeast'
BY ReachIsLeastNow, PTL

(***************************************************************************)
(* Jumps.                                                                  *)
(***************************************************************************)
\* The last instruction of a block is a node.
LEMMA LastInstr ==
  ASSUME IInv, NEW c \in Ids, kind[c] = "block", children[c] # <<>>
  PROVE  /\ Len(children[c]) \in Nat \ {0} /\ DOMAIN children[c] = 1..Len(children[c])
         /\ Last(children[c]) = children[c][Len(children[c])]
         /\ Last(children[c]) \in Ids /\ kind[Last(children[c])] = "instr"
<1>1. children[c] \in Seq(Ids)
  BY DEF IInv, TypeOK
<1>2. Len(children[c]) \in Nat \ {0} /\ DOMAIN children[c] = 1..Len(children[c])
  BY <1>1, EmptySeq, LenProperties
<1>3. Len(children[c]) \in DOMAIN children[c]
  BY <1>2
<1>4. Last(children[c]) = children[c][Len(children[c])]
  BY DEF Last
<1>5. QED
  BY <1>1, <1>2, <1>3, <1>4 DEF IInv, Ownership, Lists

\* A jump stays inside its function.
LEMMA TargetsWithin ==
  ASSUME IInv, NEW c \in Ids, kind[c] = "block"
  PROVE  /\ parent[c] \in Ids /\ kind[parent[c]] = "function"
         /\ children[parent[c]] \in Seq(Ids) /\ c \in ToSet(children[parent[c]])
         /\ Targets(c) \in Seq(Nat)
         /\ ToSet(Targets(c)) \subseteq ToSet(children[parent[c]])
<1>1. /\ parent[c] \in Ids /\ kind[parent[c]] = "function"
      /\ children[parent[c]] \in Seq(Ids) /\ c \in ToSet(children[parent[c]])
  BY DEF IInv, TypeOK, Ownership, BlocksOwned, ListedBy, ToSet
<1>2. CASE children[c] # <<>> /\ opcode[Last(children[c])] \in Terminators
  <2>1. PICK ins \in Ids : ins = Last(children[c])
    BY <1>2, LastInstr
  <2>2. PICK g \in Ids : g = parent[c]
    BY <1>1
  <2>3. /\ Targets(c) \in Seq(Nat)
        /\ \A x : x \in ToSet(Targets(c)) <=>
             x # 0 /\ \E j \in DOMAIN operands[ins] : x = BlockTarget(g, operands[ins][j])
    <3>1. parent[c] = g /\ children[c] # <<>> /\ opcode[ins] \in Terminators
      BY <1>2, <2>1, <2>2
    <3>2. TargetsFrom(c, g, ins)
      BY <2>1, <3>1, TargetSet
    <3>3. QED
      BY <3>2, Zenon DEF TargetsFrom
  <2>4. \A nm : BlockTarget(g, nm) \in ToSet(children[g]) \cup {0}
    BY <1>1, <2>2, TargetListed
  <2>5. QED
    BY <1>1, <2>2, <2>3, <2>4
<1>3. CASE ~ (children[c] # <<>> /\ opcode[Last(children[c])] \in Terminators)
  <2>1. Targets(c) = <<>>
    BY <1>3 DEF Targets
  <2>2. QED
    BY <1>1, <2>1 DEF ToSet
<1>4. QED
  BY <1>2, <1>3

\* Who leads to a block, in a sound table.
LEMMA PredecessorsAre ==
  ASSUME IInv, NEW d \in Ids, kind[d] = "block"
  PROVE  \A c : c \in Predecessors(d) <=>
           c \in Ids /\ kind[c] = "block" /\ d \in ToSet(Targets(c))
<1>1. /\ parent[d] \in Ids /\ kind[parent[d]] = "function" /\ children[parent[d]] \in Seq(Ids)
      /\ d \in ToSet(children[parent[d]])
  BY TargetsWithin
<1>2. ASSUME NEW c \in ToSet(children[parent[d]])
      PROVE  c \in Ids /\ kind[c] = "block" /\ parent[c] = parent[d]
  BY <1>1 DEF IInv, Ownership, Lists, ToSet
<1>3. ASSUME NEW c \in Ids, kind[c] = "block", d \in ToSet(Targets(c))
      PROVE  c \in ToSet(children[parent[d]])
  <2>1. /\ parent[c] \in Ids /\ kind[parent[c]] = "function" /\ children[parent[c]] \in Seq(Ids)
        /\ c \in ToSet(children[parent[c]]) /\ d \in ToSet(children[parent[c]])
    BY <1>3, TargetsWithin
  <2>2. parent[d] = parent[c]
    BY <2>1 DEF IInv, Ownership, Lists, ToSet
  <2>3. QED
    BY <2>1, <2>2
<1>4. QED
  BY <1>2, <1>3 DEF Predecessors

PredecessorsKnown ==
  IInv => \A d \in Ids : kind[d] = "block" =>
            \A c : c \in Predecessors(d) <=>
              c \in Ids /\ kind[c] = "block" /\ d \in ToSet(Targets(c))
LEMMA PredecessorsNow == PredecessorsKnown
BY PredecessorsAre DEF PredecessorsKnown
LEMMA PredecessorsNext == PredecessorsKnown'
BY PredecessorsNow, PTL

\* The blocks of a function: no jump leaves them.
LEMMA FunctionClosed ==
  ASSUME IInv, NEW f \in Ids, kind[f] = "function"
  PROVE  children[f] \in Seq(Ids) /\ NoJumpLeaves(ToSet(children[f]))
<1>1. children[f] \in Seq(Ids)
  BY DEF IInv, TypeOK
<1>2. ASSUME NEW c \in ToSet(children[f]) PROVE ToSet(Targets(c)) \subseteq ToSet(children[f])
  <2>1. c \in Ids /\ kind[c] = "block" /\ parent[c] = f
    BY <1>1 DEF IInv, Ownership, Lists, ToSet
  <2>2. QED
    BY <2>1, TargetsWithin
<1>3. QED
  BY <1>1, <1>2 DEF NoJumpLeaves

ClosedKnown ==
  IInv => \A f \in Ids : kind[f] = "function" =>
            children[f] \in Seq(Ids) /\ NoJumpLeaves(ToSet(children[f]))
LEMMA ClosedNow == ClosedKnown
BY FunctionClosed DEF ClosedKnown
LEMMA ClosedNext == ClosedKnown'
BY ClosedNow, PTL

\* block-merge! accepts a, b exactly when b is the only successor of a, and a the
\* only predecessor of b.
LEMMA MergeableIs ==
  ASSUME IInv, NEW a \in Ids, NEW b \in Ids, Mergeable(a, b)
  PROVE  Targets(a) \in Seq(Nat) /\ Len(Targets(a)) = 1 /\ ToSet(Targets(a)) = {b}
<1>1. kind[a] = "block"
  BY MergeableFacts
<1>2. Predecessors(b) = {a}
  BY MergePredecessor
<1>3. b \in ToSet(Targets(a))
  BY <1>2 DEF Predecessors
<1>4. Targets(a) \in Seq(Nat)
  BY <1>1, TargetsWithin
<1>5. Len(Targets(a)) = 1
  BY DEF Mergeable, SuccessorCount
<1>6. DOMAIN Targets(a) = {1}
  BY <1>4, <1>5
<1>7. QED
  BY <1>3, <1>4, <1>5, <1>6 DEF ToSet

\* The guard of ccw_ir_block_merge in terms of the graph.
MergeableKnown ==
  IInv => \A a, b \in Ids :
    Mergeable(a, b) <=> /\ kind[a] = "block" /\ kind[b] = "block"
                        /\ Len(Targets(a)) = 1 /\ ToSet(Targets(a)) = {b}
                        /\ Predecessors(b) = {a}
LEMMA MergeableNow == MergeableKnown
<1> SUFFICES ASSUME IInv, NEW a \in Ids, NEW b \in Ids
             PROVE  Mergeable(a, b) <=> /\ kind[a] = "block" /\ kind[b] = "block"
                                        /\ Len(Targets(a)) = 1 /\ ToSet(Targets(a)) = {b}
                                        /\ Predecessors(b) = {a}
  BY DEF MergeableKnown
<1>1. ASSUME Mergeable(a, b)
      PROVE  /\ kind[a] = "block" /\ kind[b] = "block"
             /\ Len(Targets(a)) = 1 /\ ToSet(Targets(a)) = {b} /\ Predecessors(b) = {a}
  BY <1>1, MergeableFacts, MergeableIs, MergePredecessor
<1>2. ASSUME kind[a] = "block", kind[b] = "block",
             Len(Targets(a)) = 1, ToSet(Targets(a)) = {b}, Predecessors(b) = {a}
      PROVE  Mergeable(a, b)
  <2>1. PICK t : t = Targets(a)
    OBVIOUS
  <2>2. t \in Seq(Nat) /\ parent[a] = parent[b]
    <3>1. /\ Targets(a) \in Seq(Nat) /\ parent[a] \in Ids /\ kind[parent[a]] = "function"
          /\ b \in ToSet(children[parent[a]])
      BY <1>2, TargetsWithin
    <3>2. QED
      BY <2>1, <3>1 DEF IInv, Ownership, Lists, ToSet
  <2>3. DOMAIN t = {1} /\ t[1] = b
    <3>1. DOMAIN t = {1}
      BY <1>2, <2>1, <2>2
    <3>2. QED
      BY <1>2, <2>1, <3>1 DEF ToSet
  <2>4. FirstPositions(t) = {1}
    BY <2>3 DEF FirstPositions
  <2>5. {p \in FirstPositions(t) : p < 1} = {} /\ Cardinality({}) = 0
    BY <2>4, FS_EmptySet
  <2>6. {j \in FirstPositions(t) : Cardinality({p \in FirstPositions(t) : p < j}) = 0} = {1}
    BY <2>4, <2>5
  <2>7. SuccessorRef(a, 0) = b
    BY <1>2, <2>1, <2>3, <2>6 DEF SuccessorRef, SuccessorCount
  <2>8. Cardinality(Predecessors(b)) = 1
    BY <1>2, FS_Singleton
  <2>9. QED
    BY <1>2, <2>2, <2>7, <2>8 DEF Mergeable, Live, SuccessorCount
<1>3. QED
  BY <1>1, <1>2
LEMMA MergeableNext == MergeableKnown'
BY MergeableNow, PTL

(***************************************************************************)
(* The shape that programs have and the kernels keep.                      *)
(***************************************************************************)
\* One function, whose blocks have names.
OneFunction ==
  /\ functions = <<1>> /\ 1 \in Ids /\ kind[1] = "function"
  /\ \A n \in Ids : kind[n] = "function" => n = 1
  /\ \A n \in Ids : kind[n] = "block" => name[n] \in Names

\* JumpsLast, of the module as it is now.
PlainUntilLast(s) ==
  \A k \in DOMAIN s : k < Len(s) => \A j \in DOMAIN operands[s[k]] : operands[s[k]][j] = NoName
JumpsAtEnd == \A c \in Ids : kind[c] = "block" => PlainUntilLast(children[c])

\* An instruction without block operands leads nowhere.
LEMMA NoWayOut ==
  ASSUME IInv, OneFunction, NEW c \in Ids, kind[c] = "block",
         children[c] # <<>> => \A j \in DOMAIN operands[Last(children[c])] :
                                 operands[Last(children[c])][j] = NoName
  PROVE  Targets(c) = <<>>
<1>1. CASE ~ (children[c] # <<>> /\ opcode[Last(children[c])] \in Terminators)
  BY <1>1 DEF Targets
<1>2. CASE children[c] # <<>> /\ opcode[Last(children[c])] \in Terminators
  <2>1. PICK ins \in Ids : ins = Last(children[c])
    BY <1>2, LastInstr
  <2>2. PICK g \in Ids : g = parent[c] /\ kind[g] = "function" /\ children[g] \in Seq(Ids)
    BY TargetsWithin
  <2>3. /\ Targets(c) \in Seq(Nat)
        /\ \A x : x \in ToSet(Targets(c)) <=>
             x # 0 /\ \E j \in DOMAIN operands[ins] : x = BlockTarget(g, operands[ins][j])
    <3>1. parent[c] = g /\ children[c] # <<>> /\ opcode[ins] \in Terminators
      BY <1>2, <2>1, <2>2
    <3>2. TargetsFrom(c, g, ins)
      BY <2>1, <3>1, TargetSet
    <3>3. QED
      BY <3>2, Zenon DEF TargetsFrom
  <2>4. BlockTarget(g, NoName) = 0
    <3>1. Len(children[g]) \in Nat /\ DOMAIN children[g] = 1..Len(children[g])
      BY <2>2, LenProperties
    <3>2. \A l \in 1..Len(children[g]) : name[children[g][l]] # NoName
      BY <2>2, <3>1, IRAssumption DEF IInv, Ownership, Lists, OneFunction
    <3>3. QED
      BY <2>2, <3>1, <3>2, TargetIsFound, FoundFirst
  <2>5. ToSet(Targets(c)) = {}
    BY <1>2, <2>1, <2>3, <2>4
  <2>6. QED
    <3>1. PICK t : t = Targets(c)
      OBVIOUS
    <3>2. t \in Seq(Nat) /\ ToSet(t) = {}
      BY <2>3, <2>5, <3>1
    <3>3. Len(t) = 0
      <4>1. Len(t) \in Nat /\ DOMAIN t = 1..Len(t)
        BY <3>2, LenProperties
      <4>2. 1 \notin DOMAIN t
        BY <3>2 DEF ToSet
      <4>3. QED
        BY <4>1, <4>2
    <3>4. QED
      BY <3>1, <3>2, <3>3, EmptySeq
<1>3. QED
  BY <1>1, <1>2
WayOutKnown ==
  IInv /\ OneFunction => \A c \in Ids :
    /\ kind[c] = "block"
    /\ children[c] # <<>> => \A j \in DOMAIN operands[Last(children[c])] :
                               operands[Last(children[c])][j] = NoName
    => Targets(c) = <<>>
LEMMA WayOutNow == WayOutKnown
BY NoWayOut DEF WayOutKnown
LEMMA WayOutNext == WayOutKnown'
BY WayOutNow, PTL

(***************************************************************************)
(* A merge of two blocks, as a kernel sees it.                             *)
(***************************************************************************)
\* What stays of the function when block d is taken from its place k.
Shrunk(k, d) ==
  /\ children[1][k] = d /\ Removed(1, k)
  /\ \A c \in Ids : kind'[c] = "block" => kind[c] = "block" /\ c # d
  /\ UNCHANGED <<functions, name, opcode, operands>>

LEMMA Counting ==
  /\ \A m, n \in Nat : m + n \in Nat
  /\ \A m \in Nat : m # 0 => m \in 1..m /\ m \in 1..(m + 1) /\ m < m + 1
OBVIOUS

LEMMA MergeShrinks ==
  ASSUME IInv, OneFunction, NEW a \in Ids, NEW b \in Ids, a # b, BlockMerge(a, b)
  PROVE  IInv' /\ OneFunction' /\ \E k : Shrunk(k, b)
<1>1. IInv'
  BY BlockMergeIInv
<1>2. /\ kind[a] = "block" /\ kind[b] = "block" /\ parent[b] \in Ids /\ kind[parent[b]] = "function"
      /\ UNCHANGED <<functions, name, opcode, operands>>
  BY TargetsWithin DEF BlockMerge, Mergeable, Live
<1>3. /\ parent[b] = 1
  BY <1>2 DEF OneFunction
<1>4. /\ Unlisted(1, IndexOf(1, b), b)
      /\ \A c \in Ids : kind'[c] = "block" => kind[c] = "block" /\ c # b
  BY <1>3, MergeTargets
<1>5. Shrunk(IndexOf(1, b), b)
  BY <1>2, <1>4 DEF Shrunk, Unlisted
<1>6. OneFunction'
  <2>1. PICK jump : jump = Last(children[a])
    OBVIOUS
  <2>2. kind[jump] = "instr" /\ jump \in Ids
    <3>1. Len(children[a]) \in Nat /\ Len(children[a]) > 0
      BY MergeableFacts DEF BlockMerge
    <3>2. children[a] # <<>>
      BY <3>1
    <3>3. QED
      BY <1>2, <2>1, <3>2, LastInstr
  <2>3. kind' = [kind EXCEPT ![jump] = "dead", ![b] = "dead"]
    BY <2>1 DEF BlockMerge
  <2>4. \A q \in Ids : kind'[q] = IF q = b \/ q = jump THEN "dead" ELSE kind[q]
    BY <2>2, <2>3 DEF IInv, TypeOK
  <2>5. QED
    BY <1>2, <2>2, <2>4 DEF OneFunction
<1>7. QED
  BY <1>1, <1>5, <1>6

LEMMA MergeGraph ==
  ASSUME IInv, OneFunction, JumpsAtEnd, NEW a \in Ids, NEW b \in Ids, a # b, BlockMerge(a, b)
  PROVE  /\ JumpsAtEnd'
         /\ Targets(a)' = Targets(b)
         /\ \A c \in Ids : kind'[c] = "block" /\ c # a =>
              children'[c] = children[c] /\ Targets(c)' = Targets(c)
<1>1. IInv' /\ OneFunction' /\ (\E k : Shrunk(k, b)) /\ Mergeable(a, b)
  BY MergeShrinks DEF BlockMerge
<1>2. /\ kind'[a] = "block" /\ kind[a] = "block" /\ kind[b] = "block"
      /\ children[b] # <<>> => Targets(a)' = Targets(b)
      /\ \A c \in Ids : kind'[c] = "block" => kind[c] = "block" /\ c # b
      /\ \A c \in Ids : kind'[c] = "block" /\ c # a =>
           children'[c] = children[c] /\ Targets(c)' = Targets(c)
  BY <1>1, MergeTargets DEF Mergeable, Live
<1>3. PICK m : m = Len(children[a]) - 1 /\ m \in Nat /\ Spliced(a, b, m)
  BY MergeShape
<1>4. Len(children[a]) = m + 1 /\ operands' = operands
  <2>1. Len(children[a]) \in Nat
    BY <1>1, MergeableFacts
  <2>2. QED
    BY <1>1, <1>3, <2>1 DEF Shrunk
<1>5. Len(children'[a]) = m + Len(children[b]) /\ Len(children[b]) \in Nat
  <2>1. children'[a] \in Seq(Ids)
    BY <1>1 DEF IInv, TypeOK
  <2>2. DOMAIN children'[a] = 1..Len(children'[a]) /\ Len(children'[a]) \in Nat
    BY <2>1, LenProperties
  <2>3. DOMAIN children'[a] = 1..(m + Len(children[b])) /\ Len(children[b]) \in Nat
    BY <1>3 DEF Spliced
  <2>4. \A x, y \in Nat : 1..x = 1..y => x = y
    <3> SUFFICES ASSUME NEW x \in Nat, NEW y \in Nat, 1..x = 1..y, x # y PROVE FALSE
      OBVIOUS
    <3>1. x \in 1..x \/ x = 0
      OBVIOUS
    <3>2. y \in 1..y \/ y = 0
      OBVIOUS
    <3>3. QED
      BY <3>1, <3>2
  <2>5. m + Len(children[b]) \in Nat
    BY <1>3, <2>3, Counting
  <2>6. QED
    BY <2>2, <2>3, <2>4, <2>5
<1>6. \A k \in DOMAIN children[a] : k < m + 1 =>
        \A j \in DOMAIN operands[children[a][k]] : operands[children[a][k]][j] = NoName
  BY <1>2, <1>4 DEF JumpsAtEnd, PlainUntilLast
<1>7. \A k \in DOMAIN children[b] : k < Len(children[b]) =>
        \A j \in DOMAIN operands[children[b][k]] : operands[children[b][k]][j] = NoName
  BY <1>2 DEF JumpsAtEnd, PlainUntilLast
<1>8. ASSUME NEW k \in DOMAIN children'[a], k < Len(children'[a])
      PROVE  \A j \in DOMAIN operands[children'[a][k]] : operands[children'[a][k]][j] = NoName
  <2>1. PICK n : n = Len(children[b])
    OBVIOUS
  <2>2. /\ n \in Nat /\ m \in Nat /\ k \in 1..(m + n) /\ k < m + n
        /\ DOMAIN children[a] = 1..(m + 1) /\ DOMAIN children[b] = 1..n
        /\ \A j \in 1..m : children'[a][j] = children[a][j]
        /\ \A j \in 1..n : children'[a][m + j] = children[b][j]
    BY <1>3, <1>5, <1>8, <2>1 DEF Spliced
  <2>3. CASE k <= m
    <3>1. k \in DOMAIN children[a] /\ k < m + 1 /\ children'[a][k] = children[a][k]
      BY <2>2, <2>3
    <3>2. QED
      BY <1>6, <3>1
  <2>4. CASE ~ (k <= m)
    <3>1. PICK j : j = k - m
      OBVIOUS
    <3>2. j \in 1..n /\ j < n /\ k = m + j
      BY <2>2, <2>4, <3>1
    <3>3. children'[a][k] = children[b][j] /\ j \in DOMAIN children[b]
      BY <2>2, <3>2
    <3>4. QED
      BY <1>7, <2>1, <3>2, <3>3
  <2>5. QED
    BY <2>3, <2>4
<1>9. PlainUntilLast(children'[a])
  BY <1>8 DEF PlainUntilLast
<1>10. JumpsAtEnd'
  <2>1. ASSUME NEW c \in Ids, kind'[c] = "block" PROVE PlainUntilLast(children'[c])
    <3>1. CASE c = a
      BY <1>9, <3>1
    <3>2. CASE c # a
      BY <1>2, <2>1, <3>2 DEF JumpsAtEnd
    <3>3. QED
      BY <3>1, <3>2
  <2>2. QED
    BY <1>4, <2>1 DEF JumpsAtEnd, PlainUntilLast
<1>11. CASE children[b] = <<>>
  <2>1. Len(children[b]) = 0 /\ Len(children'[a]) = m
    <3>1. Len(children[b]) = 0
      BY <1>11
    <3>2. QED
      BY <1>3, <1>5, <3>1
  <2>2. ASSUME children'[a] # <<>>
        PROVE  \A j \in DOMAIN operands'[Last(children'[a])] :
                 operands'[Last(children'[a])][j] = NoName
    <3>1. children'[a] \in Seq(Ids)
      BY <1>1 DEF IInv, TypeOK
    <3>2. m # 0
      BY <2>1, <2>2, <3>1, EmptySeq
    <3>3. Last(children'[a]) = children'[a][m]
      BY <2>1 DEF Last
    <3>4. m \in 1..m /\ m \in 1..(m + 1) /\ m < m + 1
      BY <1>3, <3>2, Counting
    <3>5. children'[a][m] = children[a][m] /\ m \in DOMAIN children[a]
      BY <1>3, <3>4 DEF Spliced
    <3>6. QED
      BY <1>4, <1>6, <3>3, <3>4, <3>5
  <2>3. Targets(a)' = <<>>
    BY <1>1, <1>2, <2>2, WayOutNext DEF WayOutKnown
  <2>4. Targets(b) = <<>>
    BY <1>11 DEF Targets
  <2>5. QED
    BY <1>2, <1>10, <2>3, <2>4
<1>12. QED
  BY <1>2, <1>10, <1>11

\* Who leads where after a merge: the first block takes the place of the second.
LEMMA MergePredecessors ==
  ASSUME IInv, OneFunction, JumpsAtEnd, NEW a \in Ids, NEW b \in Ids, a # b, BlockMerge(a, b),
         NEW d \in Ids, kind'[d] = "block"
  PROVE  /\ kind[d] = "block" /\ d # b /\ a \notin Predecessors(d)
         /\ \A c : c \in Predecessors(d)' <=>
              \/ c # b /\ c \in Predecessors(d)
              \/ c = a /\ b \in Predecessors(d)
<1>1. /\ IInv' /\ Mergeable(a, b) /\ kind'[a] = "block" /\ kind[b] = "block"
      /\ \A c \in Ids : kind'[c] = "block" => kind[c] = "block" /\ c # b
      /\ \A c \in Ids : kind[c] = "block" /\ kind'[c] = "dead" => c = b
  <2>1. IInv' /\ Mergeable(a, b)
    BY BlockMergeIInv DEF BlockMerge
  <2>2. kind[b] = "block"
    BY <2>1 DEF Mergeable, Live
  <2>3. QED
    BY <2>1, <2>2, MergeTargets
<1>2. \A c \in Ids : kind[c] = "block" /\ c # b => kind'[c] = "block"
  <2>1. \A c \in Ids : kind'[c] \in {kind[c], "dead"}
    BY DEF BlockMerge, IInv, TypeOK
  <2>2. QED
    BY <1>1, <2>1
<1>3. ToSet(Targets(a)) = {b} /\ d # b /\ kind[d] = "block"
  BY <1>1, MergeableIs
<1>4. \A c : c \in Predecessors(d) <=> c \in Ids /\ kind[c] = "block" /\ d \in ToSet(Targets(c))
  BY <1>3, PredecessorsAre
<1>5. \A c : c \in Predecessors(d)' <=>
        c \in Ids /\ kind'[c] = "block" /\ d \in ToSet(Targets(c)')
  BY <1>1, PredecessorsNext DEF PredecessorsKnown
<1>6. /\ Targets(a)' = Targets(b)
      /\ \A c \in Ids : kind'[c] = "block" /\ c # a => Targets(c)' = Targets(c)
  BY MergeGraph
<1>7. a \notin Predecessors(d)
  BY <1>3, <1>4
<1>8. ASSUME NEW c
      PROVE  c \in Predecessors(d)' <=>
               \/ c # b /\ c \in Predecessors(d)
               \/ c = a /\ b \in Predecessors(d)
  <2>1. CASE c = a
    BY <1>1, <1>3, <1>4, <1>5, <1>6, <2>1
  <2>2. CASE c # a
    BY <1>1, <1>2, <1>4, <1>5, <1>6, <2>2
  <2>3. QED
    BY <2>1, <2>2
<1>9. QED
  BY <1>3, <1>7, <1>8

\* Nothing that block-merge! would still accept starts at x.
Settled(x) == \A d \in Ids : d # x => ~ Mergeable(x, d)

\* A merge leads to no new one, except that the first block leaves as the second did.
LEMMA MergeSettled ==
  ASSUME IInv, OneFunction, JumpsAtEnd, NEW a \in Ids, NEW b \in Ids, a # b, BlockMerge(a, b),
         NEW x \in Ids, kind'[x] = "block",
         IF x = a THEN Settled(b) ELSE Settled(x)
  PROVE  Settled(x)'
<1>1. SUFFICES ASSUME NEW d \in Ids, d # x, Mergeable(x, d)' PROVE FALSE
  BY DEF Settled
<1>2. IInv' /\ Mergeable(a, b)
  BY BlockMergeIInv DEF BlockMerge
<1>3. /\ kind'[d] = "block" /\ Len(Targets(x)') = 1 /\ ToSet(Targets(x)') = {d}
      /\ Predecessors(d)' = {x}
  BY <1>1, <1>2, MergeableNext DEF MergeableKnown
<1>4. /\ kind[d] = "block" /\ d # b /\ a \notin Predecessors(d)
      /\ \A c : c \in Predecessors(d)' <=>
           \/ c # b /\ c \in Predecessors(d)
           \/ c = a /\ b \in Predecessors(d)
  BY <1>3, MergePredecessors
<1>5. CASE x = a
  <2>1. Targets(x)' = Targets(b)
    BY <1>5, MergeGraph
  <2>2. Predecessors(d) = {b}
    BY <1>3, <1>4, <1>5
  <2>3. Mergeable(b, d)
    BY <1>2, <1>3, <1>4, <2>1, <2>2, MergeableNow DEF MergeableKnown, Mergeable, Live
  <2>4. QED
    BY <1>4, <1>5, <2>3 DEF Settled
<1>6. CASE x # a
  <2>1. Targets(x)' = Targets(x)
    BY <1>6, MergeGraph
  <2>2. Predecessors(d) = {x}
    <3>1. b \notin Predecessors(d)
      BY <1>3, <1>4, <1>6
    <3>2. QED
      BY <1>3, <1>4, <3>1
  <2>3. kind[x] = "block"
    BY MergeTargets
  <2>4. Mergeable(x, d)
    BY <1>3, <1>4, <2>1, <2>2, <2>3, MergeableNow DEF MergeableKnown
  <2>5. QED
    BY <1>1, <1>6, <2>4 DEF Settled
<1>7. QED
  BY <1>5, <1>6

(***************************************************************************)
(* What the validator asks for.                                            *)
(***************************************************************************)
FormedBlock(c) ==
  /\ children[c] # <<>> /\ opcode[Last(children[c])] \in Terminators
  /\ \A ins \in ToSet(children[c]) :
       \A nm \in ToSet(operands[ins]) \ {NoName} : BlockTarget(1, nm) # 0
Formed == DistinctNames(children[1]) /\ \A c \in Ids : kind[c] = "block" => FormedBlock(c)
Entered == \A j \in DOMAIN children[1] : j > 1 =>
             Predecessors(children[1][j]) # {} \/ name[children[1][j]] \in MergeNames

LEMMA ValidIs ==
  ASSUME IInv, OneFunction
  PROVE  Valid <=> children[1] # <<>> /\ Formed /\ Entered
<1>1. ToSet(functions) = {1} /\ DistinctNames(functions)
  BY DEF OneFunction, ToSet, DistinctNames
<1>2. Valid <=> ValidFunction(1)
  BY <1>1 DEF Valid
<1>3. \A c \in Ids : kind[c] = "block" => \E j \in DOMAIN children[1] : children[1][j] = c
  BY DEF IInv, Ownership, BlocksOwned, ListedBy, OneFunction
<1>4. \A j \in DOMAIN children[1] : children[1][j] \in Ids /\ kind[children[1][j]] = "block"
  BY DEF IInv, TypeOK, Ownership, Lists, OneFunction
<1>5. \A c \in Ids : kind[c] = "block" => \A ins \in ToSet(children[c]) :
        Live(ins, "instr") /\ ins \in attached /\ parent[ins] = c
  BY DEF IInv, TypeOK, Ownership, Lists, ListedAttached, Live, ToSet
<1>6. ASSUME NEW j \in DOMAIN children[1]
      PROVE  ValidBlock(1, j) <=>
               /\ FormedBlock(children[1][j])
               /\ j > 1 => Predecessors(children[1][j]) # {} \/ name[children[1][j]] \in MergeNames
  BY <1>4, <1>5 DEF ValidBlock, FormedBlock, ValidInstr
<1>7. (\A j \in DOMAIN children[1] : ValidBlock(1, j)) <=>
        (\A c \in Ids : kind[c] = "block" => FormedBlock(c)) /\ Entered
  BY <1>3, <1>4, <1>6 DEF Entered
<1>8. QED
  BY <1>2, <1>7 DEF ValidFunction, Formed

\* When block d goes, what stays is formed if no jump to d stays.
LEMMA FormedAfter ==
  ASSUME IInv, IInv', OneFunction, JumpsAtEnd, Formed,
         NEW k, NEW d \in Ids, Shrunk(k, d), kind[d] = "block",
         \A c \in Ids : kind'[c] = "block" =>
           children'[c] # <<>> /\ opcode[Last(children'[c])] \in Terminators,
         \A c \in Ids : kind'[c] = "block" => \A ins \in ToSet(children'[c]) :
           \E y \in Ids : /\ kind[y] = "block" /\ ins \in ToSet(children[y])
                          /\ y \in Predecessors(d) => ins # Last(children[y])
  PROVE  Formed'
<1>1. 1 \in Ids /\ kind[1] = "function" /\ name' = name /\ operands' = operands /\ opcode' = opcode
  BY DEF OneFunction, Shrunk
<1>2. DistinctNames(children[1])'
  <2>1. DistinctNames(children[1]) /\ Removed(1, k)
    BY DEF Formed, Shrunk
  <2>2. \A j \in DOMAIN children'[1] : \E l \in DOMAIN children[1] :
          children'[1][j] = children[1][l] /\ l = IF j < k THEN j ELSE j + 1
    BY <2>1 DEF Removed
  <2>3. ASSUME NEW i1 \in DOMAIN children'[1], NEW i2 \in DOMAIN children'[1],
               name'[children'[1][i1]] = name'[children'[1][i2]]
        PROVE  i1 = i2
    <3>1. PICK l1 \in DOMAIN children[1] :
            children'[1][i1] = children[1][l1] /\ l1 = IF i1 < k THEN i1 ELSE i1 + 1
      BY <2>2
    <3>2. PICK l2 \in DOMAIN children[1] :
            children'[1][i2] = children[1][l2] /\ l2 = IF i2 < k THEN i2 ELSE i2 + 1
      BY <2>2
    <3>3. l1 = l2
      BY <1>1, <2>1, <2>3, <3>1, <3>2 DEF DistinctNames
    <3>4. i1 \in Nat /\ i2 \in Nat /\ k \in Nat
      BY <2>1 DEF Removed
    <3>5. QED
      BY <3>1, <3>2, <3>3, <3>4
  <2>4. QED
    BY <2>3 DEF DistinctNames
<1>3. ASSUME NEW c \in Ids, kind'[c] = "block", NEW ins \in ToSet(children'[c]),
             NEW nm \in ToSet(operands[ins]) \ {NoName}
      PROVE  BlockTarget(1, nm)' # 0
  <2>1. PICK y \in Ids : /\ kind[y] = "block" /\ ins \in ToSet(children[y])
                         /\ y \in Predecessors(d) => ins # Last(children[y])
    BY <1>3
  <2>2. BlockTarget(1, nm) # 0 /\ children[y] # <<>> /\ opcode[Last(children[y])] \in Terminators
    BY <1>3, <2>1 DEF Formed, FormedBlock
  <2>3. BlockTarget(1, nm) # d
    <3> SUFFICES ASSUME BlockTarget(1, nm) = d PROVE FALSE
      OBVIOUS
    <3>1. ins = Last(children[y])
      <4>1. /\ Len(children[y]) \in Nat \ {0} /\ DOMAIN children[y] = 1..Len(children[y])
            /\ Last(children[y]) = children[y][Len(children[y])]
        BY <2>1, <2>2, LastInstr
      <4>2. PICK l \in DOMAIN children[y] : ins = children[y][l]
        BY <2>1 DEF ToSet
      <4>3. PICK j \in DOMAIN operands[ins] : operands[ins][j] = nm /\ nm # NoName
        BY <1>3 DEF ToSet
      <4>4. ~ (l < Len(children[y]))
        BY <2>1, <4>2, <4>3 DEF JumpsAtEnd, PlainUntilLast
      <4>5. l = Len(children[y])
        BY <4>1, <4>2, <4>4
      <4>6. QED
        BY <4>1, <4>2, <4>5
    <3>2. PICK j \in DOMAIN operands[ins] : operands[ins][j] = nm
      BY <1>3 DEF ToSet
    <3>3. ins \in Ids /\ parent[y] = 1
      BY <2>1, <2>2, <3>1, LastInstr, TargetsWithin DEF OneFunction
    <3>4. d \in ToSet(Targets(y))
      BY <1>1, <2>1, <2>2, <3>1, <3>2, <3>3, ResolvedIsTarget
    <3>5. y \in Predecessors(d)
      BY <2>1, <3>4, PredecessorsAre
    <3>6. QED
      BY <2>1, <3>1, <3>5
  <2>4. BlockTarget(1, nm)' = BlockTarget(1, nm)
    <3>1. Removed(1, k) /\ children[1][k] = d
      BY DEF Shrunk
    <3>2. QED
      BY <1>1, <2>3, <3>1, UnlistedTarget
  <2>5. QED
    BY <2>2, <2>4
<1>4. ASSUME NEW c \in Ids, kind'[c] = "block" PROVE FormedBlock(c)'
  <2>1. children'[c] # <<>> /\ opcode'[Last(children'[c])] \in Terminators
    BY <1>1, <1>4
  <2>2. \A ins \in ToSet(children'[c]) :
          \A nm \in ToSet(operands'[ins]) \ {NoName} : BlockTarget(1, nm)' # 0
    BY <1>1, <1>3, <1>4
  <2>3. QED
    BY <2>1, <2>2 DEF FormedBlock
<1>5. QED
  BY <1>2, <1>4 DEF Formed

\* A block keeps its way in when its function shrinks, unless it was the first one.
LEMMA EnteredAfter ==
  ASSUME NEW k, NEW d, Shrunk(k, d), Entered,
         \A j \in DOMAIN children'[1] :
           Predecessors(children'[1][j]) # {} => (Predecessors(children[1][j]) # {})'
  PROVE  Entered'
<1>1. Removed(1, k) /\ name' = name
  BY DEF Shrunk
<1>2. ASSUME NEW j \in DOMAIN children'[1], j > 1
      PROVE  (Predecessors(children[1][j]) # {})' \/ name'[children'[1][j]] \in MergeNames
  <2>1. PICK l \in DOMAIN children[1] : l > 1 /\ children'[1][j] = children[1][l]
    <3>1. PICK l : l = IF j < k THEN j ELSE j + 1
      OBVIOUS
    <3>2. l \in DOMAIN children[1] /\ l > 1 /\ children'[1][j] = children[1][l]
      BY <1>1, <1>2, <3>1 DEF Removed
    <3>3. QED
      BY <3>2
  <2>2. Predecessors(children'[1][j]) # {} \/ name[children'[1][j]] \in MergeNames
    BY <2>1 DEF Entered
  <2>3. QED
    BY <1>1, <2>2
<1>3. QED
  BY <1>2 DEF Entered

\* A way in is a block that jumps there and stays.
LEMMA WaysIn ==
  ASSUME IInv', OneFunction', NEW x, x \in ToSet(children'[1]),
         NEW c \in Ids, kind'[c] = "block", x \in ToSet(Targets(c)')
  PROVE  Predecessors(x)' # {}
<1>1. x \in Ids /\ kind'[x] = "block"
  BY DEF IInv, TypeOK, Ownership, Lists, OneFunction, ToSet
<1>2. c \in Predecessors(x)'
  BY <1>1, PredecessorsNext DEF PredecessorsKnown
<1>3. QED
  BY <1>2

LEMMA MergeValid ==
  ASSUME IInv, OneFunction, JumpsAtEnd, Formed,
         NEW a \in Ids, NEW b \in Ids, a # b, BlockMerge(a, b)
  PROVE  children'[1] # <<>> /\ Formed' /\ (Entered => Entered')
<1>1. IInv' /\ OneFunction' /\ Mergeable(a, b)
  BY MergeShrinks DEF BlockMerge
<1>2. PICK k : Shrunk(k, b)
  BY MergeShrinks
<1>3. /\ kind'[a] = "block" /\ kind[a] = "block" /\ kind[b] = "block" /\ Predecessors(b) = {a}
      /\ \A c \in Ids : kind'[c] = "block" => kind[c] = "block" /\ c # b
  BY <1>1, MergeTargets, MergePredecessor DEF Mergeable, Live
<1>4. /\ Targets(a)' = Targets(b)
      /\ \A c \in Ids : kind'[c] = "block" /\ c # a =>
           children'[c] = children[c] /\ Targets(c)' = Targets(c)
  BY MergeGraph
<1>5. PICK m : m = Len(children[a]) - 1 /\ m \in Nat /\ Spliced(a, b, m)
  BY MergeShape
<1>6. children[b] # <<>> /\ opcode[Last(children[b])] \in Terminators
  BY <1>3 DEF Formed, FormedBlock
<1>7. /\ children'[a] # <<>> /\ Last(children'[a]) = Last(children[b])
  <2>1. PICK n : n = Len(children[b])
    OBVIOUS
  <2>2. n \in Nat \ {0} /\ Last(children[b]) = children[b][n]
    BY <1>3, <1>6, <2>1, LastInstr
  <2>3. DOMAIN children'[a] = 1..(m + n) /\ \A j \in 1..n : children'[a][m + j] = children[b][j]
    BY <1>5, <2>1 DEF Spliced
  <2>4. children'[a] \in Seq(Ids)
    BY <1>1 DEF IInv, TypeOK
  <2>5. m + n \in 1..(m + n) /\ n \in 1..n /\ m + n \in Nat
    BY <1>5, <2>2, Counting
  <2>6. children'[a] # <<>>
    BY <2>3, <2>5
  <2>7. Len(children'[a]) = m + n
    <3>1. Len(children'[a]) \in Nat /\ DOMAIN children'[a] = 1..Len(children'[a])
      BY <2>4, LenProperties
    <3>2. QED
      BY <2>3, <2>5, <3>1
  <2>8. QED
    BY <2>2, <2>3, <2>5, <2>6, <2>7 DEF Last
<1>8. \A c \in Ids : kind'[c] = "block" =>
        children'[c] # <<>> /\ opcode[Last(children'[c])] \in Terminators
  BY <1>3, <1>4, <1>6, <1>7 DEF Formed, FormedBlock
<1>9. ASSUME NEW c \in Ids, kind'[c] = "block", NEW ins \in ToSet(children'[c])
      PROVE  \E y \in Ids : /\ kind[y] = "block" /\ ins \in ToSet(children[y])
                            /\ y \in Predecessors(b) => ins # Last(children[y])
  <2>1. CASE c # a
    BY <1>3, <1>4, <1>9, <2>1
  <2>2. CASE c = a
    <3>1. /\ \A l, j \in DOMAIN children[a] : children[a][l] = children[a][j] => l = j
          /\ \A l, j \in DOMAIN children[b] : children[b][l] = children[b][j] => l = j
          /\ \A l \in DOMAIN children[a], j \in DOMAIN children[b] :
               children[a][l] # children[b][j]
      BY <1>3 DEF IInv, Ownership, Lists
    <3>2. PICK j \in DOMAIN children'[a] : children'[a][j] = ins
      BY <1>9, <2>2 DEF ToSet
    <3>3. \/ \E l \in DOMAIN children[a] : l # m + 1 /\ ins = children[a][l]
          \/ \E l \in DOMAIN children[b] : ins = children[b][l]
      BY <1>5, <3>1, <3>2, SplicedFacts
    <3>4. ASSUME NEW l \in DOMAIN children[a], l # m + 1, ins = children[a][l]
          PROVE  ins # Last(children[a])
      <4>1. Len(children[a]) = m + 1 /\ m + 1 \in DOMAIN children[a]
        <5>1. Len(children[a]) \in Nat /\ DOMAIN children[a] = 1..(m + 1)
          BY <1>1, <1>5, MergeableFacts DEF Spliced
        <5>2. QED
          BY <1>5, <5>1
      <4>2. QED
        BY <3>1, <3>4, <4>1 DEF Last
    <3>5. QED
      BY <1>3, <3>3, <3>4 DEF ToSet
  <2>3. QED
    BY <2>1, <2>2
<1>10. Formed'
  BY <1>1, <1>2, <1>3, <1>8, <1>9, FormedAfter
<1>11. children'[1] # <<>>
  BY <1>1, <1>3 DEF IInv, Ownership, BlocksOwned, ListedBy, OneFunction
<1>12. ASSUME Entered PROVE Entered'
  <2>1. ASSUME NEW j \in DOMAIN children'[1], Predecessors(children'[1][j]) # {}
        PROVE  (Predecessors(children[1][j]) # {})'
    <3>1. PICK x : x = children'[1][j]
      OBVIOUS
    <3>2. x \in Ids /\ kind'[x] = "block"
      BY <1>1, <3>1 DEF IInv, TypeOK, Ownership, Lists, OneFunction
    <3>3. PICK c : c \in Predecessors(x)
      BY <2>1, <3>1
    <3>4. \A e : e \in Predecessors(x)' <=>
            \/ e # b /\ e \in Predecessors(x)
            \/ e = a /\ b \in Predecessors(x)
      BY <3>2, MergePredecessors
    <3>5. Predecessors(x)' # {}
      BY <3>3, <3>4
    <3>6. QED
      BY <3>1, <3>5
  <2>2. QED
    BY <1>2, <1>12, <2>1, EnteredAfter
<1>13. QED
  BY <1>10, <1>11, <1>12

\* Block d goes and nothing else changes: ccw_ir_block_delete, and the merge of a
\* block that is one jump to itself.
Gone(d) ==
  /\ IInv' /\ OneFunction' /\ kind[d] = "block" /\ (\E k : Shrunk(k, d))
  /\ \A c \in Ids : kind'[c] = "block" =>
       kind[c] = "block" /\ c # d /\ children'[c] = children[c] /\ Targets(c)' = Targets(c)
  /\ \A c \in Ids : kind[c] = "block" /\ c # d => kind'[c] = "block"

LEMMA DeleteGone ==
  ASSUME IInv, OneFunction, NEW d \in Ids, BlockDelete(d)
  PROVE  Gone(d) /\ Predecessors(d) = {}
<1>1. IInv' /\ kind[d] = "block" /\ Predecessors(d) = {} /\ parent[d] = 1
      /\ UNCHANGED <<functions, name, opcode, operands>>
  BY BlockDeleteIInv, TargetsWithin DEF BlockDelete, Live, OneFunction
<1>2. /\ Unlisted(1, IndexOf(1, d), d)
      /\ \A c \in Ids : kind'[c] = "block" =>
           kind[c] = "block" /\ c # d /\ children'[c] = children[c] /\ Targets(c)' = Targets(c)
  BY <1>1, DeleteTargets
<1>3. \A n \in ToSet(children[d]) : kind[n] = "instr"
  BY <1>1 DEF IInv, Ownership, Lists, ToSet
<1>4. \A c \in Ids : kind'[c] = IF c = d \/ c \in ToSet(children[d]) THEN "dead" ELSE kind[c]
  BY DEF BlockDelete
<1>5. OneFunction' /\ \A c \in Ids : kind[c] = "block" /\ c # d => kind'[c] = "block"
  BY <1>1, <1>3, <1>4 DEF OneFunction
<1>6. Shrunk(IndexOf(1, d), d)
  BY <1>1, <1>2 DEF Shrunk, Unlisted
<1>7. QED
  BY <1>1, <1>2, <1>5, <1>6 DEF Gone

LEMMA SelfMergeGone ==
  ASSUME IInv, OneFunction, NEW d \in Ids, BlockMerge(d, d), Len(children[d]) <= 1
  PROVE  Gone(d) /\ Predecessors(d) = {d} /\ ToSet(Targets(d)) = {d}
<1>1. /\ IInv' /\ kind[d] = "block" /\ Predecessors(d) = {d} /\ ToSet(Targets(d)) = {d}
      /\ parent[d] = 1 /\ UNCHANGED <<functions, name, opcode, operands>>
  BY BlockMergeIInv, MergePredecessor, MergeableIs, MergeableFacts DEF BlockMerge, OneFunction
<1>2. /\ Unlisted(1, IndexOf(1, d), d)
      /\ \A c \in Ids : kind'[c] = "block" =>
           kind[c] = "block" /\ c # d /\ children'[c] = children[c] /\ Targets(c)' = Targets(c)
  BY <1>1, SelfMergeTargets
<1>3. PICK jump : jump = Last(children[d])
  OBVIOUS
<1>4. jump \in Ids /\ kind[jump] = "instr" /\ Len(children[d]) \in Nat
  <2>1. Len(children[d]) \in Nat /\ Len(children[d]) > 0
    BY MergeableFacts DEF BlockMerge
  <2>2. children[d] # <<>>
    BY <2>1
  <2>3. QED
    BY <1>1, <1>3, <2>1, <2>2, LastInstr
<1>5. kind' = [kind EXCEPT ![jump] = "dead", ![d] = "dead"]
  BY <1>3, <1>4 DEF BlockMerge
<1>6. \A c \in Ids : kind'[c] = IF c = d \/ c = jump THEN "dead" ELSE kind[c]
  BY <1>4, <1>5 DEF IInv, TypeOK
<1>7. OneFunction' /\ \A c \in Ids : kind[c] = "block" /\ c # d => kind'[c] = "block"
  BY <1>1, <1>4, <1>6 DEF OneFunction
<1>8. Shrunk(IndexOf(1, d), d)
  BY <1>1, <1>2 DEF Shrunk, Unlisted
<1>9. QED
  BY <1>1, <1>2, <1>7, <1>8 DEF Gone

LEMMA GoneFormed ==
  ASSUME IInv, OneFunction, JumpsAtEnd, NEW d \in Ids, Gone(d), Predecessors(d) \subseteq {d}
  PROVE  JumpsAtEnd' /\ (Formed => Formed')
<1>1. PICK k : Shrunk(k, d)
  BY DEF Gone
<1>2. operands' = operands
  BY <1>1 DEF Shrunk
<1>3. JumpsAtEnd'
  <2>1. ASSUME NEW c \in Ids, kind'[c] = "block" PROVE PlainUntilLast(children[c])'
    <3>1. kind[c] = "block" /\ children'[c] = children[c]
      BY <2>1 DEF Gone
    <3>2. PlainUntilLast(children[c])
      BY <3>1 DEF JumpsAtEnd
    <3>3. QED
      BY <1>2, <3>1, <3>2 DEF PlainUntilLast
  <2>2. QED
    BY <2>1 DEF JumpsAtEnd
<1>4. ASSUME Formed PROVE Formed'
  <2>1. \A c \in Ids : kind'[c] = "block" =>
          children'[c] # <<>> /\ opcode[Last(children'[c])] \in Terminators
    BY <1>4 DEF Gone, Formed, FormedBlock
  <2>2. \A c \in Ids : kind'[c] = "block" => \A ins \in ToSet(children'[c]) :
          \E y \in Ids : /\ kind[y] = "block" /\ ins \in ToSet(children[y])
                         /\ y \in Predecessors(d) => ins # Last(children[y])
    BY DEF Gone
  <2>3. IInv' /\ kind[d] = "block"
    BY DEF Gone
  <2>4. QED
    BY <1>1, <1>4, <2>1, <2>2, <2>3, FormedAfter
<1>5. QED
  BY <1>3, <1>4

\* Only a jump to itself goes with such a block.
LEMMA SelfMergeEntered ==
  ASSUME IInv, OneFunction, NEW d \in Ids, Gone(d), ToSet(Targets(d)) = {d}, Entered
  PROVE  Entered'
<1>1. PICK k : Shrunk(k, d)
  BY DEF Gone
<1>2. ASSUME NEW j \in DOMAIN children'[1], Predecessors(children'[1][j]) # {}
      PROVE  (Predecessors(children[1][j]) # {})'
  <2>1. PICK x : x = children'[1][j]
    OBVIOUS
  <2>2. x \in Ids /\ kind'[x] = "block" /\ x # d /\ kind[x] = "block" /\ x \in ToSet(children'[1])
    BY <2>1 DEF Gone, IInv, TypeOK, Ownership, Lists, OneFunction, ToSet
  <2>3. PICK c : c \in Predecessors(x)
    BY <1>2, <2>1
  <2>4. c \in Ids /\ kind[c] = "block" /\ x \in ToSet(Targets(c))
    BY <2>2, <2>3, PredecessorsAre
  <2>5. c # d
    BY <2>2, <2>4
  <2>6. kind'[c] = "block" /\ Targets(c)' = Targets(c)
    BY <2>4, <2>5 DEF Gone
  <2>7. Predecessors(x)' # {}
    BY <2>2, <2>4, <2>6, WaysIn DEF Gone
  <2>8. QED
    BY <2>1, <2>7
<1>3. QED
  BY <1>1, <1>2, EnteredAfter

(***************************************************************************)
(* Steps that leave the table alone.                                       *)
(***************************************************************************)
SameTable ==
  UNCHANGED <<node_count, functions, kind, parent, attached, children, opcode, operands, name>>

LEMMA SameGraph ==
  ASSUME IInv, OneFunction, SameTable, call' \in {"returned", "hung"}
  PROVE  /\ IInv' /\ OneFunction'
         /\ \A nm : BlockTarget(1, nm)' = BlockTarget(1, nm)
         /\ \A c \in Ids : kind[c] = "block" =>
              /\ Targets(c)' = Targets(c)
              /\ \A x : x \in Predecessors(c)' <=> x \in Predecessors(c)
<1>1. IInv'
  BY DEF SameTable, IInv, TypeOK, Fresh, Ownership, Lists, BlocksOwned, AttachedOwned,
         ListedAttached, ListedBy
<1>2. OneFunction'
  BY DEF SameTable, OneFunction
<1>3. \A g \in Ids : \A nm : BlockTarget(g, nm)' = BlockTarget(g, nm)
  <2>1. ASSUME NEW g \in Ids
        PROVE  children[g] \in Seq(Ids) /\ children'[g] = children[g] /\ name' = name
    BY DEF SameTable, IInv, TypeOK
  <2>2. QED
    BY <2>1, TargetsFoundNow, TargetsFoundNext DEF TargetsFound
<1>4. ASSUME NEW c \in Ids, kind[c] = "block" PROVE Targets(c)' = Targets(c)
  <2>0. /\ children'[c] = children[c] /\ parent'[c] = parent[c] /\ opcode' = opcode
        /\ operands' = operands
    BY DEF SameTable
  <2>1. CASE children[c] = <<>>
    BY <2>0, <2>1, EmptyTargets
  <2>2. CASE children[c] # <<>>
    <3>1. PICK g \in Ids : g = parent[c]
      BY <1>4, TargetsWithin
    <3>2. PICK ins \in Ids : ins = Last(children[c])
      BY <1>4, <2>2, LastInstr
    <3>3. Last(children'[c]) = ins /\ parent'[c] = g
      BY <2>0, <3>1, <3>2
    <3>4. QED
      BY <1>3, <2>0, <2>2, <3>1, <3>2, <3>3, SameTargets
  <2>3. QED
    BY <2>1, <2>2
<1>5. ASSUME NEW c \in Ids, kind[c] = "block"
      PROVE  \A x : x \in Predecessors(c)' <=> x \in Predecessors(c)
  <2>1. kind' = kind
    BY DEF SameTable
  <2>2. \A x : x \in Predecessors(c) <=> x \in Ids /\ kind[x] = "block" /\ c \in ToSet(Targets(x))
    BY <1>5, PredecessorsAre
  <2>3. \A x : x \in Predecessors(c)' <=>
          x \in Ids /\ kind'[x] = "block" /\ c \in ToSet(Targets(x)')
    BY <1>1, <1>5, <2>1, PredecessorsNext DEF PredecessorsKnown
  <2>4. QED
    BY <1>4, <2>1, <2>2, <2>3
<1>6. 1 \in Ids
  BY DEF OneFunction
<1>7. QED
  BY <1>1, <1>2, <1>3, <1>4, <1>5, <1>6

LEMMA SameShape ==
  ASSUME IInv, OneFunction, SameTable, call' \in {"returned", "hung"}
  PROVE  /\ JumpsAtEnd => JumpsAtEnd'
         /\ Formed => Formed'
         /\ Entered => Entered'
         /\ \A x \in Ids : kind[x] = "block" /\ Settled(x) => Settled(x)'
<1>1. /\ children' = children /\ kind' = kind /\ name' = name /\ opcode' = opcode
      /\ operands' = operands
  BY DEF SameTable
<1>2. /\ IInv' /\ \A nm : BlockTarget(1, nm)' = BlockTarget(1, nm)
      /\ \A c \in Ids : kind[c] = "block" =>
           /\ Targets(c)' = Targets(c)
           /\ \A x : x \in Predecessors(c)' <=> x \in Predecessors(c)
  BY SameGraph
<1>3. JumpsAtEnd => JumpsAtEnd'
  BY <1>1 DEF JumpsAtEnd, PlainUntilLast
<1>4. Formed => Formed'
  BY <1>1, <1>2 DEF Formed, FormedBlock, DistinctNames
<1>5. \A j \in DOMAIN children[1] : children[1][j] \in Ids /\ kind[children[1][j]] = "block"
  BY DEF IInv, TypeOK, Ownership, Lists, OneFunction
<1>6. ASSUME Entered PROVE Entered'
  <2>1. ASSUME NEW j \in DOMAIN children'[1], j > 1
        PROVE  (Predecessors(children[1][j]) # {})' \/ name'[children'[1][j]] \in MergeNames
    <3>1. PICK x : x = children[1][j] /\ x = children'[1][j]
      BY <1>1
    <3>2. x \in Ids /\ kind[x] = "block" /\ (Predecessors(x) # {} \/ name[x] \in MergeNames)
      BY <1>1, <1>5, <1>6, <2>1, <3>1 DEF Entered
    <3>3. Predecessors(x) # {} => Predecessors(x)' # {}
      BY <1>2, <3>2
    <3>4. QED
      BY <1>1, <3>1, <3>2, <3>3
  <2>2. QED
    BY <2>1 DEF Entered
<1>7. ASSUME NEW x \in Ids, kind[x] = "block", Settled(x) PROVE Settled(x)'
  <2>1. SUFFICES ASSUME NEW d \in Ids, d # x, Mergeable(x, d)' PROVE FALSE
    BY DEF Settled
  <2>2. /\ kind'[d] = "block" /\ Len(Targets(x)') = 1 /\ ToSet(Targets(x)') = {d}
        /\ Predecessors(d)' = {x}
    BY <1>2, <2>1, MergeableNext DEF MergeableKnown
  <2>3. kind[d] = "block" /\ Predecessors(d) = {x} /\ Targets(x)' = Targets(x)
    BY <1>1, <1>2, <1>7, <2>2
  <2>4. Mergeable(x, d)
    BY <1>7, <2>2, <2>3, MergeableNow DEF MergeableKnown
  <2>5. QED
    BY <1>7, <2>1, <2>4 DEF Settled
<1>8. QED
  BY <1>3, <1>4, <1>6, <1>7

\* What is reachable stays so when no block goes that is, and no jump changes.
LEMMA SameReach ==
  ASSUME IInv, OneFunction, IInv', OneFunction', NEW e \in Ids,
         e \in ToSet(children[1]), e \in ToSet(children'[1]),
         \A c \in ReachableFrom(1, e) : Targets(c)' = Targets(c),
         \A c \in Ids : kind'[c] = "block" => Targets(c)' = Targets(c)
  PROVE  ReachableFrom(1, e)' = ReachableFrom(1, e)
<1>1. /\ 1 \in Ids /\ children[1] \in Seq(Ids) /\ NoJumpLeaves(ToSet(children[1]))
  BY FunctionClosed DEF OneFunction
<1>2. /\ e \in ReachableFrom(1, e) /\ NoJumpLeaves(ReachableFrom(1, e))
      /\ \A C : e \in C /\ NoJumpLeaves(C) => ReachableFrom(1, e) \subseteq C
  BY <1>1, ReachIsLeastNow DEF ReachIsLeast
<1>3. children'[1] \in Seq(Ids) /\ \A c \in ToSet(children'[1]) : c \in Ids /\ kind'[c] = "block"
  BY <1>1 DEF IInv, TypeOK, Ownership, Lists, OneFunction, ToSet
<1>4. NoJumpLeaves(ToSet(children[1]))'
  BY <1>1, ClosedNext DEF ClosedKnown, OneFunction
<1>5. /\ e \in ReachableFrom(1, e)' /\ ReachableFrom(1, e)' \subseteq ToSet(children'[1])
      /\ NoJumpLeaves(ReachableFrom(1, e))'
      /\ \A C : e \in C /\ NoJumpLeaves(C)' => ReachableFrom(1, e)' \subseteq C
  BY <1>1, <1>3, <1>4, ReachIsLeastNext DEF ReachIsLeast
<1>6. PICK R : R = ReachableFrom(1, e)
  OBVIOUS
<1>7. PICK S : S = ReachableFrom(1, e)'
  OBVIOUS
<1>8. S \subseteq R
  <2>1. \A c \in R : ToSet(Targets(c)') \subseteq R
    BY <1>2, <1>6 DEF NoJumpLeaves
  <2>2. NoJumpLeaves(R)'
    BY <2>1 DEF NoJumpLeaves
  <2>3. QED
    BY <1>2, <1>5, <1>6, <1>7, <2>2
<1>9. R \subseteq S
  <2>1. \A c \in S : ToSet(Targets(c)') \subseteq S /\ c \in Ids /\ kind'[c] = "block"
    BY <1>3, <1>5, <1>7 DEF NoJumpLeaves
  <2>2. NoJumpLeaves(S)
    BY <2>1 DEF NoJumpLeaves
  <2>3. QED
    BY <1>2, <1>5, <1>6, <1>7, <2>2
<1>10. QED
  BY <1>6, <1>7, <1>8, <1>9

(***************************************************************************)
(* The inductive invariant, in two parts: what holds of every program, and *)
(* what needs the jumps to be last.                                        *)
(***************************************************************************)
\* Where the loops stand.  unreachable-elim keeps the entry, and knows what is
\* reachable from it.
KInv ==
  /\ IInv /\ OneFunction
  /\ kernel \in AllKernels /\ pc \in {"run", "done", "error"} /\ i \in Nat \ {0}
  /\ fi = IF pc = "done" THEN 2 ELSE 1
  /\ reachable # {} => kernel = "unreachable-elim" /\ children[1] # <<>>
  /\ kernel = "unreachable-elim" /\ children[1] # <<>> => entry[1] = children[1][1]
  /\ ReachNotStale /\ OnlyLoopsStay

\* The blocks that cfg-canonicalize has left behind are settled.
SettledBehind ==
  kernel = "cfg-canonicalize" =>
    \A j \in DOMAIN children[1] : j < i \/ pc = "done" => Settled(children[1][j])

\* What was accepted stays formed; unreachable-elim may take away the only way into
\* a block, but takes that block too before it returns.
StaysValid ==
  accepted =>
    \/ kernel = "block-merge" /\ children[1] = <<>>
    \/ /\ children[1] # <<>> /\ Formed
       /\ Entered \/ (kernel = "unreachable-elim" /\ pc # "done")

JInv == KInv /\ JumpsAtEnd /\ SettledBehind /\ StaysValid

\* Where a running kernel is.
LEMMA Position ==
  ASSUME KInv, fi <= Len(functions)
  PROVE  /\ pc # "done" /\ fi = 1 /\ fn = 1 /\ 1 \in Ids /\ children[1] \in Seq(Ids)
         /\ Len(children[1]) \in Nat /\ DOMAIN children[1] = 1..Len(children[1])
         /\ \A j \in DOMAIN children[1] : children[1][j] \in Ids /\ kind[children[1][j]] = "block"
         /\ InRange <=> i \in DOMAIN children[1]
         /\ Here = children[1][i]
<1>1. functions = <<1>> /\ Len(functions) = 1 /\ 1 \in Ids
  BY DEF KInv, OneFunction
<1>2. pc # "done" /\ fi = 1
  BY <1>1 DEF KInv
<1>3. fn = 1
  BY <1>1, <1>2 DEF fn
<1>4. children[1] \in Seq(Ids)
  BY <1>1 DEF KInv, IInv, TypeOK
<1>5. Len(children[1]) \in Nat /\ DOMAIN children[1] = 1..Len(children[1])
  BY <1>4, LenProperties
<1>6. \A j \in DOMAIN children[1] : children[1][j] \in Ids /\ kind[children[1][j]] = "block"
  BY DEF KInv, IInv, TypeOK, Ownership, Lists, OneFunction
<1>7. InRange <=> i \in DOMAIN children[1]
  BY <1>3, <1>5 DEF InRange, KInv
<1>8. QED
  BY <1>1, <1>2, <1>3, <1>4, <1>5, <1>6, <1>7 DEF Here

\* The kernels that merge have no set of reachable blocks.
LEMMA MergingKInv ==
  ASSUME KInv, kernel # "unreachable-elim", IInv', OneFunction', i' \in Nat \ {0},
         UNCHANGED <<kernel, pc, fi, reachable, entry, accepted>>
  PROVE  KInv'
BY DEF KInv, ReachNotStale, OnlyLoopsStay

\* A merge, whichever kernel asks for it.
LEMMA MergeStepInv ==
  ASSUME KInv, call = "returned", NEW a \in Ids, NEW b, BlockMerge(a, b)
  PROVE  /\ IInv' /\ OneFunction'
         /\ JumpsAtEnd => JumpsAtEnd'
         /\ children[1] # <<>> /\ Formed /\ Entered /\ JumpsAtEnd =>
              children'[1] = <<>> \/ (Formed' /\ Entered')
         /\ a # b /\ JumpsAtEnd /\ Formed => children'[1] # <<>>
<1>1. IInv /\ OneFunction /\ Mergeable(a, b) /\ b \in Ids
  BY DEF KInv, BlockMerge, Mergeable, Live
<1>2. CASE a # b
  <2>1. IInv' /\ OneFunction'
    BY <1>1, <1>2, MergeShrinks
  <2>2. JumpsAtEnd => JumpsAtEnd'
    BY <1>1, <1>2, MergeGraph
  <2>3. Formed /\ JumpsAtEnd => children'[1] # <<>> /\ Formed' /\ (Entered => Entered')
    BY <1>1, <1>2, MergeValid
  <2>4. QED
    BY <2>1, <2>2, <2>3
<1>3. CASE a = b /\ Len(children[a]) <= 1
  <2>1. Gone(a) /\ Predecessors(a) = {a} /\ ToSet(Targets(a)) = {a}
    BY <1>1, <1>3, SelfMergeGone
  <2>2. JumpsAtEnd => JumpsAtEnd' /\ (Formed => Formed')
    BY <1>1, <2>1, GoneFormed
  <2>3. Entered => Entered'
    BY <1>1, <2>1, SelfMergeEntered
  <2>4. QED
    BY <1>3, <2>1, <2>2, <2>3 DEF Gone
<1>4. CASE a = b /\ ~ (Len(children[a]) <= 1)
  <2>1. Len(children[a]) > 1
    <3>1. PICK m : m = Len(children[a]) /\ m \in Nat
      BY <1>1, MergeableFacts
    <3>2. m > 1
      BY <1>4, <3>1
    <3>3. QED
      BY <3>1, <3>2
  <2>2. SameTable /\ call' \in {"returned", "hung"}
    BY <1>4, <2>1 DEF BlockMerge, SameTable
  <2>3. QED
    BY <1>1, <1>4, <2>2, SameGraph, SameShape
<1>5. QED
  BY <1>2, <1>3, <1>4

\* A turn that only moves the index, or nothing at all.
LEMMA IdleInv ==
  ASSUME KInv, UNCHANGED vars
  PROVE  SameTable /\ call' \in {"returned", "hung"} /\ IInv' /\ OneFunction'
<1>1. SameTable /\ call' \in {"returned", "hung"}
  BY DEF vars, SameTable, KInv, IInv, TypeOK
<1>2. QED
  BY <1>1, SameGraph DEF KInv

\* block-merge: every turn.
LEMMA MergeKernelKInv == KInv /\ MergeKernelStep => KInv'
<1> SUFFICES ASSUME KInv, MergeKernelStep PROVE KInv'
  OBVIOUS
<1>1. Running("block-merge") /\ InRange /\ Step(i + 1)
  BY DEF MergeKernelStep
<1>2. /\ kernel = "block-merge" /\ call = "returned" /\ Here \in Ids
      /\ UNCHANGED <<kernel, pc, fi, reachable, entry, accepted>>
  BY <1>1, Position DEF Running, Step
<1>3. i' \in Nat \ {0}
  BY <1>1 DEF KInv, Step
<1>4. IInv' /\ OneFunction'
  <2>1. UNCHANGED vars \/ \E b : BlockMerge(Here, b)
    BY DEF MergeKernelStep
  <2>2. PICK a \in Ids : a = Here
    BY <1>2
  <2>3. CASE UNCHANGED vars
    BY <2>3, IdleInv
  <2>4. CASE \E b : BlockMerge(Here, b)
    BY <1>2, <2>2, <2>4, MergeStepInv
  <2>5. QED
    BY <2>1, <2>3, <2>4
<1>5. QED
  BY <1>2, <1>3, <1>4, MergingKInv

LEMMA CanonicalizeKInv == KInv /\ CanonicalizeStep => KInv'
<1> SUFFICES ASSUME KInv, CanonicalizeStep PROVE KInv'
  OBVIOUS
<1>1. Running("cfg-canonicalize") /\ InRange /\ (Step(i) \/ Step(i + 1))
  BY DEF CanonicalizeStep
<1>2. /\ kernel = "cfg-canonicalize" /\ call = "returned" /\ Here \in Ids
      /\ UNCHANGED <<kernel, pc, fi, reachable, entry, accepted>>
  BY <1>1, Position DEF Running, Step
<1>3. i' \in Nat \ {0}
  BY <1>1 DEF KInv, Step
<1>4. IInv' /\ OneFunction'
  <2>1. UNCHANGED vars \/ \E b : BlockMerge(Here, b)
    BY DEF CanonicalizeStep
  <2>2. PICK a \in Ids : a = Here
    BY <1>2
  <2>3. CASE UNCHANGED vars
    BY <2>3, IdleInv
  <2>4. CASE \E b : BlockMerge(Here, b)
    BY <1>2, <2>2, <2>4, MergeStepInv
  <2>5. QED
    BY <2>1, <2>3, <2>4
<1>5. QED
  BY <1>2, <1>3, <1>4, MergingKInv

\* What is reachable from the entry, in a table that stays as it is.
LEMMA IdleReach ==
  ASSUME KInv, UNCHANGED vars, children[1] # <<>>
  PROVE  ReachableFrom(1, children[1][1])' = ReachableFrom(1, children[1][1])
<1>1. SameTable /\ IInv' /\ OneFunction' /\ call' \in {"returned", "hung"} /\ IInv /\ OneFunction
  BY IdleInv DEF KInv
<1>2. children[1] \in Seq(Ids) /\ children' = children /\ kind' = kind
  BY <1>1 DEF SameTable, IInv, TypeOK, OneFunction
<1>3. 1 \in DOMAIN children[1]
  <2>1. Len(children[1]) \in Nat \ {0} /\ DOMAIN children[1] = 1..Len(children[1])
    BY <1>2, EmptySeq, LenProperties
  <2>2. QED
    BY <2>1
<1>4. PICK e \in Ids : e = children[1][1] /\ e \in ToSet(children[1])
  BY <1>2, <1>3 DEF ToSet
<1>5. \A c \in Ids : kind[c] = "block" => Targets(c)' = Targets(c)
  BY <1>1, SameGraph
<1>6. \A c \in ReachableFrom(1, e) : c \in Ids /\ kind[c] = "block"
  <2>1. ReachableFrom(1, e) \subseteq ToSet(children[1])
    BY <1>1, <1>2, <1>4, FunctionClosed, ReachIsLeastNow DEF ReachIsLeast, OneFunction
  <2>2. QED
    BY <1>1, <2>1 DEF IInv, TypeOK, Ownership, Lists, OneFunction, ToSet
<1>7. ReachableFrom(1, e)' = ReachableFrom(1, e)
  BY <1>1, <1>2, <1>4, <1>5, <1>6, SameReach
<1>8. QED
  BY <1>2, <1>4, <1>7

\* delete-one! finds a doomed block when there is one.
LEMMA DoomedFound ==
  ASSUME KInv, fi <= Len(functions), NEW k, k = SelectInSeq(children[fn], Doomed)
  PROVE  /\ k # 0 => k \in DOMAIN children[1] /\ Doomed(children[1][k])
         /\ k = 0 => \A j \in DOMAIN children[1] : ~ Doomed(children[1][j])
<1> DEFINE I == {j \in 1..Len(children[1]) : Doomed(children[1][j])}
<1>1. fn = 1 /\ Len(children[1]) \in Nat /\ DOMAIN children[1] = 1..Len(children[1])
  BY Position
<1>2. k = IF I # {} THEN Min(I) ELSE 0
  BY <1>1 DEF SelectInSeq
<1>3. I \subseteq Nat /\ \A x \in I : x # 0 /\ x \in DOMAIN children[1] /\ Doomed(children[1][x])
  BY <1>1
<1>4. ASSUME I # {} PROVE Min(I) \in I
  <2> HIDE DEF I
  <2>1. \E x \in I : \A y \in I : x <= y
    BY <1>3, <1>4, LeastNatural
  <2>2. QED
    BY <2>1 DEF Min
<1>5. I = {} => \A j \in DOMAIN children[1] : ~ Doomed(children[1][j])
  BY <1>1
<1> HIDE DEF I
<1>6. QED
  BY <1>2, <1>3, <1>4, <1>5

\* reachable-from is asked once.
LEMMA ReachKInv == KInv /\ ReachStep => KInv'
<1> SUFFICES ASSUME KInv, ReachStep PROVE KInv'
  OBVIOUS
<1>1. /\ UNCHANGED <<vars, kernel, fi, i, entry, accepted>> /\ fi <= Len(functions)
      /\ kernel = "unreachable-elim" /\ pc = "run" /\ InRange /\ reachable = {}
  BY DEF ReachStep, Running
<1>2. fn = 1 /\ fi = 1 /\ functions = <<1>> /\ children[1] # <<>>
  BY <1>1, Position DEF KInv, OneFunction
<1>3. SameTable /\ IInv' /\ OneFunction'
  BY <1>1, IdleInv
<1>4. /\ pc' \in {"run", "error"}
      /\ reachable' # {} => reachable' = ReachableFrom(1, children[1][1])
  BY <1>1, <1>2 DEF ReachStep
<1>5. ReachNotStale'
  <2>1. fn' = 1
    BY <1>1, <1>2, <1>3 DEF fn, OneFunction
  <2>2. ReachableFrom(1, children[1][1])' = ReachableFrom(1, children[1][1])
    BY <1>1, <1>2, IdleReach
  <2>3. QED
    BY <1>4, <2>1, <2>2 DEF ReachNotStale
<1>6. OnlyLoopsStay'
  BY <1>4 DEF OnlyLoopsStay
<1>7. children' = children
  BY <1>3 DEF SameTable
<1>8. QED
  BY <1>1, <1>2, <1>3, <1>4, <1>5, <1>6, <1>7 DEF KInv

\* What a deletion by unreachable-elim does: it takes a block that is neither the
\* entry nor reachable, and the answer of reachable-from stays true.
LEMMA DeleteFacts ==
  ASSUME KInv, DeleteStep
  PROVE  /\ IInv' /\ OneFunction' /\ children'[1] # <<>> /\ children'[1][1] = children[1][1]
         /\ (\E d \in Ids : Gone(d) /\ Predecessors(d) = {})
         /\ ReachableFrom(1, children[1][1])' = ReachableFrom(1, children[1][1])
<1>1. /\ fi <= Len(functions) /\ kernel = "unreachable-elim" /\ reachable # {}
  BY DEF DeleteStep, Running
<1>2. PICK k : k = SelectInSeq(children[fn], Doomed) /\ k # 0 /\ BlockDelete(children[fn][k])
  BY DEF DeleteStep
<1>3. /\ IInv /\ OneFunction /\ fi = 1 /\ fn = 1 /\ 1 \in Ids /\ children[1] \in Seq(Ids)
      /\ Len(children[1]) \in Nat /\ DOMAIN children[1] = 1..Len(children[1])
      /\ \A j \in DOMAIN children[1] : children[1][j] \in Ids /\ kind[children[1][j]] = "block"
  BY <1>1, Position DEF KInv
<1>4. k \in DOMAIN children[1] /\ Doomed(children[1][k])
  BY <1>1, <1>2, DoomedFound
<1>5. PICK d \in Ids : d = children[1][k] /\ kind[d] = "block" /\ BlockDelete(d)
  BY <1>2, <1>3, <1>4
<1>6. Gone(d) /\ Predecessors(d) = {}
  BY <1>3, <1>5, DeleteGone
<1>7. /\ entry[1] = children[1][1] /\ reachable = ReachableFrom(1, children[1][1])
  <2>1. children[1] # <<>> /\ fi <= Len(functions)
    BY <1>1 DEF KInv
  <2>2. QED
    BY <1>1, <1>3, <2>1 DEF KInv, ReachNotStale
<1>8. PICK e : e = children[1][1]
  OBVIOUS
<1>9. d # e /\ d \notin ReachableFrom(1, e) /\ 1 \in DOMAIN children[1] /\ e \in Ids
  BY <1>3, <1>4, <1>5, <1>7, <1>8 DEF Doomed
<1>10. PICK l : Shrunk(l, d)
  BY <1>6 DEF Gone
<1>11. /\ children'[1] # <<>> /\ children'[1][1] = e
  <2>1. Removed(1, l) /\ children[1][l] = d
    BY <1>10 DEF Shrunk
  <2>2. l # 1
    BY <1>8, <1>9, <2>1
  <2>3. l \in 1..Len(children[1]) /\ 1 \in 1..(Len(children[1]) - 1) /\ 1 < l
    BY <1>3, <2>1, <2>2 DEF Removed
  <2>4. 1 \in DOMAIN children'[1] /\ children'[1][1] = children[1][1]
    BY <2>1, <2>3 DEF Removed
  <2>5. QED
    BY <1>8, <2>4
<1>12. ReachableFrom(1, e)' = ReachableFrom(1, e)
  <2>1. IInv' /\ OneFunction' /\ e \in ToSet(children[1])
    BY <1>6, <1>8, <1>9 DEF Gone, ToSet
  <2>2. e \in ToSet(children'[1])
    <3>1. children'[1] \in Seq(Ids)
      BY <1>3, <2>1 DEF IInv, TypeOK
    <3>2. 1 \in DOMAIN children'[1]
      <4>1. Len(children'[1]) \in Nat \ {0} /\ DOMAIN children'[1] = 1..Len(children'[1])
        BY <1>11, <3>1, EmptySeq, LenProperties
      <4>2. QED
        BY <4>1
    <3>3. QED
      BY <1>11, <3>2 DEF ToSet
  <2>3. \A c \in Ids : kind'[c] = "block" => Targets(c)' = Targets(c)
    BY <1>6 DEF Gone
  <2>4. ASSUME NEW c \in ReachableFrom(1, e) PROVE Targets(c)' = Targets(c)
    <3>1. ReachableFrom(1, e) \subseteq ToSet(children[1])
      BY <1>3, <1>9, <2>1, FunctionClosed, ReachIsLeastNow DEF ReachIsLeast, OneFunction
    <3>2. c \in Ids /\ kind[c] = "block" /\ c # d
      BY <1>3, <1>9, <3>1 DEF ToSet
    <3>3. QED
      BY <1>6, <3>2 DEF Gone
  <2>5. QED
    BY <1>3, <1>9, <2>1, <2>2, <2>3, <2>4, SameReach
<1>13. QED
  BY <1>6, <1>8, <1>11, <1>12 DEF Gone

LEMMA DeleteKInv == KInv /\ DeleteStep => KInv'
<1> SUFFICES ASSUME KInv, DeleteStep PROVE KInv'
  OBVIOUS
<1>1. /\ fi <= Len(functions) /\ kernel = "unreachable-elim" /\ reachable # {} /\ pc = "run"
      /\ UNCHANGED kvars
  BY DEF DeleteStep, Running
<1>2. /\ IInv' /\ OneFunction' /\ children'[1] # <<>> /\ children'[1][1] = children[1][1]
      /\ ReachableFrom(1, children[1][1])' = ReachableFrom(1, children[1][1])
  BY DeleteFacts
<1>3. fi = 1 /\ fn = 1
  BY <1>1, Position
<1>4. UNCHANGED <<kernel, pc, fi, i, reachable, entry>>
  BY <1>1 DEF kvars
<1>5. ReachNotStale'
  <2>1. fn' = 1
    BY <1>2, <1>3, <1>4 DEF fn, OneFunction
  <2>2. reachable = ReachableFrom(1, children[1][1])
    BY <1>1, <1>3 DEF KInv, ReachNotStale
  <2>3. QED
    BY <1>2, <1>4, <2>1, <2>2 DEF ReachNotStale
<1>6. OnlyLoopsStay'
  BY <1>1, <1>4 DEF OnlyLoopsStay
<1>7. entry[1] = children[1][1]
  BY <1>1 DEF KInv
<1>8. QED
  BY <1>1, <1>2, <1>4, <1>5, <1>6, <1>7 DEF KInv

\* The kernel returns.  Nothing is doomed: what unreachable-elim leaves has a way in.
LEMMA DoneFacts ==
  ASSUME KInv, FunctionDone
  PROVE  /\ fi <= Len(functions) /\ pc' = "done" /\ fi' = 2 /\ i' = 1 /\ reachable' = {}
         /\ UNCHANGED <<vars, kernel, entry, accepted>>
         /\ kernel = "unreachable-elim" => \A b \in ToSet(children[1]) :
              \/ b = entry[1] \/ Predecessors(b) # {}
              \/ children[1] # <<>> /\ b \in ReachableFrom(1, children[1][1])
         /\ kernel = "cfg-canonicalize" => ~ InRange
<1>1. fi <= Len(functions) /\ NextFunction
  BY DEF FunctionDone, Running
<1>2. fi = 1 /\ fn = 1 /\ functions = <<1>> /\ Len(functions) = 1
  BY <1>1, Position DEF KInv, OneFunction
<1>3. /\ pc' = "done" /\ fi' = 2 /\ i' = 1 /\ reachable' = {}
      /\ UNCHANGED <<vars, kernel, entry, accepted>>
  BY <1>1, <1>2 DEF NextFunction
<1>4. kernel = "cfg-canonicalize" => ~ InRange
  BY DEF FunctionDone, Running
<1>5. ASSUME kernel = "unreachable-elim", NEW b \in ToSet(children[1])
      PROVE  \/ b = entry[1] \/ Predecessors(b) # {}
             \/ children[1] # <<>> /\ b \in ReachableFrom(1, children[1][1])
  <2>1. /\ SelectInSeq(children[fn], Doomed) = 0 /\ (reachable # {} \/ children[fn] = <<>>)
    BY <1>5 DEF FunctionDone, Running
  <2>2. ~ Doomed(b)
    BY <1>1, <1>5, <2>1, DoomedFound DEF ToSet
  <2>3. children[1] # <<>>
    BY <1>5 DEF ToSet
  <2>4. reachable = ReachableFrom(1, children[1][1])
    BY <1>1, <1>2, <2>1, <2>3 DEF KInv, ReachNotStale
  <2>5. QED
    BY <1>2, <2>2, <2>3, <2>4 DEF Doomed
<1>6. QED
  BY <1>1, <1>3, <1>4, <1>5

LEMMA DoneKInv == KInv /\ FunctionDone => KInv'
<1> SUFFICES ASSUME KInv, FunctionDone PROVE KInv'
  OBVIOUS
<1>1. /\ fi <= Len(functions) /\ pc' = "done" /\ fi' = 2 /\ i' = 1 /\ reachable' = {}
      /\ UNCHANGED <<vars, kernel, entry, accepted>>
  BY DoneFacts
<1>2. SameTable /\ IInv' /\ OneFunction' /\ call' \in {"returned", "hung"} /\ IInv /\ OneFunction
  BY <1>1, IdleInv DEF KInv
<1>3. children' = children /\ functions' = <<1>>
  BY <1>2 DEF SameTable, OneFunction
<1>4. ReachNotStale'
  BY <1>1 DEF ReachNotStale
<1>5. ASSUME kernel = "unreachable-elim", NEW b \in ToSet(children'[1]),
             b \notin ReachableFrom(1, children[1][1])'
      PROVE  Predecessors(b)' # {}
  <2>1. children[1] # <<>> /\ b \in ToSet(children[1])
    BY <1>3, <1>5 DEF ToSet
  <2>2. b \notin ReachableFrom(1, children[1][1])
    BY <1>1, <1>5, <2>1, IdleReach
  <2>3. entry[1] \in ReachableFrom(1, children[1][1])
    <3>1. PICK e : e = children[1][1]
      OBVIOUS
    <3>2. children[1] \in Seq(Ids) /\ 1 \in Ids
      BY <1>1, Position
    <3>3. 1 \in DOMAIN children[1]
      <4>1. Len(children[1]) \in Nat \ {0} /\ DOMAIN children[1] = 1..Len(children[1])
        BY <2>1, <3>2, EmptySeq, LenProperties
      <4>2. QED
        BY <4>1
    <3>4. e \in Ids /\ e \in ToSet(children[1])
      BY <3>1, <3>2, <3>3 DEF ToSet
    <3>5. e \in ReachableFrom(1, e)
      BY <1>2, <3>2, <3>4, FunctionClosed, ReachIsLeastNow DEF ReachIsLeast, OneFunction
    <3>6. entry[1] = e
      BY <1>5, <2>1, <3>1 DEF KInv
    <3>7. QED
      BY <3>1, <3>5, <3>6
  <2>4. Predecessors(b) # {}
    BY <1>5, <2>1, <2>2, <2>3, DoneFacts
  <2>5. b \in Ids /\ kind[b] = "block"
    BY <1>1, <2>1, Position DEF ToSet
  <2>6. QED
    BY <1>2, <2>4, <2>5, SameGraph
<1>6. OnlyLoopsStay'
  <2>1. ToSet(functions') = {1}
    BY <1>3 DEF ToSet
  <2>2. QED
    BY <1>1, <1>5, <2>1 DEF OnlyLoopsStay
<1>7. QED
  BY <1>1, <1>2, <1>3, <1>4, <1>6 DEF KInv

LEMMA StutterKInv == KInv /\ UNCHANGED allVars => KInv'
<1> SUFFICES ASSUME KInv, UNCHANGED allVars PROVE KInv'
  OBVIOUS
<1>1. UNCHANGED <<vars, kernel, pc, fi, i, reachable, entry, accepted>>
  BY DEF allVars, kvars
<1>2. SameTable /\ IInv' /\ OneFunction' /\ call' \in {"returned", "hung"} /\ IInv /\ OneFunction
  BY <1>1, IdleInv DEF KInv
<1>3. children' = children /\ functions' = <<1>> /\ functions = <<1>> /\ ToSet(functions') = {1}
  BY <1>2 DEF SameTable, OneFunction, ToSet
<1>4. ReachNotStale'
  <2>1. SUFFICES ASSUME reachable' # {}, fi' <= Len(functions')
                 PROVE  reachable' = ReachableFrom(fn, children[fn][1])'
    BY DEF ReachNotStale
  <2>2. fi <= Len(functions) /\ reachable # {} /\ children[1] # <<>>
    BY <1>1, <1>3, <2>1 DEF KInv
  <2>3. fn = 1 /\ fi = 1
    BY <2>2, Position
  <2>4. fn' = 1
    BY <1>1, <1>3, <2>3 DEF fn
  <2>5. reachable = ReachableFrom(1, children[1][1])
    BY <2>2, <2>3 DEF KInv, ReachNotStale
  <2>6. ReachableFrom(1, children[1][1])' = ReachableFrom(1, children[1][1])
    BY <1>1, <2>2, IdleReach
  <2>7. QED
    BY <1>1, <2>4, <2>5, <2>6
<1>5. OnlyLoopsStay'
  <2>1. SUFFICES ASSUME pc = "done", kernel = "unreachable-elim", NEW b \in ToSet(children'[1]),
                        b \notin ReachableFrom(1, children[1][1])'
                 PROVE  Predecessors(b)' # {}
    BY <1>1, <1>3 DEF OnlyLoopsStay
  <2>2. children[1] # <<>> /\ b \in ToSet(children[1])
    BY <1>3 DEF ToSet
  <2>3. b \notin ReachableFrom(1, children[1][1])
    BY <1>1, <2>1, <2>2, IdleReach
  <2>4. Predecessors(b) # {}
    BY <1>3, <2>1, <2>2, <2>3 DEF KInv, OnlyLoopsStay
  <2>5. b \in Ids /\ kind[b] = "block"
    BY <2>2 DEF KInv, IInv, TypeOK, Ownership, Lists, OneFunction, ToSet
  <2>6. QED
    BY <1>2, <2>4, <2>5, SameGraph
<1>6. QED
  BY <1>1, <1>2, <1>3, <1>4, <1>5 DEF KInv

(***************************************************************************)
(* The second part, step by step.                                          *)
(***************************************************************************)
LEMMA IdleJInv ==
  ASSUME JInv, UNCHANGED vars
  PROVE  /\ JumpsAtEnd' /\ (Formed => Formed') /\ (Entered => Entered') /\ children' = children
         /\ \A j \in DOMAIN children[1] : Settled(children[1][j]) => Settled(children[1][j])'
<1>1. SameTable /\ call' \in {"returned", "hung"} /\ IInv /\ OneFunction
  BY IdleInv DEF JInv, KInv
<1>2. children' = children
  BY <1>1 DEF SameTable
<1>3. \A j \in DOMAIN children[1] : children[1][j] \in Ids /\ kind[children[1][j]] = "block"
  BY <1>1 DEF IInv, TypeOK, Ownership, Lists, OneFunction
<1>4. /\ JumpsAtEnd' /\ (Formed => Formed') /\ (Entered => Entered')
      /\ \A x \in Ids : kind[x] = "block" /\ Settled(x) => Settled(x)'
  BY <1>1, SameShape DEF JInv
<1>5. ASSUME NEW j \in DOMAIN children[1], Settled(children[1][j]) PROVE Settled(children[1][j])'
  <2>1. PICK x : x = children[1][j]
    OBVIOUS
  <2>2. x \in Ids /\ kind[x] = "block" /\ Settled(x) /\ x = children'[1][j]
    BY <1>2, <1>3, <1>5, <2>1
  <2>3. Settled(x)'
    BY <1>4, <2>2
  <2>4. QED
    BY <2>2, <2>3
<1>6. QED
  BY <1>2, <1>4, <1>5

LEMMA MergeKernelJInv == JInv /\ MergeKernelStep => JInv'
<1> SUFFICES ASSUME JInv, MergeKernelStep PROVE JInv'
  OBVIOUS
<1>0. KInv /\ JumpsAtEnd /\ StaysValid
  BY DEF JInv
<1>1. Running("block-merge") /\ InRange /\ Step(i + 1)
  BY DEF MergeKernelStep
<1>2. /\ kernel = "block-merge" /\ call = "returned" /\ Here \in Ids /\ children[1] # <<>>
      /\ UNCHANGED <<kernel, pc, fi, reachable, entry, accepted>>
  BY <1>0, <1>1, Position DEF Running, Step
<1>3. KInv'
  BY <1>0, MergeKernelKInv
<1>4. accepted => Formed /\ Entered
  BY <1>0, <1>2 DEF StaysValid
<1>5. JumpsAtEnd' /\ (accepted => children'[1] = <<>> \/ (Formed' /\ Entered'))
  <2>1. UNCHANGED vars \/ \E b : BlockMerge(Here, b)
    BY DEF MergeKernelStep
  <2>2. PICK a \in Ids : a = Here
    BY <1>2
  <2>3. CASE UNCHANGED vars
    BY <1>4, <2>3, IdleJInv
  <2>4. CASE \E b : BlockMerge(Here, b)
    BY <1>0, <1>2, <1>4, <2>2, <2>4, MergeStepInv
  <2>5. QED
    BY <2>1, <2>3, <2>4
<1>6. QED
  BY <1>2, <1>3, <1>5 DEF JInv, SettledBehind, StaysValid

\* cfg-canonicalize: what lies behind the index is settled, also when the block that
\* goes did.
LEMMA CanonicalizeJInv == JInv /\ CanonicalizeStep => JInv'
<1> SUFFICES ASSUME JInv, CanonicalizeStep PROVE JInv'
  OBVIOUS
<1>0. KInv /\ JumpsAtEnd /\ StaysValid /\ SettledBehind
  BY DEF JInv
<1>1. Running("cfg-canonicalize") /\ InRange
  BY DEF CanonicalizeStep
<1>2. /\ kernel = "cfg-canonicalize" /\ call = "returned" /\ pc = "run" /\ fi <= Len(functions)
      /\ UNCHANGED <<kernel, pc, fi, reachable, entry, accepted>>
  BY <1>1 DEF Running, CanonicalizeStep, Step
<1>3. /\ i \in DOMAIN children[1] /\ Here = children[1][i] /\ children[1] # <<>> /\ 1 \in Ids
      /\ DOMAIN children[1] = 1..Len(children[1]) /\ Len(children[1]) \in Nat
      /\ \A j \in DOMAIN children[1] : children[1][j] \in Ids /\ kind[children[1][j]] = "block"
  BY <1>0, <1>1, <1>2, Position
<1>4. KInv'
  BY <1>0, CanonicalizeKInv
<1>5. PICK a \in Ids : a = Here /\ kind[a] = "block"
  BY <1>3
<1>6. PICK b : b = SuccessorRef(Here, 0)
  OBVIOUS
<1>7. accepted => Formed /\ Entered
  BY <1>0, <1>2 DEF StaysValid
<1>8. CASE SuccessorCount(Here) = 1 /\ b # Here /\ Cardinality(Predecessors(b)) = 1
  <2>1. BlockMerge(a, b) /\ a # b /\ i' = i
    BY <1>5, <1>6, <1>8 DEF CanonicalizeStep, Step
  <2>2. b \in Ids /\ IInv /\ OneFunction
    BY <1>0, <2>1 DEF BlockMerge, Mergeable, Live, KInv
  <2>3. JumpsAtEnd' /\ (accepted => children'[1] # <<>> /\ Formed' /\ Entered')
    BY <1>0, <1>2, <1>3, <1>7, <2>1, MergeStepInv
  <2>4. PICK k : Shrunk(k, b)
    BY <2>1, <2>2, MergeShrinks
  <2>5. Removed(1, k) /\ children[1][k] = b
    BY <2>4 DEF Shrunk
  <2>6. ASSUME NEW j \in DOMAIN children'[1], j < i PROVE Settled(children[1][j])'
    <3>1. PICK l : l = IF j < k THEN j ELSE j + 1
      OBVIOUS
    <3>2. PICK x : x = children'[1][j]
      OBVIOUS
    <3>3. l \in DOMAIN children[1] /\ x = children[1][l] /\ k \in DOMAIN children[1]
      BY <2>5, <2>6, <3>1, <3>2 DEF Removed
    <3>4. x \in Ids /\ kind'[x] = "block"
      BY <1>4, <2>6, <3>2, <1>3 DEF KInv, IInv, TypeOK, Ownership, Lists, OneFunction
    <3>5. i \in Nat /\ j \in Nat /\ k \in Nat
      BY <1>3, <2>5, <2>6 DEF Removed
    <3>6. CASE x # a
      <4>1. l < i
        <5>1. l # i
          BY <1>3, <1>5, <3>3, <3>6
        <5>2. QED
          BY <2>6, <3>1, <3>5, <5>1
      <4>2. Settled(x)
        BY <1>0, <1>2, <3>3, <4>1 DEF SettledBehind
      <4>3. Settled(x)'
        BY <1>0, <2>1, <2>2, <3>4, <3>6, <4>2, MergeSettled
      <4>4. QED
        BY <3>2, <4>3
    <3>7. CASE x = a
      <4>1. l = i
        <5>1. \A p, q \in DOMAIN children[1] : children[1][p] = children[1][q] => p = q
          BY <1>3, <2>2 DEF IInv, Ownership, Lists, OneFunction
        <5>2. QED
          BY <1>3, <1>5, <3>3, <3>7, <5>1
      <4>2. k < i
        BY <2>6, <3>1, <3>5, <4>1
      <4>3. Settled(b)
        BY <1>0, <1>2, <2>5, <3>3, <4>2 DEF SettledBehind
      <4>4. Settled(x)'
        BY <1>0, <2>1, <2>2, <3>4, <3>7, <4>3, MergeSettled
      <4>5. QED
        BY <3>2, <4>4
    <3>8. QED
      BY <3>6, <3>7
  <2>7. SettledBehind'
    BY <1>2, <2>1, <2>6 DEF SettledBehind
  <2>8. QED
    BY <1>2, <1>4, <2>3, <2>7 DEF JInv, StaysValid
<1>9. CASE ~ (SuccessorCount(Here) = 1 /\ b # Here /\ Cardinality(Predecessors(b)) = 1)
  <2>1. UNCHANGED vars /\ i' = i + 1
    BY <1>6, <1>9 DEF CanonicalizeStep, Step
  <2>2. Settled(children[1][i])
    BY <1>3, <1>6, <1>9 DEF Settled, Mergeable
  <2>3. /\ JumpsAtEnd' /\ (Formed => Formed') /\ (Entered => Entered') /\ children' = children
        /\ \A j \in DOMAIN children[1] : Settled(children[1][j]) => Settled(children[1][j])'
    BY <2>1, IdleJInv
  <2>4. \A j \in DOMAIN children[1] : j < i + 1 => Settled(children[1][j])
    BY <1>0, <1>2, <1>3, <2>2 DEF SettledBehind
  <2>5. SettledBehind'
    BY <1>2, <2>1, <2>3, <2>4 DEF SettledBehind
  <2>6. QED
    BY <1>2, <1>3, <1>4, <1>7, <2>3, <2>5 DEF JInv, StaysValid
<1>10. QED
  BY <1>8, <1>9

LEMMA ReachJInv == JInv /\ ReachStep => JInv'
<1> SUFFICES ASSUME JInv, ReachStep PROVE JInv'
  OBVIOUS
<1>0. KInv /\ JumpsAtEnd /\ StaysValid
  BY DEF JInv
<1>1. /\ UNCHANGED vars /\ kernel' = kernel /\ accepted' = accepted
      /\ kernel = "unreachable-elim" /\ pc = "run" /\ pc' \in {"run", "error"}
  BY DEF ReachStep, Running
<1>2. KInv'
  BY <1>0, ReachKInv
<1>3. JumpsAtEnd' /\ (Formed => Formed') /\ children' = children
  BY <1>1, IdleJInv
<1>4. QED
  BY <1>0, <1>1, <1>2, <1>3 DEF JInv, SettledBehind, StaysValid

LEMMA DeleteJInv == JInv /\ DeleteStep => JInv'
<1> SUFFICES ASSUME JInv, DeleteStep PROVE JInv'
  OBVIOUS
<1>0. KInv /\ JumpsAtEnd /\ StaysValid /\ IInv /\ OneFunction
  BY DEF JInv, KInv
<1>1. /\ UNCHANGED kvars /\ kernel = "unreachable-elim" /\ pc = "run"
  BY DEF DeleteStep, Running
<1>2. KInv' /\ children'[1] # <<>>
  BY <1>0, DeleteKInv, DeleteFacts
<1>3. PICK d \in Ids : Gone(d) /\ Predecessors(d) = {}
  BY <1>0, DeleteFacts
<1>4. JumpsAtEnd' /\ (Formed => Formed')
  BY <1>0, <1>3, GoneFormed
<1>5. QED
  BY <1>0, <1>1, <1>2, <1>4 DEF JInv, SettledBehind, StaysValid, kvars

\* A block that is reachable from the entry and is not the entry has a way in.
LEMMA ReachedHasWayIn ==
  ASSUME IInv, OneFunction, NEW e \in Ids, e \in ToSet(children[1]),
         NEW b \in ReachableFrom(1, e), b # e
  PROVE  Predecessors(b) # {}
<1>1. /\ 1 \in Ids /\ children[1] \in Seq(Ids) /\ NoJumpLeaves(ToSet(children[1]))
  BY FunctionClosed DEF OneFunction
<1>2. PICK R : R = ReachableFrom(1, e)
  OBVIOUS
<1>3. /\ e \in R /\ R \subseteq ToSet(children[1]) /\ NoJumpLeaves(R)
      /\ \A C : e \in C /\ NoJumpLeaves(C) => R \subseteq C
  BY <1>1, <1>2, ReachIsLeastNow DEF ReachIsLeast
<1>4. \A c \in R : c \in Ids /\ kind[c] = "block"
  BY <1>1, <1>3 DEF IInv, TypeOK, Ownership, Lists, OneFunction, ToSet
<1>5. SUFFICES ASSUME Predecessors(b) = {} PROVE FALSE
  OBVIOUS
<1>6. \A c \in R : b \notin ToSet(Targets(c))
  BY <1>2, <1>4, <1>5, PredecessorsAre
<1>7. NoJumpLeaves(R \ {b})
  BY <1>3, <1>6 DEF NoJumpLeaves
<1>8. QED
  BY <1>2, <1>3, <1>7

LEMMA DoneJInv == JInv /\ FunctionDone => JInv'
<1> SUFFICES ASSUME JInv, FunctionDone PROVE JInv'
  OBVIOUS
<1>0. KInv /\ JumpsAtEnd /\ StaysValid /\ SettledBehind /\ IInv /\ OneFunction
  BY DEF JInv, KInv
<1>1. /\ fi <= Len(functions) /\ pc' = "done" /\ UNCHANGED <<vars, kernel, accepted>>
      /\ kernel = "unreachable-elim" => \A b \in ToSet(children[1]) :
           \/ b = entry[1] \/ Predecessors(b) # {}
           \/ children[1] # <<>> /\ b \in ReachableFrom(1, children[1][1])
      /\ kernel = "cfg-canonicalize" => ~ InRange
  BY <1>0, DoneFacts
<1>2. KInv'
  BY <1>0, DoneKInv
<1>3. /\ JumpsAtEnd' /\ (Formed => Formed') /\ (Entered => Entered') /\ children' = children
      /\ \A j \in DOMAIN children[1] : Settled(children[1][j]) => Settled(children[1][j])'
  BY <1>1, IdleJInv
<1>4. /\ 1 \in Ids /\ DOMAIN children[1] = 1..Len(children[1]) /\ Len(children[1]) \in Nat
      /\ \A j \in DOMAIN children[1] : children[1][j] \in Ids
      /\ InRange <=> i \in DOMAIN children[1]
      /\ i \in Nat \ {0}
  BY <1>0, <1>1, Position DEF KInv
<1>5. SettledBehind'
  <2>1. kernel = "cfg-canonicalize" => \A j \in DOMAIN children[1] : j < i
    BY <1>1, <1>4
  <2>2. kernel = "cfg-canonicalize" => \A j \in DOMAIN children[1] : Settled(children[1][j])
    BY <1>0, <2>1 DEF SettledBehind
  <2>3. QED
    BY <1>1, <1>3, <2>2 DEF SettledBehind
<1>6. ASSUME kernel = "unreachable-elim", children[1] # <<>> PROVE Entered
  <2>1. PICK e : e = children[1][1] /\ e = entry[1]
    BY <1>0, <1>6 DEF KInv
  <2>2. 1 \in DOMAIN children[1]
    <3>1. children[1] \in Seq(Ids)
      BY <1>0, <1>1, Position
    <3>2. Len(children[1]) # 0
      BY <1>6, <3>1, EmptySeq
    <3>3. QED
      BY <1>4, <3>2
  <2>3. e \in Ids /\ e \in ToSet(children[1])
    BY <1>4, <2>1, <2>2 DEF ToSet
  <2>4. ASSUME NEW j \in DOMAIN children[1], j > 1 PROVE Predecessors(children[1][j]) # {}
    <3>1. PICK b : b = children[1][j]
      OBVIOUS
    <3>2. b # e
      <4>1. \A p, q \in DOMAIN children[1] : children[1][p] = children[1][q] => p = q
        BY <1>0, <1>4 DEF IInv, Ownership, Lists, OneFunction
      <4>2. j # 1
        BY <1>4, <2>4
      <4>3. QED
        BY <2>1, <2>2, <3>1, <4>1, <4>2
    <3>3. b \in ToSet(children[1])
      BY <3>1 DEF ToSet
    <3>4. Predecessors(b) # {} \/ b \in ReachableFrom(1, e)
      BY <1>1, <1>6, <2>1, <3>2, <3>3
    <3>5. Predecessors(b) # {}
      BY <1>0, <2>3, <3>2, <3>4, ReachedHasWayIn
    <3>6. QED
      BY <3>1, <3>5
  <2>5. QED
    BY <2>4 DEF Entered
<1>7. StaysValid'
  BY <1>0, <1>1, <1>3, <1>6 DEF StaysValid
<1>8. QED
  BY <1>2, <1>3, <1>5, <1>7 DEF JInv

LEMMA StutterJInv == JInv /\ UNCHANGED allVars => JInv'
<1> SUFFICES ASSUME JInv, UNCHANGED allVars PROVE JInv'
  OBVIOUS
<1>1. UNCHANGED <<vars, kernel, pc, i, accepted>>
  BY DEF allVars, kvars
<1>2. KInv'
  BY StutterKInv DEF JInv
<1>3. /\ JumpsAtEnd' /\ (Formed => Formed') /\ (Entered => Entered') /\ children' = children
      /\ \A j \in DOMAIN children[1] : Settled(children[1][j]) => Settled(children[1][j])'
  BY <1>1, IdleJInv
<1>4. SettledBehind'
  BY <1>1, <1>3 DEF JInv, SettledBehind
<1>5. StaysValid'
  BY <1>1, <1>3 DEF JInv, StaysValid
<1>6. QED
  BY <1>2, <1>3, <1>4, <1>5 DEF JInv

(***************************************************************************)
(* The module as parsed.                                                   *)
(***************************************************************************)
LEMMA Division ==
  ASSUME NEW w \in Nat, w > 0
  PROVE  /\ \A m \in Nat : /\ m \div w \in Nat /\ m % w \in 0..(w - 1)
                           /\ m = (m \div w) * w + (m % w)
         /\ \A q, s \in Nat : \A r, t \in 0..(w - 1) : q * w + r = s * w + t => q = s /\ r = t
         /\ \A q, s \in Nat : q < s => q * w + w <= s * w
         /\ \A q, s \in Nat : q * w \in Nat /\ (q * w < s * w => q < s)
OBVIOUS

\* Ids and places determine each other.
LEMMA Numbering ==
  /\ \A n \in Nat : n >= 2 =>
       /\ BlockOf(n) \in Nat \ {0} /\ Place(n) \in 0..BlockWidth
       /\ n = BlockId(BlockOf(n)) + Place(n)
  /\ \A b \in Nat \ {0} : \A r \in 0..BlockWidth :
       /\ BlockId(b) \in Nat /\ BlockId(b) + r \in Nat /\ BlockId(b) + r >= 2
       /\ BlockOf(BlockId(b) + r) = b /\ Place(BlockId(b) + r) = r
  /\ \A b, l \in Nat \ {0} : \A r \in 0..BlockWidth :
       b <= l => BlockId(b) + r <= 1 + l * (BlockWidth + 1)
<1> DEFINE w == BlockWidth + 1
<1>1. w \in Nat /\ w > 0 /\ BlockWidth = w - 1 /\ BlockWidth \in Nat
  BY KernelAssumption
<1>2. /\ \A n : BlockOf(n) = 1 + ((n - 2) \div w) /\ Place(n) = (n - 2) % w
      /\ \A b : BlockId(b) = 2 + (b - 1) * w
  BY DEF BlockOf, Place, BlockId
<1>d. /\ \A m \in Nat : /\ m \div w \in Nat /\ m % w \in 0..(w - 1)
                        /\ m = (m \div w) * w + (m % w)
      /\ \A q, s \in Nat : \A r, t \in 0..(w - 1) : q * w + r = s * w + t => q = s /\ r = t
      /\ \A q, s \in Nat : q < s => q * w + w <= s * w
      /\ \A q, s \in Nat : q * w \in Nat
  BY <1>1, Division
<1> HIDE DEF w
<1>3. ASSUME NEW n \in Nat, n >= 2
      PROVE  /\ BlockOf(n) \in Nat \ {0} /\ Place(n) \in 0..BlockWidth
             /\ n = BlockId(BlockOf(n)) + Place(n)
  <2>1. PICK m \in Nat : m = n - 2 /\ n = m + 2
    BY <1>3
  <2>2. PICK q \in Nat, r \in 0..(w - 1) : q = m \div w /\ r = m % w /\ m = q * w + r
    BY <1>d
  <2>3. BlockOf(n) = 1 + q /\ Place(n) = r
    BY <1>2, <2>1, <2>2
  <2>4. BlockId(1 + q) = 2 + q * w
    <3>1. (1 + q) - 1 = q
      OBVIOUS
    <3>2. QED
      BY <1>2, <3>1
  <2>5. q * w \in Nat
    BY <1>1, <1>d
  <2>6. QED
    BY <1>1, <2>1, <2>2, <2>3, <2>4, <2>5
<1>4. ASSUME NEW b \in Nat \ {0}, NEW r \in 0..BlockWidth
      PROVE  /\ BlockId(b) \in Nat /\ BlockId(b) + r \in Nat /\ BlockId(b) + r >= 2
             /\ BlockOf(BlockId(b) + r) = b /\ Place(BlockId(b) + r) = r
             /\ \A l \in Nat : b <= l => BlockId(b) + r <= 1 + l * w
  <2>1. PICK q \in Nat : q = b - 1 /\ b = q + 1
    OBVIOUS
  <2>2. PICK v \in Nat : v = q * w
    BY <1>d
  <2>3. BlockId(b) = 2 + v
    BY <1>2, <2>1, <2>2
  <2>4. PICK m \in Nat : m = v + r /\ BlockId(b) + r = m + 2 /\ (BlockId(b) + r) - 2 = m
    BY <1>1, <2>3
  <2>5. m \div w = q /\ m % w = r
    BY <1>1, <1>d, <2>2, <2>4
  <2>6. BlockOf(BlockId(b) + r) = b /\ Place(BlockId(b) + r) = r
    BY <1>2, <2>1, <2>4, <2>5
  <2>7. ASSUME NEW l \in Nat, b <= l PROVE BlockId(b) + r <= 1 + l * w
    <3>0. q < l
      BY <2>1, <2>7
    <3>1. v + w <= l * w /\ l * w \in Nat
      BY <1>d, <2>2, <3>0, Zenon
    <3>2. QED
      BY <1>1, <2>3, <3>1
  <2>8. QED
    BY <1>1, <2>3, <2>4, <2>6, <2>7
<1>5. QED
  BY <1>3, <1>4 DEF w

\* What Parsed says, node by node.
LaidUnused(n) ==
  /\ kind[n] = "dead" /\ children[n] = <<>> /\ parent[n] = 0 /\ n \notin attached
  /\ opcode[n] = NoName /\ operands[n] = <<>> /\ name[n] = NoName
LaidFunction(p) ==
  /\ kind[1] = "function" /\ parent[1] = 0 /\ 1 \notin attached /\ opcode[1] = NoName
  /\ operands[1] = <<>> /\ name[1] = NoName /\ 1 <= node_count
  /\ children[1] \in Seq(Ids) /\ DOMAIN children[1] = 1..Len(p)
LaidBlock(p, b, n) ==
  /\ n \in Ids /\ n # 1 /\ n <= node_count /\ children[1][b] = n /\ Len(p[b]) \in Nat
  /\ kind[n] = "block" /\ parent[n] = 1 /\ n \notin attached /\ opcode[n] = NoName
  /\ operands[n] = <<>> /\ name[n] = b
  /\ children[n] \in Seq(Ids) /\ DOMAIN children[n] = 1..Len(p[b])
  /\ Len(children[n]) = Len(p[b])
LaidInstr(p, b, k, n) ==
  /\ n \in Ids /\ n # 1 /\ n <= node_count /\ children[BlockId(b)][k] = n
  /\ kind[n] = "instr" /\ parent[n] = BlockId(b) /\ n \in attached /\ name[n] = NoName
  /\ children[n] = <<>> /\ opcode[n] = p[b][k][1] /\ operands[n] = p[b][k][2]
Laid(p) ==
  /\ 1 \in Ids /\ functions = <<1>> /\ call = "returned" /\ node_count \in 0..MaxNodes
  /\ \A n \in Ids :
       \/ n = 1
       \/ \E b \in 1..Len(p) : n = BlockId(b)
       \/ \E b \in 1..Len(p) : \E k \in 1..Len(p[b]) : n = BlockId(b) + k
       \/ LaidUnused(n)
  /\ LaidFunction(p)
  /\ \A b \in 1..Len(p) : LaidBlock(p, b, BlockId(b))
  /\ \A b \in 1..Len(p) : \A k \in 1..Len(p[b]) : LaidInstr(p, b, k, BlockId(b) + k)
  /\ kind = [n \in Ids |-> kind[n]] /\ parent = [n \in Ids |-> parent[n]] /\ attached \subseteq Ids
  /\ children = [n \in Ids |-> children[n]] /\ opcode = [n \in Ids |-> opcode[n]]
  /\ operands = [n \in Ids |-> operands[n]] /\ name = [n \in Ids |-> name[n]]

\* The facts about a program that its layout needs.
LEMMA ProgramFacts ==
  ASSUME NEW p \in Programs
  PROVE  /\ Len(p) \in Nat /\ DOMAIN p = 1..Len(p)
         /\ \A b \in 1..Len(p) :
              /\ b \in Names /\ Len(p[b]) \in 0..BlockWidth /\ DOMAIN p[b] = 1..Len(p[b])
              /\ \A k \in 1..Len(p[b]) :
                   p[b][k][1] \in Opcodes /\ p[b][k][2] \in Seq(Names \cup {NoName})
         /\ 1 + Len(p) * (BlockWidth + 1) \in Nat
         /\ 1 + Len(p) * (BlockWidth + 1) <= MaxNodes
         /\ 1 <= 1 + Len(p) * (BlockWidth + 1)
<1> DEFINE I == Opcodes \X Seq(Names \cup {NoName})
<1>1. /\ p \in Seq(Seq(I)) /\ 1 + Len(p) * (BlockWidth + 1) <= MaxNodes
      /\ \A b \in DOMAIN p : Len(p[b]) <= BlockWidth /\ b \in Names
  BY ProgramAssumption
<1>2. \A x \in I : x[1] \in Opcodes /\ x[2] \in Seq(Names \cup {NoName})
  OBVIOUS
<1> HIDE DEF I
<1>3. Len(p) \in Nat /\ DOMAIN p = 1..Len(p) /\ \A b \in 1..Len(p) : p[b] \in Seq(I)
  BY <1>1, LenProperties
<1>4. \A b \in 1..Len(p) :
        /\ Len(p[b]) \in Nat /\ DOMAIN p[b] = 1..Len(p[b])
        /\ \A k \in 1..Len(p[b]) : p[b][k] \in I
  BY <1>3, LenProperties
<1>5. Len(p) * (BlockWidth + 1) \in Nat
  <2>1. BlockWidth + 1 \in Nat /\ BlockWidth + 1 > 0
    BY KernelAssumption
  <2>2. QED
    BY <1>3, <2>1, Division
<1>6. \A m \in Nat : 1 + m \in Nat /\ 1 <= 1 + m
  OBVIOUS
<1>7. \A b \in 1..Len(p) :
        /\ b \in Names /\ Len(p[b]) \in 0..BlockWidth
        /\ \A k \in 1..Len(p[b]) :
             p[b][k][1] \in Opcodes /\ p[b][k][2] \in Seq(Names \cup {NoName})
  <2>1. \A m \in Nat : m <= BlockWidth => m \in 0..BlockWidth
    BY KernelAssumption
  <2>2. \A b \in 1..Len(p) : b \in Names /\ Len(p[b]) \in 0..BlockWidth
    BY <1>1, <1>3, <1>4, <2>1, Zenon
  <2>3. QED
    BY <1>2, <1>4, <2>2, Zenon
<1>8. QED
  BY <1>1, <1>3, <1>4, <1>5, <1>6, <1>7, Zenon

LEMMA ParsedLaid ==
  ASSUME NEW p \in Programs, Parsed(p)
  PROVE  Laid(p)
<1> DEFINE isBlock(n) == InProgram(p, n) /\ Place(n) = 0
           isInstr(n) == InProgram(p, n) /\ Place(n) # 0
           At(n) == p[BlockOf(n)][Place(n)]
           size == 1 + Len(p) * (BlockWidth + 1)
<1>1. /\ Len(p) \in Nat /\ DOMAIN p = 1..Len(p)
      /\ \A b \in 1..Len(p) : Len(p[b]) \in 0..BlockWidth
      /\ size \in Nat /\ size <= MaxNodes /\ 1 <= size
  BY ProgramFacts
<1>2. /\ node_count = size /\ functions = <<1>> /\ call = "returned"
      /\ kind = [n \in Ids |-> IF n = 1 THEN "function"
                               ELSE IF isBlock(n) THEN "block"
                               ELSE IF isInstr(n) THEN "instr" ELSE "dead"]
      /\ parent = [n \in Ids |-> IF isBlock(n) THEN 1
                                 ELSE IF isInstr(n) THEN n - Place(n) ELSE 0]
      /\ attached = {n \in Ids : isInstr(n)}
      /\ children = [n \in Ids |->
           IF n = 1 THEN [b \in 1..Len(p) |-> BlockId(b)]
           ELSE IF isBlock(n) THEN [k \in 1..Len(p[BlockOf(n)]) |-> n + k]
           ELSE <<>>]
      /\ opcode = [n \in Ids |-> IF isInstr(n) THEN At(n)[1] ELSE NoName]
      /\ operands = [n \in Ids |-> IF isInstr(n) THEN At(n)[2] ELSE <<>>]
      /\ name = [n \in Ids |-> IF isBlock(n) THEN BlockOf(n) ELSE NoName]
  BY Zenon DEF Parsed
<1>3. ASSUME NEW b \in 1..Len(p), NEW r \in 0..Len(p[b])
      PROVE  /\ BlockId(b) + r \in Ids /\ BlockId(b) + r # 1 /\ BlockId(b) + r <= size
             /\ InProgram(p, BlockId(b) + r) /\ BlockOf(BlockId(b) + r) = b
             /\ Place(BlockId(b) + r) = r /\ BlockId(b) \in Nat /\ r \in Nat
  <2>1. r \in 0..BlockWidth /\ r <= Len(p[b]) /\ b \in Nat \ {0} /\ Len(p) \in Nat \ {0}
        /\ b <= Len(p) /\ r \in Nat
    BY <1>1, <1>3, KernelAssumption
  <2>2. PICK n : n = BlockId(b) + r
    OBVIOUS
  <2>3. n \in Nat /\ n >= 2 /\ BlockOf(n) = b /\ Place(n) = r /\ BlockId(b) \in Nat
    BY <2>1, <2>2, Numbering
  <2>4. n <= size
    BY <2>1, <2>2, Numbering
  <2>5. InProgram(p, n)
    BY <2>1, <2>3 DEF InProgram
  <2>6. n \in Ids /\ n # 1
    <3> HIDE DEF size
    <3> QED
      BY <1>1, <2>3, <2>4, IRAssumption DEF Ids
  <2>7. QED
    BY <2>1, <2>2, <2>3, <2>4, <2>5, <2>6
<1>4. ASSUME NEW n \in Ids, InProgram(p, n)
      PROVE  /\ BlockOf(n) \in 1..Len(p) /\ Place(n) \in 0..Len(p[BlockOf(n)])
             /\ n = BlockId(BlockOf(n)) + Place(n)
  <2>1. n \in Nat /\ n >= 2 /\ BlockOf(n) <= Len(p) /\ Place(n) <= Len(p[BlockOf(n)])
    BY <1>4 DEF InProgram, Ids
  <2>2. BlockOf(n) \in Nat \ {0} /\ Place(n) \in 0..BlockWidth /\ n = BlockId(BlockOf(n)) + Place(n)
    BY <2>1, Numbering
  <2>3. BlockOf(n) \in 1..Len(p)
    BY <1>1, <2>1, <2>2
  <2>4. Place(n) \in 0..Len(p[BlockOf(n)])
    BY <1>1, <2>1, <2>2, <2>3, KernelAssumption
  <2>5. QED
    BY <2>2, <2>3, <2>4
<1>5. 1 \in Ids /\ ~ InProgram(p, 1) /\ size \in 0..MaxNodes
  <2>1. ~ InProgram(p, 1)
    BY DEF InProgram
  <2> HIDE DEF size
  <2>2. QED
    BY <1>1, <2>1, IRAssumption DEF Ids
<1>6. ASSUME NEW n \in Ids
      PROVE  \/ n = 1
             \/ \E b \in 1..Len(p) : n = BlockId(b)
             \/ \E b \in 1..Len(p) : \E k \in 1..Len(p[b]) : n = BlockId(b) + k
             \/ ~ InProgram(p, n)
  <2>1. SUFFICES ASSUME InProgram(p, n)
                 PROVE  \/ \E b \in 1..Len(p) : n = BlockId(b)
                        \/ \E b \in 1..Len(p) : \E k \in 1..Len(p[b]) : n = BlockId(b) + k
    OBVIOUS
  <2>b. PICK b \in 1..Len(p) : b = BlockOf(n)
    BY <1>4, <2>1
  <2>2. PICK r \in 0..Len(p[b]) : n = BlockId(b) + r
    BY <1>4, <2>1, <2>b
  <2>3. BlockId(b) \in Nat /\ r \in Nat
    BY <1>3, <2>2
  <2>4. r = 0 => n = BlockId(b)
    BY <2>2, <2>3
  <2>5. r # 0 => r \in 1..Len(p[b])
    BY <1>1
  <2>6. QED
    BY <2>2, <2>4, <2>5
<1>7. ASSUME NEW n \in Ids, n # 1, ~ InProgram(p, n)
      PROVE  /\ kind[n] = "dead" /\ children[n] = <<>> /\ parent[n] = 0 /\ n \notin attached
             /\ opcode[n] = NoName /\ operands[n] = <<>> /\ name[n] = NoName
  BY <1>2, <1>7, Zenon
<1>8. /\ kind[1] = "function" /\ parent[1] = 0 /\ 1 \notin attached /\ opcode[1] = NoName
      /\ operands[1] = <<>> /\ name[1] = NoName /\ children[1] = [b \in 1..Len(p) |-> BlockId(b)]
  BY <1>2, <1>5, Zenon
<1>9. ASSUME NEW b \in 1..Len(p), NEW n, n = BlockId(b)
      PROVE  /\ n \in Ids /\ n # 1 /\ n <= node_count /\ n + 0 = n
             /\ kind[n] = "block" /\ parent[n] = 1 /\ n \notin attached /\ opcode[n] = NoName
             /\ operands[n] = <<>> /\ name[n] = b
             /\ children[n] = [k \in 1..Len(p[b]) |-> n + k]
  <2>1. 0 \in 0..Len(p[b])
    BY <1>1
  <2>2. n + 0 = n
    BY <1>3, <1>9, <2>1
  <2>3. n \in Ids /\ n # 1 /\ n <= size /\ InProgram(p, n) /\ BlockOf(n) = b /\ Place(n) = 0
    BY <1>3, <1>9, <2>1, <2>2
  <2>4. QED
    BY <1>2, <2>2, <2>3, Zenon
<1>10. ASSUME NEW b \in 1..Len(p), NEW k \in 1..Len(p[b]), NEW n, n = BlockId(b) + k
       PROVE  /\ n \in Ids /\ n # 1 /\ n <= node_count
              /\ kind[n] = "instr" /\ parent[n] = BlockId(b) /\ n \in attached /\ name[n] = NoName
              /\ children[n] = <<>> /\ opcode[n] = p[b][k][1] /\ operands[n] = p[b][k][2]
  <2>1. k \in 0..Len(p[b]) /\ k # 0
    BY <1>1
  <2>2. /\ n \in Ids /\ n # 1 /\ n <= size /\ InProgram(p, n) /\ BlockOf(n) = b /\ Place(n) = k
        /\ BlockId(b) \in Nat /\ k \in Nat
    BY <1>3, <1>10, <2>1
  <2>3. n - Place(n) = BlockId(b)
    BY <1>10, <2>2
  <2>4. QED
    BY <1>2, <2>1, <2>2, <2>3, Zenon
<1>11. children[1] \in Seq(Ids) /\ DOMAIN children[1] = 1..Len(p)
       /\ \A b \in 1..Len(p) : children[1][b] = BlockId(b)
  <2>1. \A b \in 1..Len(p) : BlockId(b) \in Ids
    BY <1>9
  <2>2. children[1] \in [1..Len(p) -> Ids]
    BY <1>8, <2>1
  <2>3. QED
    BY <1>1, <1>8, <2>2, FunctionLength
<1>12. ASSUME NEW b \in 1..Len(p), NEW n, n = BlockId(b)
       PROVE  /\ children[n] \in Seq(Ids) /\ DOMAIN children[n] = 1..Len(p[b])
              /\ Len(children[n]) = Len(p[b]) /\ Len(p[b]) \in Nat
              /\ \A k \in 1..Len(p[b]) : children[n][k] = n + k
  <2>1. children[n] = [k \in 1..Len(p[b]) |-> n + k]
    BY <1>9, <1>12
  <2>2. \A k \in 1..Len(p[b]) : n + k \in Ids
    BY <1>10, <1>12
  <2>3. children[n] \in [1..Len(p[b]) -> Ids] /\ Len(p[b]) \in Nat
    BY <1>1, <2>1, <2>2
  <2>4. QED
    BY <2>1, <2>3, FunctionLength
<1>13. /\ kind = [n \in Ids |-> kind[n]] /\ parent = [n \in Ids |-> parent[n]]
       /\ attached \subseteq Ids
       /\ children = [n \in Ids |-> children[n]] /\ opcode = [n \in Ids |-> opcode[n]]
       /\ operands = [n \in Ids |-> operands[n]] /\ name = [n \in Ids |-> name[n]]
  <2>1. kind = [n \in Ids |-> kind[n]]
    BY <1>2
  <2>2. parent = [n \in Ids |-> parent[n]]
    BY <1>2
  <2>3. children = [n \in Ids |-> children[n]]
    BY <1>2
  <2>4. opcode = [n \in Ids |-> opcode[n]]
    BY <1>2
  <2>5. operands = [n \in Ids |-> operands[n]]
    BY <1>2
  <2>6. name = [n \in Ids |-> name[n]]
    BY <1>2
  <2>7. attached \subseteq Ids
    BY <1>2
  <2>8. QED
    BY <2>1, <2>2, <2>3, <2>4, <2>5, <2>6, <2>7
<1>14. node_count \in 0..MaxNodes /\ 1 <= node_count
  BY <1>1, <1>2, <1>5
<1>15. \A n \in Ids :
         \/ n = 1
         \/ \E b \in 1..Len(p) : n = BlockId(b)
         \/ \E b \in 1..Len(p) : \E k \in 1..Len(p[b]) : n = BlockId(b) + k
         \/ LaidUnused(n)
  BY <1>6, <1>7, Zenon DEF LaidUnused
<1>16. ASSUME NEW b \in 1..Len(p) PROVE LaidBlock(p, b, BlockId(b))
  <2>1. PICK n : n = BlockId(b)
    OBVIOUS
  <2>2. LaidBlock(p, b, n)
    BY <1>9, <1>11, <1>12, <2>1 DEF LaidBlock
  <2>3. QED
    BY <2>1, <2>2
<1>17. ASSUME NEW b \in 1..Len(p), NEW k \in 1..Len(p[b]) PROVE LaidInstr(p, b, k, BlockId(b) + k)
  <2>1. PICK n : n = BlockId(b) + k
    OBVIOUS
  <2>2. children[BlockId(b)][k] = n
    BY <1>12, <2>1
  <2>3. LaidInstr(p, b, k, n)
    BY <1>10, <2>1, <2>2 DEF LaidInstr
  <2>4. QED
    BY <2>1, <2>3
<1>18. LaidFunction(p)
  BY <1>8, <1>11, <1>14 DEF LaidFunction
<1> HIDE DEF size, isBlock, isInstr, At
<1>19. QED
  BY <1>2, <1>5, <1>13, <1>14, <1>15, <1>16, <1>17, <1>18, Zenon DEF Laid

\* A parsed module satisfies the invariant of the node table, and has one function.
LEMMA LaidInv ==
  ASSUME NEW p \in Programs, Laid(p)
  PROVE  IInv /\ OneFunction
<1> DEFINE Block(n) == \E b \in 1..Len(p) : n = BlockId(b)
           Instr(n) == \E b \in 1..Len(p) : \E k \in 1..Len(p[b]) : n = BlockId(b) + k
<1>1. /\ Len(p) \in Nat
      /\ \A b \in 1..Len(p) :
           /\ b \in Names
           /\ \A k \in 1..Len(p[b]) :
                p[b][k][1] \in Opcodes /\ p[b][k][2] \in Seq(Names \cup {NoName})
  BY ProgramFacts
<1>2. /\ 1 \in Ids /\ functions = <<1>> /\ call = "returned" /\ node_count \in 0..MaxNodes
      /\ LaidFunction(p)
  BY Zenon DEF Laid
<1>3. \A n \in Ids : n = 1 \/ Block(n) \/ Instr(n) \/ LaidUnused(n)
  BY Zenon DEF Laid
<1>4. \A b \in 1..Len(p) : LaidBlock(p, b, BlockId(b))
  BY Zenon DEF Laid
<1>5. \A b \in 1..Len(p) : \A k \in 1..Len(p[b]) : LaidInstr(p, b, k, BlockId(b) + k)
  BY Zenon DEF Laid
<1>6. ASSUME NEW n \in Ids, Block(n) PROVE \E b \in 1..Len(p) : n = BlockId(b) /\ LaidBlock(p, b, n)
  BY <1>4, <1>6, Zenon
<1>7. ASSUME NEW n \in Ids, Instr(n)
      PROVE  \E b \in 1..Len(p) : \E k \in 1..Len(p[b]) :
               n = BlockId(b) + k /\ LaidInstr(p, b, k, n)
  BY <1>5, <1>7, Zenon
<1> HIDE DEF Block, Instr
\* The three kinds of nodes.
<1>9. ASSUME NEW n \in Ids
      PROVE  /\ kind[n] = "function" => n = 1
             /\ kind[n] = "block" => Block(n)
             /\ kind[n] = "instr" => Instr(n)
             /\ n \in attached => Instr(n)
  <2>1. CASE n = 1
    BY <1>2, <2>1 DEF LaidFunction
  <2>2. CASE Block(n)
    BY <1>6, <2>2 DEF LaidBlock
  <2>3. CASE Instr(n)
    BY <1>7, <2>3 DEF LaidInstr
  <2>4. CASE LaidUnused(n)
    BY <2>4 DEF LaidUnused
  <2>5. QED
    BY <1>3, <2>1, <2>2, <2>3, <2>4
<1>10. TypeOK
  <2>0. <<>> \in Seq(Ids) /\ <<>> \in Seq(Names \cup {NoName})
    OBVIOUS
  <2>1. ASSUME NEW n \in Ids
        PROVE  /\ kind[n] \in Kinds /\ parent[n] \in Ids \cup {0} /\ children[n] \in Seq(Ids)
               /\ opcode[n] \in Opcodes \cup {NoName} /\ operands[n] \in Seq(Names \cup {NoName})
               /\ name[n] \in Names \cup {NoName}
    <3>1. CASE n = 1
      BY <1>2, <2>0, <3>1, Zenon DEF Kinds, LaidFunction
    <3>2. CASE Block(n)
      <4>1. PICK b \in 1..Len(p) : LaidBlock(p, b, n)
        BY <1>6, <3>2
      <4>2. QED
        BY <1>1, <1>2, <2>0, <4>1, Zenon DEF Kinds, LaidBlock
    <3>3. CASE Instr(n)
      <4>1. PICK b \in 1..Len(p) : \E k \in 1..Len(p[b]) : LaidInstr(p, b, k, n)
        BY <1>7, <3>3
      <4>2. PICK k \in 1..Len(p[b]) : LaidInstr(p, b, k, n)
        BY <4>1
      <4>3. BlockId(b) \in Ids
        BY <1>4 DEF LaidBlock
      <4>4. p[b][k][1] \in Opcodes /\ p[b][k][2] \in Seq(Names \cup {NoName})
        BY <1>1
      <4>5. QED
        BY <2>0, <4>2, <4>3, <4>4, Zenon DEF Kinds, LaidInstr
    <3>4. CASE LaidUnused(n)
      BY <2>0, <3>4, Zenon DEF Kinds, LaidUnused
    <3>5. QED
      BY <1>3, <3>1, <3>2, <3>3, <3>4
  <2>2. /\ kind = [n \in Ids |-> kind[n]] /\ parent = [n \in Ids |-> parent[n]]
        /\ attached \subseteq Ids
        /\ children = [n \in Ids |-> children[n]] /\ opcode = [n \in Ids |-> opcode[n]]
        /\ operands = [n \in Ids |-> operands[n]] /\ name = [n \in Ids |-> name[n]]
    BY Zenon DEF Laid
  <2>3. kind \in [Ids -> Kinds]
    BY <2>1, <2>2, Zenon
  <2>4. parent \in [Ids -> Ids \cup {0}]
    BY <2>1, <2>2, Zenon
  <2>5. children \in [Ids -> Seq(Ids)]
    BY <2>1, <2>2, Zenon
  <2>6. opcode \in [Ids -> Opcodes \cup {NoName}] /\ name \in [Ids -> Names \cup {NoName}]
    BY <2>1, <2>2, Zenon
  <2>7. operands \in [Ids -> Seq(Names \cup {NoName})]
    BY <2>1, <2>2, Zenon
  <2>8. functions \in Seq(Ids)
    BY <1>2
  <2>9. QED
    BY <1>2, <2>2, <2>3, <2>4, <2>5, <2>6, <2>7, <2>8, Zenon DEF TypeOK
<1>11. Fresh
  <2>1. SUFFICES ASSUME NEW n \in Ids, n > node_count PROVE kind[n] = "dead" /\ children[n] = <<>>
    BY Zenon DEF Fresh
  <2>2. n \in Nat /\ node_count \in Nat /\ ~ (n <= node_count)
    BY <1>2, <2>1 DEF Ids
  <2>3. n # 1
    BY <1>2, <2>2 DEF LaidFunction
  <2>4. ~ Block(n)
    BY <1>6, <2>2 DEF LaidBlock
  <2>5. ~ Instr(n)
    BY <1>7, <2>2 DEF LaidInstr
  <2>6. QED
    BY <1>3, <2>3, <2>4, <2>5 DEF LaidUnused
<1>12. Lists("function", "block")
  <2>1. SUFFICES ASSUME NEW n \in Ids, kind[n] = "function"
                 PROVE  /\ \A j \in DOMAIN children[n] :
                             kind[children[n][j]] = "block" /\ parent[children[n][j]] = n
                        /\ \A j, l \in DOMAIN children[n] : children[n][j] = children[n][l] => j = l
    BY DEF Lists
  <2>2. n = 1
    BY <1>9, <2>1
  <2>3. \A j \in 1..Len(p) :
          /\ kind[BlockId(j)] = "block" /\ parent[BlockId(j)] = 1 /\ name[BlockId(j)] = j
          /\ children[1][j] = BlockId(j)
    BY <1>4 DEF LaidBlock
  <2>4. QED
    BY <1>2, <2>2, <2>3 DEF LaidFunction
<1>13. ASSUME NEW n \in Ids, kind[n] = "block"
       PROVE  /\ \A j \in DOMAIN children[n] :
                   /\ kind[children[n][j]] = "instr" /\ parent[children[n][j]] = n
                   /\ children[n][j] \in attached
              /\ \A j, l \in DOMAIN children[n] : children[n][j] = children[n][l] => j = l
              /\ parent[n] = 1 /\ (\E j \in DOMAIN children[1] : children[1][j] = n)
              /\ name[n] \in Names
  <2>1. PICK b \in 1..Len(p) : n = BlockId(b) /\ LaidBlock(p, b, n)
    BY <1>6, <1>9, <1>13
  <2>2. /\ DOMAIN children[n] = 1..Len(p[b]) /\ Len(p[b]) \in Nat /\ parent[n] = 1 /\ name[n] = b
        /\ children[1][b] = n /\ b \in DOMAIN children[1] /\ b \in Names
    BY <1>1, <1>2, <2>1 DEF LaidBlock, LaidFunction
  <2>3. ASSUME NEW j \in 1..Len(p[b])
        PROVE  /\ children[n][j] = n + j /\ kind[children[n][j]] = "instr"
               /\ parent[children[n][j]] = n /\ children[n][j] \in attached
    <3>1. LaidInstr(p, b, j, n + j)
      BY <1>5, <2>1
    <3>2. QED
      BY <2>1, <3>1, Zenon DEF LaidInstr
  <2>4. n \in Nat
    BY DEF Ids
  <2>5. ASSUME NEW j \in 1..Len(p[b]), NEW l \in 1..Len(p[b]), children[n][j] = children[n][l]
        PROVE  j = l
    <3>1. n + j = n + l
      BY <2>3, <2>5
    <3>2. QED
      BY <2>2, <2>4, <3>1
  <2>6. QED
    BY <2>2, <2>3, <2>5, Zenon
<1>14. Lists("block", "instr") /\ ListedAttached
  BY <1>13 DEF Lists, ListedAttached
<1>15. BlocksOwned
  BY <1>2, <1>13 DEF BlocksOwned, ListedBy, LaidFunction
<1>16. AttachedOwned
  <2>1. SUFFICES ASSUME NEW n \in attached PROVE kind[n] = "instr" /\ ListedBy("block", n)
    BY DEF AttachedOwned
  <2>2. n \in Ids /\ Instr(n)
    <3>1. attached \subseteq Ids
      BY Zenon DEF Laid
    <3>2. QED
      BY <1>9, <2>1, <3>1
  <2>3. PICK b \in 1..Len(p) : \E k \in 1..Len(p[b]) : LaidInstr(p, b, k, n)
    BY <1>7, <2>2
  <2>4. PICK k \in 1..Len(p[b]) : LaidInstr(p, b, k, n)
    BY <2>3
  <2>5. /\ kind[n] = "instr" /\ parent[n] = BlockId(b) /\ children[BlockId(b)][k] = n
    BY <2>4 DEF LaidInstr
  <2>6. BlockId(b) \in Ids /\ kind[BlockId(b)] = "block" /\ k \in DOMAIN children[BlockId(b)]
    BY <1>4 DEF LaidBlock
  <2>7. QED
    BY <2>5, <2>6 DEF ListedBy
<1>17. OneFunction
  BY <1>2, <1>9, <1>13 DEF OneFunction, LaidFunction
<1>18. QED
  BY <1>10, <1>11, <1>12, <1>14, <1>15, <1>16, <1>17 DEF IInv, Ownership

LEMMA LaidJumps ==
  ASSUME JumpsLast, NEW p \in Programs, Laid(p)
  PROVE  JumpsAtEnd
<1>1. SUFFICES ASSUME NEW c \in Ids, kind[c] = "block" PROVE PlainUntilLast(children[c])
  BY DEF JumpsAtEnd
<1>2. PICK b \in 1..Len(p) : c = BlockId(b) /\ LaidBlock(p, b, c)
  <2>1. /\ \/ c = 1
           \/ \E b \in 1..Len(p) : c = BlockId(b)
           \/ \E b \in 1..Len(p) : \E k \in 1..Len(p[b]) : c = BlockId(b) + k
           \/ LaidUnused(c)
        /\ LaidFunction(p)
        /\ \A b \in 1..Len(p) : LaidBlock(p, b, BlockId(b))
        /\ \A b \in 1..Len(p) : \A k \in 1..Len(p[b]) : LaidInstr(p, b, k, BlockId(b) + k)
    BY Zenon DEF Laid
  <2>2. c # 1 /\ ~ LaidUnused(c)
    BY <1>1, <2>1 DEF LaidFunction, LaidUnused
  <2>3. ~ \E b \in 1..Len(p) : \E k \in 1..Len(p[b]) : c = BlockId(b) + k
    <3>1. \A b \in 1..Len(p) : \A k \in 1..Len(p[b]) : kind[BlockId(b) + k] = "instr"
      BY <2>1, Zenon DEF LaidInstr
    <3>2. QED
      BY <1>1, <3>1
  <2>4. QED
    BY <2>1, <2>2, <2>3, Zenon
<1>3. /\ DOMAIN children[c] = 1..Len(p[b]) /\ Len(children[c]) = Len(p[b])
      /\ \A k \in 1..Len(p[b]) : operands[children[c][k]] = p[b][k][2]
  <2>1. \A k \in 1..Len(p[b]) : LaidInstr(p, b, k, BlockId(b) + k)
    BY Zenon DEF Laid
  <2>2. ASSUME NEW k \in 1..Len(p[b]) PROVE operands[children[c][k]] = p[b][k][2]
    <3>1. PICK n : n = BlockId(b) + k
      OBVIOUS
    <3>2. children[c][k] = n /\ operands[n] = p[b][k][2]
      BY <1>2, <2>1, <3>1 DEF LaidInstr
    <3>3. QED
      BY <3>2
  <2>3. QED
    BY <1>2, <2>2 DEF LaidBlock
<1>4. b \in DOMAIN p /\ DOMAIN p[b] = 1..Len(p[b])
  BY ProgramFacts
<1>5. ASSUME NEW k \in 1..Len(p[b]), k < Len(p[b])
      PROVE  \A j \in DOMAIN operands[children[c][k]] : operands[children[c][k]][j] = NoName
  <2>1. operands[children[c][k]] = p[b][k][2]
    BY <1>3
  <2>2. \A j \in DOMAIN p[b][k][2] : p[b][k][2][j] = NoName
    BY <1>4, <1>5 DEF JumpsLast
  <2>3. QED
    BY <2>1, <2>2, Zenon
<1>6. QED
  BY <1>3, <1>5, Zenon DEF PlainUntilLast

(***************************************************************************)
(* The theorems.                                                           *)
(***************************************************************************)
LEMMA InitKInv == KInit => KInv
<1> SUFFICES ASSUME KInit PROVE KInv
  OBVIOUS
<1>1. PICK p \in Programs : Parsed(p)
  BY DEF KInit
<1>2. IInv /\ OneFunction
  BY <1>1, ParsedLaid, LaidInv
<1>3. /\ kernel \in Kernels /\ pc = "run" /\ fi = 1 /\ i = 1 /\ reachable = {}
      /\ entry = [f \in ToSet(functions) |-> children[f][1]]
  BY DEF KInit
<1>4. entry[1] = children[1][1]
  <2>1. ToSet(functions) = {1}
    BY <1>2 DEF OneFunction, ToSet
  <2>2. QED
    BY <1>3, <2>1
<1>5. QED
  BY <1>2, <1>3, <1>4, KernelAssumption DEF KInv, ReachNotStale, OnlyLoopsStay

LEMMA InitJInv == JumpsLast => (KInit => JInv)
<1> SUFFICES ASSUME JumpsLast, KInit PROVE JInv
  OBVIOUS
<1>1. PICK p \in Programs : Parsed(p)
  BY DEF KInit
<1>2. KInv
  BY InitKInv
<1>3. IInv /\ OneFunction /\ children[1] \in Seq(Ids)
  BY <1>2 DEF KInv, IInv, TypeOK, OneFunction
<1>4. JumpsAtEnd
  BY <1>1, ParsedLaid, LaidJumps
<1>5. i = 1 /\ pc = "run" /\ accepted = Valid
  BY DEF KInit
<1>6. SettledBehind
  <2>1. \A j \in DOMAIN children[1] : ~ (j < 1)
    BY <1>3, LenProperties
  <2>2. QED
    BY <1>5, <2>1 DEF SettledBehind
<1>7. StaysValid
  BY <1>3, <1>5, ValidIs DEF StaysValid
<1>8. QED
  BY <1>2, <1>4, <1>6, <1>7 DEF JInv

LEMMA NextKInv == KInv /\ [KNext]_allVars => KInv'
BY MergeKernelKInv, CanonicalizeKInv, ReachKInv, DeleteKInv, DoneKInv, StutterKInv DEF KNext

LEMMA NextJInv == JInv /\ [KNext]_allVars => JInv'
BY MergeKernelJInv, CanonicalizeJInv, ReachJInv, DeleteJInv, DoneJInv, StutterJInv DEF KNext

\* However the blocks are laid out, and whatever unreachable-elim deletes on the way:
\* the set of reachable blocks that it computed once is never stale, and when it
\* returns, what it leaves of the unreachable blocks lies on, or behind, a loop.
THEOREM EliminationSound == KSpec => [](OnlyLoopsStay /\ ReachNotStale)
<1>1. KInv => OnlyLoopsStay /\ ReachNotStale
  BY DEF KInv
<1>2. QED
  BY <1>1, InitKInv, NextKInv, PTL DEF KSpec

\* When a block is settled, no successor of it is left to merge with.
LEMMA SettledEnds ==
  ASSUME JInv
  PROVE  NoChainLeft
<1>1. SUFFICES ASSUME pc = "done", kernel = "cfg-canonicalize", NEW b \in Ids, kind[b] = "block",
                      NEW c \in ToSet(Targets(b)) \ {b}, Mergeable(b, c)
               PROVE  FALSE
  BY DEF NoChainLeft
<1>2. IInv /\ OneFunction /\ SettledBehind
  BY DEF JInv, KInv
<1>3. PICK j \in DOMAIN children[1] : children[1][j] = b
  BY <1>1, <1>2 DEF IInv, Ownership, BlocksOwned, ListedBy, OneFunction
<1>4. Settled(b)
  BY <1>1, <1>2, <1>3 DEF SettledBehind
<1>5. c \in Ids
  BY <1>1 DEF Mergeable, Live
<1>6. QED
  BY <1>1, <1>4, <1>5 DEF Settled

\* Each kernel leaves what its description says, for every program whose jumps come
\* last in their blocks: cfg-canonicalize no chain, unreachable-elim no unreachable
\* tree, although both edit the vectors that they walk.
THEOREM KernelsDoTheirWork == JumpsLast => (KSpec => []KernelResults)
<1> SUFFICES ASSUME JumpsLast PROVE KSpec => []KernelResults
  OBVIOUS
<1>1. KInit => JInv
  BY InitJInv
<1>2. JInv => KernelResults
  BY SettledEnds DEF KernelResults, JInv, KInv
<1>3. QED
  BY <1>1, <1>2, NextJInv, PTL DEF KSpec

\* When a kernel returns from a module that the validator accepted, the validator
\* accepts what it leaves, for every such program; the exception is the function that
\* block-merge empties.
THEOREM CommitsValid == JumpsLast => (KSpec => []CommitValid)
<1> SUFFICES ASSUME JumpsLast PROVE KSpec => []CommitValid
  OBVIOUS
<1>1. KInit => JInv
  BY InitJInv
<1>2. JInv => CommitValid
  <2>1. SUFFICES ASSUME JInv, pc = "done", accepted
                 PROVE  \/ Valid
                        \/ kernel = "block-merge" /\ \E f \in ToSet(functions) : children[f] = <<>>
    BY DEF CommitValid
  <2>2. IInv /\ OneFunction /\ StaysValid
    BY <2>1 DEF JInv, KInv
  <2>3. ToSet(functions) = {1}
    BY <2>2 DEF OneFunction, ToSet
  <2>4. \/ kernel = "block-merge" /\ children[1] = <<>>
        \/ children[1] # <<>> /\ Formed /\ Entered
    BY <2>1, <2>2 DEF StaysValid
  <2>5. QED
    BY <2>2, <2>3, <2>4, ValidIs
<1>3. QED
  BY <1>1, <1>2, NextJInv, PTL DEF KSpec

=============================================================================
