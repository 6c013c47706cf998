--------------------------- MODULE PipelineProofs ---------------------------
(***************************************************************************)
(* The Sched stage for plans of any size: the builder (Sched), the         *)
(* execution of a plan (PlanRun), their composition (Pipeline) and the     *)
(* plan checker (PlanCheck).                                               *)
(***************************************************************************)
EXTENDS PlanCheck, SequenceLemmas, FiniteSetTheorems, TLAPS

(* The builder.  What a script seals is an order, barriers included, and its *)
(* text says what was built.                                                *)
\* The names and members of nodes play no part: it is enough that the nodes are
\* a sequence of something.
IsSequence == \E T : nodes \in Seq(T)

\* The inductive invariant.  BarriersComplete alone is inductive once the nodes
\* are known to be a sequence.
SInv == IsSequence /\ BarriersComplete

\* What the two sequences have in common when a node is appended.
LEMMA AppendNode ==
  ASSUME NEW T, nodes \in Seq(T), NEW r, nodes' = Append(nodes, r)
  PROVE  /\ nodes' \in Seq(T \cup {r})
         /\ Len(nodes') = Len(nodes) + 1
         /\ \A i \in 1..Len(nodes) : nodes'[i] = nodes[i]
         /\ nodes'[Len(nodes) + 1] = r
<1>1. nodes \in Seq(T \cup {r})
  <2>1. \A i \in 1..Len(nodes) : nodes[i] \in T \cup {r}
    BY ElementOfSeq
  <2>2. QED
    BY <2>1, SeqDef
<1>2. QED
  BY <1>1, AppendProperties

\* add_node and ccw_sched_barrier order a new node with every barrier, and a new
\* barrier with every node.
LEMMA AddNodeSInv ==
  ASSUME SInv, NEW k, NEW nm, NEW members, AddNode(k, nm, members)
  PROVE  SInv'
<1> DEFINE r == [kind |-> k, name |-> nm, members |-> members]
           id == Len(nodes) + 1
<1>1. PICK T : nodes \in Seq(T)
  BY DEF SInv, IsSequence
<1>2. nodes' = Append(nodes, r)
  BY DEF AddNode
<1>3. edges' = edges \cup (IF k = "barrier" THEN 1..Len(nodes) ELSE Barriers) \X {id}
  BY DEF AddNode
<1> HIDE DEF r
<1>4. /\ nodes' \in Seq(T \cup {r})
      /\ Len(nodes') = Len(nodes) + 1
      /\ \A i \in 1..Len(nodes) : nodes'[i] = nodes[i]
      /\ nodes'[Len(nodes) + 1] = r
  BY <1>1, <1>2, AppendNode
<1>5. Len(nodes) \in Nat /\ DOMAIN nodes = 1..Len(nodes) /\ DOMAIN nodes' = 1..Len(nodes')
  BY <1>1, <1>4, LenProperties
<1>6. Barriers' = Barriers \cup (IF k = "barrier" THEN {id} ELSE {})
  BY <1>4, <1>5 DEF Barriers, r
<1>7. Barriers \subseteq 1..Len(nodes)
  BY <1>5 DEF Barriers
<1>8. ASSUME NEW b \in Barriers', NEW i \in 1..(b - 1)
      PROVE  <<i, b>> \in edges'
  <2>1. CASE b \in Barriers
    BY <2>1, <1>3 DEF SInv, BarriersComplete
  <2>2. CASE b = id /\ k = "barrier"
    BY <2>2, <1>3, <1>5
  <2>3. QED
    BY <2>1, <2>2, <1>6
<1>9. ASSUME NEW b \in Barriers', NEW i \in (b + 1)..Len(nodes')
      PROVE  <<b, i>> \in edges'
  <2>1. b \in Barriers
    BY <1>4, <1>5, <1>6, <1>7
  <2>2. CASE i = id
    BY <2>1, <2>2, <1>3, <1>7
  <2>3. CASE i # id
    <3>1. i \in (b + 1)..Len(nodes)
      BY <2>1, <2>3, <1>4, <1>5, <1>7
    <3>2. QED
      BY <2>1, <3>1, <1>3 DEF SInv, BarriersComplete
  <2>4. QED
    BY <2>2, <2>3
<1>10. BarriersComplete'
  BY <1>8, <1>9 DEF BarriersComplete
<1>11. QED
  BY <1>4, <1>10 DEF SInv, IsSequence

\* Edges are only added, and the nodes stay, in every other step.
LEMMA SameNodesSInv ==
  ASSUME SInv, UNCHANGED nodes, edges \subseteq edges'
  PROVE  SInv'
BY DEF SInv, IsSequence, BarriersComplete, Barriers

\* No call of a script breaks the order around a barrier.
LEMMA NextSInv ==
  ASSUME SInv, [SNext]_svars
  PROVE  SInv'
<1>1. CASE \E i \in DOMAIN KernelManifest : RequireKernel(KernelManifest[i].name)
  BY <1>1, AddNodeSInv DEF RequireKernel
<1>2. CASE \E i, j \in DOMAIN KernelManifest :
             \E cap \in ToSet(KernelManifest[i].caps),
                prefer \in {NoPreference, KernelManifest[j].name} :
               RequireCapability(cap, prefer)
  BY <1>2, AddNodeSInv DEF RequireCapability
<1>3. CASE \E pattern \in Patterns : Rewrite(pattern)
  BY <1>3, AddNodeSInv DEF Rewrite
<1>4. CASE \E label \in Labels : Barrier(label)
  BY <1>4, AddNodeSInv DEF Barrier
<1>5. CASE \E a, b \in 1..MaxPlan : Edge(a, b)
  BY <1>5, SameNodesSInv DEF Edge
<1>6. CASE Seal
  BY <1>6, SameNodesSInv DEF Seal
<1>7. CASE UNCHANGED svars
  BY <1>7, SameNodesSInv DEF svars
<1>8. QED
  BY <1>1, <1>2, <1>3, <1>4, <1>5, <1>6, <1>7 DEF SNext

(***************************************************************************)
(* The cycle test.                                                         *)
(***************************************************************************)
\* Min picks a member.
LEMMA FreeMin ==
  ASSUME NEW n \in Nat, NEW E, NEW T, Free(n, E, T) # {}
  PROVE  Min(Free(n, E, T)) \in Free(n, E, T)
<1>1. Free(n, E, T) \subseteq Nat
  BY DEF Free
<1> DEFINE F == Free(n, E, T)
<1> HIDE DEF F
<1>2. F \subseteq Nat /\ F # {}
  BY <1>1 DEF F
<1>3. \E x \in F : \A y \in F : x <= y
  BY <1>2, LeastNatural
<1>4. Min(F) \in F
  BY <1>3 DEF Min
<1>5. QED
  BY <1>4 DEF F

\* The rounds are well defined: for every k there is a function that records the
\* first k of them.  The least k without one would have a predecessor whose
\* function can be extended by a round.
LEMMA RoundsExist ==
  ASSUME NEW n \in Nat, NEW E
  PROVE  \E f : f = [r \in 0..n |-> IF r = 0 THEN {} ELSE Round(n, E, f[r - 1])]
<1> DEFINE Rec(k, f) == f = [r \in 0..k |-> IF r = 0 THEN {} ELSE Round(n, E, f[r - 1])]
           Bad == {k \in Nat : ~ \E f : Rec(k, f)}
<1>1. SUFFICES ASSUME Bad # {} PROVE FALSE
  OBVIOUS
<1>2. PICK k \in Bad : \A l \in Bad : k <= l
  <2>1. Bad \subseteq Nat
    OBVIOUS
  <2> HIDE DEF Bad
  <2>2. QED
    BY <1>1, <2>1, LeastNatural
<1>3. k # 0
  <2> DEFINE g == [r \in 0..0 |-> {}]
  <2>1. Rec(0, g)
    OBVIOUS
  <2>2. QED
    BY <2>1
<1>4. k - 1 \in Nat /\ k - 1 \notin Bad
  <2>1. k \in Nat
    OBVIOUS
  <2> HIDE DEF Bad
  <2>2. QED
    BY <2>1, <1>2, <1>3
<1>5. PICK f : Rec(k - 1, f)
  BY <1>4
<1> DEFINE h == [r \in 0..k |-> IF r = k THEN Round(n, E, f[k - 1]) ELSE f[r]]
<1>6. ASSUME NEW r \in 0..k
      PROVE  h[r] = IF r = 0 THEN {} ELSE Round(n, E, h[r - 1])
  <2>1. CASE r = k
    BY <2>1, <1>3, <1>4
  <2>2. CASE r # k
    <3>1. r \in 0..(k - 1) /\ (r # 0 => r - 1 \in 0..(k - 1) /\ r - 1 # k)
      BY <2>2, <1>4
    <3>2. f[r] = IF r = 0 THEN {} ELSE Round(n, E, f[r - 1])
      BY <3>1, <1>5
    <3>3. QED
      BY <2>2, <3>1, <3>2
  <2>3. QED
    BY <2>1, <2>2
<1>7. Rec(k, h)
  BY <1>6
<1>8. QED
  BY <1>2, <1>7

\* What Taken is, round by round.
LEMMA TakenRounds ==
  ASSUME NEW n \in Nat, NEW E
  PROVE  /\ Taken(n, E)[0] = {}
         /\ \A r \in 1..n : Taken(n, E)[r] = Round(n, E, Taken(n, E)[r - 1])
<1> DEFINE t == Taken(n, E)
           Rec(f) == f = [r \in 0..n |-> IF r = 0 THEN {} ELSE Round(n, E, f[r - 1])]
<1>1. Rec(t)
  <2>1. \E f : Rec(f)
    BY RoundsExist
  <2>2. t = CHOOSE f : Rec(f)
    BY Zenon DEF Taken
  <2> HIDE DEF Rec, t
  <2>3. QED
    BY <2>1, <2>2, Zenon
<1> HIDE DEF t
<1>2. t[0] = {}
  BY <1>1
<1>3. ASSUME NEW r \in 1..n PROVE t[r] = Round(n, E, t[r - 1])
  BY <1>1
<1>4. QED
  BY <1>2, <1>3 DEF t

\* What the cycle test accepts is a partial order.  Of any set of nodes, the one
\* that was taken first has no predecessor in the set.
LEMMA AcyclicSound ==
  ASSUME NEW n \in Nat, NEW E, Acyclic(n, E)
  PROVE  WellFounded(n, E)
<1> SUFFICES ASSUME NEW S \in SUBSET (1..n), S # {}
             PROVE  \E i \in S : \A j \in S : <<j, i>> \notin E
  BY DEF WellFounded
<1> DEFINE t == Taken(n, E)
           R == {r \in 0..n : t[r] \cap S # {}}
<1>1. t[n] = 1..n
  BY DEF Acyclic
<1>2. t[0] = {} /\ \A r \in 1..n : t[r] = Round(n, E, t[r - 1])
  BY TakenRounds
<1> HIDE DEF t
<1>3. PICK r \in R : \A q \in R : r <= q
  <2>1. n \in 0..n /\ t[n] \cap S # {}
    <3>1. PICK x : x \in S
      OBVIOUS
    <3>2. x \in t[n] \cap S
      BY <1>1, <3>1
    <3>3. QED
      BY <3>2
  <2>2. R \subseteq Nat /\ R # {}
    BY <2>1
  <2> HIDE DEF R
  <2>3. QED
    BY <2>2, LeastNatural
<1>4. r \in 1..n /\ r - 1 \in 0..n /\ r - 1 \notin R
  BY <1>2, <1>3
<1>5. t[r - 1] \cap S = {} /\ t[r] \cap S # {}
  BY <1>3, <1>4
<1> DEFINE T == t[r - 1]
<1>6. t[r] = Round(n, E, T)
  BY <1>2, <1>4
<1> HIDE DEF T
<1>7. Free(n, E, T) # {} /\ Min(Free(n, E, T)) \in S
  BY <1>5, <1>6 DEF Round, T
<1>8. Min(Free(n, E, T)) \in Free(n, E, T)
  BY <1>7, FreeMin
<1> DEFINE i == Min(Free(n, E, T))
<1>9. \A j \in S : <<j, i>> \notin E
  <2> SUFFICES ASSUME NEW j \in S, <<j, i>> \in E PROVE FALSE
    OBVIOUS
  <2>1. \A e \in E : e[2] = i => e[1] \in T
    BY <1>8 DEF Free
  <2>2. j \in T
    BY <2>1
  <2>3. QED
    BY <2>2, <1>5 DEF T
<1>10. QED
  BY <1>7, <1>9

\* While nodes are left, one of them is free: the set of nodes that are left has
\* a member without predecessors in it.
LEMMA SomethingFree ==
  ASSUME NEW n \in Nat, NEW E \in SUBSET ((1..n) \X (1..n)), WellFounded(n, E),
         NEW T \in SUBSET (1..n), T # 1..n
  PROVE  Free(n, E, T) # {}
<1> DEFINE S == (1..n) \ T
<1>1. S \in (SUBSET (1..n)) \ {{}}
  OBVIOUS
<1>2. PICK i \in S : \A j \in S : <<j, i>> \notin E
  BY <1>1 DEF WellFounded
<1>3. ASSUME NEW e \in E, e[2] = i PROVE e[1] \in T
  <2>1. e = <<e[1], i>> /\ e[1] \in 1..n
    BY <1>3
  <2>2. QED
    BY <2>1, <1>2
<1>4. i \in Free(n, E, T)
  BY <1>2, <1>3 DEF Free
<1>5. QED
  BY <1>4

\* So every round takes a node, and r rounds take r of them.
LEMMA TakenCardinality ==
  ASSUME NEW n \in Nat, NEW E \in SUBSET ((1..n) \X (1..n)), WellFounded(n, E),
         NEW r \in 0..n
  PROVE  /\ Taken(n, E)[r] \subseteq 1..n
         /\ Cardinality(Taken(n, E)[r]) = r
<1> DEFINE t == Taken(n, E)
           Good(q) == t[q] \subseteq 1..n /\ Cardinality(t[q]) = q
           Bad == {q \in 0..n : ~Good(q)}
<1>1. t[0] = {} /\ \A q \in 1..n : t[q] = Round(n, E, t[q - 1])
  BY TakenRounds
<1> HIDE DEF t
<1>2. SUFFICES ASSUME Bad # {} PROVE FALSE
  BY DEF t
<1>3. PICK q \in Bad : \A p \in Bad : q <= p
  <2>1. Bad \subseteq Nat
    OBVIOUS
  <2> HIDE DEF Bad
  <2>2. QED
    BY <1>2, <2>1, LeastNatural
<1>4. q # 0
  BY <1>1, <1>3, FS_EmptySet
<1>5. q \in 1..n /\ q - 1 \in 0..n /\ q - 1 \notin Bad
  <2>1. q \in 0..n
    OBVIOUS
  <2> HIDE DEF Bad
  <2>2. QED
    BY <2>1, <1>3, <1>4
<1> DEFINE T == t[q - 1]
<1>6. T \subseteq 1..n /\ Cardinality(T) = q - 1
  BY <1>5
<1>7. t[q] = Round(n, E, T)
  BY <1>1, <1>5
<1> HIDE DEF T
<1>8. IsFiniteSet(1..n) /\ Cardinality(1..n) = n
  BY FS_Interval
<1>9. T # 1..n
  BY <1>5, <1>6, <1>8
<1>10. Free(n, E, T) # {}
  BY <1>6, <1>9, SomethingFree
<1> DEFINE i == Min(Free(n, E, T))
<1>11. i \in (1..n) \ T
  <2>1. i \in Free(n, E, T)
    BY <1>10, FreeMin
  <2> HIDE DEF i
  <2>2. QED
    BY <2>1 DEF Free
<1>12. t[q] = T \cup {i}
  BY <1>7, <1>10 DEF Round
<1> HIDE DEF i
<1>13. IsFiniteSet(T)
  BY <1>6, <1>8, FS_Subset
<1>14. Cardinality(T \cup {i}) = q
  <2>1. Cardinality(T \cup {i}) = Cardinality(T) + 1
    BY <1>11, <1>13, FS_AddElement
  <2>2. QED
    BY <2>1, <1>5, <1>6
<1>15. Good(q)
  BY <1>6, <1>11, <1>12, <1>14
<1>16. QED
  BY <1>3, <1>15

\* The cycle test accepts every partial order.
LEMMA AcyclicComplete ==
  ASSUME NEW n \in Nat, NEW E \in SUBSET ((1..n) \X (1..n)), WellFounded(n, E)
  PROVE  Acyclic(n, E)
<1>1. n \in 0..n
  OBVIOUS
<1>2. Taken(n, E)[n] \subseteq 1..n /\ Cardinality(Taken(n, E)[n]) = n
  BY <1>1, TakenCardinality
<1>3. IsFiniteSet(1..n) /\ Cardinality(1..n) = n
  BY FS_Interval
<1>4. Taken(n, E)[n] = 1..n
  BY <1>2, <1>3, FS_Subset
<1>5. QED
  BY <1>4 DEF Acyclic

\* The cycle test of ccw_sched_seal (acyclic) is right: for a plan of any size it
\* accepts exactly the edges that are a partial order of the nodes.
THEOREM AcyclicIsOrder ==
  \A n \in Nat : \A E \in SUBSET ((1..n) \X (1..n)) : Acyclic(n, E) <=> WellFounded(n, E)
BY AcyclicSound, AcyclicComplete

(***************************************************************************)
(* The builder.                                                            *)
(***************************************************************************)
\* SCHED.md 5.3 for every script: whatever calls come before, between and after,
\* the edges put a barrier after all nodes added before it and before all nodes
\* added after it (add_node, ccw_sched_barrier).
THEOREM BarriersOrderAll == SSpec => []BarriersComplete
<1>1. SInit => SInv
  <2> SUFFICES ASSUME SInit PROVE SInv
    OBVIOUS
  <2>1. nodes \in Seq({}) /\ DOMAIN nodes = {}
    BY DEF SInit
  <2>2. QED
    BY <2>1 DEF SInv, IsSequence, BarriersComplete, Barriers
<1>2. SInv /\ [SNext]_svars => SInv'
  BY NextSInv
<1>3. SInv => BarriersComplete
  BY DEF SInv
<1>4. QED
  BY <1>1, <1>2, <1>3, PTL DEF SSpec

\* The lines of a plan are as many as its nodes.
LEMMA PlanTextLength ==
  ASSUME IsSequence
  PROVE  /\ Len(nodes) \in Nat /\ Len(PlanText.lines) = Len(nodes)
         /\ DOMAIN PlanText.lines = 1..Len(nodes)
         /\ PlanText.edges = edges
<1>1. PICK T : nodes \in Seq(T)
  BY DEF IsSequence
<1>2. Len(nodes) \in Nat /\ DOMAIN nodes = 1..Len(nodes)
  BY <1>1, LenProperties
<1> DEFINE n == Len(nodes)
           line(i) == [kind |-> nodes[i].kind, words |-> nodes[i].name \o nodes[i].members]
           L == {line(i) : i \in 1..n}
<1>3. PlanText.lines = [i \in 1..n |-> line(i)] /\ PlanText.edges = edges
  BY <1>2 DEF PlanText
<1> HIDE DEF line
<1>4. [i \in 1..n |-> line(i)] \in [1..n -> L]
  OBVIOUS
<1>5. PlanText.lines \in [1..n -> L]
  BY <1>3, <1>4
<1>6. Len(PlanText.lines) = n
  BY <1>2, <1>5, FunctionLength
<1>7. QED
  BY <1>2, <1>3, <1>5, <1>6

\* Every plan that seal returns is a partial order, whatever edges the script
\* added, over barriers or around circles (ccw_sched_seal).
THEOREM SealedPlansAreOrders == SSpec => []SealedIsOrder
<1> DEFINE Inv == SInv /\ SealedIsOrder
<1>1. SInit => Inv
  <2> SUFFICES ASSUME SInit PROVE Inv
    OBVIOUS
  <2>1. nodes \in Seq({}) /\ DOMAIN nodes = {} /\ text = NoPlan
    BY DEF SInit
  <2>2. QED
    BY <2>1 DEF SInv, IsSequence, BarriersComplete, Barriers, SealedIsOrder
<1>2. Inv /\ [SNext]_svars => Inv'
  <2> SUFFICES ASSUME SInv, SealedIsOrder, [SNext]_svars PROVE SealedIsOrder'
    BY NextSInv
  <2>1. CASE Seal
    <3>1. text' = PlanText /\ Acyclic(Len(nodes), edges)
      BY <2>1 DEF Seal
    <3>2. Len(nodes) \in Nat /\ Len(PlanText.lines) = Len(nodes) /\ PlanText.edges = edges
      BY PlanTextLength DEF SInv
    <3>3. WellFounded(Len(nodes), edges)
      BY <3>1, <3>2, AcyclicSound
    <3>4. QED
      BY <3>1, <3>2, <3>3 DEF SealedIsOrder
  <2>2. CASE UNCHANGED text
    BY <2>2 DEF SealedIsOrder
  <2>3. QED
    BY <2>1, <2>2 DEF SNext, svars, RequireKernel, RequireCapability, Rewrite, Barrier,
                      AddNode, Edge
<1>3. QED
  BY <1>1, <1>2, PTL DEF SSpec

(***************************************************************************)
(* The text of a plan.                                                     *)
(***************************************************************************)
\* The edges stay in the plan that is being built.
EdgesInPlan == edges \subseteq (1..Len(nodes)) \X (1..Len(nodes))

\* A new node brings edges between nodes of the plan only.
LEMMA AddNodeEdges ==
  ASSUME SInv, EdgesInPlan, NEW k, NEW nm, NEW members, AddNode(k, nm, members)
  PROVE  EdgesInPlan'
<1> DEFINE r == [kind |-> k, name |-> nm, members |-> members]
<1>1. PICK T : nodes \in Seq(T)
  BY DEF SInv, IsSequence
<1>2. nodes' = Append(nodes, r)
  BY DEF AddNode
<1>3. edges' = edges \cup (IF k = "barrier" THEN 1..Len(nodes) ELSE Barriers)
                           \X {Len(nodes) + 1}
  BY DEF AddNode
<1> HIDE DEF r
<1>4. Len(nodes) \in Nat /\ Len(nodes') = Len(nodes) + 1 /\ DOMAIN nodes = 1..Len(nodes)
  BY <1>1, <1>2, AppendNode, LenProperties
<1>5. Barriers \subseteq 1..Len(nodes)
  BY <1>4 DEF Barriers
<1> DEFINE n == Len(nodes)
           B == IF k = "barrier" THEN 1..n ELSE Barriers
<1>6. B \subseteq 1..n /\ n \in Nat /\ edges' = edges \cup B \X {n + 1}
  BY <1>3, <1>4, <1>5
<1>7. edges \subseteq (1..n) \X (1..n) /\ Len(nodes') = n + 1
  BY <1>4 DEF EdgesInPlan
<1> HIDE DEF n, B
<1>8. edges' \subseteq (1..(n + 1)) \X (1..(n + 1))
  <2>1. B \X {n + 1} \subseteq (1..(n + 1)) \X (1..(n + 1))
    <3>1. B \subseteq 1..(n + 1) /\ {n + 1} \subseteq 1..(n + 1)
      BY <1>6
    <3>2. QED
      BY <3>1
  <2>2. edges \subseteq (1..(n + 1)) \X (1..(n + 1))
    BY <1>6, <1>7
  <2>3. QED
    BY <1>6, <2>1, <2>2
<1>9. QED
  BY <1>7, <1>8 DEF EdgesInPlan

Record == [kind : NodeKinds, name : Seq(STRING), members : Seq(STRING)]

\* What the calls that add a node let through: an entry of Kernel.yaml, a pattern of
\* one word with the rulesets that it matched, a barrier.
WellNamed(r) ==
  /\ r.kind = "kernel" =>
       /\ r.name # <<>>
       /\ \E k \in DOMAIN KernelManifest :
            KernelManifest[k].name = r.name /\ KernelManifest[k].caps = r.members
  /\ r.kind = "rewrite" =>
       Len(r.name) = 1 /\ r.members # <<>> /\ ToSet(r.members) \subseteq ToSet(Rulesets)
  /\ r.kind = "barrier" => r.members = <<>>

Typed ==
  /\ nodes \in Seq(Record) /\ Len(nodes) <= MaxPlan
  /\ \A i \in DOMAIN nodes : WellNamed(nodes[i])
  /\ sealed \in BOOLEAN
  /\ pipeline \in Seq(STRING)

\* Nothing changes after seal: the text still says what the tables say.
TextIsPlan == text # NoPlan => sealed /\ text = PlanText

BuilderInv == SInv /\ EdgesInPlan /\ Typed /\ TextIsPlan

\* The rulesets that a pattern matches are a sequence of names.  As for RoundsExist,
\* the least i up to which the loop had no value, or no sequence, is contradictory.
LEMMA MatchesExist ==
  ASSUME NEW pattern
  PROVE  \E f : f = [i \in 0..Len(Rulesets) |->
                       IF i = 0 THEN <<>>
                       ELSE IF <<pattern, Rulesets[i]>> \in Wildcard
                       THEN Append(f[i - 1], Rulesets[i])
                       ELSE f[i - 1]]
<1> DEFINE Next1(i, x) == IF <<pattern, Rulesets[i]>> \in Wildcard
                          THEN Append(x, Rulesets[i]) ELSE x
           Rec(k, f) == f = [i \in 0..k |-> IF i = 0 THEN <<>> ELSE Next1(i, f[i - 1])]
           Bad == {k \in Nat : ~ \E f : Rec(k, f)}
<1> HIDE DEF Next1
<1>0. Len(Rulesets) \in Nat
  BY SchedAssumption, LenProperties
<1>1. SUFFICES ASSUME Bad # {} PROVE FALSE
  BY <1>0 DEF Next1
<1>2. PICK k \in Bad : \A l \in Bad : k <= l
  <2>1. Bad \subseteq Nat
    OBVIOUS
  <2> HIDE DEF Bad
  <2>2. QED
    BY <1>1, <2>1, LeastNatural
<1>3. k # 0
  <2> DEFINE g == [r \in 0..0 |-> <<>>]
  <2>1. Rec(0, g)
    OBVIOUS
  <2>2. QED
    BY <2>1
<1>4. k - 1 \in Nat /\ k - 1 \notin Bad
  <2>1. k \in Nat
    OBVIOUS
  <2> HIDE DEF Bad
  <2>2. QED
    BY <2>1, <1>2, <1>3
<1>5. PICK f : Rec(k - 1, f)
  BY <1>4
<1> DEFINE h == [r \in 0..k |-> IF r = k THEN Next1(k, f[k - 1]) ELSE f[r]]
<1>6. ASSUME NEW r \in 0..k
      PROVE  h[r] = IF r = 0 THEN <<>> ELSE Next1(r, h[r - 1])
  <2>1. CASE r = k
    BY <2>1, <1>3, <1>4
  <2>2. CASE r # k
    <3>1. r \in 0..(k - 1) /\ (r # 0 => r - 1 \in 0..(k - 1) /\ r - 1 # k)
      BY <2>2, <1>4
    <3>2. f[r] = IF r = 0 THEN <<>> ELSE Next1(r, f[r - 1])
      BY <3>1, <1>5
    <3>3. QED
      BY <2>2, <3>1, <3>2
  <2>3. QED
    BY <2>1, <2>2
<1>7. Rec(k, h)
  BY <1>6
<1>8. QED
  BY <1>2, <1>7

LEMMA MatchedSequence ==
  ASSUME NEW pattern
  PROVE  /\ MatchedRulesets(pattern) \in Seq(STRING)
         /\ ToSet(MatchedRulesets(pattern)) \subseteq ToSet(Rulesets)
         /\ MatchedRulesets(pattern) # <<>> => Len(pattern) = 1
<1> DEFINE n == Len(Rulesets)
           Next1(i, x) == IF <<pattern, Rulesets[i]>> \in Wildcard
                          THEN Append(x, Rulesets[i]) ELSE x
           Rec(f) == f = [i \in 0..n |-> IF i = 0 THEN <<>>
                            ELSE IF <<pattern, Rulesets[i]>> \in Wildcard
                            THEN Append(f[i - 1], Rulesets[i])
                            ELSE f[i - 1]]
           t == CHOOSE f : Rec(f)
           Good(x) == /\ x \in Seq(STRING) /\ ToSet(x) \subseteq ToSet(Rulesets)
                      /\ x # <<>> => Len(pattern) = 1
           Bad == {i \in 0..n : ~Good(t[i])}
<1>1. Rec(t)
  <2>1. \E f : Rec(f)
    BY MatchesExist
  <2> HIDE DEF Rec
  <2>2. QED
    BY <2>1, Zenon
<1>2. MatchedRulesets(pattern) = t[n]
  BY Zenon DEF MatchedRulesets
<1>3. n \in Nat /\ \A i \in 1..n : Rulesets[i] \in STRING
  BY SchedAssumption, LenProperties, ElementOfSeq
<1>4. t[0] = <<>> /\ \A i \in 1..n : t[i] = Next1(i, t[i - 1])
  <2>1. t = [i \in 0..n |-> IF i = 0 THEN <<>> ELSE Next1(i, t[i - 1])]
    BY <1>1
  <2> HIDE DEF t, n, Next1
  <2>2. QED
    BY <2>1, <1>3
<1> HIDE DEF t, n
<1>5. ASSUME NEW x, Good(x), NEW i \in 1..n PROVE Good(Next1(i, x))
  <2>1. CASE <<pattern, Rulesets[i]>> \in Wildcard
    <3>1. Len(pattern) = 1 /\ Rulesets[i] \in STRING /\ Rulesets[i] \in ToSet(Rulesets)
      <4>1. DOMAIN Rulesets = 1..n
        BY SchedAssumption, LenProperties DEF n
      <4>2. QED
        BY <1>3, <2>1, <4>1, SchedAssumption DEF ToSet
    <3>2. Append(x, Rulesets[i]) \in Seq(STRING)
      BY <1>5, <3>1, AppendProperties
    <3>3. ToSet(Append(x, Rulesets[i])) \subseteq ToSet(Rulesets)
      <4> DEFINE e == Rulesets[i]
      <4>1. /\ Len(x) \in Nat /\ DOMAIN x = 1..Len(x)
            /\ DOMAIN Append(x, e) = 1..(Len(x) + 1)
            /\ \A k \in 1..Len(x) : Append(x, e)[k] = x[k]
            /\ Append(x, e)[Len(x) + 1] = e
        BY <1>5, <3>1, AppendFacts
      <4>2. ToSet(x) = {x[k] : k \in 1..Len(x)}
        BY <4>1 DEF ToSet
      <4> DEFINE y == Append(x, e)
                 c == Len(x)
      <4>3. /\ c \in Nat /\ DOMAIN y = 1..(c + 1)
            /\ \A k \in 1..c : y[k] \in ToSet(Rulesets)
            /\ y[c + 1] \in ToSet(Rulesets)
        BY <4>1, <4>2, <3>1, <1>5
      <4> HIDE DEF y, c
      <4>4. \A k \in 1..(c + 1) : y[k] \in ToSet(Rulesets)
        <5> SUFFICES ASSUME NEW k \in 1..(c + 1), k # c + 1 PROVE k \in 1..c
          BY <4>3
        <5>1. QED
          BY <4>3
      <4>5. ToSet(y) \subseteq ToSet(Rulesets)
        BY <4>3, <4>4 DEF ToSet
      <4>6. QED
        BY <4>5 DEF y
    <3>4. QED
      BY <2>1, <3>1, <3>2, <3>3
  <2>2. CASE <<pattern, Rulesets[i]>> \notin Wildcard
    BY <2>2, <1>5
  <2>3. QED
    BY <2>1, <2>2
<1> HIDE DEF Next1
<1>6. Good(t[0])
  BY <1>4 DEF ToSet
<1> HIDE DEF Good
<1>7. Bad = {}
  <2> SUFFICES ASSUME Bad # {} PROVE FALSE
    OBVIOUS
  <2>1. PICK i \in Bad : \A j \in Bad : i <= j
    <3>1. Bad \subseteq Nat
      BY <1>3
    <3> HIDE DEF Bad
    <3>2. QED
      BY <3>1, LeastNatural
  <2>2. i \in 1..n /\ i - 1 \in 0..n /\ i - 1 \notin Bad
    <3>1. i \in 0..n /\ i # 0
      BY <1>6
    <3> HIDE DEF Bad
    <3>2. QED
      BY <3>1, <2>1, <1>3
  <2>3. QED
    BY <2>2, <1>4, <1>5
<1>8. Good(t[n])
  BY <1>3, <1>7
<1>9. QED
  BY <1>2, <1>8 DEF Good

\* A node that the calls may add keeps the types.
LEMMA AddNodeTyped ==
  ASSUME Typed, NEW k, NEW nm, NEW members, AddNode(k, nm, members),
         [kind |-> k, name |-> nm, members |-> members] \in Record,
         WellNamed([kind |-> k, name |-> nm, members |-> members])
  PROVE  Typed'
<1> DEFINE r == [kind |-> k, name |-> nm, members |-> members]
<1>1. /\ nodes' = Append(nodes, r) /\ Len(nodes) + 1 <= MaxPlan
      /\ sealed' = sealed /\ pipeline' = pipeline
  BY DEF AddNode
<1>2. nodes \in Seq(Record) /\ r \in Record /\ WellNamed(r)
  BY DEF Typed
<1>3. \A i \in DOMAIN nodes : WellNamed(nodes[i])
  BY DEF Typed
<1> HIDE DEF r
<1>4. nodes' \in Seq(Record)
  BY <1>1, <1>2, AppendFacts
<1>5. /\ Len(nodes) \in Nat /\ DOMAIN nodes = 1..Len(nodes) /\ Len(nodes') = Len(nodes) + 1
      /\ DOMAIN nodes' = 1..(Len(nodes) + 1)
      /\ \A i \in 1..Len(nodes) : nodes'[i] = nodes[i]
      /\ nodes'[Len(nodes) + 1] = r
  BY <1>1, <1>2, AppendFacts
<1>6. ASSUME NEW i \in DOMAIN nodes' PROVE WellNamed(nodes'[i])
  <2>1. CASE i = Len(nodes) + 1
    BY <2>1, <1>2, <1>5
  <2>2. CASE i # Len(nodes) + 1
    BY <2>2, <1>3, <1>5
  <2>3. QED
    BY <2>1, <2>2
<1>7. QED
  BY <1>1, <1>4, <1>5, <1>6 DEF Typed

\* The entries of Kernel.yaml are nodes that may be added.
LEMMA KernelRecord ==
  ASSUME NEW i \in DOMAIN KernelManifest
  PROVE  LET r == [kind |-> "kernel", name |-> KernelManifest[i].name,
                   members |-> KernelManifest[i].caps]
         IN r \in Record /\ WellNamed(r)
<1> DEFINE E == [name : Seq(STRING) \ {<<>>}, caps : Seq(STRING)]
           e == KernelManifest[i]
<1>1. KernelManifest \in Seq(E)
  BY SchedAssumption
<1> HIDE DEF E
<1>2. e \in E
  <2>1. i \in 1..Len(KernelManifest)
    BY <1>1, LenProperties
  <2>2. QED
    BY <1>1, <2>1, ElementOfSeq
<1> HIDE DEF e
<1>3. e.name \in Seq(STRING) /\ e.name # <<>> /\ e.caps \in Seq(STRING)
  BY <1>2 DEF E
<1>4. QED
  BY <1>3 DEF e, Record, WellNamed, NodeKinds

\* Every call that adds a node.
LEMMA NodeCalls ==
  ASSUME Typed, SNext, ~Seal, ~ \E a, b \in 1..MaxPlan : Edge(a, b)
  PROVE  Typed'
<1>1. ASSUME NEW nm, RequireKernel(nm) PROVE Typed'
  <2> DEFINE I == {i \in 1..Len(KernelManifest) : KernelManifest[i].name = nm}
             k == KernelByName(nm)
  <2>1. k = (IF I # {} THEN Min(I) ELSE 0) /\ k # 0
            /\ AddNode("kernel", nm, KernelManifest[k].caps)
    BY <1>1 DEF RequireKernel, KernelByName, SelectInSeq
  <2>2. I \subseteq Nat /\ I # {}
    <3>1. Len(KernelManifest) \in Nat
      BY SchedAssumption, LenProperties
    <3>2. QED
      BY <2>1, <3>1
  <2> HIDE DEF I, k
  <2>3. Min(I) \in I
    BY <2>2, LeastNatural DEF Min
  <2>4. k \in 1..Len(KernelManifest) /\ KernelManifest[k].name = nm
    BY <2>1, <2>2, <2>3 DEF I
  <2>5. k \in DOMAIN KernelManifest
    BY <2>4, SchedAssumption, LenProperties
  <2>6. QED
    BY <2>1, <2>4, <2>5, KernelRecord, AddNodeTyped
<1>2. ASSUME NEW cap, NEW prefer, RequireCapability(cap, prefer) PROVE Typed'
  <2>1. PICK k \in Chosen(cap, prefer) :
          AddNode("kernel", KernelManifest[k].name, KernelManifest[k].caps)
    BY <1>2 DEF RequireCapability
  <2>2. k \in DOMAIN KernelManifest
    BY DEF Chosen, Providers
  <2>3. QED
    BY <2>1, <2>2, KernelRecord, AddNodeTyped
<1>3. ASSUME NEW pattern \in Patterns, Rewrite(pattern) PROVE Typed'
  <2> DEFINE ms == MatchedRulesets(pattern)
  <2>1. ms # <<>> /\ AddNode("rewrite", pattern, ms)
    BY <1>3 DEF Rewrite
  <2>2. ms \in Seq(STRING) /\ Len(pattern) = 1 /\ ToSet(ms) \subseteq ToSet(Rulesets)
    BY <2>1, MatchedSequence
  <2>3. pattern \in Seq(STRING)
    BY SchedAssumption
  <2> HIDE DEF ms
  <2>4. /\ [kind |-> "rewrite", name |-> pattern, members |-> ms] \in Record
        /\ WellNamed([kind |-> "rewrite", name |-> pattern, members |-> ms])
    BY <2>1, <2>2, <2>3 DEF Record, WellNamed, NodeKinds
  <2>5. QED
    BY <2>1, <2>4, AddNodeTyped
<1>4. ASSUME NEW label \in Labels, Barrier(label) PROVE Typed'
  <2>1. AddNode("barrier", label, <<>>)
    BY <1>4 DEF Barrier
  <2>2. label \in Seq(STRING) /\ <<>> \in Seq(STRING)
    BY SchedAssumption
  <2>3. /\ [kind |-> "barrier", name |-> label, members |-> <<>>] \in Record
        /\ WellNamed([kind |-> "barrier", name |-> label, members |-> <<>>])
    BY <2>2 DEF Record, WellNamed, NodeKinds
  <2>4. QED
    BY <2>1, <2>3, AddNodeTyped
<1>5. QED
  BY <1>1, <1>2, <1>3, <1>4 DEF SNext

\* No call changes what seal returned, nor the tables afterwards.
LEMMA NextTextIsPlan ==
  ASSUME TextIsPlan, [SNext]_svars
  PROVE  TextIsPlan'
<1>1. CASE Seal
  <2>1. text' = PlanText /\ sealed' /\ PlanText' = PlanText
    BY <1>1 DEF Seal, PlanText
  <2>2. QED
    BY <2>1 DEF TextIsPlan
<1>2. CASE ~sealed /\ UNCHANGED text
  BY <1>2 DEF TextIsPlan
<1>3. CASE UNCHANGED svars
  <2>1. PlanText' = PlanText /\ sealed' = sealed /\ text' = text
    BY <1>3 DEF PlanText, svars
  <2>2. QED
    BY <2>1 DEF TextIsPlan
<1>4. QED
  BY <1>1, <1>2, <1>3 DEF SNext, RequireKernel, RequireCapability, Rewrite, Barrier,
                          AddNode, Edge

\* The edges stay in the plan.
LEMMA NextEdgesInPlan ==
  ASSUME SInv, EdgesInPlan, [SNext]_svars
  PROVE  EdgesInPlan'
<1>1. CASE \E k, nm, members : AddNode(k, nm, members)
  BY <1>1, AddNodeEdges
<1>2. CASE \E a, b \in 1..MaxPlan : Edge(a, b)
  <2>1. PICK T : nodes \in Seq(T)
    BY DEF SInv, IsSequence
  <2>2. DOMAIN nodes = 1..Len(nodes)
    BY <2>1, LenProperties
  <2>3. QED
    BY <1>2, <2>2 DEF Edge, EdgesInPlan
<1>3. CASE Seal \/ UNCHANGED svars
  BY <1>3 DEF Seal, svars, EdgesInPlan
<1>4. QED
  BY <1>1, <1>2, <1>3 DEF SNext, RequireKernel, RequireCapability, Rewrite, Barrier

LEMMA NextBuilderInv ==
  ASSUME BuilderInv, [SNext]_svars
  PROVE  BuilderInv'
<1>1. SInv' /\ EdgesInPlan' /\ TextIsPlan'
  BY NextSInv, NextEdgesInPlan, NextTextIsPlan DEF BuilderInv
<1>2. Typed'
  <2>1. CASE Seal \/ (\E a, b \in 1..MaxPlan : Edge(a, b)) \/ UNCHANGED svars
    <3>1. UNCHANGED <<nodes, pipeline>> /\ sealed' \in BOOLEAN
      BY <2>1 DEF Seal, Edge, svars, BuilderInv, Typed
    <3>2. QED
      BY <3>1 DEF BuilderInv, Typed
  <2>2. CASE SNext /\ ~Seal /\ ~(\E a, b \in 1..MaxPlan : Edge(a, b))
    BY <2>2, NodeCalls DEF BuilderInv
  <2>3. QED
    BY <2>1, <2>2
<1>3. QED
  BY <1>1, <1>2 DEF BuilderInv

LEMMA InitBuilderInv ==
  ASSUME SInit
  PROVE  BuilderInv
<1>1. /\ nodes = <<>> /\ DOMAIN nodes = {} /\ Len(nodes) = 0 /\ nodes \in Seq({})
      /\ edges = {} /\ sealed = FALSE /\ text = NoPlan /\ pipeline \in Seq(STRING)
  BY SchedAssumption DEF SInit
<1>2. SInv /\ EdgesInPlan /\ TextIsPlan
  BY <1>1 DEF SInv, IsSequence, BarriersComplete, Barriers, EdgesInPlan, TextIsPlan
<1>3. <<>> \in Seq(Record)
  OBVIOUS
<1>4. nodes \in Seq(Record) /\ Len(nodes) <= MaxPlan
  BY <1>1, <1>3, SchedAssumption
<1>5. \A i \in DOMAIN nodes : WellNamed(nodes[i])
  BY <1>1
<1>6. Typed
  BY <1>1, <1>4, <1>5 DEF Typed
<1>7. QED
  BY <1>2, <1>6 DEF BuilderInv

\* The words of a line: the name and then the members.
LEMMA LineWords ==
  ASSUME NEW s \in Seq(STRING), NEW t \in Seq(STRING)
  PROVE  /\ s \o t \in Seq(STRING)
         /\ s # <<>> => s \o t # <<>>
         /\ s # <<>> /\ t # <<>> => Tail(s \o t) # <<>>
         /\ t = <<>> => s \o t = s
         /\ Len(s) = 1 => <<Head(s \o t)>> = s /\ Tail(s \o t) = t
<1> DEFINE w == s \o t
<1>1. /\ w \in Seq(STRING) /\ Len(w) = Len(s) + Len(t)
      /\ Len(s) \in Nat /\ Len(t) \in Nat
      /\ \A i \in 1..Len(s) : w[i] = s[i]
      /\ \A i \in 1..Len(t) : w[Len(s) + i] = t[i]
  <2> DEFINE a == Len(s)
             b == Len(t)
  <2>1. w \in Seq(STRING) /\ Len(w) = a + b /\ a \in Nat /\ b \in Nat
    BY ConcatProperties, LenProperties
  <2>2. \A i \in 1..Len(w) : w[i] = IF i <= a THEN s[i] ELSE t[i - a]
    BY ConcatProperties
  <2> HIDE DEF w, a, b
  <2>3. \A i \in 1..a : i \in 1..(a + b) /\ i <= a
    BY <2>1
  <2>4. \A i \in 1..b : a + i \in 1..(a + b) /\ ~(a + i <= a) /\ (a + i) - a = i
    BY <2>1
  <2>5. (\A i \in 1..a : w[i] = s[i]) /\ (\A i \in 1..b : w[a + i] = t[i])
    BY <2>1, <2>2, <2>3, <2>4
  <2>6. QED
    BY <2>1, <2>5 DEF a, b
<1>2. (s = <<>> <=> Len(s) = 0) /\ (t = <<>> <=> Len(t) = 0) /\ (w = <<>> <=> Len(w) = 0)
  BY <1>1, EmptySeq
<1>3. t = <<>> => w = s
  BY ConcatEmptySeq
<1>4. w # <<>> => /\ Head(w) = w[1] /\ Tail(w) \in Seq(STRING) /\ Len(Tail(w)) = Len(w) - 1
                  /\ \A i \in 1..Len(Tail(w)) : Tail(w)[i] = w[i + 1]
  BY <1>1, HeadTailProperties
<1>5. w # <<>> => (Tail(w) = <<>> <=> Len(w) = 1)
  BY <1>1, <1>4, EmptySeq
<1> HIDE DEF w
<1>6. ASSUME Len(s) = 1 PROVE <<Head(w)>> = s /\ Tail(w) = t
  <2>1. w # <<>> /\ w[1] = s[1] /\ Len(Tail(w)) = Len(t)
    BY <1>1, <1>2, <1>4, <1>6
  <2>2. <<s[1]>> = s
    BY <1>6
  <2>3. \A i \in 1..Len(t) : Tail(w)[i] = t[i]
    BY <1>1, <1>4, <1>6, <2>1
  <2>4. Tail(w) = t
    BY <1>4, <2>1, <2>3, SeqEqual
  <2>5. QED
    BY <1>4, <2>1, <2>2, <2>4
<1>7. QED
  BY <1>1, <1>2, <1>3, <1>5, <1>6 DEF w

\* What the text says of node i.
LEMMA TextLine ==
  ASSUME Typed, NEW i \in DOMAIN nodes
  PROVE  /\ nodes[i] \in Record /\ WellNamed(nodes[i])
         /\ DOMAIN PlanText.lines = DOMAIN nodes
         /\ PlanText.lines[i].kind = nodes[i].kind
         /\ PlanText.lines[i].words = nodes[i].name \o nodes[i].members
         /\ nodes[i].name \in Seq(STRING) /\ nodes[i].members \in Seq(STRING)
<1>1. nodes[i] \in Record
  <2>1. nodes \in Seq(Record)
    BY DEF Typed
  <2> HIDE DEF Record
  <2>2. i \in 1..Len(nodes)
    BY <2>1, LenProperties
  <2>3. QED
    BY <2>1, <2>2, ElementOfSeq
<1>2. WellNamed(nodes[i])
  BY DEF Typed
<1>3. /\ DOMAIN PlanText.lines = DOMAIN nodes
      /\ PlanText.lines[i].kind = nodes[i].kind
      /\ PlanText.lines[i].words = nodes[i].name \o nodes[i].members
  BY DEF PlanText
<1>4. nodes[i].name \in Seq(STRING) /\ nodes[i].members \in Seq(STRING)
  BY <1>1 DEF Record
<1>5. QED
  BY <1>1, <1>2, <1>3, <1>4

\* When the line of node i parses.
LineParses(i) ==
  /\ PlanText.lines[i].words # <<>>
  /\ PlanText.lines[i].kind = "rewrite" => Tail(PlanText.lines[i].words) # <<>>
  /\ PlanText.lines[i].kind = "barrier" => Tail(PlanText.lines[i].words) = <<>>

LEMMA WhenLineParses ==
  ASSUME Typed, NEW i \in DOMAIN nodes
  PROVE  LineParses(i) <=> (nodes[i].kind = "barrier" => Len(nodes[i].name) = 1)
<1> DEFINE s == nodes[i].name
           t == nodes[i].members
           w == PlanText.lines[i].words
           k == nodes[i].kind
<1>1. /\ w = s \o t /\ s \in Seq(STRING) /\ t \in Seq(STRING)
      /\ PlanText.lines[i].kind = k
      /\ (k # "barrier" => s # <<>>) /\ (k = "rewrite" => t # <<>>)
      /\ (k = "barrier" => t = <<>>)
  <2>1. /\ w = s \o t /\ s \in Seq(STRING) /\ t \in Seq(STRING)
        /\ PlanText.lines[i].kind = k
    BY TextLine
  <2>2. /\ k = "kernel" => s # <<>>
        /\ k = "rewrite" => Len(s) = 1 /\ t # <<>>
        /\ k = "barrier" => t = <<>>
        /\ k \in NodeKinds
    BY TextLine DEF WellNamed, Record
  <2> HIDE DEF s, t, w, k
  <2>3. Len(s) = 1 => s # <<>>
    BY <2>1
  <2>4. QED
    BY <2>1, <2>2, <2>3 DEF NodeKinds
<1>2. LineParses(i) <=> /\ w # <<>>
                        /\ k = "rewrite" => Tail(w) # <<>>
                        /\ k = "barrier" => Tail(w) = <<>>
  BY <1>1 DEF LineParses
<1> HIDE DEF s, t, w, k
<1>3. CASE k # "barrier"
  <2>1. w # <<>> /\ (k = "rewrite" => Tail(w) # <<>>)
    BY <1>1, <1>3, LineWords
  <2>2. QED
    BY <1>2, <1>3, <2>1 DEF k
<1>4. CASE k = "barrier"
  <2>1. w = s
    BY <1>1, <1>4, LineWords
  <2>2. Len(s) \in Nat /\ (s = <<>> <=> Len(s) = 0)
    BY <1>1, EmptySeq, LenProperties
  <2>3. s # <<>> => (Tail(s) = <<>> <=> Len(s) = 1)
    <3>1. s # <<>> => Tail(s) \in Seq(STRING) /\ Len(Tail(s)) = Len(s) - 1
      BY <1>1, HeadTailProperties
    <3>2. s # <<>> => (Tail(s) = <<>> <=> Len(Tail(s)) = 0)
      BY <3>1, EmptySeq
    <3> DEFINE a == Len(s)
               b == Len(Tail(s))
    <3>3. a \in Nat /\ (s # <<>> => b = a - 1) /\ (s # <<>> => (Tail(s) = <<>> <=> b = 0))
      BY <3>1, <3>2, <2>2
    <3> HIDE DEF a, b
    <3>4. s # <<>> => (Tail(s) = <<>> <=> a = 1)
      BY <3>3
    <3>5. QED
      BY <3>4 DEF a
  <2>4. LineParses(i) <=> Len(s) = 1
    <3>1. LineParses(i) <=> s # <<>> /\ Tail(s) = <<>>
      BY <1>2, <1>4, <2>1
    <3>2. CASE s = <<>>
      <4>1. Len(s) = 0 /\ ~LineParses(i)
        BY <3>1, <3>2, <2>2
      <4>2. QED
        BY <4>1
    <3>3. CASE s # <<>>
      BY <3>1, <3>3, <2>3
    <3>4. QED
      BY <3>2, <3>3
  <2>5. QED
    BY <1>4, <2>4 DEF s, k
<1>5. QED
  BY <1>3, <1>4 DEF s, k

\* seal wants a node that is no barrier.
LEMMA SealedText ==
  ASSUME BuilderInv, text # NoPlan, nodes # <<>>
  PROVE  SealedParses /\ RoundTrip
<1>1. text = PlanText
  BY DEF BuilderInv, TextIsPlan
<1>2. Typed /\ DOMAIN PlanText.lines = DOMAIN nodes /\ PlanText.lines # <<>>
      /\ PlanText.edges = edges /\ PlanText.name = pipeline
      /\ Len(nodes) \in Nat /\ DOMAIN nodes = 1..Len(nodes)
  <2>1. Typed /\ IsSequence /\ nodes \in Seq(Record)
    BY DEF BuilderInv, SInv, Typed
  <2>2. /\ Len(nodes) \in Nat /\ DOMAIN nodes = 1..Len(nodes) /\ Len(nodes) # 0
    BY <2>1, LenProperties, EmptySeq
  <2>3. Len(PlanText.lines) = Len(nodes) /\ DOMAIN PlanText.lines = 1..Len(nodes)
    BY <2>1, PlanTextLength
  <2>4. QED
    BY <2>1, <2>2, <2>3 DEF PlanText
<1>3. \A e \in edges : e[1] \in DOMAIN nodes /\ e[2] \in DOMAIN nodes
  BY <1>2 DEF BuilderInv, EdgesInPlan
<1>4. Parses(text) <=> Len(pipeline) = 1 /\ \A i \in DOMAIN nodes : LineParses(i)
  BY <1>1, <1>2, <1>3 DEF Parses, LineParses
<1>5. SealedParses
  BY <1>2, <1>4, WhenLineParses DEF SealedParses, Barriers
<1>6. DOMAIN ParsedNodes(text) = DOMAIN nodes
  BY <1>1, <1>2 DEF ParsedNodes
<1>7. ASSUME NEW i \in DOMAIN nodes, Len(nodes[i].name) = 1
      PROVE  ParsedNodes(text)[i] = nodes[i]
  <2> DEFINE s == nodes[i].name
             t == nodes[i].members
  <2>1. /\ nodes[i] \in Record /\ s \in Seq(STRING) /\ t \in Seq(STRING)
        /\ PlanText.lines[i].kind = nodes[i].kind /\ PlanText.lines[i].words = s \o t
    BY <1>2, TextLine
  <2>2. <<Head(s \o t)>> = s /\ Tail(s \o t) = t
    BY <1>7, <2>1, LineWords
  <2>3. ParsedNodes(text)[i] = [kind |-> nodes[i].kind, name |-> <<Head(s \o t)>>,
                                members |-> Tail(s \o t)]
    BY <1>1, <1>2, <2>1 DEF ParsedNodes
  <2>4. nodes[i] = [kind |-> nodes[i].kind, name |-> s, members |-> t]
    BY <2>1 DEF Record
  <2>5. QED
    BY <2>2, <2>3, <2>4
<1>8. RoundTrip
  BY <1>1, <1>2, <1>6, <1>7 DEF RoundTrip
<1>9. QED
  BY <1>5, <1>8

\* Something was sealed.
SealedSomething == text # NoPlan => nodes # <<>>

LEMMA SoundFromInv ==
  ASSUME BuilderInv, SealedIsOrder, SealedSomething
  PROVE  PlanSound
<1>1. BarriersComplete
  BY DEF BuilderInv, SInv
<1>2. SchedTypeOK
  BY DEF BuilderInv, Typed, EdgesInPlan, SchedTypeOK, Record
<1>3. SealedParses /\ RoundTrip
  <2>1. CASE text # NoPlan
    BY <2>1, SealedText DEF SealedSomething
  <2>2. CASE text = NoPlan
    BY <2>2 DEF SealedParses, RoundTrip
  <2>3. QED
    BY <2>1, <2>2
<1>4. QED
  BY <1>1, <1>2, <1>3 DEF PlanSound

LEMMA NextSealedSomething ==
  ASSUME BuilderInv, SealedSomething, [SNext]_svars
  PROVE  SealedSomething'
<1>1. CASE Seal
  BY <1>1 DEF Seal, SealedSomething
<1>2. CASE ~sealed /\ UNCHANGED text
  <2>1. text = NoPlan
    BY <1>2 DEF BuilderInv, TextIsPlan
  <2>2. QED
    BY <1>2, <2>1 DEF SealedSomething
<1>3. CASE UNCHANGED svars
  BY <1>3 DEF svars, SealedSomething
<1>4. QED
  BY <1>1, <1>2, <1>3 DEF SNext, RequireKernel, RequireCapability, Rewrite, Barrier,
                          AddNode, Edge

\* For plans of any length over any manifests: barriers divide every plan, every plan
\* that seal returns is a partial order, the host refuses it exactly for a blank in
\* the name of the pipeline or of a barrier, and reads back the nodes that were sealed
\* (add_node, ccw_sched_barrier, ccw_sched_seal, parse_plan_text).
THEOREM PlansAreSound == SSpec => []PlanSound
<1> DEFINE Inv == BuilderInv /\ SealedSomething
<1>1. SInit => Inv
  BY InitBuilderInv DEF SInit, SealedSomething
<1>2. Inv /\ [SNext]_svars => Inv'
  BY NextBuilderInv, NextSealedSomething
<1>3. Inv /\ SealedIsOrder => PlanSound
  BY SoundFromInv
<1>4. QED
  BY <1>1, <1>2, <1>3, SealedPlansAreOrders, PTL DEF SSpec

----------------------------------------------------------------------------
(* The execution.  Each pass implements PlanOrder, for any plan, failures   *)
(* and manifests.                                                           *)
\* The inductive invariant: a pass has finished with nodes of the plan only.
RInv == /\ Len(plan.nodes) \in Nat
        /\ done \in [Passes -> SUBSET Nodes]

\* The lowest ready node is a ready node.
LEMMA SelectedReady ==
  ASSUME RInv, Ready # {}
  PROVE  Selected \in Ready
<1>1. Ready \subseteq Nat
  BY DEF Ready, Nodes, RInv
<1> DEFINE R == Ready
<1>2. R \subseteq Nat /\ R # {}
  BY <1>1
<1> HIDE DEF R
<1>3. \E x \in R : \A y \in R : x <= y
  BY <1>2, LeastNatural
<1>4. Min(R) \in R
  BY <1>3 DEF Min
<1>5. QED
  BY <1>4 DEF R, Selected

\* The same after a step.
LEMMA SelectedReadyNext == (RInv /\ Ready # {} => Selected \in Ready)'
<1>1. RInv /\ Ready # {} => Selected \in Ready
  BY SelectedReady
<1>2. QED
  BY <1>1, PTL

\* A node that is finished with was ready, in its own pass.
LEMMA MarkDoneStep ==
  ASSUME RInv, pass \in Passes, Ready # {}, MarkDone
  PROVE  /\ RInv'
         /\ UNCHANGED plan
         /\ Selected \in Nodes /\ Selected \notin done[pass]
         /\ \A e \in plan.edges : e[2] = Selected => e[1] \in done[pass]
         /\ done'[pass] = done[pass] \cup {Selected}
         /\ \A p \in Passes : p # pass => done'[p] = done[p]
<1>1. Selected \in Ready
  BY SelectedReady
<1>2. done' = [done EXCEPT ![pass] = @ \cup {Selected}] /\ UNCHANGED plan
  BY DEF MarkDone
<1> DEFINE s == Selected
<1>3. s \in Nodes /\ s \notin done[pass] /\ \A e \in plan.edges : e[2] = s => e[1] \in done[pass]
  BY <1>1 DEF Ready
<1> HIDE DEF s
<1>4. done' = [done EXCEPT ![pass] = @ \cup {s}]
  BY <1>2 DEF s
<1>5. /\ done'[pass] = done[pass] \cup {s}
      /\ \A p \in Passes : p # pass => done'[p] = done[p]
      /\ done' \in [Passes -> SUBSET Nodes]
  BY <1>3, <1>4 DEF RInv
<1>6. RInv'
  BY <1>2, <1>5 DEF RInv, Nodes
<1>7. QED
  BY <1>2, <1>3, <1>5, <1>6 DEF s

\* The steps that finish with no node.
LEMMA OtherStep ==
  ASSUME [RNext]_rvars, ~(pass \in Passes /\ Ready # {} /\ MarkDone)
  PROVE  UNCHANGED <<plan, done>>
BY DEF RNext, rvars, Stuck, PassOver, Absent, Apply, ApplyFails, FinishNode,
       StartKernels, Return, Fail, Running, Working

\* The invariant is inductive.
LEMMA NextRInv ==
  ASSUME RInv, [RNext]_rvars
  PROVE  RInv'
<1>1. CASE pass \in Passes /\ Ready # {} /\ MarkDone
  BY <1>1, MarkDoneStep
<1>2. CASE ~(pass \in Passes /\ Ready # {} /\ MarkDone)
  <2>1. UNCHANGED <<plan, done>>
    BY <1>2, OtherStep
  <2>2. QED
    BY <2>1 DEF RInv, Nodes
<1>3. QED
  BY <1>1, <1>2

\* It holds when the driver starts the first pass.
LEMMA InitRInv ==
  ASSUME RInit
  PROVE  RInv
BY RunAssumption DEF RInit, RInv, Nodes, PlanShape

\* A step of the run is a step or a stutter of the rewrite pass.
LEMMA RewriteSimulation ==
  ASSUME RInv, [RNext]_rvars
  PROVE  [RewritePass!ONext]_(RewritePass!ovars)
<1>1. CASE pass = "rewrite" /\ Ready # {} /\ MarkDone
  <2>1. /\ UNCHANGED plan
        /\ Selected \in Nodes /\ Selected \notin done["rewrite"]
        /\ \A e \in plan.edges : e[2] = Selected => e[1] \in done["rewrite"]
        /\ done'["rewrite"] = done["rewrite"] \cup {Selected}
    BY <1>1, MarkDoneStep DEF Passes
  <2>2. RewritePass!Finish(Selected)
    BY <2>1 DEF RewritePass!Finish
  <2>3. QED
    BY <2>1, <2>2 DEF RewritePass!ONext, Nodes
<1>2. CASE ~(pass = "rewrite" /\ Ready # {} /\ MarkDone)
  <2>1. UNCHANGED <<plan, done["rewrite"]>>
    <3>1. CASE pass \in Passes /\ Ready # {} /\ MarkDone
      BY <3>1, <1>2, MarkDoneStep DEF Passes
    <3>2. CASE ~(pass \in Passes /\ Ready # {} /\ MarkDone)
      BY <3>2, OtherStep
    <3>3. QED
      BY <3>1, <3>2
  <2>2. QED
    BY <2>1 DEF RewritePass!ovars
<1>3. QED
  BY <1>1, <1>2

\* And of the kernel pass.
LEMMA KernelSimulation ==
  ASSUME RInv, [RNext]_rvars
  PROVE  [KernelPass!ONext]_(KernelPass!ovars)
<1>1. CASE pass = "kernel" /\ Ready # {} /\ MarkDone
  <2>1. /\ UNCHANGED plan
        /\ Selected \in Nodes /\ Selected \notin done["kernel"]
        /\ \A e \in plan.edges : e[2] = Selected => e[1] \in done["kernel"]
        /\ done'["kernel"] = done["kernel"] \cup {Selected}
    BY <1>1, MarkDoneStep DEF Passes
  <2>2. KernelPass!Finish(Selected)
    BY <2>1 DEF KernelPass!Finish
  <2>3. QED
    BY <2>1, <2>2 DEF KernelPass!ONext, Nodes
<1>2. CASE ~(pass = "kernel" /\ Ready # {} /\ MarkDone)
  <2>1. UNCHANGED <<plan, done["kernel"]>>
    <3>1. CASE pass \in Passes /\ Ready # {} /\ MarkDone
      BY <3>1, <1>2, MarkDoneStep DEF Passes
    <3>2. CASE ~(pass \in Passes /\ Ready # {} /\ MarkDone)
      BY <3>2, OtherStep
    <3>3. QED
      BY <3>1, <3>2
  <2>2. QED
    BY <2>1 DEF KernelPass!ovars
<1>3. QED
  BY <1>1, <1>2

\* ccw_plan_apply_rewrites finishes with the nodes of any plan in an order that
\* the edges allow, each once, whatever fails and whatever the manifests say.
THEOREM RewritePassRefines == RSpec => RewritePassIsOrder
<1>1. RInit => RewritePass!OInit
  BY DEF RInit, RewritePass!OInit, Passes
<1>2. RInit => RInv
  BY InitRInv
<1>3. RInv /\ [RNext]_rvars => RInv'
  BY NextRInv
<1>4. RInv /\ [RNext]_rvars => [RewritePass!ONext]_(RewritePass!ovars)
  BY RewriteSimulation
<1>5. QED
  BY <1>1, <1>2, <1>3, <1>4, PTL DEF RSpec, RewritePassIsOrder, RewritePass!OSpec

\* And so does ccw_plan_apply_kernels, which runs after it.
THEOREM KernelPassRefines == RSpec => KernelPassIsOrder
<1>1. RInit => KernelPass!OInit
  BY DEF RInit, KernelPass!OInit, Passes
<1>2. RInit => RInv
  BY InitRInv
<1>3. RInv /\ [RNext]_rvars => RInv'
  BY NextRInv
<1>4. RInv /\ [RNext]_rvars => [KernelPass!ONext]_(KernelPass!ovars)
  BY KernelSimulation
<1>5. QED
  BY <1>1, <1>2, <1>3, <1>4, PTL DEF RSpec, KernelPassIsOrder, KernelPass!OSpec

\* Both functions that execute a plan implement PlanOrder.
THEOREM PassesRefine == RSpec => PassesAreOrders
BY RewritePassRefines, KernelPassRefines DEF PassesAreOrders

(***************************************************************************)
(* What a run has applied.  The history is related to the sets of finished *)
(* nodes: HInv is inductive, and gives the order of the work and that all  *)
(* of it is done.                                                          *)
(***************************************************************************)
Kind(i) == plan.nodes[i].kind
Size(i) == Len(plan.nodes[i].members)

\* Applications are of members of the plan, none twice.
HistoryOK ==
  /\ ran \in Seq(Nat \X Nat)
  /\ \A k \in DOMAIN ran :
       /\ ran[k][1] \in Nodes /\ Kind(ran[k][1]) \in Passes
       /\ ran[k][2] \in 1..Size(ran[k][1])
  /\ \A k, l \in DOMAIN ran : ran[k] = ran[l] => k = l

HasRun(i, c) == \E k \in DOMAIN ran : ran[k] = <<i, c>>

\* A node that its pass has finished with has run completely.
DoneApplied ==
  \A i \in Nodes : Kind(i) \in Passes /\ i \in done[Kind(i)] =>
    \A c \in 1..Size(i) : HasRun(i, c)

\* While a pass runs, what has run is finished with, or is one of the first m
\* members of the selected node, which ran last.
InProgress ==
  pass \in Passes =>
    /\ m \in Nat
    /\ ~Working => m = 0
    /\ \A k \in DOMAIN ran :
         \/ ran[k][1] \in done[Kind(ran[k][1])]
         \/ Working /\ ran[k][1] = Selected /\ ran[k][2] <= m
    /\ Working =>
         /\ m <= Size(Selected)
         /\ \A c \in 1..m : HasRun(Selected, c)
         /\ \A k, l \in DOMAIN ran :
              k < l /\ ran[k][1] = Selected => ran[l][1] = Selected

\* A pass that is over has finished with every node.
PassesOver ==
  /\ pass = "kernel" => done["rewrite"] = Nodes
  /\ pass = "done" => \A p \in Passes : done[p] = Nodes

\* The predecessors of a finished node are finished with.
DownClosed ==
  \A p \in Passes : \A e \in plan.edges : e[2] \in done[p] => e[1] \in done[p]

\* A node that has run finds its predecessors of its kind finished with, and ran
\* after them.
OrderKept ==
  \A a, b \in Nodes : Precedes(a, b) /\ Kind(a) = Kind(b) =>
    \A l \in DOMAIN ran : ran[l][1] = b =>
      a \in done[Kind(a)] /\ \A k \in DOMAIN ran : ran[k][1] = a => k < l

HInv == /\ RInv /\ PlanShape(plan) /\ pass \in Passes \cup {"idle", "done", "failed"}
        /\ HistoryOK /\ DoneApplied /\ InProgress /\ PassesOver
        /\ DownClosed /\ OrderKept

\* The predecessors of a member of a set that the edges do not enter from outside
\* are in the set.
LEMMA PrecedesClosed ==
  ASSUME PlanShape(plan), NEW D \in SUBSET Nodes,
         \A e \in plan.edges : e[2] \in D => e[1] \in D,
         NEW a \in Nodes, NEW b \in D, Precedes(a, b)
  PROVE  a \in D
<1> SUFFICES ASSUME a \notin D PROVE FALSE
  OBVIOUS
<1> DEFINE S == Nodes \ D
<1>1. ASSUME NEW e \in plan.edges, e[1] = a \/ e[1] \in S PROVE e[2] \in S
  <2>1. e[2] \in Nodes
    BY DEF PlanShape, Nodes
  <2>2. QED
    BY <1>1, <2>1
<1>2. S \in SUBSET Nodes
  OBVIOUS
<1>3. b \in S
  BY <1>1, <1>2 DEF Precedes
<1>4. QED
  BY <1>3

\* The selected node is a node of the plan that is not finished with, and all that
\* precedes it is.
LEMMA SelectedFacts ==
  ASSUME HInv, pass \in Passes, Ready # {}
  PROVE  /\ Selected \in Nodes /\ Selected \notin done[pass]
         /\ \A e \in plan.edges : e[2] = Selected => e[1] \in done[pass]
         /\ \A a \in Nodes : Precedes(a, Selected) => a \in done[pass]
<1>1. Selected \in Ready
  BY SelectedReady DEF HInv
<1> DEFINE s == Selected
<1>2. s \in Nodes /\ s \notin done[pass] /\ \A e \in plan.edges : e[2] = s => e[1] \in done[pass]
  BY <1>1 DEF Ready
<1> HIDE DEF s
<1>3. ASSUME NEW a \in Nodes, Precedes(a, s) PROVE a \in done[pass]
  <2> DEFINE D == done[pass] \cup {s}
  <2>1. D \in SUBSET Nodes /\ \A e \in plan.edges : e[2] \in D => e[1] \in D
    BY <1>2 DEF HInv, RInv, DownClosed
  <2>2. s \in D
    OBVIOUS
  <2> HIDE DEF D
  <2>3. a \in D
    BY <1>3, <2>1, <2>2, PrecedesClosed DEF HInv
  <2>4. a # s
    BY <1>3 DEF Precedes
  <2>5. QED
    BY <2>3, <2>4 DEF D
<1>4. QED
  BY <1>2, <1>3 DEF s

\* What one more application does to the history.
LEMMA AppendRan ==
  ASSUME NEW x, NEW c, x \in Nat, c \in Nat, ran \in Seq(Nat \X Nat),
         ran' = Append(ran, <<x, c>>)
  PROVE  /\ ran' \in Seq(Nat \X Nat)
         /\ DOMAIN ran = 1..Len(ran) /\ Len(ran) \in Nat
         /\ DOMAIN ran' = 1..(Len(ran) + 1)
         /\ \A k \in 1..Len(ran) : ran'[k] = ran[k]
         /\ ran'[Len(ran) + 1] = <<x, c>>
<1> DEFINE y == <<x, c>>
           S == Nat \X Nat
<1>1. y \in S /\ ran \in Seq(S) /\ ran' = Append(ran, y)
  OBVIOUS
<1> HIDE DEF y, S
<1>2. /\ Append(ran, y) \in Seq(S)
      /\ Len(ran) \in Nat /\ DOMAIN ran = 1..Len(ran)
      /\ DOMAIN Append(ran, y) = 1..(Len(ran) + 1)
      /\ \A k \in 1..Len(ran) : Append(ran, y)[k] = ran[k]
      /\ Append(ran, y)[Len(ran) + 1] = y
  BY <1>1, AppendFacts
<1>3. QED
  BY <1>1, <1>2 DEF y, S

\* One more application of the selected node.
Applies == ran' = Append(ran, <<Selected, m + 1>>)

\* An application, whether it succeeds or not: the member is new, and nothing that
\* the selected node precedes has run.
LEMMA ApplicationStep ==
  ASSUME HInv, Working, m < Size(Selected), Applies, UNCHANGED <<plan, done>>
  PROVE  HistoryOK' /\ DoneApplied' /\ OrderKept'
<1> DEFINE s == Selected
           n == Len(ran)
<1>1. pass \in Passes /\ Ready # {} /\ Kind(s) = pass
  BY DEF Working, Running, Kind
<1>2. /\ s \in Nodes /\ s \notin done[pass]
      /\ \A a \in Nodes : Precedes(a, s) => a \in done[pass]
  BY <1>1, SelectedFacts
<1>3. s \in Nat /\ m \in Nat /\ m + 1 \in Nat /\ Size(s) \in Nat /\ m + 1 \in 1..Size(s)
  BY <1>1, <1>2 DEF HInv, InProgress, PlanShape, Nodes, Size
<1>4. \A k \in DOMAIN ran : ran[k][1] = s => ran[k][2] <= m
  BY <1>1, <1>2 DEF HInv, InProgress
<1>5. ran' = Append(ran, <<s, m + 1>>) /\ ran \in Seq(Nat \X Nat)
  BY DEF HInv, HistoryOK, Applies
<1> HIDE DEF s
<1>6. ran' \in Seq(Nat \X Nat)
  BY <1>3, <1>5, AppendRan
<1>7. /\ DOMAIN ran = 1..n /\ n \in Nat /\ DOMAIN ran' = 1..(n + 1)
      /\ \A k \in 1..n : ran'[k] = ran[k]
      /\ ran'[n + 1] = <<s, m + 1>>
  BY <1>3, <1>5, AppendRan
<1> HIDE DEF n
<1>8. HistoryOK'
  <2>1. ASSUME NEW k \in DOMAIN ran'
        PROVE  /\ ran'[k][1] \in Nodes /\ Kind(ran'[k][1]) \in Passes
               /\ ran'[k][2] \in 1..Size(ran'[k][1])
    <3>1. CASE k = n + 1
      BY <3>1, <1>1, <1>2, <1>3, <1>7
    <3>2. CASE k # n + 1
      BY <3>2, <1>7 DEF HInv, HistoryOK
    <3>3. QED
      BY <3>1, <3>2
  <2>2. ASSUME NEW k \in 1..n PROVE ran[k] # <<s, m + 1>>
    BY <1>3, <1>4, <1>7
  <2>3. \A k, l \in 1..n : ran[k] = ran[l] => k = l
    BY <1>7 DEF HInv, HistoryOK
  <2>4. \A k, l \in DOMAIN ran' : ran'[k] = ran'[l] => k = l
    BY <2>2, <2>3, <1>7
  <2>5. QED
    BY <2>1, <2>4, <1>6 DEF HistoryOK, Nodes, Kind, Size
<1>9. \A i, c : HasRun(i, c) => HasRun(i, c)'
  BY <1>7 DEF HasRun
<1>10. DoneApplied'
  BY <1>9 DEF HInv, DoneApplied, Nodes, Kind, Size
<1>11. OrderKept'
  <2>1. \A a, b : Precedes(a, b)' = Precedes(a, b)
    BY DEF Precedes, Nodes
  <2>2. SUFFICES ASSUME NEW a \in Nodes, NEW b \in Nodes, Precedes(a, b), Kind(a) = Kind(b),
                        NEW l \in 1..(n + 1), ran'[l][1] = b
                 PROVE  a \in done[Kind(a)] /\ \A k \in 1..(n + 1) : ran'[k][1] = a => k < l
    BY <2>1, <1>7 DEF OrderKept, Nodes, Kind
  <2>3. a # b
    BY <2>2 DEF Precedes
  <2>4. CASE l = n + 1
    <3>1. b = s
      BY <2>2, <2>4, <1>7
    <3>2. QED
      BY <2>2, <2>3, <2>4, <3>1, <1>1, <1>2, <1>7
  <2>5. CASE l # n + 1
    <3>1. l \in 1..n /\ ran[l][1] = b
      BY <2>2, <2>5, <1>7
    <3>2. a \in done[Kind(a)] /\ \A k \in 1..n : ran[k][1] = a => k < l
      BY <2>2, <3>1, <1>7 DEF HInv, OrderKept
    <3>3. a # s
      BY <3>2, <1>1, <1>2
    <3>4. QED
      BY <3>1, <3>2, <3>3, <1>7
  <2>6. QED
    BY <2>4, <2>5
<1>12. QED
  BY <1>8, <1>10, <1>11

\* The parts of HInv that name only the plan, the finished nodes and the history.
Settled == HistoryOK /\ DoneApplied /\ OrderKept

\* A step that applies nothing and finishes with nothing.
LEMMA SettledStays ==
  ASSUME HInv, UNCHANGED <<plan, done, ran>>
  PROVE  Settled' /\ PlanShape(plan)' /\ DownClosed'
<1>1. \A a, b : Precedes(a, b)' = Precedes(a, b)
  BY DEF Precedes, Nodes
<1>2. OrderKept'
  BY <1>1 DEF HInv, OrderKept, Nodes, Kind
<1>3. HistoryOK' /\ DoneApplied' /\ PlanShape(plan)' /\ DownClosed'
  BY DEF HInv, HistoryOK, DoneApplied, DownClosed, Nodes, Kind, Size, HasRun, PlanShape
<1>4. QED
  BY <1>2, <1>3 DEF Settled

\* A pass finishes with the selected node: it is of the other kind, or all its
\* members have run.
LEMMA FinishStep ==
  ASSUME HInv, Running, Ready # {}, MarkDone,
         Working => m = Size(Selected)
  PROVE  HInv'
<1> DEFINE s == Selected
<1>1. pass \in Passes /\ UNCHANGED <<plan, manifest, pass, ran>> /\ m' = 0
  BY DEF Running, MarkDone
<1>2. /\ RInv' /\ s \in Nodes /\ s \notin done[pass]
      /\ \A e \in plan.edges : e[2] = s => e[1] \in done[pass]
      /\ done'[pass] = done[pass] \cup {s}
      /\ \A p \in Passes : p # pass => done'[p] = done[p]
  BY <1>1, MarkDoneStep DEF HInv
<1>3. Working <=> Kind(s) = pass
  BY DEF Working, Kind
<1>4. Kind(s) = pass => m = Size(s) /\ \A c \in 1..m : HasRun(s, c)
  BY <1>1, <1>3 DEF HInv, InProgress
<1> HIDE DEF s
<1>5. \A p \in Passes : done[p] \subseteq done'[p]
  BY <1>2
<1>6. PlanShape(plan)' /\ pass' \in Passes /\ HistoryOK'
  BY <1>1 DEF HInv, PlanShape, HistoryOK, Nodes, Kind, Size
<1>7. DoneApplied'
  <2>1. \A i, c : HasRun(i, c)' = HasRun(i, c)
    BY <1>1 DEF HasRun
  <2>2. ASSUME NEW i \in Nodes, Kind(i) \in Passes, i \in done'[Kind(i)], NEW c \in 1..Size(i)
        PROVE  HasRun(i, c)
    <3>1. CASE i \in done[Kind(i)]
      BY <2>2, <3>1 DEF HInv, DoneApplied
    <3>2. CASE i \notin done[Kind(i)]
      BY <2>2, <3>2, <1>2, <1>4
    <3>3. QED
      BY <3>1, <3>2
  <2>3. QED
    BY <2>1, <2>2, <1>1 DEF DoneApplied, Nodes, Kind, Size
<1>8. InProgress'
  <2>1. \A k \in DOMAIN ran : ran[k][1] \in Nodes /\ Kind(ran[k][1]) \in Passes
    BY DEF HInv, HistoryOK
  <2>2. ASSUME NEW k \in DOMAIN ran PROVE ran[k][1] \in done'[Kind(ran[k][1])]
    <3>1. CASE ran[k][1] \in done[Kind(ran[k][1])]
      BY <3>1, <2>1, <1>5
    <3>2. CASE Working /\ ran[k][1] = s
      BY <3>2, <1>2, <1>3
    <3>3. QED
      BY <3>1, <3>2, <1>1 DEF HInv, InProgress, s
  <2>3. Working' => /\ Selected' \in Nodes /\ Selected' \notin done'[pass]
                    /\ plan.nodes[Selected'].kind = pass
    <3> SUFFICES ASSUME Working'
                 PROVE  /\ Selected' \in Nodes /\ Selected' \notin done'[pass]
                        /\ plan.nodes[Selected'].kind = pass
      OBVIOUS
    <3>1. Ready' # {} /\ plan.nodes[Selected'].kind = pass
      BY <1>1 DEF Working
    <3>2. Selected' \in Ready'
      BY <3>1, <1>2, SelectedReadyNext
    <3>3. QED
      BY <3>1, <3>2, <1>1 DEF Ready, Nodes
  <2>4. ASSUME Working', NEW k \in DOMAIN ran PROVE ran[k][1] # Selected'
    BY <2>2, <2>3, <2>4, <1>1 DEF Kind
  <2>5. Working' => Size(Selected)' \in Nat
    BY <2>3, <1>1 DEF Size, HInv, PlanShape, Nodes
  <2>6. QED
    BY <2>2, <2>4, <2>5, <1>1 DEF InProgress, Kind
<1>9. PassesOver'
  BY <1>1, <1>2 DEF HInv, PassesOver, Passes, RInv, Nodes
<1>10. DownClosed'
  BY <1>1, <1>2 DEF HInv, DownClosed
<1>11. OrderKept'
  <2>1. \A a, b : Precedes(a, b)' = Precedes(a, b)
    BY <1>1 DEF Precedes, Nodes
  <2>2. \A l \in DOMAIN ran : Kind(ran[l][1]) \in Passes
    BY DEF HInv, HistoryOK
  <2>3. QED
    BY <2>1, <2>2, <1>1, <1>5 DEF HInv, OrderKept, Nodes, Kind
<1>12. QED
  BY <1>2, <1>6, <1>7, <1>8, <1>9, <1>10, <1>11 DEF HInv

\* An application that succeeds.
LEMMA ApplyStep ==
  ASSUME HInv, Apply
  PROVE  HInv'
<1>1. /\ Working /\ m < Size(Selected) /\ Applies /\ pass \in Passes
      /\ UNCHANGED <<plan, manifest, pass, done>> /\ m' = m + 1
  BY DEF Apply, Applies, Size, Members, Working, Running
<1>2. Settled'
  BY <1>1, ApplicationStep DEF Settled
<1>3. RInv' /\ PlanShape(plan)' /\ pass' \in Passes /\ PassesOver' /\ DownClosed'
  BY <1>1 DEF HInv, RInv, PlanShape, PassesOver, DownClosed, Nodes
<1> DEFINE s == Selected
           n == Len(ran)
<1>4. Working' /\ Selected' = s /\ s' = s
  BY <1>1 DEF Working, Running, Ready, Selected, Nodes
<1>5. s \in Nodes /\ m \in Nat /\ m + 1 \in Nat /\ Size(s) \in Nat /\ s \in Nat
  BY <1>1, SelectedFacts DEF HInv, InProgress, PlanShape, Nodes, Size, Working
<1>6. /\ \A k \in DOMAIN ran : ran[k][1] \in done[Kind(ran[k][1])] \/ (ran[k][1] = s /\ ran[k][2] <= m)
      /\ \A c \in 1..m : HasRun(s, c)
      /\ \A k, l \in DOMAIN ran : k < l /\ ran[k][1] = s => ran[l][1] = s
  BY <1>1 DEF HInv, InProgress
<1>7. ran' = Append(ran, <<s, m + 1>>) /\ ran \in Seq(Nat \X Nat)
  BY <1>1 DEF HInv, HistoryOK, Applies
<1>8. m + 1 <= Size(s)
  BY <1>1, <1>5
<1>9. Size(Selected)' = Size(s)
  BY <1>1, <1>4 DEF Size
<1> HIDE DEF s
<1>10. /\ DOMAIN ran = 1..n /\ n \in Nat /\ DOMAIN ran' = 1..(n + 1)
       /\ \A k \in 1..n : ran'[k] = ran[k]
       /\ ran'[n + 1] = <<s, m + 1>>
  BY <1>5, <1>7, AppendRan
<1> HIDE DEF n
<1>11. \A c \in 1..(m + 1) : \E k \in DOMAIN ran' : ran'[k] = <<s, c>>
  <2> SUFFICES ASSUME NEW c \in 1..(m + 1) PROVE \E k \in 1..(n + 1) : ran'[k] = <<s, c>>
    BY <1>10
  <2>1. CASE c = m + 1
    BY <2>1, <1>10
  <2>2. CASE c # m + 1
    <3>1. c \in 1..m
      BY <2>2, <1>5
    <3>2. PICK k \in 1..n : ran[k] = <<s, c>>
      BY <3>1, <1>6, <1>10 DEF HasRun
    <3>3. k \in 1..(n + 1) /\ ran'[k] = <<s, c>>
      BY <3>2, <1>10
    <3>4. QED
      BY <3>3
  <2>3. QED
    BY <2>1, <2>2
<1>12. ASSUME NEW k \in 1..(n + 1)
       PROVE  ran'[k][1] \in done[Kind(ran'[k][1])] \/ (ran'[k][1] = s /\ ran'[k][2] <= m + 1)
  <2>1. CASE k = n + 1
    BY <2>1, <1>5, <1>10
  <2>2. CASE k # n + 1
    <3>1. \A q \in DOMAIN ran : ran[q][2] \in 1..Size(ran[q][1])
      BY DEF HInv, HistoryOK
    <3>2. k \in 1..n /\ ran'[k] = ran[k]
      BY <2>2, <1>10
    <3>3. QED
      BY <3>1, <3>2, <1>5, <1>6, <1>10
  <2>3. QED
    BY <2>1, <2>2
<1>13. ASSUME NEW k \in 1..(n + 1), NEW l \in 1..(n + 1), k < l, ran'[k][1] = s
       PROVE  ran'[l][1] = s
  BY <1>6, <1>10, <1>13
<1>14. \A c \in 1..(m + 1) : HasRun(s, c)'
  BY <1>4, <1>11 DEF HasRun
<1>15. \A k \in DOMAIN ran' :
         ran'[k][1] \in done[Kind(ran'[k][1])] \/ (Working' /\ ran'[k][1] = Selected' /\ ran'[k][2] <= m')
  BY <1>1, <1>4, <1>10, <1>12
<1>16. \A c \in 1..m' : HasRun(Selected, c)'
  BY <1>1, <1>4, <1>14
<1>17. InProgress'
  BY <1>1, <1>4, <1>5, <1>8, <1>9, <1>10, <1>13, <1>15, <1>16 DEF InProgress, Kind
<1>18. QED
  BY <1>2, <1>3, <1>17 DEF HInv, Settled

\* Every step that ends the run with an error.
LEMMA FailStep ==
  ASSUME HInv, Stuck \/ Absent \/ ApplyFails
  PROVE  HInv'
<1>1. pass' = "failed" /\ UNCHANGED <<plan, done>>
  BY DEF Stuck, Absent, ApplyFails, Fail
<1>2. RInv' /\ PlanShape(plan)' /\ InProgress' /\ PassesOver' /\ DownClosed'
  BY <1>1 DEF HInv, RInv, Nodes, PlanShape, InProgress, PassesOver, DownClosed, Passes
<1>3. Settled'
  <2>1. CASE UNCHANGED ran
    BY <2>1, <1>1, SettledStays
  <2>2. CASE Working /\ m < Size(Selected) /\ Applies
    BY <2>2, <1>1, ApplicationStep DEF Settled
  <2>3. QED
    BY <2>1, <2>2 DEF Stuck, Absent, ApplyFails, Applies, Size, Members
<1>4. QED
  BY <1>1, <1>2, <1>3 DEF HInv, Settled

\* The two steps between and after the passes.
LEMMA PassStep ==
  ASSUME HInv, StartKernels \/ Return
  PROVE  HInv'
<1>1. /\ pass \in Passes /\ done[pass] = Nodes /\ UNCHANGED <<plan, done, m, ran>>
      /\ (pass = "rewrite" /\ pass' = "kernel") \/ (pass = "kernel" /\ pass' = "done")
  BY DEF StartKernels, Return, Passes
<1>2. Settled' /\ PlanShape(plan)' /\ DownClosed'
  BY <1>1, SettledStays
<1>3. RInv' /\ PassesOver'
  BY <1>1 DEF HInv, RInv, PassesOver, Nodes, Passes
<1>4. ~Working /\ m = 0 /\ \A k \in DOMAIN ran : ran[k][1] \in done[Kind(ran[k][1])]
  BY <1>1 DEF HInv, InProgress, Working, Running
<1>5. InProgress'
  <2>1. CASE pass' = "done"
    BY <2>1 DEF InProgress, Passes
  <2>2. CASE pass' = "kernel"
    <3>1. Working' => Selected' \in Nodes /\ Selected' \notin done["kernel"]
                      /\ plan.nodes[Selected'].kind = "kernel"
      <4> SUFFICES ASSUME Working'
                   PROVE  Selected' \in Nodes /\ Selected' \notin done["kernel"]
                          /\ plan.nodes[Selected'].kind = "kernel"
        OBVIOUS
      <4>1. Ready' # {} /\ plan.nodes[Selected'].kind = "kernel"
        BY <1>1, <2>2 DEF Working
      <4>2. Selected' \in Ready'
        BY <4>1, <1>3, SelectedReadyNext
      <4>3. QED
        BY <4>1, <4>2, <1>1, <2>2 DEF Ready, Nodes
    <3>2. Working' => Size(Selected)' \in Nat
      BY <3>1, <1>1 DEF Size, HInv, PlanShape, Nodes
    <3>3. ASSUME Working', NEW k \in DOMAIN ran PROVE ran[k][1] # Selected'
      BY <1>4, <3>1, <3>3, <1>1 DEF Kind
    <3>4. QED
      BY <1>1, <1>4, <2>2, <3>2, <3>3 DEF InProgress, Kind
  <2>3. QED
    BY <2>1, <2>2, <1>1
<1>6. pass' \in Passes \cup {"idle", "done", "failed"}
  BY <1>1 DEF Passes
<1>7. QED
  BY <1>2, <1>3, <1>5, <1>6 DEF HInv, Settled

\* The relation of history and finished nodes is inductive.
LEMMA NextHInv ==
  ASSUME HInv, [RNext]_rvars
  PROVE  HInv'
<1>1. CASE Stuck \/ Absent \/ ApplyFails
  BY <1>1, FailStep
<1>2. CASE PassOver
  BY <1>2, FinishStep DEF PassOver, Working
<1>3. CASE Apply
  BY <1>3, ApplyStep
<1>4. CASE FinishNode
  BY <1>4, FinishStep DEF FinishNode, Working, Members, Size
<1>5. CASE StartKernels \/ Return
  BY <1>5, PassStep
<1>6. CASE UNCHANGED rvars
  <2>1. Settled' /\ PlanShape(plan)' /\ DownClosed'
    BY <1>6, SettledStays DEF rvars
  <2>2. RInv' /\ PassesOver' /\ pass' = pass
    BY <1>6 DEF rvars, HInv, RInv, Nodes, PassesOver
  <2>3. Working' = Working /\ Selected' = Selected
    BY <1>6 DEF rvars, Working, Running, Ready, Selected, Nodes
  <2>4. InProgress'
    BY <1>6, <2>3 DEF rvars, HInv, InProgress, HasRun, Kind, Size
  <2>5. QED
    BY <2>1, <2>2, <2>4 DEF HInv, Settled
<1>7. QED
  BY <1>1, <1>2, <1>3, <1>4, <1>5, <1>6 DEF RNext

\* A run that has applied nothing and finished with nothing.
Fresh ==
  /\ PlanShape(plan) /\ pass \in {"idle", "rewrite", "failed"}
  /\ done = [p \in Passes |-> {}] /\ m = 0 /\ ran = <<>>

\* The invariant holds when nothing has been applied.
LEMMA FreshHInv ==
  ASSUME Fresh
  PROVE  HInv
<1>1. PlanShape(plan) /\ RInv
  BY DEF Fresh, RInv, PlanShape
<1>2. ran \in Seq(Nat \X Nat) /\ DOMAIN ran = {}
  BY DEF Fresh
<1>3. m = 0 /\ pass \in {"idle", "rewrite", "failed"} /\ \A p \in Passes : done[p] = {}
  BY DEF Fresh
<1>4. Working => Size(Selected) \in Nat
  <2> SUFFICES ASSUME Working PROVE Size(Selected) \in Nat
    OBVIOUS
  <2>1. Selected \in Nodes
    BY <1>1, SelectedReady DEF Working, Ready
  <2>2. QED
    BY <2>1, <1>1 DEF PlanShape, Nodes, Size
<1>5. HistoryOK /\ DoneApplied /\ PassesOver /\ DownClosed /\ OrderKept
  BY <1>2, <1>3 DEF HistoryOK, DoneApplied, PassesOver, DownClosed, OrderKept, Passes
<1>6. InProgress
  BY <1>2, <1>3, <1>4 DEF InProgress
<1>7. QED
  BY <1>1, <1>3, <1>5, <1>6 DEF HInv, Passes

\* The same of the state that a step leads to.
LEMMA FreshHInvNext == (Fresh => HInv)'
<1>1. Fresh => HInv
  BY FreshHInv
<1>2. QED
  BY <1>1, PTL

LEMMA InitHInv ==
  ASSUME RInit
  PROVE  HInv
<1>1. Fresh
  BY RunAssumption DEF RInit, Fresh
<1>2. QED
  BY <1>1, FreshHInv

\* The applications of a finished node are as many as its members.
LEMMA DoneTurns ==
  ASSUME HInv, NEW i \in Nodes, Kind(i) \in Passes, i \in done[Kind(i)]
  PROVE  Applied(i)
<1> DEFINE T == Turns(i)
           g == [k \in T |-> ran[k][2]]
           n == Len(ran)
           z == Size(i)
<1>1. /\ DOMAIN ran = 1..n /\ n \in Nat
      /\ \A k \in 1..n : ran[k] \in Nat \X Nat
  BY LenProperties, ElementOfSeq DEF HInv, HistoryOK
<1>2. /\ \A k \in 1..n : ran[k][2] \in 1..Size(ran[k][1])
      /\ \A k, l \in 1..n : ran[k] = ran[l] => k = l
  BY <1>1 DEF HInv, HistoryOK
<1>3. z \in Nat /\ \A c \in 1..z : \E k \in 1..n : ran[k] = <<i, c>>
  BY <1>1 DEF HInv, DoneApplied, HasRun, PlanShape, Nodes, Size
<1>4. T = {k \in 1..n : ran[k][1] = i}
  BY <1>1 DEF Turns
<1> HIDE DEF n, T
<1>5. IsFiniteSet(T)
  <2>1. IsFiniteSet(1..n)
    BY <1>1, FS_Interval
  <2>2. T \in SUBSET (1..n)
    BY <1>4
  <2>3. QED
    BY <2>1, <2>2, FS_Subset
<1>6. g \in [T -> 1..z]
  BY <1>2, <1>4
<1>7. ASSUME NEW k \in T, NEW l \in T, g[k] = g[l] PROVE k = l
  <2>1. ran[k] = <<i, ran[k][2]>> /\ ran[l] = <<i, ran[l][2]>>
    BY <1>1, <1>4
  <2>2. QED
    BY <2>1, <1>2, <1>4, <1>7
<1>8. ASSUME NEW c \in 1..z PROVE \E k \in T : g[k] = c
  <2>1. PICK k \in 1..n : ran[k] = <<i, c>>
    BY <1>3
  <2>2. k \in T /\ g[k] = c
    BY <2>1, <1>4
  <2>3. QED
    BY <2>2
<1> HIDE DEF g, z
<1>9. g \in Surjection(T, 1..z) /\ g \in Injection(T, 1..z)
  BY <1>6, <1>7, <1>8 DEF Surjection, Injection, IsInjective
<1>10. Cardinality(1..z) = Cardinality(T)
  BY <1>5, <1>9, FS_Surjection
<1>11. Cardinality(1..z) = z
  BY <1>3, FS_Interval
<1>12. QED
  BY <1>10, <1>11 DEF Applied, T, z, Size

\* HInv gives the order of the work.
LEMMA OrderFromHInv ==
  ASSUME HInv
  PROVE  OrderInPass
<1> SUFFICES ASSUME NEW a \in Nodes, NEW b \in Nodes, Precedes(a, b), Kind(a) = Kind(b),
                    Turns(b) # {}
             PROVE  Applied(a) /\ \A k \in Turns(a), l \in Turns(b) : k < l
  BY DEF OrderInPass, After, Kind
<1>1. /\ Turns(a) = {k \in DOMAIN ran : ran[k][1] = a}
      /\ Turns(b) = {k \in DOMAIN ran : ran[k][1] = b}
  BY DEF Turns
<1>2. PICK l \in DOMAIN ran : ran[l][1] = b
  BY <1>1
<1>3. a \in done[Kind(a)] /\ Kind(a) \in Passes
  BY <1>2 DEF HInv, OrderKept, HistoryOK
<1>4. Applied(a)
  BY <1>3, DoneTurns
<1>5. \A k \in Turns(a), j \in Turns(b) : k < j
  BY <1>1 DEF HInv, OrderKept
<1>6. QED
  BY <1>4, <1>5

\* And, when the run ends well, that all of it is done.
LEMMA AllFromHInv ==
  ASSUME HInv
  PROVE  AllApplied
<1> SUFFICES ASSUME pass = "done"
             PROVE  /\ Len(ran) = Cardinality(ToSet(ran))
                    /\ ToSet(ran) = UNION {{i} \X DOMAIN plan.nodes[i].members : i \in Nodes}
  BY DEF AllApplied
<1> DEFINE n == Len(ran)
<1>1. /\ DOMAIN ran = 1..n /\ n \in Nat
      /\ \A k \in 1..n : ran[k] \in Nat \X Nat
  BY LenProperties, ElementOfSeq DEF HInv, HistoryOK
<1>2. /\ \A k \in 1..n : ran[k][1] \in Nodes /\ ran[k][2] \in 1..Size(ran[k][1])
      /\ \A k, l \in 1..n : ran[k] = ran[l] => k = l
  BY <1>1 DEF HInv, HistoryOK
<1>3. ran \in [1..n -> ToSet(ran)] /\ \A x \in ToSet(ran) : \E k \in 1..n : ran[k] = x
  BY <1>1, LenProperties DEF ToSet, HInv, HistoryOK
<1>4. Len(ran) = Cardinality(ToSet(ran))
  <2>1. ran \in Surjection(1..n, ToSet(ran)) /\ ran \in Injection(1..n, ToSet(ran))
    BY <1>2, <1>3 DEF Surjection, Injection, IsInjective
  <2>2. IsFiniteSet(1..n) /\ Cardinality(1..n) = n
    BY <1>1, FS_Interval
  <2> HIDE DEF n
  <2>3. Cardinality(ToSet(ran)) = n
    BY <2>1, <2>2, FS_Surjection
  <2>4. QED
    BY <2>3 DEF n
<1>5. \A i \in Nodes : DOMAIN plan.nodes[i].members = 1..Size(i)
  BY DEF HInv, PlanShape, Nodes, Size
<1>6. \A i \in Nodes : \A c \in 1..Size(i) : \E k \in 1..n : ran[k] = <<i, c>>
  <2> SUFFICES ASSUME NEW i \in Nodes, NEW c \in 1..Size(i) PROVE \E k \in 1..n : ran[k] = <<i, c>>
    OBVIOUS
  <2>1. Kind(i) # "barrier" /\ Kind(i) \in Passes \cup {"barrier"}
    BY DEF HInv, PlanShape, Nodes, Size, Kind
  <2>2. i \in done[Kind(i)]
    BY <2>1 DEF HInv, PassesOver
  <2>3. QED
    BY <2>1, <2>2, <1>1 DEF HInv, DoneApplied, HasRun
<1>7. ToSet(ran) = {ran[k] : k \in 1..n}
  BY <1>1 DEF ToSet
<1> HIDE DEF n
<1>8. ASSUME NEW x \in ToSet(ran)
      PROVE  x \in UNION {{i} \X DOMAIN plan.nodes[i].members : i \in Nodes}
  <2>1. PICK k \in 1..n : x = ran[k]
    BY <1>7
  <2>2. x = <<x[1], x[2]>> /\ x[1] \in Nodes /\ x[2] \in 1..Size(x[1])
    BY <2>1, <1>1, <1>2
  <2>3. x \in {x[1]} \X DOMAIN plan.nodes[x[1]].members
    BY <2>2, <1>5
  <2>4. QED
    BY <2>2, <2>3
<1>9. ASSUME NEW x \in UNION {{i} \X DOMAIN plan.nodes[i].members : i \in Nodes}
      PROVE  x \in ToSet(ran)
  <2>1. PICK i \in Nodes : x \in {i} \X DOMAIN plan.nodes[i].members
    OBVIOUS
  <2>2. x \in {i} \X (1..Size(i))
    BY <2>1, <1>5
  <2>3. PICK c \in 1..Size(i) : x = <<i, c>>
    BY <2>2
  <2>4. QED
    BY <2>3, <1>6, <1>7
<1>10. ToSet(ran) = UNION {{i} \X DOMAIN plan.nodes[i].members : i \in Nodes}
  BY <1>8, <1>9
<1>11. QED
  BY <1>4, <1>10

(***************************************************************************)
(* The order in which a pass finishes with nodes is not in the state.  It  *)
(* is a function g on 1..c, which takes the lowest ready node each time.   *)
(***************************************************************************)
ReadyAfter(T) == {i \in Nodes \ T : \A e \in plan.edges : e[2] = i => e[1] \in T}
Prefix(g, k) == {g[j] : j \in 1..(k - 1)}
Greedy(g, c) ==
  /\ g \in [1..c -> Nodes]
  /\ \A k \in 1..c : /\ g[k] \in ReadyAfter(Prefix(g, k))
                     /\ \A x \in ReadyAfter(Prefix(g, k)) : g[k] <= x

\* The work of kind p was done in the order g.
WorkOrdered(p, g, c) ==
  \A k, l \in DOMAIN ran :
    k < l /\ Kind(ran[k][1]) = p /\ Kind(ran[l][1]) = p =>
      \A x, y \in 1..c : g[x] = ran[k][1] /\ g[y] = ran[l][1] => x <= y

Trace(p, g, c) ==
  /\ Greedy(g, c)
  /\ done[p] = {g[j] : j \in 1..c}
  /\ WorkOrdered(p, g, c)

Traced == \A p \in Passes : \E c \in Nat : \E g : Trace(p, g, c)

\* A greedy order has no repetitions.
LEMMA GreedyDistinct ==
  ASSUME NEW c \in Nat, NEW g, Greedy(g, c)
  PROVE  \A x, y \in 1..c : g[x] = g[y] => x = y
<1>1. ASSUME NEW x \in 1..c, NEW y \in 1..c, x < y PROVE g[x] # g[y]
  <2>1. g[x] \in Prefix(g, y)
    BY <1>1 DEF Prefix
  <2>2. g[y] \notin Prefix(g, y)
    BY DEF Greedy, ReadyAfter
  <2>3. QED
    BY <2>1, <2>2
<1>2. SUFFICES ASSUME NEW x \in 1..c, NEW y \in 1..c, g[x] = g[y] PROVE x = y
  OBVIOUS
<1>3. x < y \/ y < x \/ x = y
  OBVIOUS
<1>4. QED
  BY <1>1, <1>2, <1>3

\* Where an order that the edges allow first differs from a greedy one, it has a
\* ready node, so none lower than the greedy one.
LEMMA GreedyLowest ==
  ASSUME PlanShape(plan), NEW g, Greedy(g, Len(plan.nodes)),
         NEW p \in LinearExtensions, NEW k \in Nodes,
         \A j \in 1..(k - 1) : p[j] = g[j]
  PROVE  g[k] <= p[k]
<1> DEFINE N == Len(plan.nodes)
<1>1. N \in Nat /\ Nodes = 1..N /\ plan.edges \subseteq Nodes \X Nodes
  BY DEF PlanShape, Nodes
<1>2. /\ p \in [Nodes -> Nodes] /\ \A i, j \in Nodes : p[i] = p[j] => i = j
      /\ \A i, j \in Nodes : <<p[j], p[i]>> \in plan.edges => j < i
  BY DEF LinearExtensions
<1>3. \A x \in Nodes : \E j \in Nodes : p[j] = x
  <2>1. p \in Injection(Nodes, Nodes)
    BY <1>2 DEF Injection, IsInjective
  <2>2. IsFiniteSet(Nodes)
    BY <1>1, FS_Interval
  <2>3. p \in Surjection(Nodes, Nodes)
    BY <2>1, <2>2, FS_Injection
  <2>4. QED
    BY <2>3 DEF Surjection
<1>4. p[k] \in Nodes \ Prefix(g, k)
  <2>1. ASSUME NEW j \in 1..(k - 1) PROVE p[k] # g[j]
    <3>1. j \in Nodes /\ j # k
      BY <1>1
    <3>2. QED
      BY <3>1, <1>2
  <2>2. QED
    BY <2>1, <1>2 DEF Prefix
<1>5. ASSUME NEW e \in plan.edges, e[2] = p[k] PROVE e[1] \in Prefix(g, k)
  <2>1. e = <<e[1], p[k]>> /\ e[1] \in Nodes
    BY <1>1, <1>5
  <2>2. PICK j \in Nodes : p[j] = e[1]
    BY <2>1, <1>3
  <2>3. j < k
    BY <2>1, <2>2, <1>2
  <2>4. j \in 1..(k - 1)
    BY <2>3, <1>1
  <2>5. QED
    BY <2>2, <2>4 DEF Prefix
<1>6. p[k] \in ReadyAfter(Prefix(g, k))
  BY <1>4, <1>5 DEF ReadyAfter
<1>7. QED
  BY <1>1, <1>6 DEF Greedy

\* A greedy order of all nodes is the first that the edges allow.
LEMMA GreedyIsFirst ==
  ASSUME PlanShape(plan), NEW g, Greedy(g, Len(plan.nodes))
  PROVE  FirstExtension = g
<1> DEFINE N == Len(plan.nodes)
<1>1. N \in Nat /\ Nodes = 1..N
  BY DEF PlanShape, Nodes
<1>2. g \in [Nodes -> Nodes] /\ \A i, j \in Nodes : g[i] = g[j] => i = j
  BY <1>1, GreedyDistinct DEF Greedy
<1>3. g \in LinearExtensions
  <2>1. ASSUME NEW i \in Nodes, NEW j \in Nodes, <<g[j], g[i]>> \in plan.edges PROVE j < i
    <3>1. g[j] \in Prefix(g, i)
      <4>1. g[i] \in ReadyAfter(Prefix(g, i))
        BY <1>1 DEF Greedy
      <4> DEFINE e == <<g[j], g[i]>>
      <4>2. e \in plan.edges /\ e[2] = g[i] /\ e[1] = g[j]
        BY <2>1
      <4> HIDE DEF e
      <4>3. QED
        BY <4>1, <4>2 DEF ReadyAfter
    <3>2. PICK x \in 1..(i - 1) : g[j] = g[x]
      BY <3>1 DEF Prefix
    <3>3. x \in Nodes /\ x < i
      BY <1>1
    <3>4. QED
      BY <3>2, <3>3, <1>2
  <2>2. QED
    BY <2>1, <1>2 DEF LinearExtensions
<1>4. \A q \in LinearExtensions : q \in [Nodes -> Nodes]
  BY DEF LinearExtensions
<1>5. ASSUME NEW q \in LinearExtensions, Before(q, g) PROVE FALSE
  <2>1. PICK k \in Nodes : q[k] < g[k] /\ \A j \in 1..(k - 1) : q[j] = g[j]
    BY <1>5 DEF Before
  <2>2. g[k] <= q[k]
    BY <2>1, GreedyLowest
  <2>3. q[k] \in Nat /\ g[k] \in Nat
    BY <1>1, <1>2, <1>4
  <2>4. QED
    BY <2>1, <2>2, <2>3
<1>6. ASSUME NEW f \in LinearExtensions, \A q \in LinearExtensions : ~Before(q, f), f # g
      PROVE  FALSE
  <2> DEFINE D == {k \in Nodes : f[k] # g[k]}
  <2>1. D # {} /\ D \subseteq Nat
    BY <1>1, <1>2, <1>4, <1>6
  <2> HIDE DEF D
  <2>2. PICK k \in D : \A x \in D : k <= x
    BY <2>1, LeastNatural
  <2>3. k \in Nodes /\ f[k] # g[k] /\ k \in Nat
    BY <2>1, <2>2 DEF D
  <2>4. ASSUME NEW j \in 1..(k - 1) PROVE f[j] = g[j]
    <3>1. j \in Nodes /\ ~(k <= j)
      BY <1>1, <2>3
    <3>2. j \notin D
      BY <2>2, <3>1
    <3>3. QED
      BY <3>1, <3>2 DEF D
  <2>5. g[k] <= f[k]
    BY <1>6, <2>3, <2>4, GreedyLowest
  <2>6. g[k] < f[k]
    BY <2>3, <2>5, <1>1, <1>2, <1>4
  <2>7. Before(g, f)
    BY <2>3, <2>4, <2>6 DEF Before
  <2>8. QED
    BY <1>3, <1>6, <2>7
<1>7. QED
  BY <1>3, <1>5, <1>6 DEF FirstExtension

\* The order of a pass goes on with the node it finishes with.
LEMMA TraceExtends ==
  ASSUME HInv, Running, Ready # {}, MarkDone,
         NEW p, p = pass, NEW c \in Nat, NEW g, Trace(p, g, c)
  PROVE  \E h : Trace(p, h, c + 1)'
<1> DEFINE s == Selected
<1>1. pass \in Passes /\ UNCHANGED <<plan, pass, ran>>
  BY DEF Running, MarkDone
<1>2. s \in Nodes /\ s \notin done[pass] /\ done'[pass] = done[pass] \cup {s}
  BY <1>1, MarkDoneStep DEF HInv
<1>3. /\ g \in [1..c -> Nodes] /\ done[pass] = {g[j] : j \in 1..c}
      /\ \A k \in 1..c : /\ g[k] \in ReadyAfter(Prefix(g, k))
                         /\ \A x \in ReadyAfter(Prefix(g, k)) : g[k] <= x
  BY DEF Trace, Greedy
<1>4. s \in ReadyAfter(done[pass]) /\ \A x \in ReadyAfter(done[pass]) : s <= x
  <2>1. Ready = ReadyAfter(done[pass]) /\ Ready \subseteq Nat
    BY DEF Ready, ReadyAfter, Nodes, HInv, RInv
  <2> DEFINE R == Ready
  <2> HIDE DEF R
  <2>2. R \subseteq Nat /\ R # {}
    BY <2>1 DEF R
  <2>3. \E x \in R : \A y \in R : x <= y
    BY <2>2, LeastNatural
  <2>4. Min(R) \in R /\ \A y \in R : Min(R) <= y
    BY <2>3 DEF Min
  <2>5. QED
    BY <2>1, <2>4 DEF R, Selected
<1>5. Kind(s) = pass => \A k, l \in DOMAIN ran : k < l /\ ran[k][1] = s => ran[l][1] = s
  BY <1>1 DEF HInv, InProgress, Working, Kind
<1> HIDE DEF s
<1>6. PICK h : h \in [1..(c + 1) -> Nodes] /\ h[c + 1] = s /\ \A j \in 1..c : h[j] = g[j]
  <2> DEFINE f == [j \in 1..(c + 1) |-> IF j = c + 1 THEN s ELSE g[j]]
  <2>1. f \in [1..(c + 1) -> Nodes] /\ f[c + 1] = s /\ \A j \in 1..c : f[j] = g[j]
    BY <1>2, <1>3
  <2>2. QED
    BY <2>1
<1>7. \A k \in 1..c : Prefix(h, k) = Prefix(g, k)
  BY <1>6 DEF Prefix
<1>8. Prefix(h, c + 1) = done[pass]
  BY <1>3, <1>6 DEF Prefix
<1>9. ASSUME NEW k \in 1..(c + 1)
      PROVE  /\ h[k] \in ReadyAfter(Prefix(h, k))
             /\ \A x \in ReadyAfter(Prefix(h, k)) : h[k] <= x
  <2>1. CASE k = c + 1
    BY <2>1, <1>4, <1>6, <1>8
  <2>2. CASE k # c + 1
    BY <2>2, <1>3, <1>6, <1>7
  <2>3. QED
    BY <2>1, <2>2
<1>10. Greedy(h, c + 1)
  BY <1>6, <1>9 DEF Greedy
<1>11. done'[pass] = {h[j] : j \in 1..(c + 1)}
  BY <1>2, <1>3, <1>6
<1>12. ASSUME NEW k \in DOMAIN ran, NEW l \in DOMAIN ran, k < l,
              Kind(ran[k][1]) = pass, Kind(ran[l][1]) = pass,
              NEW x \in 1..(c + 1), NEW y \in 1..(c + 1), h[x] = ran[k][1], h[y] = ran[l][1]
       PROVE  x <= y
  <2>1. CASE y = c + 1
    BY <2>1
  <2>2. CASE x # c + 1 /\ y # c + 1
    BY <2>2, <1>6, <1>12 DEF Trace, WorkOrdered
  <2>3. CASE x = c + 1 /\ y # c + 1
    <3>1. ran[k][1] = s /\ Kind(s) = pass
      BY <2>3, <1>6, <1>12
    <3>2. ran[l][1] = s
      BY <3>1, <1>5, <1>12
    <3>3. h[y] \in done[pass]
      BY <2>3, <1>3, <1>6
    <3>4. QED
      BY <3>2, <3>3, <1>2, <1>12
  <2>4. QED
    BY <2>1, <2>2, <2>3
<1>13. WorkOrdered(p, h, c + 1)
  BY <1>12 DEF WorkOrdered
<1>14. Greedy(h, c + 1)' /\ WorkOrdered(p, h, c + 1)'
  BY <1>1, <1>10, <1>13 DEF Greedy, ReadyAfter, Prefix, WorkOrdered, Nodes, Kind
<1>15. Trace(p, h, c + 1)'
  BY <1>1, <1>11, <1>14 DEF Trace
<1>16. QED
  BY <1>15

\* A pass that finishes with no node keeps its order, whatever is applied: the
\* selected node is not in it.
LEMMA TraceKept ==
  ASSUME HInv, NEW p \in Passes, NEW c \in Nat, NEW g, Trace(p, g, c),
         UNCHANGED plan, done'[p] = done[p],
         UNCHANGED ran \/ (Working /\ m < Size(Selected) /\ Applies)
  PROVE  Trace(p, g, c)'
<1>1. Greedy(g, c)' /\ done'[p] = {g[j] : j \in 1..c}
  BY DEF Trace, Greedy, ReadyAfter, Prefix, Nodes
<1>2. CASE UNCHANGED ran
  BY <1>1, <1>2 DEF Trace, WorkOrdered, Kind
<1>3. CASE Working /\ m < Size(Selected) /\ Applies
  <2> DEFINE s == Selected
             n == Len(ran)
  <2>1. pass \in Passes /\ Ready # {} /\ Kind(s) = pass
    BY <1>3 DEF Working, Running, Kind
  <2>2. s \in Nodes /\ s \notin done[pass] /\ s \in Nat /\ m + 1 \in Nat
    BY <2>1, SelectedFacts DEF HInv, InProgress, Nodes, PlanShape
  <2>3. ran' = Append(ran, <<s, m + 1>>) /\ ran \in Seq(Nat \X Nat)
    BY <1>3 DEF HInv, HistoryOK, Applies
  <2> HIDE DEF s
  <2>4. /\ DOMAIN ran = 1..n /\ n \in Nat /\ DOMAIN ran' = 1..(n + 1)
        /\ \A k \in 1..n : ran'[k] = ran[k]
        /\ ran'[n + 1] = <<s, m + 1>>
    BY <2>2, <2>3, AppendRan
  <2> HIDE DEF n
  <2>5. ASSUME NEW k \in 1..(n + 1), NEW l \in 1..(n + 1), k < l,
               Kind(ran'[k][1]) = p, Kind(ran'[l][1]) = p,
               NEW x \in 1..c, NEW y \in 1..c, g[x] = ran'[k][1], g[y] = ran'[l][1]
        PROVE  x <= y
    <3>1. l # n + 1
      BY <2>1, <2>2, <2>4, <2>5 DEF Trace
    <3>2. k \in 1..n /\ l \in 1..n /\ ran'[k] = ran[k] /\ ran'[l] = ran[l]
      BY <3>1, <2>4, <2>5
    <3>3. QED
      BY <3>2, <2>4, <2>5 DEF Trace, WorkOrdered
  <2>6. WorkOrdered(p, g, c)'
    BY <2>4, <2>5 DEF WorkOrdered, Kind
  <2>7. QED
    BY <1>1, <2>6 DEF Trace
<1>4. QED
  BY <1>2, <1>3

\* Each pass has an order, in every state of the run.
LEMMA NextTraced ==
  ASSUME HInv, Traced, [RNext]_rvars
  PROVE  Traced'
<1> SUFFICES ASSUME NEW p \in Passes
             PROVE  \E c \in Nat : \E g : Trace(p, g, c)'
  BY DEF Traced
<1>1. PICK c \in Nat : \E g : Trace(p, g, c)
  BY DEF Traced
<1>2. PICK g : Trace(p, g, c)
  BY <1>1
<1>3. CASE PassOver \/ FinishNode
  <2>1. Running /\ Ready # {} /\ MarkDone /\ pass \in Passes
    BY <1>3 DEF PassOver, FinishNode, Working, Running
  <2>2. CASE p = pass
    <3>1. \E h : Trace(p, h, c + 1)'
      BY <2>1, <2>2, <1>2, TraceExtends
    <3>2. c + 1 \in Nat
      OBVIOUS
    <3>3. QED
      BY <3>1, <3>2
  <2>3. CASE p # pass
    <3>1. UNCHANGED <<plan, ran>> /\ done'[p] = done[p]
      BY <2>1, <2>3, MarkDoneStep DEF HInv, MarkDone
    <3>2. Trace(p, g, c)'
      BY <3>1, <1>2, TraceKept
    <3>3. QED
      BY <3>2
  <2>4. QED
    BY <2>2, <2>3
<1>4. CASE ~(PassOver \/ FinishNode)
  <2>1. /\ UNCHANGED <<plan, done>>
        /\ UNCHANGED ran \/ (Working /\ m < Size(Selected) /\ Applies)
    BY <1>4 DEF RNext, rvars, Stuck, Absent, Apply, ApplyFails, StartKernels, Return,
                Fail, Applies, Size, Members
  <2>2. Trace(p, g, c)'
    BY <2>1, <1>2, TraceKept
  <2>3. QED
    BY <2>2
<1>5. QED
  BY <1>3, <1>4

\* Initially it is empty.
LEMMA InitTraced ==
  ASSUME RInit
  PROVE  Traced
<1> SUFFICES ASSUME NEW p \in Passes PROVE \E c \in Nat : \E g : Trace(p, g, c)
  BY DEF Traced
<1>1. ran = <<>> /\ done[p] = {}
  BY DEF RInit
<1>2. DOMAIN ran = {}
  BY <1>1
<1> DEFINE g == [j \in 1..0 |-> 0]
<1>3. g \in [1..0 -> Nodes]
  OBVIOUS
<1>4. Trace(p, g, 0)
  BY <1>1, <1>2, <1>3 DEF Trace, Greedy, WorkOrdered
<1>5. QED
  BY <1>4

\* The order of a pass that is over has all nodes in it.
LEMMA WholeTrace ==
  ASSUME PlanShape(plan), NEW p \in Passes, done[p] = Nodes,
         NEW c \in Nat, NEW g, Trace(p, g, c)
  PROVE  c = Len(plan.nodes)
<1>1. Len(plan.nodes) \in Nat /\ Nodes = 1..Len(plan.nodes)
  BY DEF PlanShape, Nodes
<1>2. g \in [1..c -> Nodes] /\ Nodes = {g[j] : j \in 1..c}
  BY DEF Trace, Greedy
<1>3. g \in Surjection(1..c, Nodes)
  BY <1>2 DEF Surjection
<1>4. g \in Injection(1..c, Nodes)
  BY <1>2, GreedyDistinct DEF Trace, Injection, IsInjective
<1>5. IsFiniteSet(1..c) /\ Cardinality(1..c) = c
  BY FS_Interval
<1>6. Cardinality(Nodes) = Len(plan.nodes)
  BY <1>1, FS_Interval
<1>7. Cardinality(Nodes) = Cardinality(1..c)
  BY <1>3, <1>4, <1>5, FS_Surjection
<1>8. QED
  BY <1>5, <1>6, <1>7

\* So the work of a finished run was done in the first order that the edges allow.
LEMMA DeterministicFromTraced ==
  ASSUME HInv, Traced
  PROVE  Deterministic
<1> SUFFICES ASSUME pass = "done", NEW a \in Nodes, NEW b \in Nodes, Kind(a) = Kind(b),
                    NEW k \in Turns(a), NEW l \in Turns(b), k < l, a # b
             PROVE  \E i, j \in Nodes : i < j /\ FirstExtension[i] = a /\ FirstExtension[j] = b
  BY DEF Deterministic, Kind
<1>1. k \in DOMAIN ran /\ l \in DOMAIN ran /\ ran[k][1] = a /\ ran[l][1] = b
  BY DEF Turns
<1> DEFINE p == Kind(a)
<1>2. p \in Passes
  BY <1>1 DEF HInv, HistoryOK
<1> HIDE DEF p
<1>3. done[p] = Nodes /\ PlanShape(plan)
  BY <1>2 DEF HInv, PassesOver
<1>4. PICK c \in Nat : \E g : Trace(p, g, c)
  BY <1>2 DEF Traced
<1>5. PICK g : Trace(p, g, c)
  BY <1>4
<1>6. c = Len(plan.nodes) /\ Nodes = 1..c
  BY <1>2, <1>3, <1>5, WholeTrace DEF Nodes
<1>7. FirstExtension = g
  BY <1>3, <1>5, <1>6, GreedyIsFirst DEF Trace
<1>8. Nodes = {g[j] : j \in 1..c}
  BY <1>3, <1>5 DEF Trace
<1>9. PICK x \in 1..c : g[x] = a
  BY <1>8
<1>10. PICK y \in 1..c : g[y] = b
  BY <1>8
<1>11. x <= y
  BY <1>1, <1>5, <1>9, <1>10 DEF Trace, WorkOrdered, p
<1>12. x < y
  BY <1>9, <1>10, <1>11
<1>13. QED
  BY <1>6, <1>7, <1>9, <1>10, <1>12

\* The fields keep their types.
LEMMA NextRunTypeOK ==
  ASSUME RInv, RunTypeOK, [RNext]_rvars
  PROVE  RunTypeOK'
<1>1. done' \in [Passes -> SUBSET Nodes']
  BY NextRInv DEF RInv
<1>2. /\ pass' \in Passes \cup {"done", "failed"}
      /\ why' \in {"nothing", "cycle", "absent", "node"}
      /\ m' \in Nat
  BY DEF RunTypeOK, RNext, rvars, Stuck, PassOver, Absent, Apply, ApplyFails, FinishNode,
         StartKernels, Return, Fail, MarkDone, Passes
<1>3. QED
  BY <1>1, <1>2 DEF RunTypeOK

\* SCHED.md 6 for plans of any size and shape: when anything of a node has run, all
\* of every node of its kind that the edges put before it has, and earlier, also when
\* the run failed (ccw_plan_apply_rewrites, ccw_plan_apply_kernels).
THEOREM RunsInOrder == RSpec => []OrderInPass
<1>1. RInit => HInv
  BY InitHInv
<1>2. HInv /\ [RNext]_rvars => HInv'
  BY NextHInv
<1>3. HInv => OrderInPass
  BY OrderFromHInv
<1>4. QED
  BY <1>1, <1>2, <1>3, PTL DEF RSpec

\* A run that ends well, of a plan of any size and shape, has applied every ruleset
\* and capability once, in the order that "node ids are the deterministic tie-breaker"
\* makes the only one: the first linear extension of the edges.
THEOREM FinishedRunsComplete == RSpec => []FinishedRun
<1> DEFINE Inv == HInv /\ Traced /\ RunTypeOK
<1>1. RInit => Inv
  <2> SUFFICES ASSUME RInit PROVE Inv
    OBVIOUS
  <2>1. HInv /\ Traced
    BY InitHInv, InitTraced
  <2>2. RunTypeOK
    BY <2>1 DEF RInit, RunTypeOK, HInv, RInv, Passes
  <2>3. QED
    BY <2>1, <2>2
<1>2. Inv /\ [RNext]_rvars => Inv'
  BY NextHInv, NextTraced, NextRunTypeOK DEF HInv
<1>3. Inv => FinishedRun
  BY AllFromHInv, DeterministicFromTraced DEF FinishedRun
<1>4. QED
  BY <1>1, <1>2, <1>3, PTL DEF RSpec

----------------------------------------------------------------------------
(* Builder and execution together: no sealed plan is found to be cyclic when *)
(* it is executed, barriers divide the work, and ccw_plan_check finds every *)
(* drift that would stop an execution.                                      *)
\* Edges E order n nodes.
Order(n, E) == n \in Nat /\ E \subseteq (1..n) \X (1..n) /\ WellFounded(n, E)

\* What was sealed is an order, and what is executed is what was sealed.
TextIsOrder ==
  text # NoPlan => /\ Order(Len(text.lines), text.edges)
                   /\ DOMAIN text.lines = 1..Len(text.lines)
PlanIsOrder == pass \in Passes => Order(Len(plan.nodes), plan.edges)
NothingDone == pass = "idle" => Fresh

\* The plan in execution was read from the text; a text that does not parse is not
\* executed.
PlanIsText == Parses(text) /\ plan = [nodes |-> ParsedNodes(text), edges |-> text.edges]
PlanRead ==
  pass # "idle" => text # NoPlan /\ (PlanIsText \/ (pass = "failed" /\ ran = <<>>))

\* An execution that found something absent has ended.
AbsentCaught == why = "absent" => pass = "failed" /\ DriftCaught

PInv == /\ BuilderInv /\ TextIsOrder
        /\ HInv /\ PlanIsOrder /\ NothingDone /\ PlanRead
        /\ SealedNeverStuck /\ AbsentCaught

\* A pass that has nodes left has one that is ready: of the nodes that are left,
\* one without predecessors among them.
LEMMA NeverStuck ==
  ASSUME HInv, Running, Order(Len(plan.nodes), plan.edges)
  PROVE  Ready # {}
<1> DEFINE S == Nodes \ done[pass]
<1>1. done[pass] \subseteq Nodes /\ S # {}
  BY DEF Running, HInv, RInv
<1>2. S \in (SUBSET (1..Len(plan.nodes))) \ {{}}
  BY <1>1 DEF Nodes
<1>3. PICK i \in S : \A j \in S : <<j, i>> \notin plan.edges
  BY <1>2 DEF Order, WellFounded
<1>4. ASSUME NEW e \in plan.edges, e[2] = i PROVE e[1] \in done[pass]
  <2>1. e = <<e[1], i>> /\ e[1] \in Nodes
    BY <1>4 DEF Order, Nodes
  <2>2. QED
    BY <2>1, <1>3
<1>5. i \in Ready
  BY <1>3, <1>4 DEF Ready
<1>6. QED
  BY <1>5

\* A call of the script: what it seals is an order.
LEMMA BuilderStep ==
  ASSUME BuilderInv, TextIsOrder, [SNext]_svars
  PROVE  BuilderInv' /\ TextIsOrder'
<1>1. BuilderInv'
  BY NextBuilderInv
<1>2. CASE Seal
  <2>1. text' = PlanText /\ Acyclic(Len(nodes), edges)
    BY <1>2 DEF Seal
  <2>2. /\ Len(nodes) \in Nat /\ Len(PlanText.lines) = Len(nodes)
        /\ DOMAIN PlanText.lines = 1..Len(nodes)
        /\ PlanText.edges = edges
    BY PlanTextLength DEF BuilderInv, SInv
  <2>3. Order(Len(nodes), edges)
    BY <2>1, <2>2, AcyclicSound DEF Order, BuilderInv, EdgesInPlan
  <2>4. QED
    BY <1>1, <2>1, <2>2, <2>3 DEF TextIsOrder
<1>3. CASE UNCHANGED text
  BY <1>1, <1>3 DEF TextIsOrder
<1>4. QED
  BY <1>2, <1>3 DEF SNext, svars, RequireKernel, RequireCapability, Rewrite, Barrier,
                    AddNode, Edge

\* Node i of a plan that was read: its line, split into name and members.
LEMMA ReadNode ==
  ASSUME BuilderInv, TextIsOrder, text # NoPlan, Parses(text), NEW i \in 1..Len(text.lines)
  PROVE  /\ i \in DOMAIN nodes /\ DOMAIN text.lines = 1..Len(text.lines)
         /\ text.lines[i].words \in Seq(STRING) /\ text.lines[i].words # <<>>
         /\ text.lines[i].kind = nodes[i].kind /\ nodes[i].kind \in NodeKinds
         /\ text.lines[i].words = nodes[i].name \o nodes[i].members
         /\ ParsedNodes(text)[i].kind = nodes[i].kind
         /\ ParsedNodes(text)[i].name = <<Head(text.lines[i].words)>>
         /\ ParsedNodes(text)[i].members = Tail(text.lines[i].words)
         /\ nodes[i].kind = "barrier" => Tail(text.lines[i].words) = <<>>
<1>1. Typed /\ text = PlanText /\ DOMAIN text.lines = 1..Len(text.lines)
  BY DEF BuilderInv, TextIsPlan, TextIsOrder
<1>2. i \in DOMAIN nodes
  BY <1>1 DEF PlanText
<1>3. /\ nodes[i] \in Record
      /\ text.lines[i].kind = nodes[i].kind
      /\ text.lines[i].words = nodes[i].name \o nodes[i].members
      /\ nodes[i].name \in Seq(STRING) /\ nodes[i].members \in Seq(STRING)
  BY <1>1, <1>2, TextLine
<1>4. text.lines[i].words \in Seq(STRING)
  BY <1>3, LineWords
<1>5. nodes[i].kind \in NodeKinds
  BY <1>3 DEF Record
<1>6. /\ text.lines[i].words # <<>>
      /\ nodes[i].kind = "barrier" => Tail(text.lines[i].words) = <<>>
  BY <1>1, <1>3 DEF Parses
<1>7. /\ ParsedNodes(text)[i].kind = nodes[i].kind
      /\ ParsedNodes(text)[i].name = <<Head(text.lines[i].words)>>
      /\ ParsedNodes(text)[i].members = Tail(text.lines[i].words)
  BY <1>1, <1>3 DEF ParsedNodes
<1>8. QED
  BY <1>1, <1>2, <1>3, <1>4, <1>5, <1>6, <1>7

\* What parse_plan_text reads is a plan.
LEMMA ReadShape ==
  ASSUME BuilderInv, TextIsOrder, text # NoPlan, Parses(text)
  PROVE  /\ Len(ParsedNodes(text)) = Len(text.lines)
         /\ PlanShape([nodes |-> ParsedNodes(text), edges |-> text.edges])
<1> DEFINE n == Len(text.lines)
           q == ParsedNodes(text)
           L == {q[i] : i \in 1..n}
<1>1. DOMAIN text.lines = 1..n /\ n \in Nat /\ text.edges \subseteq (1..n) \X (1..n)
  BY DEF TextIsOrder, Order
<1>2. q = [i \in 1..n |-> q[i]]
  BY <1>1 DEF ParsedNodes
<1>3. ASSUME NEW i \in 1..n
      PROVE  /\ q[i].kind \in Passes \cup {"barrier"}
             /\ Len(q[i].members) \in Nat
             /\ DOMAIN q[i].members = 1..Len(q[i].members)
             /\ q[i].kind = "barrier" => Len(q[i].members) = 0
  <2> DEFINE w == text.lines[i].words
  <2>1. /\ w \in Seq(STRING) /\ w # <<>> /\ q[i].kind = nodes[i].kind
        /\ nodes[i].kind \in NodeKinds /\ q[i].members = Tail(w)
        /\ nodes[i].kind = "barrier" => Tail(w) = <<>>
    BY ReadNode
  <2> HIDE DEF w, q
  <2>2. Tail(w) \in Seq(STRING)
    BY <2>1, HeadTailProperties
  <2>3. Len(Tail(w)) \in Nat /\ DOMAIN Tail(w) = 1..Len(Tail(w))
    BY <2>2, LenProperties
  <2>4. Tail(w) = <<>> => Len(Tail(w)) = 0
    BY <2>2, EmptySeq
  <2>5. QED
    BY <2>1, <2>3, <2>4 DEF NodeKinds, Passes
<1> HIDE DEF q, n
<1>4. q \in [1..n -> L]
  BY <1>2
<1>5. Len(q) = n
  BY <1>1, <1>4, FunctionLength
<1>6. PlanShape([nodes |-> q, edges |-> text.edges])
  BY <1>1, <1>3, <1>5 DEF PlanShape
<1>7. QED
  BY <1>5, <1>6 DEF q, n

\* The driver reads the plan: nothing has been applied yet.
LEMMA ReadPlanStep ==
  ASSUME PInv, ReadPlan
  PROVE  /\ HInv' /\ PlanIsOrder' /\ NothingDone' /\ PlanRead'
         /\ SealedNeverStuck' /\ AbsentCaught'
<1>1. /\ text # NoPlan /\ BuilderInv /\ TextIsOrder /\ Fresh /\ UNCHANGED svars
      /\ Order(Len(text.lines), text.edges)
  BY DEF ReadPlan, PInv, NothingDone, TextIsOrder
<1>2. SealedNeverStuck' /\ NothingDone'
  BY DEF ReadPlan, PInv, SealedNeverStuck, NothingDone
<1>3. AbsentCaught'
  BY DEF ReadPlan, PInv, AbsentCaught
<1>4. UNCHANGED <<text, done, m, ran>>
  BY <1>1 DEF ReadPlan, svars
<1>5. CASE Parses(text)
  <2>1. plan' = [nodes |-> ParsedNodes(text), edges |-> text.edges] /\ pass' = "rewrite"
    BY <1>5 DEF ReadPlan
  <2>2. PlanShape(plan)' /\ Len(plan'.nodes) = Len(text.lines) /\ plan'.edges = text.edges
    <3>1. PlanShape(plan')
      BY <2>1, <1>1, <1>5, ReadShape
    <3>2. QED
      BY <3>1, <2>1, <1>1, <1>5, ReadShape DEF PlanShape
  <2>3. Fresh'
    BY <2>1, <2>2, <1>1, <1>4 DEF Fresh
  <2>4. HInv'
    BY <2>3, FreshHInvNext
  <2>5. PlanIsOrder'
    BY <2>2, <1>1 DEF PlanIsOrder, Order
  <2>6. PlanRead'
    BY <2>1, <1>1, <1>4, <1>5 DEF PlanRead, PlanIsText, Parses, ParsedNodes
  <2>7. QED
    BY <2>4, <2>5, <2>6, <1>2, <1>3
<1>6. CASE ~Parses(text)
  <2>1. plan' = plan /\ pass' = "failed"
    BY <1>6 DEF ReadPlan
  <2>2. Fresh'
    BY <2>1, <1>1, <1>4 DEF Fresh, PlanShape
  <2>3. HInv'
    BY <2>2, FreshHInvNext
  <2>4. PlanIsOrder' /\ PlanRead'
    BY <2>1, <1>1, <1>4 DEF PlanIsOrder, PlanRead, Passes, Fresh
  <2>5. QED
    BY <2>3, <2>4, <1>2, <1>3
<1>7. QED
  BY <1>5, <1>6

\* Everything that is a member of a line is seen by the check.
LEMMA SeenMembers ==
  ASSUME NEW w \in Seq(STRING), w # <<>>, NEW k \in 1..Len(Tail(w))
  PROVE  Tail(w)[k] \in ToSet(Seen(w))
<1>1. /\ Tail(w) \in Seq(STRING) /\ Len(Tail(w)) = Len(w) - 1
      /\ Tail(w)[k] = w[k + 1]
  BY HeadTailProperties
<1>2. Len(w) \in Nat /\ DOMAIN Tail(w) = 1..Len(Tail(w))
  BY <1>1, LenProperties
<1>3. CASE Head(w) \in DOMAIN Echo
  <2> DEFINE e == Echo[Head(w)]
             v == e \o w
             a == Len(e)
             b == Len(w)
             j == a + (k + 1)
  <2>1. e \in Seq(STRING)
    BY <1>3, EchoAssumption
  <2>2. Seen(w) = v
    BY <1>3 DEF Seen
  <2> HIDE DEF e
  <2>3. v \in Seq(STRING) /\ Len(v) = a + b /\ a \in Nat
    BY <2>1, ConcatProperties, LenProperties
  <2>4. \A i \in 1..Len(v) : v[i] = IF i <= a THEN e[i] ELSE w[i - a]
    BY <2>1, ConcatProperties
  <2>5. DOMAIN v = 1..(a + b)
    BY <2>3, LenProperties
  <2>6. b \in Nat /\ k \in 1..(b - 1)
    BY <1>1, <1>2
  <2> HIDE DEF v, a, b
  <2>7. j \in 1..(a + b) /\ ~(j <= a) /\ j - a = k + 1
    BY <2>3, <2>6
  <2>8. v[j] = w[k + 1]
    BY <2>3, <2>4, <2>7
  <2>9. QED
    BY <2>2, <2>5, <2>7, <2>8, <1>1 DEF ToSet
<1>4. CASE Head(w) \notin DOMAIN Echo
  BY <1>2, <1>4 DEF Seen, ToSet
<1>5. QED
  BY <1>3, <1>4

\* A run that stops because something is absent stops at a node that the check
\* refuses with the same manifests.
LEMMA AbsentIsDrift ==
  ASSUME PInv, Absent
  PROVE  ~ccw_plan_check(text, manifest)
<1> DEFINE s == Selected
<1>1. /\ pass \in Passes /\ Ready # {} /\ plan.nodes[s].kind = pass /\ ~Listed
  BY DEF Absent, Working, Running
<1>2. s \in Nodes
  BY <1>1, SelectedFacts DEF PInv
<1>3. /\ BuilderInv /\ TextIsOrder /\ text # NoPlan /\ Parses(text)
      /\ plan.nodes = ParsedNodes(text)
  BY <1>1 DEF PInv, PlanRead, PlanIsText, Passes
<1>4. s \in 1..Len(text.lines)
  BY <1>2, <1>3, ReadShape DEF Nodes
<1> DEFINE w == text.lines[s].words
<1>5. /\ w \in Seq(STRING) /\ w # <<>> /\ DOMAIN text.lines = 1..Len(text.lines)
      /\ text.lines[s].kind = pass
      /\ plan.nodes[s].name = <<Head(w)>> /\ plan.nodes[s].members = Tail(w)
  BY <1>1, <1>3, <1>4, ReadNode
<1>6. CASE pass = "kernel"
  <2>1. <<Head(w)>> \notin manifest.kernels
    BY <1>1, <1>5, <1>6 DEF Listed
  <2>2. QED
    BY <2>1, <1>4, <1>5, <1>6 DEF ccw_plan_check
<1>7. CASE pass = "rewrite"
  <2>1. m < Len(Tail(w)) /\ Tail(w)[m + 1] \notin manifest.rules
    BY <1>1, <1>5, <1>7 DEF Listed, Members
  <2>2. m \in Nat
    BY <1>1 DEF PInv, HInv, InProgress
  <2>3. Len(Tail(w)) \in Nat
    BY <1>5, HeadTailProperties, LenProperties
  <2>4. m + 1 \in 1..Len(Tail(w))
    BY <2>1, <2>2, <2>3
  <2>5. Tail(w)[m + 1] \in ToSet(Seen(w))
    BY <1>5, <2>4, SeenMembers
  <2>6. ~(ToSet(Seen(w)) \subseteq manifest.rules)
    BY <2>1, <2>5
  <2>7. QED
    BY <2>6, <1>4, <1>5, <1>7 DEF ccw_plan_check
<1>8. QED
  BY <1>1, <1>6, <1>7 DEF Passes

\* A step of the execution, which is never Stuck.
LEMMA RunStep ==
  ASSUME PInv, RNext, UNCHANGED svars
  PROVE  /\ HInv' /\ PlanIsOrder' /\ NothingDone' /\ PlanRead'
         /\ SealedNeverStuck' /\ AbsentCaught'
<1>1. HInv'
  BY NextHInv DEF PInv
<1>2. pass \in Passes /\ pass' # "idle"
  BY DEF RNext, Stuck, PassOver, Absent, Apply, ApplyFails, FinishNode, StartKernels,
         Return, Fail, MarkDone, Running, Working, Passes
<1>3. UNCHANGED <<plan, text>>
  BY DEF RNext, Stuck, PassOver, Absent, Apply, ApplyFails, FinishNode, StartKernels,
         Return, Fail, MarkDone, svars
<1>4. PlanIsOrder' /\ NothingDone'
  BY <1>2, <1>3 DEF PInv, PlanIsOrder, NothingDone
<1>5. PlanRead'
  <2>1. text # NoPlan /\ PlanIsText
    BY <1>2 DEF PInv, PlanRead, Passes
  <2>2. PlanIsText'
    BY <2>1, <1>3 DEF PlanIsText, Parses, ParsedNodes
  <2>3. QED
    BY <2>1, <2>2, <1>3 DEF PlanRead
<1>6. ~Stuck
  BY <1>2, NeverStuck DEF Stuck, PInv, PlanIsOrder
<1>7. SealedNeverStuck'
  BY <1>6 DEF RNext, PassOver, Absent, Apply, ApplyFails, FinishNode, StartKernels,
              Return, Fail, MarkDone, PInv, SealedNeverStuck
<1>8. AbsentCaught'
  <2>1. why # "absent"
    BY <1>2 DEF PInv, AbsentCaught, Passes
  <2>2. CASE Absent
    <3>1. ~ccw_plan_check(text, manifest)
      BY <2>2, AbsentIsDrift
    <3>2. pass' = "failed" /\ manifest' = manifest
      BY <2>2 DEF Absent, Fail
    <3>3. ccw_plan_check(text, manifest)' = ccw_plan_check(text, manifest)
      BY <3>2, <1>3 DEF ccw_plan_check, Seen
    <3>4. QED
      BY <3>1, <3>2, <3>3 DEF AbsentCaught, DriftCaught
  <2>3. CASE ~Absent
    <3>1. why' # "absent"
      BY <2>1, <2>3 DEF RNext, Stuck, PassOver, Apply, ApplyFails, FinishNode,
                        StartKernels, Return, Fail, MarkDone
    <3>2. QED
      BY <3>1 DEF AbsentCaught
  <2>4. QED
    BY <2>2, <2>3
<1>9. QED
  BY <1>1, <1>4, <1>5, <1>7, <1>8

\* While a script runs nothing is executed.
LEMMA IdleStep ==
  ASSUME PInv, pass = "idle", UNCHANGED rvars
  PROVE  /\ HInv' /\ PlanIsOrder' /\ NothingDone' /\ PlanRead'
         /\ SealedNeverStuck' /\ AbsentCaught'
<1>1. UNCHANGED <<plan, pass, why, done, m, ran>>
  BY DEF rvars
<1>2. HInv'
  BY NextHInv DEF PInv
<1>3. Fresh'
  BY <1>1 DEF PInv, NothingDone, Fresh, PlanShape
<1>4. why # "absent"
  BY DEF PInv, AbsentCaught
<1>5. QED
  BY <1>1, <1>2, <1>3, <1>4 DEF PInv, PlanIsOrder, NothingDone, PlanRead, SealedNeverStuck,
                               AbsentCaught, Passes

\* The three kinds of step together.
LEMMA NextPInv ==
  ASSUME PInv, [PNext]_pvars
  PROVE  PInv'
<1>1. CASE pass = "idle" /\ SNext /\ UNCHANGED rvars
  BY <1>1, BuilderStep, IdleStep DEF PInv
<1>2. CASE UNCHANGED svars /\ (ReadPlan \/ RNext)
  <2>1. BuilderInv' /\ TextIsOrder'
    BY <1>2, BuilderStep DEF PInv
  <2>2. QED
    BY <1>2, <2>1, ReadPlanStep, RunStep DEF PInv
<1>3. CASE UNCHANGED pvars
  <2>1. UNCHANGED svars /\ UNCHANGED rvars
    BY <1>3 DEF pvars
  <2>2. BuilderInv' /\ TextIsOrder'
    BY <2>1, BuilderStep DEF PInv
  <2>3. HInv'
    BY <2>1, NextHInv DEF PInv
  <2>4. UNCHANGED <<text, plan, pass, why, done, m, ran, manifest>>
    BY <2>1 DEF svars, rvars
  <2>5. PlanIsOrder' /\ SealedNeverStuck'
    BY <2>4 DEF PInv, PlanIsOrder, SealedNeverStuck
  <2>6. Fresh' = Fresh /\ PlanIsText' = PlanIsText
    BY <2>4 DEF Fresh, PlanShape, PlanIsText, Parses, ParsedNodes
  <2>7. NothingDone' /\ PlanRead'
    BY <2>4, <2>6 DEF PInv, NothingDone, PlanRead
  <2>8. ccw_plan_check(text, manifest)' = ccw_plan_check(text, manifest)
    BY <2>4 DEF ccw_plan_check, Seen
  <2>9. AbsentCaught'
    BY <2>4, <2>8 DEF PInv, AbsentCaught, DriftCaught
  <2>10. QED
    BY <2>2, <2>3, <2>5, <2>7, <2>9 DEF PInv
<1>4. QED
  BY <1>1, <1>2, <1>3 DEF PNext, ReadPlan

LEMMA InitPInv ==
  ASSUME PInit
  PROVE  PInv
<1>1. BuilderInv /\ text = NoPlan
  BY InitBuilderInv DEF PInit, SInit
<1>2. plan.nodes = <<>> /\ plan.edges = {} /\ Len(plan.nodes) = 0
  BY DEF PInit
<1>3. PlanShape(plan)
  BY <1>2 DEF PlanShape
<1>4. Fresh /\ pass = "idle" /\ why = "nothing"
  BY <1>3 DEF PInit, Fresh
<1>5. HInv
  BY <1>4, FreshHInv
<1>6. QED
  BY <1>1, <1>4, <1>5 DEF PInv, TextIsOrder, PlanIsOrder, NothingDone, PlanRead,
                         SealedNeverStuck, AbsentCaught, Passes

\* Two nodes with a barrier between them are ordered by the edges of the plan.
LEMMA BarrierFromPInv ==
  ASSUME PInv
  PROVE  BarrierRespected
<1> SUFFICES ASSUME NEW b \in Barriers, NEW i \in 1..(b - 1), NEW j \in (b + 1)..Len(nodes),
                    pass # "idle", nodes[i].kind = nodes[j].kind
             PROVE  After(i, j)
  BY DEF BarrierRespected
<1>1. CASE ran = <<>>
  <2>1. Turns(j) = {}
    BY <1>1 DEF Turns
  <2>2. QED
    BY <2>1 DEF After
<1>2. CASE ran # <<>>
  <2>1. /\ BuilderInv /\ TextIsOrder /\ HInv /\ text # NoPlan /\ Parses(text)
        /\ plan.nodes = ParsedNodes(text) /\ plan.edges = text.edges /\ text = PlanText
    BY <1>2 DEF PInv, PlanRead, PlanIsText, BuilderInv, TextIsPlan
  <2>2. /\ <<i, b>> \in edges /\ <<b, j>> \in edges
    BY <2>1 DEF BuilderInv, SInv, BarriersComplete
  <2>3. Len(nodes) \in Nat /\ Len(text.lines) = Len(nodes) /\ plan.edges = edges
        /\ DOMAIN nodes = 1..Len(nodes)
    <3>1. Typed /\ IsSequence
      BY <2>1 DEF BuilderInv, SInv
    <3>2. nodes \in Seq(Record)
      BY <3>1 DEF Typed
    <3>3. QED
      BY <2>1, <3>1, <3>2, PlanTextLength, LenProperties
  <2>4. b \in 1..Len(nodes)
    BY <2>3 DEF Barriers
  <2>5. i \in 1..Len(nodes) /\ j \in 1..Len(nodes) /\ i # j
    BY <2>3, <2>4
  <2>6. Nodes = 1..Len(nodes)
    BY <2>1, <2>3, ReadShape DEF Nodes
  <2>7. plan.nodes[i].kind = plan.nodes[j].kind
    <3>1. plan.nodes[i].kind = nodes[i].kind /\ plan.nodes[j].kind = nodes[j].kind
      BY <2>1, <2>3, <2>5, ReadNode
    <3>2. QED
      BY <3>1
  <2>8. Precedes(i, j)
    <3> SUFFICES ASSUME NEW S \in SUBSET Nodes,
                        \A e \in plan.edges : e[1] = i \/ e[1] \in S => e[2] \in S
                 PROVE  j \in S
      BY <2>5 DEF Precedes
    <3>1. b \in S
      BY <2>2, <2>3
    <3>2. QED
      BY <2>2, <2>3, <3>1
  <2>9. OrderInPass
    BY <2>1, OrderFromHInv
  <2>10. QED
    BY <2>5, <2>6, <2>7, <2>8, <2>9 DEF OrderInPass
<1>3. QED
  BY <1>1, <1>2

\* What the check sees of a line whose name is one word.
LEMMA SeenWords ==
  ASSUME NEW s \in Seq(STRING), NEW t \in Seq(STRING), Len(s) = 1
  PROVE  /\ Head(s \o t) = s[1]
         /\ ToSet(Seen(s \o t)) =
              (IF s[1] \in DOMAIN Echo THEN ToSet(Echo[s[1]]) \cup {s[1]} ELSE {}) \cup ToSet(t)
<1> DEFINE w == s \o t
<1>1. /\ <<Head(w)>> = s /\ Tail(w) = t /\ w \in Seq(STRING)
  BY LineWords
<1>2. Head(w) = s[1]
  BY <1>1
<1>3. CASE s[1] \in DOMAIN Echo
  <2> DEFINE e == Echo[s[1]]
             v == e \o w
             a == Len(e)
             b == Len(t)
  <2>1. Seen(w) = v
    BY <1>2, <1>3 DEF Seen
  <2>2. e \in Seq(STRING)
    BY <1>3, EchoAssumption
  <2>3. DOMAIN e = 1..a /\ DOMAIN t = 1..b /\ a \in Nat /\ b \in Nat
    <3> HIDE DEF e
    <3>1. QED
      BY <2>2, LenProperties
  <2>4. Len(w) = 1 + b /\ \A i \in 1..(1 + b) : w[i] = IF i = 1 THEN s[1] ELSE t[i - 1]
    <3>1. Len(w) = Len(s) + b /\ \A i \in 1..(Len(s) + b) :
                                   w[i] = IF i <= Len(s) THEN s[i] ELSE t[i - Len(s)]
      BY ConcatProperties
    <3> HIDE DEF w, b
    <3>2. \A i \in 1..(1 + b) : (i <= 1 <=> i = 1)
      BY <2>3
    <3>3. QED
      BY <3>1, <3>2, <2>3
  <2>5. DOMAIN v = 1..(a + (1 + b)) /\ \A i \in 1..(a + (1 + b)) :
                                         v[i] = IF i <= a THEN e[i] ELSE w[i - a]
    <3> HIDE DEF e, w
    <3>1. v \in Seq(STRING) /\ Len(v) = a + Len(w)
      BY <1>1, <2>2, ConcatProperties
    <3>2. \A i \in 1..(a + Len(w)) : v[i] = IF i <= a THEN e[i] ELSE w[i - a]
      BY <1>1, <2>2, ConcatProperties
    <3>3. DOMAIN v = 1..Len(v)
      BY <3>1, LenProperties
    <3> HIDE DEF v, a
    <3>4. QED
      BY <3>1, <3>2, <3>3, <2>4
  <2> HIDE DEF e, w, v, a, b
  <2>6. ASSUME NEW x \in ToSet(v) PROVE x \in ToSet(e) \cup {s[1]} \cup ToSet(t)
    <3>1. PICK i \in 1..(a + (1 + b)) : x = v[i]
      BY <2>5 DEF ToSet
    <3>2. CASE i <= a
      <4>1. i \in DOMAIN e /\ v[i] = e[i]
        BY <3>2, <2>3, <2>5
      <4>2. QED
        BY <3>1, <4>1 DEF ToSet
    <3>3. CASE i = a + 1
      <4>1. v[i] = w[1] /\ w[1] = s[1]
        BY <3>3, <2>3, <2>4, <2>5
      <4>2. QED
        BY <3>1, <4>1
    <3>4. CASE i > a + 1
      <4>1. i - a \in 1..(1 + b) /\ i - a # 1 /\ ~(i <= a) /\ (i - a) - 1 \in 1..b
        BY <3>4, <2>3
      <4>2. v[i] = t[(i - a) - 1] /\ (i - a) - 1 \in DOMAIN t
        BY <4>1, <2>3, <2>4, <2>5
      <4>3. QED
        BY <3>1, <4>2 DEF ToSet
    <3>5. QED
      BY <3>2, <3>3, <3>4, <2>3
  <2>7. ASSUME NEW x \in ToSet(e) PROVE x \in ToSet(v)
    <3>1. PICK i \in 1..a : x = e[i]
      BY <2>3 DEF ToSet
    <3>2. i \in 1..(a + (1 + b)) /\ v[i] = e[i]
      BY <2>3, <2>5
    <3>3. QED
      BY <3>1, <3>2, <2>5 DEF ToSet
  <2>8. s[1] \in ToSet(v)
    <3>1. a + 1 \in 1..(a + (1 + b)) /\ ~(a + 1 <= a) /\ (a + 1) - a = 1 /\ 1 \in 1..(1 + b)
      BY <2>3
    <3>2. v[a + 1] = s[1]
      BY <3>1, <2>4, <2>5
    <3>3. QED
      BY <3>1, <3>2, <2>5 DEF ToSet
  <2>9. ASSUME NEW x \in ToSet(t) PROVE x \in ToSet(v)
    <3>1. PICK i \in 1..b : x = t[i]
      BY <2>3 DEF ToSet
    <3> DEFINE k == a + (1 + i)
    <3>2. k \in 1..(a + (1 + b)) /\ ~(k <= a) /\ k - a = 1 + i
          /\ 1 + i \in 1..(1 + b) /\ 1 + i # 1 /\ (1 + i) - 1 = i
      BY <2>3
    <3>3. v[k] = t[i]
      BY <3>2, <2>4, <2>5
    <3>4. QED
      BY <3>1, <3>2, <3>3, <2>5 DEF ToSet
  <2>10. ToSet(v) = ToSet(e) \cup {s[1]} \cup ToSet(t)
    BY <2>6, <2>7, <2>8, <2>9
  <2>11. QED
    BY <2>1, <2>10, <1>2, <1>3 DEF e, w
<1>4. CASE s[1] \notin DOMAIN Echo
  BY <1>1, <1>2, <1>4 DEF Seen
<1>5. QED
  BY <1>3, <1>4, <1>2

\* The line of node i passes the check with the manifests of the builder.
LinePasses(t, i, known) ==
  LET nm   == <<Head(t.lines[i].words)>>
      seen == ToSet(Seen(t.lines[i].words))
  IN CASE t.lines[i].kind = "kernel"  -> nm \in known.kernels /\ seen \subseteq known.caps[nm]
       [] t.lines[i].kind = "rewrite" -> seen \subseteq known.rules
       [] OTHER -> TRUE

SameName(n) == {k \in DOMAIN KernelManifest : KernelManifest[k].name = n.name}

OwnNode(n) ==
  /\ n.kind = "rewrite" => Stray(n) \subseteq ToSet(Rulesets)
  /\ n.kind = "kernel" =>
       \A k \in SameName(n) : (\A j \in SameName(n) : k <= j) =>
         Stray(n) \cup ToSet(n.members) \subseteq ToSet(KernelManifest[k].caps)

\* What the index has under the name of a kernel: the first entry of the name.
LEMMA IndexedFirst ==
  ASSUME NEW i \in DOMAIN KernelManifest
  PROVE  LET nm == KernelManifest[i].name
             K  == {k \in DOMAIN KernelManifest : KernelManifest[k].name = nm}
             known == Indexed(KernelManifest, Rulesets)
         IN /\ nm \in known.kernels /\ known.rules = ToSet(Rulesets)
            /\ \E k \in K : /\ \A j \in K : k <= j
                            /\ known.caps[nm] = ToSet(KernelManifest[k].caps)
<1> DEFINE nm == KernelManifest[i].name
           K  == {k \in DOMAIN KernelManifest : KernelManifest[k].name = nm}
           I  == {k \in 1..Len(KernelManifest) : KernelManifest[k].name = nm}
           known == Indexed(KernelManifest, Rulesets)
<1>1. Len(KernelManifest) \in Nat /\ DOMAIN KernelManifest = 1..Len(KernelManifest)
  BY SchedAssumption, LenProperties
<1>2. I = K /\ I \subseteq Nat /\ I # {}
  BY <1>1
<1>3. /\ nm \in known.kernels /\ known.rules = ToSet(Rulesets)
      /\ known.caps[nm] = ToSet(KernelManifest[IF I # {} THEN Min(I) ELSE 0].caps)
  BY DEF Indexed, SelectInSeq
<1> HIDE DEF I, K, known, nm
<1>4. Min(I) \in I /\ \A j \in I : Min(I) <= j
  BY <1>2, LeastNatural DEF Min
<1>5. QED
  BY <1>2, <1>3, <1>4 DEF known, nm, K

LEMMA OwnLine ==
  ASSUME Typed, NEW i \in DOMAIN nodes, nodes[i].kind = "kernel" => Len(nodes[i].name) = 1
  PROVE  LinePasses(PlanText, i, Indexed(KernelManifest, Rulesets)) <=> OwnNode(nodes[i])
<1> DEFINE s == nodes[i].name
           t == nodes[i].members
           w == PlanText.lines[i].words
           k == nodes[i].kind
           known == Indexed(KernelManifest, Rulesets)
<1>1. /\ w = s \o t /\ s \in Seq(STRING) /\ t \in Seq(STRING)
      /\ PlanText.lines[i].kind = k /\ k \in NodeKinds /\ WellNamed(nodes[i])
  BY TextLine DEF Record
<1>2. CASE k = "barrier"
  BY <1>1, <1>2 DEF LinePasses, OwnNode
<1>3. CASE k # "barrier"
  <2>1. Len(s) = 1
    BY <1>1, <1>3 DEF WellNamed, NodeKinds
  <2>2. Head(w) = s[1] /\ ToSet(Seen(w)) = Stray(nodes[i]) \cup ToSet(t)
    BY <1>1, <2>1, SeenWords DEF Stray
  <2>3. <<Head(w)>> = s
    BY <1>1, <2>1, LineWords
  <2>4. CASE k = "kernel"
    <3>1. PICK e \in DOMAIN KernelManifest : KernelManifest[e].name = s
      BY <1>1, <2>4 DEF WellNamed
    <3>2. s \in known.kernels
      BY <3>1, IndexedFirst
    <3>3. PICK f \in SameName(nodes[i]) : /\ \A j \in SameName(nodes[i]) : f <= j
                                         /\ known.caps[s] = ToSet(KernelManifest[f].caps)
      BY <3>1, IndexedFirst DEF SameName
    <3>4. LinePasses(PlanText, i, known) <=>
            Stray(nodes[i]) \cup ToSet(t) \subseteq ToSet(KernelManifest[f].caps)
      <4> HIDE DEF known
      <4>1. QED
        BY <1>1, <2>2, <2>3, <2>4, <3>2, <3>3 DEF LinePasses
    <3>5. ASSUME NEW g \in SameName(nodes[i]), \A j \in SameName(nodes[i]) : g <= j
          PROVE  g = f
      <4>1. g \in Nat /\ f \in Nat
        BY SchedAssumption, LenProperties DEF SameName
      <4>2. QED
        BY <3>3, <3>5, <4>1
    <3>6. OwnNode(nodes[i]) <=>
            Stray(nodes[i]) \cup ToSet(t) \subseteq ToSet(KernelManifest[f].caps)
      <4> DEFINE N == nodes[i]
      <4>1. N.kind = "kernel"
        BY <2>4
      <4>2. OwnNode(N) <=> \A g \in SameName(N) : (\A j \in SameName(N) : g <= j) =>
                             Stray(N) \cup ToSet(t) \subseteq ToSet(KernelManifest[g].caps)
        BY <4>1 DEF OwnNode
      <4>3. QED
        BY <4>2, <3>3, <3>5
    <3>7. QED
      BY <3>4, <3>6
  <2>5. CASE k = "rewrite"
    <3>1. ToSet(t) \subseteq ToSet(Rulesets) /\ known.rules = ToSet(Rulesets)
      BY <1>1, <2>5 DEF WellNamed, Indexed
    <3>2. LinePasses(PlanText, i, known) <=> Stray(nodes[i]) \cup ToSet(t) \subseteq ToSet(Rulesets)
      <4> HIDE DEF known
      <4>1. QED
        BY <1>1, <2>2, <2>5, <3>1 DEF LinePasses
    <3>3. OwnNode(nodes[i]) <=> Stray(nodes[i]) \subseteq ToSet(Rulesets)
      BY <2>5 DEF OwnNode
    <3>4. QED
      BY <3>1, <3>2, <3>3
  <2>6. QED
    BY <1>1, <1>3, <2>4, <2>5 DEF NodeKinds
<1>4. QED
  BY <1>2, <1>3

\* When the check passes a plan with the manifests that it was sealed with.
LEMMA OwnFromPInv ==
  ASSUME PInv
  PROVE  OwnPlanChecks
<1> SUFFICES ASSUME text # NoPlan,
                    \A i \in DOMAIN nodes : nodes[i].kind = "kernel" => Len(nodes[i].name) = 1
             PROVE  ccw_plan_check(text, Indexed(KernelManifest, Rulesets)) <=>
                      \A i \in DOMAIN nodes : OwnNode(nodes[i])
  BY DEF OwnPlanChecks, OwnNode, SameName
<1>1. Typed /\ text = PlanText
  BY DEF PInv, BuilderInv, TextIsPlan
<1>2. DOMAIN PlanText.lines = DOMAIN nodes
  BY DEF PlanText
<1>3. ccw_plan_check(text, Indexed(KernelManifest, Rulesets)) <=>
        \A i \in DOMAIN nodes : LinePasses(PlanText, i, Indexed(KernelManifest, Rulesets))
  BY <1>1, <1>2 DEF ccw_plan_check, LinePasses
<1>4. QED
  BY <1>1, <1>3, OwnLine

\* seal, the text of a plan and the loops of the two passes fit together: a plan
\* that seal accepted never makes a pass report "plan contains a cycle".
THEOREM SealedPlansNeverStuck == PSpec => []SealedNeverStuck
<1>1. PInv => SealedNeverStuck
  BY DEF PInv
<1>2. QED
  BY <1>1, InitPInv, NextPInv, PTL DEF PSpec

\* SCHED.md 5.3 from the script to the work, for plans of any size: nothing that was
\* asked for after a barrier is applied before all that was asked for before it,
\* through seal, the text, parse_plan_text and the loops of the two passes.
THEOREM BarriersDivideWork == PSpec => []BarrierRespected
<1>1. PInv => BarrierRespected
  BY BarrierFromPInv
<1>2. QED
  BY <1>1, InitPInv, NextPInv, PTL DEF PSpec

\* ccw_plan_check, for plans and manifests of any size: it refuses every plan whose
\* execution stops because something is absent from the manifests in force, and a plan
\* that was sealed with them only for the two reasons that are no drift.
THEOREM CheckFindsDrift == PSpec => []CheckVerdict
<1>1. PInv => CheckVerdict
  <2> SUFFICES ASSUME PInv PROVE CheckVerdict
    OBVIOUS
  <2>1. DriftCaught
    BY DEF PInv, AbsentCaught, DriftCaught
  <2>2. QED
    BY <2>1, OwnFromPInv DEF CheckVerdict
<1>2. QED
  BY <1>1, InitPInv, NextPInv, PTL DEF PSpec

(* The manifests, line by line.  A reading of the first i lines of a file f *)
(* is the value of the recursion in load_kernels at i.                      *)
Values(f) == {f[i].v : i \in DOMAIN f} \cup {<<>>}
Entries(f) == [name : Values(f), caps : Seq(Values(f))]
Pendings(f) == [path : BOOLEAN, name : Values(f), caps : Seq(Values(f))]
Readings(f) == [kernels : Seq(Entries(f)), cur : Pendings(f), in_caps : BOOLEAN,
                ok : BOOLEAN]

\* The kernels of which the end was seen before line i, and those begun before it.
Ended(f, i) == {s \in Named(f) : \E h \in Starts(f) : s < h /\ h <= i}
Begun(f, i) == {s \in Named(f) : s <= i}

\* The entry that line i is in.
Latest(f, i) == {s \in Starts(f) : s <= i /\ \A h \in Starts(f) : h <= i => h <= s}

Clean(f, K) == \A s \in K : \A l \in LastName(f, s) : f[l].v # Unclean

PlaceOf(f, s) == Cardinality({q \in Named(f) : q <= s})
CapsOf(f, s) == {f[c].v : c \in UNION {CapLines(f, p) : p \in PartsOf(f, s)}}

\* The list has the kernels K, each in its place.
Lists(f, kernels, K) ==
  /\ Len(kernels) = Cardinality(K)
  /\ \A s \in K : /\ \A l \in LastName(f, s) : kernels[PlaceOf(f, s)].name = f[l].v
                  /\ ToSet(kernels[PlaceOf(f, s)].caps) = CapsOf(f, s)

\* Whether items are taken at line i, the names and the capabilities that the pending
\* kernel has by then.
Open(f, i) == \E h \in 1..i : /\ f[h].t = "caps" /\ \E s \in Starts(f) : s <= h
                              /\ \A j \in h..i : f[j].t \notin {"other", "path"}
NamesBy(f, i) == UNION {{l \in NameLines(f, s) : l <= i} : s \in Latest(f, i)}
CapsBy(f, i) ==
  {c \in 1..i : \E s \in Latest(f, i) : \E p \in PartsOf(f, s) : c \in CapLines(f, p)}

PendingRight(f, i, cur) ==
  /\ cur.path <=> \E s \in Starts(f) : s <= i
  /\ cur.name = <<>> <=> NamesBy(f, i) = {}
  /\ \A l \in NamesBy(f, i) : (\A j \in NamesBy(f, i) : j <= l) => cur.name = f[l].v
  /\ ToSet(cur.caps) = {f[c].v : c \in CapsBy(f, i)}

ReadUpTo(f, i, r) ==
  /\ r \in Readings(f)
  /\ r.ok <=> Clean(f, Ended(f, i))
  /\ r.ok => /\ Lists(f, r.kernels, Ended(f, i))
             /\ PendingRight(f, i, r.cur)
             /\ r.in_caps <=> Open(f, i)

IsFile(f) ==
  /\ Len(f) \in Nat /\ DOMAIN f = 1..Len(f)
  /\ \A i \in DOMAIN f : /\ f[i].t \in {"path", "name", "caps", "item", "other", "blank"}
                         /\ f[i].t = "name" => f[i].v # <<>>

\* finish_kernel leaves a reading, and what it changes.
Finishes(f, r, q) ==
  /\ q \in Readings(f) /\ q.in_caps = r.in_caps
  /\ r.cur.name = <<>> => q = r
  /\ r.cur.name # <<>> /\ (~r.cur.path \/ r.cur.name = Unclean) => ~q.ok
  /\ r.cur.name # <<>> /\ ~(~r.cur.path \/ r.cur.name = Unclean) =>
       /\ q.ok = r.ok /\ q.cur = NoKernel
       /\ q.kernels = Append(r.kernels, [name |-> r.cur.name, caps |-> r.cur.caps])

LEMMA FinishType ==
  ASSUME NEW f, IsFile(f), NEW r \in Readings(f)
  PROVE  Finishes(f, r, finish_kernel(r))
<1> DEFINE q == finish_kernel(r)
           V == Values(f)
           E == Entries(f)
           P == Pendings(f)
           e == [name |-> r.cur.name, caps |-> r.cur.caps]
<1>1. r.cur \in P /\ r.kernels \in Seq(E) /\ r.ok \in BOOLEAN /\ r.in_caps \in BOOLEAN
  BY DEF Readings
<1>2. e \in E
  BY <1>1 DEF Pendings, Entries
<1>3. NoKernel \in P
  <2>1. <<>> \in Seq(V) /\ <<>> \in V
    BY DEF Values
  <2> HIDE DEF V
  <2>2. QED
    BY <2>1 DEF Pendings, NoKernel, V
<1>4. Append(r.kernels, e) \in Seq(E)
  <2> HIDE DEF E, e
  <2>1. QED
    BY <1>1, <1>2, AppendFacts
<1>5. CASE r.cur.name = <<>>
  <2>1. q = r
    BY <1>5 DEF finish_kernel
  <2>2. QED
    BY <1>5, <2>1 DEF Finishes
<1>6. CASE r.cur.name # <<>> /\ (~r.cur.path \/ r.cur.name = Unclean)
  <2>1. q = [r EXCEPT !.ok = FALSE]
    BY <1>6 DEF finish_kernel
  <2>2. q \in Readings(f) /\ q.in_caps = r.in_caps /\ q.ok = FALSE
    BY <2>1 DEF Readings
  <2> HIDE DEF q
  <2>3. QED
    BY <1>6, <2>2 DEF Finishes, q
<1>7. CASE r.cur.name # <<>> /\ ~(~r.cur.path \/ r.cur.name = Unclean)
  <2>1. q = [r EXCEPT !.cur = NoKernel, !.kernels = Append(r.kernels, e)]
    BY <1>7 DEF finish_kernel
  <2> HIDE DEF e, P, E
  <2>2. q \in [kernels : Seq(E), cur : P, in_caps : BOOLEAN, ok : BOOLEAN]
    <3>1. r \in [kernels : Seq(E), cur : P, in_caps : BOOLEAN, ok : BOOLEAN]
      BY DEF Readings, E, P
    <3> HIDE DEF q
    <3>2. QED
      BY <2>1, <3>1, <1>3, <1>4
  <2>3. q.in_caps = r.in_caps /\ q.ok = r.ok /\ q.cur = NoKernel /\ q.kernels = Append(r.kernels, e)
    <3>1. r \in [kernels : Seq(E), cur : P, in_caps : BOOLEAN, ok : BOOLEAN]
      BY DEF Readings, E, P
    <3> HIDE DEF q
    <3>2. QED
      BY <2>1, <3>1
  <2> HIDE DEF q
  <2>4. QED
    BY <1>7, <2>2, <2>3 DEF Finishes, q, Readings, E, P, e
<1>8. QED
  BY <1>5, <1>6, <1>7

\* What the step of load_kernels changes on every kind of line.
OnPath(f, r, q) ==
  \E p \in Readings(f) :
    /\ Finishes(f, r, p) /\ q.kernels = p.kernels /\ q.ok = p.ok /\ ~q.in_caps
    /\ q.cur.path /\ q.cur.name = p.cur.name /\ q.cur.caps = p.cur.caps

OnName(f, i, r, q) ==
  /\ q.kernels = r.kernels /\ q.ok = r.ok /\ q.in_caps = r.in_caps
  /\ q.cur.path = r.cur.path /\ q.cur.name = f[i].v /\ q.cur.caps = r.cur.caps

OnItem(f, i, r, q) ==
  /\ q.kernels = r.kernels /\ q.ok = r.ok /\ q.in_caps = r.in_caps
  /\ q.cur.path = r.cur.path /\ q.cur.name = r.cur.name
  /\ q.cur.caps = Append(r.cur.caps, f[i].v)

OnOther(r, q) == q.kernels = r.kernels /\ q.ok = r.ok /\ q.cur = r.cur

LineStep(f, i, r, q) ==
  /\ q \in Readings(f)
  /\ ~r.ok => q = r
  /\ r.ok =>
       /\ f[i].t = "path" => OnPath(f, r, q)
       /\ f[i].t = "name" /\ r.cur.path => OnName(f, i, r, q)
       /\ f[i].t = "caps" /\ r.cur.path => OnOther(r, q) /\ q.in_caps
       /\ f[i].t = "item" /\ r.in_caps => OnItem(f, i, r, q)
       /\ f[i].t = "blank" => q = r
       /\ (\/ f[i].t = "other"
           \/ f[i].t \in {"name", "caps"} /\ ~r.cur.path
           \/ f[i].t = "item" /\ ~r.in_caps) => OnOther(r, q) /\ ~q.in_caps

LEMMA LineType ==
  ASSUME NEW f, IsFile(f), NEW r \in Readings(f), NEW i \in DOMAIN f
  PROVE  LineStep(f, i, r, KernelLine(r, f[i]))
<1> DEFINE q == KernelLine(r, f[i])
           V == Values(f)
           E == Entries(f)
           P == [path : BOOLEAN, name : V, caps : Seq(V)]
           R == [kernels : Seq(E), cur : P, in_caps : BOOLEAN, ok : BOOLEAN]
<1>1. Readings(f) = R
  BY DEF Readings, Pendings
<1>2. f[i].v \in V
  BY DEF Values
<1>3. f[i].t \in {"path", "name", "caps", "item", "other", "blank"}
  BY DEF IsFile
<1> HIDE DEF V, E
<1>13. r \in R /\ r.cur \in P
  BY <1>1
<1>4. CASE ~r.ok
  <2>1. q = r
    BY <1>4 DEF KernelLine
  <2>2. QED
    BY <1>4, <2>1 DEF LineStep
<1>5. CASE r.ok /\ f[i].t = "path"
  <2>1. PICK p : p = finish_kernel(r)
    OBVIOUS
  <2>2. Finishes(f, r, p)
    BY <2>1, FinishType
  <2>3. p \in R
    BY <1>1, <2>2 DEF Finishes
  <2>4. q = [p EXCEPT !.cur.path = TRUE, !.in_caps = FALSE]
    BY <1>5, <2>1 DEF KernelLine
  <2> HIDE DEF q
  <2>5. /\ q \in R /\ q.kernels = p.kernels /\ q.ok = p.ok /\ ~q.in_caps
        /\ q.cur.path /\ q.cur.name = p.cur.name /\ q.cur.caps = p.cur.caps
    BY <2>3, <2>4
  <2>6. OnPath(f, r, q)
    BY <1>1, <2>2, <2>3, <2>5 DEF OnPath
  <2>7. QED
    BY <1>1, <1>5, <2>5, <2>6 DEF LineStep, q
<1>6. CASE r.ok /\ f[i].t = "name" /\ r.cur.path
  <2>1. q = [r EXCEPT !.cur.name = f[i].v]
    BY <1>6 DEF KernelLine
  <2> HIDE DEF q
  <2>2. q \in R /\ OnName(f, i, r, q)
    BY <1>1, <1>2, <2>1 DEF OnName
  <2>3. QED
    BY <1>1, <1>6, <2>2 DEF LineStep, q
<1>7. CASE r.ok /\ f[i].t = "caps" /\ r.cur.path
  <2>1. q = [r EXCEPT !.in_caps = TRUE]
    BY <1>7 DEF KernelLine
  <2> HIDE DEF q
  <2> HIDE DEF P
  <2>2. q \in R /\ OnOther(r, q) /\ q.in_caps
    BY <1>13, <2>1 DEF OnOther
  <2>3. QED
    BY <1>1, <1>7, <2>2 DEF LineStep, q
<1>8. CASE r.ok /\ f[i].t = "item" /\ r.in_caps
  <2>1. q = [r EXCEPT !.cur.caps = Append(r.cur.caps, f[i].v)]
    BY <1>8 DEF KernelLine
  <2>2. r.cur.caps \in Seq(V)
    BY <1>1
  <2>3. Append(r.cur.caps, f[i].v) \in Seq(V)
    BY <1>2, <2>2, AppendFacts
  <2> HIDE DEF q
  <2>4. PICK d : d = [r.cur EXCEPT !.caps = Append(r.cur.caps, f[i].v)]
    OBVIOUS
  <2>5. /\ d \in P /\ d.path = r.cur.path /\ d.name = r.cur.name
        /\ d.caps = Append(r.cur.caps, f[i].v)
    BY <1>13, <2>3, <2>4
  <2> HIDE DEF P
  <2>6. q \in R /\ q.kernels = r.kernels /\ q.ok = r.ok /\ q.in_caps = r.in_caps /\ q.cur = d
    BY <1>13, <2>1, <2>4, <2>5
  <2>7. OnItem(f, i, r, q)
    BY <2>5, <2>6 DEF OnItem
  <2>8. QED
    BY <1>1, <1>8, <2>6, <2>7 DEF LineStep, q
<1>9. CASE r.ok /\ f[i].t = "blank"
  <2>1. q = r
    BY <1>9 DEF KernelLine
  <2>2. QED
    BY <1>9, <2>1 DEF LineStep
<1>10. CASE r.ok /\ (\/ f[i].t = "other"
                     \/ f[i].t \in {"name", "caps"} /\ ~r.cur.path
                     \/ f[i].t = "item" /\ ~r.in_caps)
  <2>1. q = [r EXCEPT !.in_caps = FALSE]
    BY <1>10 DEF KernelLine
  <2> HIDE DEF q
  <2> HIDE DEF P
  <2>2. q \in R /\ OnOther(r, q) /\ ~q.in_caps
    BY <1>13, <2>1 DEF OnOther
  <2>3. QED
    BY <1>1, <1>10, <2>2 DEF LineStep, q
<1>11. r.ok \in BOOLEAN /\ r.in_caps \in BOOLEAN /\ r.cur.path \in BOOLEAN
  BY <1>1
<1>12. QED
  BY <1>3, <1>4, <1>5, <1>6, <1>7, <1>8, <1>9, <1>10, <1>11

\* The recursion in load_kernels, and that there is such a function.
IsReading(f, R) ==
  R = [i \in 0..Len(f) |-> IF i = 0 THEN NoneRead ELSE KernelLine(R[i - 1], f[i])]

ReadsLines(f, R) ==
  /\ R[0] = NoneRead
  /\ \A i \in 1..Len(f) : R[i] = KernelLine(R[i - 1], f[i])

LEMMA NoneReadType ==
  ASSUME NEW f
  PROVE  NoneRead \in Readings(f)
<1> DEFINE V == Values(f)
           E == Entries(f)
<1>1. <<>> \in Seq(V) /\ <<>> \in V /\ <<>> \in Seq(E)
  BY DEF Values
<1> HIDE DEF V, E
<1>2. QED
  BY <1>1 DEF Readings, Pendings, NoneRead, NoKernel, V, E

LEMMA ReadingExists ==
  ASSUME NEW f, IsFile(f)
  PROVE  \E R : IsReading(f, R)
<1> DEFINE n == Len(f)
           T == Readings(f)
           g == [p \in (1..n) \X T |-> KernelLine(p[2], f[p[1]])]
           c == NoneRead
           B(F) == [i \in 0..n |-> IF i = 0 THEN c ELSE KernelLine(F[i - 1], f[i])]
<1>1. n \in Nat /\ c \in T /\ \A i \in 1..n : \A x \in T : KernelLine(x, f[i]) \in T
  <2>1. \A i \in 1..n : i \in DOMAIN f
    BY DEF IsFile
  <2>2. QED
    BY <2>1, NoneReadType, LineType DEF LineStep, IsFile
<1> HIDE DEF n, T, c
<1>2. g \in [(1..n) \X T -> T] /\ \A i \in 1..n : \A x \in T : g[<<i, x>>] = KernelLine(x, f[i])
  BY <1>1
<1> HIDE DEF g
<1>3. PICK F : IsRun(n, T, c, g, F)
  <2>1. IsStep(n, T, g)
    BY <1>2 DEF IsStep
  <2>2. QED
    BY <1>1, <2>1, PrefixRecursion
<1>4. F \in [0..n -> T] /\ F[0] = c /\ \A i \in 1..n : F[i] = g[<<i, F[i - 1]>>]
  BY <1>3 DEF IsRun
<1>5. ASSUME NEW i \in 0..n PROVE F[i] = IF i = 0 THEN c ELSE KernelLine(F[i - 1], f[i])
  <2>1. CASE i = 0
    BY <1>4, <2>1
  <2>2. CASE i # 0
    <3>1. i \in 1..n /\ i - 1 \in 0..n
      BY <1>1, <2>2
    <3>2. F[i - 1] \in T /\ F[i] = g[<<i, F[i - 1]>>]
      BY <1>4, <3>1
    <3>3. QED
      BY <1>2, <2>2, <3>1, <3>2
  <2>3. QED
    BY <2>1, <2>2
<1>6. F = B(F)
  BY <1>4, <1>5
<1>7. QED
  BY <1>6 DEF IsReading, n, c

\* What load_kernels returns.
Returned(q) == [ok |-> q.ok /\ q.kernels # <<>>, kernels |-> q.kernels]

LEMMA LoadKernelsReads ==
  ASSUME NEW f, IsFile(f)
  PROVE  \E R : ReadsLines(f, R) /\ load_kernels(f) = Returned(finish_kernel(R[Len(f)]))
<1> DEFINE F == CHOOSE u : u = [i \in 0..Len(f) |-> IF i = 0 THEN NoneRead
                                                   ELSE KernelLine(u[i - 1], f[i])]
<1>1. load_kernels(f) = Returned(finish_kernel(F[Len(f)]))
  BY DEF load_kernels, Returned
<1>2. PICK R : IsReading(f, R)
  BY ReadingExists
<1>3. IsReading(f, F)
  BY <1>2 DEF IsReading
<1> HIDE DEF F
<1>4. Len(f) \in Nat
  BY DEF IsFile
<1>5. F[0] = NoneRead
  BY <1>3, <1>4 DEF IsReading
<1>6. ASSUME NEW i \in 1..Len(f) PROVE F[i] = KernelLine(F[i - 1], f[i])
  <2>1. i \in 0..Len(f) /\ i # 0
    BY <1>4
  <2>2. QED
    BY <1>3, <2>1 DEF IsReading
<1>7. QED
  BY <1>1, <1>5, <1>6 DEF ReadsLines

\* Where a file has a start no later than line i, it has a latest one.
LEMMA LatestExists ==
  ASSUME NEW f, IsFile(f), NEW i \in 0..Len(f), NEW s \in Starts(f), s <= i
  PROVE  \E t \in Latest(f, i) : s <= t
<1> DEFINE T == {i - t : t \in {u \in Starts(f) : u <= i}}
<1>1. Starts(f) \subseteq 1..Len(f) /\ Len(f) \in Nat /\ i \in Nat
  BY DEF Starts, IsFile
<1>2. T \subseteq Nat /\ T # {}
  BY <1>1
<1>3. PICK x \in T : \A y \in T : x <= y
  <2> HIDE DEF T
  <2>1. QED
    BY <1>2, LeastNatural
<1>4. PICK t \in Starts(f) : t <= i /\ x = i - t
  BY <1>3
<1>5. ASSUME NEW h \in Starts(f), h <= i PROVE h <= t
  <2>1. i - h \in T /\ h \in Nat /\ t \in Nat
    BY <1>1, <1>5
  <2> HIDE DEF T
  <2>2. i - t <= i - h
    BY <1>3, <1>4, <2>1
  <2>3. QED
    BY <1>1, <2>1, <2>2
<1>6. QED
  BY <1>4, <1>5 DEF Latest

\* The entry of the latest start goes on to line i; other entries end before it.
LatestEntry(f, i) ==
  /\ \A s, t \in Latest(f, i) : s = t
  /\ \A s \in Latest(f, i) :
       /\ s \in Starts(f) /\ s \in 1..i
       /\ \A c \in s..i : c \in EntryLines(f, s)
       /\ \A j \in s + 1..i : f[j].t # "path"

LEMMA LatestFacts ==
  ASSUME NEW f, IsFile(f), NEW i \in 0..Len(f)
  PROVE  LatestEntry(f, i)
<1>1. Starts(f) \subseteq 1..Len(f) /\ Len(f) \in Nat /\ i \in Nat /\ DOMAIN f = 1..Len(f)
  BY DEF Starts, IsFile
<1>2. ASSUME NEW s \in Latest(f, i), NEW t \in Latest(f, i) PROVE s = t
  <2>1. s \in Starts(f) /\ t \in Starts(f) /\ s <= t /\ t <= s
    BY DEF Latest
  <2>2. QED
    BY <1>1, <2>1
<1>3. ASSUME NEW s \in Latest(f, i)
      PROVE  /\ s \in Starts(f) /\ s \in 1..i
             /\ \A c \in s..i : c \in EntryLines(f, s)
             /\ \A j \in s + 1..i : f[j].t # "path"
  <2>1. s \in Starts(f) /\ s <= i /\ \A h \in Starts(f) : h <= i => h <= s
    BY DEF Latest
  <2>2. s \in 1..i
    BY <1>1, <2>1
  <2>3. ASSUME NEW j \in s + 1..i PROVE f[j].t # "path"
    <3>1. j \in DOMAIN f /\ j <= i /\ ~(j <= s)
      BY <1>1, <2>2
    <3>2. j \notin Starts(f)
      BY <2>1, <3>1
    <3>3. QED
      BY <3>1, <3>2 DEF Starts
  <2>4. ASSUME NEW c \in s..i PROVE c \in EntryLines(f, s)
    <3>1. c \in s..Len(f)
      BY <1>1, <2>2
    <3>2. \A h \in s + 1..c : h \in s + 1..i
      BY <1>1, <2>2
    <3>3. QED
      BY <2>3, <3>1, <3>2 DEF EntryLines
  <2>5. QED
    BY <2>1, <2>2, <2>3, <2>4
<1>4. QED
  BY <1>2, <1>3 DEF LatestEntry

\* The lines of an entry are before the next start.
LEMMA EntryEnds ==
  ASSUME NEW f, IsFile(f), NEW s \in Starts(f), NEW h \in Starts(f), s < h,
         NEW c \in EntryLines(f, s)
  PROVE  c < h
<1>1. Starts(f) \subseteq 1..Len(f) /\ Len(f) \in Nat
  BY DEF Starts, IsFile
<1>2. c \in s..Len(f) /\ \A j \in s + 1..c : f[j].t # "path"
  BY DEF EntryLines
<1>3. f[h].t = "path"
  BY DEF Starts
<1>4. ~(h <= c)
  BY <1>1, <1>2, <1>3
<1>5. QED
  BY <1>1, <1>2, <1>4

\* One more line that begins no entry.
SameEntry(f, i) ==
  /\ Ended(f, i) = Ended(f, i - 1)
  /\ Latest(f, i) = Latest(f, i - 1)
  /\ (\E s \in Starts(f) : s <= i) <=> (\E s \in Starts(f) : s <= i - 1)

LEMMA NextInEntry ==
  ASSUME NEW f, IsFile(f), NEW i \in 1..Len(f), f[i].t # "path"
  PROVE  SameEntry(f, i)
<1>1. Starts(f) \subseteq 1..Len(f) /\ Len(f) \in Nat /\ i \notin Starts(f)
  BY DEF Starts, IsFile
<1>2. \A s \in Starts(f) : s <= i <=> s <= i - 1
  BY <1>1
<1>3. QED
  BY <1>2 DEF SameEntry, Ended, Latest

\* The names by line i.
LEMMA NamesStep ==
  ASSUME NEW f, IsFile(f), NEW i \in 1..Len(f), f[i].t # "path"
  PROVE  NamesBy(f, i) = IF f[i].t = "name" /\ Latest(f, i) # {}
                         THEN NamesBy(f, i - 1) \cup {i} ELSE NamesBy(f, i - 1)
<1>1. Latest(f, i) = Latest(f, i - 1) /\ Len(f) \in Nat /\ i \in 0..Len(f)
  BY NextInEntry DEF SameEntry, IsFile
<1>2. LatestEntry(f, i)
  BY <1>1, LatestFacts
<1>3. \A s \in Latest(f, i) : \A l \in NameLines(f, s) : l \in s..Len(f) /\ s \in 1..i
  BY <1>2 DEF NameLines, EntryLines, LatestEntry
<1>4. \A s \in Latest(f, i) : \A l \in NameLines(f, s) : l <= i <=> l <= i - 1 \/ l = i
  BY <1>1, <1>3
<1>5. \A s \in Latest(f, i) : i \in NameLines(f, s) <=> f[i].t = "name"
  <2>1. \A s \in Latest(f, i) : i \in s..i
    BY <1>2 DEF LatestEntry
  <2>2. \A s \in Latest(f, i) : i \in EntryLines(f, s)
    BY <1>2, <2>1 DEF LatestEntry
  <2>3. QED
    BY <2>2 DEF NameLines
<1>6. ASSUME NEW l
      PROVE  l \in NamesBy(f, i) <=> l \in NamesBy(f, i - 1)
                                     \/ (l = i /\ f[i].t = "name" /\ Latest(f, i) # {})
  <2>1. l \in NamesBy(f, i) <=> \E s \in Latest(f, i) : l \in NameLines(f, s) /\ l <= i
    BY DEF NamesBy
  <2>2. l \in NamesBy(f, i - 1) <=> \E s \in Latest(f, i) : l \in NameLines(f, s) /\ l <= i - 1
    BY <1>1 DEF NamesBy
  <2>3. i <= i
    OBVIOUS
  <2>4. QED
    BY <1>4, <1>5, <2>1, <2>2, <2>3
<1>7. QED
  BY <1>6

\* Whether items are taken at line i.
LEMMA OpenStep ==
  ASSUME NEW f, IsFile(f), NEW i \in 1..Len(f)
  PROVE  /\ f[i].t \in {"path", "other"} => ~Open(f, i)
         /\ f[i].t = "caps" => (Open(f, i) <=> \E s \in Starts(f) : s <= i)
         /\ f[i].t \in {"name", "item", "blank"} => (Open(f, i) <=> Open(f, i - 1))
<1>1. Len(f) \in Nat /\ Starts(f) \subseteq 1..Len(f)
  BY DEF Starts, IsFile
<1>2. ASSUME f[i].t \in {"path", "other"} PROVE ~Open(f, i)
  <2>1. \A h \in 1..i : i \in h..i
    BY <1>1
  <2>2. QED
    BY <1>2, <2>1 DEF Open
<1>3. ASSUME f[i].t = "caps" PROVE Open(f, i) <=> \E s \in Starts(f) : s <= i
  <2>1. ASSUME Open(f, i) PROVE \E s \in Starts(f) : s <= i
    <3>1. PICK h \in 1..i : \E s \in Starts(f) : s <= h
      BY <2>1 DEF Open
    <3>2. PICK s \in Starts(f) : s <= h
      BY <3>1
    <3>3. s <= i
      BY <1>1, <3>2
    <3>4. QED
      BY <3>3
  <2>2. ASSUME NEW s \in Starts(f), s <= i PROVE Open(f, i)
    <3>1. i \in 1..i /\ \A j \in i..i : f[j].t = "caps"
      BY <1>1, <1>3
    <3>2. QED
      BY <1>3, <2>2, <3>1 DEF Open
  <2>3. QED
    BY <2>1, <2>2
<1>4. ASSUME f[i].t \in {"name", "item", "blank"} PROVE Open(f, i) <=> Open(f, i - 1)
  <2>1. \A h \in 1..i : f[h].t = "caps" => h \in 1..(i - 1)
    BY <1>1, <1>4
  <2>2. \A h \in 1..(i - 1) :
          /\ h \in 1..i
          /\ (\A j \in h..i : f[j].t \notin {"other", "path"})
             <=> (\A j \in h..(i - 1) : f[j].t \notin {"other", "path"})
    <3>1. \A h \in 1..(i - 1) : h \in 1..i /\ \A j \in h..i : j \in h..(i - 1) \/ j = i
      BY <1>1
    <3>2. \A h \in 1..(i - 1) : \A j \in h..(i - 1) : j \in h..i
      BY <1>1
    <3>3. QED
      BY <1>4, <3>1, <3>2
  <2>3. QED
    BY <2>1, <2>2 DEF Open
<1>5. QED
  BY <1>2, <1>3, <1>4

\* The capabilities by line i.
LEMMA CapsStep ==
  ASSUME NEW f, IsFile(f), NEW i \in 1..Len(f), f[i].t # "path"
  PROVE  CapsBy(f, i) = IF f[i].t = "item" /\ Open(f, i)
                        THEN CapsBy(f, i - 1) \cup {i} ELSE CapsBy(f, i - 1)
<1> DEFINE Part(c) == \E s \in Latest(f, i) : \E p \in PartsOf(f, s) : c \in CapLines(f, p)
<1>1. /\ Latest(f, i) = Latest(f, i - 1) /\ Len(f) \in Nat /\ i \in 0..Len(f)
      /\ Starts(f) \subseteq 1..Len(f)
  BY NextInEntry DEF SameEntry, IsFile, Starts
<1>2. LatestEntry(f, i)
  BY <1>1, LatestFacts
<1>3. CapsBy(f, i) = {c \in 1..i : Part(c)} /\ CapsBy(f, i - 1) = {c \in 1..(i - 1) : Part(c)}
  BY <1>1 DEF CapsBy
<1>4. ASSUME Part(i) PROVE f[i].t = "item" /\ Open(f, i)
  <2>0. PICK s \in Latest(f, i) : \E p \in PartsOf(f, s) : i \in CapLines(f, p)
    BY <1>4
  <2>1. PICK p \in PartsOf(f, s) : i \in CapLines(f, p)
    BY <2>0
  <2>2. /\ s \in Starts(f) /\ s \in 1..i /\ p \in Starts(f) /\ p <= s
        /\ i \in EntryLines(f, p) /\ f[i].t = "item"
    BY <1>2, <2>1 DEF LatestEntry, PartsOf, CapLines
  <2>3. s = p
    <3>1. ~(p < s)
      <4>1. ASSUME p < s PROVE FALSE
        <5>1. i < s
          BY <2>2, <4>1, EntryEnds
        <5>2. QED
          BY <1>1, <2>2, <5>1
      <4>2. QED
        BY <4>1
    <3>2. QED
      BY <1>1, <2>2, <3>1
  <2>4. PICK h \in s..i : f[h].t = "caps" /\ \A j \in h..i : f[j].t # "other"
    BY <2>1, <2>3 DEF CapLines
  <2>5. f[s].t = "path" /\ h # s
    BY <2>2, <2>4 DEF Starts
  <2>6. h \in 1..i /\ s <= h /\ \A j \in h..i : j \in s + 1..i
    BY <2>2, <2>4, <2>5
  <2>7. \A j \in h..i : f[j].t \notin {"other", "path"}
    BY <1>2, <2>1, <2>4, <2>6 DEF LatestEntry
  <2>8. QED
    BY <2>2, <2>4, <2>6, <2>7 DEF Open
<1>5. ASSUME f[i].t = "item", Open(f, i) PROVE Part(i)
  <2>1. PICK h \in 1..i : /\ f[h].t = "caps" /\ \E s \in Starts(f) : s <= h
                          /\ \A j \in h..i : f[j].t \notin {"other", "path"}
    BY <1>5 DEF Open
  <2>2. PICK u \in Starts(f) : u <= h
    BY <2>1
  <2>3. u <= i
    BY <1>1, <2>2
  <2>4. PICK s \in Latest(f, i) : u <= s
    BY <1>1, <2>3, LatestExists
  <2>5. s \in Starts(f) /\ s \in 1..i /\ f[s].t = "path"
    BY <1>2, <2>4 DEF LatestEntry, Starts
  <2>6. s <= h
    BY <1>1, <2>1, <2>5
  <2>7. s \in PartsOf(f, s)
    BY <1>1, <2>5 DEF PartsOf, Named
  <2>8. i \in CapLines(f, s)
    <3>1. i \in s..i /\ h \in s..i
      BY <1>1, <2>5, <2>6
    <3>2. i \in EntryLines(f, s)
      BY <1>2, <2>4, <3>1 DEF LatestEntry
    <3>3. QED
      BY <1>5, <2>1, <3>1, <3>2 DEF CapLines
  <2>9. QED
    BY <2>4, <2>7, <2>8
<1> HIDE DEF Part
<1>6. ASSUME NEW c PROVE c \in 1..i /\ Part(c) <=> (c \in 1..(i - 1) /\ Part(c)) \/ (c = i /\ Part(i))
  <2>1. c \in 1..i <=> c \in 1..(i - 1) \/ c = i
    BY <1>1
  <2>2. QED
    BY <2>1
<1>7. QED
  BY <1>3, <1>4, <1>5, <1>6

\* The end of an entry: a new one begins on the next line, or the file is over.
Ends(f, i) == i = Len(f) \/ i + 1 \in Starts(f)

\* What is known by then is all there is to know about the entry.
EndOfEntry(f, i) ==
  /\ Begun(f, i) = Ended(f, i) \cup (Latest(f, i) \cap Named(f))
  /\ i = Len(f) => Begun(f, i) = Named(f)
  /\ i + 1 \in Starts(f) => Ended(f, i + 1) = Begun(f, i)
  /\ Latest(f, i) \cap Named(f) = {} <=> NamesBy(f, i) = {}
  /\ \A s \in Latest(f, i) :
       /\ NameLines(f, s) = NamesBy(f, i)
       /\ CapsOf(f, s) = {f[c].v : c \in CapsBy(f, i)}
       /\ s \notin Ended(f, i)
       /\ Begun(f, i) = {q \in Named(f) : q <= s}

LEMMA EndFacts ==
  ASSUME NEW f, IsFile(f), NEW i \in 0..Len(f), Ends(f, i)
  PROVE  EndOfEntry(f, i)
<1>1. Len(f) \in Nat /\ Starts(f) \subseteq 1..Len(f) /\ i \in Nat /\ DOMAIN f = 1..Len(f)
  BY DEF Starts, IsFile
<1>2. LatestEntry(f, i)
  BY LatestFacts
<1>3. ASSUME NEW s \in Starts(f), s <= i, NEW c \in EntryLines(f, s) PROVE c \in s..i
  <2>1. c \in s..Len(f)
    BY DEF EntryLines
  <2>2. CASE i = Len(f)
    BY <2>1, <2>2
  <2>3. CASE i + 1 \in Starts(f)
    <3>1. s < i + 1
      BY <1>1, <1>3
    <3>2. c < i + 1
      BY <2>3, <3>1, EntryEnds
    <3>3. QED
      BY <1>1, <2>1, <3>2
  <2>4. QED
    BY <2>2, <2>3 DEF Ends
<1>4. ASSUME NEW s \in Latest(f, i)
      PROVE  /\ NameLines(f, s) = NamesBy(f, i)
             /\ CapsOf(f, s) = {f[c].v : c \in CapsBy(f, i)}
             /\ s \notin Ended(f, i)
             /\ Begun(f, i) = {q \in Named(f) : q <= s}
  <2>1. /\ s \in Starts(f) /\ s \in 1..i /\ \A t \in Latest(f, i) : t = s
        /\ \A h \in Starts(f) : h <= i => h <= s
    BY <1>2 DEF LatestEntry, Latest
  <2>2. NameLines(f, s) = NamesBy(f, i)
    <3>1. \A l \in NameLines(f, s) : l <= i
      BY <1>3, <2>1 DEF NameLines
    <3>2. QED
      BY <2>1, <3>1 DEF NamesBy
  <2>3. \A p \in PartsOf(f, s) : \A c \in CapLines(f, p) : c \in 1..i
    <3>1. ASSUME NEW p \in PartsOf(f, s), NEW c \in CapLines(f, p) PROVE c \in 1..i
      <4>1. p \in Starts(f) /\ p <= i /\ c \in EntryLines(f, p) /\ p \in 1..Len(f)
        BY <1>1, <2>1 DEF PartsOf, CapLines
      <4>2. c \in p..i
        BY <1>3, <4>1
      <4>3. QED
        BY <4>1, <4>2
    <3>2. QED
      BY <3>1
  <2>4. UNION {CapLines(f, p) : p \in PartsOf(f, s)} = CapsBy(f, i)
    BY <2>1, <2>3 DEF CapsBy
  <2>5. s \notin Ended(f, i)
    BY <1>1, <2>1 DEF Ended
  <2>6. Begun(f, i) = {q \in Named(f) : q <= s}
    <3>1. \A q \in Named(f) : q \in Starts(f)
      BY DEF Named
    <3>2. \A q \in Starts(f) : q <= i <=> q <= s
      BY <1>1, <2>1
    <3>3. QED
      BY <3>1, <3>2 DEF Begun
  <2>7. QED
    BY <2>2, <2>4, <2>5, <2>6 DEF CapsOf
<1>5. Begun(f, i) = Ended(f, i) \cup (Latest(f, i) \cap Named(f))
  <2>1. ASSUME NEW s \in Named(f), s <= i PROVE s \in Ended(f, i) \/ s \in Latest(f, i)
    <3>1. s \in Starts(f)
      BY DEF Named
    <3>2. CASE \A h \in Starts(f) : h <= i => h <= s
      BY <2>1, <3>1, <3>2 DEF Latest
    <3>3. CASE \E h \in Starts(f) : h <= i /\ ~(h <= s)
      <4>1. PICK h \in Starts(f) : h <= i /\ ~(h <= s)
        BY <3>3
      <4>2. s < h
        BY <1>1, <3>1, <4>1
      <4>3. QED
        BY <4>1, <4>2 DEF Ended
    <3>4. QED
      BY <3>2, <3>3
  <2>2. ASSUME NEW s \in Ended(f, i) PROVE s \in Named(f) /\ s <= i
    <3>1. s \in Named(f) /\ s \in Starts(f) /\ \E h \in Starts(f) : s < h /\ h <= i
      BY DEF Ended, Named
    <3>2. QED
      BY <1>1, <3>1
  <2>3. ASSUME NEW s \in Latest(f, i) PROVE s <= i
    BY DEF Latest
  <2>4. QED
    BY <2>1, <2>2, <2>3 DEF Begun
<1>6. i = Len(f) => Begun(f, i) = Named(f)
  BY <1>1 DEF Begun, Named
<1>7. ASSUME i + 1 \in Starts(f) PROVE Ended(f, i + 1) = Begun(f, i)
  <2>1. ASSUME NEW s \in Named(f) PROVE s <= i <=> \E h \in Starts(f) : s < h /\ h <= i + 1
    <3>1. s \in 1..Len(f)
      BY <1>1 DEF Named
    <3>2. s <= i => s < i + 1 /\ i + 1 <= i + 1
      BY <1>1, <3>1
    <3>3. \A h \in Starts(f) : s < h /\ h <= i + 1 => s <= i
      BY <1>1, <3>1
    <3>4. QED
      BY <1>7, <3>2, <3>3
  <2>2. QED
    BY <2>1 DEF Ended, Begun
<1>8. Latest(f, i) \cap Named(f) = {} <=> NamesBy(f, i) = {}
  <2>1. \A s \in Latest(f, i) : s \in Named(f) <=> NamesBy(f, i) # {}
    BY <1>2, <1>4 DEF Named, LatestEntry
  <2>2. Latest(f, i) = {} => NamesBy(f, i) = {}
    BY DEF NamesBy
  <2>3. QED
    BY <2>1, <2>2
<1>9. QED
  BY <1>4, <1>5, <1>6, <1>7, <1>8 DEF EndOfEntry

\* finish_kernel at the end of an entry.
LEMMA NamesFinite ==
  ASSUME NEW f, IsFile(f), NEW K, K \subseteq Named(f)
  PROVE  IsFiniteSet(K) /\ Cardinality(K) \in Nat
<1>1. K \subseteq 1..Len(f) /\ Len(f) \in Nat
  BY DEF Named, Starts, IsFile
<1>2. IsFiniteSet(1..Len(f))
  BY <1>1, FS_Interval
<1>3. QED
  BY <1>1, <1>2, FS_Subset, FS_CardinalityType

\* An entry with a name has a last one.
LEMMA LastNameExists ==
  ASSUME NEW f, IsFile(f), NEW s \in Named(f)
  PROVE  \E l \in LastName(f, s) : TRUE
<1> DEFINE T == {Len(f) - l : l \in NameLines(f, s)}
<1>1. Len(f) \in Nat /\ s \in Nat /\ NameLines(f, s) \subseteq s..Len(f) /\ NameLines(f, s) # {}
  BY DEF Named, Starts, IsFile, NameLines, EntryLines
<1>2. T \subseteq Nat /\ T # {}
  BY <1>1
<1>3. PICK x \in T : \A y \in T : x <= y
  <2> HIDE DEF T
  <2>1. QED
    BY <1>2, LeastNatural
<1>4. PICK l \in NameLines(f, s) : x = Len(f) - l
  BY <1>3
<1>5. ASSUME NEW j \in NameLines(f, s) PROVE j <= l
  <2>1. Len(f) - j \in T /\ j \in Nat /\ l \in Nat
    BY <1>1
  <2> HIDE DEF T
  <2>2. Len(f) - l <= Len(f) - j
    BY <1>3, <1>4, <2>1
  <2>3. QED
    BY <1>1, <2>1, <2>2
<1>6. QED
  BY <1>4, <1>5 DEF LastName

\* A kernel more in the list.
LEMMA ListGrows ==
  ASSUME NEW f, IsFile(f), NEW s \in Named(f), NEW K, K \subseteq Named(f), s \notin K,
         K \cup {s} = {q \in Named(f) : q <= s},
         NEW kernels \in Seq(Entries(f)), Lists(f, kernels, K),
         NEW e \in Entries(f), \A l \in LastName(f, s) : e.name = f[l].v,
         ToSet(e.caps) = CapsOf(f, s)
  PROVE  Lists(f, Append(kernels, e), K \cup {s})
<1> DEFINE n == Len(kernels)
           t == Append(kernels, e)
           E == Entries(f)
<1> HIDE DEF E
<1>1. n \in Nat /\ Len(t) = n + 1 /\ (\A i \in 1..n : t[i] = kernels[i]) /\ t[n + 1] = e
  BY AppendFacts DEF E
<1>2. n = Cardinality(K)
  BY DEF Lists
<1> HIDE DEF n, t
<1>3. PlaceOf(f, s) = n + 1 /\ Cardinality(K \cup {s}) = n + 1
  <2>1. IsFiniteSet(K)
    BY NamesFinite
  <2>2. Cardinality(K \cup {s}) = Cardinality(K) + 1
    BY <2>1, FS_AddElement
  <2>3. QED
    BY <1>2, <2>2 DEF PlaceOf
<1>4. ASSUME NEW q \in K PROVE t[PlaceOf(f, q)] = kernels[PlaceOf(f, q)]
  <2> DEFINE Q == {u \in Named(f) : u <= q}
  <2>1. Named(f) \subseteq Nat
    BY DEF Named, Starts, IsFile
  <2>2. q <= s /\ ~(s <= q)
    BY <2>1
  <2>3. Q \subseteq K /\ q \in Q
    <3>1. \A u \in Q : u \in Named(f) /\ u <= s /\ u # s
      BY <2>1, <2>2
    <3>2. q \in Named(f) /\ q <= q
      BY <2>1
    <3>3. QED
      BY <3>1, <3>2
  <2> HIDE DEF Q
  <2>4. IsFiniteSet(K) /\ IsFiniteSet(Q) /\ Cardinality(Q) \in Nat
    BY <2>3, NamesFinite
  <2>5. Cardinality(Q) <= Cardinality(K)
    BY <2>3, <2>4, FS_Subset
  <2>6. Cardinality(Q) # 0
    BY <2>3, <2>4, FS_EmptySet
  <2>7. Cardinality(Q) \in 1..n
    BY <1>1, <1>2, <2>4, <2>5, <2>6
  <2>8. QED
    BY <1>1, <2>7 DEF PlaceOf, Q
<1>5. ASSUME NEW q \in K
      PROVE  /\ \A l \in LastName(f, q) : t[PlaceOf(f, q)].name = f[l].v
             /\ ToSet(t[PlaceOf(f, q)].caps) = CapsOf(f, q)
  BY <1>4 DEF Lists
<1>6. QED
  BY <1>1, <1>3, <1>5 DEF Lists, t

\* The reading after finish_kernel, when an entry is over.
Finished(f, i, q) ==
  /\ q.ok <=> Clean(f, Begun(f, i))
  /\ q.ok => Lists(f, q.kernels, Begun(f, i))

LEMMA FinishLists ==
  ASSUME NEW f, IsFile(f), NEW i \in 0..Len(f), Ends(f, i), NEW r, ReadUpTo(f, i, r),
         NEW q, Finishes(f, r, q)
  PROVE  Finished(f, i, q)
<1>1. EndOfEntry(f, i)
  BY EndFacts
<1>2. Ended(f, i) \subseteq Begun(f, i) /\ Ended(f, i) \subseteq Named(f)
  BY <1>1 DEF EndOfEntry, Ended
<1>3. r \in Readings(f)
  BY DEF ReadUpTo
<1>4. CASE ~r.ok
  <2>1. ~Clean(f, Ended(f, i))
    BY <1>4 DEF ReadUpTo
  <2>2. ~Clean(f, Begun(f, i))
    BY <1>2, <2>1 DEF Clean
  <2>3. ~q.ok
    BY <1>4 DEF Finishes
  <2>4. QED
    BY <2>2, <2>3 DEF Finished
<1>5. CASE r.ok
  <2>1. /\ Clean(f, Ended(f, i)) /\ Lists(f, r.kernels, Ended(f, i))
        /\ PendingRight(f, i, r.cur)
    BY <1>5 DEF ReadUpTo
  <2>2. CASE r.cur.name = <<>>
    <3>1. NamesBy(f, i) = {}
      BY <2>1, <2>2 DEF PendingRight
    <3>2. Begun(f, i) = Ended(f, i)
      BY <1>1, <3>1 DEF EndOfEntry
    <3>3. q = r
      BY <2>2 DEF Finishes
    <3>4. QED
      BY <1>5, <2>1, <3>2, <3>3 DEF Finished
  <2>3. CASE r.cur.name # <<>>
    <3>1. PICK s \in Latest(f, i) : s \in Named(f)
      BY <1>1, <2>1, <2>3 DEF EndOfEntry, PendingRight
    <3>2. /\ NameLines(f, s) = NamesBy(f, i) /\ CapsOf(f, s) = {f[c].v : c \in CapsBy(f, i)}
          /\ s \notin Ended(f, i) /\ Begun(f, i) = {u \in Named(f) : u <= s}
      BY <1>1, <3>1 DEF EndOfEntry
    <3>3. Latest(f, i) = {s}
      BY <3>1, LatestFacts DEF LatestEntry
    <3>4. Begun(f, i) = Ended(f, i) \cup {s}
      BY <1>1, <3>1, <3>3 DEF EndOfEntry
    <3>5. \A l \in LastName(f, s) : r.cur.name = f[l].v
      BY <2>1, <3>2 DEF PendingRight, LastName
    <3>6. r.cur.path
      <4>1. s \in Starts(f) /\ s <= i
        BY <3>1 DEF Latest
      <4>2. QED
        BY <2>1, <4>1 DEF PendingRight
    <3>7. CASE r.cur.name = Unclean
      <4>1. PICK l \in LastName(f, s) : TRUE
        BY <3>1, LastNameExists
      <4>2. ~Clean(f, Begun(f, i))
        BY <3>4, <3>5, <3>7, <4>1 DEF Clean
      <4>3. ~q.ok
        BY <2>3, <3>7 DEF Finishes
      <4>4. QED
        BY <4>2, <4>3 DEF Finished
    <3>8. CASE r.cur.name # Unclean
      <4> DEFINE e == [name |-> r.cur.name, caps |-> r.cur.caps]
      <4>1. q.ok = r.ok /\ q.kernels = Append(r.kernels, e)
        BY <2>3, <3>6, <3>8 DEF Finishes
      <4>2. Clean(f, Begun(f, i))
        BY <2>1, <3>4, <3>5, <3>8 DEF Clean
      <4>3. e \in Entries(f) /\ r.kernels \in Seq(Entries(f))
        BY <1>3 DEF Readings, Pendings, Entries
      <4>4. e.name = r.cur.name /\ e.caps = r.cur.caps
        OBVIOUS
      <4>5. ToSet(e.caps) = CapsOf(f, s)
        BY <2>1, <3>2, <4>4 DEF PendingRight
      <4> HIDE DEF e
      <4>6. Ended(f, i) \cup {s} = {u \in Named(f) : u <= s}
        BY <3>2, <3>4
      <4>7. \A l \in LastName(f, s) : e.name = f[l].v
        BY <3>5, <4>4
      <4>8. Lists(f, Append(r.kernels, e), Ended(f, i) \cup {s})
        BY <1>2, <2>1, <3>1, <3>2, <4>3, <4>5, <4>6, <4>7, ListGrows
      <4>9. QED
        BY <1>5, <3>4, <4>1, <4>2, <4>8 DEF Finished
    <3>9. QED
      BY <3>7, <3>8
  <2>4. QED
    BY <2>2, <2>3
<1>6. QED
  BY <1>4, <1>5

\* A line that begins an entry.
LEMMA PathStep ==
  ASSUME NEW f, IsFile(f), NEW i \in 1..Len(f), f[i].t = "path"
  PROVE  /\ Ends(f, i - 1) /\ Latest(f, i) = {i} /\ NamesBy(f, i) = {}
         /\ CapsBy(f, i) = IF NamesBy(f, i - 1) = {} THEN CapsBy(f, i - 1) ELSE {}
<1>1. /\ Len(f) \in Nat /\ Starts(f) \subseteq 1..Len(f) /\ i \in Starts(f)
      /\ i - 1 \in 0..Len(f) /\ i - 1 + 1 = i /\ DOMAIN f = 1..Len(f)
  BY DEF Starts, IsFile
<1>2. Ends(f, i - 1)
  BY <1>1 DEF Ends
<1>3. Latest(f, i) = {i}
  <2>1. i \in Latest(f, i)
    BY <1>1 DEF Latest
  <2>2. QED
    BY <1>1, <2>1, LatestFacts DEF LatestEntry
<1>4. NamesBy(f, i) = {}
  <2>1. ASSUME NEW l \in NameLines(f, i), l <= i PROVE FALSE
    <3>1. l \in i..Len(f) /\ f[l].t = "name"
      BY DEF NameLines, EntryLines
    <3>2. QED
      BY <1>1, <2>1, <3>1
  <2>2. QED
    BY <1>3, <2>1 DEF NamesBy
<1>5. EndOfEntry(f, i - 1)
  BY <1>1, <1>2, EndFacts
<1>6. CapsBy(f, i) = {c \in 1..i : \E p \in PartsOf(f, i) : c \in CapLines(f, p)}
  BY <1>3 DEF CapsBy
<1>7. i \in PartsOf(f, i) /\ \A p \in PartsOf(f, i) : p \in Starts(f) /\ (p = i \/ p <= i - 1)
  BY <1>1 DEF PartsOf, Named
<1>8. \A c \in 1..i : c \notin CapLines(f, i)
  <2>1. ASSUME NEW c \in 1..i, c \in CapLines(f, i) PROVE FALSE
    <3>1. c \in i..Len(f) /\ f[c].t = "item"
      BY <2>1 DEF CapLines, EntryLines
    <3>2. QED
      BY <1>1, <3>1
  <2>2. QED
    BY <2>1
<1>9. ASSUME NEW s \in Latest(f, i - 1) PROVE s \in Starts(f) /\ s \in 1..(i - 1)
                                            /\ \A p \in Starts(f) : p <= i - 1 => p <= s
  BY <1>1, LatestFacts DEF LatestEntry, Latest
<1>10. CASE NamesBy(f, i - 1) # {}
  <2>1. PICK s \in Latest(f, i - 1) : s \in Named(f)
    BY <1>5, <1>10 DEF EndOfEntry
  <2>2. s < i
    BY <1>1, <1>9, <2>1
  <2>3. \A p \in PartsOf(f, i) : p = i
    <3>1. ASSUME NEW p \in PartsOf(f, i), p <= i - 1 PROVE FALSE
      <4>1. p <= s
        BY <1>7, <1>9, <3>1
      <4>2. ~(p <= s /\ s < i)
        BY <2>1 DEF PartsOf
      <4>3. QED
        BY <2>2, <4>1, <4>2
    <3>2. QED
      BY <1>7, <3>1
  <2>4. CapsBy(f, i) = {}
    BY <1>6, <1>8, <2>3
  <2>5. QED
    BY <1>2, <1>3, <1>4, <1>10, <2>4
<1>11. CASE NamesBy(f, i - 1) = {}
  <2>1. Latest(f, i - 1) \cap Named(f) = {}
    BY <1>5, <1>11 DEF EndOfEntry
  <2>2. ASSUME NEW p, p <= i - 1
        PROVE  p \in PartsOf(f, i) <=> \E s \in Latest(f, i - 1) : p \in PartsOf(f, s)
    <3>1. ASSUME p \in PartsOf(f, i) PROVE \E s \in Latest(f, i - 1) : p \in PartsOf(f, s)
      <4>1. p \in Starts(f) /\ \A q \in Named(f) : ~(p <= q /\ q < i)
        BY <3>1 DEF PartsOf
      <4>2. PICK s \in Latest(f, i - 1) : p <= s
        BY <1>1, <2>2, <4>1, LatestExists
      <4>3. \A q \in Named(f) : q \in 1..Len(f)
        BY <1>1 DEF Named
      <4>4. s \in 1..(i - 1)
        BY <1>9, <4>2
      <4>5. \A q \in Named(f) : ~(p <= q /\ q < s)
        BY <1>1, <4>1, <4>3, <4>4
      <4>6. QED
        BY <4>1, <4>2, <4>5 DEF PartsOf
    <3>2. ASSUME NEW s \in Latest(f, i - 1), p \in PartsOf(f, s) PROVE p \in PartsOf(f, i)
      <4>1. p \in Starts(f) /\ p <= s /\ \A q \in Named(f) : ~(p <= q /\ q < s)
        BY <3>2 DEF PartsOf
      <4>2. ASSUME NEW q \in Named(f), p <= q, q < i PROVE FALSE
        <5>1. q \in Starts(f) /\ q \in 1..Len(f) /\ q <= i - 1
          BY <1>1, <4>2 DEF Named
        <5>2. q <= s /\ q # s
          BY <1>9, <2>1, <3>2, <4>2, <5>1
        <5>3. q < s
          BY <1>9, <3>2, <5>1, <5>2
        <5>4. QED
          BY <4>1, <4>2, <5>3
      <4>3. p <= i
        BY <1>1, <2>2, <4>1
      <4>4. QED
        BY <4>1, <4>2, <4>3 DEF PartsOf
    <3>3. QED
      BY <3>1, <3>2
  <2>3. ASSUME NEW p \in Starts(f), p <= i - 1, NEW c \in CapLines(f, p) PROVE c \in 1..(i - 1)
    <3>1. c \in EntryLines(f, p) /\ c \in p..Len(f) /\ p \in 1..(i - 1)
      BY <1>1, <2>3 DEF CapLines, EntryLines
    <3>2. p < i
      BY <1>1, <3>1
    <3>3. c < i
      BY <1>1, <3>1, <3>2, EntryEnds
    <3>4. QED
      BY <1>1, <3>1, <3>3
  <2>4. ASSUME NEW c PROVE c \in CapsBy(f, i) <=> c \in CapsBy(f, i - 1)
    <3>1. ASSUME c \in CapsBy(f, i) PROVE c \in CapsBy(f, i - 1)
      <4>1. PICK p \in PartsOf(f, i) : c \in CapLines(f, p) /\ c \in 1..i
        BY <1>6, <3>1
      <4>2. p \in Starts(f) /\ p <= i - 1
        BY <1>7, <1>8, <4>1
      <4>3. PICK s \in Latest(f, i - 1) : p \in PartsOf(f, s)
        BY <2>2, <4>2
      <4>4. c \in 1..(i - 1)
        BY <2>3, <4>1, <4>2
      <4>5. QED
        BY <4>1, <4>3, <4>4 DEF CapsBy
    <3>2. ASSUME c \in CapsBy(f, i - 1) PROVE c \in CapsBy(f, i)
      <4>1. PICK s \in Latest(f, i - 1) : \E p \in PartsOf(f, s) : c \in CapLines(f, p)
        BY <3>2 DEF CapsBy
      <4>2. PICK p \in PartsOf(f, s) : c \in CapLines(f, p)
        BY <4>1
      <4>3. p <= i - 1
        BY <1>1, <1>9, <4>1, <4>2 DEF PartsOf
      <4>4. p \in PartsOf(f, i)
        BY <2>2, <4>1, <4>2, <4>3
      <4>5. c \in 1..i
        BY <1>1, <3>2 DEF CapsBy
      <4>6. QED
        BY <1>6, <4>2, <4>4, <4>5
    <3>3. QED
      BY <3>1, <3>2
  <2>5. QED
    BY <1>2, <1>3, <1>4, <1>11, <2>4
<1>12. QED
  BY <1>10, <1>11

\* Before the first line nothing is read.
LEMMA NothingRead ==
  ASSUME NEW f, IsFile(f)
  PROVE  ReadUpTo(f, 0, NoneRead)
<1>1. Len(f) \in Nat /\ Starts(f) \subseteq 1..Len(f)
  BY DEF Starts, IsFile
<1>2. \A s \in Starts(f) : ~(s <= 0)
  BY <1>1
<1>3. Ended(f, 0) = {} /\ Latest(f, 0) = {}
  <2>1. ASSUME NEW s \in Named(f), NEW h \in Starts(f), s < h, h <= 0 PROVE FALSE
    BY <1>2, <2>1
  <2>2. QED
    BY <1>2, <2>1 DEF Ended, Latest
<1>4. NamesBy(f, 0) = {} /\ CapsBy(f, 0) = {} /\ ~Open(f, 0)
  BY <1>3 DEF NamesBy, CapsBy, Open
<1>5. ToSet(<<>>) = {}
  BY DEF ToSet
<1>6. NoneRead.cur.path = FALSE /\ NoneRead.cur.name = <<>> /\ NoneRead.cur.caps = <<>>
  BY DEF NoneRead, NoKernel
<1>7. PendingRight(f, 0, NoneRead.cur)
  BY <1>2, <1>4, <1>5, <1>6 DEF PendingRight
<1>8. NoneRead.ok = TRUE /\ NoneRead.in_caps = FALSE /\ NoneRead.kernels = <<>>
  BY DEF NoneRead
<1>9. Clean(f, Ended(f, 0))
  BY <1>3 DEF Clean
<1>10. Lists(f, NoneRead.kernels, Ended(f, 0))
  <2>1. Cardinality({}) = 0 /\ Len(<<>>) = 0
    BY FS_EmptySet
  <2>2. QED
    BY <1>3, <1>8, <2>1 DEF Lists
<1>11. QED
  BY <1>4, <1>7, <1>8, <1>9, <1>10, NoneReadType DEF ReadUpTo

\* One more line.
LEMMA PathRead ==
  ASSUME NEW f, IsFile(f), NEW i \in 1..Len(f), f[i].t = "path",
         NEW r, ReadUpTo(f, i - 1, r), r.ok, NEW q \in Readings(f), OnPath(f, r, q)
  PROVE  ReadUpTo(f, i, q)
<1>1. /\ Len(f) \in Nat /\ i - 1 \in 0..Len(f) /\ i - 1 + 1 = i /\ i \in Starts(f) /\ i <= i
  BY DEF Starts, IsFile
<1>2. PICK p \in Readings(f) :
        /\ Finishes(f, r, p) /\ q.kernels = p.kernels /\ q.ok = p.ok /\ ~q.in_caps
        /\ q.cur.path /\ q.cur.name = p.cur.name /\ q.cur.caps = p.cur.caps
  BY DEF OnPath
<1>3. /\ Ends(f, i - 1) /\ NamesBy(f, i) = {}
      /\ CapsBy(f, i) = IF NamesBy(f, i - 1) = {} THEN CapsBy(f, i - 1) ELSE {}
  BY PathStep
<1>4. Finished(f, i - 1, p)
  BY <1>1, <1>2, <1>3, FinishLists
<1>5. Begun(f, i - 1) = Ended(f, i)
  BY <1>1, <1>3, EndFacts DEF EndOfEntry
<1>6. (q.ok <=> Clean(f, Ended(f, i))) /\ (q.ok => Lists(f, q.kernels, Ended(f, i)))
  BY <1>2, <1>4, <1>5 DEF Finished
<1>7. ~Open(f, i)
  BY OpenStep
<1>8. ASSUME q.ok PROVE PendingRight(f, i, q.cur)
  <2>1. PendingRight(f, i - 1, r.cur)
    BY DEF ReadUpTo
  <2>2. CASE r.cur.name = <<>>
    <3>1. p = r /\ NamesBy(f, i - 1) = {} /\ ToSet(r.cur.caps) = {f[c].v : c \in CapsBy(f, i - 1)}
      BY <1>2, <2>1, <2>2 DEF Finishes, PendingRight
    <3>2. q.cur.name = <<>> /\ ToSet(q.cur.caps) = {f[c].v : c \in CapsBy(f, i)}
      BY <1>2, <1>3, <2>2, <3>1
    <3>3. QED
      BY <1>1, <1>2, <1>3, <3>2 DEF PendingRight
  <2>3. CASE r.cur.name # <<>>
    <3>1. p.cur = NoKernel
      BY <1>2, <1>8, <2>3 DEF Finishes
    <3>2. q.cur.name = <<>> /\ q.cur.caps = <<>>
      BY <1>2, <3>1 DEF NoKernel
    <3>3. CapsBy(f, i) = {}
      BY <1>3, <2>1, <2>3 DEF PendingRight
    <3>4. ToSet(q.cur.caps) = {f[c].v : c \in CapsBy(f, i)}
      BY <3>2, <3>3 DEF ToSet
    <3>5. QED
      BY <1>1, <1>2, <1>3, <3>2, <3>4 DEF PendingRight
  <2>4. QED
    BY <2>2, <2>3
<1>9. QED
  BY <1>2, <1>6, <1>7, <1>8 DEF ReadUpTo

\* On other lines the list stays, and so do parts of what is pending.
LEMMA InnerRead ==
  ASSUME NEW f, IsFile(f), NEW i \in 1..Len(f), f[i].t # "path",
         NEW r, ReadUpTo(f, i - 1, r), r.ok, NEW q \in Readings(f), q.ok = r.ok,
         q.kernels = r.kernels, PendingRight(f, i, q.cur), q.in_caps <=> Open(f, i)
  PROVE  ReadUpTo(f, i, q)
<1>1. Ended(f, i) = Ended(f, i - 1)
  BY NextInEntry DEF SameEntry
<1>2. QED
  BY <1>1 DEF ReadUpTo

LEMMA NameRead ==
  ASSUME NEW f, IsFile(f), NEW i \in 1..Len(f), f[i].t = "name",
         NEW r, ReadUpTo(f, i - 1, r), r.ok, r.cur.path,
         NEW q \in Readings(f), OnName(f, i, r, q)
  PROVE  ReadUpTo(f, i, q)
<1>1. Len(f) \in Nat /\ i \in DOMAIN f /\ i - 1 \in 0..Len(f) /\ f[i].t # "path"
  BY DEF IsFile
<1>2. PendingRight(f, i - 1, r.cur) /\ (r.in_caps <=> Open(f, i - 1))
  BY DEF ReadUpTo
<1>3. /\ Latest(f, i) = Latest(f, i - 1)
      /\ (\E s \in Starts(f) : s <= i) <=> (\E s \in Starts(f) : s <= i - 1)
  BY <1>1, NextInEntry DEF SameEntry
<1>4. Latest(f, i) # {}
  <2>1. PICK s \in Starts(f) : s <= i - 1
    BY <1>2 DEF PendingRight
  <2>2. QED
    BY <1>1, <1>3, <2>1, LatestExists
<1>5. NamesBy(f, i) = NamesBy(f, i - 1) \cup {i}
  BY <1>1, <1>4, NamesStep
<1>6. CapsBy(f, i) = CapsBy(f, i - 1)
  BY <1>1, CapsStep
<1>7. \A l \in NamesBy(f, i - 1) : ~(i <= l)
  <2>1. \A l \in NamesBy(f, i - 1) : l <= i - 1 /\ l \in Int
    BY <1>1 DEF NamesBy, NameLines, EntryLines, Latest, Starts, IsFile
  <2>2. QED
    BY <2>1
<1>8. f[i].v # <<>>
  BY <1>1 DEF IsFile
<1>9. \A l \in NamesBy(f, i) : (\A j \in NamesBy(f, i) : j <= l) => l = i
  BY <1>5, <1>7
<1>10. PendingRight(f, i, q.cur)
  <2>1. q.cur.path = r.cur.path /\ q.cur.name = f[i].v /\ q.cur.caps = r.cur.caps
    BY DEF OnName
  <2>2. QED
    BY <1>2, <1>3, <1>5, <1>6, <1>8, <1>9, <2>1 DEF PendingRight
<1>11. q.in_caps <=> Open(f, i)
  BY <1>2, OpenStep DEF OnName
<1>12. QED
  BY <1>1, <1>10, <1>11, InnerRead DEF OnName

LEMMA ItemRead ==
  ASSUME NEW f, IsFile(f), NEW i \in 1..Len(f), f[i].t = "item",
         NEW r, ReadUpTo(f, i - 1, r), r.ok, r.in_caps,
         NEW q \in Readings(f), OnItem(f, i, r, q)
  PROVE  ReadUpTo(f, i, q)
<1>1. Len(f) \in Nat /\ i \in DOMAIN f /\ i - 1 \in 0..Len(f) /\ f[i].t # "path"
  BY DEF IsFile
<1>2. PendingRight(f, i - 1, r.cur) /\ (r.in_caps <=> Open(f, i - 1)) /\ r \in Readings(f)
  BY DEF ReadUpTo
<1>3. (\E s \in Starts(f) : s <= i) <=> (\E s \in Starts(f) : s <= i - 1)
  BY <1>1, NextInEntry DEF SameEntry
<1>4. Open(f, i) <=> Open(f, i - 1)
  BY OpenStep
<1>5. NamesBy(f, i) = NamesBy(f, i - 1)
  BY <1>1, NamesStep
<1>6. CapsBy(f, i) = CapsBy(f, i - 1) \cup {i}
  BY <1>1, <1>2, <1>4, CapsStep
<1>7. ToSet(q.cur.caps) = ToSet(r.cur.caps) \cup {f[i].v}
  <2> DEFINE V == Values(f)
             o == r.cur.caps
             w == q.cur.caps
  <2>1. o \in Seq(V) /\ f[i].v \in V /\ w = Append(o, f[i].v)
    BY <1>1, <1>2 DEF Readings, Pendings, OnItem, Values
  <2> HIDE DEF V, o, w
  <2>2. /\ Len(o) \in Nat /\ DOMAIN o = 1..Len(o) /\ DOMAIN w = 1..(Len(o) + 1)
        /\ \A z \in 1..Len(o) : w[z] = o[z]
        /\ w[Len(o) + 1] = f[i].v
    BY <2>1, AppendFacts
  <2>3. \A z : z \in DOMAIN w <=> z \in DOMAIN o \/ z = Len(o) + 1
    BY <2>2
  <2>4. \A z \in DOMAIN o : w[z] = o[z]
    BY <2>2
  <2>5. ToSet(w) = ToSet(o) \cup {f[i].v}
    BY <2>2, <2>3, <2>4 DEF ToSet
  <2>6. QED
    BY <2>5 DEF o, w
<1>8. PendingRight(f, i, q.cur)
  <2>1. q.cur.path = r.cur.path /\ q.cur.name = r.cur.name
    BY DEF OnItem
  <2>2. ToSet(q.cur.caps) = {f[c].v : c \in CapsBy(f, i)}
    BY <1>2, <1>6, <1>7 DEF PendingRight
  <2>3. QED
    BY <1>2, <1>3, <1>5, <2>1, <2>2 DEF PendingRight
<1>9. q.in_caps <=> Open(f, i)
  BY <1>2, <1>4 DEF OnItem
<1>10. QED
  BY <1>1, <1>8, <1>9, InnerRead DEF OnItem

LEMMA OtherRead ==
  ASSUME NEW f, IsFile(f), NEW i \in 1..Len(f),
         NEW r, ReadUpTo(f, i - 1, r), r.ok, NEW q \in Readings(f), OnOther(r, q),
         f[i].t \notin {"path", "name", "item"} \/ (f[i].t = "name" /\ ~r.cur.path)
           \/ (f[i].t = "item" /\ ~r.in_caps),
         q.in_caps <=> Open(f, i)
  PROVE  ReadUpTo(f, i, q)
<1>1. Len(f) \in Nat /\ i \in DOMAIN f /\ i - 1 \in 0..Len(f) /\ f[i].t # "path"
  BY DEF IsFile
<1>2. PendingRight(f, i - 1, r.cur) /\ (r.in_caps <=> Open(f, i - 1))
  BY DEF ReadUpTo
<1>3. /\ Latest(f, i) = Latest(f, i - 1)
      /\ (\E s \in Starts(f) : s <= i) <=> (\E s \in Starts(f) : s <= i - 1)
  BY <1>1, NextInEntry DEF SameEntry
<1>4. NamesBy(f, i) = NamesBy(f, i - 1)
  <2>1. f[i].t = "name" => Latest(f, i) = {}
    BY <1>2, <1>3 DEF PendingRight, Latest
  <2>2. QED
    BY <1>1, <2>1, NamesStep
<1>5. CapsBy(f, i) = CapsBy(f, i - 1)
  <2>1. f[i].t = "item" => ~Open(f, i)
    BY <1>2, OpenStep
  <2>2. QED
    BY <1>1, <2>1, CapsStep
<1>6. PendingRight(f, i, q.cur)
  BY <1>2, <1>3, <1>4, <1>5 DEF PendingRight, OnOther
<1>7. QED
  BY <1>1, <1>6, InnerRead DEF OnOther

LEMMA ReadStep ==
  ASSUME NEW f, IsFile(f), NEW i \in 1..Len(f), NEW r, ReadUpTo(f, i - 1, r)
  PROVE  ReadUpTo(f, i, KernelLine(r, f[i]))
<1>1. PICK q : q = KernelLine(r, f[i])
  OBVIOUS
<1>2. i \in DOMAIN f /\ Len(f) \in Nat /\ i - 1 \in 0..Len(f) /\ r \in Readings(f)
  BY DEF IsFile, ReadUpTo
<1>3. LineStep(f, i, r, q) /\ q \in Readings(f)
  BY <1>1, <1>2, LineType DEF LineStep
<1>4. CASE ~r.ok
  <2>1. q = r /\ ~Clean(f, Ended(f, i - 1))
    BY <1>3, <1>4 DEF LineStep, ReadUpTo
  <2>2. Ended(f, i - 1) \subseteq Ended(f, i)
    <3>1. \A h \in Starts(f) : h <= i - 1 => h <= i
      BY <1>2 DEF Starts, IsFile
    <3>2. QED
      BY <3>1 DEF Ended
  <2>3. ~Clean(f, Ended(f, i))
    BY <2>1, <2>2 DEF Clean
  <2>4. QED
    BY <1>1, <1>2, <1>4, <2>1, <2>3 DEF ReadUpTo
<1>5. CASE r.ok
  <2>1. /\ r.cur.path <=> \E s \in Starts(f) : s <= i - 1
        /\ r.in_caps <=> Open(f, i - 1)
    BY <1>5 DEF ReadUpTo, PendingRight
  <2>2. CASE f[i].t = "path"
    BY <1>1, <1>3, <1>5, <2>2, PathRead DEF LineStep
  <2>3. CASE f[i].t = "name" /\ r.cur.path
    BY <1>1, <1>3, <1>5, <2>3, NameRead DEF LineStep
  <2>4. CASE f[i].t = "item" /\ r.in_caps
    BY <1>1, <1>3, <1>5, <2>4, ItemRead DEF LineStep
  <2>5. CASE f[i].t # "path" /\ ~(f[i].t = "name" /\ r.cur.path) /\ ~(f[i].t = "item" /\ r.in_caps)
    <3>1. SameEntry(f, i)
      BY <2>5, NextInEntry
    <3>2. OnOther(r, q) /\ (q.in_caps <=> Open(f, i))
      <4>1. CASE f[i].t = "blank"
        BY <1>3, <1>5, <2>1, <4>1, OpenStep DEF LineStep, OnOther
      <4>2. CASE f[i].t = "caps" /\ r.cur.path
        BY <1>3, <1>5, <2>1, <3>1, <4>2, OpenStep DEF LineStep, SameEntry
      <4>3. CASE f[i].t = "other"
        BY <1>3, <1>5, <4>3, OpenStep DEF LineStep
      <4>4. CASE f[i].t = "caps" /\ ~r.cur.path
        BY <1>3, <1>5, <2>1, <3>1, <4>4, OpenStep DEF LineStep, SameEntry
      <4>5. CASE f[i].t = "item"
        BY <1>3, <1>5, <2>1, <2>5, <4>5, OpenStep DEF LineStep
      <4>6. CASE f[i].t = "name"
        <5>1. OnOther(r, q) /\ ~q.in_caps
          BY <1>3, <1>5, <2>5, <4>6 DEF LineStep
        <5>2. ~Open(f, i - 1)
          <6>1. \A h \in 1..(i - 1) : \A s \in Starts(f) : s <= h => s <= i - 1
            BY <1>2 DEF Starts, IsFile
          <6>2. QED
            BY <2>1, <2>5, <4>6, <6>1 DEF Open
        <5>3. QED
          BY <4>6, <5>1, <5>2, OpenStep
      <4>7. QED
        BY <1>2, <2>5, <4>1, <4>2, <4>3, <4>4, <4>5, <4>6 DEF IsFile
    <3>3. QED
      BY <1>1, <1>3, <1>5, <2>5, <3>2, OtherRead
  <2>6. QED
    BY <2>2, <2>3, <2>4, <2>5
<1>6. QED
  BY <1>4, <1>5

\* load_kernels reads every file as it is written.
LEMMA KernelFilesRead == KernelsRead
<1> SUFFICES ASSUME NEW f \in ManifestFiles
             PROVE  LET r == load_kernels(f)
                        place(s) == Cardinality({q \in Named(f) : q <= s})
                    IN /\ r.ok <=> /\ Named(f) # {}
                                   /\ \A s \in Named(f) : \A i \in LastName(f, s) : f[i].v # Unclean
                       /\ r.ok => /\ Len(r.kernels) = Cardinality(Named(f))
                                  /\ \A s \in Named(f) :
                                       /\ \A i \in LastName(f, s) : r.kernels[place(s)].name = f[i].v
                                       /\ ToSet(r.kernels[place(s)].caps)
                                            = {f[c].v : c \in UNION {CapLines(f, p) : p \in PartsOf(f, s)}}
  BY DEF KernelsRead
<1>1. IsFile(f)
  BY FilesAssumption DEF IsFile
<1>2. PICK R : ReadsLines(f, R) /\ load_kernels(f) = Returned(finish_kernel(R[Len(f)]))
  BY <1>1, LoadKernelsReads
<1> DEFINE n == Len(f)
           S == {i \in 0..n : ReadUpTo(f, i, R[i])}
<1>3. n \in Nat /\ 0 \in S
  BY <1>1, <1>2, NothingRead DEF ReadsLines, IsFile
<1>4. ASSUME NEW i \in 1..n, i - 1 \in S PROVE i \in S
  <2>1. ReadUpTo(f, i - 1, R[i - 1]) /\ R[i] = KernelLine(R[i - 1], f[i])
    BY <1>2, <1>4 DEF ReadsLines
  <2>2. ReadUpTo(f, i, R[i])
    BY <1>1, <2>1, ReadStep
  <2>3. QED
    BY <1>3, <2>2
<1>5. \A i \in 0..n : i \in S
  <2> HIDE DEF S, n
  <2>1. QED
    BY <1>3, <1>4, PrefixInduction
<1>6. ReadUpTo(f, n, R[n]) /\ n \in 0..n
  <2>1. n \in 0..n
    BY <1>3
  <2>2. QED
    BY <1>5, <2>1
<1>7. PICK q : q = finish_kernel(R[n])
  OBVIOUS
<1>8. Finishes(f, R[n], q)
  BY <1>1, <1>6, <1>7, FinishType DEF ReadUpTo
<1>9. Ends(f, n)
  BY DEF Ends
<1>10. Finished(f, n, q) /\ Begun(f, n) = Named(f)
  BY <1>1, <1>6, <1>8, <1>9, FinishLists, EndFacts DEF EndOfEntry
<1>11. PICK r : r = load_kernels(f)
  OBVIOUS
<1>12. r = Returned(q)
  BY <1>2, <1>7, <1>11
<1> HIDE DEF S, n
<1>13. q.ok => Lists(f, q.kernels, Named(f))
  BY <1>10 DEF Finished
<1>14. q.ok => (q.kernels # <<>> <=> Named(f) # {})
  <2>1. q.kernels \in Seq(Entries(f))
    BY <1>8 DEF Finishes, Readings
  <2>2. q.kernels # <<>> <=> Len(q.kernels) # 0
    BY <2>1, EmptySeq, LenProperties
  <2>3. Cardinality(Named(f)) # 0 <=> Named(f) # {}
    BY <1>1, NamesFinite, FS_EmptySet
  <2>4. QED
    BY <1>13, <2>2, <2>3 DEF Lists
<1>15. r.ok = (q.ok /\ q.kernels # <<>>) /\ r.kernels = q.kernels
  BY <1>12 DEF Returned
<1>16. r.ok <=> Named(f) # {} /\ Clean(f, Named(f))
  BY <1>10, <1>14, <1>15 DEF Finished
<1>17. r.ok => Lists(f, r.kernels, Named(f))
  BY <1>13, <1>15
<1>18. QED
  BY <1>11, <1>16, <1>17 DEF Clean, Lists, PlaceOf, CapsOf

(* load_rules.                                                              *)
NameSet(f, i) == {j \in 1..i : f[j].t = "name"}

OwnEntry(f, j) ==
  \E s \in Starts(f) : s < j /\ \A h \in {l \in DOMAIN f : f[l].t = "name"} : ~(s < h /\ h < j)

RuleValues(f) == {Head(f[i].v) : i \in DOMAIN f}
RuleReadings(f) == [rules : Seq(RuleValues(f)), path : BOOLEAN, ok : BOOLEAN]

RulesUpTo(f, i, r) ==
  /\ r \in RuleReadings(f)
  /\ r.ok <=> \A j \in NameSet(f, i) : f[j].v # Unclean /\ OwnEntry(f, j)
  /\ r.ok => /\ r.path <=> \E s \in Starts(f) : s <= i /\ \A j \in NameSet(f, i) : ~(s < j)
             /\ Len(r.rules) = Cardinality(NameSet(f, i))
             /\ \A j \in NameSet(f, i) : r.rules[Cardinality(NameSet(f, j))] = Head(f[j].v)

NoRules == [rules |-> <<>>, path |-> FALSE, ok |-> TRUE]

\* What the step of load_rules changes.
RuleStepped(f, i, r, q) ==
  /\ q \in RuleReadings(f)
  /\ ~r.ok => q = r
  /\ r.ok /\ f[i].t = "path" => q.path /\ q.ok /\ q.rules = r.rules
  /\ r.ok /\ f[i].t = "name" /\ (~r.path \/ f[i].v = Unclean) => ~q.ok
  /\ r.ok /\ f[i].t = "name" /\ ~(~r.path \/ f[i].v = Unclean) =>
       ~q.path /\ q.ok /\ q.rules = Append(r.rules, Head(f[i].v))
  /\ r.ok /\ f[i].t \notin {"path", "name"} => q = r

LEMMA RuleLineType ==
  ASSUME NEW f, NEW r \in RuleReadings(f), NEW i \in DOMAIN f
  PROVE  RuleStepped(f, i, r, RuleLine(r, f[i]))
<1> DEFINE V == RuleValues(f)
           R == [rules : Seq(V), path : BOOLEAN, ok : BOOLEAN]
           h == Head(f[i].v)
           a == Append(r.rules, h)
<1>1. r \in R /\ RuleReadings(f) = R
  BY DEF RuleReadings
<1>2. h \in V
  BY DEF RuleValues
<1>3. a \in Seq(V)
  <2> HIDE DEF V, h
  <2>1. QED
    BY <1>1, <1>2, AppendFacts
<1>4. PICK q : q = RuleLine(r, f[i])
  OBVIOUS
<1> HIDE DEF V
<1>5. CASE ~r.ok
  <2>1. q = r
    BY <1>4, <1>5 DEF RuleLine
  <2>2. QED
    BY <1>1, <1>4, <1>5, <2>1 DEF RuleStepped
<1>6. CASE r.ok /\ f[i].t = "path"
  <2>1. q = [r EXCEPT !.path = TRUE]
    BY <1>4, <1>6 DEF RuleLine
  <2>2. q \in R /\ q.path /\ q.ok = r.ok /\ q.rules = r.rules
    BY <1>1, <2>1
  <2>3. QED
    BY <1>1, <1>4, <1>6, <2>2 DEF RuleStepped
<1>7. CASE r.ok /\ f[i].t = "name" /\ (~r.path \/ f[i].v = Unclean)
  <2>1. q = [r EXCEPT !.ok = FALSE]
    BY <1>4, <1>7 DEF RuleLine
  <2>2. q \in R /\ ~q.ok
    BY <1>1, <2>1
  <2>3. QED
    BY <1>1, <1>4, <1>7, <2>2 DEF RuleStepped
<1>8. CASE r.ok /\ f[i].t = "name" /\ ~(~r.path \/ f[i].v = Unclean)
  <2>1. q = [r EXCEPT !.path = FALSE, !.rules = a]
    BY <1>4, <1>8 DEF RuleLine
  <2> HIDE DEF a
  <2>2. q \in R /\ ~q.path /\ q.ok = r.ok /\ q.rules = a
    BY <1>1, <1>3, <2>1
  <2>3. QED
    BY <1>1, <1>4, <1>8, <2>2 DEF RuleStepped, a, h
<1>9. CASE r.ok /\ f[i].t \notin {"path", "name"}
  <2>1. q = r
    BY <1>4, <1>9 DEF RuleLine
  <2>2. QED
    BY <1>1, <1>4, <1>9, <2>1 DEF RuleStepped
<1>10. QED
  BY <1>5, <1>6, <1>7, <1>8, <1>9

LEMMA LoadRulesReads ==
  ASSUME NEW f, IsFile(f)
  PROVE  \E R :
           /\ R[0] = NoRules
           /\ \A i \in 1..Len(f) : R[i] = RuleLine(R[i - 1], f[i])
           /\ load_rules(f) = [ok |-> R[Len(f)].ok /\ R[Len(f)].rules # <<>>,
                              rules |-> R[Len(f)].rules]
<1> DEFINE n == Len(f)
           T == RuleReadings(f)
           g == [p \in (1..n) \X T |-> RuleLine(p[2], f[p[1]])]
           c == NoRules
           F == CHOOSE u : u = [i \in 0..n |-> IF i = 0 THEN NoRules ELSE RuleLine(u[i - 1], f[i])]
           B(u) == [i \in 0..n |-> IF i = 0 THEN c ELSE RuleLine(u[i - 1], f[i])]
<1>1. load_rules(f) = [ok |-> F[n].ok /\ F[n].rules # <<>>, rules |-> F[n].rules]
  BY DEF load_rules, NoRules
<1>2. n \in Nat /\ c \in T /\ \A i \in 1..n : \A x \in T : RuleLine(x, f[i]) \in T
  <2>1. \A i \in 1..n : i \in DOMAIN f
    BY DEF IsFile
  <2>2. NoRules \in T
    <3> DEFINE V == RuleValues(f)
    <3>1. <<>> \in Seq(V)
      OBVIOUS
    <3> HIDE DEF V
    <3>2. QED
      BY <3>1 DEF RuleReadings, NoRules, V
  <2>3. QED
    BY <2>1, <2>2, RuleLineType DEF RuleStepped, IsFile
<1>3. F = CHOOSE u : u = B(u)
  OBVIOUS
<1> HIDE DEF n, T, c, F
<1>4. g \in [(1..n) \X T -> T] /\ \A i \in 1..n : \A x \in T : g[<<i, x>>] = RuleLine(x, f[i])
  BY <1>2
<1> HIDE DEF g
<1>5. PICK u : IsRun(n, T, c, g, u)
  <2>1. IsStep(n, T, g)
    BY <1>4 DEF IsStep
  <2>2. QED
    BY <1>2, <2>1, PrefixRecursion
<1>6. u \in [0..n -> T] /\ u[0] = c /\ \A i \in 1..n : u[i] = g[<<i, u[i - 1]>>]
  BY <1>5 DEF IsRun
<1>7. ASSUME NEW i \in 0..n PROVE u[i] = IF i = 0 THEN c ELSE RuleLine(u[i - 1], f[i])
  <2>1. CASE i = 0
    BY <1>6, <2>1
  <2>2. CASE i # 0
    <3>1. i \in 1..n /\ i - 1 \in 0..n
      BY <1>2, <2>2
    <3>2. u[i - 1] \in T /\ u[i] = g[<<i, u[i - 1]>>]
      BY <1>6, <3>1
    <3>3. QED
      BY <1>4, <2>2, <3>1, <3>2
  <2>3. QED
    BY <2>1, <2>2
<1>8. u = B(u)
  BY <1>6, <1>7
<1>9. F = B(F)
  <2> HIDE DEF B
  <2>1. QED
    BY <1>3, <1>8
<1>10. F[0] = c
  BY <1>2, <1>9
<1>11. ASSUME NEW i \in 1..n PROVE F[i] = RuleLine(F[i - 1], f[i])
  <2>1. i \in 0..n /\ i # 0
    BY <1>2
  <2>2. QED
    BY <1>9, <2>1
<1>12. QED
  BY <1>1, <1>10, <1>11 DEF c, n

\* One more line of Stdrewrite.yaml.
LEMMA NameSetStep ==
  ASSUME NEW f, IsFile(f), NEW i \in 1..Len(f)
  PROVE  /\ NameSet(f, i) = IF f[i].t = "name" THEN NameSet(f, i - 1) \cup {i} ELSE NameSet(f, i - 1)
         /\ i \notin NameSet(f, i - 1)
         /\ IsFiniteSet(NameSet(f, i - 1)) /\ Cardinality(NameSet(f, i - 1)) \in Nat
<1>1. Len(f) \in Nat /\ i \in Nat
  BY DEF IsFile
<1>2. \A j : j \in 1..i <=> j \in 1..(i - 1) \/ j = i
  BY <1>1
<1>3. i \notin 1..(i - 1)
  BY <1>1
<1>4. IsFiniteSet(NameSet(f, i - 1)) /\ Cardinality(NameSet(f, i - 1)) \in Nat
  <2>1. NameSet(f, i - 1) \subseteq 1..(i - 1)
    BY DEF NameSet
  <2>2. 1 \in Int /\ i - 1 \in Int
    BY <1>1
  <2>3. IsFiniteSet(1..(i - 1))
    BY <2>2, FS_Interval
  <2>4. QED
    BY <2>1, <2>3, FS_Subset, FS_CardinalityType
<1>5. QED
  BY <1>2, <1>3, <1>4 DEF NameSet

LEMMA RuleStep ==
  ASSUME NEW f, IsFile(f), NEW i \in 1..Len(f), NEW r, RulesUpTo(f, i - 1, r)
  PROVE  RulesUpTo(f, i, RuleLine(r, f[i]))
<1>1. PICK q : q = RuleLine(r, f[i])
  OBVIOUS
<1>2. /\ i \in DOMAIN f /\ Len(f) \in Nat /\ i \in Nat /\ r \in RuleReadings(f)
      /\ Starts(f) \subseteq 1..Len(f) /\ DOMAIN f = 1..Len(f)
  BY DEF IsFile, RulesUpTo, Starts
<1>3. RuleStepped(f, i, r, q) /\ q \in RuleReadings(f)
  BY <1>1, <1>2, RuleLineType DEF RuleStepped
<1> DEFINE O == NameSet(f, i - 1)
           N == NameSet(f, i)
           Fine(j) == f[j].v # Unclean /\ OwnEntry(f, j)
           Unnamed(z, K) == \E s \in Starts(f) : s <= z /\ \A j \in K : ~(s < j)
<1>4. /\ N = IF f[i].t = "name" THEN O \cup {i} ELSE O
      /\ i \notin O /\ IsFiniteSet(O) /\ Cardinality(O) \in Nat
  BY NameSetStep
<1>5. /\ r.ok <=> \A j \in O : Fine(j)
      /\ r.ok => /\ r.path <=> Unnamed(i - 1, O)
                 /\ Len(r.rules) = Cardinality(O)
                 /\ \A j \in O : r.rules[Cardinality(NameSet(f, j))] = Head(f[j].v)
  BY DEF RulesUpTo
<1>6. SUFFICES
        /\ q.ok <=> \A j \in N : Fine(j)
        /\ q.ok => /\ q.path <=> Unnamed(i, N)
                   /\ Len(q.rules) = Cardinality(N)
                   /\ \A j \in N : q.rules[Cardinality(NameSet(f, j))] = Head(f[j].v)
  BY <1>1, <1>3 DEF RulesUpTo
<1>7. O \subseteq 1..(i - 1)
  BY DEF NameSet
<1>8. f[i].t = "name" => (Unnamed(i - 1, O) <=> OwnEntry(f, i))
  <2> DEFINE H == {l \in DOMAIN f : f[l].t = "name"}
  <2>1. \A h : h \in O <=> h \in H /\ h < i
    BY <1>2 DEF NameSet
  <2>2. \A s \in Starts(f) : s <= i - 1 <=> s < i
    BY <1>2
  <2>3. OwnEntry(f, i) <=> \E s \in Starts(f) : s < i /\ \A h \in H : ~(s < h /\ h < i)
    BY DEF OwnEntry
  <2> HIDE DEF H
  <2>4. QED
    BY <2>1, <2>2, <2>3
<1> HIDE DEF O, N, Fine
<1>9. CASE ~r.ok
  <2>1. q = r
    BY <1>3, <1>9 DEF RuleStepped
  <2>2. QED
    BY <1>4, <1>5, <1>9, <2>1
<1>10. CASE r.ok /\ f[i].t = "path"
  <2>1. q.path /\ q.ok /\ q.rules = r.rules /\ N = O
    BY <1>3, <1>4, <1>10 DEF RuleStepped
  <2>2. i \in Starts(f) /\ i <= i
    BY <1>2, <1>10 DEF Starts
  <2>3. \A j \in O : ~(i < j)
    BY <1>2, <1>7
  <2>4. Unnamed(i, N)
    BY <2>1, <2>2, <2>3
  <2>5. QED
    BY <1>5, <1>10, <2>1, <2>4
<1>11. CASE r.ok /\ f[i].t = "name"
  <2>1. N = O \cup {i} /\ (r.path <=> OwnEntry(f, i))
    BY <1>4, <1>5, <1>8, <1>11
  <2>2. CASE ~r.path \/ f[i].v = Unclean
    <3>1. ~q.ok
      BY <1>3, <1>11, <2>2 DEF RuleStepped
    <3>2. ~Fine(i)
      BY <2>1, <2>2 DEF Fine
    <3>3. QED
      BY <2>1, <3>1, <3>2
  <2>3. CASE ~(~r.path \/ f[i].v = Unclean)
    <3>1. ~q.path /\ q.ok /\ q.rules = Append(r.rules, Head(f[i].v))
      BY <1>3, <1>11, <2>3 DEF RuleStepped
    <3>2. Fine(i)
      BY <2>1, <2>3 DEF Fine
    <3>3. ~Unnamed(i, N)
      <4>1. \A s \in Starts(f) : s <= i => s < i
        BY <1>2, <1>11 DEF Starts
      <4>2. QED
        BY <2>1, <4>1
    <3>4. Cardinality(N) = Cardinality(O) + 1
      BY <1>4, <2>1, FS_AddElement
    <3>5. /\ Len(q.rules) = Len(r.rules) + 1 /\ q.rules[Len(r.rules) + 1] = Head(f[i].v)
          /\ \A z \in 1..Len(r.rules) : q.rules[z] = r.rules[z]
      <4> DEFINE V == RuleValues(f)
                 h == Head(f[i].v)
      <4>1. h \in V /\ r.rules \in Seq(V)
        BY <1>2 DEF RuleValues, RuleReadings
      <4> HIDE DEF V, h
      <4>2. QED
        BY <3>1, <4>1, AppendFacts DEF h
    <3>6. ASSUME NEW j \in O PROVE Cardinality(NameSet(f, j)) \in 1..Len(r.rules)
      <4>1. NameSet(f, j) \subseteq O /\ j \in NameSet(f, j)
        BY <1>2, <1>7 DEF NameSet, O
      <4>2. /\ IsFiniteSet(NameSet(f, j)) /\ Cardinality(NameSet(f, j)) <= Cardinality(O)
            /\ Cardinality(NameSet(f, j)) \in Nat
        BY <1>4, <4>1, FS_Subset, FS_CardinalityType
      <4>3. Cardinality(NameSet(f, j)) # 0
        BY <4>1, <4>2, FS_EmptySet
      <4>4. QED
        BY <1>4, <1>5, <1>11, <4>2, <4>3
    <3>7. ASSUME NEW j \in N PROVE q.rules[Cardinality(NameSet(f, j))] = Head(f[j].v)
      <4>1. CASE j = i
        BY <1>5, <1>11, <3>4, <3>5, <4>1 DEF N
      <4>2. CASE j \in O
        BY <1>5, <1>11, <3>5, <3>6, <4>2
      <4>3. QED
        BY <2>1, <4>1, <4>2
    <3>8. QED
      BY <1>5, <1>11, <2>1, <3>1, <3>2, <3>3, <3>4, <3>5, <3>7
  <2>4. QED
    BY <2>2, <2>3
<1>12. CASE r.ok /\ f[i].t \notin {"path", "name"}
  <2>1. q = r /\ N = O
    BY <1>3, <1>4, <1>12 DEF RuleStepped
  <2>2. \A s \in Starts(f) : s <= i <=> s <= i - 1
    BY <1>2, <1>12 DEF Starts
  <2>3. Unnamed(i, N) <=> Unnamed(i - 1, O)
    BY <2>1, <2>2
  <2>4. QED
    BY <1>5, <1>12, <2>1, <2>3
<1>13. QED
  BY <1>9, <1>10, <1>11, <1>12

\* load_rules reads every file as it is written.
LEMMA RuleFilesRead == RulesRead
<1> SUFFICES ASSUME NEW f \in ManifestFiles
             PROVE  LET r == load_rules(f)
                        names == {i \in DOMAIN f : f[i].t = "name"}
                        own(i) == \E s \in Starts(f) : s < i /\ \A j \in names : ~(s < j /\ j < i)
                    IN /\ r.ok <=> names # {} /\ \A i \in names : f[i].v # Unclean /\ own(i)
                       /\ r.ok => /\ Len(r.rules) = Cardinality(names)
                                  /\ \A i \in names : r.rules[Cardinality({j \in names : j <= i})] = Head(f[i].v)
  BY DEF RulesRead
<1>1. IsFile(f)
  BY FilesAssumption DEF IsFile
<1> DEFINE n == Len(f)
<1>2. PICK R : /\ R[0] = NoRules
               /\ \A i \in 1..n : R[i] = RuleLine(R[i - 1], f[i])
               /\ load_rules(f) = [ok |-> R[n].ok /\ R[n].rules # <<>>, rules |-> R[n].rules]
  BY <1>1, LoadRulesReads
<1> DEFINE S == {i \in 0..n : RulesUpTo(f, i, R[i])}
<1>3. n \in Nat /\ 0 \in S
  <2>1. n \in Nat /\ \A s \in Starts(f) : ~(s <= 0)
    BY <1>1 DEF IsFile, Starts
  <2>2. NameSet(f, 0) = {}
    BY DEF NameSet
  <2>3. NoRules.ok = TRUE /\ NoRules.path = FALSE /\ NoRules.rules = <<>>
    BY DEF NoRules
  <2>4. Cardinality({}) = 0 /\ Len(<<>>) = 0
    BY FS_EmptySet
  <2>5. NoRules \in RuleReadings(f)
    <3> DEFINE V == RuleValues(f)
    <3>1. <<>> \in Seq(V)
      OBVIOUS
    <3> HIDE DEF V
    <3>2. QED
      BY <3>1 DEF RuleReadings, NoRules, V
  <2>6. RulesUpTo(f, 0, NoRules)
    BY <2>1, <2>2, <2>3, <2>4, <2>5 DEF RulesUpTo
  <2>7. QED
    BY <1>2, <2>1, <2>6
<1>4. ASSUME NEW i \in 1..n, i - 1 \in S PROVE i \in S
  <2>1. RulesUpTo(f, i - 1, R[i - 1]) /\ R[i] = RuleLine(R[i - 1], f[i])
    BY <1>2, <1>4
  <2>2. RulesUpTo(f, i, R[i])
    BY <1>1, <2>1, RuleStep
  <2>3. QED
    BY <1>3, <2>2
<1>5. \A i \in 0..n : i \in S
  <2> HIDE DEF S, n
  <2>1. QED
    BY <1>3, <1>4, PrefixInduction
<1>6. RulesUpTo(f, n, R[n]) /\ n \in 0..n
  <2>1. n \in 0..n
    BY <1>3
  <2>2. QED
    BY <1>5, <2>1
<1> DEFINE names == {i \in DOMAIN f : f[i].t = "name"}
<1>7. DOMAIN f = 1..n
  BY <1>1 DEF IsFile
<1> HIDE DEF S
<1>8. names = NameSet(f, n) /\ \A i \in names : {j \in names : j <= i} = NameSet(f, i)
  BY <1>3, <1>7 DEF NameSet
<1>9. PICK q : q = R[n]
  OBVIOUS
<1>10. PICK r : r = load_rules(f)
  OBVIOUS
<1>11. r.ok = (q.ok /\ q.rules # <<>>) /\ r.rules = q.rules
  BY <1>2, <1>9, <1>10
<1> HIDE DEF n, names
<1>12. /\ q \in RuleReadings(f)
       /\ q.ok <=> \A j \in names : f[j].v # Unclean /\ OwnEntry(f, j)
       /\ q.ok => /\ Len(q.rules) = Cardinality(names)
                  /\ \A j \in names : q.rules[Cardinality({i \in names : i <= j})] = Head(f[j].v)
  BY <1>6, <1>8, <1>9 DEF RulesUpTo
<1>13. q.ok => (q.rules # <<>> <=> names # {})
  <2>1. q.rules \in Seq(RuleValues(f))
    BY <1>12 DEF RuleReadings
  <2>2. q.rules # <<>> <=> Len(q.rules) # 0
    BY <2>1, EmptySeq, LenProperties
  <2>3. IsFiniteSet(names)
    <3>1. names \subseteq 1..n /\ IsFiniteSet(1..n)
      BY <1>3, <1>7, FS_Interval DEF names
    <3>2. QED
      BY <3>1, FS_Subset
  <2>4. Cardinality(names) # 0 <=> names # {}
    BY <2>3, FS_EmptySet
  <2>5. QED
    BY <1>12, <2>2, <2>4
<1>14. r.ok <=> names # {} /\ \A j \in names : f[j].v # Unclean /\ OwnEntry(f, j)
  BY <1>11, <1>12, <1>13
<1>15. r.ok => /\ Len(r.rules) = Cardinality(names)
               /\ \A j \in names : r.rules[Cardinality({i \in names : i <= j})] = Head(f[j].v)
  BY <1>11, <1>12
<1>16. QED
  BY <1>10, <1>14, <1>15 DEF names, OwnEntry

\* load_kernels and load_rules, for files of any length: they accept exactly the files
\* whose names are clean and stand where they belong, and then every kernel and ruleset
\* is there once, in its place, with the capabilities that were written for it.
THEOREM FilesAreRead == PSpec => []ManifestsRead
<1>1. ManifestsRead
  BY KernelFilesRead, RuleFilesRead DEF ManifestsRead
<1>2. QED
  BY <1>1, PTL
=============================================================================
