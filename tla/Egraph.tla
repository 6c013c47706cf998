------------------------------- MODULE Egraph -------------------------------
(***************************************************************************)
(* The pure parts of Oeuph: the e-graph, patterns, matching, instantiation *)
(* and extraction (oeuph/ccw_oeuph.c), and the pattern parser              *)
(* (oeuph/ccw_oeuph_pattern.c).                                            *)
(*                                                                         *)
(* An e-node is [k, op, v, reg, ch]: k is "const", "reg" or "op" (a        *)
(* register leaf has the opcode "" in the code).  The union-find forest is *)
(* kept as cls, the root eg_find gives each node: the lower id always wins *)
(* a union, so the root is the least node of the class.  Nodes are         *)
(* numbered from 1, and 0 is the -1 of the code.                           *)
(***************************************************************************)
EXTENDS Integers, Sequences, FiniteSets, SequencesExt

CONSTANTS
  FirstCap,    \* what reserve_items allocates first (64)
  MaxPatNodes, \* CCW_PAT_MAX_NODES (64)
  MaxChildren, \* CCW_PAT_MAX_CHILDREN and CCW_MAX_CHILDREN (4)
  FirstChar    \* opcode -> the code of its first character

Const(v) == [k |-> "const", op |-> "", v |-> v, reg |-> "", ch |-> <<>>]

RegLeaf(r) == [k |-> "reg", op |-> "", v |-> 0, reg |-> r, ch |-> <<>>]

OpNode(op, ch) == [k |-> "op", op |-> op, v |-> 0, reg |-> "", ch |-> ch]

(* cap is the one capacity both arrays share; ncap and pcap are what was    *)
(* allocated for the nodes and for the parents.                             *)
EmptyGraph == [nodes |-> <<>>, cls |-> <<>>, cap |-> 0, ncap |-> 0, pcap |-> 0]

Count(g) == Len(g.nodes)

eg_find(g, c) == g.cls[c]

eg_union(g, a, b) ==
  LET lo == Min({g.cls[a], g.cls[b]})
  IN [g EXCEPT !.cls = [i \in DOMAIN @ |-> IF @[i] \in {g.cls[a], g.cls[b]} THEN lo ELSE @[i]]]

(* The same operation on children of the same classes.                      *)
SameNode(g, a, b) ==
  /\ a.k = b.k /\ a.op = b.op /\ a.v = b.v /\ a.reg = b.reg
  /\ Len(a.ch) = Len(b.ch)
  /\ \A c \in DOMAIN a.ch : eg_find(g, a.ch[c]) = eg_find(g, b.ch[c])

(* Twice, for the nodes and for the parents, with the same capacity: the    *)
(* first call raises it, so the second finds enough room once the parents   *)
(* exist, and doubles once more while they do not.                          *)
reserve_items(g) ==
  LET next == IF g.cap = 0 THEN FirstCap ELSE 2 * g.cap
  IN IF g.pcap = 0 THEN [g EXCEPT !.ncap = next, !.pcap = 2 * next, !.cap = 2 * next]
     ELSE [g EXCEPT !.ncap = next, !.cap = next]

(* [g, id]: an equal node, or a new one in a class of its own.              *)
eg_add_node(g, n) ==
  LET equal == {i \in DOMAIN g.nodes : SameNode(g, g.nodes[i], n)}
      room == IF Count(g) = g.cap THEN reserve_items(g) ELSE g
  IN IF equal # {} THEN [g |-> g, id |-> Min(equal)]
     ELSE [g |-> [room EXCEPT !.nodes = Append(@, n), !.cls = Append(@, Count(g) + 1)],
           id |-> Count(g) + 1]

(* A write past what was allocated: what follows is undefined.              *)
Overrun(g) == Count(g) > g.ncap \/ Count(g) > g.pcap

Classes(g) == {g.cls[i] : i \in DOMAIN g.nodes}

eg_class_count(g) == Cardinality(Classes(g))

(* One sweep over all pairs, in order, and the loop around it.              *)
RebuildSweep(g) ==
  LET n == Count(g)
      Pair(h, p) ==
        LET i == 1 + ((p - 1) \div n)
            j == 1 + ((p - 1) % n)
        IN IF i < j /\ SameNode(h, h.nodes[i], h.nodes[j]) THEN eg_union(h, i, j) ELSE h
  IN FoldLeft(Pair, g, [p \in 1 .. n * n |-> p])

RECURSIVE eg_rebuild(_)
\* Mutant: congruence is not restored.
LazyRebuild(g) == g

eg_rebuild(g) ==
  LET next == RebuildSweep(g)
  IN IF next = g THEN g ELSE eg_rebuild(next)

----------------------------------------------------------------------------
(* The pattern parser.  The tree SFSEXP gives is [t |-> "list", items] or   *)
(* [t |-> "atom", c, s, v] with c "var", "int", "name" or "quoted".  A      *)
(* parse state is [pat, id]: the nodes so far and the last one made, 0 once *)
(* the pattern is refused.                                                  *)
PatNode(kind, text, value) == [kind |-> kind, text |-> text, value |-> value, ch |-> <<>>]

alloc_node(pat, node) ==
  IF Len(pat) >= MaxPatNodes THEN [pat |-> pat, id |-> 0]
  ELSE [pat |-> Append(pat, node), id |-> Len(pat) + 1]

Refuse(pat) == [pat |-> pat, id |-> 0]

parse_atom(pat, src) ==
  CASE src.c = "quoted" -> Refuse(pat)
    [] src.c = "var" -> alloc_node(pat, PatNode("var", src.s, 0))
    [] src.c = "int" -> alloc_node(pat, PatNode("const", "", src.v))
    [] OTHER -> alloc_node(pat, PatNode("op", src.s, 0))

(* (iconst k) is a constant, (iconst ?k) a constant variable.               *)
parse_iconst(pat, src) ==
  IF Len(src.items) # 2 \/ (Len(src.items) = 2 /\ src.items[2].t # "atom") THEN Refuse(pat)
  ELSE CASE src.items[2].c = "var" -> alloc_node(pat, PatNode("const_var", src.items[2].s, 0))
         [] src.items[2].c = "int" -> alloc_node(pat, PatNode("const", "", src.items[2].v))
         [] OTHER -> Refuse(pat)

RECURSIVE parse_node(_, _)

(* The node is allocated before its children, which are added one by one.   *)
parse_list(pat, src) ==
  LET head == alloc_node(pat, PatNode("op", src.items[1].s, 0))
      Child(s, item) ==
        LET r == parse_node(s.pat, item)
        IN IF s.id = 0 THEN s
           ELSE IF r.id = 0 \/ Len(r.pat[s.id].ch) >= MaxChildren THEN Refuse(r.pat)
           ELSE [pat |-> [r.pat EXCEPT ![s.id].ch = Append(@, r.id)], id |-> s.id]
  IN CASE src.items = <<>> -> Refuse(pat)
       [] src.items # <<>> /\ src.items[1].t # "atom" -> Refuse(pat)
       [] src.items # <<>> /\ src.items[1].t = "atom" /\ src.items[1].s = "iconst" ->
            parse_iconst(pat, src)
       [] OTHER -> FoldLeft(Child, head, Tail(src.items))

parse_node(pat, src) == IF src.t = "list" THEN parse_list(pat, src) ELSE parse_atom(pat, src)

(* [ok, nodes]; the root is the first node.                                 *)
ccw_pattern_parse(src) ==
  LET r == parse_node(<<>>, src)
  IN [ok |-> r.id # 0, nodes |-> r.pat]

----------------------------------------------------------------------------
(* Matching.  A binding is <<"class", c>> or <<"value", v>>; a result is    *)
(* [ok, b].                                                                 *)
NoBindings == [x \in {} |-> <<"class", 0>>]

binding_add(b, name, x) ==
  IF name \in DOMAIN b THEN [ok |-> b[name] = x, b |-> b]
  ELSE [ok |-> TRUE, b |-> [m \in (DOMAIN b) \cup {name} |-> IF m = name THEN x ELSE b[m]]]

RECURSIVE match_node(_, _, _, _, _)

(* A child matches the first node of its class that does; an earlier child  *)
(* is not tried again when a later one fails.                               *)
MatchChild(g, pat, pidx, want, b) ==
  LET fits == {j \in DOMAIN g.nodes : eg_find(g, j) = want /\ match_node(g, pat, pidx, j, b).ok}
  IN IF fits = {} THEN [ok |-> FALSE, b |-> b] ELSE match_node(g, pat, pidx, Min(fits), b)

match_node(g, pat, pidx, nidx, b) ==
  LET p == pat[pidx]
      n == g.nodes[nidx]
      Child(r, c) == IF ~r.ok THEN r
                     ELSE MatchChild(g, pat, p.ch[c], eg_find(g, n.ch[c]), r.b)
  IN CASE p.kind = "var" -> binding_add(b, p.text, <<"class", eg_find(g, nidx)>>)
       [] p.kind = "const" -> [ok |-> n.k = "const" /\ n.v = p.value, b |-> b]
       [] p.kind = "const_var" ->
            IF n.k = "const" THEN binding_add(b, p.text, <<"value", n.v>>)
            ELSE [ok |-> FALSE, b |-> b]
       [] OTHER ->
            IF n.k = "op" /\ n.op = p.text /\ Len(n.ch) = Len(p.ch)
            THEN FoldLeft(Child, [ok |-> TRUE, b |-> b], [c \in DOMAIN p.ch |-> c])
            ELSE [ok |-> FALSE, b |-> b]

RECURSIVE instantiate(_, _, _, _)

(* [g, id], id 0 if a variable is not bound to what its place needs; the    *)
(* nodes added until then stay.                                             *)
instantiate(g, pat, pidx, b) ==
  LET p == pat[pidx]
      Bound(what) == p.text \in DOMAIN b /\ b[p.text][1] = what
      Child(r, c) ==
        IF r.id = 0 THEN r
        ELSE LET one == instantiate(r.g, pat, c, b)
             IN [g |-> one.g, id |-> one.id, ch |-> Append(r.ch, one.id)]
      all == FoldLeft(Child, [g |-> g, id |-> 1, ch |-> <<>>], p.ch)
  IN CASE p.kind = "var" ->
            [g |-> g, id |-> IF Bound("class") THEN b[p.text][2] ELSE 0]
       [] p.kind = "const" -> eg_add_node(g, Const(p.value))
       [] p.kind = "const_var" ->
            IF Bound("value") THEN eg_add_node(g, Const(b[p.text][2])) ELSE [g |-> g, id |-> 0]
       [] OTHER -> IF all.id = 0 THEN [g |-> all.g, id |-> 0]
                   ELSE eg_add_node(all.g, OpNode(p.text, all.ch))

----------------------------------------------------------------------------
(* Costs and extraction.                                                    *)
node_cost(n, model) ==
  CASE n.k # "op" -> 1
    [] n.k = "op" /\ model = "canonical" -> 10 + FirstChar[n.op]
    [] OTHER -> CASE n.op = "imul" -> 30 [] n.op = "idiv" -> 40
                  [] n.op \in {"shl", "shr"} -> 4 [] n.op \in {"iadd", "isub"} -> 5
                  [] n.op = "imov" -> 2 [] OTHER -> 10

Inf == 1000000

(* The cost of node i over the best costs of its children, Inf if one has   *)
(* none yet.                                                                *)
CostOver(g, model, best, i) ==
  LET of == [c \in DOMAIN g.nodes[i].ch |-> best[eg_find(g, g.nodes[i].ch[c])]]
  IN IF \E c \in DOMAIN of : of[c] = Inf THEN Inf
     ELSE node_cost(g.nodes[i], model) + FoldSeq(+, 0, of)

\* Mutant: the first node that is ready stays the best one.
FirstExtractStep(g, model, s, i) ==
  LET cost == CostOver(g, model, s.cost, i)
      cl == eg_find(g, i)
  IN IF cost < s.cost[cl] /\ s.cost[cl] = Inf
     THEN [node |-> [s.node EXCEPT ![cl] = i], cost |-> [s.cost EXCEPT ![cl] = cost]]
     ELSE s

ExtractStep(g, model, s, i) ==
  LET cost == CostOver(g, model, s.cost, i)
      cl == eg_find(g, i)
  IN IF cost < s.cost[cl] \/ (cost # Inf /\ cost = s.cost[cl] /\ i < s.node[cl])
     THEN [node |-> [s.node EXCEPT ![cl] = i], cost |-> [s.cost EXCEPT ![cl] = cost]]
     ELSE s

RECURSIVE ExtractLoop(_, _, _)
ExtractLoop(g, model, s) ==
  LET next == FoldLeft(LAMBDA t, i : ExtractStep(g, model, t, i), s,
                       [i \in 1 .. Count(g) |-> i])
  IN IF next = s THEN s ELSE ExtractLoop(g, model, next)

(* The best node and cost of every class, at its root.                      *)
extract(g, model) ==
  ExtractLoop(g, model, [node |-> [i \in 1 .. Count(g) |-> 0],
                         cost |-> [i \in 1 .. Count(g) |-> Inf]])

=============================================================================
