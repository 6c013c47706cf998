----------------------------- MODULE CcwldProofs -----------------------------
(***************************************************************************)
(* Theorems about the first half of a link in Ccwld, up to layout: which   *)
(* definition of a name wins, when an archive is left, and what garbage    *)
(* collection may take away.                                               *)
(***************************************************************************)
EXTENDS Ccwld, SequenceLemmas, FiniteSetTheorems, TLAPS

(***************************************************************************)
(* Lists.                                                                  *)
(***************************************************************************)
LEMMA ListFacts ==
  ASSUME NEW s, IsList(s)
  PROVE  /\ Len(s) \in Nat /\ DOMAIN s = 1..Len(s) /\ s = [i \in 1..Len(s) |-> s[i]]
         /\ s \in Seq(ToSet(s)) /\ \A i \in DOMAIN s : s[i] \in ToSet(s)
<1>1. s \in Seq(ToSet(s))
  BY DEF IsList
<1>2. Len(s) \in Nat /\ DOMAIN s = 1..Len(s) /\ s = [i \in 1..Len(s) |-> s[i]]
  BY <1>1, LenProperties
<1>3. QED
  BY <1>1, <1>2 DEF ToSet

LEMMA ListOf ==
  ASSUME NEW n \in Nat, NEW s, DOMAIN s = 1..n, s = [i \in 1..n |-> s[i]]
  PROVE  IsList(s) /\ Len(s) = n
<1> DEFINE T == ToSet(s)
<1>1. \A i \in 1..n : s[i] \in T
  BY DEF ToSet
<1> HIDE DEF T
<1>2. s \in Seq(T)
  BY <1>1
<1>3. QED
  BY <1>2 DEF IsList, T

LEMMA SeqIsList ==
  ASSUME NEW T, NEW s \in Seq(T)
  PROVE  IsList(s) /\ \A i \in DOMAIN s : s[i] \in T
<1>1. Len(s) \in Nat /\ DOMAIN s = 1..Len(s) /\ s = [i \in 1..Len(s) |-> s[i]]
      /\ \A i \in 1..Len(s) : s[i] \in T
  BY LenProperties
<1>2. QED
  BY <1>1, ListOf

LEMMA AppendList ==
  ASSUME NEW s, NEW e, IsList(s)
  PROVE  /\ IsList(Append(s, e)) /\ Len(Append(s, e)) = Len(s) + 1
         /\ DOMAIN Append(s, e) = DOMAIN s \cup {Len(s) + 1} /\ Len(s) + 1 \notin DOMAIN s
         /\ \A i \in DOMAIN s : Append(s, e)[i] = s[i]
         /\ Append(s, e)[Len(s) + 1] = e
<1> DEFINE T == ToSet(s) \cup {e}
<1>1. Len(s) \in Nat /\ DOMAIN s = 1..Len(s) /\ s \in Seq(T)
  <2>1. s \in Seq(ToSet(s)) /\ Len(s) \in Nat /\ DOMAIN s = 1..Len(s)
    BY ListFacts
  <2>2. \A i \in 1..Len(s) : s[i] \in T
    BY <2>1, ListFacts
  <2>3. s = [i \in 1..Len(s) |-> s[i]]
    BY ListFacts
  <2> HIDE DEF T
  <2>4. QED
    BY <2>1, <2>2, <2>3
<1>2. e \in T
  OBVIOUS
<1> HIDE DEF T
<1>3. /\ Append(s, e) \in Seq(T) /\ Len(Append(s, e)) = Len(s) + 1
      /\ \A i \in 1..Len(s) : Append(s, e)[i] = s[i]
      /\ Append(s, e)[Len(s) + 1] = e
  BY <1>1, <1>2, AppendProperties
<1>4. IsList(Append(s, e)) /\ DOMAIN Append(s, e) = 1..Len(Append(s, e))
  BY <1>3, SeqIsList, LenProperties
<1>5. QED
  BY <1>1, <1>3, <1>4

LEMMA ConcatList ==
  ASSUME NEW s, NEW t, IsList(s), IsList(t)
  PROVE  /\ IsList(s \o t) /\ Len(s \o t) = Len(s) + Len(t)
         /\ \A i \in DOMAIN s : i \in DOMAIN (s \o t) /\ (s \o t)[i] = s[i]
         /\ \A i \in DOMAIN (s \o t) :
              \/ i \in DOMAIN s
              \/ i - Len(s) \in DOMAIN t /\ (s \o t)[i] = t[i - Len(s)]
<1>1. Len(s) \in Nat /\ DOMAIN s = 1..Len(s) /\ Len(t) \in Nat /\ DOMAIN t = 1..Len(t)
  BY ListFacts
<1> DEFINE T == ToSet(s) \cup ToSet(t)
           u == s \o t
           n == Len(s) + Len(t)
<1>2. s \in Seq(T) /\ t \in Seq(T)
  <2>1. /\ s = [i \in 1..Len(s) |-> s[i]] /\ \A i \in 1..Len(s) : s[i] \in T
        /\ t = [i \in 1..Len(t) |-> t[i]] /\ \A i \in 1..Len(t) : t[i] \in T
    BY ListFacts
  <2> HIDE DEF T
  <2>2. QED
    BY <1>1, <2>1
<1> HIDE DEF T
<1>3. /\ u \in Seq(T) /\ Len(u) = n
      /\ \A i \in 1..n : u[i] = IF i <= Len(s) THEN s[i] ELSE t[i - Len(s)]
  BY <1>2, ConcatProperties
<1> HIDE DEF u
<1>4. IsList(u) /\ DOMAIN u = 1..n
  BY <1>3, SeqIsList, LenProperties
<1>5. QED
  BY <1>1, <1>3, <1>4 DEF u

LEMMA FilteredList ==
  ASSUME NEW s, NEW G, IsList(s)
  PROVE  /\ IsList(Filtered(s, G))
         /\ \A i \in DOMAIN Filtered(s, G) :
              Filtered(s, G)[i] \in G /\ \E j \in DOMAIN s : Filtered(s, G)[i] = s[j]
<1> DEFINE T == ToSet(s)
<1>1. s \in Seq(T)
  BY ListFacts
<1>2. Filtered(s, G) \in Seq(T \cap G)
  <2> HIDE DEF T
  <2>1. QED
    BY <1>1, FilteredType
<1> DEFINE q == Filtered(s, G)
           R == T \cap G
<1>3. IsList(q) /\ \A i \in DOMAIN q : q[i] \in R
  <2> HIDE DEF q, R
  <2>1. QED
    BY <1>2, SeqIsList DEF q, R
<1>4. QED
  BY <1>3 DEF ToSet

(***************************************************************************)
(* The invariant.                                                          *)
(***************************************************************************)
\* The phases up to layout.  No later phase returns to one of these.
Early == {"load", "merge", "scan", "script", "on_resolved", "lto", "gc", "on_gc", "layout"}

\* An input section, a loaded file, and an entry of the symbol table.
IsSec(s) ==
  /\ s = [name |-> s.name, alloc |-> s.alloc, size |-> s.size, align |-> s.align,
          data |-> s.data, live |-> s.live, placed |-> s.placed, out_sec |-> s.out_sec,
          out_off |-> s.out_off]
  /\ s.live \in {0, 1, 2}

IsObj(o) ==
  /\ o = [kind |-> o.kind, secs |-> o.secs, syms |-> o.syms, relocs |-> o.relocs,
          members |-> o.members, index |-> o.index, extracted |-> o.extracted,
          used |-> o.used, as_needed |-> o.as_needed, group |-> o.group, path |-> o.path]
  /\ IsList(o.secs) /\ \A i \in DOMAIN o.secs : IsSec(o.secs[i])
  /\ IsList(o.syms) /\ \A i \in DOMAIN o.syms : o.syms[i].binding \in {"local", "weak", "global"}
  /\ IsList(o.index) /\ \A i \in DOMAIN o.index : o.index[i].member \in DOMAIN o.members
  /\ \A i \in DOMAIN o.members : IsElf(o.members[i])
  /\ o.kind = "archive" => o.syms = <<>>
  /\ o.kind # "archive" => o.index = <<>>

IsEntry(r) ==
  r = [defined |-> r.defined, obj |-> r.obj, isym |-> r.isym, weak |-> r.weak,
       script |-> r.script, referenced |-> r.referenced, value |-> r.value, known |-> r.known]

IsSym(r, os) ==
  /\ IsEntry(r) /\ r.defined \in BOOLEAN /\ r.script \in BOOLEAN
  /\ r.obj # 0 => r.obj \in DOMAIN os

Objs(os) == IsList(os) /\ \A i \in DOMAIN os : IsObj(os[i])

TablesOK ==
  /\ plan \in Plan /\ IsList(osecs) /\ Objs(objs)
  /\ rsyms = [n \in Symbol |-> rsyms[n]] /\ \A n \in Symbol : IsSym(rsyms[n], objs)

\* Where the loops are.  Archives are scanned between the merges, and an object that is
\* merged for an archive is the last one and the work of this round.
LoopsOK ==
  /\ at \in Nat \ {0} /\ k \in Nat \ {0}
  /\ scan = [ar |-> scan.ar, i |-> scan.i, n |-> scan.n, round |-> scan.round]
  /\ scan.ar \in Nat /\ scan.i \in Nat \ {0} /\ scan.n \in Nat
  /\ phase = "scan" => scan.ar # 0
  /\ phase \notin {"merge", "scan"} => scan.ar = 0
  /\ phase = "merge" /\ scan.ar # 0 => scan.n # 0 /\ at = Len(objs)

\* A round that has extracted nothing found nothing wanted where it has been.
RoundOK ==
  phase = "scan" /\ scan.n = 0 /\ scan.ar \in DOMAIN objs =>
    \A i \in DOMAIN objs[scan.ar].index : i < scan.i => ~Wanted(scan.ar, i)

\* The definitions that the merges have come past.
Seen(n) ==
  {d \in Definitions(n) : phase = "merge" => d[1] < at \/ (d[1] = at /\ d[2] < k)}

Before(d, e) == d[1] < e[1] \/ (d[1] = e[1] /\ d[2] <= e[2])

\* The entry r of a name among the definitions D, of which those in S are strong.
IsWinner(r, D, S) ==
  LET d == <<r.obj, r.isym>>
  IN /\ r.defined <=> D # {}
     /\ r.defined => /\ d \in D
                     /\ IF D \cap S = {} THEN \A e \in D : Before(d, e) ELSE D \cap S = {d}

\* An entry is weak as long as its definition is, until the script may change that.
IsWeak(r, os) == r.defined => r.weak = (os[r.obj].syms[r.isym].binding = "weak")

MergeOK ==
  /\ phase = "load" => \A n \in Symbol : ~rsyms[n].defined /\ ~rsyms[n].script
  /\ phase \in {"merge", "scan"} =>
       \A n \in Symbol : ~rsyms[n].script /\ IsWeak(rsyms[n], objs)
  /\ phase \in {"merge", "scan", "script"} =>
       \A n \in Symbol : ~rsyms[n].script => IsWinner(rsyms[n], Seen(n), Strong(n))

\* The collector.  A marked section has no edge to one that waits, and the roots that
\* the loop has come past do not wait.
Live(os, x) == os[x[1]].secs[x[2]].live
Alloc(os, x) == os[x[1]].secs[x[2]].alloc

Fresh(os) ==
  \A x \in Sections(os) : /\ Live(os, x) # 2
                          /\ os[x[1]].kind # "lto" => Live(os, x) = 1

Marking(os) ==
  \A x \in Sections(os) :
    /\ Live(os, x) = 2 => \A y \in Edges(os, x) : Live(os, y) # 1
    /\ os[x[1]].kind # "lto" /\ Live(os, x) = 0 => ~Alloc(os, x)

RootsPassed ==
  \A x \in Sections(objs) :
    (x[1] < at \/ (x[1] = at /\ x[2] < k)) /\ objs[x[1]].kind # "lto"
    /\ Alloc(objs, x) /\ Kept(x[1], x[2]) => Live(objs, x) # 1

GcOK ==
  /\ phase \in {"load", "merge", "scan", "script", "on_resolved", "lto"} => Fresh(objs)
  /\ phase = "gc" => Marking(objs) /\ RootsPassed
  /\ GcClosed

\* The inductive invariant.
LinkOK == TablesOK /\ LoopsOK /\ RoundOK /\ MergeOK /\ GcOK

LinkInv == phase \in Early => LinkOK

(***************************************************************************)
(* Loaded files.                                                           *)
(***************************************************************************)
LEMMA EmptyList == IsList(<<>>) /\ DOMAIN <<>> = {} /\ Len(<<>>) = 0
<1> DEFINE e == <<>>
<1>1. e \in Seq({1}) /\ Len(e) = 0
  BY EmptySeq
<1> HIDE DEF e
<1>2. IsList(e) /\ DOMAIN e = 1..Len(e)
  BY <1>1, SeqIsList, LenProperties
<1>3. QED
  BY <1>1, <1>2 DEF e

\* What tells two objects apart for resolve and gc.
SameObj(o, p) ==
  /\ p.kind = o.kind /\ p.secs = o.secs /\ p.syms = o.syms /\ p.relocs = o.relocs
  /\ p.members = o.members /\ p.index = o.index

IsRecord(o) ==
  o = [kind |-> o.kind, secs |-> o.secs, syms |-> o.syms, relocs |-> o.relocs,
       members |-> o.members, index |-> o.index, extracted |-> o.extracted,
       used |-> o.used, as_needed |-> o.as_needed, group |-> o.group, path |-> o.path]

LEMMA EditedObj ==
  ASSUME NEW o, NEW p, IsObj(o), IsRecord(p), SameObj(o, p)
  PROVE  IsObj(p)
BY DEF IsObj, IsRecord, SameObj

LEMMA InputObj ==
  ASSUME NEW o, IsObj(o), NEW a, NEW g, NEW f,
         NEW p, p = [o EXCEPT !.as_needed = a, !.group = g, !.path = f]
  PROVE  IsObj(p) /\ SameObj(o, p)
<1>1. IsRecord(o)
  BY DEF IsObj, IsRecord
<1>2. PICK b : b = [o EXCEPT !.as_needed = a]
  OBVIOUS
<1>3. IsRecord(b) /\ SameObj(o, b)
  BY <1>1, <1>2 DEF IsRecord, SameObj
<1>4. PICK d : d = [b EXCEPT !.group = g]
  OBVIOUS
<1>5. IsRecord(d) /\ SameObj(b, d)
  BY <1>3, <1>4 DEF IsRecord, SameObj
<1>6. p = [d EXCEPT !.path = f]
  BY <1>2, <1>4
<1>7. IsRecord(p) /\ SameObj(d, p)
  BY <1>5, <1>6 DEF IsRecord, SameObj
<1>8. SameObj(o, p)
  BY <1>3, <1>5, <1>7 DEF SameObj
<1>9. QED
  BY <1>7, <1>8, EditedObj

LEMMA MemberObj ==
  ASSUME NEW o, IsObj(o), NEW g, NEW f, NEW p, p = [o EXCEPT !.group = g, !.path = f]
  PROVE  IsObj(p) /\ SameObj(o, p)
<1>1. IsRecord(o)
  BY DEF IsObj, IsRecord
<1>2. PICK b : b = [o EXCEPT !.group = g]
  OBVIOUS
<1>3. IsRecord(b) /\ SameObj(o, b)
  BY <1>1, <1>2 DEF IsRecord, SameObj
<1>4. p = [b EXCEPT !.path = f]
  BY <1>2
<1>5. IsRecord(p) /\ SameObj(b, p)
  BY <1>3, <1>4 DEF IsRecord, SameObj
<1>6. SameObj(o, p)
  BY <1>3, <1>5 DEF SameObj
<1>7. QED
  BY <1>5, <1>6, EditedObj

\* The sections of a file, all of them live.
LEMMA LoadedObj ==
  ASSUME NEW c, IsElf(c)
  PROVE  /\ IsObj(load_elf_mem(c)) /\ load_elf_mem(c).kind # "archive"
         /\ \A i \in DOMAIN load_elf_mem(c).secs : load_elf_mem(c).secs[i].live = 1
<1> DEFINE G == {s \in ToSet(c.shdrs) : sec_materialized(s)}
           q == Filtered(c.shdrs, G)
           t == IF c.etype = "dyn" THEN "dso"
                ELSE IF \E i \in DOMAIN q : q[i].name = ".ccw.lto" THEN "lto"
                ELSE "object"
           ss == [i \in DOMAIN q |-> NewSec(q[i])]
           sy == [i \in DOMAIN c.syms |-> NewSym(c, c.syms[i])]
           re == [i \in DOMAIN c.relas |-> NewReloc(c, c.relas[i])]
           o == load_elf_mem(c)
<1>1. o = [Blank EXCEPT !.kind = t, !.secs = ss, !.syms = sy, !.relocs = re]
  BY DEF load_elf_mem
<1>2. t \in {"dso", "lto", "object"}
  OBVIOUS
<1>3. IsList(ss) /\ \A i \in DOMAIN ss : IsSec(ss[i]) /\ ss[i].live = 1
  <2>1. IsList(q)
    <3>1. IsList(c.shdrs)
      BY DEF IsElf
    <3> HIDE DEF G
    <3>2. QED
      BY <3>1, FilteredList
  <2> HIDE DEF q
  <2>2. DOMAIN ss = 1..Len(q) /\ Len(q) \in Nat
    BY <2>1, ListFacts
  <2>3. \A i \in DOMAIN ss : ss[i] = NewSec(q[i])
    OBVIOUS
  <2>4. ASSUME NEW s PROVE IsSec(NewSec(s)) /\ NewSec(s).live = 1
    BY DEF IsSec, NewSec
  <2>5. ss = [i \in 1..Len(q) |-> ss[i]]
    BY <2>2
  <2> HIDE DEF ss
  <2>6. QED
    BY <2>2, <2>3, <2>4, <2>5, ListOf
<1>4. IsList(sy) /\ \A i \in DOMAIN sy : sy[i].binding \in {"local", "weak", "global"}
  <2>1. DOMAIN sy = 1..Len(c.syms) /\ Len(c.syms) \in Nat /\ DOMAIN c.syms = 1..Len(c.syms)
    BY ListFacts DEF IsElf
  <2>2. \A i \in DOMAIN sy : sy[i].binding = c.syms[i].binding
    BY DEF NewSym
  <2>3. \A i \in DOMAIN sy : sy[i].binding \in {"local", "weak", "global"}
    BY <2>1, <2>2 DEF IsElf
  <2>4. sy = [i \in 1..Len(c.syms) |-> sy[i]]
    BY <2>1
  <2> HIDE DEF sy
  <2>5. QED
    BY <2>1, <2>3, <2>4, ListOf
<1> HIDE DEF q, t, ss, sy, re
<1>5. /\ IsRecord(o) /\ o.kind = t /\ o.secs = ss /\ o.syms = sy
      /\ o.index = <<>> /\ o.members = <<>>
  BY <1>1 DEF Blank, IsRecord
<1> HIDE DEF o
<1>6. IsObj(o)
  BY <1>2, <1>3, <1>4, <1>5, EmptyList DEF IsObj, IsRecord
<1>7. QED
  BY <1>2, <1>3, <1>5, <1>6 DEF o

\* An archive has no sections and no symbols of its own.
LEMMA ArchiveObj ==
  ASSUME NEW c, IsArchive(c)
  PROVE  /\ IsObj(load_archive(c)) /\ load_archive(c).kind = "archive"
         /\ load_archive(c).secs = <<>>
<1> DEFINE G == {x \in ToSet(c.index) : x.member \in DOMAIN c.members}
           q == ArchiveIndex(c)
           o == load_archive(c)
<1>1. IsList(q) /\ \A i \in DOMAIN q : q[i].member \in DOMAIN c.members
  <2>1. IsList(c.index) /\ q = Filtered(c.index, G)
    BY DEF IsArchive, ArchiveIndex
  <2>2. \A x \in G : x.member \in DOMAIN c.members
    OBVIOUS
  <2> HIDE DEF q, G
  <2>3. QED
    BY <2>1, <2>2, FilteredList
<1> HIDE DEF q
<1>2. /\ IsRecord(o) /\ o.kind = "archive" /\ o.secs = <<>> /\ o.syms = <<>>
      /\ o.index = q /\ o.members = c.members
  <2>1. PICK b : b = [Blank EXCEPT !.kind = "archive"]
    OBVIOUS
  <2>2. IsRecord(b) /\ b.kind = "archive" /\ b.secs = <<>> /\ b.syms = <<>>
    BY <2>1 DEF Blank, IsRecord
  <2>3. PICK d : d = [b EXCEPT !.members = c.members]
    OBVIOUS
  <2>4. /\ IsRecord(d) /\ d.kind = b.kind /\ d.secs = b.secs /\ d.syms = b.syms
        /\ d.members = c.members
    BY <2>2, <2>3 DEF IsRecord
  <2>5. o = [d EXCEPT !.index = q]
    BY <2>1, <2>3 DEF load_archive, q
  <2>6. /\ IsRecord(o) /\ o.kind = d.kind /\ o.secs = d.secs /\ o.syms = d.syms
        /\ o.members = d.members /\ o.index = q
    BY <2>4, <2>5 DEF IsRecord
  <2>7. QED
    BY <2>2, <2>4, <2>6
<1> HIDE DEF o
<1>3. \A i \in DOMAIN c.members : IsElf(c.members[i])
  BY DEF IsArchive
<1>4. IsObj(o)
  BY <1>1, <1>2, <1>3, EmptyList DEF IsObj, IsRecord
<1>5. QED
  BY <1>2, <1>4 DEF o

(***************************************************************************)
(* Tables of objects.                                                      *)
(***************************************************************************)
LEMMA SectionsAre ==
  ASSUME NEW os
  PROVE  \A x : x \in Sections(os) <=>
           /\ x = <<x[1], x[2]>> /\ x[1] \in DOMAIN os /\ x[2] \in DOMAIN os[x[1]].secs
BY DEF Sections

SameObjs(os, os2) ==
  DOMAIN os2 = DOMAIN os /\ \A i \in DOMAIN os : SameObj(os[i], os2[i]) /\ IsRecord(os2[i])

LEMMA SameObjsOK ==
  ASSUME NEW os, NEW os2, Objs(os), SameObjs(os, os2), os2 = [i \in DOMAIN os |-> os2[i]]
  PROVE  Objs(os2) /\ Len(os2) = Len(os) /\ DOMAIN os2 = DOMAIN os
<1>1. Len(os) \in Nat /\ DOMAIN os = 1..Len(os)
  BY ListFacts DEF Objs
<1>2. IsList(os2) /\ Len(os2) = Len(os)
  BY <1>1, ListOf DEF SameObjs
<1>3. \A i \in DOMAIN os : IsObj(os2[i])
  BY EditedObj DEF SameObjs, Objs
<1>4. QED
  BY <1>2, <1>3 DEF Objs, SameObjs

LEMMA SameFresh ==
  ASSUME NEW os, NEW os2, SameObjs(os, os2), Fresh(os)
  PROVE  Fresh(os2)
<1>1. ASSUME NEW x \in Sections(os2)
      PROVE  x \in Sections(os) /\ Live(os2, x) = Live(os, x) /\ os2[x[1]].kind = os[x[1]].kind
  BY <1>1, SectionsAre DEF SameObjs, SameObj, Live
<1>2. QED
  BY <1>1 DEF Fresh

LEMMA AppendObjs ==
  ASSUME NEW os, NEW o, Objs(os), IsObj(o)
  PROVE  Objs(Append(os, o))
<1> DEFINE q == Append(os, o)
<1>1. /\ IsList(q) /\ DOMAIN q = DOMAIN os \cup {Len(os) + 1}
      /\ \A i \in DOMAIN os : q[i] = os[i]
      /\ q[Len(os) + 1] = o
  BY AppendList DEF Objs
<1> HIDE DEF q
<1>2. QED
  BY <1>1 DEF Objs, q

LEMMA AppendFresh ==
  ASSUME NEW os, NEW o, Objs(os), Fresh(os), \A i \in DOMAIN o.secs : o.secs[i].live = 1
  PROVE  Fresh(Append(os, o))
<1> DEFINE q == Append(os, o)
<1>1. /\ DOMAIN q = DOMAIN os \cup {Len(os) + 1}
      /\ \A i \in DOMAIN os : q[i] = os[i]
      /\ q[Len(os) + 1] = o
  BY AppendList DEF Objs
<1> HIDE DEF q
<1>2. ASSUME NEW x \in Sections(q)
      PROVE  Live(q, x) # 2 /\ (q[x[1]].kind # "lto" => Live(q, x) = 1)
  <2>1. x = <<x[1], x[2]>> /\ x[1] \in DOMAIN q /\ x[2] \in DOMAIN q[x[1]].secs
    BY SectionsAre
  <2>2. CASE x[1] \in DOMAIN os
    <3>1. x \in Sections(os) /\ q[x[1]] = os[x[1]]
      BY <1>1, <2>1, <2>2, SectionsAre
    <3>2. QED
      BY <3>1 DEF Fresh, Live
  <2>3. CASE x[1] = Len(os) + 1
    BY <1>1, <2>1, <2>3 DEF Live
  <2>4. QED
    BY <1>1, <2>1, <2>2, <2>3
<1>3. QED
  BY <1>2 DEF Fresh, q

(***************************************************************************)
(* The collector's operators.                                              *)
(***************************************************************************)
\* Where two tables differ at most in what lives and what is used.
Shape(os, os2) ==
  /\ DOMAIN os2 = DOMAIN os
  /\ \A i \in DOMAIN os :
       /\ os2[i].kind = os[i].kind /\ os2[i].path = os[i].path
       /\ os2[i].syms = os[i].syms /\ os2[i].relocs = os[i].relocs
       /\ DOMAIN os2[i].secs = DOMAIN os[i].secs
       /\ \A j \in DOMAIN os[i].secs : /\ os2[i].secs[j].name = os[i].secs[j].name
                                       /\ os2[i].secs[j].alloc = os[i].secs[j].alloc

\* The entries of the symbol table lead into the table of objects.
RefsIn(os) == \A n \in Symbol : rsyms[n].obj # 0 => rsyms[n].obj \in DOMAIN os

LEMMA SectionIsSec ==
  ASSUME NEW s, NEW v \in {0, 1, 2}, IsSec(s), NEW q, q = [s EXCEPT !.live = v]
  PROVE  IsSec(q) /\ q.live = v /\ q.name = s.name /\ q.alloc = s.alloc
BY DEF IsSec

LEMMA SetLiveFacts ==
  ASSUME NEW os, Objs(os), NEW X, NEW v \in {0, 1, 2}
  PROVE  /\ Objs(SetLive(os, X, v)) /\ Shape(os, SetLive(os, X, v))
         /\ Len(SetLive(os, X, v)) = Len(os) /\ Sections(SetLive(os, X, v)) = Sections(os)
         /\ \A x \in Sections(os) :
              Live(SetLive(os, X, v), x) = IF x \in X THEN v ELSE Live(os, x)
<1> DEFINE q == SetLive(os, X, v)
           ss(i) == [s \in DOMAIN os[i].secs |->
                       IF <<i, s>> \in X THEN [os[i].secs[s] EXCEPT !.live = v]
                                         ELSE os[i].secs[s]]
<1>1. DOMAIN q = DOMAIN os /\ \A i \in DOMAIN os : q[i] = [os[i] EXCEPT !.secs = ss(i)]
  BY DEF SetLive
<1>2. q = [i \in DOMAIN os |-> q[i]]
  BY DEF SetLive
<1> HIDE DEF q
<1>3. Len(os) \in Nat /\ DOMAIN os = 1..Len(os)
  BY ListFacts DEF Objs
<1>4. IsList(q) /\ Len(q) = Len(os)
  BY <1>1, <1>2, <1>3, ListOf
<1>5. ASSUME NEW i \in DOMAIN os
      PROVE  /\ IsObj(q[i]) /\ DOMAIN q[i].secs = DOMAIN os[i].secs
             /\ q[i].kind = os[i].kind /\ q[i].path = os[i].path
             /\ q[i].syms = os[i].syms /\ q[i].relocs = os[i].relocs
             /\ \A j \in DOMAIN os[i].secs :
                  /\ q[i].secs[j].name = os[i].secs[j].name
                  /\ q[i].secs[j].alloc = os[i].secs[j].alloc
                  /\ q[i].secs[j].live = IF <<i, j>> \in X THEN v ELSE os[i].secs[j].live
  <2> DEFINE o == os[i]
             t == ss(i)
  <2>1. IsObj(o) /\ q[i] = [o EXCEPT !.secs = t]
    BY <1>1 DEF Objs
  <2>2. DOMAIN t = DOMAIN o.secs
    OBVIOUS
  <2>3. ASSUME NEW j \in DOMAIN o.secs
        PROVE  /\ IsSec(t[j]) /\ t[j].name = o.secs[j].name /\ t[j].alloc = o.secs[j].alloc
               /\ t[j].live = IF <<i, j>> \in X THEN v ELSE o.secs[j].live
    <3>1. IsSec(o.secs[j])
      BY <2>1 DEF IsObj
    <3>2. t[j] = IF <<i, j>> \in X THEN [o.secs[j] EXCEPT !.live = v] ELSE o.secs[j]
      OBVIOUS
    <3> HIDE DEF t, o
    <3>3. CASE <<i, j>> \in X
      BY <3>1, <3>2, <3>3, SectionIsSec
    <3>4. CASE <<i, j>> \notin X
      BY <3>1, <3>2, <3>4
    <3>5. QED
      BY <3>3, <3>4
  <2>4. IsList(t)
    <3>1. Len(o.secs) \in Nat /\ DOMAIN o.secs = 1..Len(o.secs)
      BY <2>1, ListFacts DEF IsObj
    <3>2. t = [j \in DOMAIN o.secs |-> t[j]]
      OBVIOUS
    <3> HIDE DEF t, o
    <3>3. QED
      BY <2>2, <3>1, <3>2, ListOf
  <2> HIDE DEF t, o
  <2>5. /\ IsRecord(q[i]) /\ q[i].secs = t /\ q[i].kind = o.kind /\ q[i].path = o.path
        /\ q[i].syms = o.syms /\ q[i].relocs = o.relocs
        /\ q[i].index = o.index /\ q[i].members = o.members
    BY <2>1 DEF IsRecord, IsObj
  <2>6. IsObj(q[i])
    BY <2>1, <2>2, <2>3, <2>4, <2>5 DEF IsObj, IsRecord
  <2>7. QED
    BY <2>2, <2>3, <2>5, <2>6 DEF o
<1>6. Objs(q) /\ Shape(os, q)
  BY <1>1, <1>4, <1>5 DEF Objs, Shape
<1>7. Sections(q) = Sections(os)
  BY <1>1, <1>5, SectionsAre DEF Sections
<1>8. ASSUME NEW x \in Sections(os)
      PROVE  Live(q, x) = IF x \in X THEN v ELSE Live(os, x)
  <2>1. x = <<x[1], x[2]>> /\ x[1] \in DOMAIN os /\ x[2] \in DOMAIN os[x[1]].secs
    BY SectionsAre
  <2>2. QED
    BY <2>1, <1>5 DEF Live
<1>9. QED
  BY <1>4, <1>6, <1>7, <1>8 DEF q

LEMMA DefiningInside ==
  ASSUME NEW os, RefsIn(os), NEW n
  PROVE  defining_sec(os, n) \subseteq Sections(os)
BY SectionsAre DEF defining_sec, RefsIn

LEMMA EdgesInside ==
  ASSUME NEW os, RefsIn(os), NEW x
  PROVE  Edges(os, x) \subseteq Sections(os)
BY DefiningInside DEF Edges

LEMMA ShapeKeeps ==
  ASSUME NEW os, NEW q, RefsIn(os), Shape(os, q)
  PROVE  /\ Sections(q) = Sections(os) /\ RefsIn(q)
         /\ \A n : defining_sec(q, n) = defining_sec(os, n)
         /\ \A x \in Sections(os) : Edges(q, x) = Edges(os, x) /\ Alloc(q, x) = Alloc(os, x)
<1>1. Sections(q) = Sections(os) /\ RefsIn(q)
  BY DEF Shape, Sections, RefsIn
<1>2. ASSUME NEW n PROVE defining_sec(q, n) = defining_sec(os, n)
  <2>1. CASE n \in Symbol /\ rsyms[n].defined /\ rsyms[n].obj # 0
    <3>1. rsyms[n].obj \in DOMAIN os
      BY <2>1 DEF RefsIn
    <3>2. /\ q[rsyms[n].obj].syms = os[rsyms[n].obj].syms
          /\ DOMAIN q[rsyms[n].obj].secs = DOMAIN os[rsyms[n].obj].secs
      BY <3>1 DEF Shape
    <3>3. QED
      BY <3>2 DEF defining_sec
  <2>2. CASE ~ (n \in Symbol /\ rsyms[n].defined /\ rsyms[n].obj # 0)
    BY <2>2 DEF defining_sec
  <2>3. QED
    BY <2>1, <2>2
<1>3. ASSUME NEW x \in Sections(os)
      PROVE  Edges(q, x) = Edges(os, x) /\ Alloc(q, x) = Alloc(os, x)
  <2>1. x = <<x[1], x[2]>> /\ x[1] \in DOMAIN os /\ x[2] \in DOMAIN os[x[1]].secs
    BY SectionsAre
  <2>2. q[x[1]].relocs = os[x[1]].relocs /\ Alloc(q, x) = Alloc(os, x)
    BY <2>1 DEF Shape, Alloc
  <2>3. Edges(q, x) = Edges(os, x)
    BY <2>2, <1>2 DEF Edges
  <2>4. QED
    BY <2>2, <2>3
<1>4. QED
  BY <1>1, <1>2, <1>3

\* The table of sections is finite.
LEMMA SectionsFinite ==
  ASSUME NEW os, Objs(os)
  PROVE  IsFiniteSet(Sections(os))
<1> DEFINE D == DOMAIN os
           F == [i \in D |-> {i} \X (DOMAIN os[i].secs)]
           T == {F[i] : i \in D}
<1>1. IsFiniteSet(D)
  <2>1. Len(os) \in Nat /\ D = 1..Len(os)
    BY ListFacts DEF Objs
  <2> HIDE DEF D
  <2>2. Len(os) \in Int /\ 1 \in Int
    BY <2>1
  <2>3. IsFiniteSet(1..Len(os))
    BY <2>2, FS_Interval
  <2>4. QED
    BY <2>1, <2>3
<1>2. ASSUME NEW i \in D PROVE IsFiniteSet(F[i])
  <2> DEFINE E == DOMAIN os[i].secs
  <2>1. Len(os[i].secs) \in Nat /\ E = 1..Len(os[i].secs)
    BY ListFacts DEF Objs, IsObj
  <2>2. IsFiniteSet(E)
    <3> HIDE DEF E
    <3>1. Len(os[i].secs) \in Int /\ 1 \in Int
      BY <2>1
    <3>2. IsFiniteSet(1..Len(os[i].secs))
      BY <3>1, FS_Interval
    <3>3. QED
      BY <2>1, <3>2
  <2>3. IsFiniteSet({i})
    BY FS_Singleton
  <2>4. F[i] = {i} \X E
    OBVIOUS
  <2> HIDE DEF E, F
  <2>5. QED
    BY <2>2, <2>3, <2>4, FS_Product
<1>3. F \in Surjection(D, T)
  BY DEF Surjection
<1>4. IsFiniteSet(T)
  <2> HIDE DEF D, F, T
  <2>1. QED
    BY <1>1, <1>3, FS_Surjection
<1>5. \A t \in T : IsFiniteSet(t)
  BY <1>2
<1>6. IsFiniteSet(UNION T)
  <2> HIDE DEF T
  <2>1. QED
    BY <1>4, <1>5, FS_UNION
<1>7. Sections(os) = UNION T
  BY DEF Sections
<1>8. QED
  BY <1>6, <1>7

Open(os) == {x \in Sections(os) : os[x[1]].secs[x[2]].live = 1}

\* One turn of mark_sec for a whole set, and a set that it leaves as it is.
Spread(os, S) == S \cup ((UNION {Edges(os, x) : x \in S}) \cap Open(os))
Closed(os, S) == \A x \in S : Edges(os, x) \cap Open(os) \subseteq S

LEMMA SpreadFacts ==
  ASSUME NEW os, NEW S, S \subseteq Open(os)
  PROVE  /\ S \subseteq Spread(os, S) /\ Spread(os, S) \subseteq Open(os)
         /\ Spread(os, S) = S <=> Closed(os, S)
<1>1. S \subseteq Spread(os, S) /\ Spread(os, S) \subseteq Open(os)
  BY DEF Spread
<1>2. Spread(os, S) = S <=> Closed(os, S)
  BY DEF Spread, Closed
<1>3. QED
  BY <1>1, <1>2

\* What mark_sec marks, from a set of starts: the starts that wait are in it, and whatever
\* waits behind an edge from it.  As many turns as there are sections are enough.
LEMMA MarkedClosed ==
  ASSUME NEW os, Objs(os), NEW start
  PROVE  /\ Marked(os, start) \subseteq Open(os) /\ start \cap Open(os) \subseteq Marked(os, start)
         /\ Closed(os, Marked(os, start))
<1> DEFINE O == Open(os)
           n == Cardinality(O)
           s0 == start \cap O
           Turns(f) == f = [i \in 0..n |-> IF i = 0 THEN s0 ELSE Spread(os, f[i - 1])]
           t == CHOOSE f : Turns(f)
<1>1. IsFiniteSet(O) /\ n \in Nat
  <2>1. O \subseteq Sections(os)
    BY DEF Open
  <2>2. IsFiniteSet(O)
    <3> HIDE DEF O
    <3>1. QED
      BY <2>1, SectionsFinite, FS_Subset
  <2>3. QED
    BY <2>2, FS_CardinalityType
<1>2. \E f : Turns(f)
  <2> DEFINE T == SUBSET O
             g == [p \in (1..n) \X T |-> Spread(os, p[2])]
  <2>1. s0 \in T /\ \A S \in T : Spread(os, S) \in T
    BY SpreadFacts
  <2>2. IsStep(n, T, g) /\ \A i \in 1..n : \A S \in T : g[<<i, S>>] = Spread(os, S)
    <3> HIDE DEF T, n
    <3>1. QED
      BY <2>1 DEF IsStep
  <2> HIDE DEF T, n, s0, g
  <2>3. PICK f : IsRun(n, T, s0, g, f)
    BY <1>1, <2>1, <2>2, PrefixRecursion
  <2>4. f \in [0..n -> T] /\ f[0] = s0 /\ \A i \in 1..n : f[i] = g[<<i, f[i - 1]>>]
    BY <2>3 DEF IsRun
  <2>5. ASSUME NEW i \in 0..n
        PROVE  f[i] = IF i = 0 THEN s0 ELSE Spread(os, f[i - 1])
    <3>1. CASE i = 0
      BY <2>4, <3>1
    <3>2. CASE i # 0
      <4>1. i \in 1..n /\ f[i - 1] \in T
        BY <1>1, <2>4, <3>2
      <4>2. QED
        BY <4>1, <2>2, <2>4, <3>2
    <3>3. QED
      BY <3>1, <3>2
  <2>6. f = [i \in 0..n |-> IF i = 0 THEN s0 ELSE Spread(os, f[i - 1])]
    BY <2>4, <2>5
  <2>7. QED
    BY <2>6
<1>3. Turns(t)
  <2> HIDE DEF Turns
  <2>1. QED
    BY <1>2, Zenon
<1>4. Marked(os, start) = t[n]
  BY Zenon DEF Marked, Spread, Open
<1> HIDE DEF t, n, s0
<1>5. \A i \in 0..n : t[i] = IF i = 0 THEN s0 ELSE Spread(os, t[i - 1])
  BY <1>3, Zenon
<1>6. t[0] = s0 /\ \A i \in 1..n : t[i] = Spread(os, t[i - 1])
  BY <1>1, <1>5
<1> DEFINE Good(i) == /\ t[i] \subseteq O /\ s0 \subseteq t[i]
                      /\ Closed(os, t[i]) \/ Cardinality(t[i]) >= i
           G == {i \in 0..n : Good(i)}
<1>7. 0 \in G
  <2>1. s0 \subseteq O
    BY DEF s0
  <2>2. IsFiniteSet(s0)
    BY <1>1, <2>1, FS_Subset
  <2>3. Cardinality(s0) >= 0
    BY <2>2, FS_CardinalityType
  <2>4. QED
    BY <1>1, <1>6, <2>1, <2>3
<1>8. ASSUME NEW i \in 1..n, i - 1 \in G PROVE i \in G
  <2> DEFINE a == t[i - 1]
             b == t[i]
  <2>1. /\ a \subseteq O /\ s0 \subseteq a /\ b = Spread(os, a)
        /\ Closed(os, a) \/ Cardinality(a) >= i - 1
    BY <1>6, <1>8
  <2> HIDE DEF a
  <2>2. /\ a \subseteq b /\ b \subseteq O /\ s0 \subseteq b
        /\ b = a <=> Closed(os, a)
    BY <2>1, SpreadFacts
  <2>3. Closed(os, b) \/ Cardinality(b) >= i
    <3>1. CASE Closed(os, a)
      BY <2>2, <3>1
    <3>2. CASE ~ Closed(os, a)
      <4>1. a # b /\ a \subseteq b
        BY <2>2, <3>2
      <4> HIDE DEF b
      <4>2. IsFiniteSet(b)
        BY <1>1, <2>2, FS_Subset
      <4>3. IsFiniteSet(a) /\ Cardinality(a) <= Cardinality(b) /\ Cardinality(a) # Cardinality(b)
        BY <4>1, <4>2, FS_Subset
      <4>4. Cardinality(a) \in Nat /\ Cardinality(b) \in Nat
        BY <4>2, <4>3, FS_CardinalityType
      <4>5. QED
        BY <2>1, <3>2, <4>3, <4>4
    <3>3. QED
      BY <3>1, <3>2
  <2>4. i \in 0..n
    BY <1>1
  <2>5. QED
    BY <2>2, <2>3, <2>4
<1>9. Good(n)
  <2>1. \A i \in 0..n : i \in G
    <3> HIDE DEF G
    <3>1. QED
      BY <1>1, <1>7, <1>8, PrefixInduction
  <2>2. n \in 0..n
    BY <1>1
  <2>3. QED
    BY <2>1, <2>2
<1>10. Closed(os, t[n])
  <2>1. CASE Cardinality(t[n]) >= n
    <3> DEFINE u == t[n]
    <3>1. u \subseteq O /\ Cardinality(u) >= n
      BY <1>9, <2>1
    <3> HIDE DEF u
    <3>2. IsFiniteSet(u) /\ Cardinality(u) <= n /\ (n = Cardinality(u) => O = u)
      BY <1>1, <3>1, FS_Subset DEF n
    <3>3. Cardinality(u) \in Nat
      BY <3>2, FS_CardinalityType
    <3>4. u = O
      BY <1>1, <3>1, <3>2, <3>3
    <3>5. QED
      BY <3>4 DEF Closed, u
  <2>2. QED
    BY <1>9, <2>1
<1>11. QED
  BY <1>4, <1>9, <1>10 DEF s0

(***************************************************************************)
(* Entries of the symbol table.                                            *)
(***************************************************************************)
\* What an entry says about the definition of its name.
SameEntry(r, q) ==
  /\ q.defined = r.defined /\ q.obj = r.obj /\ q.isym = r.isym /\ q.weak = r.weak
  /\ q.script = r.script

TakesEntry(q, s, i, n) ==
  /\ q.defined = TRUE /\ q.obj = i /\ q.isym = n /\ q.weak = (s.binding = "weak")
  /\ q.script = FALSE

LEMMA TakingEntry ==
  ASSUME NEW r, IsEntry(r), NEW s, NEW i, NEW n,
         NEW q, q = [r EXCEPT !.defined = TRUE, !.obj = i, !.isym = n,
                              !.weak = (s.binding = "weak"), !.script = FALSE, !.known = FALSE]
  PROVE  IsEntry(q) /\ TakesEntry(q, s, i, n)
<1>1. PICK a : a = [r EXCEPT !.defined = TRUE]
  OBVIOUS
<1>2. IsEntry(a) /\ a.defined = TRUE
  BY <1>1 DEF IsEntry
<1>3. PICK b : b = [a EXCEPT !.obj = i]
  OBVIOUS
<1>4. IsEntry(b) /\ b.defined = TRUE /\ b.obj = i
  BY <1>2, <1>3 DEF IsEntry
<1>5. PICK c : c = [b EXCEPT !.isym = n]
  OBVIOUS
<1>6. IsEntry(c) /\ c.defined = TRUE /\ c.obj = i /\ c.isym = n
  BY <1>4, <1>5 DEF IsEntry
<1>7. PICK w : w = (s.binding = "weak")
  OBVIOUS
<1>8. PICK d : d = [c EXCEPT !.weak = w]
  OBVIOUS
<1>9. IsEntry(d) /\ d.defined = TRUE /\ d.obj = i /\ d.isym = n /\ d.weak = w
  BY <1>6, <1>8 DEF IsEntry
<1>10. PICK e : e = [d EXCEPT !.script = FALSE]
  OBVIOUS
<1>11. /\ IsEntry(e) /\ e.defined = TRUE /\ e.obj = i /\ e.isym = n /\ e.weak = w
       /\ e.script = FALSE
  BY <1>9, <1>10 DEF IsEntry
<1>12. q = [e EXCEPT !.known = FALSE]
  BY <1>1, <1>3, <1>5, <1>7, <1>8, <1>10
<1>13. /\ IsEntry(q) /\ q.defined = TRUE /\ q.obj = i /\ q.isym = n /\ q.weak = w
       /\ q.script = FALSE
  BY <1>11, <1>12 DEF IsEntry
<1>14. QED
  BY <1>7, <1>13 DEF TakesEntry

LEMMA MergedFacts ==
  ASSUME NEW r, IsEntry(r), NEW s, NEW i, NEW n
  PROVE  /\ IsEntry(Merged(r, s, i, n))
         /\ IF s.shndx = 0 \/ (r.defined /\ ~ (r.weak /\ s.binding # "weak"))
            THEN SameEntry(r, Merged(r, s, i, n)) ELSE TakesEntry(Merged(r, s, i, n), s, i, n)
<1>1. PICK ref : ref = [r EXCEPT !.referenced = TRUE]
  OBVIOUS
<1>2. IsEntry(ref) /\ SameEntry(r, ref)
  BY <1>1 DEF IsEntry, SameEntry
<1>3. CASE s.shndx = 0 \/ (r.defined /\ ~ (r.weak /\ s.binding # "weak"))
  <2>1. Merged(r, s, i, n) = ref
    BY <1>1, <1>3 DEF Merged
  <2>2. QED
    BY <1>2, <1>3, <2>1
<1>4. CASE ~ (s.shndx = 0 \/ (r.defined /\ ~ (r.weak /\ s.binding # "weak")))
  <2>1. PICK q : q = Merged(r, s, i, n)
    OBVIOUS
  <2>2. q = [ref EXCEPT !.defined = TRUE, !.obj = i, !.isym = n,
                        !.weak = (s.binding = "weak"), !.script = FALSE, !.known = FALSE]
    BY <1>1, <1>4, <2>1 DEF Merged
  <2>3. IsEntry(q) /\ TakesEntry(q, s, i, n)
    BY <1>2, <2>2, TakingEntry
  <2>4. QED
    BY <1>4, <2>1, <2>3
<1>5. QED
  BY <1>3, <1>4

LEMMA ExportedFacts ==
  ASSUME NEW r, IsEntry(r), NEW s, NEW i, NEW n
  PROVE  /\ IsEntry(Exported(r, s, i, n))
         /\ IF r.defined \/ s.shndx = 0 THEN Exported(r, s, i, n) = r
            ELSE TakesEntry(Exported(r, s, i, n), s, i, n)
<1>1. CASE r.defined \/ s.shndx = 0
  BY <1>1 DEF Exported
<1>2. CASE ~ (r.defined \/ s.shndx = 0)
  <2>1. PICK q : q = Exported(r, s, i, n)
    OBVIOUS
  <2>2. q = [r EXCEPT !.defined = TRUE, !.obj = i, !.isym = n,
                      !.weak = (s.binding = "weak"), !.script = FALSE, !.known = FALSE]
    BY <1>2, <2>1 DEF Exported
  <2>3. IsEntry(q) /\ TakesEntry(q, s, i, n)
    BY <2>2, TakingEntry
  <2>4. QED
    BY <1>2, <2>1, <2>3
<1>3. QED
  BY <1>1, <1>2

LEMMA ScriptedFacts ==
  ASSUME NEW r, IsEntry(r), NEW s
  PROVE  /\ IsEntry(Scripted(s, r)) /\ Scripted(s, r).obj = r.obj
         /\ \/ Scripted(s, r) = r
            \/ Scripted(s, r).defined = TRUE /\ Scripted(s, r).script = TRUE
<1>1. CASE s.provide /\ (r.defined \/ ~r.referenced)
  BY <1>1 DEF Scripted
<1>2. CASE ~ (s.provide /\ (r.defined \/ ~r.referenced))
  <2>1. PICK a : a = [r EXCEPT !.defined = TRUE]
    OBVIOUS
  <2>2. IsEntry(a) /\ a.defined = TRUE /\ a.obj = r.obj
    BY <2>1 DEF IsEntry
  <2>3. PICK b : b = [a EXCEPT !.script = TRUE]
    OBVIOUS
  <2>4. IsEntry(b) /\ b.defined = TRUE /\ b.script = TRUE /\ b.obj = r.obj
    BY <2>2, <2>3 DEF IsEntry
  <2>5. PICK q : q = Scripted(s, r)
    OBVIOUS
  <2>6. q = [b EXCEPT !.known = FALSE]
    BY <1>2, <2>1, <2>3, <2>5 DEF Scripted
  <2>7. IsEntry(q) /\ q.defined = TRUE /\ q.script = TRUE /\ q.obj = r.obj
    BY <2>4, <2>6 DEF IsEntry
  <2>8. QED
    BY <2>5, <2>7
<1>3. QED
  BY <1>1, <1>2

\* Fields that say nothing about the definition.
LEMMA OtherFields ==
  ASSUME NEW r, IsEntry(r), NEW v, NEW w, NEW q, q = [r EXCEPT !.value = v, !.known = w]
  PROVE  IsEntry(q) /\ SameEntry(r, q)
<1>1. PICK a : a = [r EXCEPT !.value = v]
  OBVIOUS
<1>2. IsEntry(a) /\ SameEntry(r, a)
  BY <1>1 DEF IsEntry, SameEntry
<1>3. q = [a EXCEPT !.known = w]
  BY <1>1
<1>4. IsEntry(q) /\ SameEntry(a, q)
  BY <1>2, <1>3 DEF IsEntry, SameEntry
<1>5. QED
  BY <1>2, <1>4 DEF SameEntry

LEMMA WeakField ==
  ASSUME NEW r, IsEntry(r), NEW v, NEW q, q = [r EXCEPT !.weak = v]
  PROVE  /\ IsEntry(q) /\ q.defined = r.defined /\ q.obj = r.obj /\ q.isym = r.isym
         /\ q.script = r.script
BY DEF IsEntry

\* A new definition behind all others, which takes the name, or does not.
LEMMA WinnerAdd ==
  ASSUME NEW r, NEW q, NEW D, NEW S, NEW d, IsWinner(r, D, S),
         d = <<d[1], d[2]>>, d[2] \in Nat, d \notin D, \A e \in D : Before(e, d)
  PROVE  /\ SameEntry(r, q) => IsWinner(q, D, S)
         /\ SameEntry(r, q) /\ r.defined /\ d \notin S => IsWinner(q, D \cup {d}, S)
         /\ (q.defined = TRUE /\ q.obj = d[1] /\ q.isym = d[2] /\ D \cap S = {}
             /\ (D = {} \/ d \in S))
            => IsWinner(q, D \cup {d}, S)
<1>1. SameEntry(r, q) => IsWinner(q, D, S)
  BY DEF SameEntry, IsWinner
<1>2. SameEntry(r, q) /\ r.defined /\ d \notin S => IsWinner(q, D \cup {d}, S)
  <2>1. SUFFICES ASSUME SameEntry(r, q), r.defined, d \notin S
                 PROVE  IsWinner(q, D \cup {d}, S)
    OBVIOUS
  <2>2. (D \cup {d}) \cap S = D \cap S
    BY <2>1
  <2>3. <<r.obj, r.isym>> \in D /\ q.obj = r.obj /\ q.isym = r.isym /\ q.defined = r.defined
    BY <2>1 DEF IsWinner, SameEntry
  <2>4. QED
    BY <2>1, <2>2, <2>3 DEF IsWinner
<1>3. ASSUME q.defined = TRUE, q.obj = d[1], q.isym = d[2], D \cap S = {}, D = {} \/ d \in S
      PROVE  IsWinner(q, D \cup {d}, S)
  <2>1. <<q.obj, q.isym>> = d
    BY <1>3
  <2>2. CASE d \in S
    <3>1. (D \cup {d}) \cap S = {d}
      BY <1>3, <2>2
    <3>2. QED
      BY <1>3, <2>1, <3>1 DEF IsWinner
  <2>3. CASE d \notin S
    <3>1. D \cup {d} = {d} /\ (D \cup {d}) \cap S = {}
      BY <1>3, <2>3
    <3>2. Before(d, d)
      BY DEF Before
    <3>3. QED
      BY <1>3, <2>1, <3>1, <3>2 DEF IsWinner
  <2>4. QED
    BY <2>2, <2>3
<1>4. QED
  BY <1>1, <1>2, <1>3

(***************************************************************************)
(* Definitions.                                                            *)
(***************************************************************************)
\* Definitions and Strong, of any table of objects.
Defines(os, d, n) ==
  LET s == os[d[1]].syms[d[2]]
  IN /\ d = <<d[1], d[2]>> /\ d[1] \in DOMAIN os /\ d[2] \in DOMAIN os[d[1]].syms
     /\ s.name = n /\ s.binding # "local" /\ s.shndx # 0

StrongIn(os, d) == os[d[1]].kind # "dso" /\ os[d[1]].syms[d[2]].binding = "global"

LEMMA DefinitionsAre ==
  ASSUME NEW n
  PROVE  /\ \A d : d \in Definitions(n) <=> Defines(objs, d, n)
         /\ \A d : d \in Strong(n) <=> Defines(objs, d, n) /\ StrongIn(objs, d)
         /\ \A d : d \in Definitions(n)' <=> Defines(objs', d, n)
         /\ \A d : d \in Strong(n)' <=> Defines(objs', d, n) /\ StrongIn(objs', d)
<1>1. \A d : d \in Definitions(n) <=> Defines(objs, d, n)
  BY DEF Definitions, Defines
<1>2. \A d : d \in Strong(n) <=> Defines(objs, d, n) /\ StrongIn(objs, d)
  BY <1>1 DEF Strong, StrongIn
<1>3. \A d : d \in Definitions(n)' <=> Defines(objs', d, n)
  BY DEF Definitions, Defines
<1>4. \A d : d \in Strong(n)' <=> Defines(objs', d, n) /\ StrongIn(objs', d)
  BY <1>3 DEF Strong, StrongIn
<1>5. QED
  BY <1>1, <1>2, <1>3, <1>4

\* Indexes of definitions are positive.
LEMMA DefinesIndex ==
  ASSUME NEW os, Objs(os), NEW d, NEW n, Defines(os, d, n)
  PROVE  d = <<d[1], d[2]>> /\ d[1] \in 1..Len(os) /\ d[2] \in Nat \ {0} /\ Len(os) \in Nat
<1>1. d = <<d[1], d[2]>> /\ d[1] \in DOMAIN os /\ d[2] \in DOMAIN os[d[1]].syms
  BY DEF Defines
<1>2. Len(os) \in Nat /\ DOMAIN os = 1..Len(os) /\ IsObj(os[d[1]])
  BY <1>1, ListFacts DEF Objs
<1>3. DOMAIN os[d[1]].syms = 1..Len(os[d[1]].syms) /\ Len(os[d[1]].syms) \in Nat
  BY <1>2, ListFacts DEF IsObj
<1>4. QED
  BY <1>1, <1>2, <1>3

\* The same objects, but for marks and flags, define the same.
SameSyms(os, q) ==
  DOMAIN q = DOMAIN os /\ \A i \in DOMAIN os : q[i].kind = os[i].kind /\ q[i].syms = os[i].syms

LEMMA SameDefinitions ==
  ASSUME NEW n, SameSyms(objs, objs')
  PROVE  Definitions(n)' = Definitions(n) /\ Strong(n)' = Strong(n)
<1>1. ASSUME NEW d
      PROVE  /\ Defines(objs', d, n) <=> Defines(objs, d, n)
             /\ Defines(objs, d, n) => (StrongIn(objs', d) <=> StrongIn(objs, d))
  BY DEF SameSyms, Defines, StrongIn
<1>2. \A d : d \in Definitions(n)' <=> d \in Definitions(n)
  BY <1>1, DefinitionsAre
<1>3. \A d : d \in Strong(n)' <=> d \in Strong(n)
  BY <1>1, DefinitionsAre
<1>4. QED
  BY <1>2, <1>3

LEMMA SameIsWeak ==
  ASSUME NEW r, NEW os, NEW q, SameSyms(os, q), IsSym(r, os), IsWeak(r, os),
         r.defined => r.obj \in DOMAIN os
  PROVE  IsWeak(r, q)
BY DEF SameSyms, IsWeak

\* The entry that wins is in the table.
LEMMA WinnerInside ==
  ASSUME LinkOK, NEW n \in Symbol, phase \in {"merge", "scan"}, rsyms[n].defined
  PROVE  /\ <<rsyms[n].obj, rsyms[n].isym>> \in Seen(n)
         /\ rsyms[n].obj \in DOMAIN objs /\ rsyms[n].isym \in DOMAIN objs[rsyms[n].obj].syms
         /\ objs[rsyms[n].obj].syms[rsyms[n].isym].name = n
<1>1. IsWinner(rsyms[n], Seen(n), Strong(n))
  BY DEF LinkOK, MergeOK
<1>2. <<rsyms[n].obj, rsyms[n].isym>> \in Seen(n)
  BY <1>1 DEF IsWinner
<1>3. Defines(objs, <<rsyms[n].obj, rsyms[n].isym>>, n)
  BY <1>2, DefinitionsAre DEF Seen
<1>4. QED
  BY <1>2, <1>3 DEF Defines

LEMMA SameWinner ==
  ASSUME NEW r, NEW q, NEW D, NEW S, NEW T, IsWinner(r, D, S), SameEntry(r, q),
         D \cap T = D \cap S
  PROVE  IsWinner(q, D, T)
BY DEF IsWinner, SameEntry

(***************************************************************************)
(* Steps: load.                                                            *)
(***************************************************************************)
LEMMA InvInit == Init => LinkInv
<1> SUFFICES ASSUME Init PROVE LinkOK
  BY DEF LinkInv
<1>1. plan \in Plan /\ osecs = plan.secs /\ objs = <<>> /\ phase = "load" /\ at = 1 /\ k = 1
      /\ scan = NoScan /\ rsyms = [n \in Symbol |-> NoSym]
  BY DEF Init
<1>2. TablesOK
  <2>1. IsList(osecs)
    BY <1>1, LinkAssumption
  <2>2. Objs(objs)
    BY <1>1, EmptyList DEF Objs
  <2>3. \A n \in Symbol : rsyms[n] = NoSym /\ IsSym(rsyms[n], objs)
    BY <1>1 DEF NoSym, IsSym, IsEntry
  <2>4. rsyms = [n \in Symbol |-> rsyms[n]]
    BY <1>1
  <2>5. QED
    BY <1>1, <2>1, <2>2, <2>3, <2>4 DEF TablesOK
<1>3. LoopsOK
  BY <1>1 DEF LoopsOK, NoScan
<1>4. RoundOK
  BY <1>1 DEF RoundOK
<1>5. MergeOK
  BY <1>1 DEF MergeOK, NoSym
<1>6. GcOK
  <2>1. Sections(objs) = {}
    BY <1>1, EmptyList DEF Sections
  <2>2. QED
    BY <1>1, <2>1 DEF GcOK, GcClosed, Fresh
<1>7. QED
  BY <1>2, <1>3, <1>4, <1>5, <1>6 DEF LinkOK

LEMMA LoadOrderFiles ==
  ASSUME plan \in Plan, NEW i \in Nat \ {0}, i <= Len(LoadOrder)
  PROVE  LoadOrder[i].file \in File
<1> DEFINE G == {x \in ToSet(plan.inputs) : x.startup}
           H == {x \in ToSet(plan.inputs) : ~x.startup}
           a == Filtered(plan.inputs, G)
           b == Filtered(plan.inputs, H)
<1>1. IsList(plan.inputs) /\ \A j \in DOMAIN plan.inputs : plan.inputs[j].file \in File
  BY LinkAssumption
<1>2. LoadOrder = a \o b
  BY DEF LoadOrder
<1> HIDE DEF G, H
<1>3. IsList(a) /\ \A j \in DOMAIN a : a[j].file \in File
  BY <1>1, FilteredList
<1>4. IsList(b) /\ \A j \in DOMAIN b : b[j].file \in File
  BY <1>1, FilteredList
<1> HIDE DEF a, b
<1>5. PICK c : c = a \o b
  OBVIOUS
<1>6. /\ IsList(c) /\ \A j \in DOMAIN c :
            (j \in DOMAIN a /\ c[j] = a[j])
         \/ (j - Len(a) \in DOMAIN b /\ c[j] = b[j - Len(a)])
  BY <1>3, <1>4, <1>5, ConcatList
<1>7. i \in DOMAIN c
  BY <1>2, <1>5, <1>6, ListFacts
<1>8. QED
  BY <1>2, <1>3, <1>4, <1>5, <1>6, <1>7

LEMMA LoadInputStep ==
  ASSUME LinkOK, LoadInput
  PROVE  LinkOK'
<1> USE DEF LinkOK
<1> DEFINE in == LoadOrder[at]
           c  == Elf[in.file]
           o  == IF c.etype = "ar" THEN load_archive(c) ELSE load_elf_mem(c)
           p  == [o EXCEPT !.as_needed = in.as_needed, !.group = in.group, !.path = in.file]
<1>1. /\ phase = "load" /\ phase' = "load" /\ at <= Len(LoadOrder) /\ at' = at + 1
      /\ objs' = Append(objs, p) /\ UNCHANGED <<plan, osecs, rsyms, k, scan>>
  BY DEF LoadInput
<1>2. in.file \in File
  BY <1>1, LoadOrderFiles DEF TablesOK, LoopsOK
<1> HIDE DEF in
<1>3. IsObj(o) /\ \A i \in DOMAIN o.secs : o.secs[i].live = 1
  <2>1. CASE c.etype = "ar"
    <3>1. IsArchive(c)
      BY <1>2, <2>1, LinkAssumption
    <3>2. o = load_archive(c)
      BY <2>1
    <3> HIDE DEF c, o
    <3>3. QED
      BY <3>1, <3>2, ArchiveObj, EmptyList
  <2>2. CASE c.etype # "ar"
    <3>1. IsElf(c)
      BY <1>2, <2>2, LinkAssumption
    <3>2. o = load_elf_mem(c)
      BY <2>2
    <3> HIDE DEF c, o
    <3>3. QED
      BY <3>1, <3>2, LoadedObj
  <2>3. QED
    BY <2>1, <2>2
<1> HIDE DEF c, o
<1>4. IsObj(p) /\ SameObj(o, p)
  BY <1>3, InputObj
<1> HIDE DEF p
<1>5. TablesOK'
  <2>1. Objs(objs') /\ DOMAIN objs \subseteq DOMAIN objs'
    BY <1>1, <1>4, AppendObjs, AppendList DEF TablesOK, Objs
  <2>2. QED
    BY <1>1, <2>1 DEF TablesOK, IsSym
<1>6. LoopsOK'
  BY <1>1 DEF LoopsOK
<1>7. RoundOK' /\ MergeOK'
  BY <1>1 DEF RoundOK, MergeOK
<1>8. GcOK'
  <2>1. Fresh(objs) /\ \A i \in DOMAIN p.secs : p.secs[i].live = 1
    BY <1>1, <1>3, <1>4 DEF GcOK, SameObj
  <2>2. Fresh(objs')
    BY <1>1, <2>1, AppendFresh DEF TablesOK
  <2>3. QED
    BY <1>1, <2>2 DEF GcOK, GcClosed
<1>9. QED
  BY <1>5, <1>6, <1>7, <1>8

\* A merge that begins has come past no definition, and the table is empty.
LEMMA MergeBegins ==
  ASSUME Objs(objs'), phase' = "merge", at' = 1, k' = 1,
         \A n \in Symbol : ~rsyms'[n].defined /\ ~rsyms'[n].script
  PROVE  MergeOK'
<1>1. ASSUME NEW n \in Symbol PROVE Seen(n)' = {}
  <2>1. SUFFICES ASSUME NEW d \in Seen(n)' PROVE FALSE
    OBVIOUS
  <2>2. Defines(objs', d, n) /\ (d[1] < 1 \/ (d[1] = 1 /\ d[2] < 1))
    BY <2>1, DefinitionsAre DEF Seen
  <2>3. QED
    BY <2>2, DefinesIndex
<1>2. ASSUME NEW n \in Symbol
      PROVE  /\ ~rsyms'[n].script /\ IsWeak(rsyms'[n], objs')
             /\ IsWinner(rsyms'[n], Seen(n)', Strong(n)')
  BY <1>1 DEF IsWinner, IsWeak
<1>3. QED
  BY <1>2 DEF MergeOK

LEMMA LoadEndsStep ==
  ASSUME LinkOK, LoadEnds
  PROVE  LinkOK'
<1> USE DEF LinkOK
<1>1. /\ phase = "load" /\ phase' = "merge" /\ at' = 1 /\ k' = 1
      /\ UNCHANGED <<plan, osecs, objs, rsyms, scan>>
  BY DEF LoadEnds, Goto
<1>2. TablesOK'
  BY <1>1 DEF TablesOK
<1>3. LoopsOK' /\ RoundOK'
  BY <1>1 DEF LoopsOK, RoundOK
<1>4. MergeOK'
  <2>1. \A n \in Symbol : ~rsyms'[n].defined /\ ~rsyms'[n].script
    BY <1>1 DEF MergeOK
  <2>2. QED
    BY <1>1, <1>2, <2>1, MergeBegins DEF TablesOK
<1>5. GcOK'
  BY <1>1 DEF GcOK, GcClosed
<1>6. QED
  BY <1>2, <1>3, <1>4, <1>5

(***************************************************************************)
(* Steps: resolve.                                                         *)
(***************************************************************************)
\* One symbol of the object that is merged.
LEMMA MergeSymEntry ==
  ASSUME LinkOK, MergeSym, NEW n \in Symbol
  PROVE  /\ IsSym(rsyms'[n], objs') /\ ~rsyms'[n].script /\ IsWeak(rsyms'[n], objs')
         /\ IsWinner(rsyms'[n], Seen(n)', Strong(n)')
<1> USE DEF LinkOK
<1> DEFINE s == objs[at].syms[k]
           d == <<at, k>>
           r == rsyms[n]
           q == rsyms'[n]
           D == Seen(n)
           S == Strong(n)
<1>1. /\ phase = "merge" /\ phase' = "merge" /\ at \in DOMAIN objs /\ k \in DOMAIN objs[at].syms
      /\ UNCHANGED <<objs, at>> /\ k' = k + 1 /\ k \in Nat /\ at \in Nat
      /\ (s.binding = "local" \/ objs[at].kind = "dso" \/ ~Duplicate(rsyms[s.name], s))
  <2>1. at \in Nat \ {0} /\ k \in Nat \ {0} /\ at <= Len(objs) /\ k <= Len(objs[at].syms)
    BY DEF MergeSym, LoopsOK
  <2>2. at \in DOMAIN objs
    BY <2>1, ListFacts DEF TablesOK, Objs
  <2>3. k \in DOMAIN objs[at].syms
    BY <2>1, <2>2, ListFacts DEF TablesOK, Objs, IsObj
  <2>4. QED
    BY <2>1, <2>2, <2>3 DEF MergeSym
<1>2. /\ IsSym(r, objs) /\ ~r.script /\ IsWeak(r, objs) /\ IsWinner(r, D, S)
  BY <1>1 DEF TablesOK, MergeOK
<1>3. Strong(n)' = S
  BY <1>1, SameDefinitions DEF SameSyms
<1>4. Seen(n)' = D \cup {e \in {d} : Defines(objs, e, n)}
  <2>1. ASSUME NEW e
        PROVE  e \in Seen(n)' <=> e \in D \/ (e = d /\ Defines(objs, e, n))
    <3>1. e \in Seen(n)' <=> Defines(objs, e, n) /\ (e[1] < at \/ (e[1] = at /\ e[2] < k + 1))
      BY <1>1, DefinitionsAre DEF Seen
    <3>2. e \in D <=> Defines(objs, e, n) /\ (e[1] < at \/ (e[1] = at /\ e[2] < k))
      BY <1>1, DefinitionsAre DEF Seen
    <3>3. Defines(objs, e, n) => e = <<e[1], e[2]>> /\ e[1] \in Nat /\ e[2] \in Nat
      BY DefinesIndex DEF TablesOK
    <3>4. Defines(objs, e, n) => (e[2] < k + 1 <=> e[2] < k \/ e[2] = k)
      BY <1>1, <3>3
    <3>5. QED
      BY <3>1, <3>2, <3>3, <3>4
  <2>2. QED
    BY <2>1
<1>5. /\ d \notin D /\ (\A e \in D : Before(e, d)) /\ d[1] = at /\ d[2] = k /\ d = <<d[1], d[2]>>
  <2>1. ASSUME NEW e \in D
        PROVE  e \in Nat \X Nat /\ (e[1] < at \/ (e[1] = at /\ e[2] < k))
    <3>1. Defines(objs, e, n) /\ (e[1] < at \/ (e[1] = at /\ e[2] < k))
      BY <1>1, DefinitionsAre DEF Seen
    <3>2. QED
      BY <3>1, DefinesIndex DEF TablesOK
  <2>2. d[1] = at /\ d[2] = k
    OBVIOUS
  <2>3. d \notin D
    <3> SUFFICES ASSUME d \in D PROVE FALSE
      OBVIOUS
    <3>1. QED
      BY <1>1, <2>1, <2>2
  <2> HIDE DEF d
  <2>4. \A e \in D : Before(e, d)
    BY <1>1, <2>1, <2>2 DEF Before
  <2>5. QED
    BY <2>2, <2>3, <2>4 DEF d
<1>6. Defines(objs, d, n) <=> s.name = n /\ s.binding # "local" /\ s.shndx # 0
  BY <1>1 DEF Defines
<1>7. d \in S <=> Defines(objs, d, n) /\ objs[at].kind # "dso" /\ s.binding = "global"
  BY DefinitionsAre DEF StrongIn
<1>8. s.binding \in {"local", "weak", "global"}
  BY <1>1 DEF TablesOK, Objs, IsObj
<1>9. q = IF s.name # n \/ s.binding = "local" THEN r
          ELSE IF objs[at].kind = "dso" THEN Exported(r, s, at, k) ELSE Merged(r, s, at, k)
  <2>1. DOMAIN rsyms = Symbol
    BY DEF TablesOK
  <2>2. CASE s.binding = "local"
    <3>1. rsyms' = rsyms
      BY <2>2 DEF MergeSym
    <3>2. QED
      BY <2>2, <3>1
  <2>3. CASE s.binding # "local" /\ objs[at].kind = "dso"
    <3>1. PICK v : v = Exported(rsyms[s.name], s, at, k)
      OBVIOUS
    <3>2. rsyms' = [rsyms EXCEPT ![s.name] = v]
      BY <2>3, <3>1 DEF MergeSym
    <3> HIDE DEF s
    <3>3. q = IF s.name # n THEN r ELSE v
      BY <2>1, <3>2
    <3>4. QED
      BY <2>3, <3>1, <3>3
  <2>4. CASE s.binding # "local" /\ objs[at].kind # "dso"
    <3>1. PICK v : v = Merged(rsyms[s.name], s, at, k)
      OBVIOUS
    <3>2. rsyms' = [rsyms EXCEPT ![s.name] = v]
      BY <2>4, <3>1 DEF MergeSym
    <3> HIDE DEF s
    <3>3. q = IF s.name # n THEN r ELSE v
      BY <2>1, <3>2
    <3>4. QED
      BY <2>4, <3>1, <3>3
  <2>5. QED
    BY <2>2, <2>3, <2>4
<1> HIDE DEF s, r, q, D, S
<1>10. CASE s.name # n \/ s.binding = "local"
  <2>1. q = r /\ Seen(n)' = D
    BY <1>4, <1>6, <1>9, <1>10
  <2>2. QED
    BY <1>1, <1>2, <1>3, <2>1 DEF q
<1>11. ASSUME s.name = n, s.binding # "local", SameEntry(r, q), IsEntry(q),
              s.shndx = 0 \/ (r.defined /\ d \notin S)
       PROVE  /\ IsSym(q, objs') /\ ~q.script /\ IsWeak(q, objs')
              /\ IsWinner(q, Seen(n)', Strong(n)')
  <2>1. IsSym(q, objs') /\ ~q.script /\ IsWeak(q, objs')
    BY <1>1, <1>2, <1>11 DEF IsSym, IsWeak, SameEntry
  <2>2. IsWinner(q, D, S) /\ (r.defined /\ d \notin S => IsWinner(q, D \cup {d}, S))
    BY <1>1, <1>2, <1>5, <1>11, WinnerAdd
  <2>3. CASE s.shndx = 0
    <3>1. Seen(n)' = D
      BY <1>4, <1>6, <2>3
    <3>2. QED
      BY <1>3, <2>1, <2>2, <3>1
  <2>4. CASE s.shndx # 0
    <3>1. Seen(n)' = D \cup {d}
      BY <1>4, <1>6, <1>11, <2>4
    <3>2. QED
      BY <1>3, <1>11, <2>1, <2>2, <2>4, <3>1
  <2>5. QED
    BY <2>3, <2>4
<1>12. ASSUME s.name = n, s.binding # "local", s.shndx # 0, TakesEntry(q, s, at, k), IsEntry(q),
              D \cap S = {}, D = {} \/ d \in S
       PROVE  /\ IsSym(q, objs') /\ ~q.script /\ IsWeak(q, objs')
              /\ IsWinner(q, Seen(n)', Strong(n)')
  <2>1. IsSym(q, objs') /\ ~q.script
    BY <1>1, <1>12 DEF IsSym, TakesEntry
  <2>2. IsWeak(q, objs')
    BY <1>1, <1>12 DEF IsWeak, TakesEntry, s
  <2>3. Seen(n)' = D \cup {d}
    BY <1>4, <1>6, <1>12
  <2>4. IsWinner(q, D \cup {d}, S)
    BY <1>1, <1>2, <1>5, <1>12, WinnerAdd DEF TakesEntry
  <2>5. QED
    BY <1>3, <2>1, <2>2, <2>3, <2>4
<1>13. CASE s.name = n /\ s.binding # "local" /\ objs[at].kind = "dso"
  <2>1. IsEntry(q) /\ IF r.defined \/ s.shndx = 0 THEN q = r ELSE TakesEntry(q, s, at, k)
    BY <1>2, <1>9, <1>13, ExportedFacts DEF IsSym
  <2>2. d \notin S
    BY <1>7, <1>13
  <2>3. CASE r.defined \/ s.shndx = 0
    BY <1>11, <1>13, <2>1, <2>2, <2>3 DEF SameEntry, q
  <2>4. CASE ~ (r.defined \/ s.shndx = 0)
    <3>1. D = {}
      BY <1>2, <2>4 DEF IsWinner
    <3>2. QED
      BY <1>12, <1>13, <2>1, <2>4, <3>1 DEF q
  <2>5. QED
    BY <2>3, <2>4
<1>14. CASE s.name = n /\ s.binding # "local" /\ objs[at].kind # "dso"
  <2>1. /\ IsEntry(q)
        /\ IF s.shndx = 0 \/ (r.defined /\ ~ (r.weak /\ s.binding # "weak"))
           THEN SameEntry(r, q) ELSE TakesEntry(q, s, at, k)
    BY <1>2, <1>9, <1>14, MergedFacts DEF IsSym
  <2>2. s.shndx # 0 /\ r.defined /\ ~r.weak => s.binding = "weak"
    BY <1>1, <1>14 DEF Duplicate, r
  <2>3. CASE s.shndx = 0 \/ (r.defined /\ ~ (r.weak /\ s.binding # "weak"))
    <3>1. s.shndx = 0 \/ d \notin S
      BY <1>7, <2>2, <2>3
    <3>2. QED
      BY <1>11, <1>14, <2>1, <2>3, <3>1 DEF q
  <2>4. CASE ~ (s.shndx = 0 \/ (r.defined /\ ~ (r.weak /\ s.binding # "weak")))
    <3>1. CASE ~r.defined
      <4>1. D = {}
        BY <1>2, <3>1 DEF IsWinner
      <4>2. QED
        BY <1>12, <1>14, <2>1, <2>4, <4>1 DEF q
    <3>2. CASE r.defined
      <4>1. r.weak /\ s.binding # "weak" /\ d \in S
        BY <1>6, <1>7, <1>8, <1>14, <2>4, <3>2
      <4>2. objs[r.obj].syms[r.isym].binding # "global"
        BY <1>2, <3>2, <4>1 DEF IsWeak
      <4>3. <<r.obj, r.isym>> \notin S
        BY <4>2, DefinitionsAre DEF StrongIn, S
      <4>4. D \cap S = {}
        BY <1>2, <3>2, <4>3 DEF IsWinner
      <4>5. QED
        BY <1>12, <1>14, <2>1, <2>4, <4>1, <4>4 DEF q
    <3>3. QED
      BY <3>1, <3>2
  <2>5. QED
    BY <2>3, <2>4
<1>15. QED
  BY <1>10, <1>13, <1>14

LEMMA MergeSymStep ==
  ASSUME LinkOK, MergeSym
  PROVE  LinkOK'
<1> USE DEF LinkOK
<1>1. /\ phase = "merge" /\ phase' = "merge" /\ k' = k + 1
      /\ UNCHANGED <<plan, osecs, objs, at, scan>>
  BY DEF MergeSym
<1>2. rsyms' = [n \in Symbol |-> rsyms'[n]]
  <2>1. rsyms = [n \in Symbol |-> rsyms[n]]
    BY DEF TablesOK
  <2>2. CASE objs[at].syms[k].binding = "local"
    <3>1. rsyms' = rsyms
      BY <2>2 DEF MergeSym
    <3>2. QED
      BY <2>1, <3>1
  <2>3. CASE objs[at].syms[k].binding # "local"
    <3>1. PICK m, v : rsyms' = [rsyms EXCEPT ![m] = v]
      <4>1. CASE objs[at].kind = "dso"
        BY <2>3, <4>1 DEF MergeSym
      <4>2. CASE objs[at].kind # "dso"
        BY <2>3, <4>2 DEF MergeSym
      <4>3. QED
        BY <4>1, <4>2
    <3>2. QED
      BY <2>1, <3>1
  <2>4. QED
    BY <2>2, <2>3
<1>3. TablesOK'
  BY <1>1, <1>2, MergeSymEntry DEF TablesOK
<1>4. LoopsOK' /\ RoundOK'
  BY <1>1 DEF LoopsOK, RoundOK
<1>5. MergeOK'
  BY <1>1, MergeSymEntry DEF MergeOK
<1>6. GcOK'
  BY <1>1 DEF GcOK, GcClosed
<1>7. QED
  BY <1>3, <1>4, <1>5, <1>6

\* What resolve writes into an object is none of what it defines.
LEMMA NotedObj ==
  ASSUME NEW o, IsRecord(o), NEW v
  PROVE  /\ \A q : q = [o EXCEPT !.used = v] => IsRecord(q) /\ SameObj(o, q)
         /\ \A q : q = [o EXCEPT !.extracted = v] => IsRecord(q) /\ SameObj(o, q)
BY DEF IsRecord, SameObj

LEMMA OneNoted ==
  ASSUME NEW os, Objs(os), NEW i, NEW p, i \in DOMAIN os => IsRecord(p) /\ SameObj(os[i], p),
         NEW q, q = [os EXCEPT ![i] = p]
  PROVE  SameObjs(os, q) /\ q = [j \in DOMAIN os |-> q[j]]
<1>1. DOMAIN q = DOMAIN os /\ q = [j \in DOMAIN os |-> IF j = i THEN p ELSE os[j]]
  OBVIOUS
<1>2. \A j \in DOMAIN os : IsRecord(os[j]) /\ SameObj(os[j], os[j])
  BY DEF Objs, IsObj, IsRecord, SameObj
<1>3. QED
  BY <1>1, <1>2 DEF SameObjs

LEMMA SameObjsSyms ==
  ASSUME NEW os, NEW q, SameObjs(os, q)
  PROVE  SameSyms(os, q)
BY DEF SameObjs, SameObj, SameSyms

LEMMA MergeEndsStep ==
  ASSUME LinkOK, MergeEnds
  PROVE  LinkOK'
<1> USE DEF LinkOK
<1>1. /\ phase = "merge" /\ at \in Nat \ {0} /\ k \in Nat \ {0} /\ at <= Len(objs)
      /\ objs[at].kind = "archive" \/ k > Len(objs[at].syms)
      /\ UNCHANGED <<plan, osecs, rsyms, scan>>
      /\ \/ scan.ar = 0 /\ phase' = "merge" /\ at' = at + 1 /\ k' = 1
         \/ scan.ar # 0 /\ phase' = "scan" /\ at' = at /\ k' = k
  BY DEF MergeEnds, LoopsOK
<1>2. SameObjs(objs, objs') /\ objs' = [j \in DOMAIN objs |-> objs'[j]]
  <2>1. PICK p : p = [objs[at] EXCEPT !.used = TRUE]
    OBVIOUS
  <2>2. at \in DOMAIN objs => IsRecord(p) /\ SameObj(objs[at], p)
    <3> SUFFICES ASSUME at \in DOMAIN objs PROVE IsRecord(p) /\ SameObj(objs[at], p)
      OBVIOUS
    <3>1. IsRecord(objs[at])
      BY DEF TablesOK, Objs, IsObj, IsRecord
    <3>2. QED
      BY <2>1, <3>1, NotedObj
  <2>3. CASE objs[at].kind \in {"archive", "dso"}
    <3>1. objs' = objs
      BY <2>3 DEF MergeEnds
    <3>2. objs = [j \in DOMAIN objs |-> objs[j]]
      BY ListFacts DEF TablesOK, Objs
    <3>3. \A j \in DOMAIN objs : IsRecord(objs[j]) /\ SameObj(objs[j], objs[j])
      BY DEF TablesOK, Objs, IsObj, IsRecord, SameObj
    <3>4. QED
      BY <3>1, <3>2, <3>3 DEF SameObjs
  <2>4. CASE objs[at].kind \notin {"archive", "dso"}
    <3>1. objs' = [objs EXCEPT ![at] = p]
      BY <2>1, <2>4 DEF MergeEnds
    <3>2. QED
      BY <2>2, <3>1, OneNoted DEF TablesOK
  <2>5. QED
    BY <2>3, <2>4
<1>3. Objs(objs') /\ DOMAIN objs' = DOMAIN objs /\ Len(objs') = Len(objs)
  BY <1>2, SameObjsOK DEF TablesOK
<1>4. TablesOK'
  BY <1>1, <1>3 DEF TablesOK, IsSym
<1>5. LoopsOK' /\ RoundOK'
  BY <1>1, <1>3 DEF LoopsOK, RoundOK
<1>6. ASSUME NEW n \in Symbol
      PROVE  Seen(n)' = Seen(n)
  <2>1. ASSUME NEW d, Defines(objs, d, n)
        PROVE  /\ d[1] < at \/ (d[1] = at /\ d[2] < k) <=> d[1] <= at
               /\ d[1] < at + 1 \/ (d[1] = at + 1 /\ d[2] < 1) <=> d[1] <= at
               /\ scan.ar # 0 => d[1] <= at
    <3>1. d[1] \in 1..Len(objs) /\ d[2] \in Nat \ {0} /\ Len(objs) \in Nat
      BY <2>1, DefinesIndex DEF TablesOK
    <3>2. d[1] = at => d[2] < k
      <4>1. SUFFICES ASSUME d[1] = at PROVE d[2] < k
        OBVIOUS
      <4>2. at \in DOMAIN objs /\ d[2] \in DOMAIN objs[at].syms
        BY <2>1, <4>1 DEF Defines
      <4>3. IsObj(objs[at])
        BY <4>2 DEF TablesOK, Objs
      <4>4. objs[at].kind # "archive"
        BY <4>2, <4>3, EmptyList DEF IsObj
      <4>5. d[2] \in 1..Len(objs[at].syms) /\ Len(objs[at].syms) \in Nat
        BY <4>2, <4>3, ListFacts DEF IsObj
      <4>6. QED
        BY <1>1, <4>4, <4>5
    <3>3. scan.ar # 0 => at = Len(objs)
      BY <1>1 DEF LoopsOK
    <3>4. QED
      BY <1>1, <3>1, <3>2, <3>3
  <2>2. ASSUME NEW d PROVE d \in Seen(n)' <=> d \in Seen(n)
    <3>1. Definitions(n)' = Definitions(n)
      BY <1>2, SameObjsSyms, SameDefinitions
    <3>2. d \in Definitions(n) <=> Defines(objs, d, n)
      BY DefinitionsAre
    <3>3. QED
      BY <1>1, <2>1, <3>1, <3>2 DEF Seen
  <2>3. QED
    BY <2>2
<1>7. MergeOK'
  <2>1. ASSUME NEW n \in Symbol
        PROVE  /\ ~rsyms'[n].script /\ IsWeak(rsyms'[n], objs')
               /\ IsWinner(rsyms'[n], Seen(n)', Strong(n)')
    <3>1. ~rsyms[n].script /\ IsWeak(rsyms[n], objs) /\ IsWinner(rsyms[n], Seen(n), Strong(n))
      BY <1>1 DEF MergeOK
    <3>2. rsyms[n].defined => rsyms[n].obj \in DOMAIN objs
      BY <1>1, WinnerInside
    <3>3. IsWeak(rsyms[n], objs')
      BY <1>2, <3>1, <3>2, SameObjsSyms, SameIsWeak DEF TablesOK
    <3>4. Strong(n)' = Strong(n)
      BY <1>2, SameObjsSyms, SameDefinitions
    <3>5. QED
      BY <1>1, <1>6, <3>1, <3>3, <3>4
  <2>2. QED
    BY <1>1, <2>1 DEF MergeOK
<1>8. GcOK'
  <2>1. Fresh(objs')
    BY <1>1, <1>2, SameFresh DEF GcOK
  <2>2. QED
    BY <1>1, <2>1 DEF GcOK, GcClosed
<1>9. QED
  BY <1>4, <1>5, <1>7, <1>8

LEMMA ScanStartsStep ==
  ASSUME LinkOK, ScanStarts
  PROVE  LinkOK'
<1> USE DEF LinkOK
<1>1. /\ phase = "merge" /\ phase' = "scan" /\ at > Len(objs) /\ at' = 1 /\ k' = 1
      /\ UNCHANGED <<plan, osecs, objs, rsyms>> /\ at \in Nat \ {0}
      /\ scan' = [ar |-> 1, i |-> 1, n |-> 0, round |-> 1]
  BY DEF ScanStarts, Goto, LoopsOK, NoScan
<1>2. TablesOK'
  BY <1>1 DEF TablesOK
<1>3. LoopsOK'
  BY <1>1 DEF LoopsOK
<1>4. RoundOK'
  BY <1>1, ListFacts DEF RoundOK, TablesOK, Objs, IsObj
<1>5. MergeOK'
  <2>1. ASSUME NEW n \in Symbol PROVE Seen(n)' = Seen(n) /\ Strong(n)' = Strong(n)
    <3>1. Definitions(n)' = Definitions(n) /\ Strong(n)' = Strong(n)
      BY <1>1, SameDefinitions DEF SameSyms
    <3>2. ASSUME NEW d \in Definitions(n) PROVE d[1] < at
      <4>1. Defines(objs, d, n)
        BY DefinitionsAre
      <4>2. d[1] \in 1..Len(objs) /\ Len(objs) \in Nat
        BY <4>1, DefinesIndex DEF TablesOK
      <4>3. QED
        BY <1>1, <4>2
    <3>3. QED
      BY <1>1, <3>1, <3>2 DEF Seen
  <2>2. ASSUME NEW n \in Symbol
        PROVE  /\ ~rsyms'[n].script /\ IsWeak(rsyms'[n], objs')
               /\ IsWinner(rsyms'[n], Seen(n)', Strong(n)')
    BY <1>1, <2>1 DEF MergeOK
  <2>3. QED
    BY <1>1, <2>2 DEF MergeOK
<1>6. GcOK'
  BY <1>1 DEF GcOK, GcClosed
<1>7. QED
  BY <1>2, <1>3, <1>4, <1>5, <1>6

\* A step within the scan that leaves the objects and the symbols alone.
LEMMA WithinScan ==
  ASSUME LinkOK, phase = "scan", phase' = "scan", UNCHANGED <<plan, osecs, objs, rsyms, at, k>>
  PROVE  TablesOK' /\ MergeOK' /\ GcOK'
<1> USE DEF LinkOK
<1>1. TablesOK'
  BY DEF TablesOK
<1>2. GcOK'
  BY DEF GcOK, GcClosed
<1>3. ASSUME NEW n \in Symbol PROVE Seen(n)' = Seen(n) /\ Strong(n)' = Strong(n)
  BY SameDefinitions DEF SameSyms, Seen
<1>4. MergeOK'
  BY <1>3 DEF MergeOK
<1>5. QED
  BY <1>1, <1>2, <1>4

LEMMA ScanPassesStep ==
  ASSUME LinkOK, ScanPasses
  PROVE  LinkOK'
<1> USE DEF LinkOK
<1>1. /\ phase = "scan" /\ phase' = "scan" /\ UNCHANGED <<plan, osecs, objs, rsyms, at, k>>
      /\ ~Wanted(scan.ar, scan.i) /\ scan' = [scan EXCEPT !.i = @ + 1]
  BY DEF ScanPasses
<1>2. /\ scan' = [ar |-> scan.ar, i |-> scan.i + 1, n |-> scan.n, round |-> scan.round]
      /\ scan.ar \in Nat \ {0} /\ scan.i \in Nat \ {0} /\ scan.n \in Nat
  BY <1>1 DEF LoopsOK
<1>3. LoopsOK'
  BY <1>1, <1>2 DEF LoopsOK
<1>4. RoundOK'
  <2>1. SUFFICES ASSUME scan.n = 0, scan.ar \in DOMAIN objs,
                        NEW i \in DOMAIN objs[scan.ar].index, i < scan.i + 1
                 PROVE  ~Wanted(scan.ar, i)
    BY <1>1, <1>2 DEF RoundOK, Wanted
  <2>2. i \in Nat
    BY <2>1, ListFacts DEF TablesOK, Objs, IsObj
  <2>3. i < scan.i \/ i = scan.i
    BY <1>2, <2>1, <2>2
  <2>4. QED
    BY <1>1, <2>1, <2>3 DEF RoundOK
<1>5. QED
  BY <1>1, <1>3, <1>4, WithinScan

LEMMA RoundEndsStep ==
  ASSUME LinkOK, RoundEnds
  PROVE  LinkOK'
<1> USE DEF LinkOK
<1>1. /\ phase = "scan" /\ phase' = "scan" /\ UNCHANGED <<plan, osecs, objs, rsyms, at, k>>
      /\ scan' = IF ScanDone THEN [NoScan EXCEPT !.ar = scan.ar + 1]
                 ELSE [scan EXCEPT !.i = 1, !.n = 0, !.round = @ + 1]
  BY DEF RoundEnds
<1>2. /\ scan' = [ar |-> scan'.ar, i |-> 1, n |-> 0, round |-> scan'.round]
      /\ scan'.ar \in Nat \ {0}
  <2>1. /\ scan = [ar |-> scan.ar, i |-> scan.i, n |-> scan.n, round |-> scan.round]
        /\ scan.ar \in Nat \ {0}
    BY <1>1 DEF LoopsOK
  <2>2. CASE ScanDone
    BY <1>1, <2>1, <2>2 DEF NoScan
  <2>3. CASE ~ScanDone
    <3>1. PICK a : a = [scan EXCEPT !.i = 1]
      OBVIOUS
    <3>2. a = [ar |-> scan.ar, i |-> 1, n |-> scan.n, round |-> scan.round]
      BY <2>1, <3>1
    <3>3. PICK b : b = [a EXCEPT !.n = 0]
      OBVIOUS
    <3>4. b = [ar |-> scan.ar, i |-> 1, n |-> 0, round |-> scan.round]
      BY <3>2, <3>3
    <3>5. PICK m : m = scan.round + 1
      OBVIOUS
    <3>6. scan' = [b EXCEPT !.round = m]
      BY <1>1, <2>3, <3>1, <3>3, <3>5
    <3>7. scan' = [ar |-> scan.ar, i |-> 1, n |-> 0, round |-> m]
      BY <3>4, <3>6
    <3>8. QED
      BY <2>1, <3>7
  <2>4. QED
    BY <2>2, <2>3
<1>3. LoopsOK'
  BY <1>1, <1>2 DEF LoopsOK
<1>4. RoundOK'
  <2>1. SUFFICES ASSUME scan'.ar \in DOMAIN objs, NEW i \in DOMAIN objs[scan'.ar].index, i < 1
                 PROVE  FALSE
    BY <1>1, <1>2 DEF RoundOK
  <2>2. i \in Nat \ {0}
    BY <2>1, ListFacts DEF TablesOK, Objs, IsObj
  <2>3. QED
    BY <2>1, <2>2
<1>5. QED
  BY <1>1, <1>3, <1>4, WithinScan

LEMMA ExtractMemberStep ==
  ASSUME LinkOK, ExtractMember
  PROVE  LinkOK'
<1> USE DEF LinkOK
<1> DEFINE a == scan.ar
           m == objs[a].index[scan.i].member
           c == objs[a].members[m]
           o2 == [objs EXCEPT ![a].extracted = @ \cup {m}, ![a].used = TRUE]
           p == [load_elf_mem(c) EXCEPT !.group = objs[a].group, !.path = <<objs[a].path, m>>]
<1>1. /\ phase = "scan" /\ phase' = "merge" /\ at' = Len(objs) + 1 /\ k' = 1
      /\ UNCHANGED <<plan, osecs, rsyms>> /\ a <= Len(objs) /\ scan.i <= Len(objs[a].index)
  BY DEF ExtractMember
<1>2. objs' = Append(o2, p)
  BY DEF ExtractMember
<1>3. /\ scan' = [ar |-> scan'.ar, i |-> scan'.i, n |-> scan'.n, round |-> scan'.round]
       /\ scan'.ar = a /\ scan'.i = scan.i + 1 /\ scan'.n = scan.n + 1
  <2>1. scan' = [scan EXCEPT !.i = @ + 1, !.n = @ + 1]
    BY DEF ExtractMember
  <2>2. scan = [ar |-> scan.ar, i |-> scan.i, n |-> scan.n, round |-> scan.round]
    BY DEF LoopsOK
  <2>3. scan' = [ar |-> a, i |-> scan.i + 1, n |-> scan.n + 1, round |-> scan.round]
    BY <2>1, <2>2
  <2>4. QED
    BY <2>3
<1>4. /\ a \in DOMAIN objs /\ Len(objs) \in Nat /\ scan.i \in DOMAIN objs[a].index
      /\ IsObj(objs[a])
  <2>1. a \in Nat \ {0} /\ scan.i \in Nat \ {0}
    BY <1>1 DEF LoopsOK
  <2>2. a \in DOMAIN objs /\ Len(objs) \in Nat
    BY <1>1, <2>1, ListFacts DEF TablesOK, Objs
  <2>3. IsObj(objs[a])
    BY <2>2 DEF TablesOK, Objs
  <2>4. scan.i \in DOMAIN objs[a].index
    BY <1>1, <2>1, <2>3, ListFacts DEF IsObj
  <2>5. QED
    BY <2>2, <2>3, <2>4
<1>5. IsElf(c)
  BY <1>4 DEF IsObj
<1>6. IsObj(p) /\ SameObj(load_elf_mem(c), p) /\ \A i \in DOMAIN p.secs : p.secs[i].live = 1
  <2> HIDE DEF c, m
  <2>1. IsObj(load_elf_mem(c)) /\ \A i \in DOMAIN load_elf_mem(c).secs : load_elf_mem(c).secs[i].live = 1
    BY <1>5, LoadedObj
  <2>2. IsObj(p) /\ SameObj(load_elf_mem(c), p)
    BY <2>1, MemberObj
  <2> HIDE DEF p
  <2>3. QED
    BY <2>1, <2>2 DEF SameObj
<1> HIDE DEF p
<1>7. SameObjs(objs, o2) /\ o2 = [j \in DOMAIN objs |-> o2[j]]
  <2>1. PICK x : x = objs[a].extracted \cup {m}
    OBVIOUS
  <2>2. PICK b : b = [objs[a] EXCEPT !.extracted = x]
    OBVIOUS
  <2>3. PICK d : d = [b EXCEPT !.used = TRUE]
    OBVIOUS
  <2>4. IsRecord(objs[a])
    BY <1>4 DEF IsObj, IsRecord
  <2>5. IsRecord(b) /\ SameObj(objs[a], b)
    BY <2>2, <2>4, NotedObj
  <2>6. IsRecord(d) /\ SameObj(b, d)
    BY <2>3, <2>5, NotedObj
  <2>7. SameObj(objs[a], d)
    BY <2>5, <2>6 DEF SameObj
  <2>8. PICK q : q = [objs EXCEPT ![a] = b]
    OBVIOUS
  <2>9. q = [objs EXCEPT ![a].extracted = @ \cup {m}]
    BY <2>1, <2>2, <2>8
  <2>10. q[a] = b /\ o2 = [q EXCEPT ![a].used = TRUE]
    BY <1>4, <2>8, <2>9
  <2>11. o2 = [q EXCEPT ![a] = d]
    BY <2>3, <2>10
  <2> HIDE DEF o2, m
  <2>12. o2 = [objs EXCEPT ![a] = d]
    BY <2>8, <2>11
  <2>13. QED
    BY <2>6, <2>7, <2>12, OneNoted DEF TablesOK
<1> HIDE DEF o2
<1>8. Objs(o2) /\ DOMAIN o2 = DOMAIN objs /\ Len(o2) = Len(objs)
  BY <1>7, SameObjsOK DEF TablesOK
<1>9. /\ Objs(objs') /\ DOMAIN objs' = DOMAIN objs \cup {Len(objs) + 1}
      /\ Len(objs) + 1 \notin DOMAIN objs /\ Len(objs') = Len(objs) + 1
      /\ \A i \in DOMAIN objs : objs'[i] = o2[i]
  BY <1>6, <1>8, <1>2, AppendObjs, AppendList DEF Objs
<1>10. TablesOK'
  BY <1>1, <1>9 DEF TablesOK, IsSym
<1>11. LoopsOK'
  <2>1. a \in Nat \ {0} /\ scan.i \in Nat \ {0} /\ scan.n \in Nat
    BY <1>1 DEF LoopsOK
  <2>2. /\ at' \in Nat \ {0} /\ k' \in Nat \ {0} /\ at' = Len(objs')
        /\ scan'.ar \in Nat /\ scan'.i \in Nat \ {0} /\ scan'.n \in Nat \ {0}
    BY <1>1, <1>4, <1>9, <1>3, <2>1
  <2>3. QED
    BY <1>1, <1>3, <2>2 DEF LoopsOK
<1>12. RoundOK'
  BY <1>1 DEF RoundOK
<1>13. ASSUME NEW n \in Symbol, NEW d, d[1] \in DOMAIN objs
       PROVE  /\ Defines(objs', d, n) <=> Defines(objs, d, n)
              /\ Defines(objs, d, n) => (StrongIn(objs', d) <=> StrongIn(objs, d))
  <2>1. objs'[d[1]].kind = objs[d[1]].kind /\ objs'[d[1]].syms = objs[d[1]].syms
    BY <1>7, <1>9, <1>13 DEF SameObjs, SameObj
  <2>2. QED
    BY <1>9, <1>13, <2>1 DEF Defines, StrongIn
<1>14. ASSUME NEW n \in Symbol
       PROVE  Seen(n)' = Seen(n) /\ Seen(n) \cap Strong(n)' = Seen(n) \cap Strong(n)
  <2>1. ASSUME NEW d
        PROVE  d \in Seen(n)' <=> d \in Seen(n)
    <3>1. d \in Seen(n)' <=> Defines(objs', d, n) /\ (d[1] < at' \/ (d[1] = at' /\ d[2] < k'))
      BY <1>1, DefinitionsAre DEF Seen
    <3>2. d \in Seen(n) <=> Defines(objs, d, n)
      BY <1>1, DefinitionsAre DEF Seen
    <3>3. Defines(objs', d, n) =>
            ((d[1] < at' \/ (d[1] = at' /\ d[2] < k')) <=> d[1] \in DOMAIN objs)
      <4>1. SUFFICES ASSUME Defines(objs', d, n)
                     PROVE  (d[1] < at' \/ (d[1] = at' /\ d[2] < k')) <=> d[1] \in DOMAIN objs
        OBVIOUS
      <4>2. d[1] \in 1..Len(objs') /\ d[2] \in Nat \ {0}
        BY <1>9, <4>1, DefinesIndex
      <4>3. DOMAIN objs = 1..Len(objs)
        BY ListFacts DEF TablesOK, Objs
      <4>4. QED
        BY <1>1, <1>4, <1>9, <4>2, <4>3
    <3>4. Defines(objs, d, n) => d[1] \in DOMAIN objs
      BY DEF Defines
    <3>5. QED
      BY <1>13, <3>1, <3>2, <3>3, <3>4
  <2>2. ASSUME NEW d \in Seen(n)
        PROVE  d \in Strong(n)' <=> d \in Strong(n)
    <3>1. Defines(objs, d, n) /\ d[1] \in DOMAIN objs
      BY <1>1, <2>2, DefinitionsAre DEF Seen, Defines
    <3>2. QED
      BY <1>13, <3>1, DefinitionsAre
  <2>3. QED
    BY <2>1, <2>2
<1>15. MergeOK'
  <2>1. ASSUME NEW n \in Symbol
        PROVE  /\ ~rsyms'[n].script /\ IsWeak(rsyms'[n], objs')
               /\ IsWinner(rsyms'[n], Seen(n)', Strong(n)')
    <3>1. ~rsyms[n].script /\ IsWeak(rsyms[n], objs) /\ IsWinner(rsyms[n], Seen(n), Strong(n))
      BY <1>1 DEF MergeOK
    <3>2. rsyms[n].defined => rsyms[n].obj \in DOMAIN objs
      BY <1>1, WinnerInside
    <3>3. IsWeak(rsyms[n], objs')
      BY <1>7, <1>9, <3>1, <3>2 DEF IsWeak, SameObjs, SameObj
    <3>4. IsWinner(rsyms[n], Seen(n), Strong(n)')
      BY <1>14, <3>1, SameWinner DEF SameEntry
    <3>5. QED
      BY <1>1, <1>14, <3>1, <3>3, <3>4
  <2>2. QED
    BY <1>1, <2>1 DEF MergeOK
<1>16. GcOK'
  <2>1. Fresh(o2)
    BY <1>1, <1>7, SameFresh DEF GcOK
  <2>2. Fresh(objs')
    BY <1>6, <1>8, <1>2, <2>1, AppendFresh
  <2>3. QED
    BY <1>1, <2>2 DEF GcOK, GcClosed
<1>17. QED
  BY <1>10, <1>11, <1>12, <1>15, <1>16

LEMMA ScanEndsStep ==
  ASSUME LinkOK, ScanEnds
  PROVE  LinkOK'
<1> USE DEF LinkOK
<1>1. /\ phase = "scan" /\ phase' = "script" /\ at' = 1 /\ k' = 1 /\ scan' = NoScan
      /\ UNCHANGED <<plan, osecs, objs>>
      /\ rsyms' = [n \in Symbol |-> IF n \in DOMAIN plan.attrs
                                    THEN [rsyms[n] EXCEPT !.weak = plan.attrs[n]] ELSE rsyms[n]]
  BY DEF ScanEnds, Goto
<1>2. ASSUME NEW n \in Symbol
      PROVE  /\ IsSym(rsyms'[n], objs) /\ rsyms'[n].defined = rsyms[n].defined
             /\ rsyms'[n].obj = rsyms[n].obj /\ rsyms'[n].isym = rsyms[n].isym
             /\ rsyms'[n].script = rsyms[n].script
  <2>1. IsSym(rsyms[n], objs) /\ IsEntry(rsyms[n])
    BY DEF TablesOK, IsSym
  <2>2. CASE n \in DOMAIN plan.attrs
    <3>1. PICK v : v = plan.attrs[n]
      OBVIOUS
    <3>2. PICK q : q = rsyms'[n]
      OBVIOUS
    <3>3. q = [rsyms[n] EXCEPT !.weak = v]
      BY <1>1, <2>2, <3>1, <3>2
    <3>4. /\ IsEntry(q) /\ q.defined = rsyms[n].defined /\ q.obj = rsyms[n].obj
          /\ q.isym = rsyms[n].isym /\ q.script = rsyms[n].script
      BY <2>1, <3>3, WeakField
    <3>5. QED
      BY <2>1, <3>2, <3>4 DEF IsSym
  <2>3. CASE n \notin DOMAIN plan.attrs
    BY <1>1, <2>1, <2>3
  <2>4. QED
    BY <2>2, <2>3
<1>3. rsyms' = [n \in Symbol |-> rsyms'[n]]
  BY <1>1
<1>4. TablesOK'
  BY <1>1, <1>2, <1>3 DEF TablesOK
<1>5. LoopsOK' /\ RoundOK'
  BY <1>1 DEF LoopsOK, RoundOK, NoScan
<1>6. MergeOK'
  <2>1. ASSUME NEW n \in Symbol PROVE IsWinner(rsyms'[n], Seen(n)', Strong(n)')
    <3>1. Definitions(n)' = Definitions(n) /\ Strong(n)' = Strong(n)
      BY <1>1, SameDefinitions DEF SameSyms
    <3>2. Seen(n)' = Seen(n)
      BY <1>1, <3>1 DEF Seen
    <3>3. IsWinner(rsyms[n], Seen(n), Strong(n))
      BY <1>1 DEF MergeOK
    <3>4. QED
      BY <1>2, <3>1, <3>2, <3>3 DEF IsWinner
  <2>2. QED
    BY <1>1, <2>1 DEF MergeOK
<1>7. GcOK'
  BY <1>1 DEF GcOK, GcClosed
<1>8. QED
  BY <1>4, <1>5, <1>6, <1>7

LEMMA ApplySymbolStep ==
  ASSUME LinkOK, ApplySymbol
  PROVE  LinkOK'
<1> USE DEF LinkOK
<1> DEFINE s == Syms[at]
<1>1. /\ phase = "script" /\ phase' = "script" /\ at' = at + 1
      /\ UNCHANGED <<plan, osecs, objs, k, scan>>
      /\ rsyms' = [rsyms EXCEPT ![s.name] = Scripted(s, @)]
  BY DEF ApplySymbol
<1> HIDE DEF s
<1>2. rsyms = [n \in Symbol |-> rsyms[n]] /\ DOMAIN rsyms = Symbol
  BY DEF TablesOK
<1>3. rsyms' = [n \in Symbol |-> rsyms'[n]]
  BY <1>1, <1>2
<1>4. ASSUME NEW n \in Symbol
      PROVE  IsSym(rsyms'[n], objs) /\ (rsyms'[n] = rsyms[n] \/ rsyms'[n].script)
  <2>1. IsSym(rsyms[n], objs) /\ IsEntry(rsyms[n])
    BY DEF TablesOK, IsSym
  <2>2. rsyms'[n] = IF n = s.name THEN Scripted(s, rsyms[n]) ELSE rsyms[n]
    BY <1>1, <1>2
  <2>3. /\ IsEntry(Scripted(s, rsyms[n])) /\ Scripted(s, rsyms[n]).obj = rsyms[n].obj
        /\ \/ Scripted(s, rsyms[n]) = rsyms[n]
           \/ Scripted(s, rsyms[n]).defined = TRUE /\ Scripted(s, rsyms[n]).script = TRUE
    BY <2>1, ScriptedFacts
  <2>4. QED
    BY <2>1, <2>2, <2>3 DEF IsSym
<1>5. TablesOK'
  BY <1>1, <1>3, <1>4 DEF TablesOK
<1>6. LoopsOK' /\ RoundOK'
  BY <1>1 DEF LoopsOK, RoundOK
<1>7. MergeOK'
  <2>1. ASSUME NEW n \in Symbol, ~rsyms'[n].script
        PROVE  IsWinner(rsyms'[n], Seen(n)', Strong(n)')
    <3>1. Definitions(n)' = Definitions(n) /\ Strong(n)' = Strong(n)
      BY <1>1, SameDefinitions DEF SameSyms
    <3>2. Seen(n)' = Seen(n)
      BY <1>1, <3>1 DEF Seen
    <3>3. rsyms'[n] = rsyms[n]
      BY <1>4, <2>1
    <3>4. QED
      BY <1>1, <2>1, <3>1, <3>2, <3>3 DEF MergeOK
  <2>2. QED
    BY <1>1, <2>1 DEF MergeOK
<1>8. GcOK'
  BY <1>1 DEF GcOK, GcClosed
<1>9. QED
  BY <1>5, <1>6, <1>7, <1>8

\* A collection that begins: nothing is marked, and no root has been looked for.
LEMMA GcBegins ==
  ASSUME Objs(objs'), Fresh(objs'), phase' = "gc", at' = 1, k' = 1
  PROVE  GcOK'
<1>1. Marking(objs)'
  BY DEF Fresh, Marking, Live, Alloc
<1>2. RootsPassed'
  <2>1. SUFFICES ASSUME NEW x \in Sections(objs'), x[1] < 1 \/ (x[1] = 1 /\ x[2] < 1)
                 PROVE  FALSE
    BY DEF RootsPassed
  <2>2. x[1] \in DOMAIN objs' /\ x[2] \in DOMAIN objs'[x[1]].secs
    BY <2>1, SectionsAre
  <2>3. x[1] \in Nat \ {0}
    BY <2>2, ListFacts DEF Objs
  <2>4. x[2] \in Nat \ {0}
    BY <2>2, ListFacts DEF Objs, IsObj
  <2>5. QED
    BY <2>1, <2>3, <2>4
<1>3. QED
  BY <1>1, <1>2 DEF GcOK, GcClosed

\* Behind resolve there is nothing to say of its loops.
LEMMA Resolved ==
  ASSUME LoopsOK, phase \notin {"merge", "scan"}, scan' = scan,
         phase' \notin {"load", "merge", "scan", "script"}, at' \in Nat \ {0}, k' \in Nat \ {0}
  PROVE  LoopsOK' /\ RoundOK' /\ MergeOK'
<1>1. LoopsOK'
  BY DEF LoopsOK
<1>2. RoundOK'
  BY DEF RoundOK
<1>3. MergeOK'
  BY DEF MergeOK
<1>4. QED
  BY <1>1, <1>2, <1>3

LEMMA ResolveEndsStep ==
  ASSUME LinkOK, ResolveEnds
  PROVE  LinkOK'
<1> USE DEF LinkOK
<1>1. /\ phase = "script" /\ at' = 1 /\ k' = 1 /\ phase' \in {"gc", "on_resolved"}
      /\ UNCHANGED <<plan, osecs, scan>>
  BY DEF ResolveEnds, Goto
<1>2. /\ objs' = [i \in DOMAIN objs |->
                    IF objs[i].kind = "dso" /\ objs[i].as_needed /\ ~Won(i)
                    THEN [objs[i] EXCEPT !.used = FALSE] ELSE objs[i]]
      /\ rsyms' = [n \in Symbol |-> IF n \in Undefined
                                    THEN [rsyms[n] EXCEPT !.value = 0, !.known = TRUE]
                                    ELSE rsyms[n]]
  BY DEF ResolveEnds
<1>3. SameObjs(objs, objs') /\ objs' = [i \in DOMAIN objs |-> objs'[i]]
  <2>1. ASSUME NEW i \in DOMAIN objs PROVE IsRecord(objs'[i]) /\ SameObj(objs[i], objs'[i])
    <3>1. IsRecord(objs[i]) /\ SameObj(objs[i], objs[i])
      BY DEF TablesOK, Objs, IsObj, IsRecord, SameObj
    <3>2. PICK p : p = [objs[i] EXCEPT !.used = FALSE]
      OBVIOUS
    <3>3. IsRecord(p) /\ SameObj(objs[i], p)
      BY <3>1, <3>2, NotedObj
    <3>4. objs'[i] = p \/ objs'[i] = objs[i]
      BY <1>2, <3>2
    <3>5. QED
      BY <3>1, <3>3, <3>4
  <2>2. QED
    BY <1>2, <2>1 DEF SameObjs
<1>4. Objs(objs') /\ DOMAIN objs' = DOMAIN objs
  BY <1>3, SameObjsOK DEF TablesOK
<1>5. ASSUME NEW n \in Symbol PROVE IsSym(rsyms'[n], objs')
  <2>1. IsSym(rsyms[n], objs) /\ IsEntry(rsyms[n])
    BY DEF TablesOK, IsSym
  <2>2. PICK q : q = [rsyms[n] EXCEPT !.value = 0, !.known = TRUE]
    OBVIOUS
  <2>3. IsEntry(q) /\ SameEntry(rsyms[n], q)
    BY <2>1, <2>2, OtherFields
  <2>4. rsyms'[n] = q \/ rsyms'[n] = rsyms[n]
    BY <1>2, <2>2
  <2>5. QED
    BY <1>4, <2>1, <2>3, <2>4 DEF IsSym, SameEntry
<1>6. TablesOK'
  <2>1. rsyms' = [n \in Symbol |-> rsyms'[n]]
    BY <1>2
  <2>2. QED
    BY <1>1, <1>4, <1>5, <2>1 DEF TablesOK
<1>7. LoopsOK' /\ RoundOK' /\ MergeOK'
  <2>1. /\ phase \notin {"merge", "scan"} /\ phase' \notin {"load", "merge", "scan", "script"}
        /\ scan' = scan /\ at' \in Nat \ {0} /\ k' \in Nat \ {0}
    BY <1>1
  <2>2. QED
    BY <2>1, Resolved
<1>8. Fresh(objs')
  BY <1>1, <1>3, SameFresh DEF GcOK
<1>9. GcOK'
  <2>1. CASE phase' = "gc"
    BY <1>1, <1>4, <1>8, <2>1, GcBegins
  <2>2. CASE phase' = "on_resolved"
    BY <1>8, <2>2 DEF GcOK, GcClosed
  <2>3. QED
    BY <1>1, <2>1, <2>2
<1>10. QED
  BY <1>6, <1>7, <1>9

(***************************************************************************)
(* Steps: hooks and LTO.                                                   *)
(***************************************************************************)
\* What the collection leaves behind.
Collected ==
  \A x \in Sections(objs) :
    /\ Live(objs, x) = 1 /\ objs[x[1]].kind # "lto" =>
         \A y \in Edges(objs, x) : Alloc(objs, y) /\ objs[y[1]].kind # "lto" => Live(objs, y) = 1
    /\ (Alloc(objs, x) /\ objs[x[1]].kind # "lto"
        /\ (Kept(x[1], x[2]) \/ (plan.entry \in Symbol /\ x \in defining_sec(objs, plan.entry))))
       => Live(objs, x) = 1

LEMMA GcClosedIs ==
  GcClosed <=> (plan.gc /\ phase \in {"on_gc", "layout"} => Collected)
BY DEF GcClosed, Collected, Live, Alloc

\* The output sections in another order keep the same.
SameSels ==
  /\ \A o \in DOMAIN osecs : \E p \in DOMAIN osecs' : osecs'[p] = osecs[o]
  /\ \A p \in DOMAIN osecs' : \E o \in DOMAIN osecs : osecs'[p] = osecs[o]

LEMMA CollectorSame ==
  ASSUME UNCHANGED <<plan, rsyms>>, RefsIn(objs), Shape(objs, objs'), SameSels
  PROVE  /\ Sections(objs)' = Sections(objs)
         /\ \A n : defining_sec(objs, n)' = defining_sec(objs, n)
         /\ \A x \in Sections(objs) : /\ Edges(objs, x)' = Edges(objs, x)
                                      /\ Kept(x[1], x[2])' <=> Kept(x[1], x[2])
<1>1. /\ Sections(objs') = Sections(objs)
      /\ \A n : defining_sec(objs', n) = defining_sec(objs, n)
      /\ \A x \in Sections(objs) : Edges(objs', x) = Edges(objs, x)
  BY ShapeKeeps
<1>2. Sections(objs)' = Sections(objs)
  BY <1>1 DEF Sections
<1>3. ASSUME NEW n PROVE defining_sec(objs, n)' = defining_sec(objs, n)
  <2>1. defining_sec(objs, n)' = defining_sec(objs', n)
    BY DEF defining_sec
  <2>2. QED
    BY <1>1, <2>1
<1>4. ASSUME NEW x \in Sections(objs) PROVE Edges(objs, x)' = Edges(objs, x)
  <2>1. Edges(objs, x)' = Edges(objs', x)
    BY DEF Edges, defining_sec
  <2>2. QED
    BY <1>1, <2>1
<1>5. ASSUME NEW x \in Sections(objs) PROVE Kept(x[1], x[2])' <=> Kept(x[1], x[2])
  <2>1. x[1] \in DOMAIN objs /\ x[2] \in DOMAIN objs[x[1]].secs
    BY SectionsAre
  <2>2. /\ objs'[x[1]].path = objs[x[1]].path
        /\ objs'[x[1]].secs[x[2]].name = objs[x[1]].secs[x[2]].name
    BY <2>1 DEF Shape
  <2> DEFINE m(o) == {j \in DOMAIN o.sels : Matches(o.sels[j], x[1], x[2])}
             Keeps(o) == \E j \in m(o) : o.sels[j].keep /\ \A l \in m(o) : j <= l
  <2>3. Kept(x[1], x[2]) <=> \E o \in DOMAIN osecs : Keeps(osecs[o])
    BY DEF Kept
  <2>4. Kept(x[1], x[2])' <=> \E o \in DOMAIN osecs' : Keeps(osecs'[o])
    BY <2>2 DEF Kept, Matches
  <2> HIDE DEF Keeps
  <2>5. QED
    BY <2>3, <2>4 DEF SameSels
<1>6. QED
  BY <1>2, <1>3, <1>4, <1>5

LEMMA CollectedStays ==
  ASSUME UNCHANGED <<plan, rsyms, objs>>, RefsIn(objs), SameSels, Collected
  PROVE  Collected'
<1>1. Shape(objs, objs')
  BY DEF Shape
<1>2. /\ Sections(objs)' = Sections(objs)
      /\ \A n : defining_sec(objs, n)' = defining_sec(objs, n)
      /\ \A x \in Sections(objs) : /\ Edges(objs, x)' = Edges(objs, x)
                                   /\ Kept(x[1], x[2])' <=> Kept(x[1], x[2])
  BY <1>1, CollectorSame
<1>3. ASSUME NEW x \in Sections(objs)
      PROVE  /\ Live(objs', x) = 1 /\ objs'[x[1]].kind # "lto" =>
                  \A y \in Edges(objs, x)' :
                    Alloc(objs', y) /\ objs'[y[1]].kind # "lto" => Live(objs', y) = 1
             /\ (Alloc(objs', x) /\ objs'[x[1]].kind # "lto"
                 /\ (Kept(x[1], x[2])'
                     \/ (plan'.entry \in Symbol /\ x \in defining_sec(objs, plan.entry)')))
                => Live(objs', x) = 1
  <2>1. defining_sec(objs, plan.entry)' = defining_sec(objs, plan.entry)
    BY DEF defining_sec
  <2>2. QED
    BY <1>2, <1>3, <2>1 DEF Collected
<1>4. QED
  BY <1>2, <1>3 DEF Collected, Live, Alloc

LEMMA MoveKeeps ==
  ASSUME NEW s, IsList(s), NEW from \in DOMAIN s, NEW to \in DOMAIN s
  PROVE  /\ IsList(Move(s, from, to))
         /\ \A i \in DOMAIN s : \E j \in DOMAIN Move(s, from, to) : Move(s, from, to)[j] = s[i]
         /\ \A j \in DOMAIN Move(s, from, to) : \E i \in DOMAIN s : Move(s, from, to)[j] = s[i]
<1> DEFINE T == ToSet(s)
           n == Len(s)
           r == RemoveAt(s, from)
           e == s[from]
           m == Move(s, from, to)
<1>1. /\ n \in Nat /\ DOMAIN s = 1..n /\ s \in Seq(T) /\ e \in T
      /\ (\A i \in 1..n : s[i] \in T) /\ from \in 1..n /\ to \in 1..n
  BY ListFacts
<1> HIDE DEF T, n
<1>2. /\ r \in Seq(T) /\ Len(r) = n - 1
      /\ \A j \in 1..(n - 1) : r[j] = IF j < from THEN s[j] ELSE s[j + 1]
  BY <1>1, RemoveAtProperties DEF n
<1>3. m = InsertAt(r, to, e)
  BY DEF Move
<1>4. Len(r) + 1 = n /\ to \in 1..(Len(r) + 1)
  BY <1>1, <1>2
<1> HIDE DEF r, m
<1>5. /\ m \in Seq(T) /\ Len(m) = n
      /\ \A i \in 1..Len(r) : \E j \in 1..n : m[j] = r[i]
      /\ \E j \in 1..n : m[j] = e
      /\ \A j \in 1..n : m[j] = e \/ \E i \in 1..Len(r) : m[j] = r[i]
  <2>1. r \in Seq(T) /\ e \in T /\ to \in 1..(Len(r) + 1)
    BY <1>1, <1>2, <1>4
  <2> HIDE DEF e
  <2>2. HasOneMore(T, m, r, e)
    BY <1>3, <2>1, InsertAtElements
  <2>3. QED
    BY <1>4, <2>2 DEF e, HasOneMore
<1>6. IsList(m) /\ DOMAIN m = 1..n
  BY <1>5, SeqIsList, LenProperties
<1>7. ASSUME NEW i \in 1..n PROVE \E j \in 1..n : m[j] = s[i]
  <2>1. CASE i = from
    BY <1>5, <2>1
  <2>2. CASE i < from
    <3>1. i \in 1..(n - 1) /\ r[i] = s[i]
      BY <1>1, <1>2, <2>2
    <3>2. QED
      BY <1>2, <1>5, <3>1
  <2>3. CASE i > from
    <3>1. i - 1 \in 1..(n - 1) /\ ~ (i - 1 < from) /\ i - 1 + 1 = i
      BY <1>1, <2>3
    <3>2. r[i - 1] = s[i]
      BY <1>2, <3>1
    <3>3. QED
      BY <1>2, <1>5, <3>1, <3>2
  <2>4. QED
    BY <1>1, <2>1, <2>2, <2>3
<1>8. ASSUME NEW j \in 1..n PROVE \E i \in 1..n : m[j] = s[i]
  <2>1. ASSUME NEW p \in 1..Len(r) PROVE \E i \in 1..n : r[p] = s[i]
    <3>1. p \in 1..(n - 1) /\ p \in 1..n /\ p + 1 \in 1..n
      BY <1>1, <1>2
    <3>2. r[p] = s[p] \/ r[p] = s[p + 1]
      BY <1>2, <3>1
    <3>3. QED
      BY <3>1, <3>2
  <2>2. m[j] = e \/ \E p \in 1..Len(r) : m[j] = r[p]
    BY <1>5
  <2>3. QED
    BY <1>1, <2>1, <2>2
<1>9. QED
  BY <1>1, <1>6, <1>7, <1>8 DEF m

LEMMA RefsAreIn ==
  ASSUME TablesOK
  PROVE  RefsIn(objs)
BY DEF TablesOK, IsSym, RefsIn

\* set_symbol, and the moves of output sections.
LEMMA RunOpStep ==
  ASSUME LinkOK, RunOp, phase \in Early
  PROVE  LinkOK'
<1> USE DEF LinkOK
<1> DEFINE o == Ops[at]
<1>1. /\ phase \in {"on_resolved", "on_gc"} /\ phase' = phase /\ at' = at + 1
      /\ UNCHANGED <<plan, objs, k, scan>> /\ Accepted(o)
  BY DEF RunOp, After, Early
<1>2. rsyms' = IF o.what = "set_symbol"
               THEN [rsyms EXCEPT ![o.name].value = o.val, ![o.name].known = TRUE,
                                  ![o.name].defined = TRUE]
               ELSE rsyms
  BY DEF RunOp
<1>3. osecs' = IF o.what = "move_section" THEN Move(osecs, o.from, o.to) ELSE osecs
  BY DEF RunOp
<1>4. phase = "on_gc" => rsyms' = rsyms
  BY <1>1, <1>2 DEF Accepted
<1>5. IsList(osecs') /\ SameSels
  <2>1. IsList(osecs)
    BY DEF TablesOK
  <2>2. CASE o.what = "move_section"
    <3>1. o.from \in DOMAIN osecs /\ o.to \in DOMAIN osecs
      BY <1>1, <2>2 DEF Accepted
    <3>2. osecs' = Move(osecs, o.from, o.to)
      BY <1>3, <2>2
    <3> DEFINE f == o.from
               t == o.to
    <3> HIDE DEF o, f, t
    <3>3. /\ IsList(Move(osecs, f, t))
          /\ \A i \in DOMAIN osecs : \E j \in DOMAIN Move(osecs, f, t) : Move(osecs, f, t)[j] = osecs[i]
          /\ \A j \in DOMAIN Move(osecs, f, t) : \E i \in DOMAIN osecs : Move(osecs, f, t)[j] = osecs[i]
      <4>1. f \in DOMAIN osecs /\ t \in DOMAIN osecs
        BY <3>1 DEF f, t
      <4>2. QED
        BY <2>1, <4>1, MoveKeeps
    <3>4. osecs' = Move(osecs, f, t)
      BY <3>2 DEF f, t
    <3>5. QED
      BY <3>3, <3>4 DEF SameSels
  <2>3. CASE o.what # "move_section"
    BY <1>3, <2>1, <2>3 DEF SameSels
  <2>4. QED
    BY <2>2, <2>3
<1> HIDE DEF o
<1>6. rsyms' = [n \in Symbol |-> rsyms'[n]] /\ \A n \in Symbol : IsSym(rsyms'[n], objs)
  <2>1. rsyms = [n \in Symbol |-> rsyms[n]] /\ \A n \in Symbol : IsSym(rsyms[n], objs)
    BY DEF TablesOK
  <2>2. CASE o.what # "set_symbol"
    BY <1>2, <2>1, <2>2
  <2>3. CASE o.what = "set_symbol"
    <3> DEFINE m == o.name
               v == o.val
    <3>1. rsyms' = [rsyms EXCEPT ![m].value = v, ![m].known = TRUE, ![m].defined = TRUE]
      BY <1>2, <2>3
    <3> HIDE DEF m, v
    <3>2. PICK a : a = [rsyms[m] EXCEPT !.value = v]
      OBVIOUS
    <3>3. PICK b : b = [a EXCEPT !.known = TRUE]
      OBVIOUS
    <3>4. PICK c : c = [b EXCEPT !.defined = TRUE]
      OBVIOUS
    <3>5. DOMAIN rsyms = Symbol
      BY <2>1
    <3>6. rsyms' = [n \in Symbol |-> IF n = m THEN c ELSE rsyms[n]]
      <4>1. PICK x : x = [rsyms EXCEPT ![m].value = v]
        OBVIOUS
      <4>2. x = [n \in Symbol |-> IF n = m THEN a ELSE rsyms[n]]
        BY <3>2, <3>5, <4>1
      <4>3. PICK y : y = [x EXCEPT ![m].known = TRUE]
        OBVIOUS
      <4>4. y = [n \in Symbol |-> IF n = m THEN b ELSE rsyms[n]]
        BY <3>3, <4>2, <4>3
      <4>5. rsyms' = [y EXCEPT ![m].defined = TRUE]
        BY <3>1, <4>1, <4>3
      <4>6. QED
        BY <3>4, <4>4, <4>5
    <3>7. m \in Symbol => IsSym(c, objs)
      <4>1. SUFFICES ASSUME m \in Symbol PROVE IsSym(c, objs)
        OBVIOUS
      <4>2. IsEntry(rsyms[m]) /\ IsSym(rsyms[m], objs)
        BY <2>1, <4>1 DEF IsSym
      <4>3. IsEntry(a) /\ a.obj = rsyms[m].obj /\ a.script = rsyms[m].script
        BY <3>2, <4>2 DEF IsEntry
      <4>4. IsEntry(b) /\ b.obj = rsyms[m].obj /\ b.script = rsyms[m].script
        BY <3>3, <4>3 DEF IsEntry
      <4>5. /\ IsEntry(c) /\ c.obj = rsyms[m].obj /\ c.script = rsyms[m].script
            /\ c.defined = TRUE
        BY <3>4, <4>4 DEF IsEntry
      <4>6. QED
        BY <4>2, <4>5 DEF IsSym
    <3>8. QED
      BY <2>1, <3>6, <3>7
  <2>4. QED
    BY <2>2, <2>3
<1>7. TablesOK'
  BY <1>1, <1>5, <1>6 DEF TablesOK
<1>8. LoopsOK' /\ RoundOK' /\ MergeOK'
  <2>1. /\ phase \notin {"merge", "scan"} /\ phase' \notin {"load", "merge", "scan", "script"}
        /\ scan' = scan /\ at' \in Nat \ {0} /\ k' \in Nat \ {0}
    BY <1>1 DEF LoopsOK
  <2>2. QED
    BY <2>1, Resolved
<1>9. GcOK'
  <2>1. CASE phase = "on_resolved"
    BY <1>1, <2>1 DEF GcOK, GcClosed, Fresh, Live
  <2>2. CASE phase = "on_gc"
    <3>1. plan.gc => Collected
      BY <2>2, GcClosedIs DEF GcOK
    <3>2. plan.gc => Collected'
      BY <1>1, <1>4, <1>5, <2>2, <3>1, RefsAreIn, CollectedStays
    <3>3. GcClosed'
      BY <1>1, <2>2, <3>2, GcClosedIs DEF GcClosed, Collected, Live, Alloc
    <3>4. QED
      BY <1>1, <2>2, <3>3 DEF GcOK
  <2>3. QED
    BY <1>1, <2>1, <2>2
<1>10. QED
  BY <1>7, <1>8, <1>9

\* A step that leaves alone what the collection looks at.
LEMMA GcStays ==
  ASSUME TablesOK, GcOK, UNCHANGED <<plan, rsyms, objs, osecs>>,
         \/ phase = "on_resolved" /\ phase' \in {"on_resolved", "lto"}
         \/ phase = "on_gc" /\ phase' \in {"on_gc", "layout"}
  PROVE  GcOK'
<1>1. CASE phase = "on_resolved"
  BY <1>1 DEF GcOK, GcClosed, Fresh, Live
<1>2. CASE phase = "on_gc"
  <2>1. plan.gc => Collected
    BY <1>2, GcClosedIs DEF GcOK
  <2>2. SameSels
    BY DEF SameSels
  <2>3. plan.gc => Collected'
    BY <2>1, <2>2, RefsAreIn, CollectedStays
  <2>4. GcClosed'
    BY <2>3 DEF GcClosed, Collected, Live, Alloc
  <2>5. QED
    BY <1>2, <2>4 DEF GcOK
<1>3. QED
  BY <1>1, <1>2

LEMMA OpIgnoredStep ==
  ASSUME LinkOK, OpIgnored, phase \in Early
  PROVE  LinkOK'
<1> USE DEF LinkOK
<1>1. /\ phase \in {"on_resolved", "on_gc"} /\ phase' = phase /\ at' = at + 1
      /\ UNCHANGED <<plan, objs, osecs, rsyms, k, scan>>
  BY DEF OpIgnored, After, Early
<1>2. TablesOK'
  BY <1>1 DEF TablesOK
<1>3. LoopsOK' /\ RoundOK' /\ MergeOK'
  <2>1. /\ phase \notin {"merge", "scan"} /\ phase' \notin {"load", "merge", "scan", "script"}
        /\ scan' = scan /\ at' \in Nat \ {0} /\ k' \in Nat \ {0}
    BY <1>1 DEF LoopsOK
  <2>2. QED
    BY <2>1, Resolved
<1>4. GcOK'
  BY <1>1, GcStays DEF Early
<1>5. QED
  BY <1>2, <1>3, <1>4

LEMMA DispatchEndsStep ==
  ASSUME LinkOK, DispatchEnds, phase \in Early
  PROVE  LinkOK'
<1> USE DEF LinkOK
<1>1. /\ \/ phase = "on_resolved" /\ phase' = "lto"
         \/ phase = "on_gc" /\ phase' = "layout"
      /\ at' = 1 /\ k' = 1 /\ UNCHANGED <<plan, objs, osecs, rsyms, scan>>
  BY DEF DispatchEnds, Goto, After, Early
<1>2. TablesOK'
  BY <1>1 DEF TablesOK
<1>3. LoopsOK' /\ RoundOK' /\ MergeOK'
  <2>1. /\ phase \notin {"merge", "scan"} /\ phase' \notin {"load", "merge", "scan", "script"}
        /\ scan' = scan /\ at' \in Nat \ {0} /\ k' \in Nat \ {0}
    BY <1>1
  <2>2. QED
    BY <2>1, Resolved
<1>4. GcOK'
  BY <1>1, GcStays
<1>5. QED
  BY <1>2, <1>3, <1>4

LEMMA LtoSkipsStep ==
  ASSUME LinkOK, LtoSkips
  PROVE  LinkOK'
<1> USE DEF LinkOK
<1>1. /\ phase = "lto" /\ phase' = "gc" /\ at' = 1 /\ k' = 1
      /\ UNCHANGED <<plan, objs, osecs, rsyms, scan>>
  BY DEF LtoSkips, Goto
<1>2. TablesOK'
  BY <1>1 DEF TablesOK
<1>3. LoopsOK' /\ RoundOK' /\ MergeOK'
  <2>1. /\ phase \notin {"merge", "scan"} /\ phase' \notin {"load", "merge", "scan", "script"}
        /\ scan' = scan /\ at' \in Nat \ {0} /\ k' \in Nat \ {0}
    BY <1>1
  <2>2. QED
    BY <2>1, Resolved
<1>4. Objs(objs') /\ Fresh(objs')
  BY <1>1 DEF TablesOK, GcOK
<1>5. GcOK'
  BY <1>1, <1>4, GcBegins
<1>6. QED
  BY <1>2, <1>3, <1>5

LEMMA GcSkipsStep ==
  ASSUME LinkOK, GcSkips
  PROVE  LinkOK'
<1> USE DEF LinkOK
<1>1. /\ phase = "gc" /\ phase' = "on_gc" /\ at' = 1 /\ k' = 1 /\ ~plan.gc
      /\ UNCHANGED <<plan, objs, osecs, rsyms, scan>>
  BY DEF GcSkips, Goto
<1>2. TablesOK'
  BY <1>1 DEF TablesOK
<1>3. LoopsOK' /\ RoundOK' /\ MergeOK'
  <2>1. /\ phase \notin {"merge", "scan"} /\ phase' \notin {"load", "merge", "scan", "script"}
        /\ scan' = scan /\ at' \in Nat \ {0} /\ k' \in Nat \ {0}
    BY <1>1
  <2>2. QED
    BY <2>1, Resolved
<1>4. GcOK'
  BY <1>1 DEF GcOK, GcClosed
<1>5. QED
  BY <1>2, <1>3, <1>4

\* The modules die.
LEMMA DeadObj ==
  ASSUME NEW o, IsObj(o), NEW p,
         p = [o EXCEPT !.secs = [s \in DOMAIN @ |-> [@[s] EXCEPT !.live = 0]]]
  PROVE  /\ IsObj(p) /\ p.kind = o.kind /\ p.syms = o.syms
         /\ \A s \in DOMAIN p.secs : p.secs[s].live = 0
<1> DEFINE t == [s \in DOMAIN o.secs |-> [o.secs[s] EXCEPT !.live = 0]]
<1>1. Len(o.secs) \in Nat /\ DOMAIN o.secs = 1..Len(o.secs)
  BY ListFacts DEF IsObj
<1>2. DOMAIN t = DOMAIN o.secs
  OBVIOUS
<1>3. ASSUME NEW s \in DOMAIN t PROVE IsSec(t[s]) /\ t[s].live = 0
  <2>1. IsSec(o.secs[s]) /\ t[s] = [o.secs[s] EXCEPT !.live = 0]
    BY DEF IsObj
  <2> HIDE DEF t
  <2>2. QED
    BY <2>1, SectionIsSec
<1>4. IsList(t)
  <2>1. t = [s \in DOMAIN o.secs |-> t[s]]
    OBVIOUS
  <2> HIDE DEF t
  <2>2. QED
    BY <1>1, <1>2, <2>1, ListOf
<1>5. p = [o EXCEPT !.secs = t]
  OBVIOUS
<1> HIDE DEF t
<1>6. /\ IsRecord(p) /\ p.secs = t /\ p.kind = o.kind /\ p.syms = o.syms
      /\ p.index = o.index /\ p.members = o.members
  BY <1>5 DEF IsObj, IsRecord
<1>7. IsObj(p)
  BY <1>3, <1>4, <1>6 DEF IsObj, IsRecord
<1>8. QED
  BY <1>3, <1>6, <1>7

LEMMA ConcatObjs ==
  ASSUME NEW a, NEW b, Objs(a), Fresh(a), Objs(b),
         \A i \in DOMAIN b : \A j \in DOMAIN b[i].secs : b[i].secs[j].live = 1
  PROVE  Objs(a \o b) /\ Fresh(a \o b) /\ DOMAIN a \subseteq DOMAIN (a \o b)
<1> DEFINE c == a \o b
<1>1. /\ IsList(c) /\ \A i \in DOMAIN a : i \in DOMAIN c /\ c[i] = a[i]
      /\ \A i \in DOMAIN c : \/ i \in DOMAIN a
                             \/ i - Len(a) \in DOMAIN b /\ c[i] = b[i - Len(a)]
  BY ConcatList DEF Objs
<1> HIDE DEF c
<1>2. Objs(c)
  BY <1>1 DEF Objs
<1>3. ASSUME NEW x \in Sections(c)
      PROVE  Live(c, x) # 2 /\ (c[x[1]].kind # "lto" => Live(c, x) = 1)
  <2>1. x = <<x[1], x[2]>> /\ x[1] \in DOMAIN c /\ x[2] \in DOMAIN c[x[1]].secs
    BY SectionsAre
  <2>2. CASE x[1] \in DOMAIN a
    <3>1. x \in Sections(a) /\ c[x[1]] = a[x[1]]
      BY <1>1, <2>1, <2>2, SectionsAre
    <3>2. QED
      BY <3>1 DEF Fresh, Live
  <2>3. CASE x[1] \notin DOMAIN a
    BY <1>1, <2>1, <2>3 DEF Live
  <2>4. QED
    BY <2>2, <2>3
<1>4. QED
  BY <1>1, <1>2, <1>3 DEF Fresh, c

LEMMA LtoRunsStep ==
  ASSUME LinkOK, LtoRuns
  PROVE  LinkOK'
<1> USE DEF LinkOK
<1> DEFINE G == {c \in ToSet(plan.lto.native) : Loadable(c)}
           native == Filtered(plan.lto.native, G)
           dead == [i \in DOMAIN objs |->
                      IF IsLto(i)
                      THEN [objs[i] EXCEPT !.secs = [s \in DOMAIN @ |-> [@[s] EXCEPT !.live = 0]]]
                      ELSE objs[i]]
           ns == [i \in DOMAIN native |-> load_elf_mem(native[i])]
<1>1. /\ phase = "lto" /\ phase' = IF native = <<>> THEN "gc" ELSE "merge"
      /\ at' = 1 /\ k' = 1 /\ UNCHANGED <<plan, osecs, scan>>
  BY DEF LtoRuns, Goto
<1>2. objs' = dead \o ns
  BY DEF LtoRuns
<1>3. rsyms' = [n \in Symbol |->
                  IF native # <<>> THEN NoSym
                  ELSE IF rsyms[n].obj # 0 /\ IsLto(rsyms[n].obj)
                  THEN [rsyms[n] EXCEPT !.defined = FALSE, !.obj = 0, !.isym = 0, !.known = FALSE]
                  ELSE rsyms[n]]
  BY DEF LtoRuns
<1>4. Objs(ns) /\ \A i \in DOMAIN ns : \A j \in DOMAIN ns[i].secs : ns[i].secs[j].live = 1
  <2>1. /\ IsList(plan.lto.native)
        /\ \A i \in DOMAIN plan.lto.native : IsElf(plan.lto.native[i])
    BY LinkAssumption DEF TablesOK
  <2>2. IsList(native) /\ \A i \in DOMAIN native : IsElf(native[i])
    <3> HIDE DEF G
    <3>1. QED
      BY <2>1, FilteredList
  <2> HIDE DEF native
  <2>3. Len(native) \in Nat /\ DOMAIN ns = 1..Len(native) /\ ns = [i \in 1..Len(native) |-> ns[i]]
    BY <2>2, ListFacts
  <2>4. IsList(ns)
    <3> HIDE DEF ns
    <3>1. QED
      BY <2>3, ListOf
  <2>5. ASSUME NEW i \in DOMAIN ns
        PROVE  IsObj(ns[i]) /\ \A j \in DOMAIN ns[i].secs : ns[i].secs[j].live = 1
    <3>1. IsElf(native[i]) /\ ns[i] = load_elf_mem(native[i])
      BY <2>2
    <3> HIDE DEF ns
    <3>2. QED
      BY <3>1, LoadedObj
  <2>6. QED
    BY <2>4, <2>5 DEF Objs
<1> HIDE DEF native, ns
<1>5. /\ Objs(dead) /\ Fresh(dead) /\ DOMAIN dead = DOMAIN objs
  <2>1. Objs(objs) /\ Fresh(objs)
    BY <1>1 DEF TablesOK, GcOK
  <2>2. Len(objs) \in Nat /\ DOMAIN objs = 1..Len(objs)
    BY <2>1, ListFacts DEF Objs
  <2>3. DOMAIN dead = DOMAIN objs /\ dead = [i \in DOMAIN objs |-> dead[i]]
    OBVIOUS
  <2>4. ASSUME NEW i \in DOMAIN objs
        PROVE  /\ IsObj(dead[i])
               /\ \A s \in DOMAIN dead[i].secs :
                    /\ dead[i].secs[s].live # 2
                    /\ dead[i].kind # "lto" => dead[i].secs[s].live = 1
    <3>1. IsObj(objs[i])
      BY <2>1 DEF Objs
    <3>2. CASE IsLto(i)
      <4>1. PICK p : p = [objs[i] EXCEPT !.secs = [s \in DOMAIN @ |-> [@[s] EXCEPT !.live = 0]]]
        OBVIOUS
      <4>2. /\ IsObj(p) /\ p.kind = "lto" /\ \A s \in DOMAIN p.secs : p.secs[s].live = 0
        BY <3>1, <3>2, <4>1, DeadObj DEF IsLto
      <4>3. dead[i] = p
        BY <3>2, <4>1
      <4> HIDE DEF dead
      <4>4. QED
        BY <4>2, <4>3
    <3>3. CASE ~IsLto(i)
      <4>1. dead[i] = objs[i]
        BY <3>3
      <4>2. ASSUME NEW s \in DOMAIN objs[i].secs PROVE objs[i].secs[s].live = 1
        <5>1. <<i, s>> \in Sections(objs)
          BY DEF Sections
        <5>2. QED
          BY <2>1, <3>3, <5>1 DEF Fresh, Live, IsLto
      <4> HIDE DEF dead
      <4>3. QED
        BY <3>1, <4>1, <4>2
    <3>4. QED
      BY <3>2, <3>3
  <2> HIDE DEF dead
  <2>5. IsList(dead)
    BY <2>2, <2>3, ListOf
  <2>6. Objs(dead)
    BY <2>3, <2>4, <2>5 DEF Objs
  <2>7. Fresh(dead)
    BY <2>3, <2>4, SectionsAre DEF Fresh, Live
  <2>8. QED
    BY <2>3, <2>6, <2>7
<1> HIDE DEF dead
<1>6. Objs(objs') /\ Fresh(objs') /\ DOMAIN objs \subseteq DOMAIN objs'
  BY <1>2, <1>4, <1>5, ConcatObjs
<1>7. ASSUME NEW n \in Symbol
      PROVE  /\ IsSym(rsyms'[n], objs')
             /\ native # <<>> => ~rsyms'[n].defined /\ ~rsyms'[n].script
  <2>1. IsSym(rsyms[n], objs) /\ IsEntry(rsyms[n])
    BY DEF TablesOK, IsSym
  <2>2. CASE native # <<>>
    <3>1. rsyms'[n] = NoSym
      BY <1>3, <2>2
    <3>2. QED
      BY <3>1 DEF NoSym, IsSym, IsEntry
  <2>3. CASE native = <<>> /\ rsyms[n].obj # 0 /\ IsLto(rsyms[n].obj)
    <3>1. PICK q : q = rsyms'[n]
      OBVIOUS
    <3>2. q = [rsyms[n] EXCEPT !.defined = FALSE, !.obj = 0, !.isym = 0, !.known = FALSE]
      BY <1>3, <2>3, <3>1
    <3>3. PICK a : a = [rsyms[n] EXCEPT !.defined = FALSE]
      OBVIOUS
    <3>4. IsEntry(a) /\ a.defined = FALSE /\ a.script = rsyms[n].script
      BY <2>1, <3>3 DEF IsEntry
    <3>5. PICK b : b = [a EXCEPT !.obj = 0]
      OBVIOUS
    <3>6. IsEntry(b) /\ b.defined = FALSE /\ b.script = rsyms[n].script /\ b.obj = 0
      BY <3>4, <3>5 DEF IsEntry
    <3>7. PICK c : c = [b EXCEPT !.isym = 0]
      OBVIOUS
    <3>8. IsEntry(c) /\ c.defined = FALSE /\ c.script = rsyms[n].script /\ c.obj = 0
      BY <3>6, <3>7 DEF IsEntry
    <3>9. q = [c EXCEPT !.known = FALSE]
      BY <3>2, <3>3, <3>5, <3>7
    <3>10. IsEntry(q) /\ q.defined = FALSE /\ q.script = rsyms[n].script /\ q.obj = 0
      BY <3>8, <3>9 DEF IsEntry
    <3>11. QED
      BY <2>1, <2>3, <3>1, <3>10 DEF IsSym
  <2>4. CASE native = <<>> /\ ~ (rsyms[n].obj # 0 /\ IsLto(rsyms[n].obj))
    <3>1. rsyms'[n] = rsyms[n]
      BY <1>3, <2>4
    <3>2. QED
      BY <1>6, <2>1, <2>4, <3>1 DEF IsSym
  <2>5. QED
    BY <2>2, <2>3, <2>4
<1>8. TablesOK'
  <2>1. rsyms' = [n \in Symbol |-> rsyms'[n]]
    BY <1>3
  <2>2. QED
    BY <1>1, <1>6, <1>7, <2>1 DEF TablesOK
<1>9. CASE native = <<>>
  <2>1. phase' = "gc"
    BY <1>1, <1>9
  <2>2. /\ phase \notin {"merge", "scan"} /\ phase' \notin {"load", "merge", "scan", "script"}
        /\ scan' = scan /\ at' \in Nat \ {0} /\ k' \in Nat \ {0}
    BY <1>1, <2>1
  <2>3. LoopsOK' /\ RoundOK' /\ MergeOK'
    BY <2>2, Resolved
  <2>4. GcOK'
    BY <1>1, <1>6, <2>1, GcBegins
  <2>5. QED
    BY <1>8, <2>3, <2>4
<1>10. CASE native # <<>>
  <2>1. phase' = "merge"
    BY <1>1, <1>10
  <2>2. LoopsOK' /\ RoundOK'
    BY <1>1, <2>1 DEF LoopsOK, RoundOK
  <2>3. MergeOK'
    BY <1>1, <1>6, <1>7, <1>10, <2>1, MergeBegins
  <2>4. GcOK'
    BY <1>6, <2>1 DEF GcOK, GcClosed
  <2>5. QED
    BY <1>8, <2>2, <2>3, <2>4
<1>11. QED
  BY <1>9, <1>10

(***************************************************************************)
(* Steps: gc.                                                              *)
(***************************************************************************)
LEMMA ShapeTransitive ==
  ASSUME NEW a, NEW b, NEW c, Shape(a, b), Shape(b, c)
  PROVE  Shape(a, c)
BY DEF Shape

\* Marking keeps its invariant: what is marked is closed, what is taken needs no place.
LEMMA MarkingStep ==
  ASSUME NEW os, Objs(os), RefsIn(os), Marking(os), NEW X, NEW v,
         \/ v = 0 /\ \A x \in X : ~Alloc(os, x)
         \/ v = 2 /\ X \subseteq Open(os) /\ Closed(os, X)
  PROVE  Marking(SetLive(os, X, v))
<1> DEFINE q == SetLive(os, X, v)
<1>1. v \in {0, 1, 2} /\ v # 1
  OBVIOUS
<1>2. /\ Shape(os, q) /\ Sections(q) = Sections(os)
      /\ \A x \in Sections(os) : Live(q, x) = IF x \in X THEN v ELSE Live(os, x)
  BY <1>1, SetLiveFacts
<1> HIDE DEF q
<1>3. \A x \in Sections(os) : /\ Edges(q, x) = Edges(os, x) /\ Edges(os, x) \subseteq Sections(os)
                              /\ Alloc(q, x) = Alloc(os, x) /\ q[x[1]].kind = os[x[1]].kind
  BY <1>2, ShapeKeeps, EdgesInside, SectionsAre DEF Shape
<1>4. ASSUME NEW x \in Sections(os), Live(q, x) = 2, NEW y \in Edges(os, x)
      PROVE  Live(q, y) # 1
  <2>1. y \in Sections(os) /\ (Live(os, y) = 1 => y \in Open(os))
    BY <1>3, <1>4 DEF Open, Live
  <2>2. CASE x \in X
    <3>1. v = 2 /\ Closed(os, X)
      BY <1>2, <1>4, <2>2
    <3>2. Live(os, y) = 1 => y \in X
      BY <1>4, <2>1, <2>2, <3>1 DEF Closed
    <3>3. QED
      BY <1>1, <1>2, <2>1, <3>2
  <2>3. CASE x \notin X
    <3>1. Live(os, x) = 2
      BY <1>2, <1>4, <2>3
    <3>2. Live(os, y) # 1
      BY <1>4, <3>1 DEF Marking
    <3>3. QED
      BY <1>1, <1>2, <2>1, <3>2
  <2>4. QED
    BY <2>2, <2>3
<1>5. ASSUME NEW x \in Sections(os), q[x[1]].kind # "lto", Live(q, x) = 0
      PROVE  ~Alloc(q, x)
  <2>1. CASE x \in X
    <3>1. v = 0
      BY <1>2, <1>5, <2>1
    <3>2. ~Alloc(os, x)
      BY <2>1, <3>1
    <3>3. QED
      BY <1>3, <1>5, <3>2
  <2>2. CASE x \notin X
    <3>1. Live(os, x) = 0 /\ os[x[1]].kind # "lto"
      BY <1>2, <1>3, <1>5, <2>2
    <3>2. ~Alloc(os, x)
      BY <1>5, <3>1 DEF Marking
    <3>3. QED
      BY <1>3, <1>5, <3>2
  <2>3. QED
    BY <2>1, <2>2
<1>6. QED
  BY <1>2, <1>3, <1>4, <1>5 DEF Marking, q

LEMMA GcSectionStep ==
  ASSUME LinkOK, GcSection
  PROVE  LinkOK'
<1> USE DEF LinkOK
<1> DEFINE x0 == <<at, k>>
           M == Marked(objs, {x0})
           n == Len(objs[at].secs)
<1>1. /\ phase = "gc" /\ phase' = "gc" /\ at <= Len(objs)
      /\ UNCHANGED <<plan, osecs, rsyms, scan>>
      /\ \/ k > n /\ at' = at + 1 /\ k' = 1 /\ objs' = objs
         \/ ~ (k > n) /\ at' = at /\ k' = k + 1
  BY DEF GcSection
<1>2. ~ (k > n) => objs' = IF objs[at].secs[k].live # 1 THEN objs
                           ELSE IF ~objs[at].secs[k].alloc THEN SetLive(objs, {x0}, 0)
                           ELSE IF Kept(at, k) THEN SetLive(objs, M, 2) ELSE objs
  BY DEF GcSection
<1>3. /\ Objs(objs) /\ RefsIn(objs) /\ Marking(objs) /\ RootsPassed
      /\ at \in DOMAIN objs /\ at \in Nat \ {0} /\ k \in Nat \ {0}
      /\ n \in Nat /\ DOMAIN objs[at].secs = 1..n
  <2>1. Objs(objs) /\ RefsIn(objs) /\ Marking(objs) /\ RootsPassed
    BY <1>1, RefsAreIn DEF TablesOK, GcOK
  <2>2. at \in Nat \ {0} /\ k \in Nat \ {0}
    BY DEF LoopsOK
  <2>3. at \in DOMAIN objs
    BY <1>1, <2>1, <2>2, ListFacts DEF Objs
  <2>4. n \in Nat /\ DOMAIN objs[at].secs = 1..n
    BY <2>1, <2>3, ListFacts DEF Objs, IsObj
  <2>5. QED
    BY <2>1, <2>2, <2>3, <2>4
<1> HIDE DEF n, M
<1>4. /\ M \subseteq Open(objs) /\ {x0} \cap Open(objs) \subseteq M /\ Closed(objs, M)
  BY <1>3, MarkedClosed DEF M
<1>5. /\ Objs(objs') /\ Shape(objs, objs') /\ Marking(objs')
      /\ \A x \in Sections(objs) : Live(objs, x) # 1 => Live(objs', x) # 1
      /\ ~ (k > n) /\ Alloc(objs, x0) /\ Kept(at, k) => Live(objs', x0) # 1
  <2>1. CASE k > n \/ objs' = objs
    <3>1. objs' = objs
      BY <1>1, <2>1
    <3>2. ~ (k > n) /\ Alloc(objs, x0) /\ Kept(at, k) => Live(objs, x0) # 1
      <4>1. SUFFICES ASSUME ~ (k > n), Alloc(objs, x0), Kept(at, k), Live(objs, x0) = 1
                     PROVE  FALSE
        OBVIOUS
      <4>2. objs[at].secs[k].live = 1 /\ objs[at].secs[k].alloc
        BY <4>1 DEF Live, Alloc
      <4>3. objs' = SetLive(objs, M, 2)
        BY <1>2, <4>1, <4>2
      <4>4. x0 \in Sections(objs)
        BY <1>3, <4>1, SectionsAre
      <4>5. x0 \in Open(objs)
        BY <4>2, <4>4 DEF Open
      <4>6. x0 \in M
        BY <1>4, <4>5
      <4>7. Live(objs', x0) = 2
        <5>1. \A x \in Sections(objs) : Live(SetLive(objs, M, 2), x) = IF x \in M THEN 2 ELSE Live(objs, x)
          BY <1>3, SetLiveFacts
        <5>2. QED
          BY <4>3, <4>4, <4>6, <5>1
      <4>8. QED
        BY <3>1, <4>1, <4>7
    <3>3. Shape(objs, objs)
      BY DEF Shape
    <3>4. QED
      BY <1>3, <3>1, <3>2, <3>3
  <2>2. CASE ~ (k > n) /\ ~objs[at].secs[k].alloc /\ objs' = SetLive(objs, {x0}, 0)
    <3>1. /\ Objs(objs') /\ Shape(objs, objs')
          /\ \A x \in Sections(objs) : Live(objs', x) = IF x \in {x0} THEN 0 ELSE Live(objs, x)
      BY <1>3, <2>2, SetLiveFacts
    <3>2. ~Alloc(objs, x0)
      BY <2>2 DEF Alloc
    <3>3. Marking(objs')
      <4>1. \A x \in {x0} : ~Alloc(objs, x)
        BY <3>2
      <4>2. QED
        BY <1>3, <2>2, <4>1, MarkingStep
    <3>4. QED
      BY <3>1, <3>2, <3>3
  <2>3. CASE ~ (k > n) /\ objs' = SetLive(objs, M, 2) /\ objs[at].secs[k].live = 1
    <3>1. /\ Objs(objs') /\ Shape(objs, objs')
          /\ \A x \in Sections(objs) : Live(objs', x) = IF x \in M THEN 2 ELSE Live(objs, x)
      BY <1>3, <2>3, SetLiveFacts
    <3>2. Marking(objs')
      BY <1>3, <1>4, <2>3, MarkingStep
    <3>3. x0 \in Sections(objs) /\ x0 \in M
      <4>1. x0 \in Sections(objs)
        BY <1>3, <2>3, SectionsAre
      <4>2. x0 \in Open(objs)
        BY <2>3, <4>1 DEF Open
      <4>3. QED
        BY <1>4, <4>1, <4>2
    <3>4. QED
      BY <3>1, <3>2, <3>3
  <2>4. QED
    BY <1>1, <1>2, <2>1, <2>2, <2>3
<1>6. /\ Sections(objs)' = Sections(objs) /\ RefsIn(objs')
      /\ \A x \in Sections(objs) : /\ Edges(objs, x)' = Edges(objs, x)
                                   /\ Edges(objs', x) = Edges(objs, x)
                                   /\ Kept(x[1], x[2])' <=> Kept(x[1], x[2])
  <2>1. SameSels
    BY <1>1 DEF SameSels
  <2>2. QED
    BY <1>1, <1>3, <1>5, <2>1, CollectorSame, ShapeKeeps
<1>7. TablesOK'
  <2>1. DOMAIN objs' = DOMAIN objs
    BY <1>5 DEF Shape
  <2>2. QED
    BY <1>1, <1>5, <2>1 DEF TablesOK, IsSym
<1>8. LoopsOK' /\ RoundOK' /\ MergeOK'
  <2>1. /\ phase \notin {"merge", "scan"} /\ phase' \notin {"load", "merge", "scan", "script"}
        /\ scan' = scan /\ at' \in Nat \ {0} /\ k' \in Nat \ {0}
    BY <1>1, <1>3
  <2>2. QED
    BY <2>1, Resolved
<1>9. Marking(objs)'
  <2>1. ASSUME NEW x \in Sections(objs)
        PROVE  /\ Live(objs', x) = 2 => \A y \in Edges(objs, x)' : Live(objs', y) # 1
               /\ objs'[x[1]].kind # "lto" /\ Live(objs', x) = 0 => ~Alloc(objs', x)
    <3>1. x \in Sections(objs') /\ Edges(objs, x)' = Edges(objs', x)
      BY <1>6
    <3>2. QED
      BY <1>5, <3>1 DEF Marking
  <2>2. QED
    BY <1>6, <2>1 DEF Marking, Live, Alloc
<1>10. RootsPassed'
  <2>1. ASSUME NEW x \in Sections(objs), x[1] < at' \/ (x[1] = at' /\ x[2] < k'),
               objs[x[1]].kind # "lto", Alloc(objs, x), Kept(x[1], x[2])
        PROVE  Live(objs', x) # 1
    <3>1. /\ x = <<x[1], x[2]>> /\ x[1] \in DOMAIN objs /\ x[2] \in DOMAIN objs[x[1]].secs
          /\ x[1] \in Nat /\ x[2] \in Nat \ {0}
      <4>1. x = <<x[1], x[2]>> /\ x[1] \in DOMAIN objs /\ x[2] \in DOMAIN objs[x[1]].secs
        BY SectionsAre
      <4>2. x[1] \in Nat
        BY <1>3, <4>1, ListFacts DEF Objs
      <4>3. x[2] \in Nat \ {0}
        BY <1>3, <4>1, ListFacts DEF Objs, IsObj
      <4>4. QED
        BY <4>1, <4>2, <4>3
    <3>2. \/ x[1] < at \/ (x[1] = at /\ x[2] < k)
          \/ x[1] = at /\ x[2] = k /\ ~ (k > n)
      <4>1. CASE k > n
        <5>1. x[1] < at + 1 \/ (x[1] = at + 1 /\ x[2] < 1)
          BY <1>1, <1>3, <2>1, <4>1
        <5>2. x[1] < at \/ x[1] = at
          BY <1>3, <3>1, <5>1
        <5>3. x[1] = at => x[2] < k
          BY <1>3, <3>1, <4>1
        <5>4. QED
          BY <5>2, <5>3
      <4>2. CASE ~ (k > n)
        <5>1. x[1] < at \/ (x[1] = at /\ x[2] < k + 1)
          BY <1>1, <1>3, <2>1, <4>2
        <5>2. QED
          BY <1>3, <3>1, <4>2, <5>1
      <4>3. QED
        BY <4>1, <4>2
    <3>3. CASE x[1] < at \/ (x[1] = at /\ x[2] < k)
      <4>1. Live(objs, x) # 1
        BY <1>3, <2>1, <3>3 DEF RootsPassed
      <4>2. QED
        BY <1>5, <4>1
    <3>4. CASE x[1] = at /\ x[2] = k /\ ~ (k > n)
      <4>1. x = x0
        BY <3>1, <3>4
      <4>2. QED
        BY <1>5, <2>1, <3>4, <4>1
    <3>5. QED
      BY <3>2, <3>3, <3>4
  <2>2. ASSUME NEW x \in Sections(objs)
        PROVE  /\ objs'[x[1]].kind = objs[x[1]].kind /\ Alloc(objs', x) = Alloc(objs, x)
               /\ Kept(x[1], x[2])' <=> Kept(x[1], x[2])
    <3>1. x[1] \in DOMAIN objs /\ x[2] \in DOMAIN objs[x[1]].secs
      BY SectionsAre
    <3>2. QED
      BY <1>5, <1>6, <3>1 DEF Shape, Alloc
  <2>3. QED
    BY <1>6, <2>1, <2>2 DEF RootsPassed, Live, Alloc
<1>11. GcOK'
  BY <1>1, <1>9, <1>10 DEF GcOK, GcClosed
<1>12. QED
  BY <1>7, <1>8, <1>11

\* The sweep: what waits dies, and what is marked lives.
InFiles(os, v) == {x \in Sections(os) : os[x[1]].kind # "lto" /\ Live(os, x) = v}

LEMMA SweepFacts ==
  ASSUME NEW os, Objs(os), NEW q, q = SetLive(SetLive(os, InFiles(os, 1), 0), InFiles(os, 2), 1)
  PROVE  /\ Objs(q) /\ Shape(os, q) /\ Sections(q) = Sections(os)
         /\ \A x \in Sections(os) : os[x[1]].kind # "lto" => (Live(q, x) = 1 <=> Live(os, x) = 2)
<1> DEFINE X == InFiles(os, 1)
           Y == InFiles(os, 2)
<1>1. PICK p : p = SetLive(os, X, 0)
  OBVIOUS
<1>2. q = SetLive(p, Y, 1)
  BY <1>1
<1> HIDE DEF X, Y
<1>3. /\ Objs(p) /\ Shape(os, p) /\ Sections(p) = Sections(os)
      /\ \A x \in Sections(os) : Live(p, x) = IF x \in X THEN 0 ELSE Live(os, x)
  BY <1>1, SetLiveFacts
<1>4. /\ Objs(q) /\ Shape(p, q) /\ Sections(q) = Sections(p)
      /\ \A x \in Sections(p) : Live(q, x) = IF x \in Y THEN 1 ELSE Live(p, x)
  BY <1>2, <1>3, SetLiveFacts
<1>5. Shape(os, q)
  BY <1>3, <1>4, ShapeTransitive
<1>6. ASSUME NEW x \in Sections(os), os[x[1]].kind # "lto"
      PROVE  Live(q, x) = 1 <=> Live(os, x) = 2
  <2>1. (x \in X <=> Live(os, x) = 1) /\ (x \in Y <=> Live(os, x) = 2)
    BY <1>6 DEF X, Y, InFiles
  <2>2. QED
    BY <1>3, <1>4, <2>1
<1>7. QED
  BY <1>3, <1>4, <1>5, <1>6

LEMMA LiveType ==
  ASSUME NEW os, Objs(os), NEW x \in Sections(os)
  PROVE  x[1] \in DOMAIN os /\ x[2] \in DOMAIN os[x[1]].secs /\ Live(os, x) \in {0, 1, 2}
<1>1. x[1] \in DOMAIN os /\ x[2] \in DOMAIN os[x[1]].secs
  BY SectionsAre
<1>2. QED
  BY <1>1 DEF Objs, IsObj, IsSec, Live

LEMMA GcEndsStep ==
  ASSUME LinkOK, GcEnds
  PROVE  LinkOK'
<1> USE DEF LinkOK
<1> DEFINE dyn == {n \in Symbol : /\ rsyms[n].referenced /\ rsyms[n].defined
                                  /\ ~rsyms[n].script /\ rsyms[n].obj # 0
                                  /\ objs[rsyms[n].obj].kind = "dso"}
           start == UNION {defining_sec(objs, n) : n \in dyn \cup ({plan.entry} \cap Symbol)}
           M == Marked(objs, start)
<1>1. /\ phase = "gc" /\ phase' = "on_gc" /\ at > Len(objs) /\ at' = 1 /\ k' = 1 /\ plan.gc
      /\ UNCHANGED <<plan, osecs, rsyms, scan>>
  BY DEF GcEnds, Goto
<1>2. PICK os : os = SetLive(objs, M, 2)
  OBVIOUS
<1>3. objs' = SetLive(SetLive(os, InFiles(os, 1), 0), InFiles(os, 2), 1)
  BY <1>2 DEF GcEnds, InFiles, Live
<1>4. plan.entry \in Symbol => defining_sec(objs, plan.entry) \subseteq start
  OBVIOUS
<1>5. Objs(objs) /\ RefsIn(objs) /\ Marking(objs) /\ RootsPassed
  BY <1>1, RefsAreIn DEF TablesOK, GcOK
<1> HIDE DEF start, M
<1>6. /\ M \subseteq Open(objs) /\ start \cap Open(objs) \subseteq M /\ Closed(objs, M)
  BY <1>5, MarkedClosed DEF M
<1>7. /\ Objs(os) /\ Shape(objs, os) /\ Sections(os) = Sections(objs)
      /\ \A x \in Sections(objs) : Live(os, x) = IF x \in M THEN 2 ELSE Live(objs, x)
  BY <1>2, <1>5, SetLiveFacts
<1>8. Marking(os)
  BY <1>2, <1>5, <1>6, MarkingStep
<1>9. /\ Objs(objs') /\ Shape(os, objs')
      /\ \A x \in Sections(os) :
           os[x[1]].kind # "lto" => (Live(objs', x) = 1 <=> Live(os, x) = 2)
  BY <1>3, <1>7, SweepFacts
<1>10. Shape(objs, objs')
  BY <1>7, <1>9, ShapeTransitive
<1>11. /\ Sections(objs)' = Sections(objs)
       /\ \A n : defining_sec(objs, n)' = defining_sec(objs, n)
       /\ \A x \in Sections(objs) : /\ Edges(objs, x)' = Edges(objs, x)
                                    /\ Kept(x[1], x[2])' <=> Kept(x[1], x[2])
  <2>1. SameSels
    BY <1>1 DEF SameSels
  <2>2. QED
    BY <1>1, <1>5, <1>10, <2>1, CollectorSame
<1>12. TablesOK'
  <2>1. DOMAIN objs' = DOMAIN objs
    BY <1>10 DEF Shape
  <2>2. QED
    BY <1>1, <1>9, <2>1 DEF TablesOK, IsSym
<1>13. LoopsOK' /\ RoundOK' /\ MergeOK'
  <2>1. /\ phase \notin {"merge", "scan"} /\ phase' \notin {"load", "merge", "scan", "script"}
        /\ scan' = scan /\ at' \in Nat \ {0} /\ k' \in Nat \ {0}
    BY <1>1
  <2>2. QED
    BY <2>1, Resolved
<1>14. ASSUME NEW x \in Sections(objs)
       PROVE  /\ os[x[1]].kind = objs[x[1]].kind /\ objs'[x[1]].kind = objs[x[1]].kind
              /\ Alloc(os, x) = Alloc(objs, x) /\ Alloc(objs', x) = Alloc(objs, x)
              /\ Edges(os, x) = Edges(objs, x) /\ Edges(objs, x) \subseteq Sections(objs)
  <2>1. x[1] \in DOMAIN objs /\ x[2] \in DOMAIN objs[x[1]].secs
    BY SectionsAre
  <2>2. /\ os[x[1]].kind = objs[x[1]].kind /\ objs'[x[1]].kind = objs[x[1]].kind
        /\ Alloc(os, x) = Alloc(objs, x) /\ Alloc(objs', x) = Alloc(objs, x)
    BY <1>7, <1>10, <2>1 DEF Shape, Alloc
  <2>3. Edges(os, x) = Edges(objs, x) /\ Edges(objs, x) \subseteq Sections(objs)
    BY <1>5, <1>7, ShapeKeeps, EdgesInside
  <2>4. QED
    BY <2>2, <2>3
<1>15. ASSUME NEW x \in Sections(objs), objs[x[1]].kind # "lto", Alloc(objs, x), Live(os, x) # 1
       PROVE  Live(objs', x) = 1
  <2>1. x \in Sections(os) /\ os[x[1]].kind # "lto" /\ Alloc(os, x)
    BY <1>7, <1>14, <1>15
  <2>2. Live(os, x) # 0
    BY <1>8, <2>1 DEF Marking
  <2>3. Live(os, x) \in {0, 1, 2}
    BY <1>7, <2>1, LiveType
  <2>4. Live(os, x) = 2
    BY <1>15, <2>2, <2>3
  <2>5. QED
    BY <1>9, <2>1, <2>4
<1>16. ASSUME NEW x \in Sections(objs), objs[x[1]].kind # "lto", Live(objs', x) = 1,
              NEW y \in Edges(objs, x), Alloc(objs, y), objs[y[1]].kind # "lto"
       PROVE  Live(objs', y) = 1
  <2>1. x \in Sections(os) /\ os[x[1]].kind # "lto" /\ y \in Edges(os, x) /\ y \in Sections(objs)
    BY <1>7, <1>14, <1>16
  <2>2. Live(os, x) = 2
    BY <1>9, <1>16, <2>1
  <2>3. Live(os, y) # 1
    BY <1>8, <2>1, <2>2 DEF Marking
  <2>4. QED
    BY <1>15, <1>16, <2>1, <2>3
<1>17. ASSUME NEW x \in Sections(objs), objs[x[1]].kind # "lto", Alloc(objs, x), Kept(x[1], x[2])
       PROVE  Live(objs', x) = 1
  <2>1. x[1] < at
    <3>1. x[1] \in DOMAIN objs
      BY SectionsAre
    <3>2. Len(objs) \in Nat /\ DOMAIN objs = 1..Len(objs)
      BY <1>5, ListFacts DEF Objs
    <3>3. at \in Nat
      BY DEF LoopsOK
    <3>4. QED
      BY <1>1, <3>1, <3>2, <3>3
  <2>2. Live(objs, x) # 1
    BY <1>5, <1>17, <2>1 DEF RootsPassed
  <2>3. Live(os, x) # 1
    BY <1>7, <2>2
  <2>4. QED
    BY <1>15, <1>17, <2>3
<1>18. ASSUME NEW x \in Sections(objs), objs[x[1]].kind # "lto", Alloc(objs, x),
              plan.entry \in Symbol, x \in defining_sec(objs, plan.entry)
       PROVE  Live(objs', x) = 1
  <2>1. x \in start
    BY <1>4, <1>18
  <2>2. Live(objs, x) = 1 => x \in M
    BY <1>6, <2>1 DEF Open, Live
  <2>3. Live(os, x) # 1
    BY <1>7, <2>2
  <2>4. QED
    BY <1>15, <1>18, <2>3
<1>19. Collected'
  <2>1. defining_sec(objs, plan.entry)' = defining_sec(objs, plan.entry)
    BY <1>1, <1>11 DEF defining_sec
  <2>2. ASSUME NEW x \in Sections(objs)
        PROVE  /\ Live(objs', x) = 1 /\ objs'[x[1]].kind # "lto" =>
                    \A y \in Edges(objs, x)' :
                      Alloc(objs', y) /\ objs'[y[1]].kind # "lto" => Live(objs', y) = 1
               /\ (Alloc(objs', x) /\ objs'[x[1]].kind # "lto"
                   /\ (Kept(x[1], x[2])'
                       \/ (plan'.entry \in Symbol /\ x \in defining_sec(objs, plan.entry)')))
                  => Live(objs', x) = 1
    <3>1. Edges(objs, x)' = Edges(objs, x) /\ (Kept(x[1], x[2])' <=> Kept(x[1], x[2]))
      BY <1>11
    <3>2. ASSUME Live(objs', x) = 1, objs'[x[1]].kind # "lto", NEW y \in Edges(objs, x),
                 Alloc(objs', y), objs'[y[1]].kind # "lto"
          PROVE  Live(objs', y) = 1
      <4>1. y \in Sections(objs)
        BY <1>14, <3>2
      <4>2. QED
        BY <1>14, <1>16, <3>2, <4>1
    <3>3. ASSUME Alloc(objs', x), objs'[x[1]].kind # "lto", Kept(x[1], x[2])
          PROVE  Live(objs', x) = 1
      BY <1>14, <1>17, <3>3
    <3>4. ASSUME Alloc(objs', x), objs'[x[1]].kind # "lto",
                 plan.entry \in Symbol, x \in defining_sec(objs, plan.entry)
          PROVE  Live(objs', x) = 1
      BY <1>14, <1>18, <3>4
    <3>5. QED
      BY <1>1, <2>1, <3>1, <3>2, <3>3, <3>4
  <2>3. QED
    BY <1>11, <2>2 DEF Collected, Live, Alloc
<1>20. GcOK'
  <2>1. GcClosed'
    BY <1>19 DEF GcClosed, Collected, Live, Alloc
  <2>2. QED
    BY <1>1, <2>1 DEF GcOK
<1>21. QED
  BY <1>12, <1>13, <1>20

(***************************************************************************)
(* The invariant is inductive, and what follows from it.                   *)
(***************************************************************************)
LEMMA StutterStep ==
  ASSUME LinkOK, UNCHANGED vars
  PROVE  LinkOK'
<1> USE DEF LinkOK
<1>1. UNCHANGED <<plan, osecs, objs, rsyms, phase, at, k, scan>>
  BY DEF vars
<1>2. TablesOK'
  BY <1>1 DEF TablesOK
<1>3. LoopsOK' /\ RoundOK'
  BY <1>1 DEF LoopsOK, RoundOK, Wanted
<1>4. MergeOK'
  <2>1. ASSUME NEW n \in Symbol PROVE Seen(n)' = Seen(n) /\ Strong(n)' = Strong(n)
    BY <1>1, SameDefinitions DEF SameSyms, Seen
  <2>2. QED
    BY <1>1, <2>1 DEF MergeOK
<1>5. GcOK'
  <2>1. Shape(objs, objs') /\ SameSels /\ RefsIn(objs)
    BY <1>1, RefsAreIn DEF Shape, SameSels
  <2>2. /\ Sections(objs)' = Sections(objs)
        /\ \A x \in Sections(objs) : /\ Edges(objs, x)' = Edges(objs, x)
                                     /\ Kept(x[1], x[2])' <=> Kept(x[1], x[2])
    BY <1>1, <2>1, CollectorSame
  <2>3. Fresh(objs)' <=> Fresh(objs)
    BY <1>1, <2>2 DEF Fresh, Live
  <2>4. Marking(objs)' <=> Marking(objs)
    BY <1>1, <2>2 DEF Marking, Live, Alloc
  <2>5. RootsPassed' <=> RootsPassed
    BY <1>1, <2>2 DEF RootsPassed, Live, Alloc
  <2>6. GcClosed'
    <3>1. Collected => Collected'
      BY <1>1, <2>1, CollectedStays
    <3>2. plan.gc /\ phase \in {"on_gc", "layout"} => Collected'
      BY <3>1, GcClosedIs DEF GcOK
    <3>3. QED
      BY <1>1, <3>2 DEF GcClosed, Collected, Live, Alloc
  <2>7. QED
    BY <1>1, <2>3, <2>4, <2>5, <2>6 DEF GcOK
<1>6. QED
  BY <1>2, <1>3, <1>4, <1>5

\* Layout and what follows it: no way leads back.
LEMMA LaterPhases ==
  ASSUME [Next]_vars, phase \notin Early
  PROVE  phase' \notin Early
<1>1. CASE Load
  BY <1>1 DEF Load, LoadInput, LoadFails, LoadEnds, Early
<1>2. CASE Resolve
  BY <1>2 DEF Resolve, MergeSym, MergeFails, MergeEnds, ScanStarts, ScanPasses, ExtractMember,
              ExtractFails, RoundEnds, ScanEnds, ApplySymbol, ApplyFails, ResolveEnds,
              ResolveFails, Early
<1>3. CASE Dispatch
  BY <1>3 DEF Dispatch, RunOp, OpIgnored, OpFails, DispatchEnds, Fail, Goto, After, Early
<1>4. CASE Lto \/ Gc
  BY <1>4 DEF Lto, Gc, LtoSkips, LtoFails, LtoRuns, GcSkips, GcSection, GcEnds, Early
<1>5. CASE Layout
  <2>1. CASE LayoutStarts
    BY <2>1 DEF LayoutStarts, Early
  <2>2. CASE StartSection \/ StartFails
    BY <2>2 DEF StartSection, StartFails, Fail, Early
  <2>3. CASE PlaceOne \/ EndSection \/ EndFails
    BY <2>3 DEF PlaceOne, EndSection, EndFails, Fail, Early
  <2>4. CASE SectionsEnd \/ SkipStmt \/ RunStmt \/ StmtFails \/ StmtsEnd
    BY <2>4 DEF SectionsEnd, SkipStmt, RunStmt, StmtFails, StmtsEnd, Fail, Early
  <2>5. CASE LayoutEnds \/ LayoutFails
    BY <2>5 DEF LayoutEnds, LayoutFails, Fail, Goto, Early
  <2>6. QED
    BY <1>5, <2>1, <2>2, <2>3, <2>4, <2>5 DEF Layout
<1>6. CASE Relocate
  BY <1>6 DEF Relocate, RelocStep, RelocFails, RelocateEnds, Fail, Goto, Early
<1>7. CASE Emit \/ EmitRefuses
  BY <1>7 DEF Emit, EmitRefuses, Fail, Early
<1>8. CASE UNCHANGED vars
  BY <1>8 DEF vars
<1>9. QED
  BY <1>1, <1>2, <1>3, <1>4, <1>5, <1>6, <1>7, <1>8 DEF Next

LEMMA InvStep == LinkInv /\ [Next]_vars => LinkInv'
<1> SUFFICES ASSUME LinkInv, [Next]_vars, phase' \in Early PROVE LinkOK'
  BY DEF LinkInv
<1>1. phase \in Early
  BY LaterPhases
<1>2. LinkOK
  BY <1>1 DEF LinkInv
<1>3. \A class : ~Fail(class)
  BY DEF Fail, Early
<1>4. CASE Load
  <2>1. ~LoadFails
    BY <1>3 DEF LoadFails
  <2>2. QED
    BY <1>2, <1>4, <2>1, LoadInputStep, LoadEndsStep DEF Load
<1>5. CASE Resolve
  <2>1. ~MergeFails /\ ~ExtractFails /\ ~ApplyFails /\ ~ResolveFails
    BY <1>3 DEF MergeFails, ExtractFails, ApplyFails, ResolveFails
  <2>2. \/ MergeSym \/ MergeEnds \/ ScanStarts \/ ScanPasses
        \/ ExtractMember \/ RoundEnds \/ ScanEnds \/ ApplySymbol \/ ResolveEnds
    BY <1>5, <2>1 DEF Resolve
  <2>3. CASE MergeSym \/ MergeEnds \/ ScanStarts \/ ScanPasses \/ ExtractMember
    BY <1>2, <2>3, MergeSymStep, MergeEndsStep, ScanStartsStep, ScanPassesStep, ExtractMemberStep
  <2>4. CASE RoundEnds \/ ScanEnds \/ ApplySymbol \/ ResolveEnds
    BY <1>2, <2>4, RoundEndsStep, ScanEndsStep, ApplySymbolStep, ResolveEndsStep
  <2>5. QED
    BY <2>2, <2>3, <2>4
<1>6. CASE Dispatch
  <2>1. ~OpFails
    BY <1>3 DEF OpFails
  <2>2. QED
    BY <1>1, <1>2, <1>6, <2>1, RunOpStep, OpIgnoredStep, DispatchEndsStep DEF Dispatch
<1>7. CASE Lto
  <2>1. ~LtoFails
    BY <1>3 DEF LtoFails
  <2>2. QED
    BY <1>2, <1>7, <2>1, LtoSkipsStep, LtoRunsStep DEF Lto
<1>8. CASE Gc
  BY <1>2, <1>8, GcSkipsStep, GcSectionStep, GcEndsStep DEF Gc
<1>9. CASE Layout
  <2>1. CASE LayoutStarts
    BY <2>1 DEF LayoutStarts, Goto, Early
  <2>2. CASE ~LayoutStarts
    <3>1. phase \in {"section", "place", "stmt"}
      BY <1>9, <2>2 DEF Layout, StartSection, StartFails, PlaceOne, EndSection, EndFails,
           SectionsEnd, SkipStmt, RunStmt, StmtFails, StmtsEnd, LayoutEnds, LayoutFails
    <3>2. QED
      BY <1>1, <3>1 DEF Early
  <2>3. QED
    BY <2>1, <2>2
<1>10. CASE Relocate \/ Emit \/ EmitRefuses
  <2>1. phase \in {"relocate", "emit"}
    BY <1>10 DEF Relocate, RelocStep, RelocFails, RelocateEnds, Emit, EmitRefuses
  <2>2. QED
    BY <1>1, <2>1 DEF Early
<1>11. CASE UNCHANGED vars
  BY <1>2, <1>11, StutterStep
<1>12. QED
  BY <1>4, <1>5, <1>6, <1>7, <1>8, <1>9, <1>10, <1>11 DEF Next

LEMMA InvHolds == Spec => []LinkInv
<1>1. Init => LinkInv
  BY InvInit
<1>2. LinkInv /\ [Next]_vars => LinkInv'
  BY InvStep
<1>3. QED
  BY <1>1, <1>2, PTL DEF Spec

\* Collection (phases/ccwld_gc.c): at the end of gc, behind it while its hooks run, and when
\* layout begins, no section that stays refers to an allocated section that went, and what a
\* selector keeps or the entry names has stayed; for any objects, selectors, hooks and LTO.
THEOREM CollectionClosed == Spec => []GcClosed
<1>1. LinkInv => GcClosed
  <2>1. CASE phase \in Early
    BY <2>1 DEF LinkInv, LinkOK, GcOK
  <2>2. CASE phase \notin Early
    BY <2>2 DEF GcClosed, Early
  <2>3. QED
    BY <2>1, <2>2
<1>2. QED
  BY <1>1, InvHolds, PTL

\* The first of some definitions is no other.
LEMMA FirstIs ==
  ASSUME NEW D, NEW d \in D, \A e \in D : Before(d, e),
         \A e \in D : e = <<e[1], e[2]>> /\ e[1] \in Nat /\ e[2] \in Nat
  PROVE  First(D) = d
<1> DEFINE P(x) == \A e \in D : x[1] < e[1] \/ (x[1] = e[1] /\ x[2] <= e[2])
           f == CHOOSE x \in D : P(x)
<1>1. P(d)
  BY DEF Before
<1>2. f \in D /\ P(f)
  BY <1>1
<1>3. First(D) = f
  BY DEF First
<1> HIDE DEF f
<1>4. /\ f = <<f[1], f[2]>> /\ f[1] \in Nat /\ f[2] \in Nat
      /\ d = <<d[1], d[2]>> /\ d[1] \in Nat /\ d[2] \in Nat
  BY <1>2
<1>5. /\ f[1] < d[1] \/ (f[1] = d[1] /\ f[2] <= d[2])
      /\ d[1] < f[1] \/ (d[1] = f[1] /\ d[2] <= f[2])
  BY <1>1, <1>2
<1>6. f[1] = d[1] /\ f[2] = d[2]
  BY <1>4, <1>5
<1>7. f = d
  BY <1>4, <1>6
<1>8. QED
  BY <1>3, <1>7

\* merge_object and its link order (phases/ccwld_resolve.c): whenever archives are scanned,
\* and when they are done, a name belongs to its only strong definition in an object, without
\* one to the first definition of all, and without any to nobody; for any inputs, in which
\* order the archives may give their members.
THEOREM MergesRight == Spec => []MergeRule
<1>1. ASSUME LinkInv PROVE MergeRule
  <2> SUFFICES ASSUME phase \in {"scan", "script"}, NEW n \in Symbol, ~rsyms[n].script
               PROVE  IF Strong(n) # {}
                      THEN rsyms[n].defined /\ Strong(n) = {<<rsyms[n].obj, rsyms[n].isym>>}
                      ELSE IF Definitions(n) # {}
                      THEN /\ rsyms[n].defined
                           /\ First(Definitions(n)) = <<rsyms[n].obj, rsyms[n].isym>>
                      ELSE ~rsyms[n].defined
    BY DEF MergeRule
  <2> DEFINE D == Definitions(n)
             S == Strong(n)
             d == <<rsyms[n].obj, rsyms[n].isym>>
  <2>1. LinkOK
    BY <1>1 DEF LinkInv, Early
  <2>2. Seen(n) = D
    BY DEF Seen
  <2>3. IsWinner(rsyms[n], D, S)
    BY <2>1, <2>2 DEF LinkOK, MergeOK
  <2>4. D \cap S = S
    BY DEF Strong
  <2>5. \A e \in D : e = <<e[1], e[2]>> /\ e[1] \in Nat /\ e[2] \in Nat
    <3>1. \A e \in D : Defines(objs, e, n)
      BY DefinitionsAre
    <3> HIDE DEF D
    <3>2. Objs(objs)
      BY <2>1 DEF LinkOK, TablesOK
    <3>3. ASSUME NEW e \in D PROVE e = <<e[1], e[2]>> /\ e[1] \in Nat /\ e[2] \in Nat
      <4>1. e = <<e[1], e[2]>> /\ e[1] \in 1..Len(objs) /\ e[2] \in Nat \ {0} /\ Len(objs) \in Nat
        BY <3>1, <3>2, DefinesIndex
      <4>2. QED
        BY <4>1
    <3>4. QED
      BY <3>3
  <2> HIDE DEF D, S
  <2>6. CASE S # {}
    <3>1. D # {}
      BY <2>4, <2>6
    <3>2. rsyms[n].defined /\ S = {d}
      BY <2>3, <2>4, <2>6, <3>1 DEF IsWinner
    <3>3. QED
      BY <2>6, <3>2 DEF S
  <2>7. CASE S = {} /\ D # {}
    <3>1. rsyms[n].defined /\ d \in D /\ \A e \in D : Before(d, e)
      BY <2>3, <2>7 DEF IsWinner
    <3>2. First(D) = d
      BY <2>5, <3>1, FirstIs
    <3>3. QED
      BY <2>7, <3>1, <3>2 DEF S, D
  <2>8. CASE S = {} /\ D = {}
    <3>1. ~rsyms[n].defined
      BY <2>3, <2>8 DEF IsWinner
    <3>2. QED
      BY <2>8, <3>1 DEF S, D
  <2>9. QED
    BY <2>6, <2>7, <2>8
<1>2. QED
  BY <1>1, InvHolds, PTL

\* archive_scan_once (phases/ccwld_resolve.c): an archive is left only when no member of it
\* defines a name that is referenced and undefined, unless the rounds ran out.
THEOREM ArchivesExhausted == Spec => ScanFixpoint
<1> DEFINE Leaves == /\ phase = "scan" /\ phase' = "scan" /\ scan.ar <= Len(objs)
                     /\ scan'.ar > scan.ar /\ scan.round < ScanRounds
           Nothing == \A i \in DOMAIN objs[scan.ar].index : ~Wanted(scan.ar, i)
<1>1. ASSUME LinkInv, [Next]_vars, Leaves PROVE Nothing
  <2>1. LinkOK
    BY <1>1 DEF LinkInv, Early
  <2>2. scan.ar \in Nat \ {0} /\ scan.i \in Nat \ {0} /\ scan.n \in Nat
    BY <1>1, <2>1 DEF LinkOK, LoopsOK
  <2>3. RoundEnds
    <3>1. ~ UNCHANGED vars
      BY <1>1, <2>2 DEF vars
    <3>2. Resolve
      <4>1. ~ (Load \/ Lto \/ Gc)
        BY <1>1 DEF Load, LoadInput, LoadFails, LoadEnds, Lto, LtoSkips, LtoFails, LtoRuns,
                    Gc, GcSkips, GcSection, GcEnds
      <4>2. ~Dispatch
        BY <1>1 DEF Dispatch, RunOp, OpIgnored, OpFails, DispatchEnds, After
      <4>3. ~Layout
        BY <1>1 DEF Layout, LayoutStarts, StartSection, StartFails, PlaceOne, EndSection, EndFails,
             SectionsEnd, SkipStmt, RunStmt, StmtFails, StmtsEnd, LayoutEnds, LayoutFails
      <4>4. ~ (Relocate \/ Emit \/ EmitRefuses)
        BY <1>1 DEF Relocate, RelocStep, RelocFails, RelocateEnds, Emit, EmitRefuses
      <4>5. QED
        BY <1>1, <3>1, <4>1, <4>2, <4>3, <4>4 DEF Next
    <3>3. ~ (MergeSym \/ MergeFails \/ MergeEnds \/ ScanStarts)
      BY <1>1 DEF MergeSym, MergeFails, MergeEnds, ScanStarts
    <3>4. ~ (ExtractMember \/ ExtractFails \/ ScanEnds)
      BY <1>1 DEF ExtractMember, ExtractFails, ScanEnds, Fail, Goto
    <3>5. ~ (ApplySymbol \/ ApplyFails \/ ResolveEnds \/ ResolveFails)
      BY <1>1 DEF ApplySymbol, ApplyFails, ResolveEnds, ResolveFails
    <3>6. ~ScanPasses
      <4>1. ASSUME scan' = [scan EXCEPT !.i = @ + 1] PROVE scan'.ar = scan.ar
        BY <2>1, <4>1 DEF LinkOK, LoopsOK
      <4>2. QED
        BY <1>1, <2>2, <4>1 DEF ScanPasses
    <3>7. QED
      BY <3>2, <3>3, <3>4, <3>5, <3>6 DEF Resolve
  <2>4. ScanDone
    <3>1. ASSUME ~ScanDone PROVE scan'.ar = scan.ar
      <4>1. scan' = [scan EXCEPT !.i = 1, !.n = 0, !.round = @ + 1]
        BY <2>3, <3>1 DEF RoundEnds
      <4>2. scan = [ar |-> scan.ar, i |-> scan.i, n |-> scan.n, round |-> scan.round]
        BY <2>1 DEF LinkOK, LoopsOK
      <4>3. QED
        BY <4>1, <4>2
    <3>2. QED
      BY <1>1, <2>2, <3>1
  <2>5. objs[scan.ar].kind # "archive" \/ scan.n = 0
    <3>1. scan.round # ScanRounds
      BY <1>1, LinkAssumption
    <3>2. QED
      BY <2>4, <3>1 DEF ScanDone
  <2>6. Objs(objs) /\ scan.ar \in DOMAIN objs /\ IsObj(objs[scan.ar])
    <3>1. Objs(objs)
      BY <2>1 DEF LinkOK, TablesOK
    <3>2. scan.ar \in DOMAIN objs
      BY <1>1, <2>2, <3>1, ListFacts DEF Objs
    <3>3. QED
      BY <3>1, <3>2 DEF Objs
  <2>7. CASE objs[scan.ar].kind # "archive"
    <3>1. objs[scan.ar].index = <<>>
      BY <2>6, <2>7 DEF IsObj
    <3>2. QED
      BY <3>1, EmptyList
  <2>8. CASE objs[scan.ar].kind = "archive" /\ scan.n = 0
    <3>1. scan.i > Len(objs[scan.ar].index)
      BY <2>3, <2>8 DEF RoundEnds
    <3>2. \A i \in DOMAIN objs[scan.ar].index : i < scan.i
      BY <2>2, <2>6, <3>1, ListFacts DEF IsObj
    <3>3. QED
      BY <1>1, <2>1, <2>6, <2>8, <3>2 DEF LinkOK, RoundOK
  <2>9. QED
    BY <2>5, <2>7, <2>8
<1>2. LinkInv /\ [Next]_vars => [Leaves => Nothing]_vars
  BY <1>1
<1>3. QED
  BY <1>2, InvHolds, PTL DEF Spec, ScanFixpoint
=============================================================================
