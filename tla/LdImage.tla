------------------------------- MODULE LdImage -------------------------------
(***************************************************************************)
(* The ELF image of a link (toolchain/ccwld/emit/ccwld_emit_elf.c): which  *)
(* output sections are written, where they are in the file, and the        *)
(* headers and symbols that lead there.  Names take two bytes in a string  *)
(* table.  Offsets count from 0, indexes of sections from 1.               *)
(***************************************************************************)
EXTENDS LdExpr, SequencesExt

Ehsize    == 64
Phentsize == 56
Shentsize == 64
Symsize   == 24
NoteMax   == 2048

Up(n, a) == ((n + a - 1) \div a) * a

Emitted(o) == o.size > 0 \/ o.load

(* sec_of_emit: the output sections that are written, in the plan's order.  *)
sec_of_emit(secs) == SelectSeq([i \in DOMAIN secs |-> i], LAMBDA i : Emitted(secs[i]))

\* Mutant: the number of a section counts those that are not written.
PlanEmitIdx(secs, i) == IF Emitted(secs[i]) THEN i ELSE 0

(* sec_emit_idx: the number of a section among those, 0 for -1.             *)
sec_emit_idx(secs, i) ==
  IF Emitted(secs[i]) THEN Cardinality({j \in 1 .. i : Emitted(secs[j])}) ELSE 0

(* A note that does not fit its buffer is cut.                              *)
notetotal(len) == 16 + Up(IF len >= NoteMax THEN NoteMax - 1 ELSE len, 4)

strtab_len(n) == 1 + 2 * n

symtab_len(nsym) == (nsym + 1) * Symsize

(* Where every part of the file begins.  A section without file space has   *)
(* an offset all the same.                                                  *)
FileLayout(secs, phnum, note, nsym) ==
  LET outs   == sec_of_emit(secs)
      space(i) == IF secs[outs[i]].load THEN secs[outs[i]].size ELSE 0
      off[i \in 0 .. Len(outs)] ==
        IF i = 0 THEN Up(Ehsize + phnum * Phentsize, 16)
        ELSE Up(IF i = 1 THEN off[0] ELSE off[i - 1] + space(i - 1), 16)
      end      == IF outs = <<>> THEN off[0] ELSE off[Len(outs)] + space(Len(outs))
      note_off == Up(end, 4)
      symtab   == Up(note_off + note, 8)
      strtab   == symtab + symtab_len(nsym)
      shstrtab == strtab + strtab_len(nsym)
      shoff    == Up(shstrtab + strtab_len(Len(outs) + 4), 8)
  IN [sec |-> [i \in DOMAIN outs |-> off[i]], note |-> note_off, symtab |-> symtab,
      strtab |-> strtab, shstrtab |-> shstrtab, shoff |-> shoff,
      total |-> shoff + (1 + Len(outs) + 4) * Shentsize]

phdr_type(t) == IF t \in {"DYNAMIC", "INTERP", "NOTE", "PHDR"} THEN t ELSE "LOAD"

largest_congruent_alignment(offset, vaddr, requested) ==
  LET pows == {2 ^ n : n \in 0 .. Bits}
      top  == IF requested \in pows THEN requested ELSE 1
  IN Max({a \in pows : a <= top /\ (offset % a) = (vaddr % a)})

(* The i-th program header.  Without any in the plan there is one for all   *)
(* that is written.  The first one, if it is loaded, begins with the file.  *)
Segment(secs, sec_off, phdrs, i) ==
  LET given == phdrs # <<>>
      mine  == {s \in DOMAIN secs : /\ Emitted(secs[s])
                                    /\ given => secs[s].phdr # "" /\ secs[s].phdr = phdrs[i].name}
      end(s)  == (secs[s].vma + secs[s].size) % W
      minv    == Min({secs[s].vma : s \in mine})
      first   == Min({s \in mine : secs[s].vma = minv})
      f_off   == sec_off[sec_emit_idx(secs, first)]
      type    == phdr_type(IF given THEN phdrs[i].type ELSE "LOAD")
      lead    == i = 1 /\ type = "LOAD"
      vaddr   == IF lead THEN (W + minv - f_off) % W ELSE minv
      offset  == IF lead THEN 0 ELSE f_off
      upto(S) == LET m == Max({end(s) : s \in S} \cup {0}) IN IF m > vaddr THEN m - vaddr ELSE 0
      align   == IF given THEN phdrs[i].align ELSE 4096
  IN IF mine = {}
     THEN [type |-> type, offset |-> 0, vaddr |-> 0, filesz |-> 0, memsz |-> 0,
           align |-> largest_congruent_alignment(0, 0, align)]
     ELSE [type |-> type, offset |-> offset, vaddr |-> vaddr,
           filesz |-> upto({s \in mine : secs[s].load}), memsz |-> upto(mine),
           align |-> largest_congruent_alignment(offset, vaddr, align)]

(* Section headers of the output sections: address, offset and size.        *)
Shdrs(secs, sec_off) ==
  LET outs == sec_of_emit(secs)
  IN [i \in DOMAIN outs |->
        [name |-> secs[outs[i]].name, addr |-> secs[outs[i]].vma, size |-> secs[outs[i]].size,
         nobits |-> ~secs[outs[i]].load, offset |-> sec_off[i]]]

(* The section index of a symbol: -1 for ABS, 0 for UNDEF.  is is the input *)
(* section of its definition, as a set of at most one.                      *)
st_shndx(secs, r, is) ==
  LET o == {s.out_sec : s \in {t \in is : t.out_sec # 0}}
  IN CASE ~r.defined -> 0
       [] r.script \/ r.obj = 0 \/ r.isym = 0 \/ o = {} -> -1
       [] OTHER -> LET s == CHOOSE s \in o : TRUE
                   IN IF secs[s].size = 0 \/ ~Emitted(secs[s]) THEN -1
                      ELSE sec_emit_idx(secs, s)

(* The byte at position b of output section o: the input section that was   *)
(* copied there last, and how far into it; <<>> is the fill.  placed are    *)
(* the input sections with data that layout put there, in link order, as    *)
(* [id, off, size].                                                         *)
Byte(size, placed, b) ==
  LET on == {i \in DOMAIN placed : /\ placed[i].off + placed[i].size <= size
                                   /\ b \in placed[i].off .. placed[i].off + placed[i].size - 1}
  IN IF on = {} THEN <<>> ELSE <<placed[Max(on)].id, b - placed[Max(on)].off>>

(* External: the file offset that a program loader puts at an address.      *)
MappedFrom(segs, a) ==
  {segs[i].offset + ((W + a - segs[i].vaddr) % W) :
     i \in {j \in DOMAIN segs : /\ segs[j].type = "LOAD"
                                /\ (W + a - segs[j].vaddr) % W < segs[j].filesz}}
=============================================================================
