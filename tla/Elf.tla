--------------------------------- MODULE Elf ---------------------------------
(***************************************************************************)
(* arch/i386/elf.c: the loader of relocatable modules that kernel_main     *)
(* runs on every boot module that is not the initrd.                       *)
(*                                                                         *)
(* A file is [header, sections, symbols, entry]; its image lies at address *)
(* Image, a section's contents at Image + sh_offset.  `mem` holds the      *)
(* words the relocations refer to, `next` the address kmalloc returns.     *)
(* Section and symbol numbers are the file's, from 0.                      *)
(***************************************************************************)
EXTENDS Integers, Sequences, SequencesExt

CONSTANTS Image,          \* where kernel_main copied the file
          SYM_INDICES     \* values of the uint8_t symbol index (256)

ELF_RELOC_ERR == -1
UNDEF == 0                \* SHN_UNDEF
ABS == 1                  \* SHN_ABS, which elf.h makes the number of a real section
NULLPTR == -3

GoodHeader == [mag |-> "ELF", class |-> 32, data |-> "LSB", machine |-> 386,
               version |-> 1, type |-> "REL"]

-----------------------------------------------------------------------------
elf_check_file(header) == header.mag = "ELF"

elf_check_supported(header) ==
  /\ elf_check_file(header)
  /\ header.class = 32
  /\ header.data = "LSB"
  /\ header.machine = 386
  /\ header.version = 1
  /\ header.type \in {"REL", "EXEC"}

elf_section(f, idx) == f.sections[idx + 1]

(* elf_lookup_symbol knows no name.                                        *)
elf_lookup_symbol == NULLPTR

(* The index is a uint8_t: the higher bits of r_info's symbol are lost.    *)
elf_get_symval(f, table, sym) ==
  LET idx == sym % SYM_INDICES
      symbol == f.symbols[idx + 1]
  IN  IF table = UNDEF \/ idx = UNDEF THEN 0
      ELSE IF idx >= Len(f.symbols) THEN ELF_RELOC_ERR
      ELSE IF symbol.shndx = UNDEF
           THEN IF elf_lookup_symbol # NULLPTR THEN elf_lookup_symbol
                ELSE IF symbol.weak THEN 0 ELSE ELF_RELOC_ERR
      ELSE IF symbol.shndx = ABS THEN symbol.value
      ELSE Image + symbol.value + elf_section(f, symbol.shndx).offset

(* Sections that are not in the file, are not empty and are to be in       *)
(* memory get a zeroed block, found through their offset from then on.     *)
Allocated(s) == s.type = "NOBITS" /\ s.size # 0 /\ s.alloc

elf_load_stage1(l) ==
  FoldLeft(LAMBDA m, i :
             IF ~Allocated(m.file.sections[i]) THEN m
             ELSE [m EXCEPT !.file.sections[i].offset = m.next - Image,
                            !.next = m.next + m.file.sections[i].size,
                            !.mem = [a \in DOMAIN m.mem |->
                                       IF a \in m.next .. m.next + m.file.sections[i].size - 1
                                       THEN 0 ELSE m.mem[a]]],
           l, [i \in 1 .. Len(l.file.sections) |-> i])

(* One relocation; an error leaves the words as they are.                  *)
elf_do_reloc(l, rel, reltab) ==
  LET ref == Image + elf_section(l.file, reltab.info).offset + rel.offset
      symval == IF rel.sym # UNDEF THEN elf_get_symval(l.file, reltab.link, rel.sym) ELSE 0
  IN  IF symval = ELF_RELOC_ERR \/ rel.kind \notin {"NONE", "32", "PC32"}
      THEN [l EXCEPT !.result = ELF_RELOC_ERR]
      ELSE [l EXCEPT !.mem[ref] =
              CASE rel.kind = "NONE" -> @
                [] rel.kind = "32" -> symval + @
                [] rel.kind = "PC32" -> symval + @ - ref]

(* The relocation sections in order, each entry in order, to the first     *)
(* error: what is relocated by then stays.                                 *)
elf_load_stage2(l) ==
  FoldLeft(LAMBDA m, s :
             IF s.type # "REL" THEN m
             ELSE FoldLeft(LAMBDA n, rel :
                             IF n.result = ELF_RELOC_ERR THEN n ELSE elf_do_reloc(n, rel, s),
                           m, s.rels),
           l, l.file.sections)

Entry(l) == [l EXCEPT !.result = IF @ = ELF_RELOC_ERR THEN NULLPTR ELSE l.file.entry]

(* Mutant: the relocations are done before the blocks are there.           *)
elf_load_relLate(l) == Entry(elf_load_stage1(elf_load_stage2(l)))

elf_load_rel(l) == Entry(elf_load_stage2(elf_load_stage1(l)))

(* An executable is recognised and not loaded.                             *)
elf_load_file(file, mem, next) ==
  LET l == [file |-> file, mem |-> mem, next |-> next, result |-> 0]
  IN  IF elf_check_supported(file.header) /\ file.header.type = "REL"
      THEN elf_load_rel(l)
      ELSE [l EXCEPT !.result = NULLPTR]

-----------------------------------------------------------------------------
(* What the loader does with a symbol: its address is where its section's  *)
(* bytes are in the end, unless the section is number 1 (the first real    *)
(* one of a file, its text as a rule), whose symbols keep their bare value.*)
SectionAddress(file, l, idx) ==
  IF Allocated(elf_section(file, idx))
  THEN Image + elf_section(l.file, idx).offset
  ELSE Image + elf_section(file, idx).offset

Resolved(file, l, sym) ==
  LET symbol == file.symbols[sym + 1]
  IN  IF sym = UNDEF \/ symbol.shndx = UNDEF THEN 0
      ELSE IF symbol.shndx = ABS THEN symbol.value
      ELSE SectionAddress(file, l, symbol.shndx) + symbol.value

(* A relocation that must fail: its symbol is out of range or is strong    *)
(* and undefined, or its kind is unknown.                                  *)
Unresolvable(file, rel) ==
  \/ rel.kind \notin {"NONE", "32", "PC32"}
  \/ /\ rel.sym # UNDEF
     /\ \/ rel.sym >= Len(file.symbols)
        \/ file.symbols[rel.sym + 1].shndx = UNDEF /\ ~file.symbols[rel.sym + 1].weak

Rels(file) == {<<i, j>> \in (1 .. Len(file.sections)) \X (1 .. 3) :
                 file.sections[i].type = "REL" /\ j <= Len(file.sections[i].rels)}

(* Every word a relocation names holds addend + symbol (less its own       *)
(* address), with symbols of sections that are not in the file resolved    *)
(* into the memory allocated for them; a module with a relocation that     *)
(* cannot be resolved is refused.  The number of a symbol fits the uint8_t *)
(* it is cut to: symbol 256 would be taken for none, 257 for 1.            *)
Loaded(file, mem, l) ==
  LET rel(p) == file.sections[p[1]].rels[p[2]]
      ref(p) == SectionAddress(file, l, file.sections[p[1]].info) + rel(p).offset
      addend(p) == IF Allocated(elf_section(file, file.sections[p[1]].info)) THEN 0 ELSE mem[ref(p)]
  IN  (\A p \in Rels(file) : rel(p).sym < SYM_INDICES) =>
        /\ l.result = NULLPTR <=> \/ file.header # GoodHeader
                                  \/ \E p \in Rels(file) : Unresolvable(file, rel(p))
        /\ l.result # NULLPTR =>
             \A p \in Rels(file) :
               l.mem[ref(p)] = addend(p) +
                 (CASE rel(p).kind = "NONE" -> 0
                    [] rel(p).kind = "32" -> Resolved(file, l, rel(p).sym)
                    [] rel(p).kind = "PC32" -> Resolved(file, l, rel(p).sym) - ref(p))
=============================================================================
