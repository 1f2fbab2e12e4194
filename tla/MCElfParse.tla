----------------------------- MODULE MCElfParse -----------------------------
(***************************************************************************)
(* Small images for ElfParse.  Structure sizes are the real ones; the      *)
(* widths are scaled down (a half has 128 values, a word 2^14, an xword    *)
(* 2^28) so that products overflow and offsets wrap on images of a few     *)
(* hundred bytes.                                                          *)
(***************************************************************************)
EXTENDS ElfParse, TLC

MCHalfMod == 128
MCWordMod == 16384
MCXwordMod == 268435456

(* One section of the type and with the link given; a symbol table holds   *)
(* two entries from offset 480, a string table starts at 470.              *)
SectionEntry(class, type, link, size, entsize) ==
  [sh_type |-> type, sh_link |-> link, sh_entsize |-> entsize,
   sh_offset |-> IF type = SHT_SYMTAB THEN 480 ELSE 470,
   sh_size |-> size]

SymEntry(name, shndx) == [st_name |-> name, st_value |-> name + shndx, st_shndx |-> shndx]

(* A well-formed image: 2 program headers from 64, three sections from     *)
(* 200: null, symbol table and string table, two symbols.                  *)
Image(class) ==
  LET phent == IF class = ELFCLASS32 THEN 32 ELSE 56
      shent == IF class = ELFCLASS32 THEN 40 ELSE 64
      syment == SizeofSym(class)
  IN [length |-> 600, magic |-> TRUE, class |-> class, data |-> ELFDATA2LSB,
      version |-> 1,
      phoff |-> 64, shoff |-> 200, phentsize |-> phent, phnum |-> 2,
      shentsize |-> shent, shnum |-> 3, shstrndx |-> 2,
      phdr |-> (64 :> 64) @@ (64 + phent :> 300),
      shdr |-> (200 + shent :> SectionEntry(class, SHT_SYMTAB, 2, 2 * syment, syment))
               @@ (200 + 2 * shent :> SectionEntry(class, SHT_STRTAB, 0, 8, 0)),
      sym |-> (480 :> SymEntry(1, 1)) @@ (480 + syment :> SymEntry(4, 0)),
      lastNul |-> 599]

Images == {Image(class) : class \in Class}

(* The section table of an image, from the types and links of its sections.*)
WithSections(f, types, links, size, entsize) ==
  [f EXCEPT
     !.shnum = Len(types),
     !.shdr = [o \in {f.shoff + i * f.shentsize : i \in 0..(Len(types) - 1)} |->
                 LET i == ((o - f.shoff) \div f.shentsize) + 1
                 IN  SectionEntry(f.class, types[i], links[i], size, entsize)]]

BadHeaders ==
  UNION {{[f EXCEPT !.length = 63], [f EXCEPT !.magic = FALSE], [f EXCEPT !.class = 3],
          [f EXCEPT !.data = 0], [f EXCEPT !.version = 19],
          [f EXCEPT !.phoff = 601], [f EXCEPT !.shoff = 601],
          [f EXCEPT !.phnum = 127], [f EXCEPT !.shnum = 127]} : f \in Images}

(* Tables at the limits: empty, ending with or cut off by the image, an    *)
(* entry size of 0, and the products that overflow.                        *)
EdgeTables ==
  UNION {{[f EXCEPT !.phnum = 0], [f EXCEPT !.shnum = 0],
          [f EXCEPT !.phentsize = 0], [f EXCEPT !.phentsize = 0, !.phoff = 600],
          [f EXCEPT !.shentsize = 0], [f EXCEPT !.shentsize = 0, !.shoff = 600],
          [f EXCEPT !.phoff = 600 - 2 * f.phentsize],
          [f EXCEPT !.phoff = 590, !.phentsize = 5],
          [f EXCEPT !.phoff = 600 - 2 * f.phentsize + 1],
          [f EXCEPT !.phoff = 400, !.phentsize = 127, !.phnum = 127],
          [f EXCEPT !.phoff = 473, !.phentsize = 127, !.phnum = 1],
          [f EXCEPT !.phoff = 474, !.phentsize = 127, !.phnum = 1],
          [f EXCEPT !.shoff = 400, !.shentsize = 127, !.shnum = 127],
          [f EXCEPT !.shoff = 590, !.shentsize = 3, !.shnum = 3]} : f \in Images}

(* Every arrangement of three sections with every link, two symbol tables  *)
(* with two string tables, and symbol tables of unusual sizes.             *)
SectionTypes == {SHT_NULL, SHT_SYMTAB, SHT_STRTAB}
Arrangements ==
  UNION {{WithSections(f, types, [i \in 1..3 |-> link],
                        2 * SizeofSym(f.class), SizeofSym(f.class)) :
            types \in [1..3 -> SectionTypes], link \in {0, 1, 2, 3, 10000}} : f \in Images}
TwoSymtabs ==
  UNION {{WithSections(f, <<SHT_SYMTAB, SHT_STRTAB, SHT_SYMTAB, SHT_STRTAB>>,
                       <<l1, 0, l2, 0>>, SizeofSym(f.class), SizeofSym(f.class)) :
            l1 \in {1, 3}, l2 \in {1, 3}} : f \in Images}
SymtabSizes ==
  UNION {{WithSections(f, <<SHT_NULL, SHT_SYMTAB, SHT_STRTAB, SHT_NULL>>,
                       <<0, 2, 0, 0>>, size, entsize) :
            size \in {0, 1, 48, 10000, 16383}, entsize \in {0, 24, 96, 16380}} : f \in Images}

(* Symbol tables that start so far behind the image that the sum of the    *)
(* scope test wraps: every entry before the image, the second one in it,   *)
(* and a sum that is just short of wrapping.                               *)
WrappingOffsets(class) ==
  IF class = ELFCLASS32 THEN {MCWordMod - 64, MCWordMod - 16}
  ELSE {MCXwordMod - 65, MCXwordMod - 64, MCXwordMod - 40, MCXwordMod - 24}
WrappingSymtabs ==
  UNION {{[f EXCEPT !.shdr[f.shoff + f.shentsize].sh_offset = o,
                    !.sym = (o :> SymEntry(1, 2)) @@ (0 :> SymEntry(4, 0))] :
            o \in WrappingOffsets(f.class)} : f \in Images}

(* Two symbols with every pair of section indexes and name offsets.        *)
Names == {1, 129, 130, 131}
Symbols ==
  UNION {{[f EXCEPT !.sym = (480 :> SymEntry(n1, s1))
                            @@ (480 + SizeofSym(f.class) :> SymEntry(n2, s2))] :
            n1 \in {1}, n2 \in Names, s1 \in {0, 1, 2, 100}, s2 \in {0, 2, 3}} : f \in Images}
Truncated ==
  UNION {{[f EXCEPT !.length = n, !.lastNul = n - 1] :
            n \in {201, 400, 500, 540, 560, 570}} : f \in Images}
Unterminated == {[f EXCEPT !.lastNul = 471] : f \in Images}

(* Section headers cut off by the end of the image: a symbol table whose   *)
(* sh_link, and one whose sh_entsize, is behind it.                        *)
CutSections ==
  UNION {{[f EXCEPT !.shoff = 590, !.shnum = 1, !.shdr =
             (590 :> SectionEntry(f.class, SHT_SYMTAB, 0, 0, 0))],
          LET e == ShdrLinkEnd(f.class)
              g == [f EXCEPT !.shentsize = e, !.shoff = 600 - 3 * e]
          IN  WithSections(g, <<SHT_NULL, SHT_STRTAB, SHT_SYMTAB>>, <<0, 0, 1>>,
                           SizeofSym(f.class), SizeofSym(f.class))} : f \in Images}

MCFiles == Images \cup BadHeaders \cup EdgeTables \cup Arrangements \cup TwoSymtabs
           \cup SymtabSizes \cup Symbols \cup Truncated \cup Unterminated
           \cup CutSections \cup WrappingSymtabs
==============================================================================
