------------------------------ MODULE ElfLayout ------------------------------
(***************************************************************************)
(* The ELF image as elftool sees it: what <elf.h> and the accessor macros  *)
(* of inc/elftool_structs.h read from bin->mem, and the fixed-width        *)
(* arithmetic the library does with it.                                    *)
(*                                                                         *)
(* An image is a record.  Its ELF header fields are fields of the record;  *)
(* the tables are sparse functions from a byte offset to the entry a cast  *)
(* of &mem[offset] yields, all other offsets hold zero bytes.  Offsets at  *)
(* or beyond "length" stand for what the heap holds behind the image.      *)
(***************************************************************************)
EXTENDS Integers, Sequences

CONSTANTS
  HalfMod,     \* 2^16, number of values of a uint16_t (Elf_Half)
  WordMod,     \* 2^32, number of values of a uint32_t (Elf_Word, Elf32_Off)
  XwordMod,    \* 2^64, number of values of a uint64_t (Elf64_Off, size_t)
  Files        \* the images a run may be given

(* What the widths must satisfy: the product of two halves fits in a word, *)
(* and a size_t holds a word and the size of any structure beside it.      *)
ASSUME WidthAssumption ==
  /\ HalfMod \in Nat \ {0} /\ WordMod \in Nat /\ XwordMod \in Nat
  /\ HalfMod * HalfMod <= WordMod
  /\ 2 * WordMod <= XwordMod
  /\ 128 <= WordMod

ELFCLASS32 == 1
ELFCLASS64 == 2
ELFDATA2LSB == 1
ELFDATA2MSB == 2
SHT_NULL == 0
SHT_SYMTAB == 2
SHT_STRTAB == 3

Class == {ELFCLASS32, ELFCLASS64}
Data == {ELFDATA2LSB, ELFDATA2MSB}
Byte == 0..255
Half == 0..(HalfMod - 1)
Word == 0..(WordMod - 1)

EhdrMin == 64        \* 0x40, the shortest image elftool_parse_ehdr accepts
SizeofShdr64 == 64   \* sizeof(Elf64_Shdr)

(* Width of an Elf32_Off or Elf64_Off.  A class byte that is neither is    *)
(* rejected before any such field is read.                                 *)
Modulus(class) == IF class = ELFCLASS32 THEN WordMod ELSE XwordMod
Offset(class) == 0..(Modulus(class) - 1)

(* sizeof(Elf32_Sym) and sizeof(Elf64_Sym).                                *)
SizeofSym(class) == IF class = ELFCLASS32 THEN 16 ELSE 24

(* First byte behind the p_offset field of a program header, behind the    *)
(* sh_offset and the sh_link field of a section header, and behind its     *)
(* last field, sh_entsize.                                                 *)
PhdrOffsetEnd(class) == IF class = ELFCLASS32 THEN 8 ELSE 16
ShdrOffsetEnd(class) == IF class = ELFCLASS32 THEN 20 ELSE 32
ShdrLinkEnd(class) == IF class = ELFCLASS32 THEN 28 ELSE 44
ShdrEnd(class) == IF class = ELFCLASS32 THEN 40 ELSE 64

Shdr(class) == [sh_type : Word, sh_offset : Offset(class),
                sh_size : Offset(class), sh_link : Word,
                sh_entsize : Offset(class)]
Sym(class) == [st_name : Word, st_value : Offset(class), st_shndx : Half]

ZeroShdr == [sh_type |-> SHT_NULL, sh_offset |-> 0, sh_size |-> 0,
             sh_link |-> 0, sh_entsize |-> 0]
ZeroSym == [st_name |-> 0, st_value |-> 0, st_shndx |-> 0]

(***************************************************************************)
(* "magic" says that mem[0..3] is 7f 45 4c 46, "lastNul" is the offset of  *)
(* the last zero byte of the image (-1: none).  elftool_load hands over an *)
(* image only when bin->mem is not NULL.                                   *)
(***************************************************************************)
IsFile(f) ==
  /\ f.length \in Nat
  /\ f.magic \in BOOLEAN
  /\ f.class \in Byte /\ f.data \in Byte /\ f.version \in Byte
  /\ f.phoff \in Offset(f.class) /\ f.shoff \in Offset(f.class)
  /\ f.phentsize \in Half /\ f.phnum \in Half
  /\ f.shentsize \in Half /\ f.shnum \in Half
  /\ f.shstrndx \in Half
  /\ f.phdr \in [DOMAIN f.phdr -> Offset(f.class)]
  /\ f.shdr \in [DOMAIN f.shdr -> Shdr(f.class)]
  /\ f.sym \in [DOMAIN f.sym -> Sym(f.class)]
  /\ f.lastNul \in Int

ASSUME FilesAssumption == \A f \in Files : IsFile(f)

(* get_phdr_ent(..)->p_offset, get_shdr_ent(..) and get_sym_ent(..).       *)
PhdrOffsetAt(f, o) == IF o \in DOMAIN f.phdr THEN f.phdr[o] ELSE 0
ShdrAt(f, o) == IF o \in DOMAIN f.shdr THEN f.shdr[o] ELSE ZeroShdr
SymAt(f, o) == IF o \in DOMAIN f.sym THEN f.sym[o] ELSE ZeroSym

(* An Elf_Word assigned to an int: the upper half of the range is negative.*)
ToInt(w) == IF 2 * w < WordMod THEN w ELSE w - WordMod

(* The product of two uint16_t, computed in int.  Where it does not fit,   *)
(* the behaviour is undefined: a 32-bit multiplication gives the wrapped,  *)
(* sign-extended value, a 64-bit one the mathematical value.               *)
IntProducts(a, b) ==
  IF 2 * (a * b) < WordMod THEN {a * b} ELSE {a * b, a * b - WordMod}

(* The end of a table as the header checks compute it.                     *)
TableEnds(f, entsize, num, off) ==
  {(p + off) % Modulus(f.class) : p \in IntProducts(entsize, num)}

(* The identification bytes elftool_parse_ehdr accepts, in its order.  The *)
(* byte it calls EI_OSABI is mem[6], EI_VERSION.                           *)
MutClassReached(f) == f.length >= EhdrMin /\ f.magic
ClassReached(f) == f.length >= EhdrMin /\ f.magic /\ f.class \in Class
DataReached(f) == ClassReached(f) /\ f.data \in Data
IdentAccepted(f) == DataReached(f) /\ f.version <= 18

(* The four scope checks of elftool_parse32_ehdr / elftool_parse64_ehdr.   *)
MutTablesScoped(f, phend, shend) ==
  f.phoff <= f.length /\ f.shoff <= f.length /\ shend <= f.length
TablesScoped(f, phend, shend) ==
  /\ f.phoff <= f.length
  /\ f.shoff <= f.length
  /\ phend <= f.length
  /\ shend <= f.length
==============================================================================
