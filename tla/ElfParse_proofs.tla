--------------------------- MODULE ElfParse_proofs ---------------------------
(***************************************************************************)
(* Theorems about ElfParse for every value of its constants: every set of  *)
(* images, every heap, every width that satisfies WidthAssumption.         *)
(***************************************************************************)
EXTENDS ElfParse, TLAPS

----------------------------------------------------------------------------
(* Facts about the fixed-width arithmetic and the accessors.               *)

(* A value taken modulo b fits in b.                                       *)
LEMMA ModRange ==
  ASSUME NEW a \in Int, NEW b \in Nat \ {0}
  PROVE  a % b \in 0..(b - 1)
OBVIOUS

(* Every width is a positive number that also holds a half.                *)
LEMMA WidthFacts ==
  ASSUME NEW c
  PROVE  /\ Modulus(c) \in Nat \ {0}
         /\ WordMod <= Modulus(c)
         /\ HalfMod <= WordMod
<1>1. HalfMod <= HalfMod * HalfMod
  BY WidthAssumption
<1>2. QED
  BY <1>1, WidthAssumption DEF Modulus

(* What the accessor macros read has the type of the field.                *)
LEMMA AccessorTypes ==
  ASSUME NEW f \in Files, NEW o
  PROVE  /\ IsFile(f)
         /\ PhdrOffsetAt(f, o) \in Offset(f.class)
         /\ ShdrAt(f, o) \in Shdr(f.class)
         /\ SymAt(f, o) \in Sym(f.class)
<1>1. IsFile(f)
  BY FilesAssumption
<1>2. PhdrOffsetAt(f, o) \in Offset(f.class)
  BY <1>1, WidthFacts DEF IsFile, PhdrOffsetAt, Offset
<1>3. ShdrAt(f, o) \in Shdr(f.class)
  <2>1. ZeroShdr \in Shdr(f.class)
    BY WidthAssumption, WidthFacts DEF ZeroShdr, Shdr, Offset, Word, SHT_NULL
  <2>2. QED
    BY <1>1, <2>1 DEF IsFile, ShdrAt
<1>4. SymAt(f, o) \in Sym(f.class)
  <2>1. ZeroSym \in Sym(f.class)
    BY WidthAssumption, WidthFacts DEF ZeroSym, Sym, Offset, Word, Half
  <2>2. QED
    BY <1>1, <2>1 DEF IsFile, SymAt
<1>5. QED
  BY <1>1, <1>2, <1>3, <1>4

(* The widths of the running parse: M and the ranges of the loop variables.*)
LEMMA RunWidths ==
  ASSUME TypeOK
  PROVE  /\ IsFile(file)
         /\ M \in Nat \ {0} /\ HalfMod <= M
         /\ Offset(file.class) = 0..(M - 1)
         /\ file.length \in Nat
         /\ file.phoff \in Offset(file.class) /\ file.shoff \in Offset(file.class)
         /\ file.phentsize \in Half /\ file.phnum \in Half
         /\ file.shentsize \in Half /\ file.shnum \in Half
<1>1. file \in Files /\ IsFile(file)
  BY AccessorTypes DEF TypeOK
<1>2. M \in Nat \ {0} /\ HalfMod <= M
  BY WidthFacts, WidthAssumption DEF M
<1>3. Offset(file.class) = 0..(M - 1)
  BY DEF M, Offset
<1>4. QED
  BY <1>1, <1>2, <1>3 DEF IsFile

(* How a loop iteration advances: the index stays a half while it is below *)
(* one, the offset wraps.                                                  *)
LEMMA StepWidths ==
  ASSUME TypeOK
  PROVE  /\ \A n \in Half : idx < n => idx + 1 \in Half
         /\ \A e \in Half \cup Offset(file.class) :
              (offset + e) % M \in Offset(file.class)
         /\ idx < file.phnum => idx + 1 \in Half
         /\ idx < file.shnum => idx + 1 \in Half
         /\ (offset + file.phentsize) % M \in Offset(file.class)
         /\ (offset + file.shentsize) % M \in Offset(file.class)
<1>1. idx \in Half /\ offset \in Offset(file.class) /\ HalfMod \in Nat
  BY WidthAssumption DEF TypeOK
<1>2. \A n \in Half : idx < n => idx + 1 \in Half
  BY <1>1 DEF Half
<1>3. \A e \in Half \cup Offset(file.class) : (offset + e) % M \in Offset(file.class)
  <2>1. M \in Nat \ {0} /\ Offset(file.class) = 0..(M - 1)
    BY RunWidths
  <2>2. \A e \in Half \cup Offset(file.class) : offset + e \in Int
    BY <1>1, <2>1 DEF Half
  <2>3. QED
    BY <2>1, <2>2, ModRange
<1>4. QED
  BY <1>2, <1>3, RunWidths

(* The scratch section offset is a wrapper's or the previous one.          *)
LEMMA SectionOffsetType ==
  ASSUME TypeOK, NEW n, NEW sect \in SectionOffset(n)
  PROVE  sect \in Offset(file.class)
<1> DEFINE found == {p \in 1..(Len(shdr) - 1) : shdr[p].idx = n}
<1>1. CASE found = {}
  BY <1>1 DEF SectionOffset, TypeOK
<1>2. CASE found # {}
  <2>1. PICK p \in found : sect = shdr[p].sh_offset
    BY <1>2 DEF SectionOffset
  <2>2. shdr[p] \in ShdrWrapper
    BY <2>1 DEF TypeOK
  <2>3. QED
    BY <2>1, <2>2 DEF ShdrWrapper
<1>3. QED
  BY <1>1, <1>2

----------------------------------------------------------------------------
(* Type correctness.                                                       *)

LEMMA TypeInit == Init => TypeOK
<1> SUFFICES ASSUME Init PROVE TypeOK
  OBVIOUS
<1>1. WordMod \in Nat /\ HalfMod \in Nat \ {0}
  BY WidthAssumption
<1>2. 0 \in Offset(file.class) /\ 0 \in Half
  BY <1>1, WidthFacts DEF Offset, Half
<1>3. phdr \in Seq(PhdrWrapper) /\ shdr \in Seq(ShdrWrapper) /\ syms \in Seq(SymWrapper)
  BY DEF Init
<1>4. shstrtab \in 0..Len(shdr) /\ strtab \in 0..Len(shdr) /\ symtab \in 0..Len(shdr)
  BY DEF Init, NULL
<1>5. /\ file \in Files /\ elfclass = 0 /\ endian = 0 /\ pc \in Phases /\ r = 0
      /\ offset = 0 /\ idx = 0 /\ symtabstrndx \in Int /\ lastSect = 0
  BY DEF Init, Phases, NoSymtabYet
<1>6. oom \in BOOLEAN
  BY Zenon DEF Init
<1>7. QED
  BY <1>2, <1>3, <1>4, <1>5, <1>6 DEF TypeOK

LEMMA TypeNext == TypeOK /\ [Next]_vars => TypeOK'
<1> SUFFICES ASSUME TypeOK, [Next]_vars PROVE TypeOK'
  OBVIOUS
<1> USE DEF lists, strtabs, ident, locals
<1>0. /\ file \in Files /\ HalfMod \in Nat \ {0}
      /\ 0 \in Offset(file.class) /\ 0 \in Half
  BY RunWidths, WidthAssumption DEF TypeOK, Half
<1>1. CASE ParseEhdr
  <2>1. elfclass' \in Class \cup {0} /\ endian' \in Data \cup {0}
    BY <1>1 DEF ParseEhdr, TypeOK, ClassReached, DataReached
  <2>2. r' \in {0, EFAULT}
    BY <1>1 DEF ParseEhdr
  <2>3. pc' \in Phases /\ offset' \in Offset(file.class) /\ idx' \in Half
    BY <1>0, <1>1, RunWidths DEF ParseEhdr, Leave, Phases, TypeOK
  <2>4. QED
    BY <1>1, <2>1, <2>2, <2>3 DEF ParseEhdr, TypeOK, PhdrWrapper, ShdrWrapper, SymWrapper
<1>2. CASE ParsePhdrEntry
  <2>1. phdr' \in Seq(PhdrWrapper)
    <3>1. [idx |-> idx, p_offset |-> offset, mem_offset |-> PhdrOffsetAt(file, offset)]
             \in PhdrWrapper
      BY AccessorTypes DEF TypeOK, PhdrWrapper
    <3>2. QED
      BY <1>2, <3>1 DEF ParsePhdrEntry, TypeOK
  <2>2. offset' \in Offset(file.class) /\ idx' \in Half
    BY <1>2, StepWidths DEF ParsePhdrEntry
  <2>3. r' \in {0, EFAULT} /\ oom' \in BOOLEAN
    BY <1>2, HeapAssumption DEF ParsePhdrEntry, TypeOK, LstNew, Malloc
  <2>4. QED
    BY <1>2, <2>1, <2>2, <2>3 DEF ParsePhdrEntry, TypeOK, PhdrWrapper, ShdrWrapper, SymWrapper
<1>3. CASE PhdrsDone
  <2>1. pc' \in Phases /\ offset' \in Offset(file.class) /\ idx' \in Half
    BY <1>0, <1>3, RunWidths DEF PhdrsDone, Leave, Phases, TypeOK
  <2>2. QED
    BY <1>3, <2>1 DEF PhdrsDone, TypeOK, PhdrWrapper, ShdrWrapper, SymWrapper
<1>4. CASE ShdrOutOfScope
  BY <1>4 DEF ShdrOutOfScope, TypeOK, PhdrWrapper, ShdrWrapper, SymWrapper
<1>5. CASE ShdrNoMemory
  BY <1>5 DEF ShdrNoMemory, TypeOK, PhdrWrapper, ShdrWrapper, SymWrapper
<1>6. CASE RecordShdr
  <2>1. shdr' \in Seq(ShdrWrapper) /\ Len(shdr') = Len(shdr) + 1
    <3>1. [idx |-> idx, sh_offset |-> offset, mem_offset |-> ShdrAt(file, offset).sh_offset]
             \in ShdrWrapper
      BY AccessorTypes DEF TypeOK, ShdrWrapper, Shdr
    <3>2. QED
      BY <1>6, <3>1 DEF RecordShdr, TypeOK
  <2>2. offset' \in Offset(file.class) /\ idx' \in Half
    BY <1>6, StepWidths DEF RecordShdr, ShdrIteration
  <2>3. symtabstrndx' \in Int
    BY <1>6, AccessorTypes, WidthAssumption DEF RecordShdr, TypeOK, ToInt, Shdr, Word
  <2>4. /\ shstrtab' \in 0..Len(shdr') /\ strtab' \in 0..Len(shdr')
        /\ symtab' \in 0..Len(shdr')
    BY <1>6, <2>1 DEF RecordShdr, TypeOK
  <2>5. QED
    BY <1>6, <2>1, <2>2, <2>3, <2>4 DEF RecordShdr, TypeOK, PhdrWrapper, ShdrWrapper, SymWrapper
<1>7. CASE LinkStrtabs
  <2>1. shstrtab' \in 0..Len(shdr) /\ strtab' \in 0..Len(shdr)
    BY <1>7 DEF LinkStrtabs, TypeOK
  <2>2. pc' \in Phases /\ r' \in {0, EINVAL, EFAULT}
    BY <1>7 DEF LinkStrtabs, TypeOK, Phases
  <2>3. QED
    BY <1>7, <2>1, <2>2 DEF LinkStrtabs, TypeOK, PhdrWrapper, ShdrWrapper, SymWrapper
<1>8. CASE GetSymSections
  <2>1. symtab' \in 0..Len(shdr) /\ r' \in {0, EINVAL}
    BY <1>8 DEF GetSymSections
  <2>2. pc' \in Phases /\ offset' \in Offset(file.class) /\ idx' \in Half
    BY <1>0, <1>8 DEF GetSymSections, Leave, Phases, TypeOK
  <2>3. QED
    BY <1>8, <2>1, <2>2 DEF GetSymSections, TypeOK, PhdrWrapper, ShdrWrapper, SymWrapper
<1>9. CASE SymOutOfScope
  BY <1>9 DEF SymOutOfScope, TypeOK, PhdrWrapper, ShdrWrapper, SymWrapper
<1>10. CASE SymWithoutStrtab
  BY <1>10 DEF SymWithoutStrtab, TypeOK, Phases, PhdrWrapper, ShdrWrapper, SymWrapper
<1>11. CASE SymNameOutOfScope
  <2>1. idx' \in Half
    BY <1>0, <1>11, ModRange DEF SymNameOutOfScope, TypeOK, Half
  <2>2. QED
    BY <1>11, <2>1 DEF SymNameOutOfScope, TypeOK, PhdrWrapper, ShdrWrapper, SymWrapper
<1>12. CASE RecordSym
  <2>1. /\ Section(symtab) \in Shdr(file.class) /\ Section(strtab) \in Shdr(file.class)
        /\ SymAt(file, SymOffset) \in Sym(file.class)
    BY <1>0, AccessorTypes DEF Section
  <2>2. idx' \in Half
    BY <1>0, <1>12, ModRange DEF RecordSym, TypeOK, Half
  <2>3. offset' \in Offset(file.class)
    <3>1. Section(symtab).sh_entsize \in Offset(file.class)
      BY <2>1 DEF Shdr
    <3>2. QED
      BY <1>12, <3>1, StepWidths DEF RecordSym
  <2>4. SymOffset \in Offset(file.class) /\ NameOffset \in Offset(file.class)
    <3>1. /\ Section(symtab).sh_offset \in Offset(file.class)
          /\ Section(strtab).sh_offset \in Offset(file.class)
          /\ SymAt(file, SymOffset).st_name \in Nat
      BY <2>1, WidthAssumption DEF Shdr, Sym, Word
    <3>2. M \in Nat \ {0} /\ Offset(file.class) = 0..(M - 1) /\ offset \in Nat
      BY RunWidths DEF TypeOK
    <3>3. /\ offset + Section(symtab).sh_offset \in Int
          /\ SymAt(file, SymOffset).st_name + Section(strtab).sh_offset \in Int
      BY <3>1, <3>2
    <3>4. QED
      BY <3>2, <3>3, ModRange DEF SymOffset, NameOffset
  <2>5. PICK stored \in LstNew, named \in Malloc,
             sect \in SectionOffset(SymAt(file, SymOffset).st_shndx) :
          /\ syms' = IF stored
                       THEN Append(syms, [idx |-> idx, sh_offset |-> sect,
                                          mem_offset |-> SymAt(file, SymOffset).st_value,
                                          sym_offset |-> SymOffset,
                                          name |-> NameOffset, named |-> named])
                       ELSE syms
          /\ r' = IF stored THEN 0 ELSE EFAULT
          /\ oom' = (oom \/ ~stored)
          /\ lastSect' = sect
    BY <1>12 DEF RecordSym
  <2>6. stored \in BOOLEAN /\ named \in BOOLEAN
    BY HeapAssumption DEF LstNew, Malloc
  <2>7. sect \in Offset(file.class)
    BY SectionOffsetType
  <2>8. syms' \in Seq(SymWrapper)
    <3>1. [idx |-> idx, sh_offset |-> sect,
           mem_offset |-> SymAt(file, SymOffset).st_value,
           sym_offset |-> SymOffset, name |-> NameOffset, named |-> named] \in SymWrapper
      BY <2>1, <2>4, <2>6, <2>7 DEF TypeOK, SymWrapper, Sym
    <3>2. QED
      BY <2>5, <3>1 DEF TypeOK
  <2>9. QED
    BY <1>12, <2>2, <2>3, <2>5, <2>6, <2>7, <2>8
       DEF RecordSym, TypeOK, PhdrWrapper, ShdrWrapper, SymWrapper
<1>13. CASE SymsDone
  BY <1>13 DEF SymsDone, TypeOK, Phases, PhdrWrapper, ShdrWrapper, SymWrapper
<1>14. CASE CrashBehindImage
  BY <1>14 DEF CrashBehindImage, TypeOK, Phases, PhdrWrapper, ShdrWrapper, SymWrapper
<1>15. CASE UNCHANGED vars
  BY <1>15 DEF vars, TypeOK, PhdrWrapper, ShdrWrapper, SymWrapper
<1>16. QED
  BY <1>1, <1>2, <1>3, <1>4, <1>5, <1>6, <1>7, <1>8, <1>9, <1>10, <1>11, <1>12,
     <1>13, <1>14, <1>15 DEF Next, Finished

(* Every variable keeps its type in every reachable state.                 *)
THEOREM TypeCorrect == Spec => []TypeOK
BY TypeInit, TypeNext, PTL DEF Spec

----------------------------------------------------------------------------
(* The inductive invariant, part by part.                                  *)

LEMMA InitInv == Init => IInv
<1> SUFFICES ASSUME Init PROVE IInv
  OBVIOUS
<1>1. phdr = <<>> /\ shdr = <<>> /\ syms = <<>> /\ pc = "ehdr" /\ r = 0 /\ ~Accepted
  BY DEF Init, Accepted
<1>2. PhaseInv
  BY <1>1 DEF Init, PhaseInv
<1>3. PhdrInv /\ ShdrInv
  BY <1>1 DEF PhdrInv, ShdrInv
<1>4. SectionsOfType(SHT_SYMTAB) = {}
  BY <1>1 DEF SectionsOfType
<1>5. SymtabInv
  BY <1>1, <1>4 DEF Init, SymtabInv, EINVAL
<1>6. SymsInv
  BY <1>1 DEF SymsInv, RecordedSyms, SymsInImage, SymSectionTrace
<1>7. QED
  BY <1>2, <1>3, <1>5, <1>6 DEF IInv

(* No action writes the image.                                             *)
LEMMA FileStable == [Next]_vars => file' = file
BY DEF Next, vars, ident, ParseEhdr, ParsePhdrEntry, PhdrsDone, ShdrOutOfScope,
       ShdrNoMemory, RecordShdr, LinkStrtabs, GetSymSections, SymOutOfScope,
       SymWithoutStrtab, SymNameOutOfScope, RecordSym, SymsDone, CrashBehindImage,
       Finished

LEMMA PhaseInvStep == TypeOK /\ IInv /\ [Next]_vars => PhaseInv'
<1> SUFFICES ASSUME TypeOK, IInv, [Next]_vars PROVE PhaseInv'
  OBVIOUS
<1> USE DEF Entering, Phases, lists, strtabs, ident, locals
<1>1. PhaseInv /\ SymtabInv /\ file' = file
  BY FileStable DEF IInv
<1>2. Scoped' <=> Scoped
  BY <1>1 DEF Scoped
<1>3. CASE ParseEhdr
  <2>1. r' = 0 => Scoped
    BY <1>3 DEF ParseEhdr, Scoped, EFAULT
  <2>2. QED
    BY <1>1, <1>2, <1>3, <2>1 DEF ParseEhdr, Leave, PhaseInv, Accepted
<1>4. CASE ParsePhdrEntry
  BY <1>1, <1>2, <1>4 DEF ParsePhdrEntry, PhaseInv, Accepted
<1>5. CASE PhdrsDone
  BY <1>1, <1>2, <1>5 DEF PhdrsDone, Leave, PhaseInv, Accepted
<1>6. CASE ShdrOutOfScope \/ ShdrNoMemory \/ RecordShdr
  BY <1>1, <1>2, <1>6
     DEF ShdrIteration, ShdrOutOfScope, ShdrNoMemory, RecordShdr, PhaseInv, Accepted
<1>7. CASE LinkStrtabs
  BY <1>1, <1>2, <1>7 DEF LinkStrtabs, PhaseInv, Accepted
<1>8. CASE GetSymSections
  BY <1>1, <1>2, <1>8 DEF GetSymSections, Leave, PhaseInv, Accepted, EINVAL
<1>9. CASE SymOutOfScope \/ SymWithoutStrtab \/ SymNameOutOfScope \/ RecordSym
  BY <1>1, <1>2, <1>9
     DEF SymIteration, SymOutOfScope, SymWithoutStrtab, SymNameOutOfScope, RecordSym,
         PhaseInv, Accepted
<1>10. CASE SymsDone
  BY <1>1, <1>2, <1>10 DEF SymsDone, PhaseInv, Accepted
<1>11. CASE CrashBehindImage
  BY <1>1, <1>2, <1>11
     DEF CrashBehindImage, ReadsBehindImage, ShdrIteration, SymIteration, PhaseInv, Accepted
<1>12. CASE UNCHANGED vars
  BY <1>1, <1>2, <1>12 DEF vars, PhaseInv, Accepted
<1>13. QED
  BY <1>3, <1>4, <1>5, <1>6, <1>7, <1>8, <1>9, <1>10, <1>11, <1>12 DEF Next, Finished

(* An iteration over an entry that starts inside a small image does not    *)
(* wrap its offset.                                                        *)
LEMMA NoWrap ==
  ASSUME TypeOK, SmallImage, NEW o \in Nat, o < file.length, NEW e \in Half
  PROVE  (o + e) % M = o + e
<1>1. M \in Nat \ {0} /\ WordMod <= M /\ WordMod \in Nat /\ HalfMod \in Nat
  BY RunWidths, WidthFacts, WidthAssumption DEF M
<1>2. o + e \in Nat /\ o + e < M
  BY <1>1, RunWidths DEF Half, SmallImage
<1>3. QED
  BY <1>1, <1>2

(* One more entry: k * e + e = (k + 1) * e.                                *)
LEMMA NextPlace ==
  ASSUME NEW b \in Nat, NEW k \in Nat, NEW e \in Nat
  PROVE  /\ b + k * e + e = b + (k + 1) * e
         /\ b + k * e = b + ((k + 1) - 1) * e
         /\ b + 0 * e = b
         /\ b + k * e \in Nat
OBVIOUS

LEMMA PhdrInvStep == TypeOK /\ IInv /\ [Next]_vars => PhdrInv'
<1> SUFFICES ASSUME TypeOK, IInv, [Next]_vars PROVE PhdrInv'
  OBVIOUS
<1> USE DEF lists, strtabs, ident, locals
<1>1. PhaseInv /\ PhdrInv /\ file' = file /\ (SmallImage' <=> SmallImage)
  BY FileStable DEF IInv, SmallImage
<1>2. /\ file.phoff \in Nat /\ file.phentsize \in Nat /\ file.phnum \in Nat
      /\ file.phentsize \in Half
  BY RunWidths, WidthAssumption DEF Half
<1>3. CASE ParseEhdr
  <2>1. phdr' = <<>> /\ pc' \in {"phdr", "done"} /\ (pc' = "done" => r' # 0)
    BY <1>1, <1>3 DEF ParseEhdr, Leave, PhaseInv
  <2>2. pc' = "phdr" => idx' = 0 /\ offset' = file.phoff
    BY <1>3 DEF ParseEhdr, Leave
  <2>3. 0 <= file.phnum /\ file.phoff = file.phoff + 0 * file.phentsize
    BY <1>2, NextPlace
  <2>4. QED
    BY <1>1, <2>1, <2>2, <2>3 DEF PhdrInv, Accepted
<1>4. CASE ParsePhdrEntry
  <2>1. pc = "phdr" /\ pc' = "phdr" /\ r = 0 /\ idx < file.phnum /\ idx = Len(phdr)
    BY <1>1, <1>4 DEF ParsePhdrEntry, PhdrInv
  <2>2. SUFFICES ASSUME r' = 0 PROVE PhdrInv'
    BY <2>1 DEF PhdrInv, Accepted
  <2>3. PICK entry : /\ phdr' = Append(phdr, entry) /\ entry.p_offset = offset
    BY <1>4, <2>2 DEF ParsePhdrEntry, EFAULT
  <2>4. /\ offset < file.length
        /\ idx' = idx + 1 /\ offset' = (offset + file.phentsize) % M
    BY <1>4, <2>2 DEF ParsePhdrEntry, PhdrInScope, EFAULT
  <2>5. /\ Len(phdr) \in Nat /\ Len(phdr') = Len(phdr) + 1
        /\ phdr'[Len(phdr) + 1] = entry
        /\ \A i \in 1..Len(phdr) : phdr'[i] = phdr[i]
    BY <2>3 DEF TypeOK
  <2>6. idx' = Len(phdr') /\ idx' <= file.phnum
    BY <1>2, <2>1, <2>4, <2>5
  <2>7. SmallImage => /\ offset' = file.phoff + (idx + 1) * file.phentsize
                      /\ offset = file.phoff + ((idx + 1) - 1) * file.phentsize
    <3>1. SUFFICES ASSUME SmallImage
                   PROVE  /\ offset' = file.phoff + (idx + 1) * file.phentsize
                          /\ offset = file.phoff + ((idx + 1) - 1) * file.phentsize
      OBVIOUS
    <3>2. offset \in Nat /\ idx \in Nat
      BY <2>1, <2>5, RunWidths DEF TypeOK
    <3>3. offset = file.phoff + idx * file.phentsize
      BY <1>1, <2>1, <3>1 DEF PhdrInv
    <3>4. offset' = offset + file.phentsize
      BY <1>2, <2>4, <3>1, <3>2, NoWrap
    <3>5. QED
      BY <1>2, <3>2, <3>3, <3>4, NextPlace
  <2>8. \A i \in 1..Len(phdr') :
           /\ phdr'[i].p_offset < file.length
           /\ SmallImage => phdr'[i].p_offset = file.phoff + (i - 1) * file.phentsize
    <3>1. \A i \in 1..Len(phdr) :
             /\ phdr[i].p_offset < file.length
             /\ SmallImage => phdr[i].p_offset = file.phoff + (i - 1) * file.phentsize
      BY <1>1, <2>1 DEF PhdrInv, PhdrPlaced
    <3>2. TAKE i \in 1..Len(phdr')
    <3>3. CASE i = Len(phdr) + 1
      BY <2>1, <2>3, <2>4, <2>5, <2>7, <3>3
    <3>4. CASE i \in 1..Len(phdr)
      BY <2>5, <3>1, <3>4
    <3>5. QED
      BY <2>5, <3>2, <3>3, <3>4
  <2>9. QED
    BY <1>1, <2>1, <2>4, <2>6, <2>7, <2>8 DEF PhdrInv, PhdrPlaced, Accepted
<1>5. CASE PhdrsDone
  <2>1. pc = "phdr" /\ r' = r /\ phdr' = phdr /\ (r = 0 => idx = file.phnum)
    BY <1>5 DEF PhdrsDone
  <2>2. pc' \in {"shdr", "done"} /\ (r' # 0 => pc' = "done")
    BY <1>5 DEF PhdrsDone, Leave
  <2>3. QED
    BY <1>1, <2>1, <2>2 DEF PhdrInv, PhdrPlaced, Accepted
<1>6. CASE ShdrOutOfScope \/ ShdrNoMemory \/ RecordShdr
  BY <1>1, <1>6 DEF ShdrIteration, ShdrOutOfScope, ShdrNoMemory, RecordShdr,
                    PhdrInv, PhdrPlaced, Accepted
<1>7. CASE LinkStrtabs
  <2>1. phdr' = phdr /\ pc = "shdr" /\ pc' \in {"symtab", "done"}
    BY <1>7 DEF LinkStrtabs
  <2>2. QED
    BY <1>1, <2>1 DEF PhdrInv, PhdrPlaced, Accepted
<1>8. CASE GetSymSections
  <2>1. phdr' = phdr /\ pc = "symtab" /\ pc' \in {"syms", "done"}
    BY <1>8 DEF GetSymSections, Leave
  <2>2. QED
    BY <1>1, <2>1 DEF PhdrInv, PhdrPlaced, Accepted
<1>9. CASE SymOutOfScope \/ SymWithoutStrtab \/ SymNameOutOfScope \/ RecordSym \/ SymsDone
  <2>1. phdr' = phdr /\ pc = "syms" /\ pc' \in {"syms", "done", "crashed"}
    BY <1>9 DEF SymIteration, SymOutOfScope, SymWithoutStrtab, SymNameOutOfScope,
                RecordSym, SymsDone
  <2>2. QED
    BY <1>1, <2>1 DEF PhdrInv, PhdrPlaced, Accepted
<1>10. CASE CrashBehindImage
  BY <1>1, <1>10 DEF CrashBehindImage, PhdrInv, Accepted
<1>11. CASE UNCHANGED vars
  BY <1>1, <1>11 DEF vars, PhdrInv, PhdrPlaced, Accepted
<1>12. QED
  BY <1>3, <1>4, <1>5, <1>6, <1>7, <1>8, <1>9, <1>10, <1>11 DEF Next, Finished

LEMMA ShdrInvStep == TypeOK /\ IInv /\ [Next]_vars => ShdrInv'
<1> SUFFICES ASSUME TypeOK, IInv, [Next]_vars PROVE ShdrInv'
  OBVIOUS
<1> USE DEF lists, strtabs, ident, locals
<1>1. PhaseInv /\ ShdrInv /\ file' = file /\ (SmallImage' <=> SmallImage)
  BY FileStable DEF IInv, SmallImage
<1>2. /\ file.shoff \in Nat /\ file.shentsize \in Nat /\ file.shnum \in Nat
      /\ file.shentsize \in Half
  BY RunWidths, WidthAssumption DEF Half
<1>3. CASE ParseEhdr \/ ParsePhdrEntry
  <2>1. shdr' = <<>> /\ pc' # "shdr" /\ pc' \notin {"symtab", "syms"} /\ ~Accepted'
    BY <1>1, <1>3 DEF ParseEhdr, ParsePhdrEntry, Leave, PhaseInv, Accepted
  <2>2. QED
    BY <2>1 DEF ShdrInv
<1>4. CASE PhdrsDone
  <2>1. shdr' = <<>> /\ pc' \in {"shdr", "done"} /\ ~Accepted'
    BY <1>1, <1>4 DEF PhdrsDone, Leave, PhaseInv, Accepted
  <2>2. pc' = "shdr" => idx' = 0 /\ offset' = file.shoff
    BY <1>4 DEF PhdrsDone, Leave
  <2>3. 0 <= file.shnum /\ file.shoff = file.shoff + 0 * file.shentsize
    BY <1>2, NextPlace
  <2>4. QED
    BY <1>1, <2>1, <2>2, <2>3 DEF ShdrInv
<1>5. CASE ShdrOutOfScope \/ ShdrNoMemory
  BY <1>1, <1>5 DEF ShdrIteration, ShdrOutOfScope, ShdrNoMemory, ShdrInv, ShdrPlaced, Accepted
<1>6. CASE RecordShdr
  <2>1. pc = "shdr" /\ pc' = "shdr" /\ idx < file.shnum /\ idx = Len(shdr)
    BY <1>1, <1>6 DEF RecordShdr, ShdrIteration, ShdrInv
  <2>2. PICK entry : /\ shdr' = Append(shdr, entry)
                     /\ entry.sh_offset = offset /\ entry.idx = idx
    BY <1>6 DEF RecordShdr
  <2>3. /\ offset < file.length
        /\ idx' = idx + 1 /\ offset' = (offset + file.shentsize) % M
    BY <1>6 DEF RecordShdr
  <2>4. /\ Len(shdr) \in Nat /\ Len(shdr') = Len(shdr) + 1
        /\ shdr'[Len(shdr) + 1] = entry
        /\ \A i \in 1..Len(shdr) : shdr'[i] = shdr[i]
    BY <2>2 DEF TypeOK
  <2>5. idx' = Len(shdr') /\ idx' <= file.shnum
    BY <1>2, <2>1, <2>3, <2>4
  <2>6. SmallImage => /\ offset' = file.shoff + (idx + 1) * file.shentsize
                      /\ offset = file.shoff + ((idx + 1) - 1) * file.shentsize
    <3>1. SUFFICES ASSUME SmallImage
                   PROVE  /\ offset' = file.shoff + (idx + 1) * file.shentsize
                          /\ offset = file.shoff + ((idx + 1) - 1) * file.shentsize
      OBVIOUS
    <3>2. offset \in Nat /\ idx \in Nat
      BY <2>1, <2>4, RunWidths DEF TypeOK
    <3>3. offset = file.shoff + idx * file.shentsize
      BY <1>1, <2>1, <3>1 DEF ShdrInv
    <3>4. offset' = offset + file.shentsize
      BY <1>2, <2>3, <3>1, <3>2, NoWrap
    <3>5. QED
      BY <1>2, <3>2, <3>3, <3>4, NextPlace
  <2>7. \A i \in 1..Len(shdr') :
           /\ shdr'[i].idx = i - 1
           /\ shdr'[i].sh_offset < file.length
           /\ SmallImage => shdr'[i].sh_offset = file.shoff + (i - 1) * file.shentsize
    <3>1. \A i \in 1..Len(shdr) :
             /\ shdr[i].idx = i - 1
             /\ shdr[i].sh_offset < file.length
             /\ SmallImage => shdr[i].sh_offset = file.shoff + (i - 1) * file.shentsize
      BY <1>1 DEF ShdrInv, ShdrPlaced
    <3>2. TAKE i \in 1..Len(shdr')
    <3>3. CASE i = Len(shdr) + 1
      BY <2>1, <2>2, <2>3, <2>4, <2>6, <3>3
    <3>4. CASE i \in 1..Len(shdr)
      BY <2>4, <3>1, <3>4
    <3>5. QED
      BY <2>4, <3>2, <3>3, <3>4
  <2>8. QED
    BY <1>1, <2>1, <2>3, <2>5, <2>6, <2>7 DEF ShdrInv, ShdrPlaced, Accepted
<1>7. CASE LinkStrtabs
  <2>1. shdr' = shdr /\ pc = "shdr" /\ pc' \in {"symtab", "done"}
    BY <1>7 DEF LinkStrtabs
  <2>2. pc' = "symtab" => idx = file.shnum
    BY <1>7 DEF LinkStrtabs, EFAULT
  <2>3. pc' = "done" => r' # 0
    BY <1>7 DEF LinkStrtabs
  <2>4. QED
    BY <1>1, <2>1, <2>2, <2>3 DEF ShdrInv, ShdrPlaced, Accepted
<1>8. CASE GetSymSections
  <2>1. shdr' = shdr /\ pc = "symtab" /\ pc' \in {"syms", "done"}
    BY <1>8 DEF GetSymSections, Leave
  <2>2. QED
    BY <1>1, <2>1 DEF ShdrInv, ShdrPlaced, Accepted
<1>9. CASE SymOutOfScope \/ SymWithoutStrtab \/ SymNameOutOfScope \/ RecordSym \/ SymsDone
  <2>1. shdr' = shdr /\ pc = "syms" /\ pc' \in {"syms", "done", "crashed"}
    BY <1>9 DEF SymIteration, SymOutOfScope, SymWithoutStrtab, SymNameOutOfScope,
                RecordSym, SymsDone
  <2>2. QED
    BY <1>1, <2>1 DEF ShdrInv, ShdrPlaced, Accepted
<1>10. CASE CrashBehindImage
  BY <1>1, <1>10 DEF CrashBehindImage, ShdrInv, ShdrPlaced, Accepted
<1>11. CASE UNCHANGED vars
  BY <1>1, <1>11 DEF vars, ShdrInv, ShdrPlaced, Accepted
<1>12. QED
  BY <1>3, <1>4, <1>5, <1>6, <1>7, <1>8, <1>9, <1>10, <1>11 DEF Next, Finished

(* Sections are entries of the image: they only depend on the list.        *)
LEMMA SectionsStable ==
  ASSUME file' = file, shdr' = shdr
  PROVE  /\ \A t : SectionsOfType(t)' = SectionsOfType(t)
         /\ \A n : StrtabsWithIdx(n)' = StrtabsWithIdx(n)
         /\ \A p : Section(p)' = Section(p)
BY DEF SectionsOfType, StrtabsWithIdx, Section

LEMMA SymtabInvStep == TypeOK /\ IInv /\ [Next]_vars => SymtabInv'
<1> SUFFICES ASSUME TypeOK, IInv, [Next]_vars PROVE SymtabInv'
  OBVIOUS
<1> USE DEF lists, strtabs, ident, locals, Entering, EINVAL, EFAULT, NULL
<1> DEFINE Symtabs == SectionsOfType(SHT_SYMTAB)
<1>1. PhaseInv /\ SymtabInv /\ file' = file
  BY FileStable DEF IInv
<1>2. Symtabs \subseteq 1..Len(shdr)
  BY DEF SectionsOfType
<1>3. ASSUME UNCHANGED <<shdr, strtab, symtab, symtabstrndx>>,
             r' # EINVAL, pc' = "symtab" => pc = "symtab", pc' = "syms" => pc = "syms"
      PROVE  SymtabInv'
  <2>1. /\ SectionsOfType(SHT_SYMTAB)' = Symtabs
        /\ StrtabsWithIdx(symtabstrndx)' = StrtabsWithIdx(symtabstrndx)
        /\ \A p : Section(p)' = Section(p)
    BY <1>1, <1>3, SectionsStable DEF SectionsOfType, StrtabsWithIdx, Section
  <2>2. QED
    BY <1>1, <1>3, <2>1 DEF SymtabInv
<1>4. CASE ParseEhdr
  BY <1>1, <1>3, <1>4 DEF ParseEhdr, Leave
<1>5. CASE ParsePhdrEntry
  BY <1>1, <1>3, <1>5 DEF ParsePhdrEntry
<1>6. CASE PhdrsDone
  BY <1>1, <1>3, <1>6 DEF PhdrsDone, Leave, SymtabInv
<1>7. CASE ShdrOutOfScope \/ ShdrNoMemory
  BY <1>1, <1>3, <1>7 DEF ShdrOutOfScope, ShdrNoMemory
<1>8. CASE RecordShdr
  <2> DEFINE entry == ShdrAt(file, offset)
  <2>0. PICK n \in Nat : n = Len(shdr) + 1
    BY DEF TypeOK
  <2>1. strtab' = NULL /\ symtab' = NULL /\ pc' = "shdr" /\ r' # EINVAL
    BY <1>1, <1>8 DEF RecordShdr, ShdrIteration, PhaseInv
  <2>2. /\ Len(shdr) \in Nat /\ Len(shdr') = n
        /\ shdr'[n].sh_offset = offset
        /\ \A i \in 1..Len(shdr) : shdr'[i] = shdr[i]
    BY <1>8, <2>0 DEF RecordShdr, TypeOK
  <2>3. Section(n)' = entry /\ \A i \in 1..Len(shdr) : Section(i)' = Section(i)
    BY <1>1, <2>0, <2>2 DEF Section
  <2>4. CASE entry.sh_type = SHT_SYMTAB
    <3>1. SectionsOfType(SHT_SYMTAB)' = Symtabs \cup {n}
      BY <2>0, <2>2, <2>3, <2>4 DEF SectionsOfType
    <3>2. IsLastOf(n, Symtabs \cup {n})
      BY <1>2, <2>0, <2>2 DEF IsLastOf
    <3>3. symtabstrndx' = ToInt(entry.sh_link)
      BY <1>8, <2>4 DEF RecordShdr
    <3>4. QED
      BY <2>1, <2>3, <3>1, <3>2, <3>3 DEF SymtabInv
  <2>5. CASE entry.sh_type # SHT_SYMTAB
    <3>1. SectionsOfType(SHT_SYMTAB)' = Symtabs
      BY <2>0, <2>2, <2>3, <2>5 DEF SectionsOfType
    <3>2. symtabstrndx' = symtabstrndx
      BY <1>8, <2>5 DEF RecordShdr
    <3>3. QED
      BY <1>1, <1>2, <2>1, <2>3, <3>1, <3>2 DEF SymtabInv
  <2>6. QED
    BY <2>4, <2>5
<1>9. CASE LinkStrtabs
  <2>1. /\ UNCHANGED <<shdr, symtab, symtabstrndx>> /\ pc' \in {"symtab", "done"}
        /\ symtab = NULL /\ r' # EINVAL
    BY <1>1, <1>9 DEF LinkStrtabs, PhaseInv, SymtabInv
  <2>2. /\ SectionsOfType(SHT_SYMTAB)' = Symtabs
        /\ StrtabsWithIdx(symtabstrndx)' = StrtabsWithIdx(symtabstrndx)
        /\ \A p : Section(p)' = Section(p)
    BY <1>1, <2>1, SectionsStable DEF SectionsOfType, StrtabsWithIdx, Section
  <2>3. CASE r' = 0
    <3>1. symtabstrndx >= 0
      BY <1>9, <2>3 DEF LinkStrtabs, TypeOK
    <3>2. strtab' # NULL => strtab' \in StrtabsWithIdx(symtabstrndx)
      BY <1>9, <2>3 DEF LinkStrtabs, IsLastOf
    <3>3. QED
      BY <1>1, <2>1, <2>2, <3>1, <3>2 DEF SymtabInv
  <2>4. CASE r' # 0
    <3>1. strtab' = strtab /\ pc' = "done"
      BY <1>9, <2>4 DEF LinkStrtabs
    <3>2. QED
      BY <1>3, <2>1, <3>1
  <2>5. QED
    BY <2>3, <2>4
<1>10. CASE GetSymSections
  <2>1. /\ UNCHANGED <<shdr, strtab, symtabstrndx>> /\ pc = "symtab"
        /\ pc' \in {"syms", "done"}
    BY <1>10 DEF GetSymSections, Leave
  <2>2. Symtabs # {}
    BY <1>1, <2>1 DEF SymtabInv, NoSymtabYet
  <2>3. symtab' \in Symtabs /\ IsLastOf(symtab', Symtabs)
    BY <1>10, <2>2 DEF GetSymSections, IsLastOf
  <2>4. symtab' # NULL
    BY <1>2, <2>3
  <2>5. r' = 0
    BY <1>10, <2>4 DEF GetSymSections
  <2>6. /\ SectionsOfType(SHT_SYMTAB)' = Symtabs
        /\ StrtabsWithIdx(symtabstrndx)' = StrtabsWithIdx(symtabstrndx)
        /\ \A p : Section(p)' = Section(p)
    BY <1>1, <2>1, SectionsStable DEF SectionsOfType, StrtabsWithIdx, Section
  <2>7. QED
    BY <1>1, <2>1, <2>3, <2>4, <2>5, <2>6 DEF SymtabInv
<1>11. CASE SymOutOfScope \/ SymWithoutStrtab \/ SymNameOutOfScope
  BY <1>1, <1>3, <1>11 DEF SymIteration, SymOutOfScope, SymWithoutStrtab,
                           SymNameOutOfScope, SymtabInv
<1>12. CASE RecordSym
  BY <1>1, <1>3, <1>12 DEF RecordSym, SymIteration
<1>13. CASE SymsDone \/ CrashBehindImage
  BY <1>1, <1>3, <1>13 DEF SymsDone, CrashBehindImage, SymtabInv
<1>14. CASE UNCHANGED vars
  BY <1>1, <1>3, <1>14 DEF vars, SymtabInv
<1>15. QED
  BY <1>4, <1>5, <1>6, <1>7, <1>8, <1>9, <1>10, <1>11, <1>12, <1>13, <1>14
     DEF Next, Finished

(* The section lookup, in closed form: wrapper n + 1 when it is not the    *)
(* last one, else the value kept from before.                              *)
LEMMA SectionLookup ==
  ASSUME TypeOK, ShdrInv, NEW n \in Half, NEW sect \in SectionOffset(n)
  PROVE  sect = IF n + 1 < Len(shdr) THEN shdr[n + 1].sh_offset ELSE lastSect
<1> DEFINE found == {p \in 1..(Len(shdr) - 1) : shdr[p].idx = n}
<1>1. Len(shdr) \in Nat /\ n \in Nat /\ HalfMod \in Nat
  BY WidthAssumption DEF TypeOK, Half
<1>2. \A p \in 1..(Len(shdr) - 1) : shdr[p].idx = n <=> p = n + 1
  BY <1>1 DEF ShdrInv
<1>3. CASE n + 1 < Len(shdr)
  <2>1. found = {n + 1}
    BY <1>1, <1>2, <1>3
  <2>2. QED
    BY <1>3, <2>1 DEF SectionOffset
<1>4. CASE ~(n + 1 < Len(shdr))
  <2>1. found = {}
    BY <1>1, <1>2, <1>4
  <2>2. QED
    BY <1>4, <2>1 DEF SectionOffset
<1>5. QED
  BY <1>3, <1>4

(* A symbol that passes the scope test lies in the image, and not before   *)
(* its table, unless a sum wraps.                                          *)
LEMMA ScopedInImage ==
  ASSUME TypeOK, SymtabInv, RecordSym
  PROVE  /\ file.class = ELFCLASS32 \/ TableFits =>
              SymOffset + SizeofSym(file.class) <= file.length
         /\ TableFits => Section(symtab).sh_offset <= SymOffset
<1>1. /\ Section(symtab) \in Shdr(file.class) /\ offset \in Offset(file.class)
      /\ file.length \in Nat /\ M = Modulus(file.class)
  BY AccessorTypes, RunWidths DEF TypeOK, Section, M
<1>2. PICK at \in Offset(file.class), start \in Offset(file.class),
           size \in Offset(file.class), length \in Nat :
        /\ at = offset /\ length = file.length
        /\ start = Section(symtab).sh_offset /\ size = Section(symtab).sh_size
  BY <1>1 DEF Shdr
<1>3. PICK place : place = SymOffset
  OBVIOUS
<1>4. /\ at < size /\ place = (at + start) % M /\ (place + 64) % XwordMod <= length
      /\ TableFits => start + size + 64 <= M
  BY <1>2, <1>3 DEF RecordSym, SymIteration, SymScoped, SymOffset, TableFits, SizeofShdr64
<1>5. PICK symsize \in 16..24 : symsize = SizeofSym(file.class)
  BY DEF SizeofSym
<1>6. SUFFICES /\ file.class = ELFCLASS32 \/ TableFits => place + symsize <= length
               /\ TableFits => start <= place
  BY <1>2, <1>3, <1>5
<1>7. CASE file.class = ELFCLASS32
  <2>1. M = WordMod /\ at \in 0..(WordMod - 1) /\ start \in 0..(WordMod - 1)
        /\ size \in 0..(WordMod - 1) /\ WordMod \in Nat /\ 128 <= WordMod
    BY <1>1, <1>7, WidthAssumption DEF Modulus, Offset
  <2>2. place \in 0..(WordMod - 1)
    BY <1>4, <2>1
  <2>3. (place + 64) % XwordMod = place + 64
    BY <2>1, <2>2, WidthAssumption
  <2>4. place + symsize <= length
    BY <1>4, <2>2, <2>3
  <2>5. TableFits => place = at + start
    BY <1>4, <2>1
  <2>6. QED
    BY <2>1, <2>4, <2>5
<1>8. CASE file.class # ELFCLASS32
  <2>1. M = XwordMod /\ at \in 0..(XwordMod - 1) /\ start \in 0..(XwordMod - 1)
        /\ size \in 0..(XwordMod - 1) /\ XwordMod \in Nat
    BY <1>1, <1>8, WidthAssumption DEF Modulus, Offset
  <2>2. SUFFICES ASSUME TableFits
                 PROVE  place + symsize <= length /\ start <= place
    BY <1>8
  <2>3. at + start \in Nat /\ at + start + 64 < XwordMod
    BY <1>4, <2>1, <2>2
  <2>4. place = at + start
    BY <1>4, <2>1, <2>3
  <2>5. (place + 64) % XwordMod = place + 64
    BY <2>1, <2>3, <2>4
  <2>6. QED
    BY <1>4, <2>1, <2>4, <2>5
<1>9. QED
  BY <1>7, <1>8

LEMMA SymsInvStep == TypeOK /\ IInv /\ [Next]_vars => SymsInv'
<1> SUFFICES ASSUME TypeOK, IInv, [Next]_vars PROVE SymsInv'
  OBVIOUS
<1> USE DEF lists, strtabs, ident, locals, Entering
<1>1. PhaseInv /\ ShdrInv /\ SymtabInv /\ SymsInv /\ file' = file
  BY FileStable DEF IInv
<1>2. ASSUME syms = <<>>, syms' = <<>>, lastSect = 0, lastSect' = 0
      PROVE  SymsInv'
  BY <1>2 DEF SymsInv, RecordedSyms, SymsInImage, SymSectionTrace
<1>0. ASSUME UNCHANGED <<shdr, strtab, symtab>>
      PROVE  M' = M /\ Section(strtab)' = Section(strtab) /\ TableFits' = TableFits
             /\ Section(symtab)' = Section(symtab)
  <2>1. M' = M /\ Section(strtab)' = Section(strtab) /\ Section(symtab)' = Section(symtab)
    BY <1>0, <1>1 DEF M, Section
  <2>2. QED
    BY <2>1 DEF TableFits
<1>3. ASSUME UNCHANGED <<syms, shdr, strtab, symtab, lastSect>>, pc' = "syms" => pc = "syms",
             r' = 0 => r = 0
      PROVE  SymsInv'
  BY <1>0, <1>1, <1>3 DEF SymsInv, RecordedSyms, SymsInImage, SymSectionTrace
<1>4. CASE ParseEhdr \/ ParsePhdrEntry \/ PhdrsDone
  BY <1>1, <1>2, <1>4 DEF ParseEhdr, ParsePhdrEntry, PhdrsDone, PhaseInv
<1>5. CASE ShdrOutOfScope \/ ShdrNoMemory \/ RecordShdr \/ LinkStrtabs
  BY <1>1, <1>2, <1>5 DEF ShdrOutOfScope, ShdrNoMemory, RecordShdr, ShdrIteration,
                          LinkStrtabs, PhaseInv
<1>6. CASE GetSymSections
  BY <1>1, <1>2, <1>6 DEF GetSymSections, PhaseInv
<1>7. CASE SymOutOfScope \/ SymWithoutStrtab \/ SymNameOutOfScope
  BY <1>3, <1>7 DEF SymOutOfScope, SymWithoutStrtab, SymNameOutOfScope, SymIteration, EFAULT
<1>8. CASE SymsDone \/ CrashBehindImage
  BY <1>3, <1>8 DEF SymsDone, CrashBehindImage
<1>9. CASE UNCHANGED vars
  BY <1>3, <1>9 DEF vars
<1>10. CASE RecordSym
  <2>1. /\ pc = "syms" /\ r = 0 /\ SymScoped /\ strtab # NULL
        /\ NameOffset <= file.length
        /\ UNCHANGED <<shdr, strtab, symtab>>
    BY <1>10 DEF RecordSym, SymIteration
  <2>2. /\ M' = M /\ Section(strtab)' = Section(strtab)
        /\ TableFits' = TableFits /\ Section(symtab)' = Section(symtab)
    BY <1>0, <2>1
  <2>0. PICK stored \in LstNew, sect \in SectionOffset(SymAt(file, SymOffset).st_shndx) :
          \E entry :
            /\ entry.sh_offset = sect /\ entry.sym_offset = SymOffset
            /\ entry.name = NameOffset
            /\ syms' = IF stored THEN Append(syms, entry) ELSE syms
            /\ r' = IF stored THEN 0 ELSE EFAULT
            /\ lastSect' = sect
    BY <1>10 DEF RecordSym
  <2>3. PICK entry :
          /\ entry.sh_offset = sect /\ entry.sym_offset = SymOffset
          /\ entry.name = NameOffset
          /\ syms' = IF stored THEN Append(syms, entry) ELSE syms
          /\ r' = IF stored THEN 0 ELSE EFAULT
          /\ lastSect' = sect
    BY <2>0
  <2>4. CASE ~stored
    <3>1. syms' = syms /\ r' # 0
      BY <2>3, <2>4 DEF EFAULT
    <3>2. QED
      BY <1>1, <2>1, <2>2, <3>1 DEF SymsInv, RecordedSyms, SymsInImage, SymSectionTrace
  <2>5. CASE stored
    <3> DEFINE n == SymAt(file, SymOffset).st_shndx
    <3>1. n \in Half
      BY AccessorTypes DEF TypeOK, Sym
    <3>2. sect = IF n + 1 < Len(shdr) THEN shdr[n + 1].sh_offset ELSE lastSect
      BY <1>1, <2>3, <3>1, SectionLookup
    <3>3. lastSect = IF syms = <<>> THEN 0 ELSE syms[Len(syms)].sh_offset
      BY <1>1, <2>1 DEF SymsInv
    <3>4. /\ Len(syms) \in Nat /\ Len(syms') = Len(syms) + 1
          /\ syms'[Len(syms) + 1] = entry
          /\ \A i \in 1..Len(syms) : syms'[i] = syms[i]
          /\ syms' # <<>> /\ (syms = <<>> <=> Len(syms) = 0)
      BY <2>3, <2>5 DEF TypeOK
    <3>5. RecordedSyms'
      <4>1. SUFFICES ASSUME NEW i \in 1..Len(syms')
                     PROVE  /\ symtab # NULL /\ strtab # NULL
                            /\ syms'[i].name <= file.length
                            /\ syms'[i].name =
                                 (SymAt(file, syms'[i].sym_offset).st_name
                                    + Section(strtab).sh_offset) % M
        BY <1>1, <2>1, <2>2 DEF RecordedSyms
      <4>2. CASE i = Len(syms) + 1
        BY <1>1, <2>1, <2>3, <3>4, <4>2 DEF NameOffset, SymtabInv
      <4>3. CASE i \in 1..Len(syms)
        BY <1>1, <3>4, <4>3 DEF SymsInv, RecordedSyms
      <4>4. QED
        BY <3>4, <4>2, <4>3
    <3>9. SymsInImage'
      <4>1. SUFFICES ASSUME NEW i \in 1..Len(syms')
                     PROVE  /\ file.class = ELFCLASS32 \/ TableFits =>
                                 syms'[i].sym_offset + SizeofSym(file.class) <= file.length
                            /\ TableFits => Section(symtab).sh_offset <= syms'[i].sym_offset
        BY <1>1, <2>1, <2>2 DEF SymsInImage
      <4>2. CASE i = Len(syms) + 1
        <5>1. syms'[i].sym_offset = SymOffset
          BY <2>3, <3>4, <4>2
        <5>2. QED
          BY <1>1, <1>10, <5>1, ScopedInImage
      <4>3. CASE i \in 1..Len(syms)
        BY <1>1, <3>4, <4>3 DEF SymsInv, SymsInImage
      <4>4. QED
        BY <3>4, <4>2, <4>3
    <3>6. SymSectionTrace'
      <4> DEFINE shndx(i) == SymAt(file, syms'[i].sym_offset).st_shndx
      <4>1. SUFFICES ASSUME NEW i \in 1..Len(syms')
                     PROVE  syms'[i].sh_offset =
                              IF shndx(i) + 1 < Len(shdr) THEN shdr[shndx(i) + 1].sh_offset
                              ELSE IF i = 1 THEN 0 ELSE syms'[i - 1].sh_offset
        BY <1>1, <2>1 DEF SymSectionTrace
      <4>2. CASE i = Len(syms) + 1
        <5>1. syms'[i].sh_offset = sect /\ shndx(i) = n
          BY <2>3, <3>4, <4>2
        <5>2. lastSect = IF i = 1 THEN 0 ELSE syms'[i - 1].sh_offset
          BY <3>3, <3>4, <4>2
        <5>3. QED
          BY <3>2, <5>1, <5>2
      <4>3. CASE i \in 1..Len(syms)
        BY <1>1, <3>4, <4>3 DEF SymsInv, SymSectionTrace
      <4>4. QED
        BY <3>4, <4>2, <4>3
    <3>7. lastSect' = syms'[Len(syms')].sh_offset
      BY <2>3, <3>4
    <3>8. QED
      BY <3>4, <3>5, <3>6, <3>7, <3>9 DEF SymsInv
  <2>6. QED
    BY <2>4, <2>5
<1>11. QED
  BY <1>4, <1>5, <1>6, <1>7, <1>8, <1>9, <1>10 DEF Next, Finished

(* What holds in every reachable state.                                    *)
THEOREM InductiveInvariant == Spec => []IInv
<1>1. TypeOK /\ IInv /\ [Next]_vars => IInv'
  BY PhaseInvStep, PhdrInvStep, ShdrInvStep, SymtabInvStep, SymsInvStep DEF IInv
<1>2. QED
  BY InitInv, TypeCorrect, <1>1, PTL DEF Spec

----------------------------------------------------------------------------
(* The safety properties.                                                  *)

(* The header check and the loop checks together: if the product did not   *)
(* overflow, the check bounds the table's end; if it did, the loop could   *)
(* not have reached the last entry inside so small an image.               *)
LEMMA TableInImage ==
  ASSUME NEW f, IsFile(f), 2 * (f.length + HalfMod) < WordMod,
         NEW ent \in Half, NEW num \in Half, NEW off \in Nat,
         NEW end \in TableEnds(f, ent, num, off), end <= f.length, off <= f.length,
         num > 0 => off + (num - 1) * ent < f.length
  PROVE  \A i \in 1..num : off + (i - 1) * ent + ent <= f.length
<1>1. /\ f.length \in Nat /\ ent \in Nat /\ num \in Nat
      /\ HalfMod \in Nat /\ WordMod \in Nat /\ ent < HalfMod
      /\ Modulus(f.class) \in Nat \ {0} /\ WordMod <= Modulus(f.class)
  BY WidthAssumption, WidthFacts DEF IsFile, Half
<1>2. CASE num = 0
  BY <1>1, <1>2
<1>3. CASE num # 0
  <2>1. off + num * ent <= f.length + ent
    BY <1>1, <1>3
  <2>2. 2 * (ent * num) < WordMod
    BY <1>1, <2>1
  <2>3. end = (ent * num + off) % Modulus(f.class)
    BY <2>2 DEF TableEnds, IntProducts
  <2>4. ent * num + off < Modulus(f.class) /\ ent * num + off \in Nat
    BY <1>1, <2>2
  <2>5. end = ent * num + off
    BY <1>1, <2>3, <2>4
  <2>6. \A i \in 1..num : (i - 1) * ent + ent <= ent * num
    BY <1>1
  <2>7. QED
    BY <1>1, <2>5, <2>6
<1>4. QED
  BY <1>2, <1>3

(* Every entry of an accepted image lies inside it, whole.                 *)
THEOREM EntriesInImage == Spec => []AcceptedEntriesInImage
<1>1. TypeOK /\ IInv => AcceptedEntriesInImage
  <2> SUFFICES ASSUME TypeOK, IInv, Accepted, SmallImage
               PROVE  /\ \A i \in 1..Len(phdr) :
                           phdr[i].p_offset + file.phentsize <= file.length
                      /\ \A i \in 1..Len(shdr) :
                           shdr[i].sh_offset + file.shentsize <= file.length
    BY DEF AcceptedEntriesInImage, SmallImage
  <2>1. /\ Len(phdr) = file.phnum /\ Len(shdr) = file.shnum
        /\ \A i \in 1..Len(phdr) : phdr[i].p_offset < file.length /\ PhdrPlaced(i)
        /\ \A i \in 1..Len(shdr) : shdr[i].sh_offset < file.length /\ ShdrPlaced(i)
    BY DEF IInv, PhdrInv, ShdrInv
  <2>2. PICK phend \in TableEnds(file, file.phentsize, file.phnum, file.phoff),
             shend \in TableEnds(file, file.shentsize, file.shnum, file.shoff) :
          TablesScoped(file, phend, shend)
    BY DEF IInv, PhaseInv, Scoped
  <2>3. /\ IsFile(file) /\ 2 * (file.length + HalfMod) < WordMod
        /\ file.phoff \in Nat /\ file.shoff \in Nat
        /\ file.phentsize \in Half /\ file.phnum \in Half
        /\ file.shentsize \in Half /\ file.shnum \in Half
        /\ file.phnum \in Nat /\ file.shnum \in Nat
    <3>1. 2 * (file.length + HalfMod) < WordMod
      BY DEF SmallImage
    <3>2. \A h \in Half : h \in Nat
      BY WidthAssumption DEF Half
    <3>3. QED
      BY RunWidths, <3>1, <3>2
  <2>4. file.phnum > 0 => file.phoff + (file.phnum - 1) * file.phentsize < file.length
    BY <2>1, <2>3 DEF PhdrPlaced
  <2>5. file.shnum > 0 => file.shoff + (file.shnum - 1) * file.shentsize < file.length
    BY <2>1, <2>3 DEF ShdrPlaced
  <2>6. \A i \in 1..file.phnum :
           file.phoff + (i - 1) * file.phentsize + file.phentsize <= file.length
    BY <2>2, <2>3, <2>4, TableInImage DEF TablesScoped
  <2>7. \A i \in 1..file.shnum :
           file.shoff + (i - 1) * file.shentsize + file.shentsize <= file.length
    BY <2>2, <2>3, <2>5, TableInImage DEF TablesScoped
  <2>8. QED
    BY <2>1, <2>6, <2>7 DEF PhdrPlaced, ShdrPlaced
<1>2. QED
  BY <1>1, TypeCorrect, InductiveInvariant, PTL

(* The string table is the one the symbol table links to.                  *)
THEOREM StrtabIsSymtabs == Spec => []StrtabBelongsToSymtab
<1>1. TypeOK /\ IInv => StrtabBelongsToSymtab
  <2> SUFFICES ASSUME TypeOK, IInv, symtab # NULL, strtab # NULL
               PROVE  /\ Section(strtab).sh_type = SHT_STRTAB
                      /\ Section(symtab).sh_type = SHT_SYMTAB
                      /\ shdr[strtab].idx = Section(symtab).sh_link
    BY DEF StrtabBelongsToSymtab
  <2> DEFINE Symtabs == SectionsOfType(SHT_SYMTAB)
  <2>1. /\ strtab \in StrtabsWithIdx(symtabstrndx) /\ symtabstrndx >= 0
        /\ symtab \in Symtabs /\ IsLastOf(symtab, Symtabs)
    BY DEF IInv, SymtabInv
  <2>2. PICK q \in Symtabs : IsLastOf(q, Symtabs) /\ symtabstrndx = ToInt(Section(q).sh_link)
    BY <2>1 DEF IInv, SymtabInv
  <2>3. q = symtab
    <3>1. Symtabs \subseteq 1..Len(shdr) /\ Len(shdr) \in Nat
      BY DEF SectionsOfType, TypeOK
    <3>2. q <= symtab /\ symtab <= q
      BY <2>1, <2>2 DEF IsLastOf
    <3>3. QED
      BY <2>1, <2>2, <3>1, <3>2
  <2>4. Section(symtab).sh_link \in Word
    BY AccessorTypes DEF Section, TypeOK, Shdr
  <2>5. symtabstrndx = Section(symtab).sh_link
    BY <2>1, <2>2, <2>3, <2>4, WidthAssumption DEF ToInt, Word
  <2>6. QED
    BY <2>1, <2>5 DEF StrtabsWithIdx, SectionsOfType
<1>2. QED
  BY <1>1, TypeCorrect, InductiveInvariant, PTL

(* The symbol table elftool_parse_shdr saw is found again.                 *)
THEOREM SymtabFoundAgain == Spec => []SymtabNeverMissing
<1>1. IInv => SymtabNeverMissing
  BY DEF IInv, SymtabInv, SymtabNeverMissing
<1>2. QED
  BY <1>1, InductiveInvariant, PTL

(* Recorded symbols lie in the image, whole, and not before their table:   *)
(* every one of a 32-bit image, and of a 64-bit image whose table fits.    *)
THEOREM SymsLieInImage == Spec => []SymsInImage
<1>1. IInv => SymsInImage
  BY DEF IInv, SymsInv
<1>2. QED
  BY <1>1, InductiveInvariant, PTL

(* The section header each symbol carries, also when it is a stale one.    *)
THEOREM SymSections == Spec => []SymSectionTrace
<1>1. IInv => SymSectionTrace
  BY DEF IInv, SymsInv
<1>2. QED
  BY <1>1, InductiveInvariant, PTL

----------------------------------------------------------------------------
(* The parser implements its view.                                         *)

(* What the view reads of an image is what the parser reads.               *)
LEMMA SameLayout ==
  /\ \A f, o : /\ View!PhdrOffsetAt(f, o) = PhdrOffsetAt(f, o)
               /\ View!ShdrAt(f, o) = ShdrAt(f, o) /\ View!SymAt(f, o) = SymAt(f, o)
  /\ \A c : View!Modulus(c) = Modulus(c)
  /\ \A w : View!ToInt(w) = ToInt(w)
  /\ \A f : /\ View!PhdrEnds(f) = TableEnds(f, f.phentsize, f.phnum, f.phoff)
            /\ View!ShdrEnds(f) = TableEnds(f, f.shentsize, f.shnum, f.shoff)
            /\ View!IdentAccepted(f) <=> IdentAccepted(f)
  /\ \A f, p, s : View!TablesScoped(f, p, s) <=> TablesScoped(f, p, s)
<1>1. \A f, o : View!PhdrOffsetAt(f, o) = PhdrOffsetAt(f, o)
  BY DEF View!PhdrOffsetAt, PhdrOffsetAt
<1>2. \A f, o : View!ShdrAt(f, o) = ShdrAt(f, o)
  BY DEF View!ShdrAt, ShdrAt, View!ZeroShdr, ZeroShdr, View!SHT_NULL, SHT_NULL
<1>3. \A f, o : View!SymAt(f, o) = SymAt(f, o)
  BY DEF View!SymAt, SymAt, View!ZeroSym, ZeroSym
<1>4. \A c : View!Modulus(c) = Modulus(c)
  BY DEF View!Modulus, Modulus, View!ELFCLASS32, ELFCLASS32
<1>5. \A w : View!ToInt(w) = ToInt(w)
  BY DEF View!ToInt, ToInt
<1>6. \A a, b : View!IntProducts(a, b) = IntProducts(a, b)
  BY DEF View!IntProducts, IntProducts
<1>7. \A f, e, n, o : View!TableEnds(f, e, n, o) = TableEnds(f, e, n, o)
  BY <1>4, <1>6 DEF View!TableEnds, TableEnds
<1>8. \A f : View!IdentAccepted(f) <=> IdentAccepted(f)
  BY DEF View!IdentAccepted, IdentAccepted, View!DataReached, DataReached, View!ClassReached,
         ClassReached, View!Class, Class, View!Data, Data, View!EhdrMin, EhdrMin,
         View!ELFCLASS32, ELFCLASS32, View!ELFCLASS64, ELFCLASS64,
         View!ELFDATA2LSB, ELFDATA2LSB, View!ELFDATA2MSB, ELFDATA2MSB
<1>9. \A f, p, s : View!TablesScoped(f, p, s) <=> TablesScoped(f, p, s)
  BY DEF View!TablesScoped, TablesScoped
<1>10. QED
  BY <1>1, <1>2, <1>3, <1>4, <1>5, <1>7, <1>8, <1>9 DEF View!PhdrEnds, View!ShdrEnds

----------------------------------------------------------------------------
(* Sums that wrap at every step wrap to the same as a product that wraps   *)
(* at the end.                                                             *)
LEMMA Multiples ==
  ASSUME NEW m \in Nat \ {0}, NEW k \in Int, NEW d \in Int, k * m = d, -m < d, d < m
  PROVE  d = 0
<1>1. CASE k = 0
  BY <1>1
<1>2. CASE k >= 1
  <2>1. k * m >= m
    BY <1>2
  <2>2. QED
    BY <2>1
<1>3. CASE k <= -1
  <2>1. k * m <= -m
    BY <1>3
  <2>2. QED
    BY <2>1
<1>4. QED
  BY <1>1, <1>2, <1>3

LEMMA ModSum ==
  ASSUME NEW a \in Int, NEW b \in Int, NEW m \in Nat \ {0}
  PROVE  ((a % m) + b) % m = (a + b) % m
<1> DEFINE s == a % m
           p == a \div m
           x == a + b
           y == s + b
<1>1. s \in 0..(m - 1) /\ p \in Int /\ a = p * m + s
  OBVIOUS
<1> HIDE DEF s, p
<1>2. x \in Int /\ y \in Int /\ x - y = p * m
  BY <1>1
<1>3. PICK u, v, g, h : u = x \div m /\ v = y \div m /\ g = x % m /\ h = y % m
  OBVIOUS
<1> HIDE DEF x, y
<1>4. /\ u \in Int /\ v \in Int /\ g \in 0..(m - 1) /\ h \in 0..(m - 1)
      /\ x = u * m + g /\ y = v * m + h
  BY <1>2, <1>3
<1>5. (p - u + v) * m = g - h
  BY <1>1, <1>2, <1>4
<1>6. g - h \in Int /\ -m < g - h /\ g - h < m /\ p - u + v \in Int
  BY <1>1, <1>4
<1>7. g - h = 0
  BY <1>5, <1>6, Multiples
<1>8. g = h
  BY <1>4, <1>7
<1>9. QED
  BY <1>3, <1>8 DEF x, y, s

LEMMA WrappedPlace ==
  ASSUME NEW b \in Int, NEW e \in Int, NEW k \in Nat, NEW m \in Nat \ {0}
  PROVE  (((b + k * e) % m) + e) % m = (b + (k + 1) * e) % m
<1>1. PICK a : a = b + k * e
  OBVIOUS
<1>2. a \in Int /\ a + e = b + (k + 1) * e
  BY <1>1
<1>3. ((a % m) + e) % m = (a + e) % m
  BY <1>2, ModSum
<1>4. QED
  BY <1>1, <1>2, <1>3

(* The places of table entries, one after another.                         *)
LEMMA Places ==
  ASSUME TypeOK
  PROVE  /\ View!PhdrPlace(file, 1) = file.phoff /\ View!ShdrPlace(file, 1) = file.shoff
         /\ \A k \in Nat :
              /\ (View!PhdrPlace(file, k + 1) + file.phentsize) % M = View!PhdrPlace(file, k + 2)
              /\ (View!ShdrPlace(file, k + 1) + file.shentsize) % M = View!ShdrPlace(file, k + 2)
<1>1. /\ \A i : /\ View!PhdrPlace(file, i) = (file.phoff + (i - 1) * file.phentsize) % M
                /\ View!ShdrPlace(file, i) = (file.shoff + (i - 1) * file.shentsize) % M
  BY SameLayout DEF View!PhdrPlace, View!ShdrPlace, M
<1>2. /\ M \in Nat \ {0} /\ file.phoff \in 0..(M - 1) /\ file.shoff \in 0..(M - 1)
      /\ file.phentsize \in Int /\ file.shentsize \in Int
  BY RunWidths, WidthAssumption DEF Half
<1>3. View!PhdrPlace(file, 1) = file.phoff /\ View!ShdrPlace(file, 1) = file.shoff
  <2>1. /\ file.phoff + (1 - 1) * file.phentsize = file.phoff
        /\ file.shoff + (1 - 1) * file.shentsize = file.shoff
    BY <1>2
  <2>2. \A x \in 0..(M - 1) : x % M = x
    BY <1>2
  <2>3. QED
    BY <1>1, <1>2, <2>1, <2>2
<1>4. ASSUME NEW k \in Nat
      PROVE  /\ (View!PhdrPlace(file, k + 1) + file.phentsize) % M = View!PhdrPlace(file, k + 2)
             /\ (View!ShdrPlace(file, k + 1) + file.shentsize) % M = View!ShdrPlace(file, k + 2)
  <2>1. (k + 1) - 1 = k /\ (k + 2) - 1 = k + 1
    OBVIOUS
  <2>2. /\ View!PhdrPlace(file, k + 1) = (file.phoff + k * file.phentsize) % M
        /\ View!PhdrPlace(file, k + 2) = (file.phoff + (k + 1) * file.phentsize) % M
        /\ View!ShdrPlace(file, k + 1) = (file.shoff + k * file.shentsize) % M
        /\ View!ShdrPlace(file, k + 2) = (file.shoff + (k + 1) * file.shentsize) % M
    BY <1>1, <2>1
  <2>3. /\ file.phoff \in Int /\ file.shoff \in Int
    BY <1>2
  <2>4. PICK m, a, e, b, g : /\ m = M /\ a = file.phoff /\ e = file.phentsize
                             /\ b = file.shoff /\ g = file.shentsize
    OBVIOUS
  <2>5. m \in Nat \ {0} /\ a \in Int /\ e \in Int /\ b \in Int /\ g \in Int
    BY <1>2, <2>3, <2>4
  <2>6. (((a + k * e) % m) + e) % m = (a + (k + 1) * e) % m
    BY <2>5, WrappedPlace
  <2>7. (((b + k * g) % m) + g) % m = (b + (k + 1) * g) % m
    BY <2>5, WrappedPlace
  <2>8. QED
    BY <2>2, <2>4, <2>6, <2>7
<1>5. QED
  BY <1>3, <1>4

LEMMA Linked ==
  ASSUME TypeOK, NEW p, NEW hits, hits \subseteq 1..Len(shdr), IsLastOf(p, hits)
  PROVE  p = NULL <=> hits = {}
<1>1. Len(shdr) \in Nat
  BY DEF TypeOK
<1>2. QED
  BY <1>1 DEF IsLastOf, NULL

LEMMA StrtabsStable ==
  ASSUME file' = file, shdr' = shdr
  PROVE  \A n : StrtabsWithIdx(n)' = StrtabsWithIdx(n)
BY DEF StrtabsWithIdx, SectionsOfType, Section

LEMMA ListsInvStep ==
  ASSUME TypeOK, IInv, ListsInv, [Next]_vars
  PROVE  ListsInv'
<1> USE DEF lists, strtabs, ident, locals
<1>1. /\ file' = file /\ PhaseInv /\ PhdrInv /\ ShdrInv
      /\ Len(phdr) \in Nat /\ Len(shdr) \in Nat /\ Len(syms) \in Nat
  BY FileStable DEF IInv, TypeOK
<1>2. /\ View!PhdrPlace(file, 1) = file.phoff /\ View!ShdrPlace(file, 1) = file.shoff
  BY Places
<1>3. shdr' = shdr => \A n : StrtabsWithIdx(n)' = StrtabsWithIdx(n)
  BY <1>1, StrtabsStable
<1>4. CASE ParseEhdr
  <2>1. /\ UNCHANGED <<phdr, shdr, syms>> /\ phdr = <<>> /\ pc' \in {"phdr", "done"}
        /\ pc' = "phdr" => offset' = file.phoff
    BY <1>1, <1>4 DEF ParseEhdr, Leave, PhaseInv
  <2>2. QED
    BY <1>1, <1>2, <2>1 DEF ListsInv
<1>5. CASE ParsePhdrEntry
  <2>1. /\ pc = "phdr" /\ pc' = "phdr" /\ r = 0 /\ idx = Len(phdr) /\ UNCHANGED <<shdr, syms>>
        /\ offset = View!PhdrPlace(file, Len(phdr) + 1)
        /\ offset' = (offset + file.phentsize) % M
    BY <1>1, <1>5 DEF ParsePhdrEntry, PhdrInv, ListsInv
  <2>2. PICK stored \in LstNew :
          /\ phdr' = IF stored
                       THEN Append(phdr, [idx |-> idx, p_offset |-> offset,
                                          mem_offset |-> PhdrOffsetAt(file, offset)])
                       ELSE phdr
          /\ r' = IF stored /\ PhdrInScope THEN 0 ELSE EFAULT
    BY <1>5 DEF ParsePhdrEntry
  <2>3. CASE stored
    <3>1. Len(phdr) + Len(shdr) + Len(syms) < HeapNodes
      BY <2>3 DEF LstNew, NodeAvailable
    <3>2. PICK e : e = [idx |-> idx, p_offset |-> offset, mem_offset |-> PhdrOffsetAt(file, offset)]
      OBVIOUS
    <3>3. /\ phdr' = Append(phdr, e) /\ Len(phdr') = Len(phdr) + 1 /\ phdr'[Len(phdr) + 1] = e
          /\ \A i \in 1..Len(phdr) : phdr'[i] = phdr[i]
      BY <2>2, <2>3, <3>2 DEF TypeOK
    <3>4. e = PhdrEntryAt(file, Len(phdr) + 1)
      <4>1. (Len(phdr) + 1) - 1 = Len(phdr)
        BY <1>1
      <4>2. QED
        BY <2>1, <3>2, <4>1 DEF PhdrEntryAt
    <3>5. \A i \in 1..Len(phdr') : phdr'[i] = PhdrEntryAt(file, i)
      <4>1. \A i \in 1..Len(phdr') : i \in 1..Len(phdr) \/ i = Len(phdr) + 1
        BY <1>1, <3>3
      <4>2. QED
        BY <3>3, <3>4, <4>1 DEF ListsInv
    <3>6. offset' = View!PhdrPlace(file, Len(phdr') + 1)
      <4>1. offset' = View!PhdrPlace(file, Len(phdr) + 2)
        BY <1>1, <2>1, Places
      <4>2. Len(phdr') + 1 = Len(phdr) + 2
        BY <1>1, <3>3
      <4>3. QED
        BY <4>1, <4>2
    <3>7. Len(phdr') + Len(shdr') + Len(syms') <= HeapNodes
      BY <1>1, <2>1, <3>1, <3>3, HeapAssumption
    <3>8. QED
      BY <1>1, <2>1, <3>5, <3>6, <3>7 DEF ListsInv
  <2>4. CASE ~stored
    BY <1>1, <2>1, <2>2, <2>4 DEF ListsInv, EFAULT
  <2>5. QED
    BY <2>3, <2>4
<1>6. CASE PhdrsDone
  <2>1. /\ UNCHANGED <<phdr, shdr, syms>> /\ shdr = <<>> /\ pc' \in {"shdr", "done"}
        /\ pc' = "shdr" => offset' = file.shoff
    BY <1>1, <1>6 DEF PhdrsDone, Leave, PhaseInv
  <2>2. QED
    BY <1>1, <1>2, <2>1 DEF ListsInv
<1>7. CASE ShdrOutOfScope \/ ShdrNoMemory
  BY <1>1, <1>7 DEF ShdrOutOfScope, ShdrNoMemory, ShdrIteration, ListsInv
<1>8. CASE RecordShdr
  <2>1. /\ pc = "shdr" /\ pc' = "shdr" /\ idx = Len(shdr) /\ UNCHANGED <<phdr, syms>>
        /\ offset = View!ShdrPlace(file, Len(shdr) + 1)
        /\ offset' = (offset + file.shentsize) % M
        /\ Len(phdr) + Len(shdr) + Len(syms) < HeapNodes
    BY <1>1, <1>8 DEF RecordShdr, ShdrIteration, ShdrInv, ListsInv, NodeAvailable
  <2>2. PICK e : e = [idx |-> idx, sh_offset |-> offset, mem_offset |-> ShdrAt(file, offset).sh_offset]
    OBVIOUS
  <2>3. /\ shdr' = Append(shdr, e) /\ Len(shdr') = Len(shdr) + 1 /\ shdr'[Len(shdr) + 1] = e
        /\ \A i \in 1..Len(shdr) : shdr'[i] = shdr[i]
    BY <1>8, <2>2 DEF TypeOK, RecordShdr
  <2>4. e = ShdrEntryAt(file, Len(shdr) + 1)
    <3>1. (Len(shdr) + 1) - 1 = Len(shdr)
      BY <1>1
    <3>2. QED
      BY <2>1, <2>2, <3>1 DEF ShdrEntryAt
  <2>5. \A i \in 1..Len(shdr') : shdr'[i] = ShdrEntryAt(file, i)
    <3>1. \A i \in 1..Len(shdr') : i \in 1..Len(shdr) \/ i = Len(shdr) + 1
      BY <1>1, <2>3
    <3>2. QED
      BY <2>3, <2>4, <3>1 DEF ListsInv
  <2>6. offset' = View!ShdrPlace(file, Len(shdr') + 1)
    <3>1. offset' = View!ShdrPlace(file, Len(shdr) + 2)
      BY <1>1, <2>1, Places
    <3>2. Len(shdr') + 1 = Len(shdr) + 2
      BY <1>1, <2>3
    <3>3. QED
      BY <3>1, <3>2
  <2>7. Len(phdr') + Len(shdr') + Len(syms') <= HeapNodes
    BY <1>1, <2>1, <2>3, HeapAssumption
  <2>8. QED
    BY <1>1, <2>1, <2>5, <2>6, <2>7 DEF ListsInv
<1>9. CASE LinkStrtabs
  <2>1. UNCHANGED <<phdr, shdr, syms, symtabstrndx>> /\ pc' \in {"symtab", "done"}
    BY <1>9 DEF LinkStrtabs
  <2>2. ASSUME pc' = "symtab", strtab' = NULL PROVE StrtabsWithIdx(symtabstrndx) = {}
    <3>1. IsLastOf(strtab', StrtabsWithIdx(symtabstrndx))
      BY <1>9, <2>2 DEF LinkStrtabs
    <3>2. StrtabsWithIdx(symtabstrndx) \subseteq 1..Len(shdr)
      BY DEF StrtabsWithIdx, SectionsOfType
    <3>3. QED
      BY <2>2, <3>1, <3>2, Linked
  <2>3. QED
    BY <1>1, <1>3, <2>1, <2>2 DEF ListsInv
<1>10. CASE GetSymSections
  <2>1. /\ UNCHANGED <<phdr, shdr, syms, strtab, symtabstrndx>>
        /\ pc = "symtab" /\ pc' \in {"syms", "done"}
    BY <1>10 DEF GetSymSections, Leave
  <2>2. QED
    BY <1>1, <1>3, <2>1 DEF ListsInv
<1>11. CASE SymOutOfScope \/ SymWithoutStrtab \/ SymNameOutOfScope \/ SymsDone \/ CrashBehindImage
  <2>1. /\ UNCHANGED <<phdr, shdr, syms, strtab, symtabstrndx>>
        /\ pc' \in {"done", "crashed"} \/ (pc = "syms" /\ pc' = "syms")
    BY <1>11 DEF SymIteration, SymOutOfScope, SymWithoutStrtab, SymNameOutOfScope, SymsDone,
                 CrashBehindImage
  <2>2. QED
    BY <1>1, <1>3, <2>1 DEF ListsInv
<1>12. CASE RecordSym
  <2>1. /\ UNCHANGED <<phdr, shdr, strtab, symtabstrndx>> /\ pc = "syms" /\ pc' = "syms"
    BY <1>12 DEF RecordSym, SymIteration
  <2>2. Len(phdr) + Len(shdr) + Len(syms') <= HeapNodes
    <3>1. PICK stored \in LstNew : \E e : syms' = IF stored THEN Append(syms, e) ELSE syms
      BY <1>12 DEF RecordSym
    <3>2. CASE stored
      <4>1. Len(phdr) + Len(shdr) + Len(syms) < HeapNodes
        BY <3>2 DEF LstNew, NodeAvailable
      <4>2. Len(syms') = Len(syms) + 1
        BY <3>1, <3>2 DEF TypeOK
      <4>3. QED
        BY <1>1, <4>1, <4>2, HeapAssumption
    <3>3. CASE ~stored
      BY <3>1, <3>3 DEF ListsInv
    <3>4. QED
      BY <3>2, <3>3
  <2>3. QED
    BY <1>1, <1>3, <2>1, <2>2 DEF ListsInv
<1>13. CASE UNCHANGED vars
  BY <1>1, <1>3, <1>13 DEF vars, ListsInv
<1>14. QED
  BY <1>4, <1>5, <1>6, <1>7, <1>8, <1>9, <1>10, <1>11, <1>12, <1>13 DEF Next, Finished

----------------------------------------------------------------------------
(* The sections the two parts of the parser settle on are those of the     *)
(* view, once the list of sections is complete.                            *)

(* The last of a set of positions is the one the view chooses.             *)
LEMMA LastIsChosen ==
  ASSUME NEW n \in Nat, NEW hits, hits \subseteq 1..n, NEW p, p \in hits, IsLastOf(p, hits)
  PROVE  p = CHOOSE i \in hits : \A j \in hits : j <= i
<1>1. \A i \in hits : (\A j \in hits : j <= i) => i = p
  BY DEF IsLastOf
<1>2. \A j \in hits : j <= p
  BY DEF IsLastOf
<1>3. QED
  BY <1>1, <1>2

LEMMA SectionsListed ==
  ASSUME TypeOK, ListsInv
  PROVE  /\ \A p \in 1..Len(shdr) :
              /\ shdr[p].idx = p - 1 /\ shdr[p].sh_offset = View!ShdrPlace(file, p)
              /\ Section(p) = View!SectionOf(file, p)
         /\ Len(shdr) = file.shnum => SectionsOfType(SHT_SYMTAB) = View!Symtabs(file)
<1>1. ASSUME NEW p \in 1..Len(shdr)
      PROVE  /\ shdr[p].idx = p - 1 /\ shdr[p].sh_offset = View!ShdrPlace(file, p)
             /\ Section(p) = View!SectionOf(file, p)
  <2>1. shdr[p] = ShdrEntryAt(file, p)
    BY DEF ListsInv
  <2>2. shdr[p].idx = p - 1 /\ shdr[p].sh_offset = View!ShdrPlace(file, p)
    BY <2>1 DEF ShdrEntryAt
  <2>3. QED
    BY <2>2, SameLayout DEF Section, View!SectionOf
<1>2. Len(shdr) = file.shnum => SectionsOfType(SHT_SYMTAB) = View!Symtabs(file)
  BY <1>1 DEF SectionsOfType, View!Symtabs, View!SHT_SYMTAB, SHT_SYMTAB
<1>3. QED
  BY <1>1, <1>2

(* The link remembered from the last symbol table seen is the chosen one's.*)
LEMMA SymtabRemembered ==
  ASSUME TypeOK, IInv, ListsInv, Len(shdr) = file.shnum
  PROVE  /\ View!Symtabs(file) = {} => symtabstrndx = NoSymtabYet
         /\ View!Symtabs(file) # {} => symtabstrndx = ToInt(View!SymtabEntry(file).sh_link)
         /\ View!Symtabs(file) \subseteq 1..Len(shdr)
         /\ \A p \in View!Symtabs(file) :
              IsLastOf(p, View!Symtabs(file)) => p = View!TheSymtab(file)
<1>1. SectionsOfType(SHT_SYMTAB) = View!Symtabs(file)
  BY SectionsListed
<1>2. View!Symtabs(file) \subseteq 1..Len(shdr) /\ Len(shdr) \in Nat
  BY DEF View!Symtabs, TypeOK
<1>3. \A p \in View!Symtabs(file) :
         IsLastOf(p, View!Symtabs(file)) => p = View!TheSymtab(file)
  BY <1>2, LastIsChosen DEF View!TheSymtab
<1>4. \/ View!Symtabs(file) = {} /\ symtabstrndx = NoSymtabYet
      \/ \E q \in View!Symtabs(file) :
           /\ IsLastOf(q, View!Symtabs(file))
           /\ symtabstrndx = ToInt(Section(q).sh_link)
  BY <1>1 DEF IInv, SymtabInv
<1>5. ASSUME NEW q \in View!Symtabs(file), IsLastOf(q, View!Symtabs(file))
      PROVE  Section(q) = View!SymtabEntry(file)
  BY <1>2, <1>3, <1>5, SectionsListed DEF View!SymtabEntry
<1>6. QED
  BY <1>2, <1>3, <1>4, <1>5

(* While the symbols are walked, both tables are those of the view.        *)
LEMMA TablesSettled ==
  ASSUME TypeOK, IInv, ListsInv, pc = "syms"
  PROVE  /\ Len(shdr) = file.shnum /\ Len(phdr) = file.phnum
         /\ View!Symtabs(file) # {} /\ ToInt(View!SymtabEntry(file).sh_link) >= 0
         /\ symtab \in 1..file.shnum /\ Section(symtab) = View!SymtabEntry(file)
         /\ strtab # NULL => Section(strtab) = View!StrtabEntry(file)
         /\ View!HasStrtab(file) <=> strtab # NULL
<1>1. /\ Len(shdr) = file.shnum /\ Len(phdr) = file.phnum /\ file.shnum \in Nat
      /\ symtab # NULL /\ symtabstrndx >= 0
      /\ symtab \in SectionsOfType(SHT_SYMTAB)
      /\ IsLastOf(symtab, SectionsOfType(SHT_SYMTAB))
  BY DEF IInv, PhdrInv, ShdrInv, SymtabInv, TypeOK
<1>2. symtab \in View!Symtabs(file) /\ symtab = View!TheSymtab(file)
  BY <1>1, SectionsListed, SymtabRemembered
<1>3. symtab \in 1..file.shnum /\ Section(symtab) = View!SymtabEntry(file)
  BY <1>1, <1>2, SectionsListed DEF View!Symtabs, View!SymtabEntry
<1>4. PICK link : link = View!SymtabEntry(file).sh_link
  OBVIOUS
<1>5. link \in Nat /\ symtabstrndx = link
  <2>1. link \in Word
    BY <1>3, <1>4, AccessorTypes DEF Section, TypeOK, Shdr
  <2>2. symtabstrndx = ToInt(link)
    BY <1>1, <1>2, <1>4, SymtabRemembered
  <2>3. QED
    BY <1>1, <2>1, <2>2, WidthAssumption DEF ToInt, Word
<1>6. \A p \in 1..file.shnum : p \in StrtabsWithIdx(link) <=>
        p = link + 1 /\ View!SectionOf(file, p).sh_type = View!SHT_STRTAB
  BY <1>1, <1>5, SectionsListed
     DEF StrtabsWithIdx, SectionsOfType, SHT_STRTAB, View!SHT_STRTAB
<1>7. StrtabsWithIdx(link) \subseteq 1..file.shnum
  BY <1>1 DEF StrtabsWithIdx, SectionsOfType
<1>8. View!HasStrtab(file) <=> link + 1 \in StrtabsWithIdx(link)
  <2>1. link < file.shnum <=> link + 1 \in 1..file.shnum
    BY <1>1, <1>5
  <2>2. QED
    BY <1>4, <1>6, <1>7, <2>1 DEF View!HasStrtab
<1>9. CASE strtab # NULL
  <2>1. strtab \in StrtabsWithIdx(link)
    BY <1>5, <1>9 DEF IInv, SymtabInv
  <2>2. strtab = link + 1 /\ strtab \in 1..Len(shdr)
    BY <1>1, <1>6, <1>7, <2>1
  <2>3. Section(strtab) = View!SectionOf(file, link + 1)
    BY <2>2, SectionsListed
  <2>4. QED
    BY <1>1, <1>2, <1>3, <1>4, <1>5, <1>8, <1>9, <2>1, <2>2, <2>3, SymtabRemembered
       DEF View!StrtabEntry
<1>10. CASE strtab = NULL
  <2>1. StrtabsWithIdx(link) = {}
    BY <1>5, <1>10 DEF ListsInv
  <2>2. QED
    BY <1>1, <1>2, <1>3, <1>4, <1>5, <1>8, <1>10, <2>1, SymtabRemembered
<1>11. QED
  BY <1>9, <1>10

----------------------------------------------------------------------------
(* The walk of the symbol table.                                           *)

(* What the view reads of its two tables has the types of the fields.      *)
LEMMA EntryTypes ==
  ASSUME TypeOK
  PROVE  /\ View!SymtabEntry(file).sh_entsize \in 0..(M - 1)
         /\ View!SymtabEntry(file).sh_offset \in 0..(M - 1)
         /\ View!SymtabEntry(file).sh_size \in 0..(M - 1)
         /\ View!StrtabEntry(file).sh_offset \in 0..(M - 1)
         /\ \A o : SymAt(file, o).st_name \in Nat /\ SymAt(file, o).st_shndx \in Half
         /\ M \in Nat \ {0}
<1>1. Offset(file.class) = 0..(M - 1) /\ M \in Nat \ {0} /\ file \in Files
  BY RunWidths DEF TypeOK
<1>2. View!SymtabEntry(file) \in Shdr(file.class) /\ View!StrtabEntry(file) \in Shdr(file.class)
  BY <1>1, SameLayout, AccessorTypes
     DEF View!SymtabEntry, View!StrtabEntry, View!SectionOf
<1>3. \A o : SymAt(file, o).st_name \in Nat /\ SymAt(file, o).st_shndx \in Half
  BY <1>1, AccessorTypes, WidthAssumption DEF Sym, Word
<1>4. QED
  BY <1>1, <1>2, <1>3 DEF Shdr

(* Where the walk stands after one more entry.                             *)
LEMMA ReachedNext ==
  ASSUME TypeOK, NEW k \in Nat
  PROVE  /\ Reached(file, 0) = 0
         /\ (Reached(file, k) + View!SymtabEntry(file).sh_entsize) % M = Reached(file, k + 1)
         /\ (Reached(file, k) + View!SymtabEntry(file).sh_offset) % M = View!SymPlace(file, k + 1)
<1>1. PICK e, o, m : /\ e = View!SymtabEntry(file).sh_entsize
                     /\ o = View!SymtabEntry(file).sh_offset /\ m = M
  OBVIOUS
<1>2. e \in Nat /\ o \in Nat /\ m \in Nat \ {0}
  BY <1>1, EntryTypes
<1>3. \A i : Reached(file, i) = (i * e) % m
  BY <1>1 DEF Reached, M
<1>4. Reached(file, 0) = 0
  BY <1>2, <1>3
<1>5. (k * e) \in Int /\ k * e + e = (k + 1) * e
  BY <1>2
<1>6. (((k * e) % m) + e) % m = (k * e + e) % m /\ (((k * e) % m) + o) % m = (k * e + o) % m
  <2>1. PICK d \in Int : d = k * e
    BY <1>5
  <2>2. e \in Int /\ o \in Int
    BY <1>2
  <2>3. ((d % m) + e) % m = (d + e) % m
    BY <1>2, <2>1, <2>2, ModSum
  <2>4. ((d % m) + o) % m = (d + o) % m
    BY <1>2, <2>1, <2>2, ModSum
  <2>5. QED
    BY <2>1, <2>3, <2>4
<1>7. View!SymPlace(file, k + 1) = (k * e + o) % m
  <2>1. (k + 1) - 1 = k
    OBVIOUS
  <2>2. QED
    BY <1>1, <2>1, SameLayout DEF View!SymPlace, M
<1>8. QED
  BY <1>1, <1>3, <1>4, <1>5, <1>6, <1>7

(* The next symbol the walk looks at is the next one of the view.          *)
LEMMA NextSymPlace ==
  ASSUME TypeOK, IInv, ListsInv, WalkInv, pc = "syms", r = 0
  PROVE  /\ SymOffset = View!SymPlace(file, Len(syms) + 1)
         /\ strtab # NULL => NameOffset = View!NamePlace(file, Len(syms) + 1)
<1>1. Len(syms) \in Nat /\ offset = Reached(file, Len(syms))
  BY DEF TypeOK, WalkInv
<1>2. SymOffset = View!SymPlace(file, Len(syms) + 1)
  BY <1>1, TablesSettled, ReachedNext DEF SymOffset
<1>3. QED
  BY <1>2, TablesSettled, SameLayout DEF NameOffset, View!NamePlace, M

(* The section a symbol is given depends on its own index or else on the   *)
(* section of the symbol before it.                                        *)
LEMMA SectionCarried ==
  ASSUME NEW f, NEW k \in Nat
  PROVE  View!SymSection(f, k + 1) =
           IF View!InKnownSection(f, k + 1)
             THEN View!ShdrPlace(f, View!SymAt(f, View!SymPlace(f, k + 1)).st_shndx + 1)
             ELSE LastSection(f, k)
<1> DEFINE known(i) == {j \in 1..i : View!InKnownSection(f, j)}
<1>1. \A i : View!SymSection(f, i) =
        IF known(i) = {} THEN 0
        ELSE View!ShdrPlace(f, View!SymAt(f, View!SymPlace(f,
               CHOOSE j \in known(i) : \A h \in known(i) : h <= j)).st_shndx + 1)
  BY DEF View!SymSection
<1>2. CASE View!InKnownSection(f, k + 1)
  <2>1. k + 1 \in known(k + 1) /\ \A h \in known(k + 1) : h <= k + 1
    BY <1>2
  <2>2. known(k + 1) \subseteq 1..(k + 1) /\ k + 1 \in Nat
    OBVIOUS
  <2>3. IsLastOf(k + 1, known(k + 1))
    BY <2>1 DEF IsLastOf
  <2> HIDE DEF known
  <2>4. k + 1 = CHOOSE j \in known(k + 1) : \A h \in known(k + 1) : h <= j
    BY <2>1, <2>2, <2>3, LastIsChosen
  <2>5. QED
    BY <1>1, <1>2, <2>1, <2>4
<1>3. CASE ~View!InKnownSection(f, k + 1)
  <2>1. known(k + 1) = known(k)
    BY <1>3
  <2>2. View!SymSection(f, k + 1) = View!SymSection(f, k)
    <3> HIDE DEF known
    <3>1. QED
      BY <1>1, <2>1
  <2>3. k = 0 => View!SymSection(f, k) = 0
    BY <1>1
  <2>4. QED
    BY <1>3, <2>2, <2>3 DEF LastSection
<1>4. QED
  BY <1>2, <1>3

LEMMA SectionWalked ==
  ASSUME TypeOK, IInv, ListsInv, WalkInv, pc = "syms", r = 0,
         NEW sect \in SectionOffset(SymAt(file, SymOffset).st_shndx)
  PROVE  sect = View!SymSection(file, Len(syms) + 1)
<1>1. PICK n : n = SymAt(file, SymOffset).st_shndx
  OBVIOUS
<1>2. n \in Half /\ Len(syms) \in Nat /\ Len(shdr) \in Nat /\ HalfMod \in Nat
  BY <1>1, EntryTypes, WidthAssumption DEF TypeOK
<1>3. sect = IF n + 1 < Len(shdr) THEN shdr[n + 1].sh_offset ELSE lastSect
  BY <1>1, <1>2, SectionLookup DEF IInv
<1>4. n + 1 < Len(shdr) => shdr[n + 1].sh_offset = View!ShdrPlace(file, n + 1)
  <2>1. n + 1 < Len(shdr) => n + 1 \in 1..Len(shdr)
    BY <1>2 DEF Half
  <2>2. QED
    BY <2>1, SectionsListed
<1>5. n = View!SymAt(file, View!SymPlace(file, Len(syms) + 1)).st_shndx
  BY <1>1, NextSymPlace, SameLayout
<1>6. View!InKnownSection(file, Len(syms) + 1) <=> n + 1 < Len(shdr)
  BY <1>5, TablesSettled DEF View!InKnownSection
<1>7. lastSect = LastSection(file, Len(syms))
  BY DEF WalkInv
<1>8. QED
  BY <1>2, <1>3, <1>4, <1>5, <1>6, <1>7, SectionCarried

LEMMA WalkInvStep ==
  ASSUME TypeOK, IInv, ListsInv, WalkInv, [Next]_vars
  PROVE  WalkInv'
<1> USE DEF lists, strtabs, ident, locals
<1>1. file' = file /\ Len(syms) \in Nat /\ HalfMod \in Nat \ {0}
  BY FileStable, WidthAssumption DEF TypeOK
<1>2. CASE pc' # "syms"
  BY <1>2 DEF WalkInv
<1>3. CASE GetSymSections
  <2>1. /\ syms' = <<>> /\ lastSect' = 0
        /\ pc' = "syms" => offset' = 0 /\ idx' = 0
    BY <1>3 DEF GetSymSections, Leave, IInv, PhaseInv, Entering
  <2>2. Reached(file, 0) = 0 /\ LastSection(file, 0) = 0 /\ Len(syms') = 0 /\ 0 % HalfMod = 0
    BY <1>1, <2>1, ReachedNext DEF LastSection
  <2>3. QED
    BY <1>1, <2>1, <2>2 DEF WalkInv
<1>4. CASE SymOutOfScope \/ SymNameOutOfScope
  BY <1>1, <1>4 DEF SymOutOfScope, SymNameOutOfScope, SymIteration, WalkInv, EFAULT
<1>5. CASE RecordSym
  <2> DEFINE n == Len(syms) + 1
  <2>1. /\ pc = "syms" /\ r = 0 /\ strtab # NULL /\ SymScoped /\ NameOffset <= file.length
        /\ offset < Section(symtab).sh_size
    BY <1>5 DEF RecordSym, SymIteration
  <2>2. /\ offset = Reached(file, Len(syms)) /\ idx = Len(syms) % HalfMod
        /\ \A i \in 1..Len(syms) :
             SymWalked(file, i) /\ syms[i] = SymEntryAt(file, i, syms[i].named)
    BY <2>1 DEF WalkInv
  <2>3. /\ SymOffset = View!SymPlace(file, n) /\ NameOffset = View!NamePlace(file, n)
        /\ Section(symtab) = View!SymtabEntry(file)
    BY <2>1, NextSymPlace, TablesSettled
  <2>4. n - 1 = Len(syms) /\ n \in Nat /\ n # 0
    BY <1>1
  <2>5. PICK stored \in LstNew, named \in Malloc,
             sect \in SectionOffset(SymAt(file, SymOffset).st_shndx) :
          /\ syms' = IF stored
                       THEN Append(syms, [idx |-> idx, sh_offset |-> sect,
                                          mem_offset |-> SymAt(file, SymOffset).st_value,
                                          sym_offset |-> SymOffset,
                                          name |-> NameOffset, named |-> named])
                       ELSE syms
          /\ r' = IF stored THEN 0 ELSE EFAULT
          /\ lastSect' = sect
    BY <1>5 DEF RecordSym
  <2>6. sect = View!SymSection(file, n)
    BY <2>1, SectionWalked
  <2>7. PICK e : /\ e = SymEntryAt(file, n, named)
                 /\ syms' = IF stored THEN Append(syms, e) ELSE syms
                 /\ e.named = named
    BY <2>2, <2>3, <2>4, <2>5, <2>6 DEF SymEntryAt
  <2>8. SymWalked(file, n)
    <3>1. (View!SymPlace(file, n) + View!SizeofShdr64) % XwordMod <= file.length
      BY <2>1, <2>3 DEF SymScoped, SizeofShdr64, View!SizeofShdr64
    <3>2. QED
      BY <2>1, <2>2, <2>3, <2>4, <3>1 DEF SymWalked, View!SymAccepted
  <2>9. /\ offset' = Reached(file, n) /\ idx' = n % HalfMod
        /\ lastSect' = LastSection(file, n)
    <3>1. offset' = (offset + Section(symtab).sh_entsize) % M /\ idx' = (idx + 1) % HalfMod
      BY <1>5 DEF RecordSym
    <3>2. offset' = Reached(file, n)
      BY <1>1, <2>2, <2>3, <3>1, ReachedNext
    <3>3. idx' = n % HalfMod
      <4>1. PICK k, m : k = Len(syms) /\ m = HalfMod
        OBVIOUS
      <4>2. k \in Int /\ m \in Nat \ {0} /\ 1 \in Int
        BY <1>1, <4>1
      <4>3. ((k % m) + 1) % m = (k + 1) % m
        BY <4>2, ModSum
      <4>4. QED
        BY <2>2, <3>1, <4>1, <4>3
    <3>4. QED
      BY <2>4, <2>5, <2>6, <3>2, <3>3 DEF LastSection
  <2>10. CASE stored
    <3>1. /\ Len(syms') = n /\ syms'[n] = e
          /\ \A i \in 1..Len(syms) : syms'[i] = syms[i]
      BY <2>7, <2>10 DEF TypeOK
    <3>2. \A i \in 1..n : i \in 1..Len(syms) \/ i = n
      BY <1>1
    <3>3. \A i \in 1..n :
            SymWalked(file, i) /\ syms'[i] = SymEntryAt(file, i, syms'[i].named)
      BY <2>2, <2>7, <2>8, <3>1, <3>2
    <3>4. QED
      BY <1>1, <2>9, <3>1, <3>3 DEF WalkInv
  <2>11. CASE ~stored
    BY <1>1, <2>2, <2>5, <2>11 DEF WalkInv, EFAULT
  <2>12. QED
    BY <2>10, <2>11
<1>6. CASE UNCHANGED vars
  BY <1>1, <1>6 DEF vars, WalkInv
<1>7. CASE pc # "syms" /\ ~GetSymSections
  BY <1>2, <1>6, <1>7
     DEF Next, ParseEhdr, Leave, ParsePhdrEntry, PhdrsDone, ShdrIteration, ShdrOutOfScope,
         ShdrNoMemory, RecordShdr, LinkStrtabs, SymIteration, SymOutOfScope, SymWithoutStrtab,
         SymNameOutOfScope, RecordSym, SymsDone, CrashBehindImage, Finished
<1>8. CASE SymWithoutStrtab \/ SymsDone \/ CrashBehindImage
  BY <1>2, <1>8 DEF SymWithoutStrtab, SymsDone, CrashBehindImage
<1>9. QED
  BY <1>2, <1>3, <1>4, <1>5, <1>6, <1>7, <1>8
     DEF Next, ParseEhdr, ParsePhdrEntry, PhdrsDone, ShdrOutOfScope, ShdrIteration,
         ShdrNoMemory, RecordShdr, LinkStrtabs, Finished

----------------------------------------------------------------------------
(* Why an answer is an error.                                              *)

LEMMA IllFormedIf ==
  ASSUME NEW f,
         \A phend, shend : \A n \in 0..HeapNodes : ~View!WellFormed(f, phend, shend, n)
  PROVE  IllFormed(f)
<1>1. \A e, n, o : TableEnds(f, e, n, o) # {}
  BY DEF TableEnds, IntProducts
<1>2. View!PhdrEnds(f) # {} /\ View!ShdrEnds(f) # {}
  BY <1>1, SameLayout
<1>3. QED
  BY <1>2 DEF IllFormed

(* A symbol table that is not at its end yet has at least one symbol more  *)
(* than the walk has recorded.                                             *)
LEMMA CountBeyond ==
  ASSUME TypeOK, IInv, ListsInv, WalkInv, SymIteration,
         NEW n \in Nat, View!IsSymCount(file, n)
  PROVE  Len(syms) + 1 \in 1..n
<1>1. /\ Len(syms) \in Nat /\ pc = "syms" /\ r = 0
      /\ offset < View!SymtabEntry(file).sh_size
      /\ offset = Reached(file, Len(syms))
  BY TablesSettled DEF TypeOK, SymIteration, WalkInv
<1>2. \A i \in 1..Len(syms) : Reached(file, i - 1) < View!SymtabEntry(file).sh_size
  BY <1>1 DEF WalkInv, SymWalked
<1>3. \A j \in 0..Len(syms) : Reached(file, j) < View!SymtabEntry(file).sh_size
  <2>1. SUFFICES ASSUME NEW j \in 0..Len(syms), j # Len(syms)
                 PROVE  Reached(file, j) < View!SymtabEntry(file).sh_size
    BY <1>1
  <2>2. j + 1 \in 1..Len(syms) /\ (j + 1) - 1 = j
    BY <1>1, <2>1
  <2>3. QED
    BY <1>2, <2>2
<1>4. Reached(file, n) >= View!SymtabEntry(file).sh_size
  BY SameLayout DEF View!IsSymCount, Reached
<1>5. Reached(file, n) \in Int /\ View!SymtabEntry(file).sh_size \in Int
  <2>1. PICK e, m : e = View!SymtabEntry(file).sh_entsize /\ m = M
    OBVIOUS
  <2>2. e \in Nat /\ m \in Nat \ {0} /\ View!SymtabEntry(file).sh_size \in Int
    BY <2>1, EntryTypes
  <2>3. (n * e) % m \in Int
    BY <2>2
  <2>4. QED
    BY <2>1, <2>2, <2>3 DEF Reached, M
<1>6. n \notin 0..Len(syms)
  BY <1>3, <1>4, <1>5
<1>7. QED
  BY <1>1, <1>6

(* A next symbol that is not acceptable makes the image ill formed.        *)
LEMMA BadSymbol ==
  ASSUME TypeOK, IInv, ListsInv, WalkInv, SymIteration,
         ~View!SymAccepted(file, Len(syms) + 1)
  PROVE  IllFormed(file)
<1>1. SUFFICES ASSUME NEW phend, NEW shend, NEW n \in 0..HeapNodes,
                      View!WellFormed(file, phend, shend, n)
               PROVE  FALSE
  BY IllFormedIf
<1>2. Len(syms) + 1 \in 1..n
  BY <1>1, HeapAssumption, CountBeyond DEF View!WellFormed
<1>3. n > 0
  BY <1>1, <1>2, HeapAssumption DEF TypeOK
<1>4. QED
  BY <1>1, <1>2, <1>3 DEF View!WellFormed

LEMMA ErrorInvStep ==
  ASSUME TypeOK, IInv, ListsInv, WalkInv, ErrorInv, [Next]_vars
  PROVE  ErrorInv'
<1> USE DEF lists, strtabs, ident, locals
<1>1. /\ file' = file /\ PhaseInv /\ PhdrInv /\ ShdrInv /\ oom \in BOOLEAN
      /\ Len(phdr) \in Nat /\ Len(shdr) \in Nat /\ Len(syms) \in Nat
      /\ file.length \in Nat
  BY FileStable, RunWidths DEF IInv, TypeOK
<1>2. CASE ParseEhdr
  <2>1. oom' = oom /\ ~oom
    BY <1>1, <1>2 DEF ParseEhdr, PhaseInv, ErrorInv
  <2>2. PICK phend \in TableEnds(file, file.phentsize, file.phnum, file.phoff),
             shend \in TableEnds(file, file.shentsize, file.shnum, file.shoff) :
          r' = IF IdentAccepted(file) /\ TablesScoped(file, phend, shend) THEN 0 ELSE EFAULT
    BY <1>2 DEF ParseEhdr
  <2>3. r' # 0 => IllFormed(file)
    <3>1. SUFFICES ASSUME ~(IdentAccepted(file) /\ TablesScoped(file, phend, shend))
                   PROVE  IllFormed(file)
      BY <2>2
    <3>2. phend \in View!PhdrEnds(file) /\ shend \in View!ShdrEnds(file)
      BY SameLayout
    <3>3. \A n \in 0..HeapNodes : ~View!WellFormed(file, phend, shend, n)
      BY <3>1, SameLayout DEF View!WellFormed
    <3>4. QED
      BY <3>2, <3>3 DEF IllFormed
  <2>4. pc' # "done" => IdentAccepted(file)
    BY <1>2, <2>2 DEF ParseEhdr, Leave, EFAULT
  <2>5. QED
    BY <1>1, <2>1, <2>3, <2>4 DEF ErrorInv
<1>3. CASE ParsePhdrEntry
  <2>1. /\ pc = "phdr" /\ pc' = "phdr" /\ r = 0 /\ ~oom /\ idx = Len(phdr) /\ idx < file.phnum
        /\ offset = View!PhdrPlace(file, Len(phdr) + 1)
    BY <1>1, <1>3 DEF ParsePhdrEntry, PhdrInv, ListsInv, ErrorInv
  <2>2. PICK stored \in BOOLEAN : /\ r' = IF stored /\ PhdrInScope THEN 0 ELSE EFAULT
                                  /\ oom' = (oom \/ ~stored)
    BY <1>3, HeapAssumption DEF ParsePhdrEntry, LstNew, Malloc
  <2>3. ~PhdrInScope => IllFormed(file)
    <3>1. SUFFICES ASSUME ~PhdrInScope, NEW phend, NEW shend, NEW n \in 0..HeapNodes,
                          View!WellFormed(file, phend, shend, n)
                   PROVE  FALSE
      BY IllFormedIf
    <3>2. Len(phdr) + 1 \in 1..file.phnum
      BY <1>1, <2>1, RunWidths, WidthAssumption DEF Half
    <3>3. QED
      BY <2>1, <3>1, <3>2 DEF View!WellFormed, PhdrInScope
  <2>4. r' # 0 <=> ~stored \/ ~PhdrInScope
    BY <2>2 DEF EFAULT
  <2>5. oom' <=> ~stored
    BY Zenon, <2>1, <2>2
  <2>6. QED
    BY <1>1, <2>1, <2>3, <2>4, <2>5 DEF ErrorInv
<1>4. CASE ShdrOutOfScope
  <2>1. /\ pc = "shdr" /\ pc' = "shdr" /\ idx = Len(shdr) /\ idx < file.shnum
        /\ offset = View!ShdrPlace(file, Len(shdr) + 1) /\ offset >= file.length
        /\ r' # 0 /\ oom' = oom
    BY <1>1, <1>4 DEF ShdrOutOfScope, ShdrIteration, ShdrInv, ListsInv, EFAULT
  <2>2. offset \in Nat
    BY RunWidths DEF TypeOK
  <2>3. IllFormed(file)
    <3>1. SUFFICES ASSUME NEW phend, NEW shend, NEW n \in 0..HeapNodes,
                          View!WellFormed(file, phend, shend, n)
                   PROVE  FALSE
      BY IllFormedIf
    <3>2. Len(shdr) + 1 \in 1..file.shnum
      BY <1>1, <2>1, RunWidths, WidthAssumption DEF Half
    <3>3. QED
      BY <1>1, <2>1, <2>2, <3>1, <3>2 DEF View!WellFormed
  <2>4. QED
    BY <1>1, <2>1, <2>3 DEF ErrorInv
<1>5. CASE ShdrNoMemory
  BY <1>1, <1>5 DEF ShdrNoMemory, ShdrIteration, ErrorInv, EFAULT
<1>6. CASE RecordShdr \/ PhdrsDone \/ SymWithoutStrtab \/ SymsDone \/ CrashBehindImage
  BY <1>1, <1>6
     DEF RecordShdr, ShdrIteration, PhdrsDone, Leave, SymIteration, SymWithoutStrtab, SymsDone,
         CrashBehindImage, ReadsBehindImage, ErrorInv
<1>7. CASE LinkStrtabs
  <2>1. /\ pc = "shdr" /\ oom' = oom /\ r' = IF symtabstrndx < 0 THEN EFAULT ELSE r
        /\ pc' \in {"symtab", "done"} /\ (r = 0 => idx = file.shnum)
    BY <1>7 DEF LinkStrtabs
  <2>2. symtabstrndx < 0 /\ r = 0 => IllFormed(file)
    <3>1. SUFFICES ASSUME symtabstrndx < 0, r = 0,
                          NEW phend, NEW shend, NEW n \in 0..HeapNodes,
                          View!WellFormed(file, phend, shend, n)
                   PROVE  FALSE
      BY IllFormedIf
    <3>2. Len(shdr) = file.shnum
      BY <1>1, <2>1, <3>1 DEF ShdrInv
    <3>3. View!Symtabs(file) # {} /\ ~(symtabstrndx >= 0) => ~(ToInt(View!SymtabEntry(file).sh_link) >= 0)
      BY <3>2, SymtabRemembered
    <3>4. ~(symtabstrndx >= 0)
      BY <3>1 DEF TypeOK
    <3>5. QED
      BY <3>1, <3>3, <3>4, SameLayout DEF View!WellFormed
  <2>3. QED
    BY <1>1, <2>1, <2>2 DEF ErrorInv, EFAULT
<1>8. CASE GetSymSections
  <2>1. pc = "symtab" /\ oom' = oom /\ r' \in {0, EINVAL} /\ r = 0
    BY <1>1, <1>8 DEF GetSymSections, PhaseInv
  <2>2. r' # EINVAL
    BY SymtabInvStep DEF SymtabInv
  <2>3. QED
    BY <1>1, <2>1, <2>2 DEF ErrorInv
<1>9. CASE SymOutOfScope
  <2>1. SymIteration /\ ~SymScoped /\ pc = "syms" /\ pc' = "syms" /\ r = 0 /\ r' # 0 /\ oom' = oom
    BY <1>9 DEF SymOutOfScope, SymIteration, EFAULT
  <2>2. ~View!SymAccepted(file, Len(syms) + 1)
    BY <2>1, NextSymPlace DEF SymScoped, View!SymAccepted, SizeofShdr64, View!SizeofShdr64
  <2>3. QED
    BY <1>1, <2>1, <2>2, BadSymbol DEF ErrorInv
<1>10. CASE SymNameOutOfScope
  <2>1. /\ SymIteration /\ pc = "syms" /\ pc' = "syms" /\ r = 0 /\ r' # 0 /\ oom' = oom
        /\ strtab # NULL /\ NameOffset > file.length
    BY <1>10 DEF SymNameOutOfScope, SymIteration, EFAULT
  <2>2. NameOffset \in Int
    <3>1. PICK a, m : a = SymAt(file, SymOffset).st_name + Section(strtab).sh_offset /\ m = M
      OBVIOUS
    <3>2. a \in Int /\ m \in Nat \ {0}
      BY <2>1, <3>1, EntryTypes, TablesSettled
    <3>3. QED
      BY <3>1, <3>2 DEF NameOffset
  <2>3. ~View!SymAccepted(file, Len(syms) + 1)
    BY <1>1, <2>1, <2>2, NextSymPlace DEF View!SymAccepted
  <2>4. QED
    BY <1>1, <2>1, <2>3, BadSymbol DEF ErrorInv
<1>11. CASE RecordSym
  <2>1. pc = "syms" /\ pc' = "syms" /\ r = 0 /\ ~oom
    BY <1>11 DEF RecordSym, SymIteration, ErrorInv
  <2>2. PICK stored \in BOOLEAN : r' = (IF stored THEN 0 ELSE EFAULT) /\ oom' = (oom \/ ~stored)
    BY <1>11, HeapAssumption DEF RecordSym, LstNew, Malloc
  <2>3. r' # 0 <=> ~stored
    BY <2>2 DEF EFAULT
  <2>4. oom' <=> ~stored
    BY Zenon, <2>1, <2>2
  <2>5. QED
    BY <1>1, <2>1, <2>3, <2>4 DEF ErrorInv
<1>12. CASE UNCHANGED vars
  BY <1>1, <1>12 DEF vars, ErrorInv
<1>13. QED
  BY <1>2, <1>3, <1>4, <1>5, <1>6, <1>7, <1>8, <1>9, <1>10, <1>11, <1>12 DEF Next, Finished

----------------------------------------------------------------------------
(* Every step of the parser is a step of the view, or leaves it alone.     *)

LEMMA ViewInit == Init => View!Init
<1> SUFFICES ASSUME Init PROVE View!Init
  OBVIOUS
<1>1. pc = "ehdr" /\ ~Accepted /\ file \in Files /\ oom = FALSE
  BY Zenon DEF Init, Accepted
<1>2. QED
  BY <1>1 DEF View!Init, View!NoView

Parsing == pc \notin {"done", "crashed"}

LEMMA ParsesOn ==
  ASSUME Parsing, Parsing', file' = file, oom \in BOOLEAN, oom' \in BOOLEAN, oom => oom'
  PROVE  [View!Next]_(View!viewVars)
<1>1. ~Accepted /\ ~Accepted'
  BY DEF Parsing, Accepted
<1>2. CASE oom' = oom
  BY <1>1, <1>2 DEF Parsing, View!viewVars
<1>3. CASE oom' # oom
  <2>1. ~oom /\ oom' = TRUE
    BY <1>3
  <2>2. View!Exhaust
    BY <1>1, <2>1 DEF Parsing, View!Exhaust
  <2>3. QED
    BY <2>2 DEF View!Next
<1>4. QED
  BY <1>2, <1>3

LEMMA Rejects ==
  ASSUME Parsing, pc' = "done", r' # 0, file' = file, oom' = oom, oom \/ IllFormed(file)
  PROVE  View!Next
<1>1. ~Accepted /\ ~Accepted'
  BY DEF Parsing, Accepted
<1>2. View!Reject
  BY <1>1 DEF Parsing, View!Reject, IllFormed
<1>3. QED
  BY <1>2 DEF View!Next

LEMMA Dies ==
  ASSUME Parsing, pc' = "crashed", file' = file, oom' = oom, View!MayDie(file)
  PROVE  View!Next
<1>1. ~Accepted /\ ~Accepted'
  BY DEF Parsing, Accepted
<1>2. View!Die
  BY <1>1 DEF Parsing, View!Die
<1>3. QED
  BY <1>2 DEF View!Next

(* The lists, complete, are the view of the image.                         *)
LEMMA ListsAreView ==
  ASSUME TypeOK, IInv, ListsInv, WalkInv, pc = "syms",
         NEW named, named = [i \in 1..Len(syms) |-> syms[i].named]
  PROVE  [phdr |-> phdr, shdr |-> shdr, syms |-> syms] = View!View(file, Len(syms), named)
<1>1. Len(phdr) = file.phnum /\ Len(shdr) = file.shnum
  BY TablesSettled
<1>2. phdr = [i \in 1..Len(phdr) |-> phdr[i]]
  BY DEF TypeOK
<1>3. shdr = [i \in 1..Len(shdr) |-> shdr[i]]
  BY DEF TypeOK
<1>4. syms = [i \in 1..Len(syms) |-> syms[i]]
  BY DEF TypeOK
<1>5. phdr = [i \in 1..file.phnum |-> PhdrEntryAt(file, i)]
  BY <1>1, <1>2 DEF ListsInv
<1>6. shdr = [i \in 1..file.shnum |-> ShdrEntryAt(file, i)]
  BY <1>1, <1>3 DEF ListsInv
<1>7. syms = [i \in 1..Len(syms) |-> SymEntryAt(file, i, named[i])]
  BY <1>4 DEF WalkInv
<1>8. View!View(file, Len(syms), named) =
        [phdr |-> [i \in 1..file.phnum |-> PhdrEntryAt(file, i)],
         shdr |-> [i \in 1..file.shnum |-> ShdrEntryAt(file, i)],
         syms |-> [i \in 1..Len(syms) |-> SymEntryAt(file, i, named[i])]]
  BY SameLayout
     DEF View!View, View!SectionOf, PhdrEntryAt, ShdrEntryAt, SymEntryAt
<1>9. QED
  BY <1>5, <1>6, <1>7, <1>8

(* The image is well formed when the walk ends without an error.           *)
LEMMA WalkedWellFormed ==
  ASSUME TypeOK, IInv, ListsInv, WalkInv, ErrorInv,
         pc = "syms", r = 0, offset >= Section(symtab).sh_size
  PROVE  \E phend \in View!PhdrEnds(file), shend \in View!ShdrEnds(file) :
           View!WellFormed(file, phend, shend, Len(syms))
<1>1. /\ Len(shdr) = file.shnum /\ Len(phdr) = file.phnum
      /\ View!Symtabs(file) # {} /\ View!ToInt(View!SymtabEntry(file).sh_link) >= 0
      /\ Section(symtab) = View!SymtabEntry(file) /\ Len(syms) \in Nat
  BY TablesSettled, SameLayout DEF TypeOK
<1>2. PICK phend \in View!PhdrEnds(file), shend \in View!ShdrEnds(file) :
         View!TablesScoped(file, phend, shend)
  BY SameLayout DEF IInv, PhaseInv, Phases, Scoped
<1>3. View!IdentAccepted(file)
  BY SameLayout DEF ErrorInv
<1>4. \A i \in 1..file.phnum : View!PhdrPlace(file, i) < file.length
  <2>1. SUFFICES ASSUME NEW i \in 1..Len(phdr) PROVE View!PhdrPlace(file, i) < file.length
    BY <1>1
  <2>2. phdr[i].p_offset < file.length
    BY DEF IInv, PhdrInv
  <2>3. phdr[i] = PhdrEntryAt(file, i)
    BY DEF ListsInv
  <2>4. phdr[i].p_offset = View!PhdrPlace(file, i)
    BY <2>3 DEF PhdrEntryAt
  <2>5. QED
    BY <2>2, <2>4
<1>5. \A i \in 1..file.shnum : View!ShdrPlace(file, i) < file.length
  <2>1. SUFFICES ASSUME NEW i \in 1..Len(shdr) PROVE View!ShdrPlace(file, i) < file.length
    BY <1>1
  <2>2. shdr[i].sh_offset < file.length
    BY DEF IInv, ShdrInv
  <2>3. shdr[i].sh_offset = View!ShdrPlace(file, i)
    BY SectionsListed
  <2>4. QED
    BY <2>2, <2>3
<1>6. \A i \in 1..Len(syms) : View!SymAccepted(file, i)
  BY DEF WalkInv, SymWalked
<1>7. View!IsSymCount(file, Len(syms))
  <2>1. Reached(file, Len(syms)) >= View!SymtabEntry(file).sh_size
    BY <1>1 DEF WalkInv
  <2>2. \A k \in 0..(Len(syms) - 1) : Reached(file, k) < View!SymtabEntry(file).sh_size
    <3>1. SUFFICES ASSUME NEW k \in 0..(Len(syms) - 1)
                   PROVE  Reached(file, k) < View!SymtabEntry(file).sh_size
      OBVIOUS
    <3>2. k + 1 \in 1..Len(syms) /\ (k + 1) - 1 = k
      BY <1>1
    <3>3. SymWalked(file, k + 1)
      BY <3>2 DEF WalkInv
    <3>4. QED
      BY <3>2, <3>3 DEF SymWalked
  <2>3. QED
    BY <2>1, <2>2, SameLayout DEF View!IsSymCount, Reached
<1>8. Len(syms) > 0 => View!HasStrtab(file)
  <2>1. Len(syms) > 0 => 1 \in 1..Len(syms)
    BY <1>1
  <2>2. Len(syms) > 0 => strtab # NULL
    BY <2>1 DEF IInv, SymsInv, RecordedSyms
  <2>3. QED
    BY <2>2, TablesSettled
<1>9. View!WellFormed(file, phend, shend, Len(syms))
  BY <1>1, <1>2, <1>3, <1>4, <1>5, <1>6, <1>7, <1>8 DEF View!WellFormed
<1>10. QED
  BY <1>9

LEMMA Accepts ==
  ASSUME TypeOK, IInv, ListsInv, WalkInv, ErrorInv, SymsDone, r = 0
  PROVE  View!Next
<1> USE DEF lists, ident
<1>1. /\ pc = "syms" /\ pc' = "done" /\ offset >= Section(symtab).sh_size
      /\ UNCHANGED <<file, phdr, shdr, syms, r, oom>>
  BY DEF SymsDone
<1>2. Accepted' /\ ~oom
  BY <1>1 DEF Accepted, ErrorInv
<1>3. PICK phend \in View!PhdrEnds(file), shend \in View!ShdrEnds(file) :
         View!WellFormed(file, phend, shend, Len(syms))
  BY <1>1, WalkedWellFormed
<1>4. Len(syms) \in 0..HeapNodes
  BY HeapAssumption DEF TypeOK, ListsInv
<1>5. PICK named : named = [i \in 1..Len(syms) |-> syms[i].named]
  OBVIOUS
<1>6. named \in [1..Len(syms) -> BOOLEAN]
  <2>1. \A i \in 1..Len(syms) : syms[i] \in SymWrapper
    BY DEF TypeOK
  <2>2. \A i \in 1..Len(syms) : syms[i].named \in BOOLEAN
    BY <2>1 DEF SymWrapper
  <2>3. QED
    BY <1>5, <2>2
<1>7. [phdr |-> phdr', shdr |-> shdr', syms |-> syms'] = View!View(file, Len(syms), named)
  BY <1>1, <1>5, ListsAreView
<1>8. View!Accept
  BY <1>1, <1>2, <1>3, <1>4, <1>6, <1>7 DEF View!Accept
<1>9. QED
  BY <1>8 DEF View!Next

(* A read behind the image is one the view warns of.                       *)
LEMMA BehindImage ==
  ASSUME TypeOK, IInv, ListsInv, WalkInv, ReadsBehindImage
  PROVE  View!MayDie(file)
<1>1. /\ Len(phdr) \in Nat /\ Len(shdr) \in Nat /\ Len(syms) \in Nat
      /\ offset \in Nat /\ file.length \in Nat
      /\ file.phnum \in Nat /\ file.shnum \in Nat
  <2>1. Len(phdr) \in Nat /\ Len(shdr) \in Nat /\ Len(syms) \in Nat
    BY DEF TypeOK
  <2>2. offset \in Offset(file.class) /\ Offset(file.class) = 0..(M - 1) /\ M \in Nat
    BY RunWidths DEF TypeOK
  <2>3. file.length \in Nat /\ file.phnum \in Half /\ file.shnum \in Half
    BY RunWidths
  <2>4. QED
    BY <2>1, <2>2, <2>3, WidthAssumption DEF Half
<1>2. CASE /\ pc = "phdr" /\ r = 0 /\ idx < file.phnum
           /\ offset + PhdrOffsetEnd(file.class) > file.length
  <2>1. idx = Len(phdr) /\ offset = View!PhdrPlace(file, Len(phdr) + 1)
    BY <1>2 DEF IInv, PhdrInv, ListsInv
  <2>2. Len(phdr) + 1 \in 1..file.phnum
    BY <1>1, <1>2, <2>1
  <2>3. QED
    BY <1>2, <2>1, <2>2
       DEF View!MayDie, PhdrOffsetEnd, View!PhdrOffsetEnd, ELFCLASS32, View!ELFCLASS32
<1>3. CASE /\ ShdrIteration /\ offset < file.length
           /\ offset + ShdrLinkEnd(file.class) > file.length
  <2>1. /\ idx = Len(shdr) /\ offset = View!ShdrPlace(file, Len(shdr) + 1)
        /\ idx < file.shnum
    BY <1>3 DEF ShdrIteration, IInv, ShdrInv, ListsInv
  <2>2. Len(shdr) + 1 \in 1..file.shnum
    BY <1>1, <2>1
  <2>3. offset + View!ShdrEnd(file.class) > file.length
    BY <1>1, <1>3 DEF ShdrLinkEnd, View!ShdrEnd, ELFCLASS32, View!ELFCLASS32
  <2>4. QED
    BY <2>1, <2>2, <2>3 DEF View!MayDie
<1>4. CASE /\ SymIteration
           /\ \/ shdr[symtab].sh_offset + ShdrEnd(file.class) > file.length
              \/ SymScoped /\ SymOffset + SizeofSym(file.class) > file.length
              \/ strtab # NULL /\ file.lastNul < NameOffset
  <2>1. /\ pc = "syms" /\ r = 0 /\ View!Symtabs(file) # {}
        /\ Section(symtab) = View!SymtabEntry(file)
        /\ symtab \in 1..file.shnum /\ Len(shdr) = file.shnum
    BY <1>4, TablesSettled DEF SymIteration
  <2>2. View!SymtabEntry(file).sh_size > 0
    BY <1>1, <1>4, <2>1, EntryTypes DEF SymIteration
  <2>0. Len(syms) + 1 \in 1..(HeapNodes + 1)
    BY <1>1, HeapAssumption DEF ListsInv
  <2>3. CASE strtab # NULL /\ file.lastNul < NameOffset
    <3>1. file.lastNul < View!NamePlace(file, Len(syms) + 1)
      BY <1>4, <2>1, <2>3, NextSymPlace
    <3>2. QED
      BY <2>0, <2>1, <2>2, <3>1 DEF View!MayDie
  <2>5. CASE SymScoped /\ SymOffset + SizeofSym(file.class) > file.length
    <3>1. SymOffset = View!SymPlace(file, Len(syms) + 1)
      BY <2>1, NextSymPlace
    <3>2. /\ View!SymPlace(file, Len(syms) + 1) + View!SizeofSym(file.class) > file.length
          /\ (View!SymPlace(file, Len(syms) + 1) + View!SizeofShdr64) % XwordMod <= file.length
      BY <2>5, <3>1 DEF SymScoped, SizeofSym, View!SizeofSym, SizeofShdr64, View!SizeofShdr64,
                        ELFCLASS32, View!ELFCLASS32
    <3>3. QED
      BY <2>0, <2>1, <2>2, <3>2 DEF View!MayDie
  <2>4. CASE shdr[symtab].sh_offset + ShdrEnd(file.class) > file.length
    <3>1. shdr[symtab].sh_offset = View!ShdrPlace(file, symtab)
      BY <2>1, SectionsListed
    <3>2. QED
      BY <2>1, <2>4, <3>1 DEF View!MayDie, ShdrEnd, View!ShdrEnd, ELFCLASS32, View!ELFCLASS32
  <2>6. QED
    BY <1>4, <2>3, <2>4, <2>5
<1>5. QED
  BY <1>2, <1>3, <1>4 DEF ReadsBehindImage

LEMMA NoStrtab ==
  ASSUME TypeOK, IInv, ListsInv, WalkInv, SymWithoutStrtab
  PROVE  View!MayDie(file)
<1>1. /\ pc = "syms" /\ View!Symtabs(file) # {} /\ ~View!HasStrtab(file)
      /\ Section(symtab) = View!SymtabEntry(file) /\ offset < Section(symtab).sh_size
  BY TablesSettled DEF SymWithoutStrtab, SymIteration
<1>2. offset \in Nat
  BY RunWidths DEF TypeOK
<1>3. View!SymtabEntry(file).sh_size > 0
  BY <1>1, <1>2, EntryTypes
<1>4. QED
  BY <1>1, <1>3 DEF View!MayDie

LEMMA ViewStep ==
  ASSUME TypeOK, IInv, ListsInv, WalkInv, ErrorInv, ErrorInv', TypeOK', [Next]_vars
  PROVE  [View!Next]_(View!viewVars)
<1> USE DEF lists, strtabs, ident, locals
<1>1. file' = file /\ oom \in BOOLEAN /\ oom' \in BOOLEAN /\ pc \in Phases /\ pc' \in Phases
  BY FileStable DEF TypeOK
<1>2. r' # 0 => oom' \/ IllFormed(file)
  BY <1>1 DEF ErrorInv
<1>3. CASE ParseEhdr
  <2>1. oom' = oom /\ pc = "ehdr" /\ pc' \in {"phdr", "done"} /\ (pc' = "done" => r' # 0)
    BY <1>3 DEF ParseEhdr, Leave
  <2>2. QED
    BY <1>1, <1>2, <2>1, ParsesOn, Rejects DEF Parsing
<1>4. CASE ParsePhdrEntry \/ ShdrOutOfScope \/ ShdrNoMemory \/ RecordShdr
              \/ SymOutOfScope \/ SymNameOutOfScope \/ RecordSym
  <2>1. Parsing /\ pc' = pc
    BY <1>4 DEF ParsePhdrEntry, ShdrIteration, ShdrOutOfScope, ShdrNoMemory, RecordShdr,
                SymIteration, SymOutOfScope, SymNameOutOfScope, RecordSym, Parsing
  <2>2. oom => oom'
    BY <1>4 DEF ParsePhdrEntry, ShdrOutOfScope, ShdrNoMemory, RecordShdr, SymOutOfScope,
                SymNameOutOfScope, RecordSym
  <2>3. QED
    BY <1>1, <2>1, <2>2, ParsesOn DEF Parsing
<1>5. CASE PhdrsDone
  <2>1. oom' = oom /\ pc = "phdr" /\ pc' \in {"shdr", "done"} /\ (pc' = "done" => r' # 0)
    BY <1>5 DEF PhdrsDone, Leave
  <2>2. QED
    BY <1>1, <1>2, <2>1, ParsesOn, Rejects DEF Parsing
<1>6. CASE LinkStrtabs
  <2>1. oom' = oom /\ pc = "shdr" /\ pc' \in {"symtab", "done"} /\ (pc' = "done" => r' # 0)
    BY <1>6 DEF LinkStrtabs
  <2>2. QED
    BY <1>1, <1>2, <2>1, ParsesOn, Rejects DEF Parsing
<1>7. CASE GetSymSections
  <2>1. oom' = oom /\ pc = "symtab" /\ pc' \in {"syms", "done"} /\ (pc' = "done" => r' # 0)
    BY <1>7 DEF GetSymSections, Leave
  <2>2. QED
    BY <1>1, <1>2, <2>1, ParsesOn, Rejects DEF Parsing
<1>8. CASE SymsDone
  <2>1. oom' = oom /\ r' = r /\ pc = "syms" /\ pc' = "done"
    BY <1>8 DEF SymsDone
  <2>2. QED
    BY <1>1, <1>2, <1>8, <2>1, Accepts, Rejects DEF Parsing
<1>9. CASE SymWithoutStrtab \/ CrashBehindImage
  <2>1. oom' = oom /\ pc' = "crashed" /\ Parsing /\ View!MayDie(file)
    BY <1>9, NoStrtab, BehindImage
       DEF SymWithoutStrtab, CrashBehindImage, ReadsBehindImage, ShdrIteration, SymIteration,
           Parsing
  <2>2. QED
    BY <1>1, <2>1, Dies
<1>10. CASE UNCHANGED vars
  <2>1. UNCHANGED <<file, pc, r, phdr, shdr, syms, oom>> /\ Accepted' = Accepted
    BY <1>10 DEF vars, Accepted
  <2>2. QED
    BY <2>1 DEF View!viewVars
<1>11. QED
  BY <1>3, <1>4, <1>5, <1>6, <1>7, <1>8, <1>9, <1>10 DEF Next, Finished

(* What ties the lists, the walk and the answer to the image, always.      *)
THEOREM ViewInvariant == Spec => []ViewInv
<1>1. Init => ViewInv
  <2> SUFFICES ASSUME Init PROVE ListsInv /\ WalkInv /\ ErrorInv
    BY InitInv DEF ViewInv
  <2>1. phdr = <<>> /\ shdr = <<>> /\ syms = <<>> /\ pc = "ehdr" /\ r = 0 /\ ~oom
    BY DEF Init
  <2>2. QED
    BY <2>1, HeapAssumption DEF ListsInv, WalkInv, ErrorInv
<1>2. TypeOK /\ IInv' /\ ViewInv /\ [Next]_vars => ViewInv'
  BY ListsInvStep, WalkInvStep, ErrorInvStep DEF ViewInv
<1>3. QED
  BY <1>1, <1>2, TypeCorrect, InductiveInvariant, PTL DEF Spec

(* elftool_parse answers as the view says: 0 exactly when the image is     *)
(* well formed, and then with exactly the image's tables in its lists.     *)
THEOREM ParseImplementsView == Spec => ImplementsView
<1>1. TypeOK /\ TypeOK' /\ ViewInv /\ ViewInv' /\ [Next]_vars
        => [View!Next]_(View!viewVars)
  BY ViewStep DEF ViewInv
<1>2. QED
  BY <1>1, ViewInit, TypeCorrect, ViewInvariant, PTL DEF Spec, ImplementsView, View!Spec
==============================================================================
