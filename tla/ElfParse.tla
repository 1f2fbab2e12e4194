------------------------------ MODULE ElfParse ------------------------------
(***************************************************************************)
(* elftool_parse (src/lib/elftool_parse.c): the four parsing phases over   *)
(* one loaded image, one action per loop iteration.  The 32-bit and 64-bit *)
(* functions are the same text over different widths, so each pair is one  *)
(* action parameterised by the image's class.                              *)
(*                                                                         *)
(* Nondeterminism: the image (Init), malloc and strdup may fail at any     *)
(* call and must fail once HeapNodes list nodes exist; a read outside the  *)
(* image may crash or yield what the heap holds there.                     *)
(***************************************************************************)
EXTENDS ElfLayout

CONSTANTS
  HeapNodes,     \* how many list nodes the allocator can supply
  SpuriousNull   \* whether it may also answer NULL while it has memory

ASSUME HeapAssumption == HeapNodes \in Nat /\ SpuriousNull \in BOOLEAN

VARIABLES
  file,          \* the image: bin->mem and bin->length, never written here
  elfclass, endian,
  phdr, shdr, syms,   \* bin->phdr, bin->shdr, bin->syms: the wrapper lists
  shstrtab, strtab,   \* positions in shdr of the two string tables, 0 = NULL
  pc,            \* the running phase
  r,             \* its local r
  offset, idx,   \* its loop variables (sym_offset and idx in parse_syms)
  symtabstrndx,  \* local of elftool_parse_shdr
  symtab,        \* local of elftool_parse_syms: position in shdr, 0 = NULL
  lastSect,      \* syms.sh_offset, the scratch field kept across iterations
  oom            \* auxiliary: some allocation of a list node has failed

lists == <<phdr, shdr, syms>>
strtabs == <<shstrtab, strtab>>
ident == <<file, elfclass, endian>>
locals == <<offset, idx, symtabstrndx, symtab, lastSect>>
vars == <<ident, lists, strtabs, pc, r, locals, oom>>

NULL == 0
EINVAL == 22
EFAULT == 14
MutNoSymtabYet == 0
NoSymtabYet == -1  \* the initial symtabstrndx

M == Modulus(file.class)

Init ==
  /\ file \in Files
  /\ elfclass = 0 /\ endian = 0
  /\ phdr = <<>> /\ shdr = <<>> /\ syms = <<>>
  /\ shstrtab = NULL /\ strtab = NULL
  /\ pc = "ehdr" /\ r = 0
  /\ offset = 0 /\ idx = 0
  /\ symtabstrndx = NoSymtabYet /\ symtab = NULL /\ lastSect = 0
  /\ oom = FALSE

(* What ft_lstnew may answer: a node while the heap has one, or NULL.      *)
NodeAvailable == Len(phdr) + Len(shdr) + Len(syms) < HeapNodes
Malloc == IF SpuriousNull THEN BOOLEAN ELSE {TRUE}
LstNew == IF NodeAvailable THEN Malloc ELSE {FALSE}

(* Leaving a phase: elftool_parse calls the next one only while r is 0.    *)
Leave(next, first) ==
  IF r' = 0
    THEN pc' = next /\ offset' = first /\ idx' = 0
    ELSE pc' = "done" /\ UNCHANGED <<offset, idx>>

----------------------------------------------------------------------------
(* elftool_parse_ehdr with elftool_parse32_ehdr / elftool_parse64_ehdr.    *)
ParseEhdr ==
  /\ pc = "ehdr"
  /\ elfclass' = IF ClassReached(file) THEN file.class ELSE elfclass
  /\ endian' = IF DataReached(file) THEN file.data ELSE endian
  /\ \E phend \in TableEnds(file, file.phentsize, file.phnum, file.phoff),
        shend \in TableEnds(file, file.shentsize, file.shnum, file.shoff) :
       r' = IF IdentAccepted(file) /\ TablesScoped(file, phend, shend)
              THEN 0 ELSE EFAULT
  /\ Leave("phdr", file.phoff)
  /\ UNCHANGED <<file, lists, strtabs, symtabstrndx, symtab, lastSect, oom>>

----------------------------------------------------------------------------
MutPhdrInScope == offset <= file.length
PhdrInScope == offset < file.length

(* One iteration of elftool_parse_phdr_32/64.  An offset outside the image *)
(* sets r but the entry is read and recorded all the same, and pushing the *)
(* NULL of a failed ft_lstnew leaves the list as it is.                    *)
ParsePhdrEntry ==
  /\ pc = "phdr" /\ r = 0 /\ idx < file.phnum
  /\ \E stored \in LstNew :
       /\ phdr' = IF stored
                    THEN Append(phdr, [idx |-> idx, p_offset |-> offset,
                                       mem_offset |-> PhdrOffsetAt(file, offset)])
                    ELSE phdr
       /\ r' = IF stored /\ PhdrInScope THEN 0 ELSE EFAULT
       /\ oom' = (oom \/ ~stored)
  /\ offset' = (offset + file.phentsize) % M
  /\ idx' = idx + 1
  /\ UNCHANGED <<ident, shdr, syms, strtabs, pc, symtabstrndx, symtab, lastSect>>

PhdrsDone ==
  /\ pc = "phdr" /\ (r # 0 \/ idx = file.phnum)
  /\ r' = r
  /\ Leave("shdr", file.shoff)
  /\ UNCHANGED <<ident, lists, strtabs, symtabstrndx, symtab, lastSect, oom>>

----------------------------------------------------------------------------
(* One iteration of the first loop of elftool_parse_shdr_32/64.            *)
ShdrIteration == pc = "shdr" /\ r = 0 /\ idx < file.shnum

MutShdrOutOfScope ==
  /\ ShdrIteration /\ offset >= file.length
  /\ UNCHANGED vars
ShdrOutOfScope ==
  /\ ShdrIteration /\ offset >= file.length
  /\ r' = EFAULT
  /\ UNCHANGED <<ident, lists, strtabs, pc, locals, oom>>

ShdrNoMemory ==
  /\ ShdrIteration /\ offset < file.length
  /\ SpuriousNull \/ ~NodeAvailable
  /\ r' = EFAULT /\ oom' = TRUE
  /\ UNCHANGED <<ident, lists, strtabs, pc, locals>>

RecordShdr ==
  /\ ShdrIteration /\ offset < file.length
  /\ NodeAvailable
  /\ LET entry == ShdrAt(file, offset) IN
       /\ shdr' = Append(shdr, [idx |-> idx, sh_offset |-> offset,
                                mem_offset |-> entry.sh_offset])
       /\ symtabstrndx' = IF entry.sh_type = SHT_SYMTAB
                            THEN ToInt(entry.sh_link) ELSE symtabstrndx
  /\ offset' = (offset + file.shentsize) % M
  /\ idx' = idx + 1
  /\ UNCHANGED <<ident, phdr, syms, strtabs, pc, r, symtab, lastSect, oom>>

(* The entry behind the wrapper at position p of the section list.         *)
Section(p) == ShdrAt(file, shdr[p].sh_offset)
SectionsOfType(type) == {p \in 1..Len(shdr) : Section(p).sh_type = type}

(* A scan of the list that keeps its latest hit, NULL without one.         *)
MutIsLastOf(p, hits) ==
  IF hits = {} THEN p = NULL ELSE p \in hits /\ \A q \in hits : p <= q
IsLastOf(p, hits) ==
  IF hits = {} THEN p = NULL ELSE p \in hits /\ \A q \in hits : q <= p

StrtabsWithIdx(n) == {p \in SectionsOfType(SHT_STRTAB) : shdr[p].idx = n}

(* The end of elftool_parse_shdr_32/64: no symbol table is an error, else  *)
(* the second loop looks up the two string tables by index.                *)
LinkStrtabs ==
  /\ pc = "shdr" /\ (r # 0 \/ idx = file.shnum)
  /\ r' = IF symtabstrndx < 0 THEN EFAULT ELSE r
  /\ IF r' = 0
       THEN /\ \E p \in 0..Len(shdr) :
                 IsLastOf(p, StrtabsWithIdx(file.shstrndx)) /\ shstrtab' = p
            /\ \E p \in 0..Len(shdr) :
                 IsLastOf(p, StrtabsWithIdx(symtabstrndx)) /\ strtab' = p
            /\ pc' = "symtab"
       ELSE pc' = "done" /\ UNCHANGED strtabs
  /\ UNCHANGED <<ident, lists, locals, oom>>

----------------------------------------------------------------------------
(* elftool_get_sym_sections and the entry of elftool_parse_syms32/64.      *)
GetSymSections ==
  /\ pc = "symtab"
  /\ \E p \in 0..Len(shdr) :
       /\ IsLastOf(p, SectionsOfType(SHT_SYMTAB))
       /\ symtab' = p
       /\ r' = IF p = NULL THEN EINVAL ELSE 0
  /\ Leave("syms", 0)
  /\ UNCHANGED <<ident, lists, strtabs, symtabstrndx, lastSect, oom>>

(* One iteration of elftool_parse_syms32/64.  The scope test adds the size *)
(* of a 64-bit section header, in size_t.                                  *)
SymIteration == pc = "syms" /\ r = 0 /\ offset < Section(symtab).sh_size
SymOffset == (offset + Section(symtab).sh_offset) % M
MutSymScoped == SymOffset <= file.length
SymScoped == (SymOffset + SizeofShdr64) % XwordMod <= file.length
NameOffset == (SymAt(file, SymOffset).st_name + Section(strtab).sh_offset) % M

SymOutOfScope ==
  /\ SymIteration /\ ~SymScoped
  /\ r' = EFAULT
  /\ UNCHANGED <<ident, lists, strtabs, pc, locals, oom>>

(* No string table: r is set, but the branch that calls strdup dereferences*)
(* the missing table all the same.                                         *)
SymWithoutStrtab ==
  /\ SymIteration /\ SymScoped /\ strtab = NULL
  /\ pc' = "crashed"
  /\ UNCHANGED <<ident, lists, strtabs, r, locals, oom>>

SymNameOutOfScope ==
  /\ SymIteration /\ SymScoped /\ strtab # NULL
  /\ NameOffset > file.length
  /\ r' = EFAULT /\ idx' = (idx + 1) % HalfMod
  /\ UNCHANGED <<ident, lists, strtabs, pc, offset, symtabstrndx, symtab,
                 lastSect, oom>>

(* The lookup of the symbol's section: it stops before the last node and   *)
(* leaves the scratch field as the previous iteration set it on a miss.    *)
MutSectionOffset(shndx) ==
  LET found == {p \in 1..(Len(shdr) - 1) : shdr[p].idx = shndx}
  IN  IF found = {} THEN {0} ELSE {shdr[p].sh_offset : p \in found}
SectionOffset(shndx) ==
  LET found == {p \in 1..(Len(shdr) - 1) : shdr[p].idx = shndx}
  IN  IF found = {} THEN {lastSect} ELSE {shdr[p].sh_offset : p \in found}

(* strdup may answer NULL, which nobody looks at.                          *)
RecordSym ==
  /\ SymIteration /\ SymScoped /\ strtab # NULL
  /\ NameOffset <= file.length
  /\ \E stored \in LstNew, named \in Malloc,
        sect \in SectionOffset(SymAt(file, SymOffset).st_shndx) :
       /\ syms' = IF stored
                    THEN Append(syms, [idx |-> idx, sh_offset |-> sect,
                                       mem_offset |-> SymAt(file, SymOffset).st_value,
                                       sym_offset |-> SymOffset,
                                       name |-> NameOffset, named |-> named])
                    ELSE syms
       /\ r' = IF stored THEN 0 ELSE EFAULT
       /\ oom' = (oom \/ ~stored)
       /\ lastSect' = sect
  /\ idx' = (idx + 1) % HalfMod
  /\ offset' = (offset + Section(symtab).sh_entsize) % M
  /\ UNCHANGED <<ident, phdr, shdr, strtabs, pc, symtabstrndx, symtab>>

SymsDone ==
  /\ pc = "syms" /\ (r # 0 \/ offset >= Section(symtab).sh_size)
  /\ pc' = "done"
  /\ UNCHANGED <<ident, lists, strtabs, r, locals, oom>>

----------------------------------------------------------------------------
(* Reads of an iteration that leave the image: a header entry cut off by   *)
(* its end (the loop of the symbols reads sh_entsize after every iteration,*)
(* a failed one too), a symbol before its start, which the scope test lets *)
(* through when its sum wraps, and a name without a terminating zero.      *)
ReadsBehindImage ==
  \/ /\ pc = "phdr" /\ r = 0 /\ idx < file.phnum
     /\ offset + PhdrOffsetEnd(file.class) > file.length
  \/ /\ ShdrIteration /\ offset < file.length
     /\ offset + ShdrLinkEnd(file.class) > file.length
     /\ \/ ShdrAt(file, offset).sh_type = SHT_SYMTAB
        \/ offset + ShdrOffsetEnd(file.class) > file.length
  \/ /\ SymIteration
     /\ \/ shdr[symtab].sh_offset + ShdrEnd(file.class) > file.length
        \/ SymScoped /\ SymOffset + SizeofSym(file.class) > file.length
        \/ /\ SymScoped /\ strtab # NULL
           /\ file.lastNul < NameOffset /\ NameOffset <= file.length

CrashBehindImage ==
  /\ ReadsBehindImage
  /\ pc' = "crashed"
  /\ UNCHANGED <<ident, lists, strtabs, r, locals, oom>>

Finished == pc \in {"done", "crashed"} /\ UNCHANGED vars

Next ==
  \/ ParseEhdr
  \/ ParsePhdrEntry \/ PhdrsDone
  \/ ShdrOutOfScope \/ ShdrNoMemory \/ RecordShdr \/ LinkStrtabs
  \/ GetSymSections
  \/ SymOutOfScope \/ SymWithoutStrtab \/ SymNameOutOfScope \/ RecordSym \/ SymsDone
  \/ CrashBehindImage
  \/ Finished

Spec == Init /\ [][Next]_vars

(* A single thread runs to its end: the process is scheduled.              *)
FairSpec == Spec /\ WF_vars(Next)

----------------------------------------------------------------------------
Phases == {"ehdr", "phdr", "shdr", "symtab", "syms", "done", "crashed"}
Over == pc \in {"done", "crashed"}
Accepted == pc = "done" /\ r = 0

PhdrWrapper == [idx : Half, p_offset : Offset(file.class), mem_offset : Offset(file.class)]
ShdrWrapper == [idx : Half, sh_offset : Offset(file.class), mem_offset : Offset(file.class)]
SymWrapper == [idx : Half, sh_offset : Offset(file.class),
               mem_offset : Offset(file.class), sym_offset : Offset(file.class),
               name : Offset(file.class), named : BOOLEAN]

(* Every variable has its type: the C types of the fields and locals.      *)
TypeOK ==
  /\ file \in Files
  /\ elfclass \in Class \cup {0} /\ endian \in Data \cup {0}
  /\ phdr \in Seq(PhdrWrapper)
  /\ shdr \in Seq(ShdrWrapper)
  /\ syms \in Seq(SymWrapper)
  /\ shstrtab \in 0..Len(shdr) /\ strtab \in 0..Len(shdr) /\ symtab \in 0..Len(shdr)
  /\ pc \in Phases /\ r \in {0, EINVAL, EFAULT}
  /\ offset \in Offset(file.class) /\ idx \in Half
  /\ symtabstrndx \in Int
  /\ lastSect \in Offset(file.class) /\ oom \in BOOLEAN

(* The header check and the two table loops together keep every entry of   *)
(* an accepted image inside it, whole: the header check compares a product *)
(* that may have overflowed, the loops only compare where entries start.   *)
(* Neither check is enough alone; together they are below 2^31 - 2^16.     *)
AcceptedEntriesInImage ==
  Accepted /\ 2 * (file.length + HalfMod) < WordMod =>
    /\ \A i \in 1..Len(phdr) : phdr[i].p_offset + file.phentsize <= file.length
    /\ \A i \in 1..Len(shdr) : shdr[i].sh_offset + file.shentsize <= file.length

(* The string table found by the second loop of elftool_parse_shdr is the  *)
(* one that the symbol table elftool_get_sym_sections finds later links to,*)
(* though the two functions choose the symbol table independently.         *)
StrtabBelongsToSymtab ==
  symtab # NULL /\ strtab # NULL =>
    /\ Section(strtab).sh_type = SHT_STRTAB
    /\ Section(symtab).sh_type = SHT_SYMTAB
    /\ shdr[strtab].idx = Section(symtab).sh_link

(* elftool_get_sym_sections never misses a symbol table: elftool_parse     *)
(* reaches it only after elftool_parse_shdr has seen one.                  *)
SymtabNeverMissing == r # EINVAL /\ (pc = "syms" => symtab # NULL)

(* The symbol table ends where its offset can still express: the sums of   *)
(* the scope test do not wrap.  Nothing in the code establishes it.        *)
TableFits ==
  LET table == Section(symtab)
  IN  table.sh_offset + table.sh_size + SizeofShdr64 <= M

(* The scope test of elftool_parse_syms keeps every recorded entry whole   *)
(* inside the image: always for 32-bit images, whose sums are taken in a   *)
(* wider type, and for 64-bit ones while the table fits.  None then lies   *)
(* before the table either, whatever sh_entsize makes of the walk.         *)
SymsInImage ==
  \A i \in 1..Len(syms) :
    /\ file.class = ELFCLASS32 \/ TableFits =>
         syms[i].sym_offset + SizeofSym(file.class) <= file.length
    /\ TableFits => Section(symtab).sh_offset <= syms[i].sym_offset

(* The section header a symbol carries: its own section's when that is not *)
(* the last one, otherwise whatever the previous symbol carries.           *)
SymSectionTrace ==
  \A i \in 1..Len(syms) :
    LET n == SymAt(file, syms[i].sym_offset).st_shndx
    IN  syms[i].sh_offset =
          IF n + 1 < Len(shdr) THEN shdr[n + 1].sh_offset
          ELSE IF i = 1 THEN 0 ELSE syms[i - 1].sh_offset

(* Parsing ends: the walk of a symbol table whose entry size is 0 or wraps *)
(* stops at the latest when the heap is exhausted.                         *)
Terminates == <>Over

(* The lists, once accepted, are exactly the tables of the image, and the  *)
(* answer is an error exactly for the images that are not well formed.     *)
View == INSTANCE ElfView WITH
  MaxSyms <- HeapNodes,
  status <- IF pc = "done" THEN IF r = 0 THEN "accepted" ELSE "rejected"
            ELSE IF pc = "crashed" THEN "crashed" ELSE "parsing",
  view <- IF Accepted THEN [phdr |-> phdr, shdr |-> shdr, syms |-> syms]
          ELSE [phdr |-> <<>>, shdr |-> <<>>, syms |-> <<>>]
ImplementsView == View!Spec

----------------------------------------------------------------------------
(* The inductive invariant behind the safety properties, by phase.         *)
Entering == {"ehdr", "phdr", "shdr", "symtab"}
Scoped ==
  \E phend \in TableEnds(file, file.phentsize, file.phnum, file.phoff),
     shend \in TableEnds(file, file.shentsize, file.shnum, file.shoff) :
    TablesScoped(file, phend, shend)
SmallImage == 2 * (file.length + HalfMod) < WordMod

PhaseInv ==
  /\ pc \in {"ehdr", "phdr"} => shdr = <<>> /\ strtab = NULL /\ symtabstrndx = NoSymtabYet
  /\ pc = "ehdr" => phdr = <<>>
  /\ pc = "shdr" => strtab = NULL
  /\ pc \in Entering => syms = <<>> /\ symtab = NULL /\ lastSect = 0
  /\ pc \in {"ehdr", "symtab"} => r = 0
  /\ pc \in Phases \ {"ehdr", "done"} \/ Accepted => Scoped

PhdrPlaced(i) == phdr[i].p_offset = file.phoff + (i - 1) * file.phentsize
PhdrInv ==
  /\ pc = "phdr" /\ r = 0 =>
       /\ idx = Len(phdr) /\ idx <= file.phnum
       /\ SmallImage => offset = file.phoff + idx * file.phentsize
  /\ pc \in {"shdr", "symtab", "syms"} \/ Accepted => Len(phdr) = file.phnum
  /\ pc \in {"shdr", "symtab", "syms"} \/ Accepted \/ (pc = "phdr" /\ r = 0) =>
       \A i \in 1..Len(phdr) :
         /\ phdr[i].p_offset < file.length
         /\ SmallImage => PhdrPlaced(i)

ShdrPlaced(i) == shdr[i].sh_offset = file.shoff + (i - 1) * file.shentsize
ShdrInv ==
  /\ pc = "shdr" =>
       /\ idx = Len(shdr) /\ idx <= file.shnum
       /\ SmallImage => offset = file.shoff + idx * file.shentsize
  /\ pc \in {"symtab", "syms"} \/ Accepted => Len(shdr) = file.shnum
  /\ \A i \in 1..Len(shdr) :
       /\ shdr[i].idx = i - 1
       /\ shdr[i].sh_offset < file.length
       /\ SmallImage => ShdrPlaced(i)

SymtabInv ==
  /\ \/ SectionsOfType(SHT_SYMTAB) = {} /\ symtabstrndx = NoSymtabYet
     \/ \E q \in SectionsOfType(SHT_SYMTAB) :
          /\ IsLastOf(q, SectionsOfType(SHT_SYMTAB))
          /\ symtabstrndx = ToInt(Section(q).sh_link)
  /\ pc \in {"symtab", "syms"} => symtabstrndx >= 0
  /\ strtab # NULL => strtab \in StrtabsWithIdx(symtabstrndx) /\ symtabstrndx >= 0
  /\ symtab # NULL =>
       symtab \in SectionsOfType(SHT_SYMTAB) /\ IsLastOf(symtab, SectionsOfType(SHT_SYMTAB))
  /\ pc = "syms" => symtab # NULL
  /\ r # EINVAL

(* What was tested when a symbol was recorded, and still holds of it.      *)
RecordedSyms ==
  \A i \in 1..Len(syms) :
    /\ symtab # NULL /\ strtab # NULL
    /\ syms[i].name <= file.length
    /\ syms[i].name =
         (SymAt(file, syms[i].sym_offset).st_name + Section(strtab).sh_offset) % M

SymsInv ==
  /\ RecordedSyms
  /\ SymsInImage
  /\ SymSectionTrace
  /\ pc = "syms" /\ r = 0 =>
       lastSect = IF syms = <<>> THEN 0 ELSE syms[Len(syms)].sh_offset

(* All of it together: what each phase may rely on when it starts, and     *)
(* what it has established about the lists so far.                         *)
IInv == PhaseInv /\ PhdrInv /\ ShdrInv /\ SymtabInv /\ SymsInv

----------------------------------------------------------------------------
(* The invariants behind ImplementsView: what the loops have done so far,  *)
(* in the closed forms of the view.                                        *)

(* The lists are the tables of the image as far as they have been read.    *)
PhdrEntryAt(f, i) ==
  [idx |-> i - 1, p_offset |-> View!PhdrPlace(f, i),
   mem_offset |-> PhdrOffsetAt(f, View!PhdrPlace(f, i))]
ShdrEntryAt(f, i) ==
  [idx |-> i - 1, sh_offset |-> View!ShdrPlace(f, i),
   mem_offset |-> ShdrAt(f, View!ShdrPlace(f, i)).sh_offset]
ListsInv ==
  /\ \A i \in 1..Len(phdr) : phdr[i] = PhdrEntryAt(file, i)
  /\ pc = "phdr" /\ r = 0 => offset = View!PhdrPlace(file, Len(phdr) + 1)
  /\ \A i \in 1..Len(shdr) : shdr[i] = ShdrEntryAt(file, i)
  /\ pc = "shdr" => offset = View!ShdrPlace(file, Len(shdr) + 1)
  /\ Len(phdr) + Len(shdr) + Len(syms) <= HeapNodes
  /\ pc \in {"symtab", "syms"} /\ strtab = NULL => StrtabsWithIdx(symtabstrndx) = {}

(* The walk of the symbol table has come over as many entries as there are *)
(* symbols in the list, all of them acceptable.                            *)
Reached(f, k) == (k * View!SymtabEntry(f).sh_entsize) % Modulus(f.class)
SymEntryAt(f, i, named) ==
  [idx |-> (i - 1) % HalfMod, sh_offset |-> View!SymSection(f, i),
   mem_offset |-> SymAt(f, View!SymPlace(f, i)).st_value,
   sym_offset |-> View!SymPlace(f, i), name |-> View!NamePlace(f, i), named |-> named]
SymWalked(f, i) ==
  View!SymAccepted(f, i) /\ Reached(f, i - 1) < View!SymtabEntry(f).sh_size
LastSection(f, i) == IF i = 0 THEN 0 ELSE View!SymSection(f, i)
WalkInv ==
  pc = "syms" =>
    /\ \A i \in 1..Len(syms) :
         SymWalked(file, i) /\ syms[i] = SymEntryAt(file, i, syms[i].named)
    /\ r = 0 => /\ offset = Reached(file, Len(syms)) /\ idx = Len(syms) % HalfMod
                /\ lastSect = LastSection(file, Len(syms))

(* An error has a reason: no memory, or an image that is not well formed.  *)
IllFormed(f) ==
  \E phend \in View!PhdrEnds(f), shend \in View!ShdrEnds(f) :
    \A n \in 0..HeapNodes : ~View!WellFormed(f, phend, shend, n)
ErrorInv ==
  /\ oom => r # 0
  /\ r # 0 => oom \/ IllFormed(file)
  /\ pc \in {"phdr", "shdr", "symtab", "syms"} => IdentAccepted(file)

(* What the refinement rests on: both invariants together.                 *)
ViewInv == IInv /\ ListsInv /\ WalkInv /\ ErrorInv

----------------------------------------------------------------------------
(* "no strtab found" (src/lib/elftool_parse.c:327, :380), with "non-zero   *)
(* on failure" (inc/elftool_parse.h:10): a symbol table without its string *)
(* table is answered with an error.                                        *)
MissingStrtabReported == symtab # NULL /\ strtab = NULL => pc # "crashed"

(* "offset out of scope in shdr table" (src/lib/elftool_parse.c:318) is    *)
(* the answer to a symbol that is not in the image: none is recorded whose *)
(* entry does not lie below the end.                                       *)
SymsBelowEnd ==
  \A i \in 1..Len(syms) :
    syms[i].sym_offset + SizeofSym(file.class) <= file.length
==============================================================================
