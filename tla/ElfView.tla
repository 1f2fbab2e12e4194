------------------------------- MODULE ElfView -------------------------------
(***************************************************************************)
(* What elftool_parse promises, in one step: it answers 0 exactly for the  *)
(* images that are well formed in its sense, and then the three lists are  *)
(* the tables of the image, entry by entry; otherwise it answers an error, *)
(* and it may also answer an error when the heap is exhausted ("oom").     *)
(* The definitions are closed forms over the image: no loop variable, no   *)
(* order of checks.  ElfParse is proved to implement this module.          *)
(***************************************************************************)
EXTENDS ElfLayout

CONSTANT MaxSyms     \* bound on the symbol counts a view is searched for

VARIABLES file, status, view, oom

viewVars == <<file, status, view, oom>>

NoView == [phdr |-> <<>>, shdr |-> <<>>, syms |-> <<>>]

(* Byte offsets of the i-th entries (from 1) of the two header tables.     *)
PhdrPlace(f, i) == (f.phoff + (i - 1) * f.phentsize) % Modulus(f.class)
ShdrPlace(f, i) == (f.shoff + (i - 1) * f.shentsize) % Modulus(f.class)

SectionOf(f, i) == ShdrAt(f, ShdrPlace(f, i))
Symtabs(f) == {i \in 1..f.shnum : SectionOf(f, i).sh_type = SHT_SYMTAB}

(* The symbol table: the last section of that type.                        *)
TheSymtab(f) == CHOOSE i \in Symtabs(f) : \A j \in Symtabs(f) : j <= i
SymtabEntry(f) == SectionOf(f, TheSymtab(f))

(* The names of its symbols are in the section its sh_link designates.     *)
HasStrtab(f) ==
  /\ SymtabEntry(f).sh_link < f.shnum
  /\ SectionOf(f, SymtabEntry(f).sh_link + 1).sh_type = SHT_STRTAB
StrtabEntry(f) == SectionOf(f, SymtabEntry(f).sh_link + 1)

(* n is how many symbols the table holds: the table is covered with n      *)
(* steps of sh_entsize and not with fewer.                                 *)
IsSymCount(f, n) ==
  LET at(k) == (k * SymtabEntry(f).sh_entsize) % Modulus(f.class)
  IN  /\ at(n) >= SymtabEntry(f).sh_size
      /\ \A k \in 0..(n - 1) : at(k) < SymtabEntry(f).sh_size

SymPlace(f, i) ==
  ((i - 1) * SymtabEntry(f).sh_entsize + SymtabEntry(f).sh_offset) % Modulus(f.class)
NamePlace(f, i) ==
  (SymAt(f, SymPlace(f, i)).st_name + StrtabEntry(f).sh_offset) % Modulus(f.class)

SymAccepted(f, i) ==
  /\ (SymPlace(f, i) + SizeofShdr64) % XwordMod <= f.length
  /\ NamePlace(f, i) <= f.length

(* Which section header a symbol is given.  Sections 0..shnum-2 are found; *)
(* any other index repeats what the nearest earlier symbol was given, 0 if *)
(* there is none.                                                          *)
InKnownSection(f, i) == SymAt(f, SymPlace(f, i)).st_shndx + 1 < f.shnum
SymSection(f, i) ==
  LET known == {j \in 1..i : InKnownSection(f, j)}
  IN  IF known = {} THEN 0
      ELSE LET j == CHOOSE j \in known : \A k \in known : k <= j
           IN  ShdrPlace(f, SymAt(f, SymPlace(f, j)).st_shndx + 1)

(***************************************************************************)
(* Every entry of the header tables starts inside the image, the tables    *)
(* end inside it as far as the header check can tell, there is a symbol    *)
(* table with n acceptable symbols, and a string table if n is not 0.      *)
(***************************************************************************)
WellFormed(f, phend, shend, n) ==
  /\ IdentAccepted(f) /\ TablesScoped(f, phend, shend)
  /\ \A i \in 1..f.phnum : PhdrPlace(f, i) < f.length
  /\ \A i \in 1..f.shnum : ShdrPlace(f, i) < f.length
  /\ Symtabs(f) # {} /\ ToInt(SymtabEntry(f).sh_link) >= 0
  /\ IsSymCount(f, n)
  /\ n > 0 => HasStrtab(f) /\ \A i \in 1..n : SymAccepted(f, i)

View(f, n, named) ==
  [phdr |-> [i \in 1..f.phnum |->
               [idx |-> i - 1, p_offset |-> PhdrPlace(f, i),
                mem_offset |-> PhdrOffsetAt(f, PhdrPlace(f, i))]],
   shdr |-> [i \in 1..f.shnum |->
               [idx |-> i - 1, sh_offset |-> ShdrPlace(f, i),
                mem_offset |-> SectionOf(f, i).sh_offset]],
   syms |-> [i \in 1..n |->
               [idx |-> (i - 1) % HalfMod, sh_offset |-> SymSection(f, i),
                mem_offset |-> SymAt(f, SymPlace(f, i)).st_value,
                sym_offset |-> SymPlace(f, i), name |-> NamePlace(f, i),
                named |-> named[i]]]]

PhdrEnds(f) == TableEnds(f, f.phentsize, f.phnum, f.phoff)
ShdrEnds(f) == TableEnds(f, f.shentsize, f.shnum, f.shoff)

Init ==
  /\ file \in Files
  /\ status = "parsing" /\ view = NoView /\ oom = FALSE

Accept ==
  /\ status = "parsing" /\ ~oom
  /\ \E phend \in PhdrEnds(file), shend \in ShdrEnds(file), n \in 0..MaxSyms :
       /\ WellFormed(file, phend, shend, n)
       /\ \E named \in [1..n -> BOOLEAN] : view' = View(file, n, named)
  /\ status' = "accepted"
  /\ UNCHANGED <<file, oom>>

(* An error for an image that is not well formed, or without memory.       *)
Reject ==
  /\ status = "parsing"
  /\ \/ oom
     \/ \E phend \in PhdrEnds(file), shend \in ShdrEnds(file) :
          \A n \in 0..MaxSyms : ~WellFormed(file, phend, shend, n)
  /\ status' = "rejected"
  /\ UNCHANGED <<file, view, oom>>

Exhaust ==
  /\ status = "parsing" /\ ~oom
  /\ oom' = TRUE
  /\ UNCHANGED <<file, status, view>>

(* The process may die only on an image whose symbols have no string       *)
(* table, or when it reads outside the image: a header entry that is cut   *)
(* off, a symbol that is accepted only because the sum that tests it       *)
(* wraps, or a name with no zero byte after it.                            *)
MayDie(f) ==
  \/ \E i \in 1..f.phnum : PhdrPlace(f, i) + PhdrOffsetEnd(f.class) > f.length
  \/ \E i \in 1..f.shnum : ShdrPlace(f, i) + ShdrEnd(f.class) > f.length
  \/ /\ Symtabs(f) # {} /\ SymtabEntry(f).sh_size > 0
     /\ \/ ~HasStrtab(f)
        \/ \E i \in 1..(MaxSyms + 1) :
             \/ /\ SymPlace(f, i) + SizeofSym(f.class) > f.length
                /\ (SymPlace(f, i) + SizeofShdr64) % XwordMod <= f.length
             \/ f.lastNul < NamePlace(f, i)

Die ==
  /\ status = "parsing"
  /\ MayDie(file)
  /\ status' = "crashed"
  /\ UNCHANGED <<file, view, oom>>

Ended == status # "parsing" /\ UNCHANGED viewVars

Next == Accept \/ Reject \/ Exhaust \/ Die \/ Ended

Spec == Init /\ [][Next]_viewVars
==============================================================================
