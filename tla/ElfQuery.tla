------------------------------- MODULE ElfQuery -------------------------------
(***************************************************************************)
(* The library user of ElfEdit who also queries symbols:                   *)
(* elftool_sym_query_by_name (src/lib/elftool_query.c) between injections  *)
(* and writes on one elftool_t.                                            *)
(*                                                                         *)
(* image.syms is bin->syms with the entries behind it; the symbol table is *)
(* taken to lie where no query writes.  A name is a sequence of letters.   *)
(* The function reads 64-bit entries whatever the class: images of class   *)
(* 32 are not queried here.                                                *)
(***************************************************************************)
EXTENDS ElfEdit

CONSTANTS
  QueryNames,  \* the names a caller asks for
  Sizes        \* the sizes of the content it writes

ASSUME QueryAssumption ==
  /\ QueryNames \subseteq Seq(Nat) /\ Sizes \subseteq Nat
  /\ \A f \in Images :
       f.syms \in Seq([name : Seq(Nat), named : BOOLEAN,  \* FALSE: strdup failed
                       st_value : 0..(AddrMod - 1), st_size : Nat])

VARIABLES
  query,    \* the elftool_sym_query_t of the caller's last reading query
  buffer,   \* auxiliary: how often bin->mem has been freed and replaced
  patched,  \* auxiliary: what successful queries have written, by address
  spilled   \* auxiliary: one of them wrote behind its segment's file content

queryVars == <<query, buffer, patched, spilled>>
allVars == <<vars, queryVars>>

(* sym_content is a pointer into bin->mem: which buffer, and where.  "of"  *)
(* is auxiliary: the address it was handed out for.                        *)
NoBuffer == -1
NullPointer == [buffer |-> NoBuffer, at |-> 0, of |-> 0]
Patch(n, k) == [patch |-> n, at |-> k]  \* the k-th cell of what call n writes

QueryInit ==
  /\ Init
  /\ query = [sym_content |-> NullPointer, sym_size |-> 0, sym_vaddr |-> 0]
  /\ buffer = 0 /\ patched = <<>> /\ spilled = FALSE

----------------------------------------------------------------------------
(* strncmp(name, sym->name, strlen(name)): what is asked for need only be  *)
(* the beginning of the symbol's name.                                     *)
Matches(s, name) == name = <<>> \/ (s.named /\ IsPrefix(name, s.name))

Candidates(name) ==
  {i \in 1..Len(image.syms) :
     /\ Matches(image.syms[i], name)
     /\ image.syms[i].st_value # 0 /\ image.syms[i].st_size # 0}
IsChosen(i, name) == i \in Candidates(name) /\ \A k \in Candidates(name) : i <= k

(* The walk reaches a symbol without a name before it has found one.       *)
ReadsNullName(name) ==
  /\ name # <<>>
  /\ \E i \in 1..Len(image.syms) :
       ~image.syms[i].named /\ \A k \in Candidates(name) : i < k

(* The first PT_LOAD around the address, its first byte left out.          *)
Covers(e, a) ==
  e.p_type = "LOAD" /\ e.p_vaddr < a /\ a < (e.p_vaddr + e.p_memsz) % AddrMod
IsSegmentOf(j, a) ==
  /\ j \in 1..Len(phdr) /\ Covers(Ent(phdr[j]), a)
  /\ \A k \in 1..(j - 1) : ~Covers(Ent(phdr[k]), a)

(* The test for initialised content adds the place of the segment in the   *)
(* file to the size it has there.                                          *)
Uninitialised(e, a) == a - e.p_vaddr > e.p_offset + e.p_filesz

Found(name, i, j) ==
  /\ IsChosen(i, name)
  /\ IsSegmentOf(j, image.syms[i].st_value)
  /\ ~Uninitialised(Ent(phdr[j]), image.syms[i].st_value)

MutContentOffset(e, a) == a - e.p_vaddr
ContentOffset(e, a) == e.p_offset + (a - e.p_vaddr)

(* The symbol and the place of its content, as a set: empty when the query *)
(* answers EINVAL.                                                         *)
Located(name) ==
  {[at |-> ContentOffset(Ent(phdr[ij[2]]), image.syms[ij[1]].st_value),
    end |-> Ent(phdr[ij[2]]).p_offset + Ent(phdr[ij[2]]).p_filesz,
    size |-> image.syms[ij[1]].st_size, vaddr |-> image.syms[ij[1]].st_value] :
     ij \in {x \in (1..Len(image.syms)) \X (1..Len(phdr)) : Found(name, x[1], x[2])}}

----------------------------------------------------------------------------
QueryCall ==
  /\ pc = "idle" /\ calls < MaxCalls /\ image.class = 64
  /\ calls' = calls + 1
  /\ UNCHANGED <<image, length, phdr, transform, output, injected, unlisted, buffer>>

QueryDies(name) ==
  /\ QueryCall /\ ReadsNullName(name)
  /\ pc' = "dead"
  /\ UNCHANGED <<mem, r, query, patched, spilled>>

Searched(name) == QueryCall /\ ~ReadsNullName(name)

QueryFails(name) ==
  /\ Searched(name) /\ Located(name) = {}
  /\ Return(EINVAL)
  /\ UNCHANGED <<mem, query, patched, spilled>>

QueryRead(name) ==
  /\ Searched(name)
  /\ \E s \in Located(name) :
       query' = [sym_content |-> [buffer |-> buffer, at |-> s.at, of |-> s.vaddr],
                 sym_size |-> s.size, sym_vaddr |-> s.vaddr]
  /\ Return(0)
  /\ UNCHANGED <<mem, patched, spilled>>

WrongSize(name, n) ==
  /\ Searched(name)
  /\ \E s \in Located(name) : s.size # n
  /\ Return(EINVAL)
  /\ UNCHANGED <<mem, query, patched, spilled>>

(* The cells that memcpy overwrites when the content is not the symbol's   *)
(* own: the header and the tables, or what lies behind the image.  What    *)
(* the program does after that is not followed.                            *)
Tables == {0} \cup image.phoff..(image.phoff + Len(image.entries) - 1)
            \cup image.shoff..(image.shoff + Len(image.shdr) - 1)
Corrupts(target) == target \cap Tables # {} \/ \E o \in target : o >= length

MutStore(s, cells) ==
  [o \in DOMAIN mem |-> IF o \in s.at..(s.at + s.size) THEN cells[s.size - 1] ELSE mem[o]]
Store(s, cells) ==
  [o \in DOMAIN mem |-> IF o \in s.at..(s.at + s.size - 1) THEN cells[o - s.at] ELSE mem[o]]

WriteContent(s, cells) ==
  /\ spilled' = (spilled \/ s.at + s.size > s.end)
  /\ IF Corrupts(s.at..(s.at + s.size - 1))
       THEN pc' = "wild" /\ UNCHANGED <<mem, r, patched>>
       ELSE /\ mem' = Store(s, cells)
            /\ patched' = [a \in DOMAIN patched \cup s.vaddr..(s.vaddr + s.size - 1) |->
                             IF a \in s.vaddr..(s.vaddr + s.size - 1)
                               THEN cells[a - s.vaddr] ELSE patched[a]]
            /\ Return(0)

(* Content of the caller's own, in a query of its own.                     *)
QueryWrite(name, n) ==
  /\ Searched(name)
  /\ \E s \in Located(name) :
       s.size = n /\ WriteContent(s, [k \in 0..(n - 1) |-> Patch(calls, k)])
  /\ UNCHANGED query

(* The query of the last reading again: its content is what the pointer    *)
(* reaches, which is freed memory once the image has been reallocated.     *)
Through(p, n) ==
  IF p.buffer = buffer THEN Chunk(p.at, n) ELSE [k \in 0..(n - 1) |-> Junk]

(* What memcpy may store from there.  Where source and target overlap and  *)
(* are not the same C leaves it open: the cells of the source in any       *)
(* arrangement, and mixtures of them.                                      *)
Copied(s) ==
  LET p == query.sym_content
      cells == Through(p, s.size)
      shift == IF p.at < s.at THEN s.at - p.at ELSE p.at - s.at
  IN IF p.buffer = buffer /\ shift \in 1..(s.size - 1)
       THEN [0..(s.size - 1) -> {cells[k] : k \in 0..(s.size - 1)} \cup {Junk}]
       ELSE {cells}

QueryWriteBack(name) ==
  /\ Searched(name)
  /\ \E s \in Located(name) : \E cells \in Copied(s) :
       /\ s.size = query.sym_size
       /\ WriteContent(s, cells)
       /\ query' = [query EXCEPT !.sym_vaddr =
                      IF pc' = "wild" THEN query.sym_vaddr ELSE s.vaddr]

QueryStep ==
  \E name \in QueryNames :
    \/ QueryDies(name) \/ QueryFails(name) \/ QueryRead(name) \/ QueryWriteBack(name)
    \/ \E n \in Sizes : QueryWrite(name, n) \/ WrongSize(name, n)

(* elftool_append_code frees the image it has copied.                      *)
EditStep ==
  /\ Next
  /\ buffer' = IF AppendCode THEN buffer + 1 ELSE buffer
  /\ UNCHANGED <<query, patched, spilled>>

QueryFinished == pc \in {"dead", "wild"} /\ UNCHANGED allVars

QueryNext == EditStep \/ QueryStep \/ QueryFinished
QuerySpec == QueryInit /\ [][QueryNext]_allVars

----------------------------------------------------------------------------
(* What a loader maps at an address from the file, by the entries of the   *)
(* image and not by the wrappers: nothing in .bss.                         *)
Maps(e, a) == e.p_type = "LOAD" /\ a \in e.p_vaddr..(e.p_vaddr + e.p_filesz - 1)
LoadedFrom(e, a) == e.p_offset + (a - e.p_vaddr)
Loaded(a) == {mem[LoadedFrom(e, a)] : e \in {f \in ToSet(Table) : Maps(f, a)}}

(* As linkers place them: the segments that are loaded are no longer in    *)
(* the file than in memory, are in the file, and do not share bytes of it. *)
Content(e) == e.p_offset..(e.p_offset + e.p_filesz - 1)
WellPlaced ==
  \A j, k \in {i \in 1..Len(image.entries) : image.entries[i].p_type = "LOAD"} :
    LET e == image.entries[j] IN
    /\ e.p_filesz <= e.p_memsz
    /\ \A o \in Content(e) : o < image.length
    /\ j # k => Content(e) \cap Content(image.entries[k]) = {}

(* Segments do not overlap in memory either: none is empty, and no         *)
(* injected one has wrapped to address 0.                                  *)
Sane == AllDisjoint(image.entries) /\ WellPlaced /\ Fits /\ NoneEmpty

(* A symbol found in a segment ends in it, and none is the header's or a   *)
(* table's.                                                                *)
SymbolsInside ==
  \A s \in ToSet(image.syms), e \in ToSet(Table) :
    Covers(e, s.st_value) => s.st_value + s.st_size <= e.p_vaddr + e.p_memsz
TablesUnnamed ==
  \A s \in ToSet(image.syms), e \in ToSet(Table) :
    \A a \in s.st_value..(s.st_value + s.st_size - 1) :
      Covers(e, s.st_value) /\ Maps(e, a) => LoadedFrom(e, a) \notin Tables

(* A pointer that a query handed out shows what the program will find at   *)
(* the symbol's address, whatever was injected and overridden before, and  *)
(* through all later queries, until an injection (a failing one, too) has  *)
(* replaced the image.                                                     *)
HandedOutMapped ==
  LET p == query.sym_content IN
  Sane /\ SymbolsInside /\ p.buffer = buffer =>
    \A k \in 0..(query.sym_size - 1) : Loaded(p.of + k) \subseteq {Through(p, query.sym_size)[k]}

(* What queries have written stands in the program's address space: the    *)
(* last write to each address, through all later injections and queries,   *)
(* as long as none wrote behind the file content of its segment.           *)
PatchesStand ==
  Sane /\ ~spilled =>
    \A a \in DOMAIN patched : Loaded(a) \subseteq {patched[a]}

(* A write does not reach the header, the tables or the bytes behind the   *)
(* image unless its symbol lies in .bss, in part or as a whole: then it is *)
(* not refused, though the function has a test for that.                   *)
CorruptsOnlyFromBss == WellPlaced /\ TablesUnnamed /\ pc = "wild" => spilled

(* No step of an injection, successful or not, changes what a query        *)
(* answers for a symbol it finds, nor what the symbol has in the file.     *)
SameContent(s) ==
  \A o \in s.at..(s.at + s.size - 1) : o < s.end /\ o < length => mem'[o] = mem[o]

InjectionKeepsSymbols ==
  [][Sane /\ TablesUnnamed /\ InjectionStep =>
       \A name \in QueryNames : \A s \in Located(name) :
         Located(name)' = {s} /\ SameContent(s)]_allVars
==============================================================================
