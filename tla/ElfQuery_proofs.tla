--------------------------- MODULE ElfQuery_proofs ---------------------------
(***************************************************************************)
(* Symbol queries between injections, for every image, page size, width of *)
(* an address and sequence of calls: what a query has handed out and what  *)
(* queries have written stays at the symbol's address.                     *)
(***************************************************************************)
EXTENDS ElfQuery, ElfEdit_proofs

(* A query writes cells of its own over parsed bytes and injected code,    *)
(* but leaves the table to the injections: what has been proved of the     *)
(* table and the wrappers stands.                                          *)
Shape ==
  /\ Typed /\ Layout /\ WrapperInv /\ InjectedInv /\ PhaseInv /\ SegmentsDisjoint
  /\ \A o \in Slots : o \in Overwritten \/ mem[o] = ParsedCell(o)

Pointers == [buffer : Int, at : Nat, of : Nat]
QueryTypes ==
  /\ query \in [sym_content : Pointers, sym_size : Nat, sym_vaddr : Nat]
  /\ buffer \in Nat /\ spilled \in BOOLEAN

(* A pointer into the image as it is was handed out for a symbol of a      *)
(* segment, whose entry has not changed since: before an injection changes *)
(* an entry, it has replaced the image.                                    *)
Handed == query.sym_content
Serves(o, s) ==
  /\ Covers(mem[o], s.st_value) /\ s.st_value = Handed.of /\ s.st_size = query.sym_size
  /\ Handed.at = LoadedFrom(mem[o], Handed.of)
HandedInv ==
  /\ Handed.buffer <= buffer
  /\ pc \in {"note", "vaddr", "entry"} => Handed.buffer < buffer
  /\ Handed.buffer = buffer => \E o \in Slots, s \in ToSet(image.syms) : Serves(o, s)

(* What queries have written is in the content of a segment, outside the   *)
(* tables, where its address is mapped.                                    *)
Patched(o, a) ==
  LET place == LoadedFrom(mem[o], a)
  IN  /\ Maps(mem[o], a) /\ place \in 0..(length - 1) /\ place \notin Tables
      /\ mem[place] = patched[a]
PatchInv ==
  Sane /\ ~spilled => \A a \in DOMAIN patched : \E o \in Slots : Patched(o, a)

QInv == Shape /\ QueryTypes /\ HandedInv /\ PatchInv /\ CorruptsOnlyFromBss

----------------------------------------------------------------------------
(* Symbols, segments and where they lie.                                   *)

LEMMA SymbolFacts ==
  ASSUME image \in Images, NEW i \in 1..Len(image.syms)
  PROVE  /\ image.syms[i].st_value \in Nat /\ image.syms[i].st_size \in Nat
         /\ image.syms[i] \in ToSet(image.syms)
<1> DEFINE Sym == [name : Seq(Nat), named : BOOLEAN, st_value : 0..(AddrMod - 1), st_size : Nat]
<1>1. image.syms \in Seq(Sym)
  BY QueryAssumption
<1>2. image.syms[i] \in Sym
  BY <1>1, ElementOfSeq
<1>3. DOMAIN image.syms = 1..Len(image.syms)
  BY <1>1, LenProperties
<1>4. QED
  BY <1>2, <1>3 DEF ToSet

LEMMA TableSlots ==
  ASSUME Typed
  PROVE  /\ \A o \in Slots : mem[o] \in ToSet(Table)
         /\ \A e \in ToSet(Table) : \E o \in Slots : e = mem[o]
<1>1. N \in Nat /\ image.phoff \in Nat
  BY ImageFacts DEF Typed
<1>2. Table = [j \in 1..N |-> mem[image.phoff + j - 1]]
  BY DEF Table, N
<1>3. \A j \in 1..N : image.phoff + j - 1 \in Slots
  BY SlotOf DEF Typed
<1>4. ToSet(Table) = {mem[image.phoff + j - 1] : j \in 1..N}
  BY <1>2 DEF ToSet
<1>5. ASSUME NEW o \in Slots PROVE \E j \in 1..N : o = image.phoff + j - 1
  <2>1. o - image.phoff + 1 \in 1..N /\ o = image.phoff + (o - image.phoff + 1) - 1
    BY SlotOf DEF Typed
  <2>2. QED
    BY <2>1
<1>6. QED
  BY <1>3, <1>4, <1>5

LEMMA SlotsDisjoint ==
  ASSUME Typed, AllDisjoint(Table), NEW o \in Slots, NEW p \in Slots, o # p,
         mem[o].p_type = "LOAD", mem[p].p_type = "LOAD"
  PROVE  Disjoint(mem[o], mem[p])
<1>1. PICK j, k : j = o - image.phoff + 1 /\ k = p - image.phoff + 1
  OBVIOUS
<1>2. j \in 1..N /\ k \in 1..N /\ o = image.phoff + j - 1 /\ p = image.phoff + k - 1
  BY <1>1, SlotOf DEF Typed
<1>3. Len(Table) = N /\ Table[j] = mem[o] /\ Table[k] = mem[p]
  BY <1>2, SlotOf DEF Typed
<1>4. j # k
  BY <1>2
<1>5. QED
  BY <1>2, <1>3, <1>4 DEF AllDisjoint

(* A segment is the parser's or an injection's.                            *)
LEMMA SegmentKinds ==
  ASSUME Shape, NEW o \in Slots, mem[o].p_type = "LOAD"
  PROVE  \/ /\ o - image.phoff + 1 \in 1..N
            /\ mem[o] = image.entries[o - image.phoff + 1]
         \/ \E n \in 1..Count : /\ o = injected[n].phdr_file_offset
                                /\ mem[o].p_offset = injected[n].code_file_offset
                                /\ mem[o].p_filesz = injected[n].code_len
                                /\ mem[o].p_memsz = injected[n].code_len
<1>1. CASE o \in Overwritten
  <2>1. PICK n \in 1..Count : o = injected[n].phdr_file_offset
    BY <1>1 DEF Overwritten, Count
  <2>2. Stands(injected[n])
    BY DEF Shape, InjectedInv
  <2>3. QED
    BY <2>1, <2>2 DEF Stands, Entry
<1>2. CASE o \notin Overwritten
  <2>1. mem[o] = ParsedCell(o)
    BY <1>2 DEF Shape
  <2>2. QED
    BY <2>1, SlotOf DEF Shape, Typed
<1>3. QED
  BY <1>1, <1>2

LEMMA InjectedPlaces ==
  ASSUME Shape
  PROVE  /\ \A n \in 1..Count : /\ injected[n].code_file_offset \in Nat /\ injected[n].code_len \in Nat
                                /\ injected[n].code_file_offset >= image.length
                                /\ injected[n].code_file_offset + injected[n].code_len <= length
         /\ \A m, n \in 1..Count : m # n =>
              Behind(injected[n], injected[m]) \/ Behind(injected[m], injected[n])
         /\ image.length \in Nat /\ length \in Nat /\ image.length <= length
<1>1. \A n \in 1..Count : injected[n] \in Transforms /\ HasRoom(injected[n])
  BY DEF Shape, Typed, Count, InjectedInv
<1>2. ASSUME NEW m \in 1..Count, NEW n \in 1..Count, m # n
      PROVE  Behind(injected[n], injected[m]) \/ Behind(injected[m], injected[n])
  <2>1. m < n \/ n < m
    BY <1>2
  <2>2. QED
    BY <2>1 DEF Shape, InjectedInv
<1>3. image.length \in Nat /\ length \in Nat /\ image.length <= length
  BY ImageFacts DEF Shape, Typed, Layout
<1>4. QED
  BY <1>1, <1>2, <1>3 DEF Transforms, HasRoom

(* The contents of segments lie in the image and apart: the parser's as    *)
(* they were placed, an injection's behind all that was there before.      *)
LEMMA ContentsApart ==
  ASSUME Shape, WellPlaced, NEW o \in Slots, mem[o].p_type = "LOAD"
  PROVE  /\ mem[o] \in Entries /\ mem[o].p_filesz <= mem[o].p_memsz
         /\ Content(mem[o]) \subseteq 0..(length - 1)
         /\ \A p \in Slots : p # o /\ mem[p].p_type = "LOAD" => Content(mem[o]) \cap Content(mem[p]) = {}
<1> DEFINE Place(p) == p - image.phoff + 1
           FromParser(p) == Place(p) \in 1..N /\ mem[p] = image.entries[Place(p)]
           FromCall(p, n) == /\ p = injected[n].phdr_file_offset
                        /\ mem[p].p_offset = injected[n].code_file_offset
                        /\ mem[p].p_filesz = injected[n].code_len
                        /\ mem[p].p_memsz = injected[n].code_len
<1>1. \A p \in Slots : mem[p] \in Entries /\ mem[p].p_offset \in Nat /\ mem[p].p_filesz \in Nat
  <2>1. \A p \in Slots : mem[p] \in Entries
    BY DEF Shape, Layout
  <2>2. QED
    BY <2>1 DEF Entries
<1>2. \A p \in Slots : mem[p].p_type = "LOAD" => FromParser(p) \/ \E n \in 1..Count : FromCall(p, n)
  BY SegmentKinds
<1>3. ASSUME NEW p \in Slots, mem[p].p_type = "LOAD", FromParser(p)
      PROVE  /\ mem[p].p_filesz <= mem[p].p_memsz
             /\ \A x \in Content(mem[p]) : x \in 0..(length - 1) /\ x < image.length
             /\ \A q \in Slots : q # p /\ mem[q].p_type = "LOAD" /\ FromParser(q) =>
                  Content(mem[p]) \cap Content(mem[q]) = {}
  <2>1. PICK j \in 1..N : j = Place(p) /\ mem[p] = image.entries[j] /\ image.entries[j].p_type = "LOAD"
    BY <1>3
  <2>2. j \in {i \in 1..Len(image.entries) : image.entries[i].p_type = "LOAD"}
    BY <2>1 DEF N
  <2>3. /\ mem[p].p_filesz <= mem[p].p_memsz
        /\ \A x \in Content(mem[p]) : x < image.length
    BY <2>1, <2>2 DEF WellPlaced
  <2>4. ASSUME NEW x \in Content(mem[p]) PROVE x \in 0..(length - 1)
    <3>1. x \in Int /\ x >= 0 /\ x < image.length
      BY <1>1, <2>3 DEF Content
    <3>2. QED
      BY <3>1, InjectedPlaces
  <2>5. ASSUME NEW q \in Slots, q # p, mem[q].p_type = "LOAD", FromParser(q)
        PROVE  Content(mem[p]) \cap Content(mem[q]) = {}
    <3>1. PICK k \in 1..N : k = Place(q) /\ mem[q] = image.entries[k] /\ image.entries[k].p_type = "LOAD"
      BY <2>5
    <3>2. k \in {i \in 1..Len(image.entries) : image.entries[i].p_type = "LOAD"}
      BY <3>1 DEF N
    <3>3. j # k
      BY <2>1, <2>5, <3>1, SlotOf DEF Shape, Typed
    <3>4. QED
      BY <2>1, <2>2, <3>1, <3>2, <3>3 DEF WellPlaced
  <2>6. QED
    BY <2>3, <2>4, <2>5
<1>4. ASSUME NEW p \in Slots, NEW n \in 1..Count, FromCall(p, n)
      PROVE  /\ mem[p].p_filesz <= mem[p].p_memsz
             /\ \A x \in Content(mem[p]) : x \in 0..(length - 1) /\ x >= image.length
             /\ \A q \in Slots, m \in 1..Count : q # p /\ FromCall(q, m) =>
                  Content(mem[p]) \cap Content(mem[q]) = {}
  <2>1. mem[p].p_filesz <= mem[p].p_memsz
    BY <1>1, <1>4
  <2>2. ASSUME NEW x \in Content(mem[p]) PROVE x \in 0..(length - 1) /\ x >= image.length
    BY <1>4, InjectedPlaces DEF Content
  <2>3. ASSUME NEW q \in Slots, NEW m \in 1..Count, q # p, FromCall(q, m)
        PROVE  Content(mem[p]) \cap Content(mem[q]) = {}
    <3>1. m # n
      BY <1>4, <2>3
    <3>2. Behind(injected[n], injected[m]) \/ Behind(injected[m], injected[n])
      BY <3>1, InjectedPlaces
    <3>3. \A x : ~(x \in Content(mem[p]) /\ x \in Content(mem[q]))
      BY <1>1, <1>4, <2>3, <3>2, InjectedPlaces DEF Behind, Content
    <3>4. QED
      BY <3>3
  <2>4. QED
    BY <2>1, <2>2, <2>3
<1> HIDE DEF FromParser, FromCall
<1>5. /\ mem[o].p_filesz <= mem[o].p_memsz /\ \A x \in Content(mem[o]) : x \in 0..(length - 1)
  BY <1>2, <1>3, <1>4
<1>6. ASSUME NEW p \in Slots, p # o, mem[p].p_type = "LOAD", NEW x \in Content(mem[o]), x \in Content(mem[p])
      PROVE  FALSE
  <2>1. CASE FromParser(o) /\ FromParser(p)
    BY <1>3, <1>6, <2>1
  <2>2. ASSUME NEW n \in 1..Count, FromCall(o, n), NEW m \in 1..Count, FromCall(p, m) PROVE FALSE
    BY <1>4, <1>6, <2>2
  <2>3. ASSUME FromParser(o), NEW m \in 1..Count, FromCall(p, m) PROVE FALSE
    <3>1. x < image.length /\ x >= image.length /\ x \in 0..(length - 1)
      BY <1>3, <1>4, <1>6, <2>3
    <3>2. QED
      BY <3>1, InjectedPlaces
  <2>4. ASSUME FromParser(p), NEW m \in 1..Count, FromCall(o, m) PROVE FALSE
    <3>1. x < image.length /\ x >= image.length /\ x \in 0..(length - 1)
      BY <1>3, <1>4, <1>6, <2>4
    <3>2. QED
      BY <3>1, InjectedPlaces
  <2>5. QED
    BY <1>2, <1>6, <2>1, <2>2, <2>3, <2>4
<1>7. QED
  BY <1>1, <1>5, <1>6

(* What a query has found: a symbol, and a segment around its address.     *)
Location(i, j) ==
  LET e == Ent(phdr[j])
      s == image.syms[i]
  IN  [at |-> ContentOffset(e, s.st_value), end |-> e.p_offset + e.p_filesz,
       size |-> s.st_size, vaddr |-> s.st_value]
LocatedIn(s, o) ==
  /\ o \in Slots /\ Covers(mem[o], s.vaddr)
  /\ s.at = LoadedFrom(mem[o], s.vaddr) /\ s.end = mem[o].p_offset + mem[o].p_filesz
  /\ \E y \in ToSet(image.syms) : y.st_value = s.vaddr /\ y.st_size = s.size
  /\ s.at \in Nat /\ s.size \in Nat /\ s.vaddr \in Nat /\ s.end \in Nat
  /\ mem[o].p_vaddr \in Nat /\ mem[o].p_offset \in Nat

LEMMA LocationFound ==
  ASSUME NEW name
  PROVE  /\ \A s \in Located(name) : \E i \in 1..Len(image.syms), j \in 1..Len(phdr) :
              Found(name, i, j) /\ s = Location(i, j)
         /\ \A i \in 1..Len(image.syms), j \in 1..Len(phdr) :
              Found(name, i, j) => Location(i, j) \in Located(name)
<1> DEFINE P == {x \in (1..Len(image.syms)) \X (1..Len(phdr)) : Found(name, x[1], x[2])}
<1>1. Located(name) = {Location(x[1], x[2]) : x \in P}
  BY DEF Located, Location
<1>2. ASSUME NEW s \in Located(name)
      PROVE  \E i \in 1..Len(image.syms), j \in 1..Len(phdr) : Found(name, i, j) /\ s = Location(i, j)
  <2>1. PICK x \in P : s = Location(x[1], x[2])
    BY <1>1
  <2>2. x[1] \in 1..Len(image.syms) /\ x[2] \in 1..Len(phdr) /\ Found(name, x[1], x[2])
    OBVIOUS
  <2>3. QED
    BY <2>1, <2>2
<1>3. ASSUME NEW i \in 1..Len(image.syms), NEW j \in 1..Len(phdr), Found(name, i, j)
      PROVE  Location(i, j) \in Located(name)
  <2>1. <<i, j>> \in P
    BY <1>3
  <2> HIDE DEF P
  <2>2. QED
    BY <1>1, <2>1
<1>4. QED
  BY <1>2, <1>3

FoundAll ==
  \A name :
    /\ \A s \in Located(name) : \E i \in 1..Len(image.syms), j \in 1..Len(phdr) :
         Found(name, i, j) /\ s = Location(i, j)
    /\ \A i \in 1..Len(image.syms), j \in 1..Len(phdr) :
         Found(name, i, j) => Location(i, j) \in Located(name)

LEMMA LocationsFound == FoundAll
BY LocationFound DEF FoundAll

LEMMA LocationFacts ==
  ASSUME Shape, NEW name, NEW i \in 1..Len(image.syms), NEW j \in 1..Len(phdr), Found(name, i, j)
  PROVE  /\ LocatedIn(Location(i, j), phdr[j].p_offset)
         /\ mem[phdr[j].p_offset].p_type = "LOAD"
<1>1. PICK o : o = phdr[j].p_offset
  OBVIOUS
<1>2. PICK e, s : e = mem[o] /\ s = image.syms[i]
  OBVIOUS
<1>3. o \in Slots /\ Ent(phdr[j]) = e
  BY <1>1, <1>2, WrapperSlots DEF Shape, Ent
<1>4. /\ e.p_vaddr \in Nat /\ e.p_offset \in Nat /\ e.p_filesz \in Nat
  BY <1>2, <1>3 DEF Shape, Layout, Entries
<1>5. s.st_value \in Nat /\ s.st_size \in Nat /\ s \in ToSet(image.syms)
  BY <1>2, SymbolFacts DEF Shape, Typed
<1>6. Covers(e, s.st_value)
  BY <1>2, <1>3 DEF Found, IsSegmentOf
<1>7. e.p_type = "LOAD" /\ e.p_vaddr < s.st_value
  BY <1>6 DEF Covers
<1>8. Location(i, j) = [at |-> ContentOffset(e, s.st_value), end |-> e.p_offset + e.p_filesz,
                        size |-> s.st_size, vaddr |-> s.st_value]
  BY <1>2, <1>3 DEF Location
<1>9. ContentOffset(e, s.st_value) = LoadedFrom(e, s.st_value) /\ LoadedFrom(e, s.st_value) \in Nat
  BY <1>4, <1>5, <1>7 DEF ContentOffset, LoadedFrom
<1>10. LocatedIn(Location(i, j), o)
  <2>1. PICK l : l = Location(i, j)
    OBVIOUS
  <2>2. /\ l.at = LoadedFrom(e, s.st_value) /\ l.end = e.p_offset + e.p_filesz
        /\ l.size = s.st_size /\ l.vaddr = s.st_value
    BY <1>8, <1>9, <2>1
  <2>3. LocatedIn(l, o)
    <3>1. \E y \in ToSet(image.syms) : y.st_value = l.vaddr /\ y.st_size = l.size
      BY <1>5, <2>2
    <3>2. l.at \in Nat /\ l.size \in Nat /\ l.vaddr \in Nat /\ l.end \in Nat
      BY <1>4, <1>5, <1>9, <2>2
    <3>3. /\ o \in Slots /\ Covers(mem[o], l.vaddr) /\ l.at = LoadedFrom(mem[o], l.vaddr)
          /\ l.end = mem[o].p_offset + mem[o].p_filesz
      BY <1>2, <1>3, <1>6, <2>2
    <3>4. mem[o].p_vaddr \in Nat /\ mem[o].p_offset \in Nat
      BY <1>2, <1>4
    <3>5. QED
      BY <3>1, <3>2, <3>3, <3>4 DEF LocatedIn
  <2>4. QED
    BY <2>1, <2>3
<1>11. QED
  BY <1>1, <1>2, <1>7, <1>10

LEMMA LocatedFacts ==
  ASSUME Shape, NEW name, NEW s \in Located(name)
  PROVE  \E o \in Slots : LocatedIn(s, o) /\ mem[o].p_type = "LOAD"
<1>1. PICK i \in 1..Len(image.syms), j \in 1..Len(phdr) : Found(name, i, j) /\ s = Location(i, j)
  BY LocationFound
<1>2. LocatedIn(s, phdr[j].p_offset) /\ mem[phdr[j].p_offset].p_type = "LOAD"
  BY <1>1, LocationFacts
<1>3. QED
  BY <1>2 DEF LocatedIn

(* The addresses of a symbol and the offsets of what it has in the image.  *)
LEMMA Correspondence ==
  ASSUME Shape, NEW s, NEW o \in Slots, LocatedIn(s, o)
  PROVE  /\ \A a \in s.vaddr..(s.vaddr + s.size - 1) :
              /\ LoadedFrom(mem[o], a) \in s.at..(s.at + s.size - 1)
              /\ LoadedFrom(mem[o], a) - s.at = a - s.vaddr
         /\ \A x \in s.at..(s.at + s.size - 1) :
              /\ s.vaddr + (x - s.at) \in s.vaddr..(s.vaddr + s.size - 1)
              /\ LoadedFrom(mem[o], s.vaddr + (x - s.at)) = x
              /\ x < s.end => /\ Maps(mem[o], s.vaddr + (x - s.at)) /\ x \in Content(mem[o])
<1> DEFINE v == mem[o].p_vaddr
           f == mem[o].p_offset
           z == mem[o].p_filesz
<1>1. /\ v \in Nat /\ f \in Nat /\ z \in Nat /\ s.at \in Nat /\ s.size \in Nat /\ s.vaddr \in Nat
      /\ s.at = f + (s.vaddr - v) /\ v < s.vaddr /\ s.end = f + z /\ mem[o].p_type = "LOAD"
  BY DEF Shape, Layout, LocatedIn, Covers, LoadedFrom, Entries
<1>2. ASSUME NEW a \in s.vaddr..(s.vaddr + s.size - 1)
      PROVE  /\ LoadedFrom(mem[o], a) \in s.at..(s.at + s.size - 1)
             /\ LoadedFrom(mem[o], a) - s.at = a - s.vaddr
  <2>1. LoadedFrom(mem[o], a) = f + (a - v)
    BY DEF LoadedFrom
  <2> HIDE DEF v, f, z
  <2>2. QED
    BY <1>1, <2>1
<1>3. ASSUME NEW x \in s.at..(s.at + s.size - 1)
      PROVE  /\ s.vaddr + (x - s.at) \in s.vaddr..(s.vaddr + s.size - 1)
             /\ LoadedFrom(mem[o], s.vaddr + (x - s.at)) = x
             /\ x < s.end => /\ Maps(mem[o], s.vaddr + (x - s.at)) /\ x \in Content(mem[o])
  <2>1. PICK a : a = s.vaddr + (x - s.at)
    OBVIOUS
  <2>2. /\ LoadedFrom(mem[o], a) = f + (a - v)
        /\ Maps(mem[o], a) <=> a \in v..(v + z - 1)
        /\ x \in Content(mem[o]) <=> x \in f..(f + z - 1)
    BY <1>1 DEF LoadedFrom, Maps, Content
  <2> HIDE DEF v, f, z
  <2>3. a \in s.vaddr..(s.vaddr + s.size - 1) /\ f + (a - v) = x
    BY <1>1, <2>1
  <2>4. x < s.end => a \in v..(v + z - 1) /\ x \in f..(f + z - 1)
    BY <1>1, <2>1
  <2>5. QED
    BY <2>1, <2>2, <2>3, <2>4
<1>4. QED
  BY <1>2, <1>3

----------------------------------------------------------------------------
(* What a query changes.                                                   *)
Quiet == UNCHANGED <<mem, patched, spilled>> /\ pc' \in {"idle", "dead"}
Overwrites == \E name, cells : \E s \in Located(name) : WriteContent(s, cells)
Target(s) == s.at..(s.at + s.size - 1)
Addresses(s) == s.vaddr..(s.vaddr + s.size - 1)

LEMMA Queried ==
  ASSUME QueryTypes, QueryStep
  PROVE  /\ UNCHANGED <<image, length, phdr, transform, injected, unlisted, buffer>>
         /\ Quiet \/ Overwrites
         /\ \/ query' = query
            \/ Quiet /\ \E name : QueryRead(name)
            \/ \E name : \E s \in Located(name) :
                 query' = [query EXCEPT !.sym_vaddr = s.vaddr]
<1> USE DEF QueryCall, Searched, Return, Quiet, history, output
<1>1. PICK name \in QueryNames :
        \/ QueryDies(name) \/ QueryFails(name) \/ QueryRead(name) \/ QueryWriteBack(name)
        \/ \E n \in Sizes : QueryWrite(name, n) \/ WrongSize(name, n)
  BY DEF QueryStep
<1>2. CASE QueryDies(name)
  BY <1>2 DEF QueryDies
<1>3. CASE QueryFails(name)
  BY <1>3 DEF QueryFails
<1>4. CASE QueryRead(name)
  BY <1>4 DEF QueryRead
<1>5. CASE QueryWriteBack(name)
  <2>0. PICK s \in Located(name) : \E cells \in Copied(s) :
          /\ WriteContent(s, cells)
          /\ query' = [query EXCEPT !.sym_vaddr = IF pc' = "wild" THEN query.sym_vaddr ELSE s.vaddr]
    BY <1>5 DEF QueryWriteBack
  <2>1. PICK cells \in Copied(s) :
          /\ WriteContent(s, cells)
          /\ query' = [query EXCEPT !.sym_vaddr = IF pc' = "wild" THEN query.sym_vaddr ELSE s.vaddr]
    BY <2>0
  <2>2. UNCHANGED <<image, length, phdr, transform, injected, unlisted, buffer>>
    BY <1>5 DEF QueryWriteBack
  <2>3. Overwrites
    BY <2>1 DEF Overwrites
  <2>4. query' = query \/ query' = [query EXCEPT !.sym_vaddr = s.vaddr]
    BY <2>1 DEF QueryTypes
  <2>5. QED
    BY <2>2, <2>3, <2>4
<1>6. ASSUME NEW n \in Sizes, QueryWrite(name, n)
      PROVE  /\ UNCHANGED <<image, length, phdr, transform, injected, unlisted, buffer, query>>
             /\ Overwrites
  BY <1>6 DEF QueryWrite, Overwrites
<1>7. ASSUME NEW n \in Sizes, WrongSize(name, n)
      PROVE  UNCHANGED <<image, length, phdr, transform, injected, unlisted, buffer, query>> /\ Quiet
  BY <1>7 DEF WrongSize
<1> HIDE DEF Quiet
<1>8. QED
  BY <1>1, <1>2, <1>3, <1>4, <1>5, <1>6, <1>7

LEMMA ContentStored ==
  ASSUME Shape, NEW name, NEW s \in Located(name), NEW cells, WriteContent(s, cells)
  PROVE  /\ pc' = "wild" => UNCHANGED <<mem, patched>> /\ Corrupts(Target(s))
         /\ pc' # "wild" =>
              /\ mem' = [o \in 0..(length - 1) |-> mem'[o]] /\ pc' = "idle"
              /\ \A x \in Target(s) :
                   x \in 0..(length - 1) /\ x \notin Tables /\ mem'[x] = cells[x - s.at]
              /\ \A o \in 0..(length - 1) : o \notin Target(s) => mem'[o] = mem[o]
              /\ DOMAIN patched' = DOMAIN patched \cup Addresses(s)
              /\ \A a \in Addresses(s) : patched'[a] = cells[a - s.vaddr]
              /\ \A a \in DOMAIN patched : a \notin Addresses(s) => patched'[a] = patched[a]
<1>1. s.at \in Nat /\ s.size \in Nat /\ length \in Nat /\ DOMAIN mem = 0..(length - 1)
  <2>1. DOMAIN mem = 0..(length - 1) /\ length \in Nat
    BY DEF Shape, Typed
  <2>2. QED
    BY <2>1, LocatedFacts DEF LocatedIn
<1>2. CASE Corrupts(Target(s))
  BY <1>2 DEF WriteContent, Target
<1>3. CASE ~Corrupts(Target(s))
  <2>1. /\ mem' = [o \in 0..(length - 1) |-> IF o \in Target(s) THEN cells[o - s.at] ELSE mem[o]]
        /\ patched' = [a \in DOMAIN patched \cup Addresses(s) |->
                         IF a \in Addresses(s) THEN cells[a - s.vaddr] ELSE patched[a]]
        /\ pc' = "idle"
    BY <1>1, <1>3 DEF WriteContent, Target, Addresses, Store, Return
  <2>2. \A x \in Target(s) : x \in 0..(length - 1) /\ x \notin Tables
    <3>1. \A x \in Target(s) : x \notin Tables /\ ~(x >= length)
      BY <1>3 DEF Corrupts
    <3>2. QED
      BY <1>1, <3>1 DEF Target
  <2> HIDE DEF Target, Addresses
  <2>3. QED
    BY <2>1, <2>2
<1>4. QED
  BY <1>2, <1>3

(* No query writes in the table of entries.                                *)
LEMMA QueryKeepsTable ==
  ASSUME Shape, QueryTypes, QueryStep
  PROVE  /\ mem' = [o \in 0..(length - 1) |-> mem'[o]]
         /\ \A o \in Slots : mem'[o] = mem[o]
         /\ pc' \in {"idle", "dead", "wild"}
<1>1. Slots \subseteq Tables /\ Slots \subseteq 0..(length - 1)
  <2>1. Slots \subseteq Tables
    BY DEF Slots, Tables, N
  <2>2. Slots \subseteq 0..(image.length - 1) /\ image.length <= length
    BY ImageFacts, InjectedPlaces DEF Shape, Typed
  <2>3. QED
    BY <2>1, <2>2, InjectedPlaces
<1>2. mem = [o \in 0..(length - 1) |-> mem[o]]
  BY DEF Shape, Typed
<1>3. CASE Quiet
  BY <1>2, <1>3 DEF Quiet
<1>4. CASE Overwrites
  <2>1. PICK name, cells : \E s \in Located(name) : WriteContent(s, cells)
    BY <1>4 DEF Overwrites
  <2>2. PICK s \in Located(name) : WriteContent(s, cells)
    BY <2>1
  <2>3. CASE pc' = "wild"
    BY <1>2, <2>2, <2>3, ContentStored
  <2>4. CASE pc' # "wild"
    <3>1. /\ mem' = [o \in 0..(length - 1) |-> mem'[o]] /\ pc' = "idle"
          /\ \A x \in Target(s) : x \notin Tables
          /\ \A o \in 0..(length - 1) : o \notin Target(s) => mem'[o] = mem[o]
      BY <2>2, <2>4, ContentStored
    <3>2. QED
      BY <1>1, <3>1
  <2>5. QED
    BY <2>3, <2>4
<1>5. QED
  BY <1>3, <1>4, Queried

----------------------------------------------------------------------------
(* What every step keeps.                                                  *)

LEMMA ShapeKept ==
  ASSUME Shape, UNCHANGED <<image, length, phdr, transform, injected, unlisted>>,
         mem' = [o \in 0..(length - 1) |-> mem'[o]], \A o \in Slots : mem'[o] = mem[o],
         pc' \in {"idle", "dead", "wild"}
  PROVE  Shape'
<1>1. /\ Slots' = Slots /\ N' = N /\ Overwritten' = Overwritten /\ Count' = Count
      /\ \A o : ParsedCell(o)' = ParsedCell(o)
  BY DEF Slots, N, Overwritten, Count, PhdrCells, ParsedCell
<1>2. Typed'
  BY DEF Shape, Typed
<1>3. Layout'
  BY <1>1 DEF Shape, Layout
<1>4. WrapperInv'
  BY <1>1 DEF Shape, WrapperInv
<1>5. InjectedInv'
  <2>1. ASSUME NEW n \in 1..Count PROVE Stands(injected[n])' /\ HasRoom(injected[n])'
    <3>1. PICK t : t = injected[n]
      OBVIOUS
    <3>2. Stands(t) /\ HasRoom(t)
      BY <3>1 DEF Shape, InjectedInv
    <3>3. Stands(t)' /\ HasRoom(t)'
      BY <1>1, <3>2 DEF Stands, HasRoom
    <3>4. QED
      BY <3>1, <3>3
  <2>2. QED
    BY <1>1, <2>1 DEF Shape, InjectedInv
<1>6. PhaseInv'
  BY DEF PhaseInv
<1>7. SegmentsDisjoint'
  <2>1. \A j \in 1..N : image.phoff + j - 1 \in Slots
    BY SlotOf DEF Shape, Typed
  <2>2. Table' = Table
    BY <2>1 DEF Table, N
  <2>3. SegmentsDisjoint
    BY DEF Shape
  <2>4. QED
    BY <2>2, <2>3 DEF SegmentsDisjoint, Fits, NoneEmpty, AllDisjoint
<1>8. \A o \in Slots' : o \in Overwritten' \/ mem'[o] = ParsedCell(o)'
  BY <1>1 DEF Shape
<1>9. QED
  BY <1>2, <1>3, <1>4, <1>5, <1>6, <1>7, <1>8 DEF Shape

(* The slots no injection has taken hold what the parser found there.      *)
LEMMA SlotsStep ==
  ASSUME Shape, [Next]_vars
  PROVE  \A o \in Slots' : o \in Overwritten' \/ mem'[o] = ParsedCell(o)'
<1>1. image' = image /\ Slots' = Slots /\ \A o : ParsedCell(o)' = ParsedCell(o)
  BY Touches, LayoutStep DEF Shape, PhdrCells, ParsedCell
<1>2. Slots \subseteq 0..(length - 1)
  <2>1. Slots \subseteq 0..(image.length - 1) /\ image.length <= length
    BY ImageFacts, InjectedPlaces DEF Shape, Typed
  <2>2. QED
    BY <2>1, InjectedPlaces
<1>3. CASE AppendCode
  <2>1. Overwritten' = Overwritten
    BY <1>3 DEF AppendCode, history, Overwritten
  <2>2. \A o \in Slots : mem'[o] = mem[o]
    BY <1>2, <1>3, Appended DEF Shape
  <2>3. QED
    BY <1>1, <2>1, <2>2 DEF Shape
<1>4. CASE Still
  BY <1>1, <1>4 DEF Still, Overwritten, Shape
<1>5. CASE WriteEntry
  <2>1. \A o : o \in Overwritten' <=> o \in Overwritten \/ o = transform.phdr_file_offset
    BY <1>5, OverwrittenGrows DEF Shape
  <2>2. \A o \in Slots : o # transform.phdr_file_offset => mem'[o] = mem[o]
    BY <1>2, <1>5, Written1 DEF Shape
  <2>3. QED
    BY <1>1, <2>1, <2>2 DEF Shape
<1>6. QED
  BY <1>3, <1>4, <1>5, Touches

(* Injections and writes, and steps that change nothing.                   *)
Editing ==
  /\ [Next]_vars
  /\ buffer' = IF AppendCode THEN buffer + 1 ELSE buffer
  /\ UNCHANGED <<query, patched, spilled>>

LEMMA QueryKinds ==
  ASSUME [QueryNext]_allVars
  PROVE  Editing \/ QueryStep
<1>1. CASE EditStep
  BY <1>1 DEF EditStep, Editing
<1>2. CASE UNCHANGED allVars
  <2>1. UNCHANGED vars /\ UNCHANGED <<query, buffer, patched, spilled>>
    BY <1>2 DEF allVars, queryVars
  <2>2. ~AppendCode
    BY <2>1 DEF AppendCode, vars
  <2>3. QED
    BY <2>1, <2>2 DEF Editing
<1>3. QED
  BY <1>1, <1>2 DEF QueryNext, QueryFinished

LEMMA ShapeStep ==
  ASSUME Shape, QueryTypes, [QueryNext]_allVars
  PROVE  Shape'
<1>1. CASE Editing
  <2>1. Typed' /\ Layout' /\ WrapperInv' /\ InjectedInv' /\ PhaseInv' /\ SegmentsDisjoint'
    BY <1>1, TypedStep, LayoutStep, WrapperStep, InjectedStep, PhaseStep, DisjointStep
    DEF Shape, Editing
  <2>2. \A o \in Slots' : o \in Overwritten' \/ mem'[o] = ParsedCell(o)'
    BY <1>1, SlotsStep DEF Editing
  <2>3. QED
    BY <2>1, <2>2 DEF Shape
<1>2. CASE QueryStep
  BY <1>2, Queried, QueryKeepsTable, ShapeKept
<1>3. QED
  BY <1>1, <1>2, QueryKinds

LEMMA QueryTypesStep ==
  ASSUME Shape, QueryTypes, [QueryNext]_allVars
  PROVE  QueryTypes'
<1>1. CASE Editing
  <2>1. UNCHANGED <<query, spilled>> /\ buffer' \in {buffer, buffer + 1}
    BY <1>1 DEF Editing
  <2>2. query' \in [sym_content : Pointers, sym_size : Nat, sym_vaddr : Nat] /\ buffer' \in Nat
    BY <2>1 DEF QueryTypes
  <2>3. spilled' \in BOOLEAN
    BY <2>1 DEF QueryTypes
  <2>4. QED
    BY <2>2, <2>3 DEF QueryTypes
<1>2. CASE QueryStep
  <2>1. buffer' = buffer
    BY <1>2, Queried
  <2>2. spilled' \in BOOLEAN
    <3>1. Quiet => spilled' \in BOOLEAN
      BY DEF Quiet, QueryTypes
    <3>2. Overwrites => spilled' \in BOOLEAN
      BY DEF Overwrites, WriteContent, QueryTypes
    <3>3. QED
      BY <1>2, <3>1, <3>2, Queried
  <2>3. query' \in [sym_content : Pointers, sym_size : Nat, sym_vaddr : Nat]
    <3>1. ASSUME NEW name, QueryRead(name)
          PROVE  query' \in [sym_content : Pointers, sym_size : Nat, sym_vaddr : Nat]
      <4>1. PICK s \in Located(name) :
              query' = [sym_content |-> [buffer |-> buffer, at |-> s.at, of |-> s.vaddr],
                        sym_size |-> s.size, sym_vaddr |-> s.vaddr]
        BY <3>1 DEF QueryRead
      <4>2. s.at \in Nat /\ s.size \in Nat /\ s.vaddr \in Nat
        BY LocatedFacts DEF LocatedIn
      <4>3. QED
        BY <4>1, <4>2 DEF QueryTypes, Pointers
    <3>2. ASSUME NEW name, NEW s \in Located(name), query' = [query EXCEPT !.sym_vaddr = s.vaddr]
          PROVE  query' \in [sym_content : Pointers, sym_size : Nat, sym_vaddr : Nat]
      <4>1. s.vaddr \in Nat
        BY LocatedFacts DEF LocatedIn
      <4>2. QED
        BY <3>2, <4>1 DEF QueryTypes
    <3>3. query' = query => query' \in [sym_content : Pointers, sym_size : Nat, sym_vaddr : Nat]
      BY DEF QueryTypes
    <3>4. QED
      BY <1>2, <3>1, <3>2, <3>3, Queried
  <2>4. QED
    BY <2>1, <2>2, <2>3 DEF QueryTypes
<1>3. QED
  BY <1>1, <1>2, QueryKinds

----------------------------------------------------------------------------
(* The pointer handed out.                                                 *)

(* The entries change only once the image has been replaced.               *)
LEMMA Replaced ==
  ASSUME Shape, Editing
  PROVE  \/ AppendCode /\ buffer' = buffer + 1
         \/ /\ buffer' = buffer
            /\ pc' \in {"note", "vaddr", "entry"} => pc \in {"note", "vaddr", "entry"}
            /\ pc \in {"note", "vaddr", "entry"} \/ UNCHANGED <<image, mem>>
<1>1. CASE AppendCode
  BY <1>1 DEF Editing
<1>2. CASE ~AppendCode
  <2>1. buffer' = buffer
    BY <1>2 DEF Editing
  <2>2. WriteEntry \/ UNCHANGED <<image, mem>>
    BY <1>2, Touches DEF Editing, Still
  <2>3. WriteEntry => pc = "entry"
    BY DEF WriteEntry
  <2>4. pc' \in {"note", "vaddr", "entry"} => pc \in {"note", "vaddr", "entry"}
    BY <1>2 DEF Editing, Next, Inject, InjectionStep, AppendNoMemory, FindNote, NoNote, GetVaddr,
         NoLoad, WriteEntry, OpenFails, BufferFails, WriteBegin, BeginWrite, WritingStep, WriteStep,
         WriteStepFails, WriteEnd, Finished, Return, vars
  <2>5. QED
    BY <2>1, <2>2, <2>3, <2>4
<1>3. QED
  BY <1>1, <1>2

LEMMA HandedStep ==
  ASSUME Shape, QueryTypes, HandedInv, [QueryNext]_allVars
  PROVE  HandedInv'
<1>1. buffer \in Nat /\ Handed.buffer \in Int /\ Handed.buffer <= buffer
  BY DEF QueryTypes, Handed, Pointers, HandedInv
<1>2. ASSUME UNCHANGED image, \A o \in Slots : mem'[o] = mem[o],
             NEW o \in Slots, NEW y \in ToSet(image.syms), Serves(o, y),
             query'.sym_content = query.sym_content, query'.sym_size = query.sym_size
      PROVE  o \in Slots' /\ y \in ToSet(image'.syms) /\ Serves(o, y)'
  BY <1>2 DEF Serves, Handed, Slots, N
<1>3. CASE Editing
  <2>1. Handed' = Handed /\ query' = query
    BY <1>3 DEF Editing, Handed
  <2>2. CASE AppendCode /\ buffer' = buffer + 1
    BY <1>1, <2>1, <2>2 DEF HandedInv
  <2>3. CASE /\ buffer' = buffer
             /\ pc' \in {"note", "vaddr", "entry"} => pc \in {"note", "vaddr", "entry"}
             /\ pc \in {"note", "vaddr", "entry"} \/ UNCHANGED <<image, mem>>
    <3>1. Handed'.buffer <= buffer' /\ (pc' \in {"note", "vaddr", "entry"} => Handed'.buffer < buffer')
      BY <1>1, <2>1, <2>3 DEF HandedInv
    <3>2. ASSUME Handed.buffer = buffer
          PROVE  \E o \in Slots', y \in ToSet(image'.syms) : Serves(o, y)'
      <4>1. UNCHANGED <<image, mem>>
        BY <1>1, <2>3, <3>2 DEF HandedInv
      <4>2. PICK o \in Slots, y \in ToSet(image.syms) : Serves(o, y)
        BY <3>2 DEF HandedInv
      <4>3. QED
        BY <1>2, <2>1, <4>1, <4>2
    <3>3. QED
      BY <2>1, <2>3, <3>1, <3>2 DEF HandedInv
  <2>4. QED
    BY <1>3, <2>2, <2>3, Replaced
<1>4. CASE QueryStep
  <2>1. /\ buffer' = buffer /\ image' = image /\ \A o \in Slots : mem'[o] = mem[o]
        /\ pc' \in {"idle", "dead", "wild"}
    BY <1>4, Queried, QueryKeepsTable
  <2>2. ASSUME query'.sym_content = query.sym_content, query'.sym_size = query.sym_size
        PROVE  HandedInv'
    <3>1. Handed' = Handed
      BY <2>2 DEF Handed
    <3>2. ASSUME Handed.buffer = buffer
          PROVE  \E o \in Slots', y \in ToSet(image'.syms) : Serves(o, y)'
      <4>1. PICK o \in Slots, y \in ToSet(image.syms) : Serves(o, y)
        BY <3>2 DEF HandedInv
      <4>2. QED
        BY <1>2, <2>1, <2>2, <4>1
    <3>3. QED
      BY <1>1, <2>1, <3>1, <3>2 DEF HandedInv
  <2>3. ASSUME NEW name, QueryRead(name) PROVE HandedInv'
    <3>1. PICK s \in Located(name) :
            query' = [sym_content |-> [buffer |-> buffer, at |-> s.at, of |-> s.vaddr],
                      sym_size |-> s.size, sym_vaddr |-> s.vaddr]
      BY <2>3 DEF QueryRead
    <3>2. /\ Handed'.buffer = buffer /\ Handed'.at = s.at /\ Handed'.of = s.vaddr
          /\ query'.sym_size = s.size
      BY <3>1 DEF Handed
    <3>3. PICK o \in Slots : LocatedIn(s, o)
      BY LocatedFacts
    <3>4. PICK y \in ToSet(image.syms) : y.st_value = s.vaddr /\ y.st_size = s.size
      BY <3>3 DEF LocatedIn
    <3>5. o \in Slots' /\ y \in ToSet(image'.syms)
      BY <2>1 DEF Slots, N
    <3>6. Serves(o, y)'
      BY <2>1, <3>2, <3>3, <3>4 DEF Serves, LocatedIn
    <3>7. QED
      BY <1>1, <2>1, <3>2, <3>5, <3>6 DEF HandedInv
  <2>4. ASSUME NEW name, NEW s \in Located(name), query' = [query EXCEPT !.sym_vaddr = s.vaddr]
        PROVE  HandedInv'
    <3>1. query'.sym_content = query.sym_content /\ query'.sym_size = query.sym_size
      BY <2>4 DEF QueryTypes
    <3>2. QED
      BY <2>2, <3>1
  <2>5. QED
    BY <1>4, <2>2, <2>3, <2>4, Queried
<1>5. QED
  BY <1>3, <1>4, QueryKinds

(* Where segments are disjoint, only one of them has anything at an        *)
(* address: what the loader finds there is what that one has.              *)
LEMMA LoadedOnce ==
  ASSUME Shape, Sane, NEW o \in Slots, NEW a \in Int, mem[o].p_type = "LOAD",
         mem[o].p_vaddr <= a, a < mem[o].p_vaddr + mem[o].p_memsz
  PROVE  \A v \in Loaded(a) : v = mem[LoadedFrom(mem[o], a)] /\ Maps(mem[o], a)
<1>1. AllDisjoint(Table) /\ WellPlaced
  BY DEF Sane, Shape, SegmentsDisjoint
<1>2. \A p \in Slots : /\ mem[p].p_vaddr \in Nat /\ mem[p].p_memsz \in Nat /\ mem[p].p_filesz \in Nat
  BY DEF Shape, Layout, Entries
<1>3. ASSUME NEW e \in ToSet(Table), Maps(e, a) PROVE e = mem[o]
  <2>1. PICK p \in Slots : e = mem[p]
    BY TableSlots DEF Shape
  <2>2. /\ mem[p].p_type = "LOAD" /\ mem[p].p_vaddr <= a
        /\ a < mem[p].p_vaddr + mem[p].p_filesz
    BY <1>2, <1>3, <2>1 DEF Maps
  <2>3. mem[p].p_filesz <= mem[p].p_memsz
    BY <1>1, <2>2, ContentsApart
  <2>4. ~Disjoint(mem[o], mem[p])
    BY <1>2, <2>2, <2>3 DEF Disjoint
  <2>5. p = o
    BY <1>1, <2>2, <2>4, SlotsDisjoint DEF Shape
  <2>6. QED
    BY <2>1, <2>5
<1>4. QED
  BY <1>3 DEF Loaded

LEMMA HandedIsMapped ==
  ASSUME Shape, QueryTypes, HandedInv
  PROVE  HandedOutMapped
<1> SUFFICES ASSUME Sane, SymbolsInside, Handed.buffer = buffer,
                    NEW k \in 0..(query.sym_size - 1), NEW v \in Loaded(Handed.of + k)
             PROVE  v = Through(Handed, query.sym_size)[k]
  BY DEF HandedOutMapped, Handed
<1>1. PICK o \in Slots, s \in ToSet(image.syms) : Serves(o, s)
  BY DEF HandedInv
<1>2. PICK a, at, n : a = Handed.of + k /\ at = Handed.at /\ n = query.sym_size
  OBVIOUS
<1>3. /\ mem[o].p_type = "LOAD" /\ mem[o].p_vaddr < Handed.of /\ mem[o].p_vaddr \in Nat
      /\ mem[o].p_memsz \in Nat /\ mem[o].p_offset \in Nat /\ mem[o].p_filesz \in Nat
      /\ Handed.of \in Nat /\ n \in Nat /\ at \in Nat /\ length \in Nat
  BY <1>1, <1>2 DEF Serves, Covers, Shape, Typed, Layout, Entries, QueryTypes, Handed, Pointers
<1>4. Handed.of + n <= mem[o].p_vaddr + mem[o].p_memsz
  <2>1. mem[o] \in ToSet(Table)
    BY TableSlots DEF Shape
  <2>2. s.st_value + s.st_size <= mem[o].p_vaddr + mem[o].p_memsz
    BY <1>1, <2>1 DEF SymbolsInside, Serves
  <2>3. QED
    BY <1>1, <1>2, <2>2 DEF Serves
<1>5. a \in Int /\ mem[o].p_vaddr <= a /\ a < mem[o].p_vaddr + mem[o].p_memsz
  BY <1>2, <1>3, <1>4
<1>6. v = mem[LoadedFrom(mem[o], a)] /\ Maps(mem[o], a)
  BY <1>2, <1>3, <1>5, LoadedOnce
<1>7. at + k = LoadedFrom(mem[o], a)
  BY <1>1, <1>2, <1>3 DEF Serves, LoadedFrom
<1>8. at + k < length
  <2>1. at + k \in Content(mem[o])
    BY <1>3, <1>6, <1>7 DEF Maps, Content, LoadedFrom
  <2>2. Content(mem[o]) \subseteq 0..(length - 1)
    BY <1>3, ContentsApart DEF Sane
  <2>3. QED
    BY <1>3, <2>1, <2>2
<1>9. Through(Handed, n)[k] = mem[at + k]
  BY <1>2, <1>8 DEF Through, Chunk
<1>10. QED
  BY <1>2, <1>6, <1>7, <1>9

----------------------------------------------------------------------------
(* What queries have written.                                              *)

(* Overriding a PT_NOTE adds a segment and changes no other one.           *)
LEMMA SegmentsGrow ==
  ASSUME Shape, [Next]_vars
  PROVE  /\ image' = image /\ Slots' = Slots
         /\ \A o \in Slots : mem[o].p_type = "LOAD" => mem'[o] = mem[o]
         /\ Sane' => Sane
<1>1. image' = image /\ Slots' = Slots /\ N' = N
  BY LayoutStep, Touches DEF Shape
<1>2. Slots \subseteq 0..(length - 1)
  <2>1. Slots \subseteq 0..(image.length - 1) /\ image.length <= length
    BY ImageFacts, InjectedPlaces DEF Shape, Typed
  <2>2. QED
    BY <2>1, InjectedPlaces
<1>3. ASSUME NEW o \in Slots, mem[o].p_type = "LOAD" PROVE mem'[o] = mem[o]
  <2>1. CASE AppendCode
    BY <1>2, <2>1, Appended DEF Shape
  <2>2. CASE WriteEntry
    <3>1. mem[transform.phdr_file_offset].p_type = "NOTE"
      BY <2>2 DEF WriteEntry, Shape, PhaseInv, FirstNote
    <3>2. o # transform.phdr_file_offset
      BY <1>3, <3>1
    <3>3. QED
      BY <1>2, <2>2, <3>2, Written1 DEF Shape
  <2>3. CASE Still
    BY <2>3 DEF Still
  <2>4. QED
    BY <2>1, <2>2, <2>3, Touches
<1>4. Len(Table) = N /\ Len(Table)' = N /\ \A j \in 1..N : Table'[j] = mem'[image.phoff + j - 1]
  BY <1>1, SlotOf DEF Shape, Typed, Table, N
<1>5. \A j \in 1..N : Table[j].p_type = "LOAD" => Table'[j] = Table[j]
  <2>1. \A j \in 1..N : image.phoff + j - 1 \in Slots /\ Table[j] = mem[image.phoff + j - 1]
    BY SlotOf DEF Shape, Typed
  <2>2. QED
    BY <1>3, <1>4, <2>1
<1>6. Fits' /\ NoneEmpty' => Fits /\ NoneEmpty
  BY <1>4, <1>5 DEF Fits, NoneEmpty
<1>7. AllDisjoint(image.entries)' /\ WellPlaced' => AllDisjoint(image.entries) /\ WellPlaced
  BY <1>1 DEF AllDisjoint, WellPlaced
<1>8. QED
  BY <1>1, <1>3, <1>6, <1>7 DEF Sane

LEMMA PatchKept ==
  ASSUME Shape, PatchInv, Editing
  PROVE  PatchInv'
<1> SUFFICES ASSUME Sane', ~spilled', NEW a \in DOMAIN patched'
             PROVE  \E o \in Slots' : Patched(o, a)'
  BY DEF PatchInv
<1>1. /\ image' = image /\ Slots' = Slots /\ Sane /\ patched' = patched /\ ~spilled
      /\ \A o \in Slots : mem[o].p_type = "LOAD" => mem'[o] = mem[o]
  BY SegmentsGrow DEF Editing
<1>2. PICK o \in Slots : Patched(o, a)
  BY <1>1 DEF PatchInv
<1>3. PICK place : place = LoadedFrom(mem[o], a)
  OBVIOUS
<1>4. /\ Maps(mem[o], a) /\ place \in 0..(length - 1) /\ place \notin Tables
      /\ mem[place] = patched[a]
  BY <1>2, <1>3 DEF Patched
<1>5. mem'[o] = mem[o] /\ Tables' = Tables /\ length \in Nat
  BY <1>1, <1>4, InjectedPlaces DEF Maps, Tables
<1>6. mem'[place] = mem[place] /\ place \in 0..(length' - 1)
  <2>1. CASE AppendCode
    <3>1. length' \in length..(ObjectMod - 1) /\ mem'[place] = mem[place]
      BY <1>4, <2>1, Appended DEF Shape
    <3>2. length' \in Int /\ length <= length'
      BY <1>5, <3>1, ObjectFacts
    <3>3. place \in 0..(length - 1) /\ length \in Nat
      BY <1>4, <1>5
    <3>4. place \in 0..(length' - 1)
      <4>1. PICK m, n : m = length /\ n = length'
        OBVIOUS
      <4>2. m \in Nat /\ n \in Int /\ m <= n /\ place \in 0..(m - 1)
        BY <3>2, <3>3, <4>1
      <4>3. place \in 0..(n - 1)
        BY <4>2
      <4>4. QED
        BY <4>1, <4>3
    <3>5. QED
      BY <3>1, <3>4
  <2>2. CASE WriteEntry
    <3>1. transform.phdr_file_offset \in Tables
      <4>1. transform.phdr_file_offset \in Slots
        BY <2>2, Written1 DEF Shape
      <4>2. QED
        BY <4>1 DEF Slots, Tables, N
    <3>2. mem'[place] = mem[place]
      BY <1>4, <2>2, <3>1, Written1 DEF Shape
    <3>3. QED
      BY <1>4, <2>2, <3>2 DEF WriteEntry
  <2>3. CASE Still
    BY <1>4, <2>3 DEF Still
  <2>4. QED
    BY <2>1, <2>2, <2>3, Touches DEF Editing
<1>7. Patched(o, a)'
  BY <1>1, <1>3, <1>4, <1>5, <1>6 DEF Patched
<1>8. QED
  BY <1>1, <1>7

LEMMA TableKept ==
  ASSUME Shape, UNCHANGED image, \A o \in Slots : mem'[o] = mem[o]
  PROVE  Table' = Table /\ Tables' = Tables /\ (Sane' <=> Sane) /\ (TablesUnnamed' <=> TablesUnnamed)
<1>1. \A j \in 1..N : image.phoff + j - 1 \in Slots
  BY SlotOf DEF Shape, Typed
<1>2. Table' = Table /\ Tables' = Tables
  BY <1>1 DEF Table, N, Tables
<1>3. Sane' <=> Sane
  BY <1>2 DEF Sane, WellPlaced, AllDisjoint, Fits, NoneEmpty
<1>4. TablesUnnamed' <=> TablesUnnamed
  BY <1>2 DEF TablesUnnamed
<1>5. QED
  BY <1>2, <1>3, <1>4

LEMMA PatchStored ==
  ASSUME Shape, PatchInv, UNCHANGED <<image, length>>, \A o \in Slots : mem'[o] = mem[o],
         NEW name, NEW s \in Located(name), NEW cells, WriteContent(s, cells), pc' # "wild"
  PROVE  PatchInv'
<1> SUFFICES ASSUME Sane', ~spilled', NEW a \in DOMAIN patched'
             PROVE  \E o \in Slots' : Patched(o, a)'
  BY DEF PatchInv
<1>1. Slots' = Slots /\ Tables' = Tables /\ Sane
  BY TableKept DEF Slots, N
<1>2. ~spilled /\ s.at + s.size <= s.end
  <2>1. ~spilled /\ ~(s.at + s.size > s.end)
    BY DEF WriteContent
  <2>2. s.at \in Nat /\ s.size \in Nat /\ s.end \in Nat
    BY LocatedFacts DEF LocatedIn
  <2>3. QED
    BY <2>1, <2>2
<1>3. PICK o \in Slots : LocatedIn(s, o) /\ mem[o].p_type = "LOAD"
  BY LocatedFacts
<1>4. s.at \in Nat /\ s.size \in Nat /\ s.end \in Nat /\ s.vaddr \in Nat
  BY <1>3 DEF LocatedIn
<1>5. \A x \in Target(s) : x < s.end
  BY <1>2, <1>4 DEF Target
<1>6. /\ \A x \in Target(s) :
           x \in 0..(length - 1) /\ x \notin Tables /\ mem'[x] = cells[x - s.at]
      /\ \A x \in 0..(length - 1) : x \notin Target(s) => mem'[x] = mem[x]
      /\ DOMAIN patched' = DOMAIN patched \cup Addresses(s)
      /\ \A b \in Addresses(s) : patched'[b] = cells[b - s.vaddr]
      /\ \A b \in DOMAIN patched : b \notin Addresses(s) => patched'[b] = patched[b]
  BY ContentStored
<1>7. /\ \A b \in Addresses(s) : /\ LoadedFrom(mem[o], b) \in Target(s)
                                 /\ LoadedFrom(mem[o], b) - s.at = b - s.vaddr
      /\ \A x \in Target(s) :
           /\ s.vaddr + (x - s.at) \in Addresses(s)
           /\ LoadedFrom(mem[o], s.vaddr + (x - s.at)) = x
           /\ Maps(mem[o], s.vaddr + (x - s.at)) /\ x \in Content(mem[o])
  BY <1>3, <1>5, Correspondence DEF Target, Addresses
<1>8. CASE a \in Addresses(s)
  <2>1. PICK x : x = LoadedFrom(mem[o], a)
    OBVIOUS
  <2>2. x \in Target(s) /\ x - s.at = a - s.vaddr
    BY <1>7, <1>8, <2>1
  <2>3. s.vaddr + (x - s.at) = a
    BY <1>4, <1>8, <2>2 DEF Target, Addresses
  <2>4. Maps(mem[o], a)
    BY <1>7, <2>2, <2>3
  <2>5. x \in 0..(length - 1) /\ x \notin Tables /\ mem'[x] = patched'[a]
    BY <1>6, <1>8, <2>2
  <2>6. mem'[o] = mem[o]
    OBVIOUS
  <2>7. Patched(o, a)'
    BY <1>1, <2>1, <2>4, <2>5, <2>6 DEF Patched
  <2>8. QED
    BY <1>1, <2>7
<1>9. CASE a \notin Addresses(s)
  <2>1. a \in DOMAIN patched /\ patched'[a] = patched[a]
    BY <1>6, <1>9
  <2>2. PICK p \in Slots : Patched(p, a)
    BY <1>1, <1>2, <2>1 DEF PatchInv
  <2>3. PICK x : x = LoadedFrom(mem[p], a)
    OBVIOUS
  <2>4. /\ Maps(mem[p], a) /\ x \in 0..(length - 1) /\ x \notin Tables
        /\ mem[x] = patched[a] /\ mem[p].p_type = "LOAD"
    BY <2>2, <2>3 DEF Patched, Maps
  <2>5. x \notin Target(s)
    <3> SUFFICES ASSUME x \in Target(s) PROVE FALSE
      OBVIOUS
    <3>1. mem[p].p_vaddr \in Nat /\ mem[p].p_offset \in Nat /\ mem[p].p_filesz \in Nat
      BY DEF Shape, Layout, Entries
    <3>2. x \in Content(mem[p])
      BY <2>3, <2>4, <3>1 DEF Maps, Content, LoadedFrom
    <3>3. x \in Content(mem[o])
      BY <1>7
    <3>4. p = o
      BY <1>1, <1>3, <2>4, <3>2, <3>3, ContentsApart DEF Sane
    <3>5. PICK b : b = s.vaddr + (x - s.at)
      OBVIOUS
    <3>6. b \in Addresses(s) /\ LoadedFrom(mem[p], b) = LoadedFrom(mem[p], a)
      BY <1>7, <2>3, <3>4, <3>5
    <3>7. a \in Int /\ b \in Int
      BY <1>4, <2>4, <3>1, <3>6 DEF Maps, Addresses
    <3>8. a = b
      BY <3>1, <3>6, <3>7 DEF LoadedFrom
    <3>9. QED
      BY <1>9, <3>6, <3>8
  <2>6. mem'[x] = mem[x] /\ mem'[p] = mem[p]
    BY <1>6, <2>4, <2>5
  <2>7. Patched(p, a)'
    BY <1>1, <2>1, <2>3, <2>4, <2>6 DEF Patched
  <2>8. QED
    BY <1>1, <2>7
<1>10. QED
  BY <1>8, <1>9

LEMMA PatchStep ==
  ASSUME Shape, QueryTypes, PatchInv, [QueryNext]_allVars
  PROVE  PatchInv'
<1>1. CASE Editing
  BY <1>1, PatchKept
<1>2. CASE QueryStep
  <2>1. /\ image' = image /\ length' = length /\ \A o \in Slots : mem'[o] = mem[o]
        /\ Quiet \/ Overwrites
    BY <1>2, Queried, QueryKeepsTable
  <2>2. ASSUME UNCHANGED <<mem, patched>>, spilled' = FALSE => spilled = FALSE PROVE PatchInv'
    <3> SUFFICES ASSUME Sane', ~spilled', NEW a \in DOMAIN patched'
                 PROVE  \E o \in Slots' : Patched(o, a)'
      BY DEF PatchInv
    <3>1. Slots' = Slots /\ Tables' = Tables /\ Sane
      BY <2>1, TableKept DEF Slots, N
    <3>2. ~spilled
      BY <2>2, QueryTypesStep DEF QueryTypes
    <3>3. PICK o \in Slots : Patched(o, a)
      BY <2>2, <3>1, <3>2 DEF PatchInv
    <3>4. Patched(o, a)'
      BY <2>1, <2>2, <3>1, <3>3 DEF Patched
    <3>5. QED
      BY <3>1, <3>4
  <2>3. CASE Quiet
    BY <2>2, <2>3 DEF Quiet
  <2>4. CASE Overwrites
    <3>1. PICK name, cells : \E s \in Located(name) : WriteContent(s, cells)
      BY <2>4 DEF Overwrites
    <3>2. PICK s \in Located(name) : WriteContent(s, cells)
      BY <3>1
    <3>3. CASE pc' # "wild"
      BY <2>1, <3>2, <3>3, PatchStored
    <3>4. CASE pc' = "wild"
      <4>1. UNCHANGED <<mem, patched>>
        BY <3>2, <3>4, ContentStored
      <4>2. spilled' = FALSE => spilled = FALSE
        BY <3>2 DEF WriteContent, QueryTypes
      <4>3. QED
        BY <2>2, <4>1, <4>2
    <3>5. QED
      BY <3>3, <3>4
  <2>5. QED
    BY <2>1, <2>3, <2>4
<1>3. QED
  BY <1>1, <1>2, QueryKinds

LEMMA PatchedIsLoaded ==
  ASSUME Shape, PatchInv
  PROVE  PatchesStand
<1> SUFFICES ASSUME Sane, ~spilled, NEW a \in DOMAIN patched, NEW v \in Loaded(a)
             PROVE  v = patched[a]
  BY DEF PatchesStand
<1>1. PICK o \in Slots : Patched(o, a)
  BY DEF PatchInv
<1>2. Maps(mem[o], a) /\ mem[LoadedFrom(mem[o], a)] = patched[a]
  BY <1>1 DEF Patched
<1>3. /\ mem[o].p_vaddr \in Nat /\ mem[o].p_filesz \in Nat /\ mem[o].p_memsz \in Nat
      /\ mem[o].p_type = "LOAD"
  BY <1>2 DEF Maps, Shape, Layout, Entries
<1>4. mem[o].p_filesz <= mem[o].p_memsz
  BY <1>3, ContentsApart DEF Sane
<1>5. a \in Int /\ mem[o].p_vaddr <= a /\ a < mem[o].p_vaddr + mem[o].p_memsz
  BY <1>2, <1>3, <1>4 DEF Maps
<1>6. QED
  BY <1>2, <1>3, <1>5, LoadedOnce

(* A write that hits a table, or the end of the image, is partly in .bss.  *)
LEMMA CorruptsStep ==
  ASSUME Shape, QueryTypes, CorruptsOnlyFromBss, [QueryNext]_allVars
  PROVE  CorruptsOnlyFromBss'
<1> SUFFICES ASSUME WellPlaced', TablesUnnamed', pc' = "wild" PROVE spilled'
  BY DEF CorruptsOnlyFromBss
<1>1. CASE Editing
  <2>1. UNCHANGED vars
    BY <1>1 DEF Editing, Next, Inject, InjectionStep, AppendNoMemory, AppendCode, FindNote, NoNote,
         GetVaddr, NoLoad, WriteEntry, OpenFails, BufferFails, WriteBegin, BeginWrite, WritingStep,
         WriteStep, WriteStepFails, WriteEnd, Finished, Return
  <2>2. UNCHANGED <<image, mem, pc, spilled>>
    BY <1>1, <2>1 DEF Editing, vars
  <2>3. WellPlaced /\ TablesUnnamed /\ pc = "wild"
    BY <2>2, TableKept DEF WellPlaced
  <2>4. QED
    BY <2>2, <2>3 DEF CorruptsOnlyFromBss
<1>2. CASE QueryStep
  <2>1. /\ UNCHANGED image /\ \A o \in Slots : mem'[o] = mem[o]
        /\ Quiet \/ Overwrites
    BY <1>2, Queried, QueryKeepsTable
  <2>2. WellPlaced /\ TablesUnnamed
    BY <2>1, TableKept DEF WellPlaced
  <2>3. PICK name, cells : \E s \in Located(name) : WriteContent(s, cells)
    BY <2>1 DEF Quiet, Overwrites
  <2>4. PICK s \in Located(name) : WriteContent(s, cells)
    BY <2>3
  <2>5. PICK x \in Target(s) : x \in Tables \/ x >= length
    BY <2>4, ContentStored DEF Corrupts
  <2>6. PICK o \in Slots : LocatedIn(s, o) /\ mem[o].p_type = "LOAD"
    BY LocatedFacts
  <2>7. /\ s.at \in Nat /\ s.size \in Nat /\ s.end \in Nat /\ s.vaddr \in Nat /\ length \in Nat
        /\ Covers(mem[o], s.vaddr)
    BY <2>6 DEF LocatedIn, Shape, Typed
  <2>8. ASSUME x < s.end PROVE FALSE
    <3>1. PICK a : a = s.vaddr + (x - s.at)
      OBVIOUS
    <3>2. /\ a \in Addresses(s) /\ LoadedFrom(mem[o], a) = x /\ Maps(mem[o], a)
          /\ x \in Content(mem[o])
      BY <2>6, <2>8, <3>1, Correspondence DEF Target, Addresses
    <3>3. x \notin Tables
      <4>1. PICK y \in ToSet(image.syms) : y.st_value = s.vaddr /\ y.st_size = s.size
        BY <2>6 DEF LocatedIn
      <4>2. mem[o] \in ToSet(Table)
        BY TableSlots DEF Shape
      <4>3. a \in y.st_value..(y.st_value + y.st_size - 1)
        BY <3>2, <4>1 DEF Addresses
      <4>4. QED
        BY <2>2, <2>7, <3>2, <4>1, <4>2, <4>3 DEF TablesUnnamed
    <3>4. Content(mem[o]) \subseteq 0..(length - 1)
      BY <2>2, <2>6, ContentsApart
    <3>5. QED
      BY <2>5, <2>7, <3>2, <3>3, <3>4
  <2>9. s.at + s.size > s.end
    BY <2>7, <2>8 DEF Target
  <2>10. QED
    BY <2>4, <2>9 DEF WriteContent
<1>3. QED
  BY <1>1, <1>2, QueryKinds

----------------------------------------------------------------------------
(* What an injection does to the symbols.                                  *)

(* A segment that covers an address neither wraps nor reaches the page     *)
(* found for the injection, so that the new segment does not cover it.     *)
LEMMA NewSegmentBehind ==
  ASSUME Shape, Sane, WriteEntry, NEW o \in Slots, NEW a \in Int, Covers(mem[o], a)
  PROVE  ~Covers(mem'[transform.phdr_file_offset], a)
<1>1. PICK j : j = o - image.phoff + 1
  OBVIOUS
<1>2. j \in 1..N /\ Table[j] = mem[o] /\ Len(Table) = N
  <2>1. j \in 1..N /\ o = image.phoff + j - 1
    BY <1>1, SlotOf DEF Shape, Typed
  <2>2. QED
    BY <2>1, SlotOf DEF Shape, Typed
<1>3. mem[o].p_vaddr \in Nat /\ mem[o].p_memsz \in Nat /\ mem[o].p_type = "LOAD"
  BY DEF Covers, Shape, Layout, Entries
<1>4. mem[o].p_vaddr + mem[o].p_memsz + PAGE <= AddrMod
  BY <1>2, <1>3 DEF Sane, Fits
<1>5. mem[o].p_vaddr + mem[o].p_memsz <= transform.virtual_addr
  BY <1>2, <1>3, AddressFound DEF Sane, Shape, SegmentsDisjoint, WriteEntry
<1>6. a < mem[o].p_vaddr + mem[o].p_memsz
  <2>1. (mem[o].p_vaddr + mem[o].p_memsz) % AddrMod = mem[o].p_vaddr + mem[o].p_memsz
    BY <1>3, <1>4, ObjectFacts
  <2>2. QED
    BY <2>1 DEF Covers
<1>7. mem'[transform.phdr_file_offset].p_vaddr = transform.virtual_addr
  BY Written1 DEF Shape, Entry
<1>8. transform.virtual_addr \in Nat
  BY ObjectFacts DEF Shape, Typed, Transforms
<1>9. QED
  BY <1>3, <1>5, <1>6, <1>7, <1>8 DEF Covers

(* The wrappers there were stay, their segments too; what is new does not  *)
(* cover an address that was covered.                                      *)
LEMMA SegmentsSeen ==
  ASSUME Shape, Sane, InjectionStep, NEW o \in Slots, NEW a \in Int, Covers(mem[o], a)
  PROVE  /\ Len(phdr') \in Nat /\ Len(phdr) \in Nat /\ Len(phdr) <= Len(phdr')
         /\ \A k \in 1..Len(phdr) : phdr'[k] = phdr[k]
         /\ \A k \in 1..Len(phdr') :
              Covers(mem'[phdr'[k].p_offset], a) <=>
                k \in 1..Len(phdr) /\ Covers(mem[phdr[k].p_offset], a)
<1>1. [Next]_vars
  BY DEF Next
<1>2. /\ phdr \in Seq(Wrapper) /\ Len(phdr) \in Nat
      /\ \A k \in 1..Len(phdr) : phdr[k].p_offset \in Slots
  BY LenProperties, WrapperSlots DEF Shape, Typed
<1>3. CASE ~WriteEntry
  <2>1. phdr' = phdr
    BY <1>1, <1>3, Touches DEF Still, AppendCode
  <2>2. \A p \in Slots : mem'[p] = mem[p]
    <3>1. CASE AppendCode
      <4>1. Slots \subseteq 0..(image.length - 1) /\ image.length <= length
        BY ImageFacts, InjectedPlaces DEF Shape, Typed
      <4>2. Slots \subseteq 0..(length - 1)
        BY <4>1, InjectedPlaces
      <4>3. QED
        BY <3>1, <4>2, Appended DEF Shape
    <3>2. CASE Still
      BY <3>2 DEF Still
    <3>3. QED
      BY <1>1, <1>3, <3>1, <3>2, Touches
  <2>3. QED
    BY <1>2, <2>1, <2>2
<1>4. CASE WriteEntry
  <2>1. PICK slot : slot = transform.phdr_file_offset
    OBVIOUS
  <2>2. /\ slot \in Slots /\ \A p \in Slots : p # slot => mem'[p] = mem[p]
    <3>1. Slots \subseteq 0..(image.length - 1) /\ image.length <= length
      BY ImageFacts, InjectedPlaces DEF Shape, Typed
    <3>2. Slots \subseteq 0..(length - 1)
      BY <3>1, InjectedPlaces
    <3>3. QED
      BY <1>4, <2>1, <3>2, Written1 DEF Shape
  <2>3. ~Covers(mem'[slot], a)
    BY <1>4, <2>1, NewSegmentBehind
  <2>4. ~Covers(mem[slot], a)
    <3>1. mem[slot].p_type = "NOTE"
      BY <1>4, <2>1 DEF WriteEntry, Shape, PhaseInv, FirstNote
    <3>2. QED
      BY <3>1 DEF Covers
  <2>5. \A p \in Slots : Covers(mem'[p], a) <=> Covers(mem[p], a)
    BY <2>2, <2>3, <2>4
  <2>6. CASE phdr' = phdr
    BY <1>2, <2>5, <2>6
  <2>7. ASSUME NEW w, w.p_offset = slot, w \in Wrapper, phdr' = Append(phdr, w)
        PROVE  /\ Len(phdr') \in Nat /\ Len(phdr) <= Len(phdr')
               /\ \A k \in 1..Len(phdr) : phdr'[k] = phdr[k]
               /\ \A k \in 1..Len(phdr') :
                    Covers(mem'[phdr'[k].p_offset], a) <=>
                      k \in 1..Len(phdr) /\ Covers(mem[phdr[k].p_offset], a)
    <3>1. /\ Len(phdr') = Len(phdr) + 1 /\ phdr'[Len(phdr) + 1] = w
          /\ \A k \in 1..Len(phdr) : phdr'[k] = phdr[k]
      BY <1>2, <2>7, AppendProperties
    <3>2. \A k \in 1..Len(phdr') : k \in 1..Len(phdr) \/ k = Len(phdr) + 1
      BY <1>2, <3>1
    <3>3. Len(phdr) + 1 \notin 1..Len(phdr) /\ Len(phdr') \in Nat /\ Len(phdr) <= Len(phdr')
      BY <1>2, <3>1
    <3>4. ASSUME NEW k \in 1..Len(phdr')
          PROVE  Covers(mem'[phdr'[k].p_offset], a) <=>
                   k \in 1..Len(phdr) /\ Covers(mem[phdr[k].p_offset], a)
      <4>1. CASE k \in 1..Len(phdr)
        BY <1>2, <2>5, <3>1, <4>1
      <4>2. CASE k = Len(phdr) + 1
        BY <2>3, <2>7, <3>1, <3>3, <4>2
      <4>3. QED
        BY <3>2, <4>1, <4>2
    <3>5. QED
      BY <3>1, <3>3, <3>4
  <2>8. phdr' = phdr \/ \E w \in Wrapper : w.p_offset = slot /\ phdr' = Append(phdr, w)
    <3>1. PICK w : w = [idx |-> Len(image.entries) - 1, p_offset |-> transform.phdr_file_offset,
                        mem_offset |-> transform.code_file_offset]
      OBVIOUS
    <3>2. phdr' = phdr \/ phdr' = Append(phdr, w)
      BY <1>4, <3>1 DEF WriteEntry
    <3>3. w.p_offset = slot
      BY <2>1, <3>1
    <3>4. w \in Wrapper
      <4>1. N \in Nat /\ N >= 1
        <5>1. image.phoff \in Nat /\ N \in Nat
          BY ImageFacts DEF Shape, Typed
        <5>2. QED
          BY <2>2, <5>1 DEF Slots
      <4>2. transform.phdr_file_offset \in Nat /\ transform.code_file_offset \in Nat
        BY DEF Shape, Typed, Transforms
      <4>3. Len(image.entries) - 1 \in Nat
        BY <4>1 DEF N
      <4>4. QED
        BY <3>1, <4>2, <4>3 DEF Wrapper
    <3>5. QED
      BY <3>2, <3>3, <3>4
  <2>9. QED
    BY <1>2, <2>6, <2>7, <2>8
<1>5. QED
  BY <1>3, <1>4

LEMMA SymbolsKept ==
  ASSUME Shape, Sane, InjectionStep, NEW name, NEW s \in Located(name)
  PROVE  Located(name)' = {s}
<1>1. [Next]_vars
  BY DEF Next
<1>2. PICK i \in 1..Len(image.syms), j \in 1..Len(phdr) : Found(name, i, j) /\ s = Location(i, j)
  BY LocationFound
<1>3. PICK o, a : o = phdr[j].p_offset /\ a = image.syms[i].st_value
  OBVIOUS
<1>4. o \in Slots /\ mem[o].p_type = "LOAD" /\ a \in Nat
  BY <1>2, <1>3, LocationFacts, SymbolFacts DEF LocatedIn, Shape, Typed
<1>5. /\ IsChosen(i, name) /\ Covers(mem[o], a) /\ ~Uninitialised(mem[o], a)
      /\ \A k \in 1..(j - 1) : ~Covers(mem[phdr[k].p_offset], a)
  BY <1>2, <1>3 DEF Found, IsSegmentOf, Ent
<1>6. image' = image /\ mem'[o] = mem[o]
  BY <1>1, <1>4, SegmentsGrow
<1>7. /\ Len(phdr') \in Nat /\ Len(phdr) \in Nat /\ Len(phdr) <= Len(phdr')
      /\ \A k \in 1..Len(phdr) : phdr'[k] = phdr[k]
      /\ \A k \in 1..Len(phdr') :
           Covers(mem'[phdr'[k].p_offset], a) <=>
             k \in 1..Len(phdr) /\ Covers(mem[phdr[k].p_offset], a)
  BY <1>4, <1>5, SegmentsSeen
<1>8. \A k : IsChosen(k, name)' <=> IsChosen(k, name)
  BY <1>6 DEF IsChosen, Candidates, Matches
<1>9. i \in 1..Len(image'.syms) /\ j \in 1..Len(phdr') /\ phdr'[j] = phdr[j]
  BY <1>2, <1>6, <1>7
<1>10. Found(name, i, j)'
  <2>1. \A k \in 1..(j - 1) : ~Covers(mem'[phdr'[k].p_offset], a)
    <3>1. \A k \in 1..(j - 1) : k \in 1..Len(phdr')
      BY <1>7, <1>9
    <3>2. QED
      BY <1>5, <1>7, <3>1
  <2>2. IsSegmentOf(j, a)'
    BY <1>3, <1>5, <1>6, <1>9, <2>1 DEF IsSegmentOf, Ent
  <2>3. IsChosen(i, name)'
    BY <1>5, <1>8
  <2>4. ~Uninitialised(Ent(phdr[j]), image.syms[i].st_value)'
    BY <1>3, <1>5, <1>6, <1>9 DEF Ent
  <2>5. QED
    BY <1>3, <1>6, <2>2, <2>3, <2>4 DEF Found
<1>11. Location(i, j)' = s
  <2>1. Ent(phdr[j])' = mem[o] /\ Ent(phdr[j]) = mem[o]
    BY <1>3, <1>6, <1>9 DEF Ent
  <2>2. QED
    BY <1>2, <1>6, <2>1 DEF Location
<1>12. FoundAll'
  BY LocationsFound, PTL
<1>13. s \in Located(name)'
  <2>1. Location(i, j)' \in Located(name)'
    BY <1>9, <1>10, <1>12 DEF FoundAll
  <2>2. QED
    BY <1>11, <2>1
<1>14. ASSUME NEW t \in Located(name)' PROVE t = s
  <2>1. PICK k \in 1..Len(image'.syms), m \in 1..Len(phdr') : Found(name, k, m)' /\ t = Location(k, m)'
    BY <1>12 DEF FoundAll
  <2>2. k = i
    <3>1. IsChosen(k, name)
      BY <1>8, <2>1 DEF Found
    <3>2. k <= i /\ i <= k /\ k \in Int /\ i \in Int
      BY <1>5, <3>1 DEF IsChosen, Candidates
    <3>3. QED
      BY <3>2
  <2>3. /\ Covers(mem'[phdr'[m].p_offset], a)
        /\ \A n \in 1..(m - 1) : ~Covers(mem'[phdr'[n].p_offset], a)
    BY <1>3, <1>6, <2>1, <2>2 DEF Found, IsSegmentOf, Ent
  <2>4. m = j
    <3>1. m \in Nat /\ j \in Nat
      BY <1>7, <1>9
    <3>2. Covers(mem'[phdr'[j].p_offset], a)
      BY <1>3, <1>5, <1>6, <1>9
    <3>3. ~(j \in 1..(m - 1))
      BY <2>3, <3>2
    <3>4. ~(m \in 1..(j - 1))
      BY <1>5, <1>7, <2>3
    <3>5. QED
      BY <1>7, <1>9, <3>1, <3>3, <3>4
  <2>5. QED
    BY <1>11, <2>1, <2>2, <2>4
<1>15. QED
  BY <1>13, <1>14

LEMMA ContentKept ==
  ASSUME Shape, TablesUnnamed, InjectionStep, NEW name, NEW s \in Located(name)
  PROVE  SameContent(s)
<1> SUFFICES ASSUME NEW x \in Target(s), x < s.end, x < length PROVE mem'[x] = mem[x]
  BY DEF SameContent, Target
<1>1. PICK o \in Slots : LocatedIn(s, o) /\ mem[o].p_type = "LOAD"
  BY LocatedFacts
<1>2. x \in 0..(length - 1)
  <2>1. s.at \in Nat /\ s.size \in Nat /\ length \in Nat
    BY <1>1, InjectedPlaces DEF LocatedIn
  <2>2. QED
    BY <2>1 DEF Target
<1>3. x \notin Tables
  <2>1. PICK a : a = s.vaddr + (x - s.at)
    OBVIOUS
  <2>2. a \in Addresses(s) /\ LoadedFrom(mem[o], a) = x /\ Maps(mem[o], a)
    BY <1>1, <2>1, Correspondence DEF Target, Addresses
  <2>3. PICK y \in ToSet(image.syms) : y.st_value = s.vaddr /\ y.st_size = s.size
    BY <1>1 DEF LocatedIn
  <2>4. mem[o] \in ToSet(Table) /\ Covers(mem[o], y.st_value)
    BY <1>1, <2>3, TableSlots DEF Shape, LocatedIn
  <2>5. a \in y.st_value..(y.st_value + y.st_size - 1)
    BY <2>2, <2>3 DEF Addresses
  <2>6. QED
    BY <2>2, <2>4, <2>5 DEF TablesUnnamed
<1>4. CASE AppendCode
  BY <1>2, <1>4, Appended DEF Shape
<1>5. CASE WriteEntry
  <2>1. transform.phdr_file_offset \in Slots
    BY <1>5, Written1 DEF Shape
  <2>2. transform.phdr_file_offset \in Tables
    BY <2>1 DEF Slots, Tables, N
  <2>3. QED
    BY <1>2, <1>3, <1>5, <2>2, Written1 DEF Shape
<1>6. CASE Still
  BY <1>6 DEF Still
<1>7. QED
  BY <1>4, <1>5, <1>6, Touches DEF Next

----------------------------------------------------------------------------
(* The invariant.                                                          *)

LEMMA QueryInitInvariant == QueryInit => QInv
<1> SUFFICES ASSUME QueryInit PROVE QInv
  OBVIOUS
<1>1. IInv
  BY InitInvariant DEF QueryInit
<1>2. Shape
  <2>1. Typed /\ Layout /\ WrapperInv /\ InjectedInv /\ PhaseInv /\ ParsedInv /\ SegmentsDisjoint
    BY <1>1, TypesOnly DEF IInv
  <2>2. Slots \subseteq 0..(image.length - 1)
    BY <2>1, ImageFacts DEF Typed
  <2>3. QED
    BY <2>1, <2>2 DEF Shape, ParsedInv
<1>3. QueryTypes /\ HandedInv
  <2>1. /\ query = [sym_content |-> NullPointer, sym_size |-> 0, sym_vaddr |-> 0]
        /\ buffer = 0 /\ spilled = FALSE /\ pc = "idle"
    BY DEF QueryInit, Init
  <2>2. NullPointer = [buffer |-> -1, at |-> 0, of |-> 0] /\ NullPointer \in Pointers
    BY DEF NullPointer, NoBuffer, Pointers
  <2>3. QueryTypes
    BY <2>1, <2>2 DEF QueryTypes
  <2>4. Handed.buffer = -1
    BY <2>1, <2>2 DEF Handed
  <2>5. HandedInv
    BY <2>1, <2>4 DEF HandedInv
  <2>6. QED
    BY <2>3, <2>5
<1>4. PatchInv
  BY DEF QueryInit, PatchInv
<1>5. CorruptsOnlyFromBss
  BY DEF QueryInit, Init, CorruptsOnlyFromBss
<1>6. QED
  BY <1>2, <1>3, <1>4, <1>5 DEF QInv

LEMMA QueryStepInvariant == QInv /\ [QueryNext]_allVars => QInv'
BY ShapeStep, QueryTypesStep, HandedStep, PatchStep, CorruptsStep DEF QInv

THEOREM QueryInvariant == QuerySpec => []QInv
BY QueryInitInvariant, QueryStepInvariant, PTL DEF QuerySpec

(* A pointer that elftool_sym_query_by_name handed out shows what the      *)
(* program will find at the symbol's address, until an injection has       *)
(* replaced the image it points into.                                      *)
THEOREM HandedOutStays == QuerySpec => []HandedOutMapped
<1>1. QInv => HandedOutMapped
  BY HandedIsMapped DEF QInv
<1>2. QED
  BY <1>1, QueryInvariant, PTL

(* The last write of elftool_sym_query_by_name to an address stands in the *)
(* program's address space, through all later injections and queries.      *)
THEOREM PatchesStay == QuerySpec => []PatchesStand
<1>1. QInv => PatchesStand
  BY PatchedIsLoaded DEF QInv
<1>2. QED
  BY <1>1, QueryInvariant, PTL

(* elftool_sym_query_by_name overwrites the header or a table, or writes   *)
(* behind the image, for no symbol that has all of its content in the file.*)
THEOREM OnlyBssCorrupts == QuerySpec => []CorruptsOnlyFromBss
<1>1. QInv => CorruptsOnlyFromBss
  BY DEF QInv
<1>2. QED
  BY <1>1, QueryInvariant, PTL

(* No step of elftool_transform_segment_injection, successful or not,      *)
(* changes what a query answers, nor what the symbol has in the file.      *)
THEOREM SymbolsStay == QuerySpec => InjectionKeepsSymbols
<1>1. ASSUME Shape, Sane, TablesUnnamed, InjectionStep
      PROVE  \A name \in QueryNames : \A s \in Located(name) :
               Located(name)' = {s} /\ SameContent(s)
  BY <1>1, SymbolsKept, ContentKept
<1>2. QInv /\ [QueryNext]_allVars =>
        [Sane /\ TablesUnnamed /\ InjectionStep =>
           \A name \in QueryNames : \A s \in Located(name) :
             Located(name)' = {s} /\ SameContent(s)]_allVars
  BY <1>1 DEF QInv
<1>3. QED
  BY <1>2, QueryInvariant, PTL DEF QuerySpec, InjectionKeepsSymbols

==============================================================================
