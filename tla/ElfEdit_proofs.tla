--------------------------- MODULE ElfEdit_proofs ---------------------------
(***************************************************************************)
(* Injections and writes, for every image, page size, width of an address  *)
(* and sequence of calls, with allocations and system calls that fail.     *)
(***************************************************************************)
EXTENDS ElfEdit, SequenceTheorems, FiniteSetTheorems, TLAPS

N == Len(image.entries)
Slots == image.phoff..(image.phoff + N - 1)  \* the cells of the table
Count == Len(injected)

(* The types that do not depend on what the bytes of the image are.        *)
Wrapper == [idx : Nat, p_offset : Nat, mem_offset : Nat]
Typed ==
  /\ image \in Images
  /\ length \in Nat /\ mem = [o \in 0..(length - 1) |-> mem[o]]
  /\ phdr \in Seq(Wrapper) /\ transform \in Transforms /\ injected \in Seq(Transforms)

(* Offsets and lengths stay those of an object, the table a table.         *)
Layout ==
  /\ length \in image.length..(ObjectMod - 1)
  /\ \A o \in Slots : mem[o] \in Entries
Lists(w, t) == w.p_offset = t.phdr_file_offset /\ w.mem_offset = t.code_file_offset

(* The wrappers of the parser are the table's; those behind them belong to *)
(* injections, and each injection has one unless its push failed.          *)
WrapperInv ==
  /\ Len(phdr) >= N
  /\ \A j \in 1..N : /\ phdr[j].p_offset = image.phoff + j - 1
                     /\ phdr[j].mem_offset = image.entries[j].p_offset
  /\ \A j \in (N + 1)..Len(phdr) : \E i \in 1..Count : Lists(phdr[j], injected[i])
  /\ ~unlisted => \A i \in 1..Count : \E j \in (N + 1)..Len(phdr) : Lists(phdr[j], injected[i])

(* What an injection has put into the image, in a slot and behind all that *)
(* was there before.                                                       *)
Stands(t) ==
  /\ t.phdr_file_offset \in Slots
  /\ mem[t.phdr_file_offset] =
       Entry("LOAD", t.code_file_offset, t.virtual_addr, t.code_len, t.code_len)
  /\ t.virtual_addr % PAGE = 0
HasRoom(t) ==
  /\ t.code_file_offset % PAGE = 0
  /\ t.code_file_offset >= image.length
  /\ t.code_file_offset + t.code_len <= length
Behind(t, u) == u.code_file_offset + u.code_len <= t.code_file_offset
InjectedInv ==
  /\ \A n \in 1..Count : Stands(injected[n]) /\ HasRoom(injected[n])
  /\ \A m, n \in 1..Count : m < n =>
       /\ injected[m].phdr_file_offset # injected[n].phdr_file_offset
       /\ Behind(injected[n], injected[m])

(* The injection under way: its code is appended, its slot found, its      *)
(* address computed.                                                       *)
FirstNote(o) ==
  /\ o \in Slots /\ mem[o].p_type = "NOTE"
  /\ \A p \in Slots : p < o => mem[p].p_type # "NOTE"
LastLoad(o) ==
  /\ o \in Slots /\ mem[o].p_type = "LOAD"
  /\ \A p \in Slots : mem[p].p_type = "LOAD" => mem[p].p_vaddr <= mem[o].p_vaddr
PhaseInv ==
  /\ pc \in {"note", "vaddr", "entry"} =>
       /\ HasRoom(transform)
       /\ \A n \in 1..Count : Behind(transform, injected[n])
  /\ pc \in {"vaddr", "entry"} => FirstNote(transform.phdr_file_offset)
  /\ pc = "entry" => \E o \in Slots : /\ LastLoad(o)
                                      /\ transform.virtual_addr = Align(EndOf(mem[o]))

(* Whatever has been injected, and is being injected, is there.            *)
HasCode(n, t) == \A k \in 0..(t.code_len - 1) : mem[t.code_file_offset + k] = Code(n, k)
CodeInv ==
  /\ \A n \in 1..Count : HasCode(n, injected[n])
  /\ pc \in {"note", "vaddr", "entry"} => HasCode(Count + 1, transform)

(* The parsed bytes that no injection has overwritten.                     *)
ParsedInv ==
  /\ Overwritten \subseteq NoteCells
  /\ \A o \in Overwritten, n \in NoteCells : n < o => n \in Overwritten
  /\ \A o \in 0..(image.length - 1) : o \in Overwritten \/ mem[o] = ParsedCell(o)

(* What is left to write are calls of lseek and write.                     *)
CellRuns == UNION {[0..(n - 1) -> Cells] : n \in Nat}
Calls == [at : Nat \cup {Here}, cells : CellRuns]
TodoInv == todo \in Seq(Calls)

IInv ==
  TypeOK /\ Layout /\ WrapperInv /\ InjectedInv /\ PhaseInv /\ CodeInv /\ ParsedInv /\ SegmentsDisjoint
    /\ TodoInv

----------------------------------------------------------------------------
(* Operators of the model.                                                 *)

LEMMA Multiple ==
  ASSUME NEW q \in Nat, NEW p \in Nat \ {0}
  PROVE  (q * p) % p = 0
OBVIOUS

(* Align rounds up to a page, as long as the sum does not wrap.            *)
LEMMA AlignFacts ==
  ASSUME NEW x \in Nat
  PROVE  /\ Align(x) \in 0..(AddrMod - 1) /\ Align(x) % PAGE = 0
         /\ x + PAGE <= AddrMod => Align(x) >= x
<1> DEFINE y == (x + PAGE - 1) % AddrMod
           q == y \div PAGE
<1>1. PAGE \in Nat \ {0} /\ AddrMod \in Nat \ {0}
  BY BoundsAssumption DEF ObjectMod
<1>2. y \in 0..(AddrMod - 1) /\ (x + PAGE <= AddrMod => y = x + PAGE - 1)
  BY <1>1
<1> HIDE DEF y
<1>3. q \in Nat /\ q * PAGE <= y /\ y - q * PAGE < PAGE /\ q * PAGE \in Nat
  BY <1>1, <1>2
<1>4. (q * PAGE) % PAGE = 0
  BY <1>1, <1>3, Multiple
<1>5. Align(x) = q * PAGE
  BY DEF Align, y
<1> HIDE DEF q
<1> DEFINE a == q * PAGE
<1>6. a \in Nat /\ a <= y /\ y - a < PAGE /\ a % PAGE = 0
  BY <1>3, <1>4
<1> HIDE DEF a
<1>7. a \in 0..(AddrMod - 1) /\ (x + PAGE <= AddrMod => a >= x)
  BY <1>1, <1>2, <1>6
<1>8. QED
  BY <1>5, <1>6, <1>7 DEF a

LEMMA ImageFacts ==
  ASSUME image \in Images
  PROVE  /\ image.phoff \in Nat /\ N \in Nat /\ image.shoff \in Nat
         /\ image.phoff + N <= image.length /\ image.shoff + Len(image.shdr) <= image.length
         /\ image.length \in 0..(ObjectMod - 1) /\ image.length \in Nat
         /\ image.entries \in Seq(Entries) /\ \A j \in 1..N : image.entries[j] \in Entries
         /\ image.shdr \in Seq([sh_offset : Nat, sh_size : Nat]) /\ Len(image.shdr) \in Nat
         /\ Slots \subseteq 0..(image.length - 1)
<1>1. IsImage(image)
  BY ImagesAssumption
<1>2. image.entries \in Seq(Entries) /\ image.shdr \in Seq([sh_offset : Nat, sh_size : Nat])
  BY <1>1 DEF IsImage
<1>3. N \in Nat /\ Len(image.shdr) \in Nat
  BY <1>2, LenProperties DEF N
<1>4. /\ image.phoff \in Nat /\ image.shoff \in Nat
      /\ image.phoff + N <= image.length /\ image.shoff + Len(image.shdr) <= image.length
      /\ image.length \in 0..(ObjectMod - 1) /\ image.length \in Nat
  BY <1>1 DEF IsImage, N
<1>5. \A j \in 1..N : image.entries[j] \in Entries
  BY <1>2 DEF N
<1>6. Slots \subseteq 0..(image.length - 1)
  BY <1>3, <1>4 DEF Slots
<1>7. QED
  BY <1>2, <1>3, <1>4, <1>5, <1>6

LEMMA ObjectFacts ==
  /\ PAGE \in Nat \ {0} /\ AddrMod \in Nat \ {0} /\ ObjectMod \in Nat \ {0}
  /\ \A x \in 0..(ObjectMod - 1) : x + PAGE <= AddrMod
  /\ CodeLens \subseteq Nat
BY BoundsAssumption DEF ObjectMod

(* The slots and the entries count alike.                                  *)
LEMMA SlotOf ==
  ASSUME image \in Images
  PROVE  /\ \A o \in Slots : /\ o - image.phoff + 1 \in 1..N
                             /\ o = image.phoff + (o - image.phoff + 1) - 1
                             /\ ParsedCell(o) = image.entries[o - image.phoff + 1]
         /\ \A j \in 1..N : /\ image.phoff + j - 1 \in Slots
                            /\ image.phoff + j - 1 - image.phoff + 1 = j
                            /\ Table[j] = mem[image.phoff + j - 1]
         /\ Len(Table) = N
<1>1. image.phoff \in Nat /\ N \in Nat
  BY ImageFacts
<1>2. QED
  BY <1>1 DEF Slots, N, PhdrCells, ParsedCell, Table

----------------------------------------------------------------------------
(* Which steps touch the image.                                            *)
Still == UNCHANGED <<image, mem, length, phdr, injected, unlisted>>

LEMMA Touches ==
  ASSUME [Next]_vars
  PROVE  image' = image /\ (AppendCode \/ WriteEntry \/ Still)
<1> USE DEF bin, output, history, Still
<1>1. Next => \/ Inject \/ AppendNoMemory \/ AppendCode \/ FindNote \/ NoNote \/ GetVaddr \/ NoLoad
              \/ WriteEntry \/ OpenFails \/ BufferFails \/ WriteBegin \/ WriteStep
              \/ WriteStepFails \/ WriteEnd \/ Finished
  BY DEF Next, InjectionStep, WritingStep
<1>2. CASE AppendCode
  BY <1>2 DEF AppendCode
<1>3. CASE WriteEntry
  BY <1>3 DEF WriteEntry
<1>4. CASE UNCHANGED vars
  BY <1>4 DEF vars
<1>5. CASE Inject \/ OpenFails \/ BufferFails \/ WriteBegin
  BY <1>5 DEF Inject, OpenFails, BufferFails, WriteBegin, BeginWrite
<1>6. CASE AppendNoMemory \/ FindNote \/ NoNote \/ GetVaddr \/ NoLoad
  BY <1>6 DEF AppendNoMemory, FindNote, NoNote, GetVaddr, NoLoad
<1>7. CASE WriteStep \/ WriteStepFails \/ WriteEnd
  BY <1>7 DEF WriteStep, WriteStepFails, WriteEnd
<1>8. QED
  BY <1>1, <1>2, <1>3, <1>4, <1>5, <1>6, <1>7 DEF Finished

LEMMA CellKinds ==
  /\ Entries \subseteq Cells /\ Junk \in Cells /\ Zero \in Cells
  /\ \A n, k \in Nat : Code(n, k) \in Cells
  /\ \A o \in Nat : Old(o) \in Cells
BY DEF Cells, Code, Old

LEMMA TypesOnly == TypeOK => Typed
BY DEF TypeOK, Typed, Wrapper

(* elftool_append_code leaves what was there and puts the code behind it.  *)
LEMMA Appended ==
  ASSUME Typed, Layout, AppendCode
  PROVE  /\ mem' = [o \in 0..(length' - 1) |-> mem'[o]] /\ length' \in length..(ObjectMod - 1)
         /\ \A o \in 0..(length - 1) : mem'[o] = mem[o]
         /\ transform' \in Transforms /\ transform'.code_file_offset % PAGE = 0
         /\ transform'.code_file_offset >= length
         /\ transform'.code_file_offset + transform'.code_len = length'
         /\ \A k \in 0..(transform'.code_len - 1) :
              mem'[transform'.code_file_offset + k] = Code(Count + 1, k)
         /\ \A o \in length..(length' - 1) :
              mem'[o] = Junk \/ \E k \in Nat : mem'[o] = Code(Count + 1, k)
<1> DEFINE off == Align(length)
           n == transform.code_len
<1>1. /\ length \in Nat /\ length \in 0..(ObjectMod - 1) /\ transform \in Transforms
      /\ n \in Nat /\ Count \in Nat
  BY ImageFacts, LenProperties DEF Typed, Layout, Transforms, Count
<1>2. off \in Nat /\ off % PAGE = 0 /\ off >= length /\ off + n < ObjectMod
  <2>1. length + PAGE <= AddrMod
    BY <1>1, ObjectFacts
  <2>2. off \in 0..(AddrMod - 1) /\ off % PAGE = 0 /\ off >= length
    BY <1>1, <2>1, AlignFacts
  <2>3. off + n < ObjectMod
    BY DEF AppendCode, Allocatable
  <2>4. QED
    BY <2>2, <2>3, ObjectFacts
<1> HIDE DEF off
<1>3. /\ mem' = [o \in 0..(off + n - 1) |->
                   IF o < length THEN mem[o]
                   ELSE IF o < off THEN Junk ELSE Code(Count + 1, o - off)]
      /\ transform' = [transform EXCEPT !.code_file_offset = off]
      /\ length' = off + n
  BY DEF AppendCode, off, Count
<1>4. transform' \in Transforms /\ transform'.code_file_offset = off /\ transform'.code_len = n
  BY <1>1, <1>2, <1>3 DEF Transforms
<1> HIDE DEF n
<1>5. mem' = [o \in 0..(length' - 1) |-> mem'[o]]
  <2>1. mem' = [o \in 0..(off + n - 1) |-> mem'[o]]
    BY <1>3
  <2>2. 0..(length' - 1) = 0..(off + n - 1)
    BY <1>1, <1>2, <1>3
  <2>3. QED
    BY <2>1, <2>2
<1>6. \A o \in 0..(length - 1) : mem'[o] = mem[o]
  BY <1>1, <1>2, <1>3
<1>7. ASSUME NEW k \in 0..(n - 1) PROVE mem'[off + k] = Code(Count + 1, k)
  <2>1. off + k \in 0..(off + n - 1) /\ ~(off + k < length) /\ ~(off + k < off) /\ (off + k) - off = k
    BY <1>1, <1>2
  <2>2. QED
    BY <1>3, <2>1
<1>8. length' \in length..(ObjectMod - 1)
  BY <1>1, <1>2, <1>3, ObjectFacts DEF n
<1>9. ASSUME NEW o \in length..(length' - 1)
      PROVE  mem'[o] = Junk \/ \E k \in Nat : mem'[o] = Code(Count + 1, k)
  <2>1. o \in 0..(off + n - 1) /\ ~(o < length)
    BY <1>1, <1>2, <1>3, <1>8 DEF n
  <2>2. CASE o < off
    BY <1>3, <2>1, <2>2
  <2>3. CASE ~(o < off)
    <3>1. mem'[o] = Code(Count + 1, o - off) /\ o - off \in Nat
      BY <1>2, <1>3, <2>1, <2>3
    <3>2. QED
      BY <3>1
  <2>4. QED
    BY <2>2, <2>3
<1>10. QED
  BY <1>2, <1>3, <1>4, <1>5, <1>6, <1>7, <1>8, <1>9

(* The entry written last replaces the note found, and nothing else.       *)
LEMMA Written1 ==
  ASSUME Typed, Layout, PhaseInv, WriteEntry
  PROVE  LET t == transform
             new == Entry("LOAD", t.code_file_offset, t.virtual_addr, t.code_len, t.code_len)
         IN  /\ new \in Entries /\ t.phdr_file_offset \in Slots
             /\ mem' = [o \in 0..(length - 1) |-> mem'[o]]
             /\ mem'[t.phdr_file_offset] = new
             /\ \A o \in 0..(length - 1) : o # t.phdr_file_offset => mem'[o] = mem[o]
             /\ injected' \in Seq(Transforms) /\ Count' = Count + 1 /\ Count \in Nat
             /\ injected'[Count + 1] = t /\ \A n \in 1..Count : injected'[n] = injected[n]
<1> DEFINE t == transform
           new == Entry("LOAD", t.code_file_offset, t.virtual_addr, t.code_len, t.code_len)
<1>1. /\ t \in Transforms /\ injected \in Seq(Transforms) /\ mem = [o \in 0..(length - 1) |-> mem[o]]
      /\ length \in Nat /\ image.length <= length /\ AddrMod \in Nat
      /\ Slots \subseteq 0..(image.length - 1) /\ image.length \in Nat /\ Count \in Nat
  BY ImageFacts, ObjectFacts, LenProperties DEF Typed, Layout, Count
<1>2. new \in Entries
  <2>1. /\ t.code_file_offset \in Nat /\ t.virtual_addr \in Nat /\ t.code_len \in Nat
    BY <1>1 DEF Transforms
  <2>2. QED
    BY <2>1 DEF Entry, Entries
<1>3. t.phdr_file_offset \in Slots /\ t.phdr_file_offset \in 0..(length - 1)
  <2>1. t.phdr_file_offset \in Slots
    BY DEF PhaseInv, FirstNote, WriteEntry
  <2>2. Slots \subseteq 0..(length - 1)
    BY <1>1
  <2>3. QED
    BY <2>1, <2>2, Zenon
<1>4. mem' = [mem EXCEPT ![t.phdr_file_offset] = new] /\ injected' = Append(injected, t)
  BY DEF WriteEntry
<1> HIDE DEF new, t
<1>5. /\ mem' = [o \in 0..(length - 1) |-> mem'[o]]
      /\ mem'[t.phdr_file_offset] = new
      /\ \A o \in 0..(length - 1) : o # t.phdr_file_offset => mem'[o] = mem[o]
  BY <1>1, <1>3, <1>4
<1>6. /\ injected' \in Seq(Transforms) /\ Count' = Count + 1
      /\ injected'[Count + 1] = t /\ \A n \in 1..Count : injected'[n] = injected[n]
  BY <1>1, <1>4, AppendProperties DEF Count
<1>7. QED
  BY <1>1, <1>2, <1>3, <1>5, <1>6 DEF new, t

----------------------------------------------------------------------------
(* The image.                                                              *)

(* What every step keeps of the image: it grows, and its table stays one.  *)
LEMMA LayoutStep ==
  ASSUME Typed, Layout, PhaseInv, [Next]_vars
  PROVE  Layout' /\ Slots' = Slots /\ N' = N /\ mem' = [o \in 0..(length' - 1) |-> mem'[o]]
<1>1. image' = image /\ Slots' = Slots /\ N' = N
  BY Touches DEF Slots, N
<1>2. /\ length \in image.length..(ObjectMod - 1) /\ image.length \in Nat /\ length \in Nat
      /\ Slots \subseteq 0..(image.length - 1) /\ mem = [o \in 0..(length - 1) |-> mem[o]]
      /\ \A o \in Slots : mem[o] \in Entries
  BY ImageFacts DEF Typed, Layout
<1>3. Slots \subseteq 0..(length - 1)
  BY <1>2
<1>4. CASE AppendCode
  <2>1. /\ mem' = [o \in 0..(length' - 1) |-> mem'[o]] /\ length' \in length..(ObjectMod - 1)
        /\ \A o \in 0..(length - 1) : mem'[o] = mem[o]
    BY <1>4, Appended
  <2>2. length' \in image.length..(ObjectMod - 1)
    BY <1>2, <2>1, ObjectFacts
  <2>3. \A o \in Slots : mem'[o] \in Entries
    BY <1>2, <1>3, <2>1
  <2>4. QED
    BY <1>1, <2>1, <2>2, <2>3 DEF Layout
<1>5. CASE WriteEntry
  <2>1. length' = length
    BY <1>5 DEF WriteEntry
  <2>2. \A o \in Slots : mem'[o] \in Entries
    BY <1>2, <1>3, <1>5, Written1
  <2>3. mem' = [o \in 0..(length - 1) |-> mem'[o]]
    BY <1>5, Written1
  <2>4. QED
    BY <1>1, <1>2, <2>1, <2>2, <2>3 DEF Layout
<1>6. CASE Still
  BY <1>1, <1>2, <1>6 DEF Still, Layout
<1>7. QED
  BY <1>4, <1>5, <1>6, Touches

LEMMA WrapperStep ==
  ASSUME Typed, Layout, WrapperInv, PhaseInv, [Next]_vars
  PROVE  WrapperInv' /\ phdr' \in Seq(Wrapper)
<1>1. /\ image' = image /\ N' = N /\ N \in Nat /\ phdr \in Seq(Wrapper) /\ Len(phdr) \in Nat
      /\ Count \in Nat
  BY Touches, ImageFacts, LenProperties DEF Typed, N, Wrapper, Count
<1>2. CASE AppendCode
  <2>1. phdr' = phdr /\ injected' = injected /\ unlisted' = unlisted
    BY <1>2 DEF AppendCode, history
  <2>2. QED
    BY <1>1, <2>1 DEF WrapperInv, Count
<1>3. CASE Still
  BY <1>1, <1>3 DEF Still, WrapperInv, Count
<1>4. CASE WriteEntry
  <2> DEFINE t == transform
             w == [idx |-> Len(image.entries) - 1, p_offset |-> t.phdr_file_offset,
                   mem_offset |-> t.code_file_offset]
  <2>1. /\ t.phdr_file_offset \in Slots /\ Count' = Count + 1
        /\ injected'[Count + 1] = t /\ \A n \in 1..Count : injected'[n] = injected[n]
    BY <1>4, Written1
  <2>2. w \in Wrapper /\ Lists(w, t)
    <3>1. t.phdr_file_offset \in Nat /\ t.code_file_offset \in Nat
      BY DEF Typed, Transforms
    <3>2. Len(image.entries) - 1 \in Nat
      <4>1. image.phoff \in Nat /\ N \in Nat
        BY ImageFacts DEF Typed
      <4>2. N >= 1
        BY <2>1, <4>1 DEF Slots
      <4>3. QED
        BY <4>1, <4>2 DEF N
    <3>3. QED
      BY <3>1, <3>2 DEF Wrapper, Lists
  <2>3. PICK stored \in BOOLEAN : /\ phdr' = IF stored THEN Append(phdr, w) ELSE phdr
                                 /\ unlisted' = (unlisted \/ ~stored)
    BY <1>4 DEF WriteEntry
  <2> HIDE DEF w, t
  <2>4. /\ Len(phdr) >= N
        /\ \A j \in 1..N : /\ phdr[j].p_offset = image.phoff + j - 1
                           /\ phdr[j].mem_offset = image.entries[j].p_offset
        /\ \A j \in (N + 1)..Len(phdr) : \E i \in 1..Count : Lists(phdr[j], injected[i])
        /\ ~unlisted => \A i \in 1..Count : \E j \in (N + 1)..Len(phdr) : Lists(phdr[j], injected[i])
    BY DEF WrapperInv
  <2>5. \A i : i \in 1..(Count + 1) <=> i \in 1..Count \/ i = Count + 1
    BY <1>1
  <2>6. CASE stored
    <3>1. /\ phdr' \in Seq(Wrapper) /\ Len(phdr') = Len(phdr) + 1 /\ phdr'[Len(phdr) + 1] = w
          /\ \A j \in 1..Len(phdr) : phdr'[j] = phdr[j]
      BY <1>1, <2>2, <2>3, <2>6, AppendProperties
    <3>2. \A j \in 1..N : phdr'[j] = phdr[j]
      BY <1>1, <2>4, <3>1
    <3>3. \A j : j \in (N + 1)..Len(phdr') <=> j \in (N + 1)..Len(phdr) \/ j = Len(phdr) + 1
      BY <1>1, <2>4, <3>1
    <3>4. \A j \in (N + 1)..Len(phdr) : phdr'[j] = phdr[j]
      BY <1>1, <3>1
    <3>5. ASSUME NEW j \in (N + 1)..Len(phdr')
          PROVE  \E i \in 1..(Count + 1) : Lists(phdr'[j], injected'[i])
      <4>1. CASE j \in (N + 1)..Len(phdr)
        <5>1. PICK i \in 1..Count : Lists(phdr[j], injected[i])
          BY <2>4, <4>1
        <5>2. QED
          BY <2>1, <2>5, <3>4, <4>1, <5>1
      <4>2. CASE j = Len(phdr) + 1
        BY <2>1, <2>2, <2>5, <3>1, <4>2
      <4>3. QED
        BY <3>3, <4>1, <4>2
    <3>6. ASSUME ~unlisted', NEW i \in 1..(Count + 1)
          PROVE  \E j \in (N + 1)..Len(phdr') : Lists(phdr'[j], injected'[i])
      <4>1. CASE i \in 1..Count
        <5>1. PICK j \in (N + 1)..Len(phdr) : Lists(phdr[j], injected[i])
          BY <2>3, <2>4, <3>6, <4>1
        <5>2. QED
          BY <2>1, <3>3, <3>4, <4>1, <5>1
      <4>2. CASE i = Count + 1
        BY <2>1, <2>2, <3>1, <3>3, <4>2
      <4>3. QED
        BY <2>5, <4>1, <4>2
    <3>7. Len(phdr') >= N
      BY <1>1, <2>4, <3>1
    <3>8. QED
      BY <1>1, <2>1, <2>4, <3>1, <3>2, <3>5, <3>6, <3>7 DEF WrapperInv
  <2>7. CASE ~stored
    <3>1. phdr' = phdr /\ unlisted'
      BY <2>3, <2>7
    <3>2. ASSUME NEW j \in (N + 1)..Len(phdr)
          PROVE  \E i \in 1..(Count + 1) : Lists(phdr[j], injected'[i])
      <4>1. PICK i \in 1..Count : Lists(phdr[j], injected[i])
        BY <2>4
      <4>2. QED
        BY <2>1, <2>5, <4>1
    <3>3. QED
      BY <1>1, <2>1, <2>4, <3>1, <3>2 DEF WrapperInv
  <2>8. QED
    BY <2>6, <2>7
<1>5. QED
  BY <1>2, <1>3, <1>4, Touches

LEMMA InjectedStep ==
  ASSUME Typed, Layout, InjectedInv, PhaseInv, [Next]_vars
  PROVE  InjectedInv'
<1>1. /\ image' = image /\ Slots' = Slots /\ length \in Nat /\ image.length \in Nat
      /\ Slots \subseteq 0..(image.length - 1) /\ image.length <= length /\ Count \in Nat
      /\ injected \in Seq(Transforms)
  <2>1. image \in Images /\ injected \in Seq(Transforms) /\ length \in Nat /\ image.length <= length
    BY ImageFacts DEF Typed, Layout
  <2>2. Count \in Nat
    BY <2>1, LenProperties DEF Count
  <2>3. image' = image /\ Slots' = Slots
    BY LayoutStep, Touches
  <2>4. QED
    BY <2>1, <2>2, <2>3, ImageFacts
<1>2. \A n \in 1..Count : /\ injected[n] \in Transforms
                          /\ injected[n].code_file_offset \in Nat /\ injected[n].code_len \in Nat
                          /\ Stands(injected[n]) /\ HasRoom(injected[n])
  <2>1. \A n \in 1..Count : injected[n] \in Transforms
    BY <1>1 DEF Count
  <2>2. \A n \in 1..Count : Stands(injected[n]) /\ HasRoom(injected[n])
    BY DEF InjectedInv
  <2>3. QED
    BY <2>1, <2>2 DEF Transforms
<1>3. \A m, n \in 1..Count : m < n =>
       /\ injected[m].phdr_file_offset # injected[n].phdr_file_offset
       /\ Behind(injected[n], injected[m])
  BY DEF InjectedInv
<1>4. CASE AppendCode
  <2>1. /\ length' \in length..(ObjectMod - 1) /\ injected' = injected
        /\ \A o \in 0..(length - 1) : mem'[o] = mem[o]
    BY <1>4, Appended DEF AppendCode, history
  <2>2. ASSUME NEW n \in 1..Count PROVE Stands(injected[n])' /\ HasRoom(injected[n])'
    <3> DEFINE u == injected[n]
    <3>1. /\ u.code_file_offset \in Nat /\ u.code_len \in Nat /\ Stands(u) /\ HasRoom(u)
      BY <1>2
    <3>2. Stands(u)'
      <4>1. u.phdr_file_offset \in Slots
        BY <3>1 DEF Stands
      <4>2. Slots \subseteq 0..(length - 1)
        BY <1>1
      <4>3. mem'[u.phdr_file_offset] = mem[u.phdr_file_offset]
        BY <2>1, <4>1, <4>2
      <4>4. QED
        BY <1>1, <2>1, <3>1, <4>3 DEF Stands
    <3>3. HasRoom(u)'
      BY <1>1, <2>1, <3>1, ObjectFacts DEF HasRoom
    <3>4. QED
      BY <3>2, <3>3
  <2>3. QED
    BY <1>3, <2>1, <2>2 DEF InjectedInv, Count, Behind
<1>5. CASE Still
  <2>1. \A n \in 1..Count : Stands(injected[n])' /\ HasRoom(injected[n])'
    BY <1>1, <1>2, <1>5 DEF Still, Stands, HasRoom
  <2>2. QED
    BY <1>3, <1>5, <2>1 DEF Still, InjectedInv, Count, Behind
<1>6. CASE WriteEntry
  <2> DEFINE t == transform
             new == Entry("LOAD", t.code_file_offset, t.virtual_addr, t.code_len, t.code_len)
  <2>1. /\ t.phdr_file_offset \in Slots /\ mem'[t.phdr_file_offset] = new
        /\ \A o \in 0..(length - 1) : o # t.phdr_file_offset => mem'[o] = mem[o]
        /\ Count' = Count + 1 /\ injected'[Count + 1] = t
        /\ \A n \in 1..Count : injected'[n] = injected[n]
    BY <1>6, Written1
  <2>2. length' = length /\ pc = "entry"
    BY <1>6 DEF WriteEntry
  <2>3. /\ HasRoom(t) /\ \A n \in 1..Count : Behind(t, injected[n])
        /\ mem[t.phdr_file_offset].p_type = "NOTE" /\ t.virtual_addr % PAGE = 0
        /\ t.code_len \in Nat /\ t.code_file_offset \in Nat
    <3>1. PICK o \in Slots : t.virtual_addr = Align(EndOf(mem[o]))
      BY <2>2 DEF PhaseInv
    <3>2. EndOf(mem[o]) \in Nat
      <4>1. mem[o].p_vaddr \in Nat /\ mem[o].p_memsz \in Nat
        BY DEF Layout, Entries
      <4>2. QED
        BY <4>1, ObjectFacts DEF EndOf
    <3>3. t.virtual_addr % PAGE = 0
      BY <3>1, <3>2, AlignFacts
    <3>4. t.code_len \in Nat /\ t.code_file_offset \in Nat
      BY DEF Typed, Transforms
    <3>5. QED
      BY <2>2, <3>3, <3>4 DEF PhaseInv, FirstNote
  <2>4. \A n \in 1..Count : injected[n].phdr_file_offset # t.phdr_file_offset
    <3>1. ASSUME NEW n \in 1..Count PROVE mem[injected[n].phdr_file_offset].p_type = "LOAD"
      <4>1. Stands(injected[n])
        BY <1>2
      <4>2. QED
        BY <4>1 DEF Stands, Entry
    <3>2. QED
      BY <2>3, <3>1
  <2>5. Slots \subseteq 0..(length - 1)
    BY <1>1
  <2> HIDE DEF new
  <2>6. ASSUME NEW u, HasRoom(u) PROVE HasRoom(u)'
    BY <1>1, <2>2, <2>6 DEF HasRoom
  <2>7. ASSUME NEW n \in 1..Count, NEW u, u = injected[n] PROVE Stands(u)' /\ HasRoom(u)'
    <3>1. mem'[u.phdr_file_offset] = mem[u.phdr_file_offset]
      <4>1. u.phdr_file_offset \in 0..(length - 1)
        BY <1>2, <2>5, <2>7 DEF Stands
      <4>2. QED
        BY <2>1, <2>4, <2>7, <4>1
    <3>2. Stands(u)'
      BY <1>1, <1>2, <2>7, <3>1 DEF Stands
    <3>3. HasRoom(u)'
      BY <1>2, <2>6, <2>7
    <3>4. QED
      BY <3>2, <3>3
  <2>8. ASSUME NEW n, n = Count + 1, NEW u, u = t PROVE Stands(u)' /\ HasRoom(u)'
    <3>1. Stands(u)'
      BY <1>1, <2>1, <2>3, <2>8 DEF Stands, new
    <3>2. HasRoom(u)'
      BY <2>3, <2>6, <2>8
    <3>3. QED
      BY <3>1, <3>2
  <2>9. ASSUME NEW n \in 1..(Count + 1)
        PROVE  Stands(injected[n])' /\ HasRoom(injected[n])'
    <3>1. PICK u : u = injected'[n]
      OBVIOUS
    <3>2. CASE n \in 1..Count
      <4>1. Stands(u)' /\ HasRoom(u)'
        BY <2>1, <2>7, <3>1, <3>2
      <4>2. QED
        BY <3>1, <4>1 DEF Stands, HasRoom
    <3>3. CASE n = Count + 1
      <4>1. Stands(u)' /\ HasRoom(u)'
        BY <2>1, <2>8, <3>1, <3>3
      <4>2. QED
        BY <3>1, <4>1 DEF Stands, HasRoom
    <3>4. QED
      BY <1>1, <3>2, <3>3
  <2>10. ASSUME NEW m \in 1..(Count + 1), NEW n \in 1..(Count + 1), m < n
         PROVE  /\ injected'[m].phdr_file_offset # injected'[n].phdr_file_offset
                /\ Behind(injected'[n], injected'[m])
    <3>1. m \in 1..Count /\ (n \in 1..Count \/ n = Count + 1)
      BY <1>1, <2>10
    <3>2. QED
      BY <1>3, <2>1, <2>3, <2>4, <2>10, <3>1
  <2>11. QED
    BY <2>1, <2>9, <2>10 DEF InjectedInv, Count, Behind
<1>7. QED
  BY <1>4, <1>5, <1>6, Touches
(* The code an injection has put behind the image stays as it is.          *)
LEMMA CodeKept ==
  ASSUME Typed, Layout, PhaseInv, AppendCode \/ WriteEntry,
         NEW n, NEW u \in Transforms, HasRoom(u), HasCode(n, u)
  PROVE  HasCode(n, u)'
<1>1. /\ length \in Nat /\ image.length \in Nat /\ image.length <= length
      /\ Slots \subseteq 0..(image.length - 1)
      /\ u.code_file_offset \in Nat /\ u.code_len \in Nat
  BY ImageFacts DEF Typed, Layout, Transforms
<1>2. ASSUME NEW k \in 0..(u.code_len - 1)
      PROVE  mem'[u.code_file_offset + k] = mem[u.code_file_offset + k]
  <2>1. PICK o : o = u.code_file_offset + k
    OBVIOUS
  <2>2. o \in 0..(length - 1) /\ o >= image.length
    BY <1>1, <2>1 DEF HasRoom
  <2>3. CASE AppendCode
    BY <2>1, <2>2, <2>3, Appended
  <2>4. CASE WriteEntry
    <3>1. transform.phdr_file_offset \in Slots
      BY <2>4, Written1
    <3>2. o # transform.phdr_file_offset
      BY <1>1, <2>2, <3>1
    <3>3. QED
      BY <2>1, <2>2, <2>4, <3>2, Written1
  <2>5. QED
    BY <2>3, <2>4
<1>3. QED
  BY <1>2 DEF HasCode

LEMMA CodeStep ==
  ASSUME Typed, Layout, InjectedInv, PhaseInv, CodeInv, [Next]_vars
  PROVE  CodeInv'
<1>1. ASSUME NEW n \in 1..Count
      PROVE  injected[n] \in Transforms /\ HasRoom(injected[n]) /\ HasCode(n, injected[n])
  BY DEF Typed, Count, InjectedInv, CodeInv
<1>2. CASE AppendCode
  <2>1. injected' = injected /\ Count' = Count /\ HasCode(Count + 1, transform)'
    BY <1>2, Appended DEF AppendCode, history, Count, HasCode
  <2>2. ASSUME NEW n \in 1..Count PROVE HasCode(n, injected[n])'
    <3>1. PICK u : u = injected[n]
      OBVIOUS
    <3>2. HasCode(n, u)'
      BY <1>1, <1>2, <3>1, CodeKept
    <3>3. QED
      BY <2>1, <3>1, <3>2 DEF HasCode
  <2>3. QED
    BY <2>1, <2>2 DEF CodeInv, HasCode
<1>3. CASE WriteEntry
  <2>1. /\ Count' = Count + 1 /\ Count \in Nat /\ injected'[Count + 1] = transform
        /\ \A n \in 1..Count : injected'[n] = injected[n]
    BY <1>3, Written1
  <2>2. pc = "entry" /\ pc' = "idle"
    BY <1>3 DEF WriteEntry, Return
  <2>3. transform \in Transforms /\ HasRoom(transform) /\ HasCode(Count + 1, transform)
    BY <2>2 DEF Typed, PhaseInv, CodeInv
  <2>4. ASSUME NEW n \in 1..(Count + 1) PROVE HasCode(n, injected[n])'
    <3>1. PICK u : u = injected'[n]
      OBVIOUS
    <3>2. u \in Transforms /\ HasRoom(u) /\ HasCode(n, u)
      BY <1>1, <2>1, <2>3, <3>1
    <3>3. HasCode(n, u)'
      BY <1>3, <3>2, CodeKept
    <3>4. QED
      BY <3>1, <3>3 DEF HasCode
  <2>5. QED
    BY <2>1, <2>2, <2>4 DEF CodeInv
<1>4. CASE Still /\ ~AppendCode
  <2>1. \A n \in 1..Count : HasCode(n, injected[n])'
    BY <1>1, <1>4 DEF Still, HasCode
  <2>2. Count' = Count
    BY <1>4 DEF Still, Count
  <2>3. ASSUME pc' \in {"note", "vaddr", "entry"}
        PROVE  /\ pc \in {"note", "vaddr", "entry"}
               /\ transform'.code_len = transform.code_len
               /\ transform'.code_file_offset = transform.code_file_offset
    <3>1. CASE FindNote
      BY <3>1 DEF FindNote, Typed, Transforms
    <3>2. CASE GetVaddr
      BY <3>2 DEF GetVaddr, Typed, Transforms
    <3>3. CASE UNCHANGED vars
      BY <2>3, <3>3 DEF vars
    <3>4. CASE Inject \/ AppendNoMemory \/ NoNote \/ NoLoad \/ WriteEntry \/ WriteEnd
      <4>1. pc' \in {"idle", "append"}
        BY <3>4 DEF Inject, AppendNoMemory, NoNote, NoLoad, WriteEntry, WriteEnd, Return
      <4>2. QED
        BY <2>3, <4>1
    <3>5. CASE OpenFails \/ BufferFails \/ WriteBegin \/ WriteStep \/ WriteStepFails
      <4>1. pc' \in {"idle", "write"}
        BY <3>5 DEF OpenFails, BufferFails, BeginWrite, Return, WriteBegin, WriteStep, WriteStepFails
      <4>2. QED
        BY <2>3, <4>1
    <3>6. QED
      BY <1>4, <3>1, <3>2, <3>3, <3>4, <3>5 DEF Next, InjectionStep, WritingStep, Finished
  <2>4. ASSUME pc' \in {"note", "vaddr", "entry"} PROVE HasCode(Count + 1, transform)'
    <3>1. HasCode(Count + 1, transform)
      BY <2>3, <2>4 DEF CodeInv
    <3>2. QED
      BY <1>4, <2>2, <2>3, <2>4, <3>1 DEF Still, HasCode
  <2>5. QED
    BY <2>1, <2>2, <2>4 DEF CodeInv
<1>5. QED
  BY <1>2, <1>3, <1>4, Touches

----------------------------------------------------------------------------
(* The injection under way.                                                *)

(* Each wrapper reaches a slot, each slot has a wrapper of the parser, and *)
(* what the other wrappers reach is loaded.                                *)
LEMMA WrapperSlots ==
  ASSUME Typed, WrapperInv, InjectedInv
  PROVE  /\ \A j \in 1..Len(phdr) : phdr[j].p_offset \in Slots /\ (j \in 1..N \/ j \in (N + 1)..Len(phdr))
         /\ \A j \in 1..N : j \in 1..Len(phdr) /\ phdr[j].p_offset = image.phoff + j - 1
         /\ \A j \in (N + 1)..Len(phdr) : Ent(phdr[j]).p_type = "LOAD"
         /\ \A o \in Slots : \E j \in 1..N : o = image.phoff + j - 1
<1>1. N \in Nat /\ image.phoff \in Nat /\ Len(phdr) \in Nat /\ Len(phdr) >= N
  BY ImageFacts, LenProperties DEF Typed, WrapperInv
<1>2. \A o \in Slots : \E j \in 1..N : o = image.phoff + j - 1
  <2>1. \A o \in Slots : o - image.phoff + 1 \in 1..N /\ o = image.phoff + (o - image.phoff + 1) - 1
    BY SlotOf DEF Typed
  <2>2. QED
    BY <2>1
<1>3. \A j \in 1..N : j \in 1..Len(phdr) /\ phdr[j].p_offset = image.phoff + j - 1
  BY <1>1 DEF WrapperInv
<1>4. \A j \in 1..N : phdr[j].p_offset \in Slots
  BY <1>1, <1>3, SlotOf DEF Typed
<1>5. ASSUME NEW j \in (N + 1)..Len(phdr)
      PROVE  phdr[j].p_offset \in Slots /\ Ent(phdr[j]).p_type = "LOAD"
  <2>1. PICK i \in 1..Count : Lists(phdr[j], injected[i])
    BY DEF WrapperInv
  <2>2. Stands(injected[i])
    BY DEF InjectedInv
  <2>3. QED
    BY <2>1, <2>2 DEF Lists, Stands, Ent, Entry
<1>6. \A j \in 1..Len(phdr) : j \in 1..N \/ j \in (N + 1)..Len(phdr)
  BY <1>1
<1>7. QED
  BY <1>2, <1>3, <1>4, <1>5, <1>6

LEMMA PhaseStep ==
  ASSUME Typed, Layout, WrapperInv, InjectedInv, PhaseInv, [Next]_vars
  PROVE  PhaseInv'
<1>1. image' = image /\ Slots' = Slots /\ N' = N
  BY LayoutStep, Touches
<1>2. CASE AppendCode
  <2>1. /\ length' \in length..(ObjectMod - 1) /\ injected' = injected /\ Count' = Count
        /\ transform'.code_file_offset % PAGE = 0 /\ transform'.code_file_offset >= length
        /\ transform'.code_file_offset + transform'.code_len = length'
        /\ \A k \in 0..(transform'.code_len - 1) :
              mem'[transform'.code_file_offset + k] = Code(Count + 1, k)
        /\ pc' = "note" /\ transform' \in Transforms
    BY <1>2, Appended DEF AppendCode, history, Count
  <2>2. /\ length \in Nat /\ length >= image.length /\ image.length \in Nat
        /\ transform'.code_file_offset \in Nat
    BY <2>1, ImageFacts DEF Typed, Layout, Transforms
  <2>3. HasRoom(transform)'
    <3>1. transform'.code_file_offset >= image.length
      BY <2>1, <2>2
    <3>2. length' \in Nat
      BY <2>1, <2>2
    <3>3. transform'.code_file_offset + transform'.code_len <= length'
      BY <2>1, <3>2
    <3>4. QED
      BY <1>1, <2>1, <3>1, <3>3 DEF HasRoom
  <2>4. ASSUME NEW n \in 1..Count PROVE Behind(transform', injected[n])
    <3>1. /\ injected[n].code_file_offset \in Nat /\ injected[n].code_len \in Nat
          /\ injected[n].code_file_offset + injected[n].code_len <= length
      <4>1. injected[n] \in Transforms
        BY DEF Typed, Count
      <4>2. HasRoom(injected[n])
        BY DEF InjectedInv
      <4>3. QED
        BY <4>1, <4>2 DEF Transforms, HasRoom
    <3>2. QED
      BY <2>1, <2>2, <3>1 DEF Behind
  <2>5. QED
    BY <2>1, <2>3, <2>4 DEF PhaseInv, Behind
<1>3. CASE FindNote
  <2>1. /\ pc = "note" /\ pc' = "vaddr" /\ UNCHANGED <<image, mem, length, phdr, injected>>
    BY <1>3 DEF FindNote, bin, history
  <2>2. PICK j \in Notes :
          /\ IsFound(j)
          /\ transform' = [transform EXCEPT !.phdr_file_offset = phdr[j].p_offset]
    BY <1>3 DEF FindNote
  <2>3. j \in 1..N /\ image.phoff \in Nat
    <3>1. j \in 1..N \/ j \in (N + 1)..Len(phdr)
      BY WrapperSlots DEF Notes
    <3>2. j \notin (N + 1)..Len(phdr)
      <4>1. Ent(phdr[j]).p_type = "NOTE"
        BY DEF Notes
      <4>2. QED
        BY <4>1, WrapperSlots
    <3>3. QED
      BY <3>1, <3>2, ImageFacts DEF Typed
  <2>4. FirstNote(phdr[j].p_offset)
    <3>1. phdr[j].p_offset \in Slots /\ mem[phdr[j].p_offset].p_type = "NOTE"
      BY WrapperSlots DEF Notes, Ent
    <3>2. ASSUME NEW q \in Slots, q < phdr[j].p_offset, mem[q].p_type = "NOTE" PROVE FALSE
      <4>1. PICK k \in 1..N : q = image.phoff + k - 1
        BY WrapperSlots
      <4>2. k \in Notes
        BY <3>2, <4>1, WrapperSlots DEF Notes, Ent
      <4>3. j <= k /\ phdr[j].p_offset = image.phoff + j - 1
        BY <2>2, <2>3, <4>2, WrapperSlots DEF IsFound
      <4>4. QED
        BY <2>3, <3>2, <4>1, <4>3
    <3>3. QED
      BY <3>1, <3>2 DEF FirstNote
  <2>5. /\ transform'.phdr_file_offset = phdr[j].p_offset
        /\ transform'.code_len = transform.code_len
        /\ transform'.code_file_offset = transform.code_file_offset
    BY <2>2 DEF Typed, Transforms
  <2>6. HasRoom(transform) /\ \A n \in 1..Count : Behind(transform, injected[n])
    BY <2>1 DEF PhaseInv
  <2>7. Count' = Count
    BY <2>1 DEF Count
  <2>8. HasRoom(transform)'
    BY <1>1, <2>1, <2>5, <2>6, <2>7 DEF HasRoom
  <2>9. FirstNote(transform.phdr_file_offset)'
    BY <1>1, <2>1, <2>4, <2>5 DEF FirstNote
  <2>10. QED
    BY <2>1, <2>5, <2>6, <2>7, <2>8, <2>9 DEF PhaseInv, Behind
<1>4. CASE GetVaddr
  <2>1. /\ pc = "vaddr" /\ pc' = "entry" /\ UNCHANGED <<image, mem, length, phdr, injected>>
    BY <1>4 DEF GetVaddr, bin, history
  <2>2. PICK j \in Loads :
          /\ IsLastLoad(j)
          /\ transform' = [transform EXCEPT !.virtual_addr = Align(EndOf(Ent(phdr[j])))]
    BY <1>4 DEF GetVaddr
  <2>3. PICK o : o = phdr[j].p_offset
    OBVIOUS
  <2>4. LastLoad(o)
    <3>1. o \in Slots /\ mem[o].p_type = "LOAD"
      BY <2>3, WrapperSlots DEF Loads, Ent
    <3>2. ASSUME NEW q \in Slots, mem[q].p_type = "LOAD" PROVE mem[q].p_vaddr <= mem[o].p_vaddr
      <4>1. PICK k \in 1..N : q = image.phoff + k - 1
        BY WrapperSlots
      <4>2. k \in Loads /\ Ent(phdr[k]) = mem[q] /\ Ent(phdr[j]) = mem[o]
        BY <2>3, <3>2, <4>1, WrapperSlots DEF Loads, Ent
      <4>3. mem[q].p_vaddr \in Nat /\ mem[o].p_vaddr \in Nat
        BY <3>1 DEF Layout, Entries
      <4>4. QED
        BY <2>2, <4>2, <4>3 DEF IsLastLoad
    <3>3. QED
      BY <3>1, <3>2 DEF LastLoad
  <2>5. /\ transform'.virtual_addr = Align(EndOf(mem[o]))
        /\ transform'.code_len = transform.code_len
        /\ transform'.code_file_offset = transform.code_file_offset
        /\ transform'.phdr_file_offset = transform.phdr_file_offset
    BY <2>2, <2>3 DEF Typed, Transforms, Ent
  <2>6. /\ HasRoom(transform) /\ \A n \in 1..Count : Behind(transform, injected[n])
        /\ FirstNote(transform.phdr_file_offset)
    BY <2>1 DEF PhaseInv
  <2>7. Count' = Count
    BY <2>1 DEF Count
  <2>8. HasRoom(transform)'
    BY <1>1, <2>1, <2>5, <2>6, <2>7 DEF HasRoom
  <2>9. FirstNote(transform.phdr_file_offset)'
    BY <1>1, <2>1, <2>5, <2>6 DEF FirstNote
  <2>10. \E q \in Slots' : LastLoad(q)' /\ transform'.virtual_addr = Align(EndOf(mem'[q]))
    <3>1. o \in Slots' /\ LastLoad(o)' /\ mem'[o] = mem[o]
      BY <1>1, <2>1, <2>4 DEF LastLoad
    <3>2. QED
      BY <2>5, <3>1
  <2>11. QED
    BY <2>1, <2>5, <2>6, <2>7, <2>8, <2>9, <2>10 DEF PhaseInv, Behind
<1>5. CASE UNCHANGED vars
  BY <1>1, <1>5 DEF vars, PhaseInv, Count, HasRoom, FirstNote, LastLoad
<1>6. CASE Inject \/ AppendNoMemory \/ NoNote \/ NoLoad \/ WriteEntry \/ WriteEnd
  <2>1. pc' \in {"idle", "append"}
    BY <1>6 DEF Inject, AppendNoMemory, NoNote, NoLoad, WriteEntry, WriteEnd, Return
  <2>2. QED
    BY <2>1 DEF PhaseInv
<1>7. CASE OpenFails \/ BufferFails \/ WriteBegin \/ WriteStep \/ WriteStepFails
  <2>1. pc' \in {"idle", "write"}
    BY <1>7 DEF OpenFails, BufferFails, BeginWrite, Return, WriteBegin, WriteStep, WriteStepFails
  <2>2. QED
    BY <2>1 DEF PhaseInv
<1>8. QED
  BY <1>2, <1>3, <1>4, <1>5, <1>6, <1>7
     DEF Next, InjectionStep, WritingStep, Finished

----------------------------------------------------------------------------
(* The parsed bytes and the segments.                                      *)

LEMMA OverwrittenGrows ==
  ASSUME Typed, Layout, PhaseInv, WriteEntry
  PROVE  \A o : o \in Overwritten' <=> o \in Overwritten \/ o = transform.phdr_file_offset
<1>1. /\ Count' = Count + 1 /\ Count \in Nat /\ injected'[Count + 1] = transform
      /\ \A n \in 1..Count : injected'[n] = injected[n]
  BY Written1
<1>2. \A n : n \in 1..(Count + 1) <=> n \in 1..Count \/ n = Count + 1
  BY <1>1
<1>3. Overwritten' = {injected'[n].phdr_file_offset : n \in 1..(Count + 1)}
  BY <1>1 DEF Overwritten, Count
<1>4. Overwritten = {injected[n].phdr_file_offset : n \in 1..Count}
  BY DEF Overwritten, Count
<1> HIDE DEF Count
<1>5. QED
  BY <1>1, <1>2, <1>3, <1>4

LEMMA ParsedStep ==
  ASSUME Typed, Layout, InjectedInv, PhaseInv, ParsedInv, [Next]_vars
  PROVE  ParsedInv'
<1>1. image' = image /\ NoteCells' = NoteCells /\ \A o : ParsedCell(o)' = ParsedCell(o)
  BY Touches DEF NoteCells, PhdrCells, ParsedCell
<1>2. length \in Nat /\ image.length <= length /\ image.length \in Nat
  BY ImageFacts DEF Typed, Layout
<1>3. CASE AppendCode
  <2>1. Overwritten' = Overwritten
    BY <1>3 DEF AppendCode, history, Overwritten
  <2>2. \A o \in 0..(image.length - 1) : mem'[o] = mem[o]
    BY <1>2, <1>3, Appended
  <2>3. QED
    BY <1>1, <2>1, <2>2 DEF ParsedInv
<1>4. CASE Still
  BY <1>1, <1>4 DEF Still, Overwritten, ParsedInv
<1>5. CASE WriteEntry
  <2> DEFINE slot == transform.phdr_file_offset
  <2>1. FirstNote(slot)
    BY <1>5 DEF WriteEntry, PhaseInv
  <2>2. \A o : o \in Overwritten' <=> o \in Overwritten \/ o = slot
    BY <1>5, OverwrittenGrows
  <2>3. \A o \in 0..(image.length - 1) : o # slot => mem'[o] = mem[o]
    BY <1>2, <1>5, Written1
  <2>4. Slots \subseteq 0..(image.length - 1) /\ NoteCells \subseteq Slots
    BY ImageFacts DEF Typed, NoteCells, PhdrCells, Slots, N
  <2>5. \A o \in Slots : /\ o \in NoteCells <=> ParsedCell(o).p_type = "NOTE"
                         /\ o \in Overwritten \/ mem[o] = ParsedCell(o)
    BY <2>4, SlotOf DEF Typed, NoteCells, PhdrCells, Slots, N, ParsedInv
  <2>6. ASSUME NEW o \in Overwritten PROVE mem[o].p_type = "LOAD"
    <3>1. PICK n \in 1..Count : o = injected[n].phdr_file_offset
      BY DEF Overwritten, Count
    <3>2. Stands(injected[n])
      BY DEF InjectedInv
    <3>3. QED
      BY <3>1, <3>2 DEF Stands, Entry
  <2> HIDE DEF slot
  <2>7. slot \in NoteCells
    BY <2>1, <2>5, <2>6 DEF FirstNote
  <2>8. ASSUME NEW n \in NoteCells, n < slot PROVE n \in Overwritten
    BY <2>1, <2>4, <2>5, <2>8 DEF FirstNote
  <2>9. Overwritten' \subseteq NoteCells
    BY <2>2, <2>7 DEF ParsedInv
  <2>10. \A o \in Overwritten', n \in NoteCells : n < o => n \in Overwritten'
    BY <2>2, <2>8 DEF ParsedInv
  <2>11. \A o \in 0..(image.length - 1) : o \in Overwritten' \/ mem'[o] = ParsedCell(o)
    BY <2>2, <2>3 DEF ParsedInv
  <2>12. QED
    BY <1>1, <2>9, <2>10, <2>11 DEF ParsedInv
<1>6. QED
  BY <1>3, <1>4, <1>5, Touches

(* The page behind the last segment lies behind every other one.           *)
LEMMA BehindAll ==
  ASSUME NEW e \in Entries, NEW last \in Entries,
         e.p_vaddr <= last.p_vaddr, Disjoint(e, last) \/ e = last, last.p_memsz > 0,
         last.p_vaddr + last.p_memsz + PAGE <= AddrMod
  PROVE  e.p_vaddr + e.p_memsz <= Align(EndOf(last))
<1>1. /\ e.p_vaddr \in Nat /\ e.p_memsz \in Nat
      /\ last.p_vaddr \in Nat /\ last.p_memsz \in Nat
  BY DEF Entries
<1>2. EndOf(last) = last.p_vaddr + last.p_memsz
  BY <1>1, ObjectFacts DEF EndOf
<1>3. Align(EndOf(last)) >= last.p_vaddr + last.p_memsz /\ Align(EndOf(last)) \in Nat
  BY <1>1, <1>2, AlignFacts, ObjectFacts
<1>4. e.p_vaddr + e.p_memsz <= last.p_vaddr + last.p_memsz
  BY <1>1 DEF Disjoint
<1> QED
  BY <1>1, <1>3, <1>4

(* The address found for the code lies behind every segment.               *)
LEMMA AddressFound ==
  ASSUME Typed, Layout, WrapperInv, InjectedInv, PhaseInv, pc = "entry",
         Fits, NoneEmpty, AllDisjoint(Table), NEW j \in 1..N, Table[j].p_type = "LOAD"
  PROVE  Table[j].p_vaddr + Table[j].p_memsz <= transform.virtual_addr
<1>1. PICK o \in Slots : LastLoad(o) /\ transform.virtual_addr = Align(EndOf(mem[o]))
  BY DEF PhaseInv
<1>2. PICK l \in 1..N : o = image.phoff + l - 1
  BY WrapperSlots
<1>3. /\ Table \in [1..N -> Entries] /\ Len(Table) = N
      /\ \A k \in 1..N : Table[k] = mem[image.phoff + k - 1]
  <2>1. \A k \in 1..N : image.phoff + k - 1 \in Slots
    BY SlotOf DEF Typed
  <2>2. \A p \in Slots : mem[p] \in Entries
    BY DEF Layout
  <2>3. Table = [k \in 1..N |-> mem[image.phoff + k - 1]]
    BY DEF Table, N
  <2>4. QED
    BY <2>1, <2>2, <2>3, SlotOf DEF Typed
<1>4. Table[l] = mem[o] /\ Table[l].p_type = "LOAD"
  BY <1>1, <1>2, <1>3 DEF LastLoad
<1>5. Table[j].p_vaddr <= Table[l].p_vaddr
  <2>1. PICK p : p = image.phoff + j - 1
    OBVIOUS
  <2>2. p \in Slots /\ Table[j] = mem[p]
    BY <1>3, <2>1, SlotOf DEF Typed
  <2>3. QED
    BY <1>1, <1>4, <2>2, Zenon DEF LastLoad
<1>6. Table[j] \in Entries /\ Table[l] \in Entries
  BY <1>3
<1>7. Disjoint(Table[j], Table[l]) \/ Table[j] = Table[l]
  BY <1>3, <1>4 DEF AllDisjoint
<1>8. Table[l].p_memsz > 0 /\ Table[l].p_vaddr + Table[l].p_memsz + PAGE <= AddrMod
  BY <1>3, <1>4 DEF Fits, NoneEmpty
<1>9. QED
  BY <1>1, <1>4, <1>5, <1>6, <1>7, <1>8, BehindAll

LEMMA DisjointStep ==
  ASSUME Typed, Layout, WrapperInv, InjectedInv, PhaseInv, SegmentsDisjoint, [Next]_vars
  PROVE  SegmentsDisjoint'
<1>1. image' = image /\ Slots' = Slots /\ Slots \subseteq 0..(length - 1)
  <2>1. image.length \in Nat /\ Slots \subseteq 0..(image.length - 1) /\ length >= image.length
        /\ length \in Nat
    BY ImageFacts DEF Typed, Layout
  <2>2. QED
    BY <2>1, LayoutStep, Touches
<1>2. Table' = [j \in 1..N |-> mem'[image.phoff + j - 1]]
  BY <1>1 DEF Table, N
<1>3. CASE \A o \in Slots : mem'[o] = mem[o]
  <2>1. \A j \in 1..N : mem'[image.phoff + j - 1] = mem[image.phoff + j - 1]
    BY <1>3, SlotOf DEF Typed
  <2>2. Table' = Table
    BY <1>2, <2>1 DEF Table, N
  <2>3. QED
    BY <1>1, <2>2 DEF SegmentsDisjoint, Fits, NoneEmpty, AllDisjoint
<1>4. CASE WriteEntry
  <2> DEFINE slot == transform.phdr_file_offset
             i == slot - image.phoff + 1
  <2> SUFFICES ASSUME AllDisjoint(image.entries), Fits', NoneEmpty' PROVE AllDisjoint(Table)'
    BY <1>1 DEF SegmentsDisjoint
  <2>1. /\ FirstNote(slot) /\ slot \in Slots /\ mem[slot].p_type = "NOTE"
    BY <1>4 DEF WriteEntry, PhaseInv, FirstNote
  <2>2. i \in 1..N /\ slot = image.phoff + i - 1 /\ image.phoff \in Nat /\ N \in Nat
    BY <2>1, SlotOf, ImageFacts DEF Typed
  <2>3. /\ Table \in [1..N -> Entries] /\ Table' \in [1..N -> Entries] /\ Len(Table) = N /\ Len(Table') = N
        /\ \A j \in 1..N : Table[j] = mem[image.phoff + j - 1] /\ Table'[j] = mem'[image.phoff + j - 1]
    <3>1. \A j \in 1..N : image.phoff + j - 1 \in Slots
      BY SlotOf DEF Typed
    <3>2. \A p \in Slots : mem[p] \in Entries /\ mem'[p] \in Entries
      BY <1>1, LayoutStep DEF Layout
    <3>3. Table = [j \in 1..N |-> mem[image.phoff + j - 1]]
      BY DEF Table, N
    <3>4. Len(Table') = N
      BY <1>2, <2>2
    <3>5. QED
      BY <1>2, <3>1, <3>2, <3>3, <3>4, SlotOf DEF Typed
  <2>4. /\ Table'[i] = Entry("LOAD", transform.code_file_offset, transform.virtual_addr,
                             transform.code_len, transform.code_len)
        /\ \A j \in 1..N : j # i => Table'[j] = Table[j]
    <3>1. \A p \in 0..(length - 1) : p # slot => mem'[p] = mem[p]
      BY <1>4, Written1
    <3>2. ASSUME NEW j \in 1..N, j # i
          PROVE  image.phoff + j - 1 # slot /\ image.phoff + j - 1 \in Slots
      <4>1. image.phoff + j - 1 \in Slots
        BY SlotOf DEF Typed
      <4>2. PICK m \in 1..N : m = i /\ slot = image.phoff + m - 1
        BY <2>2
      <4>3. QED
        BY <2>2, <3>2, <4>1, <4>2
    <3>3. \A j \in 1..N : j # i => mem'[image.phoff + j - 1] = mem[image.phoff + j - 1]
      BY <1>1, <3>1, <3>2
    <3>4. mem'[slot] = Entry("LOAD", transform.code_file_offset, transform.virtual_addr,
                             transform.code_len, transform.code_len)
      BY <1>4, Written1
    <3>5. QED
      BY <2>2, <2>3, <3>3, <3>4
  <2> HIDE DEF slot, i
  <2>5. Table[i].p_type = "NOTE"
    BY <2>1, <2>2, <2>3
  <2>6. Fits /\ NoneEmpty
    BY <2>3, <2>4, <2>5 DEF Fits, NoneEmpty
  <2>7. AllDisjoint(Table)
    BY <2>6 DEF SegmentsDisjoint
  <2>8. pc = "entry"
    BY <1>4 DEF WriteEntry
  <2>9. ASSUME NEW j \in 1..N, Table[j].p_type = "LOAD"
         PROVE  Table[j].p_vaddr + Table[j].p_memsz <= transform.virtual_addr
    BY <2>6, <2>7, <2>8, <2>9, AddressFound
  <2>10. ASSUME NEW j \in 1..N, NEW k \in 1..N, j # k,
                Table'[j].p_type = "LOAD", Table'[k].p_type = "LOAD"
         PROVE  Disjoint(Table'[j], Table'[k])
    <3>1. CASE j # i /\ k # i
      BY <2>3, <2>4, <2>7, <2>10, <3>1 DEF AllDisjoint
    <3>2. CASE j = i
      <4>1. Table'[k] = Table[k] /\ Table'[j].p_vaddr = transform.virtual_addr
        BY <2>4, <2>10, <3>2 DEF Entry
      <4>2. QED
        BY <2>9, <2>10, <4>1 DEF Disjoint
    <3>3. CASE k = i
      <4>1. Table'[j] = Table[j] /\ Table'[k].p_vaddr = transform.virtual_addr
        BY <2>4, <2>10, <3>3 DEF Entry
      <4>2. QED
        BY <2>9, <2>10, <4>1 DEF Disjoint
    <3>4. QED
      BY <3>1, <3>2, <3>3
  <2>11. QED
    BY <2>3, <2>10 DEF AllDisjoint
<1>5. AppendCode \/ Still => \A o \in Slots : mem'[o] = mem[o]
  BY <1>1, Appended DEF Still
<1>6. QED
  BY <1>3, <1>4, <1>5, Touches

----------------------------------------------------------------------------
(* The output.                                                             *)

LEMMA ChunkType ==
  ASSUME TypeOK, NEW from \in Nat, NEW n \in Nat
  PROVE  Chunk(from, n) \in [0..(n - 1) -> Cells]
<1>1. length \in Nat /\ mem \in [0..(length - 1) -> Cells] /\ Junk \in Cells
  BY CellKinds DEF TypeOK
<1>2. ASSUME NEW k \in 0..(n - 1)
      PROVE  (IF from + k < length THEN mem[from + k] ELSE Junk) \in Cells
  <2>1. from + k \in Nat
    OBVIOUS
  <2>2. QED
    BY <1>1, <2>1
<1>3. QED
  BY <1>2 DEF Chunk

LEMMA RunsOf ==
  ASSUME NEW n \in Nat, NEW f \in [0..(n - 1) -> Cells]
  PROVE  f \in CellRuns
BY DEF CellRuns

LEMMA CallType ==
  ASSUME TypeOK, NEW at \in Nat \cup {Here}, NEW from \in Nat, NEW n \in Nat
  PROVE  WriteAt(at, from, n) \in Calls
<1>1. Chunk(from, n) \in CellRuns
  BY ChunkType, RunsOf
<1>2. QED
  BY <1>1 DEF WriteAt, Calls

(* A section header that an injection has overwritten is an entry of the   *)
(* program header table, and so are its fields numbers.                    *)
LEMMA HeaderTypes ==
  ASSUME TypeOK, Layout
  PROVE  \A j \in 1..Len(image.shdr) :
           /\ image.shdr[j].sh_offset \in Nat
           /\ ShdrEnt(j).sh_offset \in Nat /\ ShdrEnt(j).sh_size \in Nat
<1>1. image.shdr \in Seq([sh_offset : Nat, sh_size : Nat])
  BY ImageFacts DEF TypeOK
<1>2. SUFFICES ASSUME NEW j \in 1..Len(image.shdr)
               PROVE  /\ image.shdr[j].sh_offset \in Nat
                      /\ ShdrEnt(j).sh_offset \in Nat /\ ShdrEnt(j).sh_size \in Nat
  OBVIOUS
<1>3. image.shdr[j] \in [sh_offset : Nat, sh_size : Nat]
  BY <1>1, ElementOfSeq
<1>4. PICK o : o = image.shoff + j - 1
  OBVIOUS
<1>5. CASE o \in PhdrCells /\ mem[o] # ParsedCell(o)
  <2>1. mem[o] \in Entries
    BY <1>5 DEF Layout, Slots, PhdrCells, N
  <2>2. ShdrEnt(j) = [sh_offset |-> 0, sh_size |-> mem[o].p_filesz]
    BY <1>4, <1>5 DEF ShdrEnt
  <2>3. QED
    BY <1>3, <2>1, <2>2 DEF Entries
<1>6. CASE ~(o \in PhdrCells /\ mem[o] # ParsedCell(o))
  <2>1. ShdrEnt(j) = image.shdr[j]
    BY <1>4, <1>6 DEF ShdrEnt
  <2>2. QED
    BY <1>3, <2>1
<1>7. QED
  BY <1>5, <1>6

LEMMA PartsType ==
  ASSUME TypeOK, Layout, WrapperInv, InjectedInv
  PROVE  /\ ZeroWrite \in Seq(Calls) /\ HeaderWrite \in Seq(Calls)
         /\ PhdrTableWrites \in Seq(Calls) /\ ShdrTableWrites \in Seq(Calls)
         /\ SectionWrites \in Seq(Calls) /\ SegmentWrites \in Seq(Calls)
<1>1. /\ image.phoff \in Nat /\ image.shoff \in Nat /\ length \in Nat
      /\ image.shdr \in Seq([sh_offset : Nat, sh_size : Nat]) /\ Len(image.shdr) \in Nat
      /\ phdr \in Seq(Wrapper) /\ Len(phdr) \in Nat
  BY ImageFacts, LenProperties DEF TypeOK, Wrapper
<1>2. Here \in Nat \cup {Here}
  OBVIOUS
<1>3. ZeroWrite \in Seq(Calls)
  <2>1. Zero \in Cells
    BY CellKinds
  <2>2. [o \in 0..(length - 1) |-> Zero] \in CellRuns
    <3>1. [o \in 0..(length - 1) |-> Zero] \in [0..(length - 1) -> Cells]
      BY <2>1
    <3>2. QED
      BY <1>1, <3>1, RunsOf
  <2>3. [at |-> Here, cells |-> [o \in 0..(length - 1) |-> Zero]] \in Calls
    BY <1>2, <2>2 DEF Calls
  <2>4. QED
    BY <2>3 DEF ZeroWrite
<1>4. HeaderWrite \in Seq(Calls)
  <2>1. WriteAt(Here, 0, 1) \in Calls
    BY <1>2, CallType
  <2>2. QED
    BY <2>1 DEF HeaderWrite
<1>5. PhdrTableWrites \in Seq(Calls)
  <2>1. ASSUME NEW j \in 1..Len(phdr)
        PROVE  WriteAt(TableStart(j, image.phoff), phdr[j].p_offset, 1) \in Calls
    <3>1. phdr[j].p_offset \in Nat /\ TableStart(j, image.phoff) \in Nat \cup {Here}
      <4>1. phdr[j] \in Wrapper
        BY <1>1
      <4>2. QED
        BY <1>1, <4>1 DEF Wrapper, TableStart
    <3>2. QED
      BY <3>1, CallType
  <2>2. QED
    BY <1>1, <2>1, IsASeq DEF PhdrTableWrites
<1>6. ShdrTableWrites \in Seq(Calls)
  <2>1. ASSUME NEW j \in 1..Len(image.shdr)
        PROVE  WriteAt(TableStart(j, image.shoff), image.shoff + j - 1, 1) \in Calls
    <3>1. image.shoff + j - 1 \in Nat /\ TableStart(j, image.shoff) \in Nat \cup {Here}
      BY <1>1 DEF TableStart
    <3>2. QED
      BY <3>1, CallType
  <2>2. QED
    BY <1>1, <2>1, IsASeq DEF ShdrTableWrites
<1>7. SectionWrites \in Seq(Calls)
  <2>1. ASSUME NEW j \in 1..Len(image.shdr)
        PROVE  WriteAt(ShdrEnt(j).sh_offset, image.shdr[j].sh_offset, ShdrEnt(j).sh_size) \in Calls
    BY HeaderTypes, CallType
  <2>2. QED
    BY <1>1, <2>1, IsASeq DEF SectionWrites
<1>8. SegmentWrites \in Seq(Calls)
  <2>1. ASSUME NEW j \in 1..Len(phdr)
        PROVE  WriteAt(Ent(phdr[j]).p_offset, phdr[j].mem_offset, Ent(phdr[j]).p_filesz) \in Calls
    <3>1. Ent(phdr[j]) \in Entries
      BY TypesOnly, WrapperSlots DEF Ent, Layout
    <3>2. /\ Ent(phdr[j]).p_offset \in Nat /\ Ent(phdr[j]).p_filesz \in Nat
          /\ phdr[j].mem_offset \in Nat
      <4>1. phdr[j] \in Wrapper
        BY <1>1
      <4>2. QED
        BY <3>1, <4>1 DEF Entries, Wrapper
    <3>3. QED
      BY <3>2, CallType
  <2>2. QED
    BY <1>1, <2>1, IsASeq DEF SegmentWrites
<1>9. QED
  BY <1>3, <1>4, <1>5, <1>6, <1>7, <1>8

LEMMA WritesType ==
  ASSUME TypeOK, Layout, WrapperInv, InjectedInv
  PROVE  ZeroWrite \o Writes \in Seq(Calls)
BY PartsType, ConcatProperties DEF Writes

LEMMA TodoStep ==
  ASSUME TypeOK, Layout, WrapperInv, InjectedInv, TodoInv, [Next]_vars
  PROVE  TodoInv'
<1>1. CASE WriteBegin
  BY <1>1, WritesType DEF WriteBegin, TodoInv
<1>2. CASE BufferFails
  BY <1>2 DEF BufferFails, TodoInv
<1>3. CASE WriteStep \/ WriteStepFails
  BY <1>3, HeadTailProperties DEF WriteStep, WriteStepFails, TodoInv
<1>4. CASE UNCHANGED todo
  BY <1>4 DEF TodoInv
<1>5. Inject \/ InjectionStep \/ OpenFails \/ WriteEnd \/ Finished \/ UNCHANGED vars => UNCHANGED todo
  BY DEF Inject, InjectionStep, AppendNoMemory, AppendCode, FindNote, NoNote, GetVaddr, NoLoad,
         WriteEntry, OpenFails, WriteEnd, Finished, vars, output
<1>6. QED
  BY <1>1, <1>2, <1>3, <1>4, <1>5 DEF Next, WritingStep

LEMMA RunSize ==
  ASSUME NEW cells \in CellRuns
  PROVE  LET n == Cardinality(DOMAIN cells)
         IN n \in Nat /\ DOMAIN cells = 0..(n - 1) /\ \A k \in 0..(n - 1) : cells[k] \in Cells
<1>1. PICK m \in Nat : cells \in [0..(m - 1) -> Cells]
  BY DEF CellRuns
<1>2. Cardinality(0..(m - 1)) = m
  <2>1. CASE m = 0
    BY <2>1, FS_EmptySet
  <2>2. CASE m > 0
    BY <2>2, FS_Interval
  <2>3. QED
    BY <2>1, <2>2
<1>3. QED
  BY <1>1, <1>2

(* What a write stores: the cells where they go, zeroes in a hole.         *)
LEMMA StoredFacts ==
  ASSUME NEW at \in Nat, NEW cells \in CellRuns
  PROVE  LET n == Cardinality(DOMAIN cells)
             stored == Stored(at, cells)
         IN  /\ n \in Nat
             /\ DOMAIN file \subseteq DOMAIN stored
             /\ \A o \in at..(at + n - 1) : o \in DOMAIN stored /\ stored[o] = cells[o - at] /\ stored[o] \in Cells
             /\ \A o \in DOMAIN stored : o \notin at..(at + n - 1) =>
                  stored[o] = IF o \in DOMAIN file THEN file[o] ELSE Zero
<1> DEFINE n == Cardinality(DOMAIN cells)
           end == IF n = 0 THEN 0 ELSE at + n
<1>1. n \in Nat /\ \A k \in 0..(n - 1) : cells[k] \in Cells
  BY RunSize
<1>2. Stored(at, cells) = [o \in DOMAIN file \cup 0..(end - 1) |->
        IF o \in at..(at + n - 1) THEN cells[o - at]
        ELSE IF o \in DOMAIN file THEN file[o] ELSE Zero]
  BY DEF Stored
<1> HIDE DEF n
<1>3. ASSUME NEW o \in at..(at + n - 1)
      PROVE  o \in 0..(end - 1) /\ o - at \in 0..(n - 1) /\ cells[o - at] \in Cells
  BY <1>1
<1> HIDE DEF end
<1>4. QED
  BY <1>1, <1>2, <1>3 DEF n

LEMMA StoredType ==
  ASSUME TypeOK, NEW at \in Nat, NEW cells \in CellRuns
  PROVE  /\ \A o \in DOMAIN Stored(at, cells) : Stored(at, cells)[o] \in Cells
         /\ at + Cardinality(DOMAIN cells) \in Nat
<1>1. \A o \in DOMAIN file : file[o] \in Cells
  BY DEF TypeOK
<1>2. QED
  BY <1>1, StoredFacts, CellKinds

----------------------------------------------------------------------------
(* Every variable's type.                                                  *)

LEMMA AddressType ==
  ASSUME Typed, Layout, NEW o \in Slots
  PROVE  Align(EndOf(mem[o])) \in 0..(AddrMod - 1)
<1>1. mem[o].p_vaddr \in Nat /\ mem[o].p_memsz \in Nat
  BY DEF Layout, Entries
<1>2. EndOf(mem[o]) \in Nat
  BY <1>1, ObjectFacts DEF EndOf
<1>3. QED
  BY <1>2, AlignFacts

LEMMA TransformType ==
  ASSUME Typed, Layout, WrapperInv, InjectedInv, [Next]_vars
  PROVE  transform' \in Transforms
<1>1. transform \in Transforms /\ 0 \in 0..(AddrMod - 1)
  BY ObjectFacts DEF Typed
<1>2. CASE Inject
  <2>1. PICK n \in CodeLens : transform' = [transform EXCEPT !.code_len = n]
    BY <1>2 DEF Inject
  <2>2. n \in Nat
    BY ObjectFacts
  <2>3. QED
    BY <1>1, <2>1, <2>2 DEF Transforms
<1>3. CASE AppendCode
  BY <1>3, Appended
<1>4. CASE FindNote
  <2>1. PICK j \in Notes : transform' = [transform EXCEPT !.phdr_file_offset = phdr[j].p_offset]
    BY <1>4 DEF FindNote
  <2>2. phdr[j].p_offset \in Nat
    <3>1. phdr[j] \in Wrapper
      BY ElementOfSeq DEF Notes, Typed, Wrapper
    <3>2. QED
      BY <3>1 DEF Wrapper
  <2>3. QED
    BY <1>1, <2>1, <2>2 DEF Transforms
<1>5. CASE GetVaddr
  <2>1. PICK j \in Loads : transform' = [transform EXCEPT !.virtual_addr = Align(EndOf(Ent(phdr[j])))]
    BY <1>5 DEF GetVaddr
  <2>2. PICK o : o = phdr[j].p_offset
    OBVIOUS
  <2>3. o \in Slots
    BY <2>2, WrapperSlots DEF Loads
  <2>4. Align(EndOf(Ent(phdr[j]))) \in 0..(AddrMod - 1)
    BY <2>2, <2>3, AddressType DEF Ent
  <2>5. QED
    BY <1>1, <2>1, <2>4 DEF Transforms
<1>6. CASE NoLoad
  BY <1>1, <1>6 DEF NoLoad, Transforms
<1>7. CASE UNCHANGED transform
  BY <1>1, <1>7
<1>8. \/ Inject \/ AppendCode \/ FindNote \/ GetVaddr \/ NoLoad \/ UNCHANGED transform
  BY DEF Next, InjectionStep, AppendNoMemory, NoNote, WriteEntry, OpenFails, BufferFails, BeginWrite,
         WriteBegin, WritingStep, WriteStep, WriteStepFails, WriteEnd, Finished, vars
<1>9. QED
  BY <1>2, <1>3, <1>4, <1>5, <1>6, <1>7, <1>8

LEMMA ControlType ==
  ASSUME TypeOK, TodoInv, [Next]_vars
  PROVE  /\ pc' \in {"idle", "append", "note", "vaddr", "entry", "write"}
         /\ r' \in {0, -1, ENOMEM, EINVAL, ENOSYS}
         /\ calls' \in 0..MaxCalls /\ failed' \subseteq Nat /\ unlisted' \in BOOLEAN
<1>1. /\ pc \in {"idle", "append", "note", "vaddr", "entry", "write"}
      /\ r \in {0, -1, ENOMEM, EINVAL, ENOSYS}
      /\ calls \in 0..MaxCalls /\ failed \subseteq Nat /\ MaxCalls \in Nat /\ Len(todo) \in Nat
  BY BoundsAssumption DEF TypeOK, TodoInv
<1> USE DEF Return, BeginWrite, bin, output, history
<1>2. CASE Inject \/ OpenFails \/ BufferFails \/ WriteBegin
  <2>1. calls' = calls + 1 /\ calls < MaxCalls /\ (failed' = {} \/ failed' = failed)
    BY <1>2 DEF Inject, OpenFails, BufferFails, WriteBegin
  <2>2. pc' \in {"idle", "append", "write"} /\ r' \in {0, -1, ENOMEM, ENOSYS}
    BY <1>2 DEF Inject, OpenFails, BufferFails, WriteBegin
  <2>3. unlisted' = unlisted
    BY <1>2 DEF Inject, OpenFails, BufferFails, WriteBegin
  <2>4. unlisted' \in BOOLEAN
    BY <2>3 DEF TypeOK
  <2>5. calls' \in 0..MaxCalls
    BY <1>1, <2>1
  <2>7. failed' \subseteq Nat
    BY <1>1, <2>1
  <2>6. QED
    BY <1>1, <2>2, <2>4, <2>5, <2>7
<1>3. CASE AppendNoMemory \/ AppendCode \/ FindNote \/ NoNote \/ GetVaddr \/ NoLoad
  <2>1. calls' = calls /\ failed' = failed /\ unlisted' = unlisted
    BY <1>3 DEF AppendNoMemory, AppendCode, FindNote, NoNote, GetVaddr, NoLoad
  <2>2. pc' \in {"idle", "note", "vaddr", "entry"} /\ r' \in {r, -1, ENOMEM, EINVAL}
    BY <1>3 DEF AppendNoMemory, AppendCode, FindNote, NoNote, GetVaddr, NoLoad
  <2>3. unlisted' \in BOOLEAN
    BY <2>1 DEF TypeOK
  <2>4. QED
    BY <1>1, <2>1, <2>2, <2>3
<1>4. CASE WriteEntry
  <2>1. calls' = calls /\ failed' = failed /\ pc' = "idle" /\ r' = 0
    BY <1>4 DEF WriteEntry
  <2>2. unlisted' \in BOOLEAN
    BY <1>4 DEF WriteEntry
  <2>3. QED
    BY <1>1, <2>1, <2>2
<1>5. CASE WriteStep \/ WriteStepFails \/ WriteEnd
  <2>1. /\ calls' = calls /\ unlisted' = unlisted
        /\ failed' = failed \/ failed' = failed \cup {Len(todo)}
    BY <1>5 DEF WriteStep, WriteStepFails, WriteEnd
  <2>2. pc' \in {"idle", pc} /\ r' \in {r, 0}
    BY <1>5 DEF WriteStep, WriteStepFails, WriteEnd
  <2>3. unlisted' \in BOOLEAN
    BY <2>1 DEF TypeOK
  <2>4. failed' \subseteq Nat
    BY <1>1, <2>1
  <2>5. QED
    BY <1>1, <2>1, <2>2, <2>3, <2>4
<1>6. CASE UNCHANGED vars
  BY <1>1, <1>6 DEF vars, TypeOK
<1>7. QED
  BY <1>2, <1>3, <1>4, <1>5, <1>6 DEF Next, InjectionStep, WritingStep, Finished

LEMMA OutputType ==
  ASSUME TypeOK, TodoInv, [Next]_vars
  PROVE  (\A o \in DOMAIN file' : file'[o] \in Cells) /\ pos' \in Nat
<1>1. (\A o \in DOMAIN file : file[o] \in Cells) /\ pos \in Nat
  BY DEF TypeOK
<1>2. ASSUME todo # <<>> PROVE Position \in Nat /\ Head(todo).cells \in CellRuns
  <2>1. Head(todo) \in Calls
    BY <1>2, HeadTailProperties DEF TodoInv
  <2>2. QED
    BY <1>1, <2>1 DEF Position, Calls
<1>3. CASE WriteStep
  BY <1>2, <1>3, StoredType DEF WriteStep
<1>4. CASE WriteStepFails
  BY <1>1, <1>2, <1>4 DEF WriteStepFails
<1>5. CASE file' = <<>> /\ pos' = 0
  BY <1>5
<1>6. CASE file' = file /\ pos' = pos
  BY <1>1, <1>6
<1>7. \/ WriteStep \/ WriteStepFails \/ (file' = <<>> /\ pos' = 0) \/ (file' = file /\ pos' = pos)
  BY DEF Next, Inject, InjectionStep, AppendNoMemory, AppendCode, FindNote, NoNote, GetVaddr, NoLoad,
         WriteEntry, OpenFails, BufferFails, WriteBegin, WritingStep, WriteEnd, Finished, vars, output
<1>8. QED
  BY <1>3, <1>4, <1>5, <1>6, <1>7

(* The cells of the image, whatever they hold.                             *)
LEMMA TypedStep ==
  ASSUME Typed, Layout, WrapperInv, InjectedInv, PhaseInv, [Next]_vars
  PROVE  Typed'
<1>1. image' \in Images
  BY Touches DEF Typed
<1>2. mem' = [o \in 0..(length' - 1) |-> mem'[o]] /\ length' \in Nat
  <2>1. image.length \in Nat /\ Layout' /\ image' = image
    BY LayoutStep, ImageFacts, Touches DEF Typed
  <2>2. length' \in Nat
    BY <2>1 DEF Layout
  <2>3. QED
    BY <2>2, LayoutStep
<1>3. phdr' \in Seq(Wrapper)
  BY WrapperStep
<1>4. transform' \in Transforms
  BY TransformType
<1>5. injected' \in Seq(Transforms)
  <2>1. AppendCode => injected' = injected
    BY DEF AppendCode, history
  <2>2. WriteEntry => injected' \in Seq(Transforms)
    BY Written1
  <2>3. QED
    BY <2>1, <2>2, Touches DEF Typed, Still
<1>6. QED
  BY <1>1, <1>2, <1>3, <1>4, <1>5 DEF Typed

LEMMA CellsStep ==
  ASSUME TypeOK, Layout, PhaseInv, [Next]_vars
  PROVE  \A o \in 0..(length' - 1) : mem'[o] \in Cells
<1>1. /\ length \in Nat /\ Count \in Nat /\ \A o \in 0..(length - 1) : mem[o] \in Cells
      /\ Junk \in Cells /\ \A k \in Nat : Code(Count + 1, k) \in Cells
  BY LenProperties, CellKinds DEF TypeOK, Count
<1>2. CASE AppendCode
  <2>1. /\ length' \in length..(ObjectMod - 1) /\ \A o \in 0..(length - 1) : mem'[o] = mem[o]
        /\ \A o \in length..(length' - 1) :
              mem'[o] = Junk \/ \E k \in Nat : mem'[o] = Code(Count + 1, k)
    BY <1>2, TypesOnly, Appended
  <2>2. \A o \in 0..(length' - 1) : o \in 0..(length - 1) \/ o \in length..(length' - 1)
    BY <1>1, <2>1
  <2>3. QED
    BY <1>1, <2>1, <2>2
<1>3. CASE WriteEntry
  <2>1. \A o \in 0..(length - 1) : mem'[o] = mem[o] \/ mem'[o] \in Entries
    BY <1>3, TypesOnly, Written1
  <2>2. length' = length
    BY <1>3 DEF WriteEntry
  <2>3. QED
    BY <1>1, <2>1, <2>2, CellKinds
<1>4. CASE Still
  BY <1>1, <1>4 DEF Still
<1>5. QED
  BY <1>2, <1>3, <1>4, Touches

LEMMA TypeStep ==
  ASSUME IInv, [Next]_vars
  PROVE  TypeOK'
<1>1. Typed'
  BY TypesOnly, TypedStep DEF IInv
<1>2. mem' \in [0..(length' - 1) -> Cells]
  <2>1. mem' = [o \in 0..(length' - 1) |-> mem'[o]]
    BY <1>1 DEF Typed
  <2>2. \A o \in 0..(length' - 1) : mem'[o] \in Cells
    BY CellsStep DEF IInv
  <2>3. QED
    BY <2>1, <2>2
<1>3. QED
  BY <1>1, <1>2, ControlType, OutputType DEF IInv, Typed, TypeOK, Wrapper

----------------------------------------------------------------------------
(* The invariant.                                                          *)

LEMMA InitInvariant == Init => IInv
<1> SUFFICES ASSUME Init PROVE IInv
  OBVIOUS
<1> USE DEF Init
<1>1. image \in Images /\ length = image.length
  OBVIOUS
<1>2. /\ image.phoff \in Nat /\ N \in Nat /\ image.length \in 0..(ObjectMod - 1)
      /\ image.length \in Nat /\ Slots \subseteq 0..(image.length - 1)
      /\ image.entries \in Seq(Entries) /\ \A j \in 1..N : image.entries[j] \in Entries
  BY <1>1, ImageFacts
<1>3. \A o \in 0..(image.length - 1) : mem[o] = ParsedCell(o)
  OBVIOUS
<1>4. \A o \in Slots : mem[o] \in Entries
  <2>1. ASSUME NEW o \in Slots PROVE ParsedCell(o) \in Entries
    <3>1. PICK j : j = o - image.phoff + 1
      OBVIOUS
    <3>2. j \in 1..N /\ ParsedCell(o) = image.entries[j]
      BY <1>1, <3>1, SlotOf
    <3>3. QED
      BY <1>2, <3>2
  <2>2. QED
    BY <1>2, <1>3, <2>1
<1>5. mem \in [0..(length - 1) -> Cells]
  <2>1. ASSUME NEW o \in 0..(image.length - 1) PROVE ParsedCell(o) \in Cells
    <3>1. CASE o \in Slots
      BY <1>2, <1>3, <1>4, <3>1, CellKinds
    <3>2. CASE o \notin Slots
      BY <1>2, <3>2, CellKinds DEF ParsedCell, PhdrCells, Slots, N
    <3>3. QED
      BY <3>1, <3>2
  <2>2. mem = [o \in 0..(image.length - 1) |-> mem[o]]
    OBVIOUS
  <2>3. QED
    BY <1>1, <1>3, <2>1, <2>2
<1>6. phdr \in Seq(Wrapper) /\ Len(phdr) = N
      /\ \A j \in 1..N : /\ phdr[j].p_offset = image.phoff + j - 1
                         /\ phdr[j].mem_offset = image.entries[j].p_offset
  <2>1. phdr = [j \in 1..N |-> [idx |-> j - 1, p_offset |-> image.phoff + j - 1,
                                mem_offset |-> image.entries[j].p_offset]]
    BY DEF N
  <2>2. ASSUME NEW j \in 1..N
        PROVE  [idx |-> j - 1, p_offset |-> image.phoff + j - 1,
                mem_offset |-> image.entries[j].p_offset] \in Wrapper
    <3>1. image.entries[j].p_offset \in Nat
      BY <1>2 DEF Entries
    <3>2. j - 1 \in Nat /\ image.phoff + j - 1 \in Nat
      BY <1>2
    <3>3. QED
      BY <3>1, <3>2 DEF Wrapper
  <2>3. phdr \in Seq(Wrapper)
    BY <1>2, <2>1, <2>2, IsASeq
  <2>4. QED
    BY <1>2, <2>1, <2>3
<1>7. injected = <<>> /\ Count = 0
  BY DEF Count
<1>8. TypeOK
  <2>1. transform \in Transforms
    BY ObjectFacts DEF Transforms
  <2>2. calls \in 0..MaxCalls /\ failed \subseteq Nat
    BY BoundsAssumption
  <2>3. injected \in Seq(Transforms)
    BY <1>7
  <2>4. DOMAIN file = {}
    OBVIOUS
  <2>5. QED
    BY <1>1, <1>2, <1>5, <1>6, <2>1, <2>2, <2>3, <2>4 DEF TypeOK, Wrapper
<1>9. Layout
  <2>1. length \in image.length..(ObjectMod - 1)
    BY <1>1, <1>2, ObjectFacts
  <2>2. QED
    BY <1>4, <2>1 DEF Layout
<1>10. WrapperInv
  <2>1. (N + 1)..Len(phdr) = {} /\ 1..Count = {} /\ Len(phdr) >= N
    BY <1>2, <1>6, <1>7
  <2> HIDE DEF Init
  <2>2. QED
    BY <1>6, <2>1 DEF WrapperInv
<1>11. InjectedInv
  BY <1>7 DEF InjectedInv
<1>12. PhaseInv /\ CodeInv
  BY <1>7 DEF PhaseInv, CodeInv
<1>13. ParsedInv
  <2>1. Overwritten = {}
    BY <1>7 DEF Overwritten
  <2>2. QED
    BY <1>3, <2>1 DEF ParsedInv
<1>14. SegmentsDisjoint
  <2>1. \A j \in 1..N : Table[j] = image.entries[j]
    <3>1. ASSUME NEW j \in 1..N PROVE Table[j] = image.entries[j]
      <4>1. PICK o : o = image.phoff + j - 1
        OBVIOUS
      <4>2. o \in Slots /\ Table[j] = mem[o] /\ o - image.phoff + 1 = j
        <5>1. image.phoff + j - 1 \in Slots /\ Table[j] = mem[image.phoff + j - 1]
          BY <1>1, SlotOf
        <5>2. QED
          BY <1>2, <4>1, <5>1
      <4>3. ParsedCell(o) = image.entries[j]
        BY <1>1, <4>2, SlotOf
      <4>4. QED
        BY <1>2, <1>3, <4>2, <4>3
    <3>2. QED
      BY <3>1
  <2>2. Len(Table) = N
    BY <1>1, SlotOf
  <2>3. QED
    BY <2>1, <2>2 DEF SegmentsDisjoint, AllDisjoint, N
<1>15. TodoInv
  BY DEF TodoInv
<1>16. QED
  BY <1>8, <1>9, <1>10, <1>11, <1>12, <1>13, <1>14, <1>15 DEF IInv

LEMMA StepInvariant == IInv /\ [Next]_vars => IInv'
<1> SUFFICES ASSUME IInv, [Next]_vars PROVE IInv'
  OBVIOUS
<1>1. /\ TypeOK /\ Typed /\ Layout /\ WrapperInv /\ InjectedInv /\ PhaseInv /\ CodeInv
      /\ ParsedInv /\ SegmentsDisjoint /\ TodoInv
  BY TypesOnly DEF IInv
<1>2. TypeOK' /\ Layout' /\ WrapperInv' /\ InjectedInv' /\ PhaseInv' /\ CodeInv'
  BY <1>1, TypeStep, LayoutStep, WrapperStep, InjectedStep, PhaseStep, CodeStep
<1>3. ParsedInv' /\ SegmentsDisjoint' /\ TodoInv'
  BY <1>1, ParsedStep, DisjointStep, TodoStep
<1>4. QED
  BY <1>2, <1>3 DEF IInv

THEOREM Invariant == Spec => []IInv
BY InitInvariant, StepInvariant, PTL DEF Spec

(* Every variable keeps its type, whatever calls fail: offsets, addresses, *)
(* the wrappers elftool_transform_segment_injection pushes and the cells   *)
(* elftool_write stores.                                                   *)
THEOREM TypeCorrect == Spec => []TypeOK
<1>1. IInv => TypeOK
  BY DEF IInv
<1>2. QED
  BY <1>1, Invariant, PTL

(* Every injection that returned 0 stays mapped, page by page, and its     *)
(* bytes the caller's: no later call of                                    *)
(* elftool_transform_segment_injection or elftool_write disturbs it.       *)
THEOREM InjectionsStand == Spec => []InjectedMapped
<1>1. IInv => InjectedMapped
  <2> SUFFICES ASSUME IInv, NEW n \in 1..Count
               PROVE  LET t == injected[n]
                      IN  /\ mem[t.phdr_file_offset] = Entry("LOAD", t.code_file_offset, t.virtual_addr,
                                                             t.code_len, t.code_len)
                          /\ t.code_file_offset % PAGE = 0 /\ t.virtual_addr % PAGE = 0
                          /\ \A k \in 0..(t.code_len - 1) : mem[t.code_file_offset + k] = Code(n, k)
    BY DEF InjectedMapped, Count
  <2>1. Stands(injected[n]) /\ HasRoom(injected[n]) /\ HasCode(n, injected[n])
    BY DEF IInv, InjectedInv, CodeInv
  <2>2. QED
    BY <2>1 DEF Stands, HasRoom, HasCode
<1>2. QED
  BY <1>1, Invariant, PTL

(* As many entries are overwritten as injections have returned 0.          *)
LEMMA OverwrittenCount ==
  ASSUME Typed, InjectedInv
  PROVE  Cardinality(Overwritten) = Count
<1> DEFINE slot == [n \in 1..Count |-> injected[n].phdr_file_offset]
<1>1. Count \in Nat /\ 1 \in Int
  BY LenProperties DEF Typed, Count
<1>2. IsFiniteSet(1..Count) /\ Cardinality(1..Count) = Count
  <2>1. CASE Count = 0
    BY <2>1, FS_EmptySet
  <2>2. CASE Count > 0
    BY <1>1, <2>2, FS_Interval
  <2>3. QED
    BY <1>1, <2>1, <2>2
<1>3. Overwritten = {injected[n].phdr_file_offset : n \in 1..Count}
  BY DEF Overwritten, Count
<1> HIDE DEF Count
<1>4. \A m, n \in 1..Count :
        injected[m].phdr_file_offset = injected[n].phdr_file_offset => m = n
  <2>1. \A m, n \in 1..Count : m < n \/ n < m \/ m = n
    BY <1>1
  <2>2. \A m, n \in 1..Count : m < n =>
          injected[m].phdr_file_offset # injected[n].phdr_file_offset
    BY DEF InjectedInv
  <2>3. QED
    BY <2>1, <2>2
<1>5. slot \in Bijection(1..Count, Overwritten)
  <2>1. slot \in [1..Count -> Overwritten]
    BY <1>3
  <2>2. \A m, n \in 1..Count : slot[m] = slot[n] => m = n
    BY <1>4
  <2>3. \A o \in Overwritten : \E n \in 1..Count : slot[n] = o
    BY <1>3
  <2> HIDE DEF slot
  <2>4. QED
    BY <2>1, <2>2, <2>3, Zenon DEF Bijection, Injection, Surjection, IsInjective
<1> HIDE DEF slot
<1>6. QED
  BY <1>2, <1>5, FS_Bijection DEF ExistsBijection

(* "Overrides the first PT_NOTE segment found.": of the parsed bytes, each *)
(* injection that returned 0 changed the first PT_NOTE entry then left,    *)
(* and nothing else has changed any.                                       *)
THEOREM FirstNotesOnly == Spec => []OnlyFirstNotes
<1>1. IInv => OnlyFirstNotes
  BY TypesOnly, OverwrittenCount DEF IInv, ParsedInv, OnlyFirstNotes, Count
<1>2. QED
  BY <1>1, Invariant, PTL

(* Segments that were disjoint in memory stay so, .bss included: get_vaddr *)
(* hands out a page that lies behind all of them.                          *)
THEOREM SegmentsStayDisjoint == Spec => []SegmentsDisjoint
<1>1. IInv => SegmentsDisjoint
  BY DEF IInv
<1>2. QED
  BY <1>1, Invariant, PTL

==============================================================================
