------------------------------- MODULE ElfEdit -------------------------------
(***************************************************************************)
(* A library user editing a parsed image: any sequence of                  *)
(* elftool_transform_segment_injection (src/lib/elftool_transform.c) and   *)
(* elftool_write (src/lib/elftool_write.c) on one elftool_t.               *)
(*                                                                         *)
(* The unit of every offset, size and address is the size of a table entry *)
(* ("cell"): the ELF header, a table entry, or that much of a section.  A  *)
(* cell of the program header table holds the entry's fields, the others   *)
(* hold a tag that says where their bytes come from.                       *)
(***************************************************************************)
EXTENDS Integers, FiniteSets, SequencesExt

CONSTANTS
  PAGE,         \* 0x1000
  AddrMod,      \* 2^64, what vaddr wraps at
  Images,       \* images elftool_parse has accepted, as far as IsImage goes
  CodeLens,     \* the lengths of code a caller injects
  MaxCalls,     \* bound: how many calls the user makes
  MallocFails,  \* whether an allocation may fail
  WritesFail    \* bound: how many system calls of one elftool_write may fail

(* No object in memory is larger than PTRDIFF_MAX: neither an image, nor a *)
(* caller's code, nor what malloc hands out.                               *)
ObjectMod == AddrMod \div 2

ASSUME BoundsAssumption ==
  /\ PAGE \in Nat \ {0} /\ AddrMod \in Nat /\ PAGE <= ObjectMod
  /\ CodeLens \subseteq 0..(ObjectMod - 1) /\ MaxCalls \in Nat
  /\ MallocFails \in BOOLEAN /\ WritesFail \in Nat

Entry(type, off, vaddr, filesz, memsz) ==
  [p_type |-> type, p_offset |-> off, p_vaddr |-> vaddr, p_filesz |-> filesz,
   p_memsz |-> memsz]
Entries == [p_type : {"LOAD", "NOTE", "OTHER"}, p_offset : Nat, p_vaddr : Nat,
            p_filesz : Nat, p_memsz : Nat]
Old(o) == [old |-> o]        \* the bytes the image had at o
Code(n, k) == [code |-> n, at |-> k]  \* the k-th cell of the n-th code injected
Junk == [junk |-> TRUE]      \* bytes nobody has written: heap content
Zero == [zero |-> TRUE]

(* Both tables lie in the image, anywhere in it: they may overlap each     *)
(* other and the ELF header, entry by entry.  An entry that is the header  *)
(* begins with the magic number, which is no type of segment; one that is  *)
(* a section header too has its p_filesz where that has its sh_size.  A    *)
(* section may reach behind the end, as .bss does.                         *)
IsImage(f) ==
  /\ f.class \in {32, 64}
  /\ f.length \in 1..(ObjectMod - 1)
  /\ f.phoff \in Nat /\ f.phoff + Len(f.entries) <= f.length
  /\ f.shoff \in Nat /\ f.shoff + Len(f.shdr) <= f.length
  /\ f.entries \in Seq(Entries)
  /\ f.shdr \in Seq([sh_offset : Nat, sh_size : Nat])
  /\ f.phoff = 0 /\ f.entries # <<>> => f.entries[1].p_type = "OTHER"
  /\ \A j \in 1..Len(f.entries), k \in 1..Len(f.shdr) :
       f.class = 64 /\ f.phoff + j = f.shoff + k
         => f.shdr[k].sh_size = f.entries[j].p_filesz

ASSUME ImagesAssumption == \A f \in Images : IsImage(f)

VARIABLES
  image,      \* auxiliary: the image as it was parsed
  mem, length,  \* bin->mem and bin->length
  phdr,       \* bin->phdr: the wrappers
  transform,  \* the caller's elftool_transform_t
  pc, r,
  file,       \* the output file, cell by cell
  pos,        \* its file position
  todo,       \* what elftool_write32/64 has still to write
  calls,      \* how many calls have been made
  injected,   \* auxiliary: the transforms of the injections that returned 0
  unlisted,   \* auxiliary: some injection found no memory for its wrapper
  failed      \* auxiliary: the failed calls of write in the last elftool_write,
              \* each by how many were to come, itself included

vars == <<image, mem, length, phdr, transform, pc, r, file, pos, todo, calls,
          injected, unlisted, failed>>
bin == <<image, mem, length, phdr>>
output == <<file, pos, todo, failed>>
history == <<calls, injected, unlisted>>

ENOMEM == 12
EINVAL == 22
ENOSYS == 38

(* What the image had at o: the table, or bytes nobody interprets.         *)
PhdrCells == image.phoff..(image.phoff + Len(image.entries) - 1)
ParsedCell(o) ==
  IF o \in PhdrCells THEN image.entries[o - image.phoff + 1] ELSE Old(o)

Init ==
  /\ image \in Images
  /\ length = image.length
  /\ mem = [o \in 0..(image.length - 1) |-> ParsedCell(o)]
  /\ phdr = [j \in 1..Len(image.entries) |->
               [idx |-> j - 1, p_offset |-> image.phoff + j - 1,
                mem_offset |-> image.entries[j].p_offset]]
  /\ transform = [code_len |-> 0, code_file_offset |-> 0, phdr_file_offset |-> 0,
                  virtual_addr |-> 0]
  /\ pc = "idle" /\ r = 0
  /\ file = <<>> /\ pos = 0 /\ todo = <<>>
  /\ calls = 0 /\ injected = <<>> /\ unlisted = FALSE /\ failed = {}

----------------------------------------------------------------------------
(* The wrappers reach their entry through bin->mem: get_phdr64_ent.        *)
Ent(w) == mem[w.p_offset]

MutAlign(x) == x
MutAlignWide(x) == ((x + PAGE - 1) \div PAGE) * PAGE
Align(x) == (((x + PAGE - 1) % AddrMod) \div PAGE) * PAGE

Return(code) == pc' = "idle" /\ r' = code

Inject ==
  /\ pc = "idle" /\ calls < MaxCalls
  /\ calls' = calls + 1
  /\ \E n \in CodeLens : transform' = [transform EXCEPT !.code_len = n]
  /\ IF image.class = 32 THEN Return(ENOSYS) ELSE pc' = "append" /\ r' = 0
  /\ UNCHANGED <<bin, output, injected, unlisted>>

Allocatable == Align(length) + transform.code_len < ObjectMod

AppendNoMemory ==
  /\ pc = "append"
  /\ MallocFails \/ ~Allocatable
  /\ Return(ENOMEM)
  /\ UNCHANGED <<bin, transform, output, history>>

(* elftool_append_code: a copy of the image, grown to the next page and by *)
(* the code.  The bytes between are those malloc handed out.               *)
AppendCode ==
  LET offset == Align(length)
      n == transform.code_len
  IN /\ pc = "append" /\ Allocatable
     /\ mem' = [o \in 0..(offset + n - 1) |->
                  IF o < length THEN mem[o]
                  ELSE IF o < offset THEN Junk
                  ELSE Code(Len(injected) + 1, o - offset)]
     /\ transform' = [transform EXCEPT !.code_file_offset = offset]
     /\ length' = offset + n
     /\ pc' = "note"
     /\ UNCHANGED <<image, phdr, r, output, history>>

(* elftool_get_available_phdr_offset.  Its failure, and that of get_vaddr, *)
(* leave the image as elftool_append_code has grown it.                    *)
Notes == {j \in 1..Len(phdr) : Ent(phdr[j]).p_type = "NOTE"}

MutIsFound(j) == \A k \in Notes : k <= j
IsFound(j) == \A k \in Notes : j <= k

FindNote ==
  /\ pc = "note"
  /\ \E j \in Notes :
       /\ IsFound(j)
       /\ transform' = [transform EXCEPT !.phdr_file_offset = phdr[j].p_offset]
  /\ pc' = "vaddr"
  /\ UNCHANGED <<bin, r, output, history>>

NoNote ==
  /\ pc = "note" /\ Notes = {}
  /\ Return(EINVAL)
  /\ UNCHANGED <<bin, transform, output, history>>

(* get_vaddr: the page behind the PT_LOAD of the highest p_vaddr, the      *)
(* first of them in the list.                                              *)
Loads == {j \in 1..Len(phdr) : Ent(phdr[j]).p_type = "LOAD"}
IsLastLoad(j) ==
  \A k \in Loads : LET a == Ent(phdr[j]).p_vaddr
                       b == Ent(phdr[k]).p_vaddr
                   IN b < a \/ (b = a /\ j <= k)

MutEndOf(e) == (e.p_vaddr + e.p_filesz) % AddrMod
EndOf(e) == (e.p_vaddr + e.p_memsz) % AddrMod

GetVaddr ==
  /\ pc = "vaddr"
  /\ \E j \in Loads :
       /\ IsLastLoad(j)
       /\ transform' = [transform EXCEPT !.virtual_addr = Align(EndOf(Ent(phdr[j])))]
  /\ pc' = "entry"
  /\ UNCHANGED <<bin, r, output, history>>

NoLoad ==
  /\ pc = "vaddr" /\ Loads = {}
  /\ transform' = [transform EXCEPT !.virtual_addr = 0]
  /\ Return(-1)
  /\ UNCHANGED <<bin, output, history>>

(* The PT_NOTE entry is overwritten in place and a wrapper for it pushed,  *)
(* beside the one elftool_parse made, whose mem_offset stays.  A failed    *)
(* ft_lstnew is pushed as NULL, which adds nothing, and 0 is returned.     *)
WriteEntry ==
  LET t == transform
      wrapper == [idx |-> Len(image.entries) - 1, p_offset |-> t.phdr_file_offset,
                  mem_offset |-> t.code_file_offset]
  IN /\ pc = "entry"
     /\ mem' = [mem EXCEPT ![t.phdr_file_offset] =
                  Entry("LOAD", t.code_file_offset, t.virtual_addr, t.code_len, t.code_len)]
     /\ \E stored \in IF MallocFails THEN BOOLEAN ELSE {TRUE} :
          /\ phdr' = IF stored THEN Append(phdr, wrapper) ELSE phdr
          /\ unlisted' = (unlisted \/ ~stored)
     /\ injected' = Append(injected, t)
     /\ Return(0)
     /\ UNCHANGED <<image, length, transform, output, calls>>

----------------------------------------------------------------------------
(* elftool_write: open, which truncates, then zeroes over bin->length, and *)
(* elftool_write32/64 from there on: the header is written where the       *)
(* zeroes end, no lseek goes back before it.                               *)
BeginWrite(result) ==
  /\ pc = "idle" /\ calls < MaxCalls
  /\ calls' = calls + 1
  /\ Return(result)
  /\ UNCHANGED <<bin, transform, injected, unlisted>>

OpenFails == BeginWrite(-1) /\ UNCHANGED output

BufferFails ==
  /\ MallocFails /\ BeginWrite(ENOMEM)
  /\ file' = <<>> /\ pos' = 0 /\ todo' = <<>> /\ failed' = {}

(* The write calls, in order.  "at" is where lseek has moved to, or Here   *)
(* when the call goes on where the last one ended.  Bytes behind the image *)
(* come from the heap.                                                     *)
Here == -1
Chunk(from, n) == [k \in 0..(n - 1) |-> IF from + k < length THEN mem[from + k] ELSE Junk]
WriteAt(at, from, n) == [at |-> at, cells |-> Chunk(from, n)]

ZeroWrite == <<[at |-> Here, cells |-> [o \in 0..(length - 1) |-> Zero]]>>
HeaderWrite == <<WriteAt(Here, 0, 1)>>
TableStart(j, off) == IF j = 1 THEN off ELSE Here
PhdrTableWrites ==
  [j \in 1..Len(phdr) |-> WriteAt(TableStart(j, image.phoff), phdr[j].p_offset, 1)]
ShdrTableWrites ==
  [j \in 1..Len(image.shdr) |-> WriteAt(TableStart(j, image.shoff), image.shoff + j - 1, 1)]

(* A section header as it is now: where an injection has overwritten it,   *)
(* p_paddr, which is 0, is its sh_offset and p_filesz its sh_size.  The    *)
(* wrapper has the sh_offset it was parsed with.                           *)
ShdrEnt(j) ==
  LET o == image.shoff + j - 1
  IN  IF o \in PhdrCells /\ mem[o] # ParsedCell(o)
        THEN [sh_offset |-> 0, sh_size |-> mem[o].p_filesz] ELSE image.shdr[j]
SectionWrites ==
  [j \in 1..Len(image.shdr) |->
     WriteAt(ShdrEnt(j).sh_offset, image.shdr[j].sh_offset, ShdrEnt(j).sh_size)]
SegmentWrites ==
  [j \in 1..Len(phdr) |->
     WriteAt(Ent(phdr[j]).p_offset, phdr[j].mem_offset, Ent(phdr[j]).p_filesz)]

MutWrites == HeaderWrite \o SegmentWrites \o PhdrTableWrites \o ShdrTableWrites \o SectionWrites
Writes == HeaderWrite \o PhdrTableWrites \o ShdrTableWrites \o SectionWrites \o SegmentWrites

WriteBegin ==
  /\ pc = "idle" /\ calls < MaxCalls
  /\ calls' = calls + 1
  /\ pc' = "write" /\ r' = 0
  /\ file' = <<>> /\ pos' = 0
  /\ todo' = ZeroWrite \o Writes /\ failed' = {}
  /\ UNCHANGED <<bin, transform, injected, unlisted>>

Position == IF Head(todo).at = Here THEN pos ELSE Head(todo).at

(* A hole that lseek left behind the end reads as zero.                    *)
Stored(at, cells) ==
  LET n == Cardinality(DOMAIN cells)
      end == IF n = 0 THEN 0 ELSE at + n
  IN [o \in DOMAIN file \cup 0..(end - 1) |->
        IF o \in at..(at + n - 1) THEN cells[o - at]
        ELSE IF o \in DOMAIN file THEN file[o] ELSE Zero]

MutWriteStep ==  \* the same call again
  /\ pc = "write" /\ todo # <<>>
  /\ UNCHANGED vars

WriteStep ==
  /\ pc = "write" /\ todo # <<>>
  /\ file' = Stored(Position, Head(todo).cells)
  /\ pos' = Position + Cardinality(DOMAIN Head(todo).cells)
  /\ todo' = Tail(todo)
  /\ UNCHANGED <<bin, transform, pc, r, failed, history>>

(* A call of write answers -1: nobody looks.                               *)
WriteStepFails ==
  /\ pc = "write" /\ todo # <<>> /\ Cardinality(failed) < WritesFail
  /\ failed' = failed \cup {Len(todo)}
  /\ pos' = Position
  /\ todo' = Tail(todo)
  /\ UNCHANGED <<bin, transform, pc, r, file, history>>

WriteEnd ==
  /\ pc = "write" /\ todo = <<>>
  /\ Return(0)
  /\ UNCHANGED <<bin, transform, output, history>>

----------------------------------------------------------------------------
Finished == pc = "idle" /\ calls = MaxCalls /\ UNCHANGED vars

InjectionStep == AppendNoMemory \/ AppendCode \/ FindNote \/ NoNote \/ GetVaddr
                   \/ NoLoad \/ WriteEntry
WritingStep == WriteStep \/ WriteStepFails \/ WriteEnd
Next == Inject \/ InjectionStep \/ OpenFails \/ BufferFails \/ WriteBegin
          \/ WritingStep \/ Finished

Spec == Init /\ [][Next]_vars

(* A call, once made, runs: the user does nothing else meanwhile.          *)
FairSpec == Spec /\ WF_vars(InjectionStep \/ WritingStep)

----------------------------------------------------------------------------
Cells == Entries \cup [old : Nat] \cup [code : Nat, at : Nat] \cup {Junk, Zero}
Transforms == [code_len : Nat, code_file_offset : Nat, phdr_file_offset : Nat,
               virtual_addr : 0..(AddrMod - 1)]

(* Every variable has its type; an address stays below its width.          *)
TypeOK ==
  /\ image \in Images
  /\ length \in Nat /\ mem \in [0..(length - 1) -> Cells]
  /\ phdr \in Seq([idx : Nat, p_offset : Nat, mem_offset : Nat])
  /\ transform \in Transforms /\ injected \in Seq(Transforms)
  /\ pc \in {"idle", "append", "note", "vaddr", "entry", "write"}
  /\ r \in {0, -1, ENOMEM, EINVAL, ENOSYS}
  /\ \A o \in DOMAIN file : file[o] \in Cells
  /\ pos \in Nat /\ calls \in 0..MaxCalls /\ failed \subseteq Nat
  /\ unlisted \in BOOLEAN

(* Every injection that returned 0 stands, whatever followed it: its entry *)
(* maps its code, page by page, and the bytes there are the caller's.      *)
InjectedMapped ==
  \A j \in 1..Len(injected) :
    LET t == injected[j]
    IN /\ mem[t.phdr_file_offset] =
            Entry("LOAD", t.code_file_offset, t.virtual_addr, t.code_len, t.code_len)
       /\ t.code_file_offset % PAGE = 0 /\ t.virtual_addr % PAGE = 0
       /\ \A k \in 0..(t.code_len - 1) : mem[t.code_file_offset + k] = Code(j, k)

(* "Overrides the first PT_NOTE segment found." and nothing else: of the   *)
(* parsed bytes, each injection that returned 0 changed the first PT_NOTE  *)
(* entry then left, and one that failed changed none.                      *)
NoteCells == {o \in PhdrCells : image.entries[o - image.phoff + 1].p_type = "NOTE"}
Overwritten == {injected[j].phdr_file_offset : j \in 1..Len(injected)}

OnlyFirstNotes ==
  /\ Overwritten \subseteq NoteCells
  /\ Cardinality(Overwritten) = Len(injected)
  /\ \A o \in Overwritten, n \in NoteCells : n < o => n \in Overwritten
  /\ \A o \in 0..(image.length - 1) : o \in Overwritten \/ mem[o] = ParsedCell(o)

(* Segments that were disjoint in memory stay so, .bss included, when the  *)
(* address space does not end behind one of them and none is empty: the    *)
(* page behind an empty one, once it is taken, is handed out again.        *)
Disjoint(e, f) == e.p_vaddr + e.p_memsz <= f.p_vaddr \/ f.p_vaddr + f.p_memsz <= e.p_vaddr
AllDisjoint(table) ==
  \A j, k \in 1..Len(table) :
    j # k /\ table[j].p_type = "LOAD" /\ table[k].p_type = "LOAD"
      => Disjoint(table[j], table[k])
Table == [j \in 1..Len(image.entries) |-> mem[image.phoff + j - 1]]
Fits ==
  \A j \in 1..Len(Table) :
    Table[j].p_type = "LOAD" => Table[j].p_vaddr + Table[j].p_memsz + PAGE <= AddrMod
NoneEmpty == \A j \in 1..Len(Table) : Table[j].p_type = "LOAD" => Table[j].p_memsz > 0

SegmentsDisjoint ==
  AllDisjoint(image.entries) /\ Fits /\ NoneEmpty => AllDisjoint(Table)

(* What elftool_write has to copy: the segments, both tables, the sections.*)
Written == pc = "write" /\ todo = <<>>
SegmentCells == UNION {e.p_offset..(e.p_offset + e.p_filesz - 1) : e \in ToSet(Table)}
Covered ==
  SegmentCells \cup PhdrCells \cup image.shoff..(image.shoff + Len(image.shdr) - 1)
    \cup (UNION {s.sh_offset..(s.sh_offset + s.sh_size - 1) : s \in ToSet(image.shdr)})
InFile(cells) == \A o \in cells : o < length => file[o] = mem[o]

(* No injection has overwritten an entry that is a section header too.     *)
HeadersKept == \A j \in 1..Len(image.shdr) : ShdrEnt(j) = image.shdr[j]

(* The file holds the image, injections included, wherever a segment lies, *)
(* whatever came before its bytes were written, failed calls and sections  *)
(* that are no longer where their headers say, unless one of the last      *)
(* calls, those for the segments, failed.  It holds the tables and the     *)
(* sections too if no call failed and the section headers are their own:   *)
(* the stale wrapper of an overridden PT_NOTE and the entry too many       *)
(* behind the table are made good by what is written after them.           *)
WrittenIsImage ==
  Written /\ ~unlisted =>
    /\ failed \cap 1..Len(phdr) = {} => InFile(SegmentCells)
    /\ failed = {} /\ HeadersKept => InFile(Covered)

(* Every call returns.                                                     *)
CallsReturn == pc # "idle" ~> pc = "idle"

----------------------------------------------------------------------------
(* "Copy ELF header." (src/lib/elftool_write.c:8)                          *)
HeaderCopied == Written /\ failed = {} => file[0] = mem[0]
==============================================================================
