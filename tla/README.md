# A verification of libelftool

TLA+ models of `binutils` (the library **libelftool**, its list library
**liblst**, and the `elftool` command line client), checked with TLC on small
instances, and with the invariants of the parser, the lists, the nm listing, the
injection, the writer, the symbol queries and the command proved for every instance with TLAPS. Paths
below are relative to the repository.

## 1. Inventory

The program is sequential: one thread, no signals, no persistence but the output
file. What makes it hard is not concurrency but state that survives an error, loops
whose bounds come from an untrusted file, fixed-width arithmetic, allocations and
system calls that fail in the middle of a sequence of steps, and long sequences of
legal library calls on one `elftool_t`.

| Component | Source | State | Operations | Correct when |
|---|---|---|---|---|
| Image and accessors | `inc/elftool_structs.h` | `bin->mem`, `bin->length` | `get_ehdr*`, `get_phdr*_ent`, `get_shdr*_ent`, `get_sym*_ent` | offsets stay in the image |
| Parser | `src/lib/elftool_parse.c` | the three wrapper lists, `shstrtab`, `strtab`, class, endianness; per phase `r`, offset, index, the scratch `syms` | `elftool_parse` and its four phases | answers 0 exactly for well formed images, and then the lists are the image's tables; ends; reads nothing outside |
| liblst | `liblst/` | the nodes' `next` fields, the heap | new, push, back, add, delone, del, get, size, rev, iter, map, swap | the pointers always spell the intended sequence; nothing leaks or dangles |
| nm listing | `src/lib/elftool_dump.c` | `bin->syms`, `newList`, the selection | filter, selection sort, print with `nm_flag_magic` | prints the listed symbols, each once, in order, with the letter of their section |
| Other dumps | `src/lib/elftool_dump.c` | none | `elftool_dump`, `elftool_dump_ehdr/phdr/shdr/syms` | printed in the fixed order, from what the parser built |
| Injection | `src/lib/elftool_transform.c` | `mem`, `length`, `phdr` list, the caller's transform | `elftool_transform_segment_injection` | the code is in the image and mapped at a free page; nothing else changed |
| Writer | `src/lib/elftool_write.c` | the output file and its position | `elftool_write` | the file is the image |
| Query | `src/lib/elftool_query.c` | `mem`, the caller's `elftool_sym_query_t` | `elftool_sym_query_by_name` | reads and writes the bytes of the named symbol, which stay its own through injections |
| Loader | `src/lib/elftool_load.c` | `mem`, `length`, a descriptor | `elftool_load` | answers 0 only with the whole file in memory |
| Options | `src/lib/elftool_getopt.c` | `elftool_opt_t` | `elftool_getopt` | flags and binaries are those of the command line |
| Client | `src/client/` | the loop over the binaries, descriptors, heap, files | `main`, `elftool` | every binary is loaded, parsed, dumped, written and cleaned |

Interaction is by direct calls and through one shared structure, `elftool_t`: the
loader fills `mem`, the parser builds lists of *wrappers* that hold offsets into
`mem`, and everything after works on both. A wrapper and the entry it points to can
come apart (the injection changes the entry and not the old wrapper), and `mem` can
move (the injection reallocates it) while a caller holds a pointer into it. Failure is
a local `r` in every function; what an error leaves behind in `elftool_t` is the
subject of many of the properties. In the command one more thing is shared: the disk,
on which the output file of one binary can be the next binary. `PROJECT.json` lists the
hazards by line.

## 2. Modules

| Module | Models | Role |
|---|---|---|
| `ElfLayout` | `inc/elftool_structs.h` and the types of `<elf.h>` the library uses | image, widths, overflow, header checks |
| `ElfParse` | `elftool_parse.c` | the detailed parser, one action per loop iteration or exit |
| `ElfView` | what `elftool_parse` promises | one-step abstract specification, closed forms over the image |
| `MCElfParse` | - | the images TLC is given |
| `ElfParse_proofs` | - | theorems about `ElfParse` |
| `LinkedList` | `liblst/*.c` | pointers, memory and walks, one action per call or iteration |
| `ListSeq` | what `liblst.h` promises | a sequence, the abstract specification of `LinkedList` |
| `LinkedList_proofs` | - | theorems about `LinkedList`, and that it implements `ListSeq` |
| `NmSort`, `MCNmSort` | `elftool_dump_nm` and its sorts | filter, selection sort, printing |
| `NmSort_proofs` | - | theorems about `NmSort` |
| `ElfEdit`, `MCElfEdit` | `elftool_transform.c`, `elftool_write.c` | a caller that injects and writes in any order |
| `ElfEdit_proofs` | - | theorems about the injection |
| `ElfWrite_proofs` | - | extends it: the theorem about the writer |
| `ElfQuery`, `MCElfQuery` | `elftool_query.c` | extends `ElfEdit`: the same caller also queries symbols |
| `ElfQuery_proofs` | - | extends `ElfEdit_proofs`: theorems about queries |
| `Getopt` | `elftool_getopt.c` | the option parser and what a command line means |
| `Getopt_proofs` | - | lemmas: the parser's reading is what the command line means |
| `Client`, `MCClient` | `src/client/`, `elftool_load.c`, the dispatcher of `elftool_dump.c` | extends `Getopt`: the whole command over a disk |
| `Client_proofs` | - | theorems about `Client` and, through it, `Getopt` |

### Parser (`ElfParse`)

`file` is `bin->mem` with `bin->length`: a record whose tables are sparse functions
from byte offsets, so overlapping and truncated tables are ordinary values. `pc` is
the running phase, `r`, `offset` and `idx` its locals. The string tables
`bin->shstrtab` and `bin->strtab` are positions in `shdr`, 0 for NULL. The 32- and
64-bit functions are one text over two widths and are one action each.

Kept from the code on purpose: the program header loop records an entry although it
has just set `r` (`ParsePhdrEntry`); pushing the NULL of a failed `ft_lstnew` changes
nothing; `symtabstrndx` is an `int` that receives an unsigned word; the section
lookup stops before the last node and leaves the previous symbol's value in the
scratch structure (`SectionOffset`); the product of two `uint16_t` is computed in
`int`, so where it overflows both the wrapped and the mathematical value are possible
(`IntProducts`); the 64-bit scope test of a symbol is a sum that may wrap (`SymScoped`); a
read outside the image, of a header that is cut off, of a symbol that only a wrapped sum
has let through, of `sh_entsize` after an iteration that failed, or of a name without an
end, crashes or yields what the heap holds (`ReadsBehindImage`, `CrashBehindImage`). The
NULL-argument guards at the head of the
functions are left out: no caller passes NULL.

### Lists (`LinkedList`)

Pointers are `next` and `head`, memory is `live`. `chain` is an auxiliary variable,
the sequence the calls should have left; the pointers never depend on it. `ft_lstpush`
is `PushBegin`, the iterations of `ft_lstback`, and `PushLink`; `ft_lstsize` is the
walk of `ft_lstget` without a bound. `ft_lstrev` is modelled by actions of its own,
outside `Next`, because nothing calls it and it does not return.

### nm (`NmSort`)

A symbol is its position in the parsed list. A name is reduced to the byte on which a
comparison with another name is decided: `strcmp` answers a difference of two such
bytes (glibc), which `strcmp_nm` narrows to a `char`. Lists are sequences: that the
list calls behave as such is what `LinkedList` shows (`ImplementsSeq`).
`indexSelected` is not reset between rounds, as in the code, and a failed copy deletes
the selected and also the first symbol. `nm_flag_magic` is the sequence of its tests
(`Tests`) and the first that holds; a symbol carries for it the halves of its
`st_info`, whether its index is undefined, absolute or a section's, and the type and
flags of the section header the parser found for it.

### Injection and writer (`ElfEdit`)

Offsets, sizes and addresses are counted in *cells* of one table entry. `mem` maps each
cell to a program header entry, to a tag for the parsed bytes, to a tag for injected
code, or to junk that `malloc` returned. A caller makes up to `MaxCalls` calls, in any
order, with any code length. The writer's calls are computed when it starts (`todo`)
and executed one at a time against the file and its position, so that the order of the
overlapping writes, the entry too many behind the table, the missing seek before the
header, and writes that fail in between, all have their effect; `failed` remembers which
calls did, each by how many were still to come. `lseek` does not fail,
and a write is complete or writes nothing. Freed memory is not reused.

`IsImage` is what the theorems assume of an image. Its tables lie in the image, in any
order and anywhere: behind each other, on the ELF header, over each other. Where they
overlap an injection overwrites a section header with its program header entry, and the
writer then seeks by the header as it is now, to `p_paddr`, and copies from where the
wrapper says the section was (`ShdrEnt`, `SectionWrites`). What `IsImage` asks for
beyond the checks of the parser is the alignment to cells: `e_phentsize` and
`e_shentsize` are one cell, and tables overlap entry by entry or not at all. An image
whose `e_phentsize` is smaller than the structure, so that entries overlap each other, or
whose tables overlap by a part of an entry, is accepted by the parser and not modelled
here, since what an injection makes of it depends on single bytes.

### Query (`ElfQuery`)

One more kind of call on the `elftool_t` of `ElfEdit`. `image.syms` holds the names and
values of `bin->syms`; a name is a sequence of letters, because names are compared as
prefixes. `query` is the structure of the caller's last reading query. Its
`sym_content` points into `bin->mem`: it is a pair of a buffer number and an offset, and
`buffer` counts how often `elftool_append_code` has replaced the image, so that a stale
pointer is recognised and yields freed memory. `QueryWrite` stores content of the
caller's own, `QueryWriteBack` what the last pointer still reaches; where that overlaps its target,
which C leaves undefined for `memcpy`, any arrangement of the bytes may come of it
(`Copied`). A write that hits the
header, a table or what lies behind the image ends the run (`wild`); a name the parser
could not copy kills the process (`QueryDies`). The auxiliaries `patched` and `spilled`
record what queries wrote to which address, and that one of them left its segment's file
content. Images of class 32 are not queried: the function reads their entries with the
64-bit layout, and what comes of it depends on every byte.

### Options (`Getopt`)

One action per argument. `Spellings` is the table of the options that set a mark;
`Help`, `Test` and `Outfile` are those that do something else; each push of a binary may find no memory. `Meant` and `Named` say what the
command line means without reading it from left to right: an argument is the file name
of a `-o` when an odd number of `-o` stands directly before it.

### Command (`Client`)

One action per system call, dump, and step of the loop. A file is a record of what the
program can tell of it (outcome of the parser, class, program header types, whether the
nm filter crashes on it, whether its header survives copying): `ElfParse`, `NmSort` and
`ElfEdit` say which files have which outcome, and `Client` what the command makes of
sequences of them. `disk` maps paths to files, and the output file may be one of the
binaries. `fds` starts with or without standard input, since `elftool_load` takes
descriptor 0 for a failure. `heap` keeps a token for each kind of memory of each
binary. `faults` records which calls have failed through no fault of a file, at most
`MaxFaults` of them.

## 3. Runs

| Run | Instance | States | Shows |
|---|---|---|---|
| `parse` | 486 images: good, bad headers, empty, overlapping and overflowing tables, all arrangements of three sections and links, two symbol tables, odd symbol tables, symbol tables whose offset wraps, truncations, headers cut off; memory fails anywhere | 12,008 | invariants, termination, and that the parser implements `ElfView` |
| `list` | 4 nodes, indexes to 5 | 273,118 | every sequence of calls |
| `nm` | all tables of up to 5 symbols of 5 kinds, of up to 4 with names above the sentinel, and one symbol for each combination the letter depends on; both classes; copies fail | 254,381 | order, losses, printing, letters, end |
| `edit` | 67 images: all tables of up to two entries of six kinds, those of three with notes, no sections, 32-bit, the section headers first, a table on the ELF header, tables that overlap; 3 calls; allocations and one write call fail | 188,985 | injection and writing in any order |
| `query` | 6 images with symbols in, before, across and behind the content of segments, and one without a name; 9 names; 3 calls, allocations fail | 22,940 | queries between injections and writes |
| `client` | every command line of up to 3 arguments out of 8; five longer ones on 64 disks; one call fails anywhere, `ft_lstnew` always may; standard input open or closed | 324,248 | the whole command |
| `parse_no_strtab`, `parse_wrap`, `list_rev`, `nm_trailing`, `edit_header`, `client_success` | the same modules, mostly on fewer images | | six claims of the comments and messages that do not hold |

Properties worth naming:

* `StrtabBelongsToSymtab`, `SymtabNeverMissing`: two functions choose the symbol
  table independently, one by index, one by pointer, and agree.
* `SymsInImage`: the scope test adds the size of the wrong structure to an offset that may
  wrap, and still keeps every recorded symbol whole in the image and behind the start of
  its table: in 32-bit images always, as the sum is taken in a wider type; in 64-bit ones
  while the table ends where an offset can express (`TableFits`). Otherwise it does not,
  see `SymsBelowEnd` below.
* `SymSectionTrace`: exactly which section header each symbol carries, the stale ones
  included.
* `ImplementsView`: the answer is 0 only for well formed images and the lists are then
  the tables. `ElfView` has no loop variables and no order of checks.
* `SelectionOrder`: although the selection is not reset and copies may fail, for names
  below the sentinel each round takes the least of what is left, ties in table order.
* `LettersTell`: thirteen overlapping tests of flags and types amount to the legend of
  nm(1) for the sections compilers write, and the case of the letter is the binding.
* `InjectedMapped`, `OnlyFirstNotes`: across any calls, an injection that returned 0
  stays mapped at page boundaries with its own bytes, and an injection that failed
  changed no parsed byte (it does leave the image longer).
* `SegmentsDisjoint`: the new segment lies on a page no other segment uses, `.bss`
  included, unless the address space ends there.
* `WrittenIsImage`: overlapping writes notwithstanding, the segments in the file are those
  of the image, provided no injection ran out of memory and none of the calls that write
  segments failed; what failed or was misplaced before them makes no difference. The
  tables and sections are those of the image too when no call failed at all and no
  injection has overwritten a section header (`HeadersKept`). Each of these hypotheses is
  needed: TLC finds counterexamples on the images of the run without any one of them.
* `HandedOutMapped`, `PatchesStand`, `InjectionKeepsSymbols`: the content a query hands
  out, and what queries have written, stay at the symbol's *address* while entries are
  overridden and the image is moved; a pointer is good until the next injection,
  successful or not. `CorruptsOnlyFromBss`: a write leaves its segment's content for the
  tables or for memory behind the image only for symbols in `.bss`.
* `GetoptAnswers`: what the left-to-right parser does is what the command line means,
  whatever memory fails.
* `ReadsDisk`, `OutfileHoldsLast`: with binaries named repeatedly and an output file that
  is a binary, each is read as it is at its turn, the output file is in the end the copy
  of the last accepted binary, and no other file changes.
* `DumpsWhole`: the nm dump takes the symbol list apart, and no other dump ever sees it.
* `NothingHeld`: on every path through load, parse and clean the descriptors are those of
  the beginning, and what stays allocated is exactly the images and, at most, the names.
* `EndingExplained`: exit status 0 means every binary was accepted, any other status has
  a bad binary or a failed call to blame, and the program header dump dies only on types
  outside the ranges ELF defines, or in 32-bit images.

### Bounds

* Widths in `MCElfParse`: a half has 128 values, a word 2^14, an xword 2^28, structure
  sizes are the real ones. They keep the relations the code depends on (a product of
  two halves fits a word; half of a word's range is negative as an `int`), so that
  products overflow and offsets wrap on images of a few hundred bytes. The proofs use
  only those relations (`WidthAssumption`), which the real widths satisfy.
* `HeapNodes` 8: more than the nodes of any well formed image given; it ends the walk
  of a symbol table whose entry size is 0, as memory does in reality.
* Four list nodes: the first, the last and two in between, with one deleted or added.
* Five symbols: the null symbol, one to keep, two adjacent skipped ones, and one behind.
* Pages of four cells and addresses below 128: a segment can end on, before and behind
  a page boundary, and the highest segment's end wraps. `MaxCalls` 3 allows inject,
  inject, write, and inject, write, write; `WritesFail` 1 is one failed write anywhere.
* `query`: three calls allow query, inject, write back; each segment content is at most
  six cells, so that symbols of one or two cells lie on, at and across every boundary.
* Command lines of three arguments hold a flag, `-o` and a name, or two `-o`; the five
  longer ones have two or three binaries, the output file among them or repeated.
  `MaxFaults` 1: every single failing call, at every binary.

### Fairness

One thread runs the program and is scheduled, so a call in progress takes its next
step: weak fairness of all steps (`ElfParse`, `NmSort`, `Client`) or of the steps inside
a call (`LinkedList`, `ElfEdit`). Nothing obliges a caller to make another call.

### Disagreements with what the code says

Each is a run that ends in a counterexample.

1. Without a string table the parser dereferences NULL instead of returning the error
   it has just set (`elftool_parse.c:326`-`:334`).
2. The 64-bit scope test of a symbol wraps: with a symbol table near 2^64 a symbol that
   is not in the image, but before it, is read and recorded (`elftool_parse.c:317`).
3. `ft_lstrev` does not return for two nodes or more (`ft_lstrev.c:24`).
4. The nm filter crashes on a table that ends with a section symbol
   (`elftool_dump.c:112`).
5. The ELF header is written behind the zeroes instead of at 0 (`elftool_write.c:8`).
6. `elftool -o` with an output file that cannot be opened, and an image that could not
   be read, end with status 0 (`elftool.c:77`, `elftool_load.c:46`).

Noticed in the source and modelled as they are, without a run of their own:

* Parser: a symbol of the last section gets another section's header
  (`elftool_parse.c:339`, see `SymSectionTrace`); a symbol table near the end of the image
  is refused, because the scope test adds the size of a section header (`:317`); symbol
  indexes wrap at 65536 (`:322`); the check named for `EI_OSABI` compares `EI_VERSION`
  (`:93`).
* nm: names above 0x7f break the selection (`elftool_dump.c:126`); the letter `v` needs an
  undefined symbol with a section and is printed for no well formed image (`:267`).
* Dumps: the 64-bit dump prints types from `PT_LOPROC` as those of a system (`:437`), and
  the 32-bit one names every type by its lowest four bits, GNU's too (`:412`); either
  reads behind its table of eight names for some types (`:442`).
* Injection: one without memory for its wrapper returns 0, and the code is overwritten in
  the file (`elftool_transform.c:142`); the index of an injected segment's wrapper is that
  of the last entry (`:129`).
* Writer: a failed write is reported as success (`elftool_write.c:92`); where the tables
  overlap, a section whose header an injection has overwritten is written over the
  beginning of the file (`:26`).
* Injection: behind an empty segment (an injection of no bytes) the next two get the same
  page, as `get_vaddr` keeps the first of two segments at one address
  (`elftool_transform.c:25`); `SegmentsDisjoint` therefore assumes `NoneEmpty`.
* Query: a name is compared over the length of what is asked for, so the first symbol
  whose name begins with it answers, though the header says "The name of the symbol."
  (`elftool_query.c:16`, `inc/elftool_query.h:33`); writing back what was read may be a
  `memcpy` between overlapping ranges (`:59`).
* Query: a symbol at the very start of a segment is not found (`elftool_query.c:24`), and
  one in `.bss` mostly is: its pointer shows what follows in the file (`:29`).
* Command: the options for configuration, hexdump and test have no effect; a binary for
  which `ft_lstnew` found no memory is passed over in silence; `bin.path`, which the
  messages print, is always NULL.

## 4. Proofs

A theorem here holds for every value of the constants under the named assumptions; the
run of the same module shows the same property on its instance, and the inductive
invariants were checked there before they were proved. Assumptions on constants are
those the code gives: relations between widths, finite memory, and what the parser has
established about an image that it accepted.

`ElfParse_proofs` (all widths, images and heap sizes with `WidthAssumption`,
`FilesAssumption`, `HeapAssumption`):

* `TypeCorrect`: type correctness; every wrap-around keeps its range.
* `InductiveInvariant`: `IInv`, the conjunction of `PhaseInv` (what a phase finds when
  it starts; that the header check was passed), `PhdrInv` and `ShdrInv` (each list
  entry is where the loop counted it, inside the image), `SymtabInv` (how
  `symtabstrndx`, `strtab` and `symtab` relate), and `SymsInv`. The properties are not
  inductive by themselves: that the two searches agree needs the parse's own
  `symtabstrndx` to be tied to the *last* symbol table, and that entries end inside the
  image needs the header check's overflow-free product, remembered from the first phase.
* `EntriesInImage`, `StrtabIsSymtabs`, `SymtabFoundAgain`, `SymsLieInImage`,
  `SymSections`: the safety properties of the run, from `IInv`. `SymsLieInImage` is about
  the offset itself: that a wrapped sum below the length puts it in the image
  (`ScopedInImage`) is so only where the sum cannot wrap, and the theorem names that case. `EntriesInImage` is for
  images whose length fits an `int` (`SmallImage`), where the wrapped product cannot
  hide a table.
* `ParseImplementsView`: the refinement of `ElfView`. It rests on `ViewInv`
  (`ViewInvariant`), which adds to `IInv` what the loops have done so far in the closed
  forms of the view: `ListsInv` (the two lists are the first entries of the tables, wrapped
  sums included, which `ModSum` shows to be wrapped products; a missing string table is
  missing in the image), `WalkInv` (the walk has come over exactly the symbols in the list,
  all acceptable, and the section each carries is the view's) and `ErrorInv` (an `r` that is
  not 0 has a reason: no memory, or an image that is not well formed). `CountBeyond` is the
  step from the loop to the view's count: while the walk goes on, any count of the table
  exceeds the symbols recorded. The theorem also covers what no image of the run can hold, a
  table of more symbols than the 16-bit index counts.

`LinkedList_proofs` (any finite set of nodes and any index, with `NodesAssumption`,
`IndexAssumption`, `MemoryAssumption`):

* `ListTyped`, `ListSpelled`, `ListMemory`, `GetCorrect`, from the inductive conjunction
  of `TypeOK`, `Spelled`, `NoLeakNoDangling` and `WalkInList` (what the walking pointer
  of a call in progress may be). The memory invariant is needed for the pointers (a new
  node is not in the list) and the pointers for the memory (the deleted node appears
  once). The specification proved is `Spec`, without `ft_lstrev`.
* `ListImplementsSeq`: the pointers implement `ListSeq`. The mapping reads the pointers
  recursively and consults no auxiliary variable; that such a reading exists and is the
  `chain` (`ChainIsRead`) is shown by descending from a least counterexample, with
  `WFMin` of the library, and then each step appends, adds in front, deletes, or
  stutters.

`NmSort_proofs` (all symbol tables and both classes): `TypeCorrect`, `SelectionOrdered`,
`LossesBounded`, `ListingPrinted`, `CrashExplained`, from `IInv`: the lists hold every
symbol at most once and no symbol in two of them, those waiting in table order,
`FilterInv` (the filter keeps the first printable symbol it finds and comes to the last
one of the table), `WalkInv` (`min` is the least name of the walk so far,
`indexSelected` the first place it has), `SortInv` (what is selected is sorted and comes before
all that waits), `LossInv` (what is missing has been counted in `lost`), `PrintInv` (what
has been printed is what the walk has passed) and `Counted`. `SelectionOrdered` shows that the stale
`indexSelected` is never used while names are below the sentinel: each walk of a
nonempty list finds a name before it ends. `LettersTold` has no invariant; it is a case
analysis over the thirteen tests against the legend, under the property's own hypothesis
on types and flags (`SectionTells`).

`ElfEdit_proofs` (all images as `IsImage` describes them, page sizes, address widths and
sequences of calls, with `BoundsAssumption`, `ImagesAssumption`): `TypeCorrect`,
`InjectionsStand`, `FirstNotesOnly`, `SegmentsStayDisjoint`. `IInv` ties together what
the properties only mention apart: `Layout` (the tables stay below the end of every
grown image), `WrapperInv` (each wrapper points to a cell of the table, the first ones in
order), `InjectedInv` (each returned transform's code lies behind the parsed image, below
the end, apart from all other codes), `PhaseInv` (what the fields of the transform
mean at each `pc` of a running injection; in the end, that the page it was given lies
behind the last segment), `CodeInv` (the code injected, and being injected, is there),
`ParsedInv` (the notes overwritten are the first ones), `SegmentsDisjoint` and `TodoInv`
(the writer's calls have their type). What these say of the table and the wrappers does
not depend on what the other bytes are (`Typed` instead of `TypeOK`), so that the proofs
about queries use the same lemmas. `InjectedMapped` is not inductive: that a later injection
leaves an earlier one alone needs that it takes another note and longer file, and this
in turn needs `ParsedInv`. `BoundsAssumption` says that no object exceeds
`PTRDIFF_MAX`, here `ObjectMod - 1`, which makes `Align` exact for file offsets; for addresses
it may wrap, and `SegmentsDisjoint` excludes that by hypothesis (`Fits`, which speaks of
the loaded segments only).

`ElfWrite_proofs` (extends `ElfEdit_proofs`): `FileIsImage`. The hard part is that the
calls overlap, and some of them write wrong bytes: the header behind the zeroes, the
stale wrapper of an overridden note, the entry too many. `WriteInv` says that what is
left to do is always the end of the *plan* (the positions and cells computed from the
image), that as long as no call has failed the file position is the planned one, and
that the cells of each *good* call that can be relied on stand in the file. A call is good
if it writes cells to where they are in the image and no later call of the plan writes
others there. It can be relied on (`Trusted`) if no call has failed, or if it writes a
segment and none of those failed: these calls are the last of the plan and each seeks
first (`SegmentsSeek`), so nothing before them matters. Every cell of a segment has a
good call among them (`SegmentHit`), and every other cell that has to be copied a good
call for the tables and sections, if the sections are where their headers say
(`HeadersKept`, which holds unless the tables overlap). A stale wrapper can write only
over its injection's own code, which the wrapper appended by that injection rewrites
later; that is why the theorem needs `~unlisted`.

`ElfQuery_proofs` (extends `ElfEdit_proofs`; all symbol tables, with `QueryAssumption`):
`HandedOutStays`, `PatchesStay`, `OnlyBssCorrupts` and the action property `SymbolsStay`.
A query overwrites parsed bytes and injected code, so `IInv` of the injection does not
hold here; `Shape` is the part of it that does, and no query disturbs it because a write
into a table ends the run. To it come `HandedInv` (a pointer into the current image was
handed out for a symbol of a segment whose entry is still the same: before an injection
overrides an entry it has replaced the image) and `PatchInv` (each patched address is
mapped by a segment, outside the tables, and holds the last write). A write to one symbol
must not hit what another one has patched: `ContentsApart` shows that two segments share
no byte of the file, the parser's by hypothesis, an injection's because its code lies
behind the parsed image and apart from all other codes. For `SymbolsStay` the new
segment's page lies behind every loaded segment (`AddressFound`), so it covers no symbol
that was found before.

These properties have hypotheses on the image, since for an arbitrary table they do not
hold: `WellPlaced` (a loaded segment is no longer in the file than in memory, lies in the
file, and shares no byte of it with another; a write to a symbol would otherwise show
up at another address), `SymbolsInside` (a symbol ends in its segment), and
`TablesUnnamed` (no symbol is the header or a table). Linkers lay out images so; the
images of the run `query` all satisfy them at every state.

`Getopt_proofs` and `Client_proofs` (all command lines, disks and failures):
`TypeCorrect`, `CommandUnderstood`, `LoadedFromDisk`, `LastIsWritten`,
`NothingElseHeld`, `EndExplained`, `DumpedWhole`. The lemmas of `Getopt_proofs` relate one step of
the left-to-right parser to `Meant` and `Named`, which count the `-o` before an
argument: the parity is shown by descending to a least counterexample. `IInv` of the
command joins `GetoptInv` (what was parsed so far is what the arguments so far mean),
`CountInv` (how many binaries are loaded, parsed and written at each `pc`), `ImageInv`
(the image in memory is that of the binary at the head), `FdInv` and `HeapInv` (which
descriptor is open at each `pc`, what the heap may hold), `DiskInv` (what the output file
holds, and that no other has changed), `ReadsDisk`, `LogInv` (the dumps done are the first of those due,
in their order), `CauseInv` and `DeathInv` (an error was caused by a binary or a failed call).
The memory invariant needs the counts, the causes need the image, and `ReadsDisk` needs
`DiskInv` because the output of one binary may be the next one.

Each property of a run also has mutated definitions (`Mut...`, next to the one they
replace) that TLC finds to break it.

Only model-checked:

* Liveness: `Terminates`, `CallsReturn`, `Ends`. Fairness and `ENABLED` are out of the
  prover's reach.

## 5. Not modelled, and plan

Order so far: parser, its abstract view, its proofs; lists and their proofs, as
everything rests on them; nm; injection and writer; queries on top of them; the command
with its options and its loader; then the proofs of nm, of the injection, of the writer,
of the command, of the refinement of the lists, of the queries, and of the refinement of
the parser. With it every invariant, action property and refinement that a run checks has
its theorem; only liveness is left to TLC. What could still be added:

1. A refinement for the writer: an abstract file to which each table, section and segment
   is laid out at once, with the order of the overlapping writes as its only choice.
2. `ft_lstrev` in the proved specification of the lists, with its finding as the exception.

Not modelled, and why:

* `ft_lstmap`, `ft_lstswap`, `elftool_printopt`: called by nothing. `elftool_add_phdr`:
  its only call is commented out.
* The text of the other dumps: columns, flag names, section names. They change no state.
  `LettersTell` and `BeyondNames` cover the two lookups that decide anything.
* Endianness: the library reads native fields and never consults `bin->endian` again.
* In `Client`, the insides of the parser, nm and the writer, which have modules of their
  own; a composition step by step would multiply the states without new interaction, as
  these three share nothing with the command but their `elftool_t` and their result.
* Queries of 32-bit images, overlapping freed and live memory, short writes, `lseek`
  failing.
* The build, the unit tests and the static analysis configuration.
