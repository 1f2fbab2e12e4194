-------------------------------- MODULE Client --------------------------------
(***************************************************************************)
(* The elftool command: main (src/client/main.c) runs Getopt, then elftool *)
(* (src/client/elftool.c), which loads, parses, dumps, writes and cleans   *)
(* one binary after the other.  The loader (src/lib/elftool_load.c) and    *)
(* the dispatcher with its dumps (src/lib/elftool_dump.c) are modelled     *)
(* here.  Of the parser, the nm dump and the writer only their outcome is: *)
(* ElfParse, NmSort and ElfEdit say what it depends on.                    *)
(*                                                                         *)
(* A file is a record of what the program can tell of it:                  *)
(*   parse   "ok", "bad" or "dies": the outcome of elftool_parse           *)
(*   class   the ELF class                                                 *)
(*   types   the p_type of each program header, as its highest and its     *)
(*           lowest four bits                                              *)
(*   nmDies  the filter of the nm dump runs off the symbol list            *)
(*   mapped  a segment or section holds the ELF header, so that the writer *)
(*           has it at offset 0                                            *)
(***************************************************************************)
EXTENDS Getopt, FiniteSets

CONSTANTS
  Files,        \* the contents of files
  DisksFor(_),  \* the disks a command line meets: the files by their paths
  MaxFaults     \* how many system calls and allocations may fail in a run

Directory == [kind |-> "directory"]
Missing == [kind |-> "missing"]
Nibble == 0..15
FileRecords ==
  [kind : {"file"}, parse : {"ok", "bad", "dies"}, class : {32, 64},
   types : Seq(Nibble \X Nibble), nmDies : BOOLEAN, mapped : BOOLEAN]

ASSUME FilesAssumption ==
  /\ Files \subseteq FileRecords
  /\ \A c \in CommandLines : \A d \in DisksFor(c) :
       \A p \in DOMAIN d : d[p] \in Files \cup {Directory}
  /\ MaxFaults \in Nat

VARIABLES
  disk,
  fds,     \* the open descriptors of the process
  fd,      \* fd of elftool_load
  heap,    \* what is allocated: its kind, and for which binary
  head,    \* the binary of the loop, as a position in bins
  bin,     \* mem, and syms: its list is whole, or as nm leaves it
  dump,    \* where elftool_dump stands
  log,     \* what has been printed: which dump, of which binary, from which list
  disk0, fds0,  \* auxiliary: the disk and the descriptors in the beginning
  loaded,  \* auxiliary: what elftool_load has left in bin->mem, one by one
  parsed,  \* auxiliary: how many binaries elftool_parse has accepted
  faults   \* auxiliary: what has failed without fault of the files

world == <<disk, fds, disk0, fds0>>
progress == <<heap, head, bin, dump, log, loaded, parsed>>
clientVars == <<world, fd, progress, faults>>
vars == <<optVars, clientVars>>
options == <<argv, i, opt, bins, dropped>>

EINVAL == 22
ENOMEM == 12
EFAULT == 14
NoBin == [mem |-> Missing, syms |-> "none"]

Init ==
  /\ GetoptInit
  /\ disk \in DisksFor(argv) /\ disk0 = disk
  /\ fds \in {{0, 1, 2}, {1, 2}} /\ fds0 = fds  \* standard input may be closed
  /\ fd = -1 /\ heap = {} /\ head = 1 /\ bin = NoBin /\ dump = 1
  /\ log = <<>> /\ loaded = <<>> /\ parsed = 0 /\ faults = {}

Fails(call) ==
  /\ Cardinality(faults) < MaxFaults
  /\ faults' = faults \cup {<<call, head>>}

At(d, path) == IF path \in DOMAIN d THEN d[path] ELSE Missing

----------------------------------------------------------------------------
GetoptStep == GetoptNext /\ UNCHANGED clientVars

UsageExit ==
  /\ pc = "usage"
  /\ pc' = "exit"
  /\ UNCHANGED <<options, r, clientVars>>

StartElftool ==
  /\ pc = "elftool"
  /\ IF bins = <<>> THEN r' = -1 /\ pc' = "exit" ELSE pc' = "load" /\ UNCHANGED r
  /\ UNCHANGED <<options, clientVars>>

(* elftool_load.  A descriptor 0 counts as a failure, but is closed.       *)
OpenFails ==
  /\ pc = "load"
  /\ \/ At(disk, bins[head]) = Missing /\ UNCHANGED faults
     \/ At(disk, bins[head]) # Missing /\ Fails("open")
  /\ r' = EINVAL /\ pc' = "clean"
  /\ UNCHANGED <<options, world, fd, progress>>

LowestFree == CHOOSE n \in 0..3 : n \notin fds /\ \A k \in 0..(n - 1) : k \in fds

Open ==
  /\ pc = "load" /\ At(disk, bins[head]) # Missing
  /\ fd' = LowestFree /\ fds' = fds \cup {LowestFree}
  /\ IF LowestFree = 0 THEN r' = EINVAL /\ pc' = "close" ELSE pc' = "fstat" /\ UNCHANGED r
  /\ UNCHANGED <<options, disk, disk0, fds0, progress, faults>>

Fstat ==
  /\ pc = "fstat"
  /\ \/ disk[bins[head]] # Directory /\ pc' = "read" /\ UNCHANGED <<r, faults>>
     \/ disk[bins[head]] = Directory /\ pc' = "close" /\ r' = EINVAL /\ UNCHANGED faults
     \/ disk[bins[head]] # Directory /\ pc' = "close" /\ r' = EINVAL /\ Fails("fstat")
  /\ UNCHANGED <<options, world, fd, progress>>

LoadNoMemory ==
  /\ pc = "read" /\ Fails("malloc")
  /\ r' = ENOMEM /\ pc' = "close"
  /\ UNCHANGED <<options, world, fd, progress>>

LoadInto(content) ==
  /\ pc' = "close"
  /\ heap' = heap \cup {<<"image", head>>}
  /\ bin' = [bin EXCEPT !.mem = content] /\ loaded' = Append(loaded, content)
  /\ UNCHANGED <<options, r, world, fd, head, dump, log, parsed>>

LoadRead == pc = "read" /\ LoadInto(disk[bins[head]]) /\ UNCHANGED faults

(* The inner r takes the failure: the buffer holds what malloc found, and  *)
(* the caller is told of a success.  A read of less than the file, too.    *)
ReadFails == pc = "read" /\ Fails("read") /\ \E c \in Files : LoadInto(c)

MutCloseFds == IF r = 0 THEN fds \ {fd} ELSE fds
CloseFds == fds \ {fd}

Close ==
  /\ pc = "close"
  /\ fds' = CloseFds /\ fd' = -1
  /\ pc' = IF r = 0 THEN "parse" ELSE "clean"
  /\ UNCHANGED <<options, r, disk, disk0, fds0, progress, faults>>

----------------------------------------------------------------------------
(* elftool_parse: its lists and the names of the symbols, all of them or,  *)
(* where it fails, those it had begun.                                     *)
Lists == {"phdr", "shdr", "syms"}
Allocate(kinds) == heap' = heap \cup {<<k, head>> : k \in kinds}

ParseAccepts ==
  /\ pc = "parse" /\ bin.mem.parse = "ok"
  /\ Allocate(Lists \cup {"names"}) /\ bin' = [bin EXCEPT !.syms = "whole"]
  /\ parsed' = parsed + 1 /\ dump' = 1 /\ pc' = "dump"
  /\ UNCHANGED <<options, r, world, fd, head, log, loaded, faults>>

ParseRejects ==
  /\ pc = "parse"
  /\ \/ bin.mem.parse = "bad" /\ UNCHANGED faults
     \/ bin.mem.parse # "bad" /\ Fails("malloc")
  /\ \E kinds \in {{}, {"phdr"}, {"phdr", "shdr"}, Lists \cup {"names"}} : Allocate(kinds)
  /\ r' = EFAULT /\ pc' = "clean"
  /\ UNCHANGED <<options, world, fd, head, bin, dump, log, loaded, parsed>>

Dies ==
  /\ pc' = "dead"
  /\ UNCHANGED <<options, r, clientVars>>

ParseDies == pc = "parse" /\ bin.mem.parse = "dies" /\ Dies

----------------------------------------------------------------------------
(* elftool_dump, in the order of its tests.                                *)
MutDumps == <<"ehdr", "phdr", "shdr", "nm", "syms">>
Dumps == <<"ehdr", "phdr", "shdr", "syms", "nm">>
AtDump(n) == pc = "dump" /\ dump <= Len(Dumps) /\ Dumps[dump] = n

SkipDump ==
  /\ \E n \in ToSet(Dumps) \ opt.set : AtDump(n)
  /\ dump' = dump + 1
  /\ UNCHANGED <<options, r, pc, world, fd, heap, head, bin, log, loaded, parsed, faults>>

Prints(n) ==
  /\ n \in opt.set /\ AtDump(n)
  /\ log' = Append(log, <<n, head, bin.syms>>)
  /\ dump' = dump + 1
  /\ UNCHANGED <<options, r, pc, world, fd, heap, head, loaded, parsed, faults>>

DumpEhdr == Prints("ehdr") /\ UNCHANGED bin

(* A type is named by its lowest four bits in a table of eight names; the  *)
(* 64-bit dump first masks off, with 0x60000000 and 0x70000000, the types  *)
(* of systems and processors.  What lies behind the table is no string, or *)
(* one by chance: the dump dies or goes on.                                *)
TypeNames == 8
OsSpecific(t) == (t[1] \div 2) % 4 # 0
ProcSpecific(t) == t[1] % 8 # 0
MutUnmasked(t) == TRUE
Unmasked(t) == bin.mem.class = 32 \/ ~(OsSpecific(t) \/ ProcSpecific(t))
BeyondNames(t) == Unmasked(t) /\ t[2] >= TypeNames

DumpPhdr == Prints("phdr") /\ UNCHANGED bin

PhdrDies ==
  /\ "phdr" \in opt.set /\ AtDump("phdr")
  /\ \E p \in 1..Len(bin.mem.types) : BeyondNames(bin.mem.types[p])
  /\ Dies

DumpShdr == Prints("shdr") /\ UNCHANGED bin

DumpSyms == Prints("syms") /\ UNCHANGED bin

(* It deletes from bin->syms and sorts it in place.                        *)
DumpNm ==
  /\ Prints("nm") /\ ~bin.mem.nmDies
  /\ bin' = [bin EXCEPT !.syms = "sorted"]

NmDies == "nm" \in opt.set /\ AtDump("nm") /\ bin.mem.nmDies /\ Dies

DumpsOver ==
  /\ pc = "dump" /\ dump > Len(Dumps)
  /\ pc' = IF "out" \in opt.set THEN "write" ELSE "clean"
  /\ UNCHANGED <<options, r, clientVars>>

----------------------------------------------------------------------------
(* elftool_injection calls elftool_write; its result is not looked at.     *)
WriteStep ==
  /\ pc = "write" /\ pc' = "clean"
  /\ UNCHANGED <<options, r, fds, disk0, fds0, fd, progress>>

MutTarget == bins[head]
Target == opt.outfile
Put(d, path, content) ==
  [p \in DOMAIN d \cup {path} |-> IF p = path THEN content ELSE d[p]]
Stores(content) == disk' = Put(disk, Target, content)

WriteOpenFails ==
  /\ WriteStep
  /\ \/ At(disk, Target) = Directory /\ UNCHANGED faults
     \/ At(disk, Target) # Directory /\ Fails("write")
  /\ UNCHANGED disk

Writable == WriteStep /\ At(disk, Target) # Directory

(* A copy has no ELF header unless something covers it.                    *)
Copy(file) == IF file.mapped THEN file ELSE [file EXCEPT !.parse = "bad"]

WriteFile == Writable /\ Stores(Copy(bin.mem)) /\ UNCHANGED faults

(* Truncated and left so, or with some writes missing.                     *)
WriteFails == Writable /\ Fails("write") /\ \E c \in Files : Stores(c)

----------------------------------------------------------------------------
(* elftool_bin_clean, and the next binary.  The image and the names stay.  *)
MutFreed == {"shdr", "phdr"}
Freed == {"shdr", "phdr", "syms"}
MutGoesOn == head < Len(bins)
GoesOn == r = 0 /\ head < Len(bins)
MutNextHead == head + 2
NextHead == head + 1

Clean ==
  /\ pc = "clean"
  /\ heap' = {h \in heap : h[1] \notin Freed}
  /\ head' = NextHead
  /\ bin' = NoBin
  /\ pc' = IF GoesOn THEN "load" ELSE "exit"
  /\ UNCHANGED <<options, r, world, fd, dump, log, loaded, parsed, faults>>

Exited == pc \in {"exit", "dead"} /\ UNCHANGED vars

Load == OpenFails \/ Open \/ Fstat \/ LoadNoMemory \/ LoadRead \/ ReadFails \/ Close
Parse == ParseAccepts \/ ParseRejects \/ ParseDies
Dump == SkipDump \/ DumpEhdr \/ DumpPhdr \/ PhdrDies \/ DumpShdr \/ DumpSyms \/ DumpNm
          \/ NmDies \/ DumpsOver
Write == WriteOpenFails \/ WriteFile \/ WriteFails
Next == GetoptStep \/ UsageExit \/ StartElftool \/ Load \/ Parse \/ Dump \/ Write
          \/ Clean \/ Exited

Spec == Init /\ [][Next]_vars
(* One thread, which is scheduled while it has a step to take.             *)
FairSpec == Spec /\ WF_vars(Next)

----------------------------------------------------------------------------
(* Every variable has its type; a path is an argument, or the default.     *)
TypeOK ==
  /\ i \in Nat /\ opt \in [set : SUBSET Marks, outfile : Paths] /\ bins \in Seq(Paths)
  /\ pc \in {"flags", "default", "bins", "usage", "elftool", "load", "fstat", "read",
             "close", "parse", "dump", "write", "clean", "exit", "dead"}
  /\ r \in {-1, 0, 1, EINVAL, ENOMEM, EFAULT}
  /\ \A p \in DOMAIN disk : disk[p] \in FileRecords \cup {Directory}
  /\ fds \subseteq 0..3 /\ fd \in -1..3
  /\ head \in 1..(Len(bins) + 1) /\ dump \in 1..6
  /\ bin \in [mem : FileRecords \cup {Missing}, syms : {"none", "whole", "sorted"}]

(* What the k-th binary is when it is its turn: the file on the disk, or,  *)
(* if it is the output file, the copy of the binary before it.             *)
Writes == "out" \in opt.set /\ At(disk0, opt.outfile) # Directory
Source(k) ==
  IF Writes /\ k > 1 /\ bins[k] = opt.outfile THEN Copy(loaded[k - 1])
  ELSE At(disk0, bins[k])

Failed(call) == \E f \in faults : f[1] = call

(* Every binary is read as it is at its turn, though earlier ones have     *)
(* been written over files named later, and one may be named repeatedly.   *)
(* Only a failed read puts anything else into the image.                   *)
ReadsDisk ==
  ~Failed("write") =>
    \A k \in 1..Len(loaded) : <<"read", k>> \notin faults => loaded[k] = Source(k)

(* Unless writing fails, the output file is in the end the copy of the     *)
(* last binary accepted; whatever fails, no other file has changed.        *)
OutfileHoldsLast ==
  /\ \A p \in (DOMAIN disk \cup DOMAIN disk0) \ {opt.outfile} : At(disk, p) = At(disk0, p)
  /\ pc = "exit" /\ ~Failed("write") =>
       disk = IF Writes /\ parsed > 0 THEN Put(disk0, opt.outfile, Copy(loaded[parsed]))
              ELSE disk0

(* Each accepted binary has each dump asked for once, binary by binary and *)
(* in their fixed order, up to where the run stands; and each is made from *)
(* the list the parser built, though nm takes that list apart.             *)
Place == [ehdr |-> 1, phdr |-> 2, shdr |-> 3, syms |-> 4, nm |-> 5]
Rank(entry) == 5 * entry[2] + Place[entry[1]]
Due == (opt.set \cap DOMAIN Place) \X (1..parsed) \X {"whole"}

DumpsWhole ==
  /\ \A p, q \in 1..Len(log) : p < q => Rank(log[p]) < Rank(log[q])
  /\ ToSet(log) \subseteq Due
  /\ \A d \in Due, e \in ToSet(log) : Rank(d) < Rank(e) => d \in ToSet(log)
  /\ pc \in {"load", "write", "clean", "exit"} => ToSet(log) = Due

(* Between binaries and at the end, also after failures and with standard  *)
(* input closed, the process holds the descriptors it began with, and of   *)
(* the memory the image and the names of each binary, nothing else.        *)
NothingHeld ==
  pc \in {"load", "exit"} =>
    /\ fds = fds0
    /\ heap \subseteq {"image", "names"} \X (1..Len(bins))
    /\ {<<"image", k>> : k \in 1..Len(loaded)} \subseteq heap

(* How a run ends.  With 0 only when all binaries were accepted; otherwise *)
(* the first failure has ended it, and unless a system call failed, by the *)
(* fault of that binary.  It dies only in the parser, in nm, or in the     *)
(* program headers, and there not on the types ELF defines nor, in a       *)
(* 64-bit image, on those left to systems and processors.                  *)
Good(file) == file.kind = "file" /\ file.parse = "ok"
Standard(t) == t[1] = 0 /\ t[2] \in 0..7
Reserved(t) == t[1] \in {6, 7}

EndingExplained ==
  /\ pc = "exit" /\ bins # <<>> =>
       IF r = 0 THEN parsed = Len(bins)
       ELSE /\ parsed < Len(bins) /\ Len(loaded) <= parsed + 1
            /\ faults = {} /\ 0 \in fds0 => ~Good(Source(parsed + 1))
  /\ pc = "dead" =>
       \/ bin.mem.parse = "dies"
       \/ "nm" \in opt.set /\ bin.mem.nmDies
       \/ "phdr" \in opt.set /\ \E p \in 1..Len(bin.mem.types) :
            LET t == bin.mem.types[p] IN
            ~Standard(t) /\ (bin.mem.class = 64 => ~Reserved(t))

(* elftool ends.                                                           *)
Ends == <>(pc \in {"exit", "dead"})

----------------------------------------------------------------------------
(* "@return 0 on success, non-zero on failure." (inc/elftool.h:73): with   *)
(* exit status 0 each binary has been read, and with -o the last one is in *)
(* the output file.                                                        *)
SuccessMeansDone ==
  pc = "exit" /\ r = 0 =>
    /\ ~Failed("read")
    /\ "out" \in opt.set => At(disk, opt.outfile) = Copy(loaded[Len(loaded)])
==============================================================================
