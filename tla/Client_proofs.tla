---------------------------- MODULE Client_proofs ----------------------------
(***************************************************************************)
(* The elftool command, for every command line, every disk it meets and    *)
(* any number of system calls and allocations that fail.                   *)
(***************************************************************************)
EXTENDS Client, Getopt_proofs

GetoptPhase == pc \in {"flags", "default", "bins", "usage", "elftool"}
Running == pc \in {"load", "fstat", "read", "close", "parse", "dump", "write", "clean"}

Types ==
  /\ GetoptTypes
  /\ pc \in {"flags", "default", "bins", "usage", "elftool", "load", "fstat", "read",
             "close", "parse", "dump", "write", "clean", "exit", "dead"}
  /\ r \in {-1, 0, 1, EINVAL, ENOMEM, EFAULT}
  /\ \A p \in DOMAIN disk : disk[p] \in FileRecords \cup {Directory}
  /\ \A p \in DOMAIN disk0 : disk0[p] \in FileRecords \cup {Directory}
  /\ fds0 \in {{0, 1, 2}, {1, 2}} /\ dump \in 1..6
  /\ bin \in [mem : FileRecords \cup {Missing}, syms : {"none", "whole", "sorted"}]
  /\ loaded \in Seq(FileRecords)

(* Nothing has been done yet.                                              *)
Untouched ==
  /\ disk = disk0 /\ fds = fds0 /\ fd = -1 /\ heap = {} /\ head = 1
  /\ loaded = <<>> /\ parsed = 0 /\ faults = {} /\ log = <<>>

(* How many binaries have been loaded and parsed, by where the loop of     *)
(* elftool stands.                                                         *)
CountInv ==
  /\ Running => head \in 1..Len(bins)
  /\ pc \in {"load", "fstat", "read"} => r = 0 /\ Len(loaded) = head - 1 /\ parsed = head - 1
  /\ pc = "close" => parsed = head - 1 /\ Len(loaded) = IF r = 0 THEN head ELSE head - 1
  /\ pc = "parse" => r = 0 /\ Len(loaded) = head /\ parsed = head - 1
  /\ pc \in {"dump", "write"} => r = 0 /\ Len(loaded) = head /\ parsed = head
  /\ pc = "clean" => IF r = 0 THEN Len(loaded) = head /\ parsed = head
                     ELSE Len(loaded) \in {head - 1, head} /\ parsed = head - 1
  /\ pc = "exit" =>
       \/ bins = <<>> /\ Untouched
       \/ /\ head \in 2..(Len(bins) + 1)
          /\ IF r = 0 THEN head = Len(bins) + 1 /\ Len(loaded) = head - 1 /\ parsed = head - 1
             ELSE Len(loaded) \in {head - 2, head - 1} /\ parsed = head - 2
  /\ head \in 1..(Len(bins) + 1)

(* The image in memory, the descriptors and the heap.                      *)
ImageInv ==
  /\ pc \in {"parse", "dump", "write"} \/ (pc = "close" /\ r = 0) => bin.mem = loaded[head]
  /\ pc \in {"fstat", "read"} => bins[head] \in DOMAIN disk
  /\ pc = "read" => disk[bins[head]] # Directory
FdInv ==
  IF pc \in {"fstat", "read", "close"} THEN fd \in 0..3 /\ fd \notin fds0 /\ fds = fds0 \cup {fd}
  ELSE fd = -1 /\ fds = fds0
HeapInv ==
  /\ heap \subseteq (Lists \cup {"image", "names"}) \X (1..Len(bins))
  /\ pc \in {"load", "fstat", "read", "exit"} => heap \subseteq {"image", "names"} \X (1..Len(bins))
  /\ {<<"image", k>> : k \in 1..Len(loaded)} \subseteq heap

(* The disk: what elftool found, but for the output file.                  *)
Written == IF pc \in {"dump", "write"} THEN parsed - 1 ELSE parsed
DiskInv ==
  /\ \A p : p # opt.outfile => (p \in DOMAIN disk <=> p \in DOMAIN disk0) /\ At(disk, p) = At(disk0, p)
  /\ At(disk, opt.outfile) = Directory <=> At(disk0, opt.outfile) = Directory
  /\ pc = "write" => "out" \in opt.set
  /\ pc # "dead" /\ ~Failed("write") =>
       disk = IF Writes /\ Written > 0 THEN Put(disk0, opt.outfile, Copy(loaded[Written])) ELSE disk0

(* Which binary has failed, and that it was its own fault.                 *)
Blameless == faults = {} /\ 0 \in fds0
CauseInv ==
  /\ pc \in {"close", "clean"} /\ r # 0 /\ Blameless => ~Good(Source(head))
  /\ pc = "exit" /\ bins # <<>> /\ r # 0 /\ Blameless => ~Good(Source(head - 1))
DeathInv ==
  pc = "dead" =>
    \/ bin.mem.parse = "dies"
    \/ "nm" \in opt.set /\ bin.mem.nmDies
    \/ "phdr" \in opt.set /\ \E p \in 1..Len(bin.mem.types) :
         LET t == bin.mem.types[p] IN
         ~Standard(t) /\ (bin.mem.class = 64 => ~Reserved(t))

(* What has been printed: of the binaries before the last one accepted all *)
(* that is due, of that one what elftool_dump has gone past, from the list *)
(* as the parser built it.                                                 *)
PrintedTo(m) == {e \in Due : e[2] < parsed \/ Place[e[1]] < m}
Names == DOMAIN Place
Entries == Names \X Nat \X {"whole"}
LogInv ==
  /\ pc = "dump" /\ dump < 6 => bin.syms = "whole"
  /\ \A p, q \in 1..Len(log) : p < q => Rank(log[p]) < Rank(log[q])
  /\ log \in Seq(Entries) /\ parsed \in Nat
  /\ \E m \in 1..6 :
       /\ pc = "dump" => m = dump
       /\ pc \notin {"dump", "dead"} => m = 6
       /\ ToSet(log) = PrintedTo(m)

IInv ==
  /\ GetoptInv /\ Types
  /\ GetoptPhase => Untouched
  /\ CountInv /\ ImageInv /\ FdInv /\ HeapInv /\ DiskInv /\ ReadsDisk /\ LogInv
  /\ CauseInv /\ DeathInv

----------------------------------------------------------------------------
(* Files, and paths on a disk.                                             *)

LEMMA FileTypes ==
  /\ Files \subseteq FileRecords
  /\ \A f \in FileRecords : f.kind = "file" /\ Copy(f) \in FileRecords
  /\ Directory \notin FileRecords /\ Missing \notin FileRecords /\ Missing # Directory
<1>1. \A f \in FileRecords : [f EXCEPT !.parse = "bad"] \in FileRecords
  BY DEF FileRecords
<1>2. \A f \in FileRecords : f.kind = "file"
  BY DEF FileRecords
<1>3. Directory.kind = "directory" /\ Missing.kind = "missing"
  BY DEF Directory, Missing
<1>4. QED
  BY <1>1, <1>2, <1>3, FilesAssumption DEF Copy

(* What is put last counts.                                                *)
LEMMA PutTwice ==
  \A d, path, other, content : Put(Put(d, path, other), path, content) = Put(d, path, content)
BY DEF Put

----------------------------------------------------------------------------
(* The steps of elftool, after the option parser.                          *)
ElftoolNext == UsageExit \/ StartElftool \/ Load \/ Parse \/ Dump \/ Write \/ Clean

LEMMA Shape ==
  ASSUME ElftoolNext
  PROVE  /\ UNCHANGED <<argv, i, opt, bins, dropped, disk0, fds0>>
         /\ pc' \notin {"flags", "default", "bins", "usage", "elftool"}
         /\ pc \notin {"exit", "dead"} /\ faults \subseteq faults'
         /\ UsageExit \/ StartElftool \/ Running
<1>1. CASE UsageExit \/ StartElftool
  BY <1>1 DEF UsageExit, StartElftool, options, clientVars, world, progress
<1>2. CASE Load
  BY <1>2 DEF Load, OpenFails, Open, Fstat, LoadNoMemory, LoadRead, ReadFails, Close, LoadInto,
              Fails, options, world, progress, Running
<1>3. CASE Parse
  BY <1>3 DEF Parse, ParseAccepts, ParseRejects, ParseDies, Dies, Fails,
              options, clientVars, world, progress, Running
<1>4. CASE Dump
  BY <1>4 DEF Dump, SkipDump, DumpEhdr, DumpPhdr, PhdrDies, DumpShdr, DumpSyms, DumpNm, NmDies,
              DumpsOver, Prints, AtDump, Dies, options, clientVars, world, progress, Running
<1>5. CASE Write \/ Clean
  BY <1>5 DEF Write, WriteOpenFails, WriteFile, WriteFails, Writable, WriteStep, Clean, Fails,
              options, world, progress, Running
<1>6. QED
  BY <1>1, <1>2, <1>3, <1>4, <1>5 DEF ElftoolNext

LEMMA GetoptStays ==
  ASSUME GetoptInv, ElftoolNext
  PROVE  GetoptInv'
<1>1. GetoptTypes' /\ pc' \notin {"flags", "default", "bins", "usage", "elftool"}
  BY Shape DEF GetoptInv, GetoptTypes
<1>2. GetoptAnswers'
  BY <1>1 DEF GetoptAnswers
<1>3. QED
  BY <1>1, <1>2 DEF GetoptInv

LEMMA TypesStay ==
  ASSUME Types, GetoptInv, CountInv, ImageInv, ElftoolNext
  PROVE  Types'
<1>1. GetoptTypes'
  BY GetoptStays DEF GetoptInv
<1>2. disk0' = disk0 /\ fds0' = fds0
  BY Shape
<1> DEFINE Held == [mem : FileRecords \cup {Missing}, syms : {"none", "whole", "sorted"}]
<1>3. bin \in Held /\ dump \in 1..6 /\ loaded \in Seq(FileRecords)
  BY DEF Types
<1>4. CASE UsageExit \/ StartElftool
  BY <1>1, <1>4 DEF Types, UsageExit, StartElftool, clientVars, world, progress
<1>5. CASE OpenFails \/ Open \/ Fstat \/ LoadNoMemory \/ Close
  BY <1>1, <1>5 DEF Types, OpenFails, Open, Fstat, LoadNoMemory, Close, world, progress
<1>6. ASSUME NEW c \in FileRecords, pc = "read", LoadInto(c)
      PROVE  Types'
  <2>1. bin' \in Held /\ loaded' \in Seq(FileRecords)
    BY <1>3, <1>6 DEF LoadInto
  <2>2. QED
    BY <1>1, <1>6, <2>1 DEF Types, LoadInto, world
<1>7. CASE LoadRead
  <2>1. disk[bins[head]] \in FileRecords
    BY <1>7 DEF LoadRead, Types, ImageInv
  <2>2. QED
    BY <1>6, <1>7, <2>1 DEF LoadRead
<1>8. CASE ReadFails
  BY <1>6, <1>8, FileTypes DEF ReadFails
<1>9. CASE Parse
  <2>1. bin' \in Held
    BY <1>3, <1>9 DEF Parse, ParseAccepts, ParseRejects, ParseDies, Dies, clientVars, progress
  <2>2. QED
    BY <1>1, <1>9, <2>1 DEF Types, Parse, ParseAccepts, ParseRejects, ParseDies, Dies, options,
                            clientVars, world, progress
<1>10. CASE Dump
  <2>1. bin' \in Held
    BY <1>3, <1>10 DEF Dump, SkipDump, DumpEhdr, DumpPhdr, PhdrDies, DumpShdr, DumpSyms, DumpNm, NmDies,
                      DumpsOver, Prints, Dies, clientVars, progress
  <2>2. dump' \in 1..6
    <3>1. Len(Dumps) = 5
      BY DEF Dumps
    <3>2. QED
      BY <1>3, <1>10, <3>1
         DEF Dump, SkipDump, DumpEhdr, DumpPhdr, PhdrDies, DumpShdr, DumpSyms, DumpNm, NmDies,
             DumpsOver, Prints, AtDump, Dies, clientVars, progress
  <2>3. QED
    BY <1>1, <1>10, <2>1, <2>2
       DEF Types, Dump, SkipDump, DumpEhdr, DumpPhdr, PhdrDies, DumpShdr, DumpSyms, DumpNm, NmDies,
           DumpsOver, Prints, Dies, options, clientVars, world, progress
<1>11. ASSUME NEW c \in FileRecords, Stores(c)
       PROVE  \A p \in DOMAIN disk' : disk'[p] \in FileRecords \cup {Directory}
  BY <1>11 DEF Types, Stores, Put
<1>12. CASE Write
  <2>1. bin.mem \in FileRecords \/ ~WriteFile
    <3>1. pc = "write" => loaded[head] \in FileRecords
      BY <1>3 DEF CountInv, Running
    <3>2. QED
      BY <3>1 DEF WriteFile, Writable, WriteStep, ImageInv
  <2>2. \A p \in DOMAIN disk' : disk'[p] \in FileRecords \cup {Directory}
    BY <1>11, <1>12, <2>1, FileTypes DEF Types, Write, WriteOpenFails, WriteFile, WriteFails
  <2>3. QED
    BY <1>1, <1>12, <2>2 DEF Types, Write, WriteOpenFails, WriteFile, WriteFails, Writable, WriteStep,
                             progress
<1>13. CASE Clean
  <2>1. bin' \in Held
    BY <1>13, FileTypes DEF Clean, NoBin
  <2>2. QED
    BY <1>1, <1>13, <2>1 DEF Types, Clean, world
<1>14. QED
  BY <1>4, <1>5, <1>7, <1>8, <1>9, <1>10, <1>12, <1>13 DEF ElftoolNext, Load

LEMMA CountStays ==
  ASSUME Types, GetoptInv, CountInv, GetoptPhase => Untouched, ElftoolNext
  PROVE  CountInv'
<1>1. bins' = bins /\ bins \in Seq(Paths) /\ Len(bins) \in Nat /\ (bins # <<>> => Len(bins) > 0)
  BY Shape DEF Types, GetoptTypes
<1>2. loaded \in Seq(FileRecords) /\ Len(loaded) \in Nat
  BY DEF Types
<1>3. CASE UsageExit
  <2>1. bins = <<>> /\ Untouched /\ Len(bins) = 0
    BY <1>3 DEF UsageExit, GetoptInv, GetoptPhase
  <2>2. QED
    BY <1>1, <1>3, <2>1 DEF UsageExit, CountInv, Untouched, Running, clientVars, world, progress
<1>4. CASE StartElftool
  <2>1. Untouched /\ r = 0 /\ Len(loaded) = 0
    BY <1>4 DEF StartElftool, GetoptInv, GetoptPhase, Untouched
  <2>2. CASE bins = <<>>
    BY <1>1, <1>4, <2>1, <2>2
       DEF StartElftool, CountInv, Untouched, Running, clientVars, world, progress
  <2>3. CASE bins # <<>>
    BY <1>1, <1>4, <2>1, <2>3
       DEF StartElftool, CountInv, Untouched, Running, clientVars, world, progress
  <2>4. QED
    BY <2>2, <2>3
<1>5. CASE OpenFails \/ Open \/ Fstat \/ LoadNoMemory \/ Close
  BY <1>1, <1>2, <1>5 DEF OpenFails, Open, Fstat, LoadNoMemory, Close, CountInv, Running, world,
                          progress, EINVAL, ENOMEM
<1>6. ASSUME NEW c, pc = "read", LoadInto(c)
      PROVE  CountInv'
  <2>1. Len(loaded') = Len(loaded) + 1
    BY <1>2, <1>6 DEF LoadInto
  <2>2. QED
    BY <1>1, <1>2, <1>6, <2>1 DEF LoadInto, CountInv, Running
<1>7. CASE LoadRead \/ ReadFails
  BY <1>6, <1>7 DEF LoadRead, ReadFails
<1>8. CASE Parse
  BY <1>1, <1>2, <1>8 DEF Parse, ParseAccepts, ParseRejects, ParseDies, Dies, CountInv, Running,
                          clientVars, world, progress, EFAULT
<1>9. CASE Dump
  BY <1>1, <1>2, <1>9 DEF Dump, SkipDump, DumpEhdr, DumpPhdr, PhdrDies, DumpShdr, DumpSyms, DumpNm,
                          NmDies, DumpsOver, Prints, AtDump, Dies, CountInv, Running, options,
                          clientVars, world, progress
<1>10. CASE Write
  BY <1>1, <1>2, <1>10 DEF Write, WriteOpenFails, WriteFile, WriteFails, Writable, WriteStep, CountInv,
                           Running, progress
<1>11. CASE Clean
  BY <1>1, <1>2, <1>11 DEF Clean, NextHead, GoesOn, CountInv, Running
<1>12. QED
  BY <1>3, <1>4, <1>5, <1>7, <1>8, <1>9, <1>10, <1>11 DEF ElftoolNext, Load

LEMMA LoadedNext ==
  ASSUME Types, CountInv, pc = "read", NEW c \in FileRecords, LoadInto(c)
  PROVE  head' = head /\ head \in Nat /\ Len(loaded) = head - 1
         /\ Len(loaded') = head /\ loaded'[head] = c
<1>1. loaded \in Seq(FileRecords) /\ Len(loaded) = head - 1 /\ head \in Nat
  BY DEF Types, CountInv, GetoptTypes
<1>2. head' = head /\ loaded' = Append(loaded, c)
  BY DEF LoadInto
<1>3. Len(loaded) + 1 = head
  BY <1>1
<1>4. QED
  BY <1>1, <1>2, <1>3

LEMMA ImageStays ==
  ASSUME Types, CountInv, ImageInv, ElftoolNext
  PROVE  ImageInv'
<1>1. bins' = bins
  BY Shape
<1>2. CASE UsageExit \/ StartElftool
  BY <1>2 DEF UsageExit, StartElftool, ImageInv
<1>3. CASE OpenFails \/ Open \/ Fstat \/ LoadNoMemory \/ Close
  BY <1>1, <1>3 DEF OpenFails, Open, Fstat, LoadNoMemory, Close, ImageInv, CountInv, At, Directory,
                    Missing, world, progress, EINVAL, ENOMEM
<1>4. ASSUME NEW c \in FileRecords, pc = "read", LoadInto(c)
      PROVE  ImageInv'
  <2>1. bin'.mem = c
    BY <1>4 DEF LoadInto, Types
  <2>2. loaded'[head'] = c
    BY <1>4, LoadedNext
  <2>3. QED
    BY <1>4, <2>1, <2>2 DEF LoadInto, ImageInv
<1>5. CASE LoadRead \/ ReadFails
  <2>1. LoadRead => disk[bins[head]] \in FileRecords
    BY DEF LoadRead, Types, ImageInv
  <2>2. QED
    BY <1>4, <1>5, <2>1, FileTypes DEF LoadRead, ReadFails
<1>6. CASE Parse
  BY <1>6 DEF Parse, ParseAccepts, ParseRejects, ParseDies, Dies, ImageInv, Types,
              clientVars, progress
<1>7. CASE Dump
  BY <1>7 DEF Dump, SkipDump, DumpEhdr, DumpPhdr, PhdrDies, DumpShdr, DumpSyms, DumpNm, NmDies,
              DumpsOver, Prints, AtDump, Dies, ImageInv, Types, clientVars, progress
<1>8. CASE Write \/ Clean
  BY <1>8 DEF Write, WriteOpenFails, WriteFile, WriteFails, Writable, WriteStep, Clean, GoesOn, ImageInv
<1>9. QED
  BY <1>2, <1>3, <1>5, <1>6, <1>7, <1>8 DEF ElftoolNext, Load

LEMMA FreeDescriptor ==
  ASSUME fds \in {{0, 1, 2}, {1, 2}}
  PROVE  LowestFree = IF 0 \in fds THEN 3 ELSE 0
<1>1. ASSUME fds = {0, 1, 2}
      PROVE  LowestFree = 3
  <2>1. \A n \in 0..3 : (n \notin fds /\ \A k \in 0..(n - 1) : k \in fds) <=> n = 3
    BY <1>1
  <2>2. QED
    BY <2>1 DEF LowestFree
<1>2. ASSUME fds = {1, 2}
      PROVE  LowestFree = 0
  <2>1. \A n \in 0..3 : (n \notin fds /\ \A k \in 0..(n - 1) : k \in fds) <=> n = 0
    BY <1>2
  <2>2. QED
    BY <2>1 DEF LowestFree
<1>3. QED
  BY <1>1, <1>2

LEMMA DescriptorsStay ==
  ASSUME Types, FdInv, ElftoolNext
  PROVE  FdInv'
<1>1. fds0' = fds0 /\ fds0 \in {{0, 1, 2}, {1, 2}}
  BY Shape DEF Types
<1>2. CASE Open
  BY <1>1, <1>2, FreeDescriptor DEF Open, FdInv
<1>3. CASE Close
  BY <1>1, <1>3 DEF Close, CloseFds, FdInv
<1>4. CASE OpenFails \/ Fstat \/ LoadNoMemory \/ LoadRead \/ ReadFails
  BY <1>1, <1>4 DEF OpenFails, Fstat, LoadNoMemory, LoadRead, ReadFails, LoadInto, FdInv, world
<1>5. CASE UsageExit \/ StartElftool \/ Parse
  BY <1>1, <1>5 DEF UsageExit, StartElftool, Parse, ParseAccepts, ParseRejects, ParseDies, Dies, FdInv,
                    clientVars, world
<1>6. CASE Dump
  BY <1>1, <1>6 DEF Dump, SkipDump, DumpEhdr, DumpPhdr, PhdrDies, DumpShdr, DumpSyms, DumpNm,
                    NmDies, DumpsOver, Prints, AtDump, Dies, FdInv, clientVars, world
<1>7. CASE Write \/ Clean
  BY <1>1, <1>7 DEF Write, WriteOpenFails, WriteFile, WriteFails, Writable, WriteStep, Clean, FdInv, world
<1>8. QED
  BY <1>2, <1>3, <1>4, <1>5, <1>6, <1>7 DEF ElftoolNext, Load

LEMMA HeapStays ==
  ASSUME Types, GetoptInv, CountInv, HeapInv, GetoptPhase => Untouched, ElftoolNext
  PROVE  HeapInv'
<1>1. /\ bins' = bins /\ Len(bins) \in Nat /\ Len(loaded) \in Nat
      /\ Running => head \in 1..Len(bins)
  BY Shape DEF Types, GetoptTypes, CountInv
<1>2. CASE UsageExit \/ StartElftool
  BY <1>1, <1>2 DEF UsageExit, StartElftool, HeapInv, GetoptPhase, Untouched, clientVars, progress
<1>3. CASE OpenFails \/ Open \/ Fstat \/ LoadNoMemory \/ Close
  BY <1>1, <1>3 DEF OpenFails, Open, Fstat, LoadNoMemory, Close, HeapInv, progress
<1>4. ASSUME NEW c, pc = "read", LoadInto(c)
      PROVE  HeapInv'
  <2>1. Len(loaded') = Len(loaded) + 1 /\ Len(loaded) = head - 1 /\ head \in 1..Len(bins)
    BY <1>4 DEF CountInv, Types, LoadInto, Running
  <2>2. \A k \in 1..Len(loaded') : k \in 1..Len(loaded) \/ k = head
    BY <1>1, <2>1
  <2>3. heap' = heap \cup {<<"image", head>>} /\ pc' = "close"
    BY <1>4 DEF LoadInto
  <2>4. QED
    BY <1>1, <2>1, <2>2, <2>3 DEF HeapInv
<1>5. CASE LoadRead \/ ReadFails
  BY <1>4, <1>5 DEF LoadRead, ReadFails
<1>6. CASE Parse
  <2>1. ASSUME NEW kinds, kinds \subseteq Lists \cup {"names"}, Allocate(kinds), Running
        PROVE  /\ heap \subseteq heap'
               /\ heap' \subseteq (Lists \cup {"image", "names"}) \X (1..Len(bins))
    BY <1>1, <2>1 DEF Allocate, HeapInv
  <2>2. /\ heap \subseteq heap' /\ UNCHANGED loaded
        /\ heap' \subseteq (Lists \cup {"image", "names"}) \X (1..Len(bins))
    BY <1>6, <2>1 DEF Parse, ParseAccepts, ParseRejects, ParseDies, Dies, Running, HeapInv, Lists,
                      clientVars, progress
  <2>3. pc' \in {"dump", "clean", "dead"}
    BY <1>6 DEF Parse, ParseAccepts, ParseRejects, ParseDies, Dies
  <2>4. QED
    BY <1>1, <2>2, <2>3 DEF HeapInv
<1>7. CASE Dump
  BY <1>1, <1>7 DEF Dump, SkipDump, DumpEhdr, DumpPhdr, PhdrDies, DumpShdr, DumpSyms, DumpNm,
                    NmDies, DumpsOver, Prints, AtDump, Dies, HeapInv, clientVars, progress
<1>8. CASE Write
  BY <1>1, <1>8 DEF Write, WriteOpenFails, WriteFile, WriteFails, Writable, WriteStep, HeapInv, progress
<1>9. CASE Clean
  <2>1. heap' = {h \in heap : h[1] \notin {"shdr", "phdr", "syms"}} /\ loaded' = loaded
    BY <1>9 DEF Clean, Freed
  <2>2. heap' \subseteq {"image", "names"} \X (1..Len(bins))
    BY <2>1 DEF HeapInv, Lists
  <2>3. {<<"image", k>> : k \in 1..Len(loaded)} \subseteq heap'
    BY <2>1 DEF HeapInv
  <2>4. QED
    BY <1>1, <2>1, <2>2, <2>3 DEF HeapInv
<1>10. QED
  BY <1>2, <1>3, <1>5, <1>6, <1>7, <1>8, <1>9 DEF ElftoolNext, Load

(* What has been said of the sources of the binaries loaded so far stays   *)
(* true: elftool only adds to what it has loaded.                          *)
LEMMA SourcesStay ==
  ASSUME Types, ElftoolNext, Len(loaded') >= Len(loaded),
         \A k \in 1..Len(loaded) : loaded'[k] = loaded[k]
  PROVE  \A k \in 1..(Len(loaded) + 1) : Source(k)' = Source(k)
<1>1. UNCHANGED <<opt, bins, disk0>> /\ Writes' = Writes /\ Len(loaded) \in Nat
  BY Shape DEF Types, Writes, At
<1>2. SUFFICES ASSUME NEW k \in 1..(Len(loaded) + 1)
               PROVE  Source(k)' = Source(k)
  OBVIOUS
<1>3. At(disk0, bins[k])' = At(disk0, bins[k])
  BY <1>1 DEF At
<1>4. k > 1 => loaded'[k - 1] = loaded[k - 1]
  BY <1>1
<1>5. QED
  BY <1>1, <1>3, <1>4 DEF Source, Copy

LEMMA LoadedGrows ==
  ASSUME Types, CountInv, ImageInv, ElftoolNext
  PROVE  /\ Len(loaded') >= Len(loaded)
         /\ \A k \in 1..Len(loaded) : loaded'[k] = loaded[k]
         /\ LoadRead \/ ReadFails \/ UNCHANGED loaded
<1>1. loaded \in Seq(FileRecords) /\ Len(loaded) \in Nat
  BY DEF Types
<1>2. CASE UNCHANGED loaded
  BY <1>1, <1>2
<1>3. ASSUME NEW c \in FileRecords, LoadInto(c)
      PROVE  /\ Len(loaded') >= Len(loaded)
             /\ \A k \in 1..Len(loaded) : loaded'[k] = loaded[k]
  BY <1>1, <1>3 DEF LoadInto
<1>4. CASE LoadRead \/ ReadFails
  <2>1. LoadRead => disk[bins[head]] \in FileRecords
    BY DEF LoadRead, Types, ImageInv
  <2>2. QED
    BY <1>3, <1>4, <2>1, FileTypes DEF LoadRead, ReadFails
<1>5. CASE UsageExit \/ StartElftool \/ OpenFails \/ Open \/ Fstat \/ LoadNoMemory \/ Close
  BY <1>2, <1>5 DEF UsageExit, StartElftool, OpenFails, Open, Fstat, LoadNoMemory, Close,
                    clientVars, progress
<1>6. CASE Parse \/ Write \/ Clean
  BY <1>2, <1>6 DEF Parse, ParseAccepts, ParseRejects, ParseDies, Dies, Write, WriteOpenFails,
                    WriteFile, WriteFails, Writable, WriteStep, Clean, clientVars, progress
<1>7. CASE Dump
  BY <1>2, <1>7 DEF Dump, SkipDump, DumpEhdr, DumpPhdr, PhdrDies, DumpShdr, DumpSyms, DumpNm, NmDies,
                    DumpsOver, Prints, Dies, clientVars, progress
<1>8. QED
  BY <1>4, <1>5, <1>6, <1>7, <1>2 DEF ElftoolNext, Load

(* The file that open finds is the one the binary's turn is about.         *)
LEMMA DiskIsSource ==
  ASSUME Types, CountInv, DiskInv, pc \in {"load", "fstat", "read"}, ~Failed("write")
  PROVE  At(disk, bins[head]) = Source(head)
<1>1. head \in 1..Len(bins) /\ parsed = head - 1 /\ Written = head - 1 /\ Len(bins) \in Nat
  BY DEF CountInv, Running, Written, Types, GetoptTypes
<1>2. disk = IF Writes /\ Written > 0 THEN Put(disk0, opt.outfile, Copy(loaded[Written])) ELSE disk0
  BY DEF DiskInv
<1>3. CASE Writes /\ head > 1
  <2>1. disk = Put(disk0, opt.outfile, Copy(loaded[head - 1]))
    BY <1>1, <1>2, <1>3
  <2>2. At(disk, bins[head]) = IF bins[head] = opt.outfile THEN Copy(loaded[head - 1])
                               ELSE At(disk0, bins[head])
    BY <2>1 DEF Put, At
  <2>3. QED
    BY <1>3, <2>2 DEF Source
<1>4. CASE ~(Writes /\ head > 1)
  BY <1>1, <1>2, <1>4 DEF Source
<1>5. QED
  BY <1>3, <1>4

LEMMA FailedStays ==
  ASSUME ElftoolNext
  PROVE  \A call : Failed(call) => Failed(call)'
BY Shape DEF Failed

LEMMA FailureSeen ==
  ASSUME NEW call, Fails(call)
  PROVE  Failed(call)'
<1>1. <<call, head>> \in faults' /\ <<call, head>>[1] = call
  BY DEF Fails
<1>2. QED
  BY <1>1 DEF Failed

LEMMA ReadsDiskStays ==
  ASSUME Types, CountInv, ImageInv, DiskInv, ReadsDisk, ElftoolNext
  PROVE  ReadsDisk'
<1>1. SUFFICES ASSUME ~Failed("write")', NEW k \in 1..Len(loaded'), <<"read", k>> \notin faults'
               PROVE  loaded'[k] = Source(k)'
  BY DEF ReadsDisk
<1>2. ~Failed("write") /\ <<"read", k>> \notin faults /\ Len(loaded) \in Nat
  BY <1>1, FailedStays, Shape DEF Types
<1>3. CASE k \in 1..Len(loaded)
  <2>1. loaded[k] = Source(k)
    BY <1>2, <1>3 DEF ReadsDisk
  <2>2. loaded'[k] = loaded[k] /\ Source(k)' = Source(k)
    BY <1>2, <1>3, LoadedGrows, SourcesStay
  <2>3. QED
    BY <2>1, <2>2
<1>4. CASE k \notin 1..Len(loaded)
  <2>1. LoadRead \/ ReadFails
    BY <1>4, LoadedGrows
  <2>2. pc = "read" /\ Len(loaded) = head - 1 /\ loaded \in Seq(FileRecords)
    BY <2>1 DEF LoadRead, ReadFails, CountInv, Types
  <2>3. PICK c \in FileRecords : LoadInto(c) /\ (LoadRead => c = disk[bins[head]])
    <3>1. LoadRead => disk[bins[head]] \in FileRecords
      BY DEF LoadRead, Types, ImageInv
    <3>2. QED
      BY <2>1, <3>1, FileTypes DEF LoadRead, ReadFails
  <2>4. Len(loaded') = head /\ loaded'[head] = c /\ head \in Nat
    BY <2>2, <2>3, LoadedNext
  <2>5. k = head
    BY <1>2, <1>4, <2>2, <2>4
  <2>6. LoadRead /\ c = At(disk, bins[head])
    BY <1>1, <2>1, <2>2, <2>3, <2>5 DEF ReadFails, Fails, ImageInv, At
  <2>7. c = Source(head)
    BY <1>2, <2>2, <2>6, DiskIsSource
  <2>8. Source(k)' = Source(k)
    BY <1>2, <2>2, <2>5, LoadedGrows, SourcesStay
  <2>9. QED
    BY <2>4, <2>5, <2>7, <2>8
<1>5. QED
  BY <1>3, <1>4

(* A file is written to where opt says, and nowhere else.                  *)
LEMMA StoresAt ==
  ASSUME DiskInv, NEW c, c # Directory, Writable, Stores(c), opt' = opt, disk0' = disk0
  PROVE  /\ \A p : p # opt'.outfile => /\ p \in DOMAIN disk' <=> p \in DOMAIN disk0'
                                       /\ At(disk, p)' = At(disk0, p)'
         /\ At(disk', opt'.outfile) # Directory /\ At(disk0', opt'.outfile) # Directory
<1>1. disk' = Put(disk, opt.outfile, c)
  BY DEF Stores, Target
<1>2. At(disk0, opt.outfile) # Directory
  BY DEF Writable, DiskInv, Target
<1>3. \A p : p # opt.outfile => /\ p \in DOMAIN disk' <=> p \in DOMAIN disk
                               /\ At(disk, p)' = At(disk, p)
  BY <1>1 DEF Put, At
<1>4. At(disk', opt.outfile) = c
  BY <1>1 DEF Put, At
<1>5. \A p : At(disk0, p)' = At(disk0, p)
  BY DEF At
<1>6. QED
  BY <1>2, <1>3, <1>4, <1>5 DEF DiskInv

LEMMA DiskStays ==
  ASSUME Types, CountInv, ImageInv, DiskInv, GetoptPhase => Untouched, ElftoolNext
  PROVE  DiskInv'
<1>1. UNCHANGED <<opt, disk0>> /\ Writes' = Writes
  BY Shape DEF Writes, At
<1>2. ASSUME UNCHANGED disk
      PROVE  /\ \A p : p # opt.outfile' => /\ p \in DOMAIN disk' <=> p \in DOMAIN disk0'
                                           /\ At(disk, p)' = At(disk0, p)'
             /\ At(disk', opt'.outfile) = Directory <=> At(disk0', opt'.outfile) = Directory
  BY <1>1, <1>2 DEF DiskInv, At
<1>3. pc' = "write" => "out" \in opt'.set
  <2>1. CASE Dump
    BY <1>1, <2>1 DEF Dump, SkipDump, DumpEhdr, DumpPhdr, PhdrDies, DumpShdr, DumpSyms, DumpNm, NmDies,
                      DumpsOver, Prints, AtDump, Dies
  <2>2. CASE ~Dump
    BY <2>2 DEF ElftoolNext, UsageExit, StartElftool, Load, OpenFails, Open, Fstat, LoadNoMemory,
                LoadRead, ReadFails, LoadInto, Close, Parse, ParseAccepts, ParseRejects, ParseDies, Dies,
                Write, WriteOpenFails, WriteFile, WriteFails, Writable, WriteStep, Clean
  <2>3. QED
    BY <2>1, <2>2
<1>4. pc # "dead" /\ parsed \in Nat /\ Written \in Nat /\ Written <= Len(loaded)
  <2>1. Len(loaded) \in Nat /\ pc # "dead"
    BY Shape DEF Types
  <2>2. CASE GetoptPhase
    BY <2>1, <2>2 DEF Untouched, GetoptPhase, Written
  <2>3. CASE Running
    BY <2>1, <2>3 DEF CountInv, Running, Written
  <2>4. QED
    BY <2>1, <2>2, <2>3, Shape DEF GetoptPhase, UsageExit, StartElftool
<1>5. ASSUME UNCHANGED disk,
             Written' = Written \/ ~Writes \/ pc' = "dead" \/ Failed("write")'
      PROVE  DiskInv'
  <2>1. SUFFICES ASSUME ~Failed("write")', pc' # "dead"
                 PROVE  disk' = IF Writes' /\ Written' > 0
                                THEN Put(disk0, opt.outfile, Copy(loaded[Written]))' ELSE disk0'
    BY <1>1, <1>2, <1>3, <1>5 DEF DiskInv
  <2>2. disk = IF Writes /\ Written > 0 THEN Put(disk0, opt.outfile, Copy(loaded[Written])) ELSE disk0
    BY <1>4, <2>1, FailedStays DEF DiskInv
  <2>3. Writes /\ Written > 0 => loaded'[Written'] = loaded[Written]
    BY <1>4, <1>5, <2>1, LoadedGrows DEF Types
  <2>4. Writes /\ Written > 0 =>
          Put(disk0, opt.outfile, Copy(loaded[Written]))' = Put(disk0, opt.outfile, Copy(loaded[Written]))
    BY <1>1, <2>3 DEF Put, Copy
  <2>5. QED
    BY <1>1, <1>5, <2>1, <2>2, <2>4
<1>6. CASE UsageExit \/ StartElftool \/ Load
  <2>1. UNCHANGED <<disk, parsed>> /\ pc \notin {"dump", "write"} /\ pc' \notin {"dump", "write"}
    BY <1>6 DEF UsageExit, StartElftool, Load, OpenFails, Open, Fstat, LoadNoMemory, LoadRead, ReadFails,
                LoadInto, Close, clientVars, world, progress
  <2>2. QED
    BY <1>5, <2>1 DEF Written
<1>7. CASE Parse
  <2>1. UNCHANGED disk /\ (pc' = "dead" \/ Written' = Written)
    BY <1>4, <1>7 DEF Parse, ParseAccepts, ParseRejects, ParseDies, Dies, Written, clientVars, world
  <2>2. QED
    BY <1>5, <2>1
<1>8. CASE Dump
  <2>1. UNCHANGED disk /\ (Written' = Written \/ ~Writes \/ pc' = "dead")
    BY <1>8 DEF Dump, SkipDump, DumpEhdr, DumpPhdr, PhdrDies, DumpShdr, DumpSyms, DumpNm, NmDies,
                DumpsOver, Prints, AtDump, Dies, Written, Writes, clientVars, world, progress
  <2>2. QED
    BY <1>5, <2>1
<1>9. CASE Clean
  BY <1>5, <1>9 DEF Clean, Written, world
<1>10. CASE WriteOpenFails
  <2>1. At(disk, Target) = Directory => ~Writes
    BY DEF DiskInv, Target, Writes
  <2>2. Fails("write") => Failed("write")'
    BY FailureSeen
  <2>3. QED
    BY <1>5, <1>10, <2>1, <2>2 DEF WriteOpenFails
<1>11. CASE WriteFails
  <2>1. PICK c \in Files : Writable /\ Stores(c)
    BY <1>11 DEF WriteFails
  <2>2. c # Directory
    BY FileTypes
  <2>3. Failed("write")'
    BY <1>11, FailureSeen DEF WriteFails
  <2>4. QED
    BY <1>1, <1>3, <2>1, <2>2, <2>3, StoresAt DEF DiskInv
<1>12. CASE WriteFile
  <2>1. /\ Writable /\ Stores(Copy(bin.mem)) /\ bin.mem = loaded[head] /\ Len(loaded) = head
        /\ parsed = head /\ head \in 1..Len(bins) /\ Written = head - 1 /\ "out" \in opt.set
    BY <1>12 DEF WriteFile, Writable, WriteStep, ImageInv, CountInv, Running, Written, DiskInv
  <2>2. UNCHANGED <<loaded, parsed, head, faults>> /\ pc' = "clean"
    BY <1>12 DEF WriteFile, Writable, WriteStep, progress
  <2>3. loaded[head] \in FileRecords /\ head \in Nat /\ head > 0
    BY <2>1 DEF Types, GetoptTypes
  <2>4. Copy(bin.mem) # Directory
    BY <2>1, <2>3, FileTypes
  <2>5. Writes /\ Written' = head
    BY <2>1, <2>2 DEF Writable, DiskInv, Writes, Target, Written
  <2>6. ~Failed("write") => disk' = Put(disk0, opt.outfile, Copy(loaded[head]))
    <3>1. ASSUME ~Failed("write")
          PROVE  disk = IF Written > 0 THEN Put(disk0, opt.outfile, Copy(loaded[Written])) ELSE disk0
      BY <1>4, <2>5, <3>1 DEF DiskInv
    <3>2. disk' = Put(disk, opt.outfile, Copy(loaded[head]))
      BY <2>1 DEF Stores, Target
    <3>3. QED
      BY <3>1, <3>2, PutTwice
  <2>7. Put(disk0, opt.outfile, Copy(loaded[Written]))' = Put(disk0, opt.outfile, Copy(loaded[head]))
    <3>1. loaded'[Written'] = loaded[head]
      BY <2>2, <2>5
    <3>2. QED
      BY <1>1, <3>1 DEF Put, Copy
  <2>8. Failed("write")' = Failed("write")
    BY <2>2 DEF Failed
  <2>9. QED
    BY <1>1, <1>3, <2>1, <2>3, <2>4, <2>5, <2>6, <2>7, <2>8, StoresAt DEF DiskInv
<1>13. QED
  BY <1>6, <1>7, <1>8, <1>9, <1>10, <1>11, <1>12 DEF ElftoolNext, Write

(* A binary that ends the run although nothing else has failed is no good  *)
(* ELF file.                                                               *)
LEMMA CauseStays ==
  ASSUME Types, GetoptInv, CountInv, ImageInv, FdInv, DiskInv, ReadsDisk, CauseInv, GetoptPhase => Untouched,
         ElftoolNext
  PROVE  CauseInv'
<1>1. Missing.kind = "missing" /\ Directory.kind = "directory"
  BY DEF Missing, Directory
<1>2. fds0' = fds0 /\ bins' = bins /\ (Blameless' => Blameless)
  BY Shape DEF Blameless
<1>3. Running => head \in Nat /\ head - 1 \in Nat /\ head - 1 <= Len(loaded) /\ Len(loaded) \in Nat
                 /\ head \in 1..(Len(loaded) + 1)
  BY DEF CountInv, Running, Types, GetoptTypes
<1>4. Running /\ head' = head => Source(head)' = Source(head)
  <2>1. PICK h : h = head
    OBVIOUS
  <2>2. Running => Source(h)' = Source(h)
    BY <1>3, <2>1, LoadedGrows, SourcesStay
  <2>3. QED
    BY <2>1, <2>2
<1>5. Blameless => ~Failed("write")
  BY DEF Blameless, Failed
<1>6. Fails("open") \/ Fails("fstat") \/ Fails("malloc") => ~Blameless'
  BY DEF Fails, Blameless
<1>7. pc \in {"load", "fstat", "read"} /\ Blameless => At(disk, bins[head]) = Source(head)
  BY <1>5, DiskIsSource
<1>8. CASE UsageExit \/ StartElftool
  <2>1. UsageExit => bins = <<>>
    BY DEF UsageExit, GetoptInv
  <2>2. QED
    BY <1>2, <1>8, <2>1 DEF UsageExit, StartElftool, CauseInv
<1>9. ASSUME Running, head' = head, pc' # "exit",
             pc' \in {"close", "clean"} /\ r' # 0 /\ Blameless' => ~Good(Source(head))
      PROVE  CauseInv'
  <2>1. SUFFICES ASSUME pc' \in {"close", "clean"}, r' # 0, Blameless'
                 PROVE  ~Good(Source(head)')
    BY <1>9 DEF CauseInv, Good
  <2>2. QED
    BY <1>4, <1>9, <2>1
<1>10. CASE OpenFails
  <2>1. Running /\ head' = head /\ pc' = "clean" /\ pc = "load"
    BY <1>10 DEF OpenFails, Running, progress
  <2>2. Blameless' => Source(head) = Missing
    BY <1>2, <1>6, <1>7, <1>10, <2>1 DEF OpenFails
  <2>3. QED
    BY <1>1, <1>9, <2>1, <2>2 DEF Good
<1>11. CASE Open
  <2>1. Running /\ head' = head /\ pc' # "exit" /\ r = 0
    BY <1>11 DEF Open, Running, progress, CountInv
  <2>2. r' # 0 => ~Blameless'
    BY <1>2, <1>11, <2>1, FreeDescriptor DEF Open, Blameless, FdInv, Types
  <2>3. QED
    BY <1>9, <2>1, <2>2
<1>12. CASE Fstat
  <2>1. Running /\ head' = head /\ pc' # "exit" /\ r = 0 /\ pc = "fstat"
    BY <1>12 DEF Fstat, Running, progress, CountInv
  <2>2. At(disk, bins[head]) = disk[bins[head]]
    BY <2>1 DEF ImageInv, At
  <2>3. r' # 0 /\ Blameless' => Source(head) = Directory
    BY <1>2, <1>6, <1>7, <1>12, <2>1, <2>2 DEF Fstat
  <2>4. QED
    BY <1>1, <1>9, <2>1, <2>3 DEF Good
<1>13. CASE LoadNoMemory
  <2>1. Running /\ head' = head /\ pc' # "exit"
    BY <1>13 DEF LoadNoMemory, Running, progress
  <2>2. QED
    BY <1>6, <1>9, <1>13, <2>1 DEF LoadNoMemory
<1>14. CASE LoadRead \/ ReadFails
  <2>1. Running /\ head' = head /\ pc' # "exit" /\ r' = 0
    BY <1>14 DEF LoadRead, ReadFails, LoadInto, Running, CountInv
  <2>2. QED
    BY <1>9, <2>1
<1>15. CASE Close
  <2>1. Running /\ head' = head /\ pc' # "exit" /\ r' = r /\ pc = "close"
    BY <1>15 DEF Close, Running, progress
  <2>2. QED
    BY <1>2, <1>9, <2>1 DEF CauseInv
<1>16. CASE Parse
  <2>1. /\ Running /\ head' = head /\ pc' # "exit" /\ r = 0 /\ bin.mem = loaded[head]
        /\ head \in 1..Len(loaded)
    BY <1>3, <1>16 DEF Parse, ParseAccepts, ParseRejects, ParseDies, Dies, Running, CountInv, ImageInv,
                clientVars, progress
  <2>2. r' # 0 /\ Blameless' => bin.mem.parse = "bad"
    BY <1>6, <1>16, <2>1 DEF Parse, ParseAccepts, ParseRejects, ParseDies, Dies
  <2>3. Blameless => loaded[head] = Source(head)
    BY <1>5, <2>1 DEF ReadsDisk, Blameless
  <2>4. QED
    BY <1>2, <1>9, <2>1, <2>2, <2>3 DEF Good
<1>17. CASE Dump \/ Write
  <2>1. Running /\ head' = head /\ pc' # "exit" /\ r' = 0
    BY <1>17 DEF Dump, SkipDump, DumpEhdr, DumpPhdr, PhdrDies, DumpShdr, DumpSyms, DumpNm, NmDies,
                DumpsOver, Prints, AtDump, Dies, Write, WriteOpenFails, WriteFile, WriteFails, Writable,
                WriteStep, Running, CountInv, clientVars, progress
  <2>2. QED
    BY <1>9, <2>1
<1>18. CASE Clean
  <2>1. /\ Running /\ head' = head + 1 /\ pc = "clean" /\ pc' \in {"load", "exit"}
        /\ UNCHANGED <<r, loaded>>
    BY <1>18 DEF Clean, NextHead, GoesOn, Running
  <2>2. PICK h : h = head
    OBVIOUS
  <2>3. h \in 1..(Len(loaded) + 1) /\ head' - 1 = h
    BY <1>3, <2>1, <2>2
  <2>4. Source(h)' = Source(h)
    BY <2>3, LoadedGrows, SourcesStay
  <2>5. r # 0 /\ Blameless => ~Good(Source(h))
    BY <2>1, <2>2 DEF CauseInv
  <2>6. r' # 0 /\ Blameless' => ~Good(Source(h)')
    BY <1>2, <2>1, <2>4, <2>5
  <2>7. Source(head - 1)' = Source(h)'
    BY <2>3 DEF Source
  <2>8. QED
    BY <2>1, <2>6, <2>7 DEF CauseInv, Good
<1>19. QED
  BY <1>8, <1>10, <1>11, <1>12, <1>13, <1>14, <1>15, <1>16, <1>17, <1>18 DEF ElftoolNext, Load

(* The types ELF defines have names, and the 64-bit dump masks off those   *)
(* that are reserved.                                                      *)
LEMMA NamedTypes ==
  ASSUME NEW t \in Nibble \X Nibble, BeyondNames(t)
  PROVE  ~Standard(t) /\ (bin.mem.class = 64 => ~Reserved(t))
<1>1. t[2] >= 8
  BY DEF BeyondNames, TypeNames
<1>2. ~Standard(t)
  BY <1>1 DEF Standard, Nibble
<1>3. ASSUME bin.mem.class = 64 PROVE ~Reserved(t)
  <2>1. t[1] % 8 = 0
    BY <1>3 DEF BeyondNames, Unmasked, ProcSpecific
  <2>2. QED
    BY <2>1 DEF Reserved, Nibble
<1>4. QED
  BY <1>2, <1>3

LEMMA DeathStays ==
  ASSUME Types, CountInv, ImageInv, ElftoolNext
  PROVE  DeathInv'
<1>1. pc # "dump" \/ (bin.mem = loaded[head] /\ head \in 1..Len(loaded))
  BY DEF ImageInv, CountInv, Running, Types, GetoptTypes
<1>2. pc = "dump" => bin.mem.types \in Seq(Nibble \X Nibble)
  <2>1. pc = "dump" => loaded[head] \in FileRecords
    BY <1>1 DEF Types
  <2>2. \A f \in FileRecords : f.types \in Seq(Nibble \X Nibble)
    BY DEF FileRecords
  <2>3. QED
    BY <1>1, <2>1, <2>2
<1>3. CASE ParseDies \/ NmDies
  BY <1>3 DEF ParseDies, NmDies, Dies, DeathInv, clientVars, progress, options
<1>4. CASE PhdrDies
  <2>1. PICK p \in 1..Len(bin.mem.types) : BeyondNames(bin.mem.types[p])
    BY <1>4 DEF PhdrDies
  <2>2. PICK t : t = bin.mem.types[p]
    OBVIOUS
  <2>3. t \in Nibble \X Nibble
    BY <1>2, <1>4, <2>2, ElementOfSeq DEF PhdrDies, AtDump
  <2>4. ~Standard(t) /\ (bin.mem.class = 64 => ~Reserved(t))
    BY <2>1, <2>2, <2>3, NamedTypes
  <2>5. UNCHANGED <<bin, opt>> /\ "phdr" \in opt.set
    BY <1>4 DEF PhdrDies, Dies, clientVars, progress, options
  <2>6. QED
    BY <2>1, <2>2, <2>4, <2>5 DEF DeathInv, Standard, Reserved
<1>5. CASE ~(ParseDies \/ NmDies \/ PhdrDies)
  <2>1. pc' # "dead"
    BY <1>5, Shape DEF ElftoolNext, UsageExit, StartElftool, Load, OpenFails, Open, Fstat, LoadNoMemory,
                LoadRead, ReadFails, LoadInto, Close, Parse, ParseAccepts, ParseRejects, Dump, SkipDump,
                DumpEhdr, DumpPhdr, DumpShdr, DumpSyms, DumpNm, DumpsOver, Prints, AtDump,
                Write, WriteOpenFails, WriteFile, WriteFails, Writable, WriteStep, Clean
  <2>2. QED
    BY <2>1 DEF DeathInv
<1>6. QED
  BY <1>3, <1>4, <1>5

----------------------------------------------------------------------------
LEMMA NothingLogged == log = <<>> /\ parsed = 0 /\ pc \notin {"dump", "dead"} => LogInv
<1> SUFFICES ASSUME log = <<>>, parsed = 0, pc \notin {"dump", "dead"}
             PROVE  LogInv
  OBVIOUS
<1>1. ToSet(log) = {} /\ PrintedTo(6) = {}
  BY DEF ToSet, PrintedTo, Due
<1>2. log \in Seq(Entries) /\ Len(log) = 0
  OBVIOUS
<1>3. QED
  BY <1>1, <1>2 DEF LogInv

LEMMA Initially == Init => IInv
<1> SUFFICES ASSUME Init PROVE IInv
  OBVIOUS
<1>1. GetoptInv /\ pc = "flags" /\ r = 0 /\ bins = <<>>
  BY GetoptInitial DEF Init, GetoptInit
<1>2. Types
  <2>1. \A p \in DOMAIN disk : disk[p] \in FileRecords \cup {Directory}
    BY <1>1, FilesAssumption DEF Init, GetoptInv, GetoptTypes
  <2>2. QED
    BY <1>1, <2>1 DEF Init, Types, GetoptInv, NoBin
<1>3. Untouched
  BY DEF Init, Untouched
<1>4. Len(bins) = 0 /\ Len(loaded) = 0
  BY <1>1, <1>3 DEF Untouched
<1>5. CountInv /\ ImageInv /\ FdInv
  BY <1>1, <1>3, <1>4 DEF CountInv, ImageInv, FdInv, Running, Untouched
<1>6. HeapInv
  BY <1>3, <1>4 DEF HeapInv, Untouched
<1>7. DiskInv
  BY <1>1, <1>3 DEF DiskInv, Untouched, Written
<1>8. ReadsDisk /\ CauseInv /\ DeathInv
  BY <1>1, <1>4 DEF ReadsDisk, CauseInv, DeathInv
<1>9. LogInv
  BY <1>1, <1>3, NothingLogged DEF Untouched
<1>10. QED
  BY <1>1, <1>2, <1>3, <1>5, <1>6, <1>7, <1>8, <1>9 DEF IInv

(* While the arguments are read, nothing else happens.                     *)
LEMMA GetoptIsQuiet ==
  ASSUME IInv, GetoptStep
  PROVE  IInv'
<1>1. /\ pc \in {"flags", "default", "bins"} /\ pc' \in {"flags", "default", "bins", "usage", "elftool"}
      /\ r' \in {-1, 0, 1} \cup {r}
  BY DEF GetoptStep, GetoptNext, HelpFlag, SetFlag, TestFlag, OutfileFlag, OutfileMissing, FlagsOver,
         DefaultBinary, PushBinary, BinariesOver, AtFlag
<1>2. GetoptInv'
  BY GetoptKeeps DEF IInv, GetoptStep
<1>3. UNCHANGED <<disk, fds, disk0, fds0, fd, heap, head, bin, dump, log, loaded, parsed, faults>>
  BY DEF GetoptStep, clientVars, world, progress
<1>4. Untouched /\ Untouched'
  BY <1>1, <1>3 DEF IInv, GetoptPhase, Untouched
<1>5. Types'
  <2>1. r' \in {-1, 0, 1, EINVAL, ENOMEM, EFAULT}
    BY <1>1 DEF IInv, Types
  <2>2. QED
    BY <1>1, <1>2, <1>3, <2>1 DEF IInv, Types, GetoptInv
<1>6. Len(loaded') = 0 /\ Len(bins') \in Nat
  BY <1>4, <1>5 DEF Untouched, Types, GetoptTypes
<1>7. CountInv' /\ ImageInv' /\ FdInv'
  BY <1>1, <1>4, <1>6 DEF CountInv, ImageInv, FdInv, Running, Untouched
<1>8. HeapInv'
  BY <1>4, <1>6 DEF HeapInv, Untouched
<1>9. DiskInv'
  BY <1>1, <1>4 DEF DiskInv, Untouched, Written, At
<1>10. ReadsDisk' /\ CauseInv' /\ DeathInv'
  BY <1>1, <1>6 DEF ReadsDisk, CauseInv, DeathInv
<1>11. LogInv'
  <2>1. log' = <<>> /\ parsed' = 0 /\ pc' \notin {"dump", "dead"}
    BY <1>1, <1>4 DEF Untouched
  <2>2. (log = <<>> /\ parsed = 0 /\ pc \notin {"dump", "dead"} => LogInv)'
    BY NothingLogged, PTL
  <2>3. QED
    BY <2>1, <2>2
<1>12. QED
  BY <1>2, <1>4, <1>5, <1>7, <1>8, <1>9, <1>10, <1>11 DEF IInv

(* The places of the dumps.                                                *)
LEMMA Places ==
  /\ DOMAIN Place = {"ehdr", "phdr", "shdr", "syms", "nm"}
  /\ \A n \in DOMAIN Place : Place[n] \in 1..5 /\ Dumps[Place[n]] = n
  /\ \A p \in 1..5 : Dumps[p] \in DOMAIN Place /\ Place[Dumps[p]] = p
  /\ Len(Dumps) = 5 /\ ToSet(Dumps) = DOMAIN Place
<1>1. DOMAIN Place = {"ehdr", "phdr", "shdr", "syms", "nm"}
  BY DEF Place
<1>2. /\ Place["ehdr"] = 1 /\ Place["phdr"] = 2 /\ Place["shdr"] = 3
      /\ Place["syms"] = 4 /\ Place["nm"] = 5
  BY DEF Place
<1>3. /\ Dumps[1] = "ehdr" /\ Dumps[2] = "phdr" /\ Dumps[3] = "shdr"
      /\ Dumps[4] = "syms" /\ Dumps[5] = "nm" /\ Len(Dumps) = 5 /\ DOMAIN Dumps = 1..5
  BY DEF Dumps
<1>4. \A p \in 1..5 : p = 1 \/ p = 2 \/ p = 3 \/ p = 4 \/ p = 5
  OBVIOUS
<1>5. \A p \in 1..5 : Dumps[p] \in DOMAIN Place /\ Place[Dumps[p]] = p
  BY <1>1, <1>2, <1>3, <1>4
<1>6. \A n \in DOMAIN Place : Place[n] \in 1..5 /\ Dumps[Place[n]] = n
  BY <1>1, <1>2, <1>3
<1>7. ToSet(Dumps) = DOMAIN Place
  BY <1>3, <1>5, <1>6 DEF ToSet
<1>8. QED
  BY <1>1, <1>3, <1>5, <1>6, <1>7

(* The log of a run that prints nothing in this step.                      *)
LEMMA LogSame ==
  ASSUME LogInv, UNCHANGED <<log, parsed, opt>>,
         pc' = "dump" => pc = "dump" /\ dump' = dump /\ bin' = bin,
         pc = "dump" => pc' \in {"dump", "dead"} \/ dump = 6,
         pc = "dead" => pc' = "dead"
  PROVE  LogInv'
<1>1. PICK m \in 1..6 : /\ pc = "dump" => m = dump
                        /\ pc \notin {"dump", "dead"} => m = 6
                        /\ ToSet(log) = PrintedTo(m)
  BY DEF LogInv
<1>2. /\ pc' = "dump" => m = dump'
      /\ pc' \notin {"dump", "dead"} => m = 6
  BY <1>1
<1>3. /\ pc' = "dump" /\ dump' < 6 => bin'.syms = "whole"
      /\ \A p, q \in 1..Len(log) : p < q => Rank(log[p]) < Rank(log[q])
      /\ log \in Seq(Entries)
  BY DEF LogInv
<1>4. ToSet(log)' = ToSet(log) /\ PrintedTo(m)' = PrintedTo(m)
  BY DEF PrintedTo, Due, ToSet
<1>5. QED
  BY <1>1, <1>2, <1>3, <1>4 DEF LogInv, Rank

LEMMA LogStays ==
  ASSUME Types, CountInv, LogInv, ElftoolNext
  PROVE  LogInv'
<1>1. opt' = opt /\ bins' = bins
  BY Shape
<1>2. CASE UsageExit \/ StartElftool
  BY <1>1, <1>2, LogSame DEF UsageExit, StartElftool, clientVars, progress
<1>3. CASE Load
  BY <1>1, <1>3, LogSame DEF Load, OpenFails, Open, Fstat, LoadNoMemory, LoadRead, ReadFails, Close,
                             LoadInto, world, progress
<1>4. CASE ParseRejects \/ ParseDies
  BY <1>1, <1>4, LogSame DEF ParseRejects, ParseDies, Dies, clientVars, progress
<1>5. CASE PhdrDies \/ NmDies
  BY <1>1, <1>5, LogSame DEF PhdrDies, NmDies, AtDump, Dies, clientVars, progress
<1>6. CASE DumpsOver
  <2>1. dump = 6
    BY <1>6, Places DEF DumpsOver, Types
  <2>2. QED
    BY <1>1, <1>6, <2>1, LogSame DEF DumpsOver, clientVars, progress
<1>7. CASE Write \/ Clean
  BY <1>1, <1>7, LogSame DEF Write, WriteOpenFails, WriteFile, WriteFails, Writable, WriteStep, Clean,
                             progress
<1>8. parsed \in Nat
  BY DEF LogInv
<1>9. /\ \A p, q \in 1..Len(log) : p < q => Rank(log[p]) < Rank(log[q])
      /\ log \in Seq(Entries)
  BY DEF LogInv
<1>10. CASE ParseAccepts
  <2>1. /\ pc = "parse" /\ pc' = "dump" /\ dump' = 1 /\ parsed' = parsed + 1 /\ log' = log
        /\ bin'.syms = "whole" /\ parsed \in Nat
    BY <1>8, <1>10 DEF ParseAccepts, Types
  <2>2. ToSet(log) = PrintedTo(6)
    BY <2>1 DEF LogInv
  <2>3. PICK due : due = Due'
    OBVIOUS
  <2>4. PrintedTo(1)' = {e \in due : e[2] < parsed + 1 \/ Place[e[1]] < 1}
    BY <2>1, <2>3 DEF PrintedTo
  <2>5. due = (opt.set \cap DOMAIN Place) \X (1..(parsed + 1)) \X {"whole"}
    BY <1>1, <2>1, <2>3 DEF Due
  <2>6. PrintedTo(1)' = PrintedTo(6)
    BY <2>1, <2>4, <2>5, Places DEF PrintedTo, Due
  <2>7. ToSet(log)' = ToSet(log)
    BY <2>1 DEF ToSet
  <2>8. QED
    BY <1>8, <1>9, <2>1, <2>2, <2>6, <2>7 DEF LogInv, Rank
<1>11. CASE SkipDump
  <2>1. /\ pc = "dump" /\ dump \in 1..5 /\ Dumps[dump] \notin opt.set
        /\ UNCHANGED <<pc, bin, log, parsed>> /\ dump' = dump + 1
    BY <1>11, Places DEF SkipDump, AtDump, Types
  <2>2. ToSet(log) = PrintedTo(dump)
    BY <2>1 DEF LogInv
  <2>3. \A n \in opt.set \cap DOMAIN Place : Place[n] < dump <=> Place[n] < dump + 1
    BY <2>1, Places
  <2>4. PrintedTo(dump + 1) = PrintedTo(dump)
    BY <2>3 DEF PrintedTo, Due
  <2>5. /\ ToSet(log)' = ToSet(log)
        /\ \A m : PrintedTo(m)' = PrintedTo(m)
    BY <1>1, <2>1 DEF ToSet, PrintedTo, Due
  <2>6. bin'.syms = "whole"
    BY <2>1 DEF LogInv
  <2>7. PICK m \in 1..6 : m = dump'
    BY <2>1
  <2>8. ToSet(log)' = PrintedTo(m)'
    BY <2>1, <2>2, <2>4, <2>5, <2>7
  <2>9. QED
    BY <1>8, <1>9, <2>1, <2>6, <2>7, <2>8 DEF LogInv, Rank
<1>12. ASSUME NEW n, Prints(n), n \in DOMAIN Place, pc = "dump",
              dump' < 6 => bin'.syms = "whole"
       PROVE  LogInv'
  <2> DEFINE x == <<n, parsed, "whole">>
  <2>1. /\ pc' = "dump" /\ dump \in 1..5 /\ Place[n] = dump /\ n \in opt.set /\ parsed' = parsed
        /\ parsed \in Nat \ {0} /\ dump' = dump + 1 /\ log' = Append(log, x)
    <3>1. dump \in 1..5 /\ Place[n] = dump
      BY <1>12, Places DEF Prints, AtDump, Types
    <3>2. head = parsed /\ parsed \in Nat \ {0} /\ bin.syms = "whole"
      BY <1>12, <3>1 DEF CountInv, LogInv, Running, Types, GetoptTypes
    <3>3. QED
      BY <1>12, <3>1, <3>2 DEF Prints
  <2>2. ToSet(log) = PrintedTo(dump)
    BY <1>12 DEF LogInv
  <2> HIDE DEF x
  <2>3. x \in Entries /\ x[1] = n /\ x[2] = parsed
    <3>1. parsed \in Nat /\ n \in Names
      BY <1>8, <1>12 DEF Names
    <3>2. x \in Entries
      BY <3>1 DEF x, Entries
    <3>3. x[1] = n /\ x[2] = parsed
      BY DEF x
    <3>4. QED
      BY <3>2, <3>3
  <2>4. /\ log' \in Seq(Entries) /\ Len(log') = Len(log) + 1
        /\ \A p \in 1..Len(log) : log'[p] = log[p]
        /\ log'[Len(log) + 1] = x /\ Len(log) \in Nat
    BY <1>9, <2>1, <2>3
  <2>5. ToSet(log)' = ToSet(log) \cup {x}
    <3>1. DOMAIN log = 1..Len(log) /\ DOMAIN log' = 1..(Len(log) + 1)
      BY <1>9, <2>4
    <3>2. QED
      BY <2>4, <3>1 DEF ToSet
  <2>6. \A e \in PrintedTo(dump) : Rank(e) < Rank(x)
    <3>1. SUFFICES ASSUME NEW e \in PrintedTo(dump)
                   PROVE  5 * e[2] + Place[e[1]] < 5 * x[2] + Place[x[1]]
      BY DEF Rank
    <3>2. /\ e[1] \in DOMAIN Place /\ e[2] \in 1..parsed
          /\ e[2] < parsed \/ Place[e[1]] < dump
      BY DEF PrintedTo, Due
    <3>3. Place[e[1]] \in 1..5
      BY <3>2, Places
    <3>4. Place[x[1]] = dump /\ x[2] = parsed
      BY <2>1, <2>3
    <3>5. QED
      BY <2>1, <3>2, <3>3, <3>4
  <2>7. \A p \in 1..Len(log) : Rank(log[p]) < Rank(x)
    BY <1>9, <2>2, <2>6 DEF ToSet
  <2>8. \A p, q \in 1..Len(log') : p < q => Rank(log'[p]) < Rank(log'[q])
    BY <1>9, <2>4, <2>7
  <2>9. PrintedTo(dump + 1) = PrintedTo(dump) \cup {x}
    <3>1. x \in Due
      BY <1>12, <2>1 DEF Due, x
    <3>2. \A e \in Due : e[1] \in DOMAIN Place /\ e[2] \in 1..parsed /\ e = <<e[1], e[2], "whole">>
      BY DEF Due
    <3>3. \A e \in Due : Place[e[1]] < dump + 1 <=> Place[e[1]] < dump \/ e[1] = n
      BY <1>12, <2>1, <3>2, Places
    <3>4. \A e \in Due : e[1] = n => e[2] < parsed \/ e = x
      BY <2>1, <3>2 DEF x
    <3>5. \A e : e \in PrintedTo(dump + 1) <=>
                   e \in Due /\ (e[2] < parsed \/ Place[e[1]] < dump \/ e[1] = n)
      BY <3>3 DEF PrintedTo
    <3>6. \A e : e \in PrintedTo(dump) <=> e \in Due /\ (e[2] < parsed \/ Place[e[1]] < dump)
      BY DEF PrintedTo
    <3>7. QED
      BY <2>3, <3>1, <3>4, <3>5, <3>6
  <2>10. \A m : PrintedTo(m)' = PrintedTo(m)
    BY <1>1, <2>1 DEF PrintedTo, Due
  <2>11. PICK m \in 1..6 : m = dump'
    BY <2>1
  <2>12. ToSet(log)' = PrintedTo(m)'
    BY <2>1, <2>2, <2>5, <2>9, <2>10, <2>11
  <2>13. QED
    BY <1>12, <2>1, <2>4, <2>8, <2>11, <2>12 DEF LogInv, Rank
<1>13. CASE DumpEhdr \/ DumpPhdr \/ DumpShdr \/ DumpSyms
  <2>1. PICK n \in {"ehdr", "phdr", "shdr", "syms"} : Prints(n) /\ bin' = bin
    BY <1>13 DEF DumpEhdr, DumpPhdr, DumpShdr, DumpSyms
  <2>2. pc = "dump" /\ dump < 6 /\ n \in DOMAIN Place
    BY <2>1, Places DEF Prints, AtDump, Types
  <2>3. bin'.syms = "whole"
    BY <2>1, <2>2 DEF LogInv
  <2>4. QED
    BY <1>12, <2>1, <2>2, <2>3
<1>14. CASE DumpNm
  <2>1. Prints("nm") /\ "nm" \in DOMAIN Place /\ Place["nm"] = 5
    BY <1>14, Places DEF DumpNm, Place
  <2>2. pc = "dump" /\ dump' = 6
    BY <2>1, Places DEF Prints, AtDump, Types
  <2>3. QED
    BY <1>12, <2>1, <2>2
<1>15. QED
  BY <1>2, <1>3, <1>4, <1>5, <1>6, <1>7, <1>10, <1>11, <1>13, <1>14 DEF ElftoolNext, Parse, Dump

LEMMA ElftoolKeeps ==
  ASSUME IInv, ElftoolNext
  PROVE  IInv'
<1>1. /\ Types /\ GetoptInv /\ CountInv /\ ImageInv /\ FdInv /\ HeapInv /\ DiskInv /\ ReadsDisk
      /\ CauseInv /\ LogInv /\ (GetoptPhase => Untouched)
  BY DEF IInv
<1>2. GetoptInv' /\ ~GetoptPhase'
  BY <1>1, Shape, GetoptStays DEF GetoptPhase
<1>3. Types' /\ CountInv' /\ ImageInv' /\ FdInv'
  BY <1>1, TypesStay, CountStays, ImageStays, DescriptorsStay
<1>4. HeapInv' /\ DiskInv' /\ ReadsDisk'
  BY <1>1, HeapStays, DiskStays, ReadsDiskStays
<1>5. CauseInv' /\ DeathInv' /\ LogInv'
  BY <1>1, CauseStays, DeathStays, LogStays
<1>6. QED
  BY <1>2, <1>3, <1>4, <1>5 DEF IInv

LEMMA NothingHappens ==
  ASSUME IInv, UNCHANGED vars
  PROVE  IInv'
<1>1. UNCHANGED <<optVars, clientVars>>
  BY DEF vars
<1> USE <1>1 DEF optVars, clientVars, world, progress
<1>2. Types'
  BY DEF IInv, Types, GetoptTypes
<1>3. GetoptInv'
  <2>1. /\ FirstBinary' = FirstBinary /\ AsksHelp' = AsksHelp /\ LacksName' = LacksName
        /\ Meant' = Meant /\ Named' = Named
        /\ \A f : Scanned(f) => Scanned(f)'
        /\ \A f : Binaries(f) => Binaries(f)'
    <3>1. /\ FirstBinary' = FirstBinary /\ AsksHelp' = AsksHelp /\ LacksName' = LacksName
          /\ Meant' = Meant /\ Named' = Named
          /\ \A f : MarksTo(f)' = MarksTo(f) /\ OutfileTo(f)' = OutfileTo(f)
                    /\ IsFileName(f)' = IsFileName(f)
      BY MeaningStays
    <3>2. QED
      BY <3>1 DEF Scanned, Binaries
  <2>2. GetoptTypes' /\ GetoptInv
    BY <1>2 DEF IInv, Types
  <2>3. QED
    BY <2>1, <2>2 DEF GetoptInv, GetoptAnswers
<1>4. CountInv' /\ ImageInv' /\ FdInv' /\ HeapInv' /\ (GetoptPhase => Untouched)'
  BY DEF IInv, CountInv, ImageInv, FdInv, HeapInv, Running, Untouched, GetoptPhase
<1>5. Writes' = Writes /\ Written' = Written
  BY DEF Writes, Written, At
<1>6. DiskInv'
  BY <1>5 DEF IInv, DiskInv, Failed, At, Put, Copy
<1>7. \A k : Source(k)' = Source(k)
  BY <1>5 DEF Source, At, Copy
<1>8. ReadsDisk'
  BY <1>7 DEF IInv, ReadsDisk, Failed
<1>9. CauseInv' /\ DeathInv'
  BY <1>5 DEF IInv, CauseInv, DeathInv, Blameless, Good, Standard, Reserved, Source, At, Copy
<1>10. LogInv'
  BY LogSame DEF IInv
<1>11. QED
  BY <1>2, <1>3, <1>4, <1>6, <1>8, <1>9, <1>10 DEF IInv

LEMMA Invariant == Spec => []IInv
<1>1. IInv /\ [Next]_vars => IInv'
  BY GetoptIsQuiet, ElftoolKeeps, NothingHappens DEF Next, ElftoolNext, Exited
<1>2. QED
  BY Initially, <1>1, PTL DEF Spec

----------------------------------------------------------------------------
(* Every variable has its type, for every command line and every disk.     *)
THEOREM TypeCorrect == Spec => []TypeOK
<1>1. IInv => TypeOK
  <2> SUFFICES ASSUME IInv PROVE TypeOK
    OBVIOUS
  <2>1. Types /\ FdInv /\ head \in 1..(Len(bins) + 1)
    BY DEF IInv, CountInv
  <2>2. fds \subseteq 0..3 /\ fd \in -1..3
    BY <2>1 DEF Types, FdInv
  <2>3. QED
    BY <2>1, <2>2 DEF Types, GetoptTypes, TypeOK
<1>2. QED
  BY <1>1, Invariant, PTL

(* The options, the output file and the binaries elftool_getopt hands on   *)
(* are those the command line means.                                       *)
THEOREM CommandUnderstood == Spec => []GetoptAnswers
<1>1. IInv => GetoptAnswers
  BY DEF IInv, GetoptInv
<1>2. QED
  BY <1>1, Invariant, PTL

(* elftool_load reads each binary as it is at its turn, the output of an   *)
(* earlier one included, unless a read or a write has failed.              *)
THEOREM LoadedFromDisk == Spec => []ReadsDisk
<1>1. IInv => ReadsDisk
  BY DEF IInv
<1>2. QED
  BY <1>1, Invariant, PTL

(* The output file is in the end the copy of the last binary accepted, and *)
(* no other file has changed, whatever has failed.                         *)
THEOREM LastIsWritten == Spec => []OutfileHoldsLast
<1>1. IInv => OutfileHoldsLast
  <2> SUFFICES ASSUME IInv PROVE OutfileHoldsLast
    OBVIOUS
  <2>1. \A p : p # opt.outfile => At(disk, p) = At(disk0, p)
    BY DEF IInv, DiskInv
  <2>2. pc = "exit" /\ ~Failed("write") =>
          disk = IF Writes /\ parsed > 0 THEN Put(disk0, opt.outfile, Copy(loaded[parsed])) ELSE disk0
    BY DEF IInv, DiskInv, Written
  <2>3. QED
    BY <2>1, <2>2 DEF OutfileHoldsLast
<1>2. QED
  BY <1>1, Invariant, PTL

(* Between binaries and at the end elftool holds the descriptors it began  *)
(* with, and of the memory the image and the names of each binary.         *)
THEOREM NothingElseHeld == Spec => []NothingHeld
<1>1. IInv => NothingHeld
  BY DEF IInv, FdInv, HeapInv, NothingHeld
<1>2. QED
  BY <1>1, Invariant, PTL

(* The exit status is 0 only when every binary was accepted; otherwise the *)
(* first failure has ended the run, by the fault of its binary unless a    *)
(* system call failed.  Where elftool dies is in the parser, in nm, or on  *)
(* a segment type that has no name.                                        *)
THEOREM EndExplained == Spec => []EndingExplained
<1>1. IInv => EndingExplained
  <2> SUFFICES ASSUME IInv PROVE EndingExplained
    OBVIOUS
  <2>1. ASSUME pc = "exit", bins # <<>>
        PROVE  IF r = 0 THEN parsed = Len(bins)
               ELSE /\ parsed < Len(bins) /\ Len(loaded) <= parsed + 1
                    /\ faults = {} /\ 0 \in fds0 => ~Good(Source(parsed + 1))
    <3>1. Len(bins) \in Nat /\ Len(loaded) \in Nat /\ head \in 2..(Len(bins) + 1)
      BY <2>1 DEF IInv, CountInv, Types, GetoptTypes
    <3>2. CASE r = 0
      BY <2>1, <3>1, <3>2 DEF IInv, CountInv
    <3>3. CASE r # 0
      <4>1. parsed = head - 2 /\ Len(loaded) \in {head - 2, head - 1}
        BY <2>1, <3>3 DEF IInv, CountInv
      <4>2. parsed + 1 = head - 1
        BY <3>1, <4>1
      <4>3. faults = {} /\ 0 \in fds0 => ~Good(Source(head - 1))
        BY <2>1, <3>3 DEF IInv, CauseInv, Blameless
      <4>4. QED
        BY <3>1, <3>3, <4>1, <4>2, <4>3
    <3>4. QED
      BY <3>2, <3>3
  <2>2. DeathInv
    BY DEF IInv
  <2>3. QED
    BY <2>1, <2>2 DEF EndingExplained, DeathInv
<1>2. QED
  BY <1>1, Invariant, PTL

(* The dumps asked for are made of each accepted binary once, in their     *)
(* order, and from the symbol list as the parser built it.                 *)
THEOREM DumpedWhole == Spec => []DumpsWhole
<1>1. IInv => DumpsWhole
  <2> SUFFICES ASSUME IInv PROVE DumpsWhole
    OBVIOUS
  <2>1. LogInv
    BY DEF IInv
  <2>2. PICK m \in 1..6 : /\ pc \notin {"dump", "dead"} => m = 6
                          /\ ToSet(log) = PrintedTo(m)
    BY <2>1 DEF LogInv
  <2>3. ToSet(log) \subseteq Due
    BY <2>2 DEF PrintedTo
  <2>4. \A e \in Due : Place[e[1]] \in 1..5 /\ e[2] \in 1..parsed
    BY Places DEF Due
  <2>5. ASSUME NEW d \in Due, NEW e \in PrintedTo(m), Rank(d) < Rank(e)
        PROVE  d \in PrintedTo(m)
    <3>1. e \in Due /\ (e[2] < parsed \/ Place[e[1]] < m)
      BY DEF PrintedTo
    <3>2. 5 * d[2] + Place[d[1]] < 5 * e[2] + Place[e[1]]
      BY <2>5 DEF Rank
    <3>3. d[2] < parsed \/ Place[d[1]] < m
      <4>1. parsed \in Nat /\ Place[d[1]] \in 1..5 /\ Place[e[1]] \in 1..5
            /\ d[2] \in 1..parsed /\ e[2] \in 1..parsed
        BY <2>1, <2>4, <3>1 DEF LogInv
      <4>2. QED
        BY <3>1, <3>2, <4>1
    <3>4. QED
      BY <3>3 DEF PrintedTo
  <2>6. pc \notin {"dump", "dead"} => ToSet(log) = Due
    BY <2>2, <2>4 DEF PrintedTo
  <2>7. QED
    BY <2>1, <2>2, <2>3, <2>5, <2>6 DEF LogInv, DumpsWhole
<1>2. QED
  BY <1>1, Invariant, PTL
==============================================================================
