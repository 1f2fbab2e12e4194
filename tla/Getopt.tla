-------------------------------- MODULE Getopt --------------------------------
(***************************************************************************)
(* elftool_getopt (src/lib/elftool_getopt.c), called by main               *)
(* (src/client/main.c): options, each known by two spellings or one, then  *)
(* the binaries.  The first argument that is not an option ends them.      *)
(***************************************************************************)
EXTENDS Integers, SequencesExt

CONSTANTS
  CommandLines,  \* the arguments a user may give, without the program's name
  MallocFails    \* whether ft_lstnew may answer NULL

ASSUME CommandLinesAssumption ==
  /\ CommandLines \subseteq Seq(STRING) /\ MallocFails \in BOOLEAN

VARIABLES
  argv,
  i,       \* the argument looked at; the first one is 1
  opt,     \* elftool_opt_t: the options set, and outfile
  bins,    \* opt->bins
  pc, r,
  dropped  \* auxiliary: how many binaries found no memory

optVars == <<argv, i, opt, bins, pc, r, dropped>>

NoFile == "NULL"
Default == "./a.out"

(* flags_list with flags_handler: what each option sets, by its spellings. *)
Help == {"--help", "-h"}
Spellings ==
  [config |-> {"--config", "-C"}, phdr |-> {"--prog-header", "-P"},
   ehdr |-> {"--elf-header", "-E"}, shdr |-> {"--section-header", "-S"},
   syms |-> {"--symbols", "-s"}, hexdump |-> {"--hexdump", "-X"}, nm |-> {"--nm"}]
Setters == UNION {Spellings[m] : m \in DOMAIN Spellings}
Mark(a) == CHOOSE m \in DOMAIN Spellings : a \in Spellings[m]
Test == {"--test"}
Outfile == {"--outfile", "-o"}
IsFlag(a) == a \in Setters \cup Help \cup Test \cup Outfile

Marks == DOMAIN Spellings \cup {"out"}
Paths == {NoFile, Default} \cup UNION {ToSet(c) : c \in CommandLines}

GetoptInit ==
  /\ argv \in CommandLines /\ i = 1
  /\ opt = [set |-> {}, outfile |-> NoFile] /\ bins = <<>>
  /\ pc = "flags" /\ r = 0 /\ dropped = 0

----------------------------------------------------------------------------
AtFlag(flags) == pc = "flags" /\ i <= Len(argv) /\ argv[i] \in flags

HelpFlag ==
  /\ AtFlag(Help)
  /\ i' = i + 1 /\ r' = 1 /\ pc' = "usage"
  /\ UNCHANGED <<argv, opt, bins, dropped>>

MutSetFlag ==
  /\ AtFlag(Setters)
  /\ opt' = [opt EXCEPT !.set = @ \cup {Mark(argv[i])}]
  /\ UNCHANGED <<argv, i, bins, pc, r, dropped>>

SetFlag ==
  /\ AtFlag(Setters)
  /\ opt' = [opt EXCEPT !.set = @ \cup {Mark(argv[i])}] /\ i' = i + 1
  /\ UNCHANGED <<argv, bins, pc, r, dropped>>

(* --test is recognised and does nothing.                                  *)
TestFlag ==
  /\ AtFlag(Test)
  /\ i' = i + 1
  /\ UNCHANGED <<argv, opt, bins, pc, r, dropped>>

MutArguments == 1
Arguments == 2  \* -o and its file name

OutfileFlag ==
  /\ AtFlag(Outfile) /\ i < Len(argv)
  /\ opt' = [set |-> opt.set \cup {"out"}, outfile |-> argv[i + 1]] /\ i' = i + Arguments
  /\ UNCHANGED <<argv, bins, pc, r, dropped>>

OutfileMissing ==
  /\ AtFlag(Outfile) /\ i = Len(argv)
  /\ opt' = [opt EXCEPT !.set = @ \cup {"out"}] /\ i' = i + Arguments
  /\ r' = -1 /\ pc' = "usage"
  /\ UNCHANGED <<argv, bins, dropped>>

FlagsOver ==
  /\ pc = "flags" /\ ~(i <= Len(argv) /\ IsFlag(argv[i]))
  /\ pc' = IF i > Len(argv) THEN "default" ELSE "bins"
  /\ UNCHANGED <<argv, i, opt, bins, r, dropped>>

(* ft_lstpush of what ft_lstnew answered: NULL adds nothing.               *)
Push(path) ==
  \E stored \in IF MallocFails THEN BOOLEAN ELSE {TRUE} :
    /\ bins' = IF stored THEN Append(bins, path) ELSE bins
    /\ dropped' = IF stored THEN dropped ELSE dropped + 1

DefaultBinary ==
  /\ pc = "default"
  /\ Push(Default)
  /\ pc' = "elftool"
  /\ UNCHANGED <<argv, i, opt, r>>

PushBinary ==
  /\ pc = "bins" /\ i <= Len(argv)
  /\ Push(argv[i]) /\ i' = i + 1
  /\ UNCHANGED <<argv, opt, pc, r>>

BinariesOver ==
  /\ pc = "bins" /\ i > Len(argv)
  /\ pc' = "elftool"
  /\ UNCHANGED <<argv, i, opt, bins, r, dropped>>

GetoptNext ==
  HelpFlag \/ SetFlag \/ TestFlag \/ OutfileFlag \/ OutfileMissing \/ FlagsOver
    \/ DefaultBinary \/ PushBinary \/ BinariesOver

----------------------------------------------------------------------------
(* What the command line means, without reading it from left to right: an  *)
(* argument is the file name of a -o when an odd number of -o's stand      *)
(* directly before it.                                                     *)
OutfilesBefore(p) ==
  CHOOSE n \in 0..(p - 1) :
    /\ \A q \in (p - n)..(p - 1) : argv[q] \in Outfile
    /\ n = p - 1 \/ argv[p - n - 1] \notin Outfile
IsFileName(p) == OutfilesBefore(p) % 2 = 1

FirstBinary ==
  CHOOSE p \in 1..(Len(argv) + 1) :
    /\ p <= Len(argv) => ~IsFlag(argv[p]) /\ ~IsFileName(p)
    /\ \A q \in 1..(p - 1) : IsFlag(argv[q]) \/ IsFileName(q)
Options == {p \in 1..(FirstBinary - 1) : ~IsFileName(p)}
FileNames == {p \in 1..(FirstBinary - 1) : IsFileName(p)}

AsksHelp == \E p \in Options : argv[p] \in Help
LacksName == FirstBinary = Len(argv) + 1 /\ IsFileName(FirstBinary)

Meant ==
  [set |-> {Mark(argv[p]) : p \in {q \in Options : argv[q] \in Setters}}
             \cup {"out" : p \in FileNames},
   outfile |-> IF FileNames = {} THEN NoFile
               ELSE argv[CHOOSE p \in FileNames : \A q \in FileNames : q <= p]]
Named ==
  IF FirstBinary > Len(argv) THEN <<Default>> ELSE SubSeq(argv, FirstBinary, Len(argv))

(* The options, the output file and the binaries are those the command     *)
(* line means, but for binaries lost when memory is exhausted; help comes  *)
(* before a missing file name; elftool runs with -o only when it has one.  *)
GetoptAnswers ==
  /\ pc = "usage" => IF r = 1 THEN AsksHelp ELSE ~AsksHelp /\ LacksName
  /\ pc = "elftool" =>
       /\ ~AsksHelp /\ ~LacksName
       /\ opt = Meant
       /\ Len(bins) + dropped = Len(Named)
       /\ dropped = 0 => bins = Named
==============================================================================
