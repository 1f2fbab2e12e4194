---------------------------- MODULE Getopt_proofs ----------------------------
(***************************************************************************)
(* The option parser answers what the command line means, for every list   *)
(* of arguments.  Client_proofs makes a theorem of the elftool command of  *)
(* the lemmas here.                                                        *)
(***************************************************************************)
EXTENDS Getopt, SequenceTheorems, WellFoundedInduction, TLAPS

(* The options and file names among the first f - 1 arguments, and what    *)
(* they mean.                                                              *)
OptionsTo(f) == {p \in 1..(f - 1) : ~IsFileName(p)}
FileNamesTo(f) == {p \in 1..(f - 1) : IsFileName(p)}
LastOf(S) == CHOOSE p \in S : \A q \in S : q <= p
MarksTo(f) == {Mark(argv[p]) : p \in {q \in OptionsTo(f) : argv[q] \in Setters}}
                \cup {"out" : p \in FileNamesTo(f)}
OutfileTo(f) == IF FileNamesTo(f) = {} THEN NoFile ELSE argv[LastOf(FileNamesTo(f))]

(* The arguments before f are options, none asks for help, and they are    *)
(* what opt says.                                                          *)
Scanned(f) ==
  /\ f \in 1..(Len(argv) + 1) /\ ~IsFileName(f)
  /\ \A q \in 1..(f - 1) : IsFileName(q) \/ (IsFlag(argv[q]) /\ argv[q] \notin Help)
  /\ opt = [set |-> MarksTo(f), outfile |-> OutfileTo(f)]
Binaries(f) ==
  /\ i \in f..(Len(argv) + 1)
  /\ Len(bins) + dropped = i - f
  /\ dropped = 0 => bins = SubSeq(argv, f, i - 1)

GetoptTypes ==
  /\ argv \in CommandLines /\ i \in Nat
  /\ opt \in [set : SUBSET Marks, outfile : Paths]
  /\ bins \in Seq(Paths) /\ dropped \in Nat

GetoptInv ==
  /\ GetoptTypes
  /\ pc \in {"flags", "default", "usage"} => bins = <<>> /\ dropped = 0
  /\ pc \in {"flags", "default", "bins", "elftool"} => r = 0
  /\ pc = "usage" => r \in {1, -1}
  /\ pc = "flags" => \E f : f = i /\ Scanned(f)
  /\ pc = "default" => \E f : f = Len(argv) + 1 /\ Scanned(f)
  /\ pc = "bins" => \E f : /\ f = FirstBinary /\ f <= Len(argv)
                          /\ Scanned(f) /\ Binaries(f)
  /\ GetoptAnswers

----------------------------------------------------------------------------
(* Naturals.                                                               *)

LEMMA LeastNatural ==
  ASSUME NEW T, T \subseteq Nat, T # {}
  PROVE  \E x \in T : \A y \in T : x <= y
<1>1. PICK R : IsWellFoundedOn(R, Nat) /\ \A x, y \in Nat : x < y => <<x, y>> \in R
  <2>1. \A x, y \in Nat : x < y => <<x, y>> \in OpToRel(<, Nat)
    BY DEF OpToRel
  <2>2. QED
    BY <2>1, NatLessThanWellFounded
<1>2. PICK S : S = Nat
  OBVIOUS
<1>3. IsWellFoundedOn(R, S) /\ T \subseteq S
  BY <1>1, <1>2
<1>4. \E x \in T : \A y \in T : ~ (<<y, x>> \in R)
  BY <1>3, WFMin
<1>5. PICK x \in T : \A y \in T : ~ (<<y, x>> \in R)
  BY <1>4
<1>6. ASSUME NEW y \in T PROVE x <= y
  <2>1. x \in Nat /\ y \in Nat
    OBVIOUS
  <2>2. ~(y < x)
    BY <1>1, <1>5, <2>1
  <2>3. QED
    BY <2>1, <2>2
<1>7. QED
  BY <1>6

----------------------------------------------------------------------------
(* The flags.                                                              *)

LEMMA FlagKinds ==
  /\ Setters \cap Help = {} /\ Setters \cap Outfile = {}
  /\ Test \cap Help = {} /\ Test \cap Setters = {} /\ Test \cap Outfile = {}
  /\ Outfile \cap Help = {} /\ Outfile \cap Setters = {}
<1>1. Setters = {"--config", "-C", "--prog-header", "-P", "--elf-header", "-E", "--section-header",
                 "-S", "--symbols", "-s", "--hexdump", "-X", "--nm"}
  BY DEF Setters, Spellings
<1>2. QED
  BY <1>1 DEF Help, Test, Outfile

LEMMA MarkType ==
  ASSUME NEW a \in Setters
  PROVE  Mark(a) \in Marks
BY DEF Setters, Mark, Marks

LEMMA ArgumentType ==
  ASSUME argv \in CommandLines
  PROVE  /\ Len(argv) \in Nat /\ argv \in Seq(STRING)
         /\ \A p \in 1..Len(argv) : argv[p] \in Paths
         /\ NoFile \in Paths /\ Default \in Paths
<1>1. argv \in Seq(STRING)
  BY CommandLinesAssumption
<1>2. Len(argv) \in Nat /\ DOMAIN argv = 1..Len(argv)
  BY <1>1, LenProperties
<1>3. \A p \in 1..Len(argv) : argv[p] \in ToSet(argv)
  BY <1>2 DEF ToSet
<1>4. QED
  BY <1>1, <1>2, <1>3 DEF Paths

----------------------------------------------------------------------------
(* Which arguments are file names, read from left to right.                *)

Run(p, n) ==
  /\ n \in 0..(p - 1)
  /\ \A q \in (p - n)..(p - 1) : argv[q] \in Outfile
  /\ n = p - 1 \/ argv[p - n - 1] \notin Outfile

LEMMA RunUnique ==
  ASSUME NEW p \in Nat, NEW m, NEW n, Run(p, m), Run(p, n)
  PROVE  m = n
<1>1. ASSUME NEW x, NEW y, Run(p, x), Run(p, y), x < y PROVE FALSE
  <2>1. p - x - 1 \in (p - y)..(p - 1) /\ x # p - 1
    BY <1>1 DEF Run
  <2>2. QED
    BY <1>1, <2>1 DEF Run
<1>2. m \in Nat /\ n \in Nat
  BY DEF Run
<1>3. QED
  BY <1>1, <1>2

LEMMA RunExists ==
  ASSUME NEW p \in Nat \ {0}
  PROVE  \E n : Run(p, n)
<1> DEFINE T == {n \in 0..(p - 1) : n = p - 1 \/ argv[p - n - 1] \notin Outfile}
<1>1. PICK n \in T : \A m \in T : n <= m
  <2>1. p - 1 \in T /\ T \subseteq Nat
    OBVIOUS
  <2>2. QED
    BY <2>1, LeastNatural
<1>2. ASSUME NEW q \in (p - n)..(p - 1) PROVE argv[q] \in Outfile
  <2>1. p - 1 - q \in 0..(p - 1) /\ p - 1 - q < n /\ p - (p - 1 - q) - 1 = q /\ p - 1 - q # p - 1
    OBVIOUS
  <2>2. p - 1 - q \notin T
    BY <1>1, <2>1
  <2>3. QED
    BY <2>1, <2>2
<1>3. QED
  BY <1>2 DEF Run

LEMMA BeforeIsRun ==
  ASSUME NEW p \in Nat \ {0}
  PROVE  Run(p, OutfilesBefore(p)) /\ OutfilesBefore(p) \in Nat
<1>1. \E n \in 0..(p - 1) : /\ \A q \in (p - n)..(p - 1) : argv[q] \in Outfile
                            /\ n = p - 1 \/ argv[p - n - 1] \notin Outfile
  BY RunExists DEF Run
<1>2. Run(p, OutfilesBefore(p))
  BY <1>1 DEF Run, OutfilesBefore
<1>3. QED
  BY <1>2 DEF Run

LEMMA FirstIsNoName == ~IsFileName(1)
<1>1. Run(1, OutfilesBefore(1))
  BY BeforeIsRun
<1>2. OutfilesBefore(1) = 0
  BY <1>1 DEF Run
<1>3. QED
  BY <1>2 DEF IsFileName

LEMMA NameFollowsOutfile ==
  ASSUME NEW p \in Nat \ {0}
  PROVE  IsFileName(p + 1) <=> argv[p] \in Outfile /\ ~IsFileName(p)
<1> DEFINE n == OutfilesBefore(p)
<1>1. n \in 0..(p - 1) /\ Run(p, n) /\ Run(p + 1, OutfilesBefore(p + 1))
  BY BeforeIsRun DEF Run
<1> HIDE DEF n
<1>2. CASE argv[p] \in Outfile
  <2>1. Run(p + 1, n + 1)
    <3>1. \A q \in ((p + 1) - (n + 1))..((p + 1) - 1) : argv[q] \in Outfile
      BY <1>1, <1>2 DEF Run
    <3>2. n + 1 = (p + 1) - 1 \/ argv[(p + 1) - (n + 1) - 1] \notin Outfile
      <4>1. (p + 1) - (n + 1) - 1 = p - n - 1
        BY <1>1
      <4>2. QED
        BY <1>1, <4>1 DEF Run
    <3>3. QED
      BY <1>1, <3>1, <3>2 DEF Run
  <2>2. OutfilesBefore(p + 1) = n + 1
    BY <1>1, <2>1, RunUnique
  <2>3. QED
    BY <1>1, <1>2, <2>2 DEF IsFileName, n
<1>3. CASE argv[p] \notin Outfile
  <2>1. Run(p + 1, 0)
    BY <1>3 DEF Run
  <2>2. OutfilesBefore(p + 1) = 0
    BY <1>1, <2>1, RunUnique
  <2>3. QED
    BY <1>3, <2>2 DEF IsFileName
<1>4. QED
  BY <1>2, <1>3
----------------------------------------------------------------------------
(* The first binary.                                                       *)

IsBinary(p) == p <= Len(argv) => ~IsFlag(argv[p]) /\ ~IsFileName(p)

LEMMA FirstBinaryFacts ==
  ASSUME argv \in CommandLines
  PROVE  /\ FirstBinary \in 1..(Len(argv) + 1) /\ IsBinary(FirstBinary)
         /\ \A q \in 1..(FirstBinary - 1) : IsFlag(argv[q]) \/ IsFileName(q)
<1> DEFINE T == {p \in 1..(Len(argv) + 1) : IsBinary(p)}
<1>1. Len(argv) \in Nat
  BY ArgumentType
<1>2. PICK p \in T : \A q \in T : p <= q
  <2>1. Len(argv) + 1 \in T
    BY <1>1 DEF IsBinary
  <2>2. T \subseteq Nat
    BY <1>1
  <2>3. QED
    BY <2>1, <2>2, LeastNatural
<1>3. ASSUME NEW q \in 1..(p - 1) PROVE IsFlag(argv[q]) \/ IsFileName(q)
  <2>1. q \in 1..(Len(argv) + 1) /\ ~(p <= q)
    BY <1>1
  <2>2. q \notin T
    BY <1>2, <2>1
  <2>3. QED
    BY <2>1, <2>2 DEF IsBinary
<1>4. \E b \in 1..(Len(argv) + 1) :
        /\ b <= Len(argv) => ~IsFlag(argv[b]) /\ ~IsFileName(b)
        /\ \A q \in 1..(b - 1) : IsFlag(argv[q]) \/ IsFileName(q)
  BY <1>3 DEF IsBinary
<1>5. QED
  BY <1>4 DEF FirstBinary, IsBinary

(* Where the scan stops is the first binary.                               *)
LEMMA ScanStops ==
  ASSUME argv \in CommandLines, NEW f, Scanned(f), IsBinary(f)
  PROVE  FirstBinary = f
<1>1. Len(argv) \in Nat /\ f \in 1..(Len(argv) + 1) /\ FirstBinary \in 1..(Len(argv) + 1)
  BY ArgumentType, FirstBinaryFacts DEF Scanned
<1>2. ~(FirstBinary < f)
  <2>1. ASSUME FirstBinary < f PROVE FALSE
    <3>1. FirstBinary \in 1..(f - 1) /\ FirstBinary <= Len(argv)
      BY <1>1, <2>1
    <3>2. IsFlag(argv[FirstBinary]) \/ IsFileName(FirstBinary)
      BY <3>1 DEF Scanned
    <3>3. QED
      BY <3>1, <3>2, FirstBinaryFacts DEF IsBinary
  <2>2. QED
    BY <2>1
<1>3. ~(f < FirstBinary)
  <2>1. ASSUME f < FirstBinary PROVE FALSE
    <3>1. f \in 1..(FirstBinary - 1) /\ f <= Len(argv)
      BY <1>1, <2>1
    <3>2. QED
      BY <3>1, FirstBinaryFacts DEF IsBinary
  <2>2. QED
    BY <2>1
<1>4. QED
  BY <1>1, <1>2, <1>3

(* A scan that has come to the first binary has found what is meant.       *)
LEMMA ScanAnswers ==
  ASSUME argv \in CommandLines, Scanned(FirstBinary)
  PROVE  ~AsksHelp /\ ~LacksName /\ opt = Meant
<1>1. ~AsksHelp
  BY DEF AsksHelp, Options, Scanned
<1>2. ~LacksName
  BY DEF LacksName, Scanned
<1>3. opt = Meant
  BY DEF Scanned, Meant, MarksTo, OutfileTo, OptionsTo, FileNamesTo, Options, FileNames, LastOf
<1>4. QED
  BY <1>1, <1>2, <1>3

(* The scan goes on behind an option.                                      *)
LEMMA ScanGoesOn ==
  ASSUME argv \in CommandLines, NEW f \in Nat, Scanned(f), f <= Len(argv),
         argv[f] \in Setters \cup Test
  PROVE  /\ f + 1 \in 1..(Len(argv) + 1) /\ ~IsFileName(f + 1)
         /\ \A q \in 1..((f + 1) - 1) : IsFileName(q) \/ (IsFlag(argv[q]) /\ argv[q] \notin Help)
         /\ OutfileTo(f + 1) = OutfileTo(f)
         /\ MarksTo(f + 1) = MarksTo(f) \cup {Mark(a) : a \in {argv[f]} \cap Setters}
<1>1. Len(argv) \in Nat /\ f \in 1..Len(argv) /\ ~IsFileName(f)
  BY ArgumentType DEF Scanned
<1>2. ~IsFileName(f + 1)
  BY <1>1, NameFollowsOutfile, FlagKinds
<1>3. \A q : q \in 1..((f + 1) - 1) <=> q \in 1..(f - 1) \/ q = f
  BY <1>1
<1>4. IsFlag(argv[f]) /\ argv[f] \notin Help
  BY FlagKinds DEF IsFlag
<1>5. \A q \in 1..((f + 1) - 1) : IsFileName(q) \/ (IsFlag(argv[q]) /\ argv[q] \notin Help)
  BY <1>3, <1>4 DEF Scanned
<1>6. FileNamesTo(f + 1) = FileNamesTo(f) /\ OptionsTo(f + 1) = OptionsTo(f) \cup {f}
  BY <1>1, <1>3 DEF FileNamesTo, OptionsTo
<1>7. MarksTo(f + 1) = MarksTo(f) \cup {Mark(a) : a \in {argv[f]} \cap Setters}
  BY <1>6 DEF MarksTo
<1>8. QED
  BY <1>1, <1>2, <1>5, <1>6, <1>7 DEF OutfileTo

(* And behind a file name.                                                 *)
LEMMA ScanTakesName ==
  ASSUME argv \in CommandLines, NEW f \in Nat, Scanned(f), f < Len(argv), argv[f] \in Outfile
  PROVE  /\ f + 2 \in 1..(Len(argv) + 1) /\ ~IsFileName(f + 2)
         /\ \A q \in 1..((f + 2) - 1) : IsFileName(q) \/ (IsFlag(argv[q]) /\ argv[q] \notin Help)
         /\ OutfileTo(f + 2) = argv[f + 1]
         /\ MarksTo(f + 2) = MarksTo(f) \cup {"out"}
<1>1. Len(argv) \in Nat /\ f \in 1..Len(argv) /\ ~IsFileName(f)
  BY ArgumentType DEF Scanned
<1>2. IsFileName(f + 1)
  <2>1. f \in Nat \ {0}
    BY <1>1
  <2>2. QED
    BY <1>1, <2>1, NameFollowsOutfile
<1>3. ~IsFileName(f + 2)
  <2>1. PICK g : g = f + 1
    OBVIOUS
  <2>2. g \in Nat \ {0} /\ g + 1 = f + 2
    BY <2>1
  <2>3. IsFileName(g + 1) => ~IsFileName(g)
    BY <2>2, NameFollowsOutfile
  <2>4. QED
    BY <1>2, <2>1, <2>2, <2>3
<1>4. \A q : q \in 1..((f + 2) - 1) <=> q \in 1..(f - 1) \/ q = f \/ q = f + 1
  BY <1>1
<1>5. IsFlag(argv[f]) /\ argv[f] \notin Help /\ argv[f] \notin Setters
  BY FlagKinds DEF IsFlag
<1>6. \A q \in 1..((f + 2) - 1) : IsFileName(q) \/ (IsFlag(argv[q]) /\ argv[q] \notin Help)
  BY <1>2, <1>4, <1>5 DEF Scanned
<1>7. FileNamesTo(f + 2) = FileNamesTo(f) \cup {f + 1} /\ OptionsTo(f + 2) = OptionsTo(f) \cup {f}
  BY <1>1, <1>2, <1>4 DEF FileNamesTo, OptionsTo
<1>8. MarksTo(f + 2) = MarksTo(f) \cup {"out"}
  BY <1>5, <1>7 DEF MarksTo
<1>9. OutfileTo(f + 2) = argv[f + 1]
  <2> DEFINE S == FileNamesTo(f + 2)
  <2>1. f + 1 \in S /\ \A q \in S : q <= f + 1 /\ q \in Nat
    BY <1>1, <1>7 DEF FileNamesTo
  <2> HIDE DEF S
  <2>2. \E p \in S : \A q \in S : q <= p
    BY <2>1
  <2>3. LastOf(S) \in S /\ \A q \in S : q <= LastOf(S)
    BY <2>2 DEF LastOf
  <2>4. LastOf(S) = f + 1
    BY <2>1, <2>3
  <2>5. QED
    BY <2>1, <2>4 DEF OutfileTo, S
<1>10. QED
  BY <1>1, <1>3, <1>6, <1>8, <1>9

----------------------------------------------------------------------------
(* The invariant of the option parser.                                     *)

LEMMA GetoptInitial == GetoptInit => GetoptInv
<1> SUFFICES ASSUME GetoptInit PROVE GetoptInv
  OBVIOUS
<1> USE DEF GetoptInit
<1>1. argv \in CommandLines /\ Len(argv) \in Nat
  BY ArgumentType
<1>2. GetoptTypes
  BY <1>1, ArgumentType DEF GetoptTypes
<1>3. Scanned(i)
  <2>1. 1..(i - 1) = {} /\ i = 1 /\ i \in 1..(Len(argv) + 1)
    BY <1>1
  <2>2. MarksTo(i) = {} /\ OutfileTo(i) = NoFile
    BY <2>1 DEF MarksTo, OutfileTo, OptionsTo, FileNamesTo
  <2>3. ~IsFileName(i)
    BY <2>1, FirstIsNoName
  <2>4. QED
    BY <2>1, <2>2, <2>3 DEF Scanned
<1>4. QED
  BY <1>2, <1>3 DEF GetoptInv, GetoptAnswers

LEMMA TypesStep ==
  ASSUME GetoptInv, GetoptNext
  PROVE  GetoptTypes'
<1>1. /\ argv \in CommandLines /\ i \in Nat /\ opt \in [set : SUBSET Marks, outfile : Paths]
      /\ bins \in Seq(Paths) /\ dropped \in Nat
  BY DEF GetoptInv, GetoptTypes
<1>2. Len(argv) \in Nat /\ \A p \in 1..Len(argv) : argv[p] \in Paths
  BY <1>1, ArgumentType
<1>3. opt.set \subseteq Marks /\ "out" \in Marks
  BY <1>1 DEF Marks
<1>4. ASSUME NEW path \in Paths, Push(path) PROVE bins' \in Seq(Paths) /\ dropped' \in Nat
  <2>1. PICK stored : /\ bins' = IF stored THEN Append(bins, path) ELSE bins
                      /\ dropped' = IF stored THEN dropped ELSE dropped + 1
    BY <1>4 DEF Push
  <2>2. QED
    BY <1>1, <1>4, <2>1, AppendProperties
<1>5. CASE SetFlag
  <2>1. Mark(argv[i]) \in Marks
    BY <1>5, MarkType DEF SetFlag, AtFlag
  <2>2. opt' \in [set : SUBSET Marks, outfile : Paths]
    BY <1>1, <1>3, <1>5, <2>1 DEF SetFlag
  <2>3. QED
    BY <1>1, <1>5, <2>2 DEF SetFlag, GetoptTypes
<1>6. CASE OutfileFlag
  <2>1. i + 1 \in 1..Len(argv)
    BY <1>1, <1>2, <1>6 DEF OutfileFlag
  <2>2. argv[i + 1] \in Paths
    BY <1>2, <2>1
  <2>3. opt' \in [set : SUBSET Marks, outfile : Paths]
    BY <1>1, <1>3, <1>6, <2>2 DEF OutfileFlag
  <2>4. QED
    BY <1>1, <1>6, <2>3 DEF OutfileFlag, Arguments, GetoptTypes
<1>7. CASE OutfileMissing
  <2>1. opt' \in [set : SUBSET Marks, outfile : Paths]
    BY <1>1, <1>3, <1>7 DEF OutfileMissing
  <2>2. QED
    BY <1>1, <1>7, <2>1 DEF OutfileMissing, Arguments, GetoptTypes
<1>8. CASE HelpFlag \/ TestFlag \/ FlagsOver \/ BinariesOver
  BY <1>1, <1>8 DEF HelpFlag, TestFlag, FlagsOver, BinariesOver, GetoptTypes
<1>9. CASE DefaultBinary
  BY <1>1, <1>4, <1>9, ArgumentType DEF DefaultBinary, GetoptTypes
<1>10. CASE PushBinary
  <2>1. pc = "bins" /\ i <= Len(argv)
    BY <1>10 DEF PushBinary
  <2>2. i \in 1..Len(argv)
    BY <1>1, <1>2, <2>1, FirstBinaryFacts DEF GetoptInv, Binaries
  <2>3. argv[i] \in Paths
    BY <1>2, <2>2
  <2>4. QED
    BY <1>1, <1>4, <1>10, <2>3 DEF PushBinary, GetoptTypes
<1>11. QED
  BY <1>5, <1>6, <1>7, <1>8, <1>9, <1>10 DEF GetoptNext

(* What the meaning of a command line depends on.                          *)
LEMMA MeaningStays ==
  ASSUME argv' = argv
  PROVE  /\ FirstBinary' = FirstBinary /\ AsksHelp' = AsksHelp /\ LacksName' = LacksName
         /\ Meant' = Meant /\ Named' = Named
         /\ \A f : MarksTo(f)' = MarksTo(f) /\ OutfileTo(f)' = OutfileTo(f)
                   /\ IsFileName(f)' = IsFileName(f)
<1>1. \A f : IsFileName(f)' = IsFileName(f)
  BY DEF IsFileName, OutfilesBefore
<1>2. FirstBinary' = FirstBinary
  BY <1>1 DEF FirstBinary
<1>3. Options' = Options /\ FileNames' = FileNames
  BY <1>1, <1>2 DEF Options, FileNames
<1>4. \A f : OptionsTo(f)' = OptionsTo(f) /\ FileNamesTo(f)' = FileNamesTo(f)
  BY <1>1 DEF OptionsTo, FileNamesTo
<1>5. \A f : MarksTo(f)' = MarksTo(f)
  BY <1>4 DEF MarksTo
<1>6. \A f : OutfileTo(f)' = OutfileTo(f)
  BY <1>4 DEF OutfileTo
<1>7. AsksHelp' = AsksHelp
  BY <1>3 DEF AsksHelp
<1>8. LacksName' = LacksName
  <2>1. \A f : f = FirstBinary => IsFileName(f)' = IsFileName(f)
    BY <1>1
  <2>2. LacksName' = (FirstBinary' = Len(argv) + 1 /\ \E f : f = FirstBinary' /\ IsFileName(f)')
    BY DEF LacksName, IsFileName, OutfilesBefore
  <2>3. QED
    BY <1>2, <2>1, <2>2 DEF LacksName
<1>9. Meant' = Meant
  BY <1>3 DEF Meant
<1>10. Named' = Named
  BY <1>2 DEF Named
<1>11. QED
  BY <1>1, <1>2, <1>5, <1>6, <1>7, <1>8, <1>9, <1>10

(* The scan, one argument further or two.                                  *)
LEMMA FlagsStep ==
  ASSUME GetoptInv, SetFlag \/ TestFlag \/ OutfileFlag
  PROVE  \E f : f = i' /\ Scanned(f)'
<1>1. /\ argv' = argv /\ argv \in CommandLines /\ i \in Nat
      /\ opt \in [set : SUBSET Marks, outfile : Paths]
  BY DEF GetoptInv, GetoptTypes, SetFlag, TestFlag, OutfileFlag
<1>2. Scanned(i) /\ i <= Len(argv) /\ opt = [set |-> MarksTo(i), outfile |-> OutfileTo(i)]
  BY DEF GetoptInv, SetFlag, TestFlag, OutfileFlag, AtFlag, Scanned
<1>3. PICK f : f = i'
  OBVIOUS
<1>4. Scanned(f)' <=>
        /\ f \in 1..(Len(argv) + 1) /\ ~IsFileName(f)
        /\ \A q \in 1..(f - 1) : IsFileName(q) \/ (IsFlag(argv[q]) /\ argv[q] \notin Help)
        /\ opt' = [set |-> MarksTo(f), outfile |-> OutfileTo(f)]
  BY <1>1, MeaningStays DEF Scanned
<1>5. CASE SetFlag
  <2>1. f = i + 1 /\ argv[i] \in Setters /\ opt' = [opt EXCEPT !.set = @ \cup {Mark(argv[i])}]
    BY <1>3, <1>5 DEF SetFlag, AtFlag
  <2>2. MarksTo(f) = MarksTo(i) \cup {Mark(argv[i])} /\ OutfileTo(f) = OutfileTo(i)
    <3>1. {Mark(a) : a \in {argv[i]} \cap Setters} = {Mark(argv[i])}
      BY <2>1
    <3>2. QED
      BY <1>1, <1>2, <2>1, <3>1, ScanGoesOn
  <2>3. opt' = [set |-> MarksTo(f), outfile |-> OutfileTo(f)]
    BY <1>2, <2>1, <2>2
  <2>4. QED
    BY <1>1, <1>2, <1>3, <1>4, <2>1, <2>3, ScanGoesOn
<1>6. CASE TestFlag
  <2>1. f = i + 1 /\ argv[i] \in Test /\ argv[i] \notin Setters /\ opt' = opt
    BY <1>3, <1>6, FlagKinds DEF TestFlag, AtFlag
  <2>2. MarksTo(f) = MarksTo(i) /\ OutfileTo(f) = OutfileTo(i)
    <3>1. {Mark(a) : a \in {argv[i]} \cap Setters} = {}
      BY <2>1
    <3>2. QED
      BY <1>1, <1>2, <2>1, <3>1, ScanGoesOn
  <2>3. QED
    BY <1>1, <1>2, <1>3, <1>4, <2>1, <2>2, ScanGoesOn
<1>7. CASE OutfileFlag
  <2>1. /\ f = i + 2 /\ argv[i] \in Outfile /\ i < Len(argv)
        /\ opt' = [set |-> opt.set \cup {"out"}, outfile |-> argv[i + 1]]
    BY <1>3, <1>7 DEF OutfileFlag, AtFlag, Arguments
  <2>2. MarksTo(f) = MarksTo(i) \cup {"out"} /\ OutfileTo(f) = argv[i + 1]
    BY <1>1, <1>2, <2>1, ScanTakesName
  <2>3. QED
    BY <1>1, <1>2, <1>3, <1>4, <2>1, <2>2, ScanTakesName
<1>8. QED
  BY <1>5, <1>6, <1>7

(* How the scan ends: at a request for help, at a missing file name, at    *)
(* the first binary, or behind the last argument.                          *)
LEMMA HelpAnswers ==
  ASSUME GetoptInv, HelpFlag
  PROVE  AsksHelp
<1>1. /\ argv \in CommandLines /\ i \in Nat /\ Len(argv) \in Nat /\ Scanned(i)
      /\ i <= Len(argv) /\ argv[i] \in Help
  BY ArgumentType DEF GetoptInv, GetoptTypes, HelpFlag, AtFlag
<1>2. i \in 1..Len(argv) /\ ~IsFileName(i) /\ IsFlag(argv[i])
  BY <1>1 DEF Scanned, IsFlag
<1>3. FirstBinary \in 1..(Len(argv) + 1) /\ ~(FirstBinary <= i)
  <2>1. FirstBinary \in 1..(Len(argv) + 1) /\ IsBinary(FirstBinary)
    BY <1>1, FirstBinaryFacts
  <2>2. \A q \in 1..i : IsFileName(q) \/ IsFlag(argv[q])
    BY <1>1, <1>2 DEF Scanned
  <2>3. QED
    BY <1>1, <1>2, <2>1, <2>2 DEF IsBinary
<1>4. i \in Options
  BY <1>1, <1>2, <1>3 DEF Options
<1>5. QED
  BY <1>1, <1>4 DEF AsksHelp

LEMMA MissingAnswers ==
  ASSUME GetoptInv, OutfileMissing
  PROVE  ~AsksHelp /\ LacksName
<1>1. /\ argv \in CommandLines /\ i \in Nat /\ Len(argv) \in Nat /\ Scanned(i)
      /\ i = Len(argv) /\ argv[i] \in Outfile
  BY ArgumentType DEF GetoptInv, GetoptTypes, OutfileMissing, AtFlag
<1>2. i \in 1..Len(argv) /\ i \in Nat \ {0} /\ ~IsFileName(i) /\ IsFlag(argv[i]) /\ argv[i] \notin Help
  BY <1>1, FlagKinds DEF Scanned, IsFlag
<1>3. IsFileName(i + 1)
  BY <1>1, <1>2, NameFollowsOutfile
<1>4. \A q \in 1..i : IsFileName(q) \/ (IsFlag(argv[q]) /\ argv[q] \notin Help)
  BY <1>1, <1>2 DEF Scanned
<1>5. FirstBinary = i + 1
  <2>1. FirstBinary \in 1..(Len(argv) + 1) /\ IsBinary(FirstBinary)
    BY <1>1, FirstBinaryFacts
  <2>2. ~(FirstBinary <= i)
    BY <1>1, <1>2, <1>4, <2>1 DEF IsBinary
  <2>3. QED
    BY <1>1, <2>1, <2>2
<1>6. LacksName
  BY <1>1, <1>3, <1>5 DEF LacksName
<1>7. ~AsksHelp
  BY <1>1, <1>4, <1>5 DEF AsksHelp, Options
<1>8. QED
  BY <1>6, <1>7

LEMMA ScanOver ==
  ASSUME GetoptInv, FlagsOver
  PROVE  /\ FirstBinary = i /\ Scanned(FirstBinary)
         /\ pc' = IF i > Len(argv) THEN "default" ELSE "bins"
         /\ i > Len(argv) => i = Len(argv) + 1
<1>1. /\ argv \in CommandLines /\ i \in Nat /\ Len(argv) \in Nat /\ Scanned(i)
      /\ ~(i <= Len(argv) /\ IsFlag(argv[i]))
      /\ pc' = IF i > Len(argv) THEN "default" ELSE "bins"
  BY ArgumentType DEF GetoptInv, GetoptTypes, FlagsOver
<1>2. IsBinary(i) /\ i \in 1..(Len(argv) + 1)
  BY <1>1 DEF IsBinary, Scanned
<1>3. FirstBinary = i
  BY <1>1, <1>2, ScanStops
<1>4. QED
  BY <1>1, <1>2, <1>3

LEMMA BinariesStep ==
  ASSUME GetoptInv, PushBinary
  PROVE  \E f : f = FirstBinary /\ f <= Len(argv) /\ Scanned(f) /\ Binaries(f)'
<1>1. PICK f : f = FirstBinary /\ f <= Len(argv) /\ Scanned(f) /\ Binaries(f)
  BY DEF GetoptInv, PushBinary
<1>2. /\ argv \in Seq(STRING) /\ Len(argv) \in Nat /\ i \in Nat /\ dropped \in Nat /\ bins \in Seq(Paths)
      /\ f \in 1..Len(argv) /\ i \in f..Len(argv) /\ argv' = argv /\ i' = i + 1
  <2>1. argv \in CommandLines /\ i \in Nat /\ dropped \in Nat /\ bins \in Seq(Paths)
    BY DEF GetoptInv, GetoptTypes
  <2>2. f \in 1..(Len(argv) + 1) /\ i \in f..(Len(argv) + 1)
    BY <1>1 DEF Scanned, Binaries
  <2>3. i <= Len(argv) /\ argv' = argv /\ i' = i + 1
    BY DEF PushBinary
  <2>4. QED
    BY <1>1, <2>1, <2>2, <2>3, ArgumentType
<1>3. PICK stored : /\ bins' = IF stored THEN Append(bins, argv[i]) ELSE bins
                    /\ dropped' = IF stored THEN dropped ELSE dropped + 1
  BY DEF PushBinary, Push
<1>4. Len(bins) + dropped = i - f /\ (dropped = 0 => bins = SubSeq(argv, f, i - 1)) /\ Len(bins) \in Nat
  BY <1>1, <1>2, LenProperties DEF Binaries
<1>5. i' \in f..(Len(argv') + 1)
  BY <1>2
<1>6. Len(bins') + dropped' = i' - f
  <2>1. stored => Len(bins') = Len(bins) + 1
    BY <1>2, <1>3
  <2>2. QED
    BY <1>2, <1>3, <1>4, <2>1
<1>7. ASSUME dropped' = 0 PROVE bins' = SubSeq(argv', f, i' - 1)
  <2>1. bins' = Append(bins, argv[i]) /\ bins = SubSeq(argv, f, i - 1)
    BY <1>2, <1>3, <1>4, <1>7
  <2>2. Append(SubSeq(argv, f, i - 1), argv[i]) = SubSeq(argv, f, i)
    BY <1>2
  <2>3. i' - 1 = i
    BY <1>2
  <2>4. QED
    BY <1>2, <2>1, <2>2, <2>3
<1>8. QED
  BY <1>1, <1>5, <1>6, <1>7 DEF Binaries

(* Every step of the option parser.                                        *)
LEMMA GetoptKeeps ==
  ASSUME GetoptInv, GetoptNext
  PROVE  GetoptInv'
<1>1. GetoptTypes' /\ argv' = argv /\ argv \in CommandLines /\ Len(argv) \in Nat
  BY TypesStep, ArgumentType
     DEF GetoptInv, GetoptTypes, GetoptNext, HelpFlag, SetFlag, TestFlag, OutfileFlag, OutfileMissing,
         FlagsOver, DefaultBinary, PushBinary, BinariesOver
<1>2. /\ FirstBinary' = FirstBinary /\ AsksHelp' = AsksHelp /\ LacksName' = LacksName
      /\ Meant' = Meant /\ Named' = Named
      /\ \A f : IsFileName(f)' = IsFileName(f) /\ MarksTo(f)' = MarksTo(f) /\ OutfileTo(f)' = OutfileTo(f)
  BY <1>1, MeaningStays
<1>3. opt' = opt => \A f : Scanned(f) => Scanned(f)'
  BY <1>1, <1>2 DEF Scanned
<1>4. CASE SetFlag \/ TestFlag \/ OutfileFlag
  <2>1. pc = "flags" /\ pc' = "flags" /\ UNCHANGED <<r, bins, dropped>>
    BY <1>4 DEF SetFlag, TestFlag, OutfileFlag, AtFlag
  <2>2. bins = <<>> /\ dropped = 0 /\ r = 0
    BY <2>1 DEF GetoptInv
  <2>3. QED
    BY <1>1, <1>4, <2>1, <2>2, FlagsStep DEF GetoptInv, GetoptAnswers
<1>5. CASE HelpFlag
  <2>1. pc' = "usage" /\ r' = 1 /\ bins' = <<>> /\ dropped' = 0
    BY <1>5 DEF HelpFlag, AtFlag, GetoptInv
  <2>2. AsksHelp'
    BY <1>2, <1>5, HelpAnswers
  <2>3. QED
    BY <1>1, <2>1, <2>2 DEF GetoptInv, GetoptAnswers
<1>6. CASE OutfileMissing
  <2>1. pc' = "usage" /\ r' = -1 /\ bins' = <<>> /\ dropped' = 0
    BY <1>6 DEF OutfileMissing, AtFlag, GetoptInv
  <2>2. ~AsksHelp' /\ LacksName'
    BY <1>2, <1>6, MissingAnswers
  <2>3. QED
    BY <1>1, <2>1, <2>2 DEF GetoptInv, GetoptAnswers
<1>7. CASE FlagsOver
  <2>1. UNCHANGED <<argv, i, opt, bins, r, dropped>> /\ r = 0 /\ bins = <<>> /\ dropped = 0
    BY <1>7 DEF FlagsOver, GetoptInv
  <2>2. PICK f : f = FirstBinary
    OBVIOUS
  <2>3. Scanned(f)' /\ f = i /\ f = FirstBinary'
    BY <1>2, <1>3, <1>7, <2>1, <2>2, ScanOver
  <2>4. CASE i > Len(argv)
    BY <1>1, <1>7, <2>1, <2>3, <2>4, ScanOver DEF GetoptInv, GetoptAnswers
  <2>5. CASE ~(i > Len(argv))
    <3>1. pc' = "bins"
      BY <1>7, <2>5, ScanOver
    <3>2. i \in Nat
      BY DEF GetoptInv, GetoptTypes
    <3>3. f <= Len(argv') /\ f \in Nat
      BY <1>1, <2>3, <2>5, <3>2
    <3>4. Binaries(f)'
      <4>1. i' \in f..(Len(argv') + 1) /\ i' - f = 0
        <5>1. i' = f /\ Len(argv') \in Nat
          BY <1>1, <2>1, <2>3
        <5>2. QED
          BY <3>3, <5>1
      <4>2. Len(bins') + dropped' = 0
        BY <2>1
      <4>3. argv' \in Seq(STRING) /\ i' = f
        BY <1>1, <2>1, <2>3, ArgumentType
      <4>4. SubSeq(argv', f, i' - 1) = <<>>
        BY <3>3, <4>3
      <4>5. QED
        BY <2>1, <4>1, <4>2, <4>4 DEF Binaries
    <3>5. QED
      BY <1>1, <2>1, <2>3, <3>1, <3>3, <3>4 DEF GetoptInv, GetoptAnswers
  <2>6. QED
    BY <2>4, <2>5
<1>8. CASE DefaultBinary
  <2>1. pc = "default" /\ pc' = "elftool" /\ UNCHANGED <<argv, i, opt, r>> /\ Push(Default)
    BY <1>8 DEF DefaultBinary
  <2>2. r = 0 /\ bins = <<>> /\ dropped = 0
    BY <2>1 DEF GetoptInv
  <2>3. PICK f : f = Len(argv) + 1 /\ Scanned(f)
    BY <2>1 DEF GetoptInv
  <2>4. FirstBinary = f
    <3>1. IsBinary(f)
      BY <1>1, <2>3 DEF IsBinary
    <3>2. QED
      BY <1>1, <2>3, <3>1, ScanStops
  <2>5. ~AsksHelp /\ ~LacksName /\ opt = Meant
    BY <1>1, <2>3, <2>4, ScanAnswers
  <2>6. Named = <<Default>>
    BY <1>1, <2>3, <2>4 DEF Named
  <2>7. Len(bins') + dropped' = 1 /\ (dropped' = 0 => bins' = <<Default>>)
    BY <2>1, <2>2 DEF Push
  <2>8. QED
    BY <1>1, <1>2, <2>1, <2>2, <2>5, <2>6, <2>7 DEF GetoptInv, GetoptAnswers
<1>9. CASE PushBinary
  <2>1. pc = "bins" /\ pc' = "bins" /\ UNCHANGED <<opt, r>> /\ r = 0
    BY <1>9 DEF PushBinary, GetoptInv
  <2>2. PICK f : f = FirstBinary /\ f <= Len(argv) /\ Scanned(f) /\ Binaries(f)'
    BY <1>9, BinariesStep
  <2>3. Scanned(f)'
    BY <1>3, <2>1, <2>2
  <2>4. QED
    BY <1>1, <1>2, <2>1, <2>2, <2>3 DEF GetoptInv, GetoptAnswers
<1>10. CASE BinariesOver
  <2>1. pc = "bins" /\ pc' = "elftool" /\ UNCHANGED <<argv, i, opt, bins, r, dropped>> /\ r = 0
        /\ i > Len(argv)
    BY <1>10 DEF BinariesOver, GetoptInv
  <2>2. PICK f : f = FirstBinary /\ f <= Len(argv) /\ Scanned(f) /\ Binaries(f)
    BY <2>1 DEF GetoptInv
  <2>3. i = Len(argv) + 1 /\ f \in 1..Len(argv)
    BY <1>1, <2>1, <2>2 DEF Scanned, Binaries
  <2>4. ~AsksHelp /\ ~LacksName /\ opt = Meant
    BY <1>1, <2>2, ScanAnswers
  <2>5. Named = SubSeq(argv, f, Len(argv)) /\ i - 1 = Len(argv)
    BY <1>1, <2>2, <2>3 DEF Named
  <2>6. Len(Named) = i - f
    <3>1. argv \in Seq(STRING)
      BY <1>1, ArgumentType
    <3>2. QED
      BY <1>1, <2>3, <2>5, <3>1
  <2>7. Len(bins) + dropped = i - f /\ (dropped = 0 => bins = Named)
    BY <2>2, <2>5 DEF Binaries
  <2>8. QED
    BY <1>1, <1>2, <2>1, <2>4, <2>6, <2>7 DEF GetoptInv, GetoptAnswers
<1>11. QED
  BY <1>4, <1>5, <1>6, <1>7, <1>8, <1>9, <1>10 DEF GetoptNext

==============================================================================
