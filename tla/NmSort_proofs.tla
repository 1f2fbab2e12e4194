----------------------------- MODULE NmSort_proofs -----------------------------
(***************************************************************************)
(* What nm prints, for every symbol list, every pattern of failing copies  *)
(* and both classes: the order, what may be lost, and where it crashes.    *)
(***************************************************************************)
EXTENDS NmSort, SequenceTheorems, FiniteSetTheorems, TLAPS

(* The symbols waiting are in the order of the table, and the null symbol  *)
(* is the first to go.                                                     *)
Increasing(l) == \A j, k \in 1..Len(l) : j < k => l[j] < l[k]
Editing == pc \notin {"print", "done", "crash"}
TableOrder == Editing => Increasing(syms)

NullGone ==
  pc # "nm" => /\ \A k \in 1..Len(syms) : syms[k] >= 2
               /\ \A k \in 1..Len(newList) : newList[k] >= 2

(* A symbol is waiting or sorted, once.                                    *)
NoTwice ==
  Editing =>
    /\ \A j, k \in 1..Len(newList) : newList[j] = newList[k] => j = k
    /\ \A j \in 1..Len(syms), k \in 1..Len(newList) : syms[j] # newList[k]

(* nm starts from the whole table.  The filter leaves the first symbol it  *)
(* finds printable, and comes to the last one, which is that of the table. *)
FilterInv ==
  /\ pc = "nm" => syms = [s \in 1..Len(input) |-> s]
  /\ pc \in {"nm", "leading", "filter"} =>
       /\ newList = <<>>
       /\ syms # <<>> => syms[Len(syms)] = Len(input)
  /\ pc = "filter" => syms # <<>> /\ ~Skipped(syms[1]) /\ head \in 1..Len(syms)

(* The walk of a round: head is one symbol further than what it has seen.  *)
Selected == indexSelected + 1
WalkInv ==
  /\ pc = "scan" => head \in 1..(Len(syms) + 1) /\ syms # <<>>
  /\ pc = "scan" /\ BelowSentinel =>
       IF head = 1 THEN min = Sentinel
       ELSE /\ Selected \in 1..(head - 1) /\ min = Name(syms[Selected])
            /\ \A k \in 1..(head - 1) :
                 min <= Name(syms[k]) /\ (k < Selected => min < Name(syms[k]))

AllSorted(l) == \A j, k \in 1..Len(l) : j < k => Precedes(l[j], l[k])
SortInv ==
  BelowSentinel =>
    /\ AllSorted(newList)
    /\ Sorting => \A j \in 1..Len(newList), k \in 1..Len(syms) : Precedes(newList[j], syms[k])

(* Nothing is missing but what has been counted.                           *)
Here == ToSet(syms) \cup ToSet(newList)
Missing == Listed \ Here
LossInv ==
  pc \notin {"done", "crash"} => IsFiniteSet(Missing) /\ Cardinality(Missing) <= lost

(* The printing walk over the sorted list: it has printed the symbols of   *)
(* printed types that it has passed.                                       *)
PrintedSet == {printed[j].symbol : j \in 1..Len(printed)}
Passed(n) == {syms[k] : k \in {m \in 1..n : ~Skipped(syms[m])}}
PrintedInOrder ==
  /\ \A j \in 1..Len(printed), k \in head..Len(syms) : Precedes(printed[j].symbol, syms[k])
  /\ \A j, k \in 1..Len(printed) : j < k => Precedes(printed[j].symbol, printed[k].symbol)
PrintInv ==
  /\ \A j \in 1..Len(printed) : printed[j] = Line(printed[j].symbol)
  /\ pc \notin {"print", "done"} => printed = <<>>
  /\ pc = "print" =>
       /\ syms = newList /\ head \in 1..(Len(syms) + 1)
       /\ class = 64 \/ syms # <<>> \/ noSymbols
       /\ PrintedSet = Passed(head - 1)
       /\ BelowSentinel => PrintedInOrder

Counted ==
  /\ Editing => Len(syms) + Len(newList) <= Len(input)
  /\ Len(newList) <= Len(input) /\ Len(syms) <= Len(input)
  /\ pc \in {"filter", "scan", "print"} => head >= 1

IInv ==
  /\ TypeOK /\ Counted /\ TableOrder /\ NullGone /\ NoTwice /\ FilterInv /\ WalkInv
  /\ SortInv /\ LossInv /\ PrintInv
  /\ PrintsListing /\ CrashOnlyBehindSkipped

----------------------------------------------------------------------------
(* Sequences with one element taken out.                                   *)
Within(t, s) == \A j \in 1..Len(t) : \E k \in 1..Len(s) : t[j] = s[k]
Without(t, s, i) == ToSet(t) = ToSet(s) \ {s[i]}
Removed(t, s, i) ==
  /\ Len(t) = Len(s) - 1
  /\ \A j \in 1..(Len(s) - 1) : t[j] = IF j < i THEN s[j] ELSE s[j + 1]

LEMMA RemoveAtFacts ==
  ASSUME NEW S, NEW s \in Seq(S), NEW i \in 1..Len(s)
  PROVE  RemoveAt(s, i) \in Seq(S) /\ Removed(RemoveAt(s, i), s, i)
<1> DEFINE left == SubSeq(s, 1, i - 1)
           right == SubSeq(s, i + 1, Len(s))
<1>1. Len(s) \in Nat /\ \A j \in 1..Len(s) : s[j] \in S
  OBVIOUS
<1>2. left \in Seq(S) /\ Len(left) = i - 1 /\ \A j \in 1..(i - 1) : left[j] = s[j]
  BY <1>1, SubSeqProperties
<1>3. /\ right \in Seq(S) /\ Len(right) = Len(s) - i
      /\ \A j \in 1..(Len(s) - i) : right[j] = s[i + j]
  <2>1. /\ right \in Seq(S)
        /\ Len(right) = IF i + 1 <= Len(s) THEN Len(s) - (i + 1) + 1 ELSE 0
        /\ \A j \in 1..(Len(s) - (i + 1) + 1) : right[j] = s[i + 1 + j - 1]
    BY <1>1, SubSeqProperties
  <2>2. QED
    BY <1>1, <2>1
<1> HIDE DEF left, right
<1>4. /\ left \o right \in Seq(S) /\ Len(left \o right) = Len(left) + Len(right)
      /\ \A j \in 1..(Len(left) + Len(right)) :
           (left \o right)[j] = IF j <= Len(left) THEN left[j] ELSE right[j - Len(left)]
  BY <1>2, <1>3, ConcatProperties
<1> DEFINE t == left \o right
<1> HIDE DEF t
<1>5. ASSUME NEW j \in 1..(Len(s) - 1)
      PROVE  t[j] = IF j < i THEN s[j] ELSE s[j + 1]
  <2>1. j \in 1..(Len(left) + Len(right)) /\ j \in Int /\ i \in Int
    BY <1>1, <1>2, <1>3
  <2>2. t[j] = IF j <= Len(left) THEN left[j] ELSE right[j - Len(left)]
    BY <1>4, <2>1 DEF t
  <2>3. CASE j < i
    BY <1>2, <2>1, <2>2, <2>3
  <2>4. CASE j >= i
    <3>1. j - Len(left) \in 1..(Len(s) - i) /\ i + (j - Len(left)) = j + 1
      BY <1>1, <1>2, <2>1, <2>4
    <3>2. QED
      BY <1>2, <1>3, <2>1, <2>2, <2>4, <3>1
  <2>5. QED
    BY <2>1, <2>3, <2>4
<1>6. t \in Seq(S) /\ Len(t) = Len(s) - 1
  BY <1>1, <1>2, <1>3, <1>4 DEF t
<1>7. RemoveAt(s, i) = t
  BY DEF RemoveAt, t, left, right
<1>8. QED
  BY <1>5, <1>6, <1>7 DEF Removed

LEMMA DelOneFacts ==
  ASSUME NEW S, NEW s \in Seq(S)
  PROVE  /\ DelOne(s) \in Seq(S)
         /\ s = <<>> => DelOne(s) = <<>>
         /\ s # <<>> => DelOne(s) = Tail(s) /\ Removed(DelOne(s), s, 1)
BY HeadTailProperties DEF DelOne, Removed

(* What removing keeps, of an increasing sequence.                         *)
LEMMA RemovedKeeps ==
  ASSUME NEW S, S \subseteq Int, NEW s \in Seq(S), NEW t \in Seq(S),
         NEW i \in 1..Len(s), Removed(t, s, i),
         Increasing(s)
  PROVE  /\ Increasing(t)
         /\ Within(t, s)
         /\ \A j \in 1..Len(t) : t[j] # s[i]
         /\ Without(t, s, i)
<1>1. Len(t) = Len(s) - 1 /\ Len(s) \in Nat /\ Len(t) \in Nat
  BY DEF Removed
<1>2. \A j \in 1..Len(t) : t[j] = IF j < i THEN s[j] ELSE s[j + 1]
  BY <1>1 DEF Removed
<1>3. \A j, k \in 1..Len(s) : s[j] = s[k] => j = k
  <2>1. \A j \in 1..Len(s) : s[j] \in Int
    BY ElementOfSeq
  <2>2. QED
    BY <1>1, <2>1 DEF Increasing
<1>4. Increasing(t)
  BY <1>1, <1>2 DEF Increasing
<1>5. \A j \in 1..Len(t) : \E k \in 1..Len(s) : k # i /\ t[j] = s[k]
  <2> TAKE j \in 1..Len(t)
  <2>1. CASE j < i
    BY <1>1, <1>2, <2>1
  <2>2. CASE j >= i
    BY <1>1, <1>2, <2>2
  <2>3. QED
    BY <1>1, <2>1, <2>2
<1>6. \A j \in 1..Len(t) : t[j] # s[i]
  BY <1>3, <1>5
<1>7. \A k \in 1..Len(s) : k # i => \E j \in 1..Len(t) : s[k] = t[j]
  <2> SUFFICES ASSUME NEW k \in 1..Len(s), k # i
               PROVE  \E j \in 1..Len(t) : s[k] = t[j]
    OBVIOUS
  <2>1. CASE k < i
    BY <1>1, <1>2, <2>1
  <2>2. CASE k > i
    <3>1. k - 1 \in 1..Len(t) /\ t[k - 1] = s[k]
      BY <1>1, <1>2, <2>2
    <3>2. QED
      BY <3>1
  <2>3. QED
    BY <1>1, <2>1, <2>2
<1>8. ToSet(t) = ToSet(s) \ {s[i]}
  <2>1. ToSet(t) = {t[j] : j \in 1..Len(t)} /\ ToSet(s) = {s[j] : j \in 1..Len(s)}
    BY DEF ToSet
  <2>2. ToSet(t) \subseteq ToSet(s) \ {s[i]}
    BY <1>5, <1>6, <2>1
  <2>3. ToSet(s) \ {s[i]} \subseteq ToSet(t)
    BY <1>7, <2>1
  <2>4. QED
    BY <2>2, <2>3
<1>9. QED
  BY <1>4, <1>5, <1>6, <1>8 DEF Within, Without

(* A sequence without repetition has as many elements as places.           *)
LEMMA DistinctCard ==
  ASSUME NEW S, NEW s \in Seq(S),
         \A j, k \in 1..Len(s) : s[j] = s[k] => j = k
  PROVE  IsFiniteSet(ToSet(s)) /\ Cardinality(ToSet(s)) = Len(s)
<1>1. Len(s) \in Nat /\ DOMAIN s = 1..Len(s) /\ ToSet(s) = {s[j] : j \in 1..Len(s)}
  BY DEF ToSet
<1>2. s \in [1..Len(s) -> ToSet(s)]
  BY <1>1
<1>3. s \in Bijection(1..Len(s), ToSet(s))
  BY <1>1, <1>2 DEF Bijection, Injection, Surjection, IsInjective
<1>4. ExistsBijection(1..Len(s), ToSet(s))
  BY <1>3 DEF ExistsBijection
<1>5. IsFiniteSet(1..Len(s)) /\ Cardinality(1..Len(s)) = Len(s)
  BY <1>1, FS_Interval
<1>6. QED
  BY <1>4, <1>5, FS_Bijection

----------------------------------------------------------------------------
(* The letter.                                                             *)

Passes(e, n) == Tests(e)[n][1]
Answer(e, n) == Tests(e)[n][2]

(* The first of the thirteen tests that holds decides: the last one does.  *)
LEMMA FirstTest ==
  ASSUME NEW e
  PROVE  \E n \in 1..13 :
           /\ Passes(e, n) /\ \A k \in 1..13 : k < n => ~Passes(e, k)
           /\ nm_flag_magic(e) = Answer(e, n)
<1> DEFINE First(n) == Passes(e, n) /\ \A k \in 1..(n - 1) : ~Passes(e, k)
<1>1. Passes(e, 13)
  BY DEF Passes, Tests
<1>2. \E n \in 1..13 : First(n)
  <2>1. \A n \in 1..13 : n \in {1, 2, 3, 4, 5, 6, 7, 8, 9, 10, 11, 12, 13}
    OBVIOUS
  <2>2. QED
    BY <1>1, <2>1
<1>3. PICK n \in 1..13 : n = CHOOSE m \in 1..13 : First(m)
  BY <1>2
<1>4. First(n)
  BY <1>2, <1>3
<1>5. nm_flag_magic(e) = Answer(e, n)
  BY <1>3 DEF nm_flag_magic, Passes, Answer
<1>6. \A k \in 1..13 : k < n => k \in 1..(n - 1)
  OBVIOUS
<1>7. QED
  BY <1>4, <1>5, <1>6

LEMMA TestValues ==
  ASSUME NEW e
  PROVE  /\ Passes(e, 1) <=> e.st_shndx = "ABS"
         /\ Passes(e, 2) <=> e.type = "GNU_IFUNC"
         /\ Passes(e, 3) <=> e.bind = "GNU_UNIQUE"
         /\ Passes(e, 4) <=> e.bind = "WEAK" /\ e.sh_type # "NULL" /\ e.type = "OBJECT"
         /\ Passes(e, 5) <=> e.bind = "WEAK"
         /\ Passes(e, 6) <=> e.sh_type = "NULL"
         /\ Passes(e, 7) <=> e.sh_type = "X86_64_UNWIND"
         /\ Passes(e, 8) <=> ReadOnly(e) /\ "ALLOC" \notin e.sh_flags
         /\ Passes(e, 9) <=> ReadOnly(e)
         /\ Passes(e, 10) <=> DataSection(e)
         /\ Passes(e, 11) <=> e.sh_type = "NOBITS"
         /\ Passes(e, 12) <=> e.sh_type = "PROGBITS"
BY DEF Passes, Tests

LEMMA AnswerValues ==
  ASSUME NEW e
  PROVE  /\ Answer(e, 1) = IF e.bind = "GLOBAL" THEN "A" ELSE "a"
         /\ Answer(e, 2) = "i" /\ Answer(e, 3) = "u"
         /\ Answer(e, 4) = IF e.st_shndx = "UNDEF" THEN "v" ELSE "V"
         /\ Answer(e, 5) = IF e.st_shndx = "UNDEF" THEN "w" ELSE "W"
         /\ Answer(e, 6) = "U" /\ Answer(e, 7) = "p" /\ Answer(e, 8) = "n"
         /\ Answer(e, 9) = IF e.bind = "GLOBAL" THEN "R" ELSE "r"
         /\ Answer(e, 10) = IF e.bind = "GLOBAL" THEN "D" ELSE "d"
         /\ Answer(e, 11) = IF e.bind = "GLOBAL" THEN "B" ELSE "b"
         /\ Answer(e, 12) = IF e.bind = "GLOBAL" THEN "T" ELSE "t"
         /\ Answer(e, 13) = "?"
BY DEF Answer, Tests

LEMMA LetterTyped ==
  ASSUME NEW e
  PROVE  nm_flag_magic(e) \in Letters
<1>1. ASSUME NEW n \in 1..13 PROVE Answer(e, n) \in Letters
  BY DEF Answer, Tests, Letters
<1>2. QED
  BY <1>1, FirstTest

----------------------------------------------------------------------------
(* Types.                                                                  *)
Typed == TypeOK /\ Counted

LEMMA InputTyped ==
  ASSUME input \in Lists
  PROVE  /\ Len(input) \in Nat
         /\ \A s \in 1..Len(input) : input[s].name \in Byte
<1> DEFINE S == [name : Byte, type : STRING, bind : STRING, st_shndx : STRING,
                 sh_type : STRING, sh_flags : SUBSET Bits]
<1>1. input \in Seq(S)
  BY ListsAssumption DEF IsList
<1>2. \A e \in S : e.name \in Byte
  OBVIOUS
<1> HIDE DEF S
<1>3. QED
  BY <1>1, <1>2, ElementOfSeq, LenProperties

LEMMA TypedInit == Init => Typed
<1> SUFFICES ASSUME Init PROVE Typed
  OBVIOUS
<1>1. Len(input) \in Nat
  BY InputTyped DEF Init
<1>2. syms \in [1..Len(input) -> 1..Len(input)]
  BY DEF Init
<1>3. syms \in Seq(1..Len(input)) /\ Len(syms) = Len(input)
  BY <1>1, <1>2
<1>4. newList \in Seq(1..Len(input)) /\ Len(newList) = 0 /\ printed = <<>>
  BY DEF Init
<1>5. /\ input \in Lists /\ class \in {32, 64} /\ pc = "nm" /\ head = 0 /\ min = 127
      /\ indexSelected = 0 /\ noSymbols = FALSE /\ lost = 0
  BY DEF Init, Sentinel
<1>6. printed \in Seq(Lines)
  BY <1>4
<1>7. TypeOK
  <2>1. noSymbols \in BOOLEAN
    BY <1>5
  <2>2. head \in 0..(Len(input) + 1) /\ min \in Byte /\ indexSelected \in Nat /\ lost \in Nat
    BY <1>1, <1>5 DEF Byte
  <2>3. QED
    BY <1>3, <1>4, <1>5, <1>6, <2>1, <2>2 DEF TypeOK
<1>8. Counted
  BY <1>1, <1>3, <1>4, <1>5 DEF Counted, Editing
<1>9. QED
  BY <1>7, <1>8 DEF Typed

(* What a step takes out of the list of waiting symbols.                   *)
Takes(i) == i \in 1..Len(syms) /\ syms' \in Seq(1..Len(input)) /\ Removed(syms', syms, i)

LEMMA OneTaken ==
  ASSUME TypeOK
  PROVE  /\ RemoveNull \/ WeirdCase => IF syms = <<>> THEN syms' = syms ELSE Takes(1)
         /\ RemoveLeading => Takes(1)
         /\ pc = "filter" /\ head \in 1..Len(syms) /\ FilterDelete => Takes(head + 1)
         /\ TakeLowest => Takes(indexSelected + 1)
<1>1. syms \in Seq(1..Len(input)) /\ Len(syms) \in Nat /\ indexSelected \in Nat
  BY DEF TypeOK
<1>2. syms # <<>> => 1 \in 1..Len(syms)
  BY <1>1
<1>3. RemoveNull \/ WeirdCase => IF syms = <<>> THEN syms' = syms ELSE Takes(1)
  BY <1>1, <1>2, DelOneFacts DEF RemoveNull, WeirdCase, Takes
<1>4. RemoveLeading => Takes(1)
  BY <1>1, <1>2, HeadTailProperties DEF RemoveLeading, Takes, Removed
<1>5. pc = "filter" /\ head \in 1..Len(syms) /\ FilterDelete => Takes(head + 1)
  BY <1>1, RemoveAtFacts DEF FilterDelete, Takes
<1>6. TakeLowest => Takes(indexSelected + 1)
  BY <1>1, RemoveAtFacts DEF TakeLowest, Takes
<1>7. QED
  BY <1>3, <1>4, <1>5, <1>6

(* A failed copy takes two, or the only one.                               *)
LEMMA TwoTaken ==
  ASSUME TypeOK, CopyFails
  PROVE  \E t \in Seq(1..Len(input)) :
           /\ Selected \in 1..Len(syms) /\ Removed(t, syms, Selected)
           /\ syms' \in Seq(1..Len(input))
           /\ IF t = <<>> THEN syms' = t ELSE Removed(syms', t, 1)
<1>1. /\ syms \in Seq(1..Len(input)) /\ Len(syms) \in Nat /\ indexSelected \in Nat
      /\ Selected \in 1..Len(syms)
  BY DEF TypeOK, CopyFails, Selected
<1> DEFINE t == RemoveAt(syms, Selected)
<1>2. t \in Seq(1..Len(input)) /\ Removed(t, syms, Selected) /\ syms' = DelOne(t)
  BY <1>1, RemoveAtFacts DEF CopyFails, Selected
<1> HIDE DEF t
<1>3. QED
  BY <1>1, <1>2, DelOneFacts

(* The list the parser made is not what nm sorts and filters.              *)
LEMMA OriginKept ==
  ASSUME [Next]_vars
  PROVE  input' = input /\ class' = class
BY DEF Next, Filter, Select, Ended, vars, origin, NothingToSort, RemoveNull, RemoveLeading,
       LeadingRemoved, FilterDelete, FilterKeep, FilterDone, StartRound, ScanStep, TakeLowest,
       CopyFails, WeirdCase, SortDone, PrintSymbol, PrintDone

LEMMA TypedStep ==
  ASSUME Typed, [Next]_vars
  PROVE  Typed'
<1> USE DEF origin, scan, output
<1>0. /\ Len(input) \in Nat /\ Len(syms) \in Nat /\ Len(newList) \in Nat
      /\ syms \in Seq(1..Len(input)) /\ newList \in Seq(1..Len(input))
      /\ input \in Lists /\ input' = input /\ Lines' = Lines
  <2>1. /\ syms \in Seq(1..Len(input)) /\ newList \in Seq(1..Len(input)) /\ input \in Lists
    BY DEF Typed, TypeOK
  <2>2. input' = input /\ Lines' = Lines
    BY OriginKept DEF Lines
  <2>3. QED
    BY <2>1, <2>2, InputTyped, LenProperties
<1>1. CASE NothingToSort
  BY <1>0, <1>1 DEF NothingToSort, Typed, TypeOK, Counted, Editing
<1>2. CASE RemoveNull
  BY <1>0, <1>2, OneTaken DEF RemoveNull, Typed, TypeOK, Counted, Editing, Takes, Removed
<1>3. CASE RemoveLeading
  <2>1. Len(syms') = Len(syms) - 1 /\ syms' \in Seq(1..Len(input))
    BY <1>3, OneTaken DEF Typed, Takes, Removed
  <2>2. QED
    BY <1>0, <1>3, <2>1 DEF RemoveLeading, Typed, TypeOK, Counted, Editing
<1>4. CASE LeadingRemoved
  BY <1>0, <1>4 DEF LeadingRemoved, Typed, TypeOK, Counted, Editing
<1>5. CASE FilterDelete
  <2>1. pc = "filter" /\ head \in 1..Len(syms) /\ Takes(head + 1)
    BY <1>0, <1>5, OneTaken DEF FilterDelete, Typed, TypeOK, Counted, Editing
  <2>2. Len(syms') = Len(syms) - 1 /\ syms' \in Seq(1..Len(input))
    BY <2>1 DEF Takes, Removed
  <2>3. QED
    BY <1>0, <1>5, <2>1, <2>2 DEF FilterDelete, Typed, TypeOK, Counted, Editing
<1>6. CASE FilterKeep
  BY <1>0, <1>6 DEF FilterKeep, Typed, TypeOK, Counted, Editing
<1>7. CASE FilterDone
  BY <1>0, <1>7 DEF FilterDone, Typed, TypeOK, Counted, Editing
<1>8. CASE StartRound
  BY <1>0, <1>8 DEF StartRound, Typed, TypeOK, Counted, Editing, Byte, Sentinel
<1>9. CASE ScanStep
  <2>1. syms[head] \in 1..Len(input) /\ head \in Nat /\ head >= 1
    BY <1>0, <1>9, ElementOfSeq DEF ScanStep, Typed, TypeOK, Counted, Editing
  <2>2. Name(syms[head]) \in Byte
    BY <1>0, <2>1, InputTyped DEF Name
  <2>3. min' \in Byte /\ indexSelected' \in Nat
    BY <1>9, <2>1, <2>2 DEF ScanStep, Index, Typed, TypeOK
  <2>4. QED
    BY <1>0, <1>9, <2>1, <2>3 DEF ScanStep, Typed, TypeOK, Counted, Editing
<1>10. CASE TakeLowest
  <2>1. Takes(indexSelected + 1) /\ syms[indexSelected + 1] \in 1..Len(input)
    BY <1>0, <1>10, OneTaken, ElementOfSeq DEF Typed, Takes
  <2>2. newList' \in Seq(1..Len(input)) /\ Len(newList') = Len(newList) + 1
    BY <1>0, <1>10, <2>1, AppendProperties DEF TakeLowest
  <2>3. QED
    BY <1>0, <1>10, <2>1, <2>2 DEF TakeLowest, ScanDone, Typed, TypeOK, Counted, Editing, Takes, Removed
<1>11. CASE CopyFails
  <2>1. syms' \in Seq(1..Len(input)) /\ Len(syms') \in Nat /\ Len(syms') <= Len(syms)
    BY <1>0, <1>11, TwoTaken DEF Typed, Removed
  <2>2. QED
    BY <1>0, <1>11, <2>1 DEF CopyFails, ScanDone, Typed, TypeOK, Counted, Editing
<1>12. CASE WeirdCase
  <2>1. syms' \in Seq(1..Len(input)) /\ Len(syms') \in Nat /\ Len(syms') <= Len(syms)
    BY <1>0, <1>12, OneTaken DEF Typed, Takes, Removed
  <2>2. QED
    BY <1>0, <1>12, <2>1 DEF WeirdCase, ScanDone, Typed, TypeOK, Counted, Editing
<1>13. CASE SortDone
  <2>1. noSymbols' \in BOOLEAN
    BY <1>13 DEF SortDone
  <2>2. QED
    BY <1>0, <1>13, <2>1 DEF SortDone, Typed, TypeOK, Counted, Editing
<1>14. CASE PrintSymbol
  <2>1. syms[head] \in 1..Len(input)
    BY <1>0, <1>14, ElementOfSeq DEF PrintSymbol, Typed, TypeOK, Counted, Editing
  <2>2. Line(syms[head]) \in Lines
    <3>1. HasValue(input[syms[head]]) \in BOOLEAN
      BY DEF HasValue
    <3>2. QED
      BY <2>1, <3>1, LetterTyped DEF Line, Lines
  <2>3. printed' \in Seq(Lines)
    BY <1>14, <2>2, AppendProperties DEF PrintSymbol, Typed, TypeOK
  <2>4. QED
    BY <1>0, <1>14, <2>3 DEF PrintSymbol, Typed, TypeOK, Counted, Editing
<1>15. CASE PrintDone
  BY <1>0, <1>15 DEF PrintDone, Typed, TypeOK, Counted, Editing
<1>16. CASE UNCHANGED vars
  BY <1>0, <1>16 DEF vars, Typed, TypeOK, Counted, Editing
<1>17. QED
  BY <1>1, <1>2, <1>3, <1>4, <1>5, <1>6, <1>7, <1>8, <1>9, <1>10, <1>11, <1>12, <1>13,
     <1>14, <1>15, <1>16
     DEF Next, Filter, Select, Ended

(* Every variable has its type.                                            *)
THEOREM TypeCorrect == Spec => []TypeOK
<1>1. Spec => []Typed
  BY TypedInit, TypedStep, PTL DEF Spec
<1>2. QED
  BY <1>1, PTL DEF Typed

----------------------------------------------------------------------------
(* The filter and the walks.                                               *)

(* Until it is printed, the list only ever loses symbols.                  *)
LEMMA Shrinks ==
  ASSUME Typed, TableOrder, [Next]_vars, Editing, ~SortDone
  PROVE  /\ Increasing(syms')
         /\ Within(syms', syms)
<1> DEFINE S == 1..Len(input)
<1>1. Len(input) \in Nat /\ S \subseteq Int /\ syms \in Seq(S) /\ Increasing(syms) /\ TypeOK
  BY InputTyped DEF Typed, TypeOK, TableOrder
<1>2. ASSUME NEW i, Takes(i)
      PROVE  /\ Increasing(syms')
             /\ Within(syms', syms)
  <2> HIDE DEF S
  <2>1. syms' \in Seq(S) /\ i \in 1..Len(syms) /\ Removed(syms', syms, i)
    BY <1>2 DEF Takes, S
  <2>2. QED
    BY <1>1, <2>1, RemovedKeeps
<1>3. CASE CopyFails
  <2>1. PICK t \in Seq(S) :
          /\ Selected \in 1..Len(syms) /\ Removed(t, syms, Selected)
          /\ syms' \in Seq(S)
          /\ IF t = <<>> THEN syms' = t ELSE Removed(syms', t, 1)
    BY <1>1, <1>3, TwoTaken
  <2> HIDE DEF S
  <2>2. /\ Increasing(t)
        /\ Within(t, syms)
    BY <1>1, <2>1, RemovedKeeps
  <2>3. CASE t = <<>>
    BY <2>1, <2>2, <2>3
  <2>4. CASE t # <<>>
    <3>1. 1 \in 1..Len(t) /\ Removed(syms', t, 1)
      BY <2>1, <2>4, EmptySeq
    <3>2. /\ Increasing(syms')
          /\ Within(syms', t)
      BY <1>1, <2>1, <2>2, <3>1, RemovedKeeps
    <3>3. QED
      BY <2>2, <3>2 DEF Within
  <2>5. QED
    BY <2>3, <2>4
<1>4. CASE syms' = syms
  BY <1>1, <1>4 DEF Within
<1>5. syms' = syms \/ CopyFails \/ \E i : Takes(i)
  <2>1. RemoveNull \/ WeirdCase \/ RemoveLeading \/ TakeLowest \/ FilterDelete
          => syms' = syms \/ \E i : Takes(i)
    BY <1>1, OneTaken DEF Typed, Counted, TypeOK, FilterDelete
  <2>2. [Next]_vars => \/ syms' = syms \/ CopyFails
                       \/ RemoveNull \/ WeirdCase \/ RemoveLeading \/ TakeLowest \/ FilterDelete
    BY DEF Next, Filter, Select, Ended, vars, origin, NothingToSort, LeadingRemoved,
           FilterKeep, FilterDone, StartRound, ScanStep, PrintSymbol, PrintDone
  <2>3. QED
    BY <2>1, <2>2
<1>6. QED
  BY <1>2, <1>3, <1>4, <1>5

LEMMA Forward ==
  ASSUME Typed, [Next]_vars
  PROVE  /\ Editing' => Editing /\ ~SortDone
         /\ newList' = newList \/ TakeLowest
         /\ pc' # pc \/ syms' # syms => Editing \/ PrintDone
         /\ pc' = "nm" => pc = "nm"
         /\ pc' = "nm" => syms' = syms
<1> USE DEF origin, scan, output, Editing
<1>1. Next => \/ NothingToSort \/ RemoveNull \/ RemoveLeading \/ LeadingRemoved \/ FilterDelete
              \/ FilterKeep \/ FilterDone \/ StartRound \/ ScanStep \/ TakeLowest \/ CopyFails
              \/ WeirdCase \/ SortDone \/ PrintSymbol \/ PrintDone \/ UNCHANGED vars
  BY DEF Next, Filter, Select, Ended
<1>2. QED
  BY <1>1 DEF vars, NothingToSort, RemoveNull, RemoveLeading, LeadingRemoved, FilterDelete,
       FilterKeep, FilterDone, StartRound, ScanStep, ScanDone, TakeLowest, CopyFails, WeirdCase,
       SortDone, PrintSymbol, PrintDone

LEMMA OrderStep ==
  ASSUME Typed, TableOrder, [Next]_vars
  PROVE  TableOrder'
BY Shrinks, Forward DEF TableOrder

(* The null symbol is the lowest.                                          *)
LEMMA NullStep ==
  ASSUME Typed, TableOrder, NullGone, FilterInv, [Next]_vars
  PROVE  NullGone'
<1>1. /\ Len(input) \in Nat /\ Len(syms) \in Nat /\ Len(newList) \in Nat
      /\ syms \in Seq(1..Len(input)) /\ newList \in Seq(1..Len(input))
  BY InputTyped, LenProperties DEF Typed, TypeOK
<1>2. CASE pc = "nm"
  <2>1. newList = <<>> /\ newList' = newList
    BY <1>2, Forward DEF FilterInv, TakeLowest, ScanDone
  <2>2. CASE RemoveNull
    <3>1. CASE syms = <<>>
      BY <2>1, <2>2, <3>1, OneTaken DEF Typed, NullGone
    <3>2. CASE syms # <<>>
      <4>1. Takes(1) /\ Increasing(syms)
        BY <1>2, <2>2, <3>2, OneTaken DEF Typed, TableOrder, Editing
      <4>2. ASSUME NEW k \in 1..Len(syms') PROVE syms'[k] >= 2
        <5>1. /\ k \in 1..(Len(syms) - 1) /\ syms'[k] = syms[k + 1] /\ syms[1] \in Nat
              /\ syms[1] >= 1 /\ syms[k + 1] \in Nat
          BY <1>1, <4>1 DEF Takes, Removed
        <5>2. 1 \in 1..Len(syms) /\ k + 1 \in 1..Len(syms) /\ 1 < k + 1
          BY <1>1, <5>1
        <5>3. syms[1] < syms[k + 1]
          BY <4>1, <5>2 DEF Increasing
        <5>4. QED
          BY <5>1, <5>3
      <4>3. QED
        BY <2>1, <4>2 DEF NullGone
    <3>3. QED
      BY <3>1, <3>2
  <2>3. CASE NothingToSort
    BY <2>1, <2>3 DEF NothingToSort, NullGone
  <2>4. CASE UNCHANGED vars
    BY <1>2, <2>4 DEF vars, NullGone
  <2>5. QED
    BY <1>2, <2>2, <2>3, <2>4
       DEF Next, Filter, Select, Ended, RemoveLeading, LeadingRemoved, FilterDelete, FilterKeep,
           FilterDone, StartRound, ScanStep, ScanDone, TakeLowest, CopyFails, WeirdCase,
           SortDone, PrintSymbol, PrintDone
<1>3. CASE pc # "nm"
  <2>1. /\ \A k \in 1..Len(syms) : syms[k] >= 2
        /\ \A k \in 1..Len(newList) : newList[k] >= 2
    BY <1>3 DEF NullGone
  <2>2. \A k \in 1..Len(newList') : newList'[k] >= 2
    <3>1. CASE newList' = newList
      BY <2>1, <3>1
    <3>2. CASE TakeLowest
      <4>1. syms[indexSelected + 1] \in 1..Len(input) /\ syms[indexSelected + 1] >= 2
        BY <1>1, <2>1, <3>2 DEF TakeLowest, Typed, TypeOK
      <4>2. QED
        BY <1>1, <2>1, <3>2, <4>1, AppendProperties DEF TakeLowest
    <3>3. QED
      BY <3>1, <3>2, Forward
  <2>3. \A k \in 1..Len(syms') : syms'[k] >= 2
    <3>1. CASE Editing /\ ~SortDone
      <4>1. Within(syms', syms)
        BY <3>1, Shrinks
      <4>2. QED
        BY <2>1, <4>1 DEF Within
    <3>2. CASE SortDone
      BY <2>1, <3>2 DEF SortDone
    <3>3. CASE syms' = syms
      BY <2>1, <3>3
    <3>4. QED
      BY <3>1, <3>2, <3>3, Forward DEF PrintDone
  <2>4. QED
    BY <2>2, <2>3 DEF NullGone
<1>4. QED
  BY <1>2, <1>3

(* Nothing is copied that stays.                                           *)
LEMMA NoTwiceStep ==
  ASSUME Typed, TableOrder, NoTwice, [Next]_vars
  PROVE  NoTwice'
<1> SUFFICES ASSUME Editing'
             PROVE  /\ \A j, k \in 1..Len(newList') : newList'[j] = newList'[k] => j = k
                    /\ \A j \in 1..Len(syms'), k \in 1..Len(newList') : syms'[j] # newList'[k]
  BY DEF NoTwice
<1>1. /\ Len(input) \in Nat /\ Len(syms) \in Nat /\ Len(newList) \in Nat
      /\ syms \in Seq(1..Len(input)) /\ newList \in Seq(1..Len(input))
  BY InputTyped, LenProperties DEF Typed, TypeOK
<1>2. /\ Editing /\ ~SortDone /\ Increasing(syms)
      /\ \A j, k \in 1..Len(newList) : newList[j] = newList[k] => j = k
      /\ \A j \in 1..Len(syms), k \in 1..Len(newList) : syms[j] # newList[k]
  BY Forward DEF NoTwice, TableOrder
<1>3. Within(syms', syms)
  BY <1>2, Shrinks
<1>4. CASE newList' = newList
  BY <1>2, <1>3, <1>4 DEF Within
<1>5. CASE TakeLowest
  <2> DEFINE i == indexSelected + 1
             x == syms[i]
  <2>1. Takes(i)
    BY <1>5, OneTaken DEF Typed
  <2>2. /\ i \in 1..Len(syms) /\ x \in 1..Len(input) /\ newList' = Append(newList, x)
        /\ \A k \in 1..Len(newList) : newList[k] # x
    BY <1>1, <1>2, <1>5, <2>1 DEF TakeLowest, Takes
  <2>3. \A j \in 1..Len(syms') : syms'[j] # x
    <3>1. 1..Len(input) \subseteq Int
      BY <1>1
    <3>2. QED
      BY <1>1, <1>2, <2>1, <3>1, RemovedKeeps DEF Takes
  <2> HIDE DEF x
  <2>4. /\ Len(newList') = Len(newList) + 1
        /\ \A k \in 1..Len(newList) : newList'[k] = newList[k]
        /\ newList'[Len(newList) + 1] = x
    BY <1>1, <2>2, AppendProperties
  <2>5. \A k \in 1..Len(newList') : k \in 1..Len(newList) \/ k = Len(newList) + 1
    BY <1>1, <2>4
  <2>6. \A j, k \in 1..Len(newList') : newList'[j] = newList'[k] => j = k
    BY <1>2, <2>2, <2>4, <2>5
  <2>7. \A j \in 1..Len(syms'), k \in 1..Len(newList') : syms'[j] # newList'[k]
    BY <1>2, <1>3, <2>3, <2>4, <2>5 DEF Within
  <2>8. QED
    BY <2>6, <2>7
<1>6. QED
  BY <1>4, <1>5, Forward

LEMMA FilterStep ==
  ASSUME Typed, FilterInv, [Next]_vars
  PROVE  FilterInv'
<1> USE DEF origin, scan, output
<1>1. /\ Len(input) \in Nat /\ Len(syms) \in Nat /\ syms \in Seq(1..Len(input))
      /\ input' = input /\ Counted /\ TypeOK
  BY InputTyped, LenProperties, OriginKept DEF Typed, TypeOK
<1>2. \A s : Skipped(s)' <=> Skipped(s)
  BY <1>1 DEF Skipped
<1>3. ASSUME NEW i, Takes(i), i < Len(syms) \/ i = 1,
             pc \in {"nm", "leading", "filter"}, syms' # <<>>
      PROVE  syms'[Len(syms')] = Len(input) /\ (i > 1 => syms'[1] = syms[1])
  <2>1. /\ i \in 1..Len(syms) /\ Len(syms') = Len(syms) - 1 /\ syms' \in Seq(1..Len(input))
        /\ \A j \in 1..(Len(syms) - 1) : syms'[j] = IF j < i THEN syms[j] ELSE syms[j + 1]
    BY <1>3 DEF Takes, Removed
  <2>2. Len(syms') >= 1 /\ Len(syms') \in 1..(Len(syms) - 1)
    BY <1>1, <1>3, <2>1, EmptySeq
  <2>3. syms'[Len(syms')] = syms[Len(syms)]
    BY <1>1, <1>3, <2>1, <2>2
  <2>4. syms # <<>> /\ syms[Len(syms)] = Len(input)
    BY <1>1, <1>3, <2>1, <2>2 DEF FilterInv
  <2>5. QED
    BY <1>1, <2>1, <2>2, <2>3, <2>4
<1>4. CASE RemoveNull
  <2>1. pc = "nm" /\ pc' = "leading" /\ newList' = newList
    BY <1>4 DEF RemoveNull
  <2>2. CASE syms = <<>>
    BY <1>1, <1>4, <2>1, <2>2, OneTaken DEF FilterInv
  <2>3. CASE syms # <<>>
    BY <1>1, <1>3, <1>4, <2>1, <2>3, OneTaken DEF FilterInv
  <2>4. QED
    BY <2>2, <2>3
<1>5. CASE RemoveLeading
  <2>1. pc = "leading" /\ pc' = pc /\ newList' = newList /\ Takes(1)
    BY <1>1, <1>5, OneTaken DEF RemoveLeading
  <2>2. QED
    BY <1>1, <1>3, <2>1 DEF FilterInv
<1>6. CASE LeadingRemoved
  <2>1. /\ pc = "leading" /\ syms' = syms /\ newList' = newList /\ head' = 1
        /\ pc' = IF syms = <<>> THEN "round" ELSE "filter"
        /\ syms # <<>> => ~Skipped(Head(syms))
    BY <1>6 DEF LeadingRemoved
  <2>2. syms # <<>> => Len(syms) >= 1 /\ Head(syms) = syms[1]
    BY <1>1, EmptySeq
  <2>3. QED
    BY <1>1, <1>2, <2>1, <2>2 DEF FilterInv
<1>7. CASE FilterDelete
  <2>1. /\ pc = "filter" /\ syms # <<>> /\ ~Skipped(syms[1]) /\ head \in 1..Len(syms)
        /\ head < Len(syms) /\ newList = <<>> /\ newList' = newList /\ head' = head + 1
        /\ pc' = IF CrashAtEnd THEN "crash" ELSE pc
    BY <1>7 DEF FilterInv, FilterDelete
  <2>2. Takes(head + 1)
    BY <1>1, <1>7, <2>1, OneTaken
  <2>3. CASE CrashAtEnd
    BY <2>1, <2>3 DEF FilterInv
  <2>4. CASE ~CrashAtEnd
    <3>1. head + 1 < Len(syms) /\ Len(syms') = Len(syms) - 1 /\ head + 1 > 1
      BY <1>1, <2>1, <2>2, <2>4 DEF CrashAtEnd, Takes, Removed
    <3>2. syms' # <<>>
      BY <1>1, <2>1, <3>1
    <3>3. syms'[Len(syms')] = Len(input) /\ syms'[1] = syms[1]
      BY <1>3, <2>1, <2>2, <3>1, <3>2
    <3>4. head' \in 1..Len(syms')
      BY <1>1, <2>1, <3>1
    <3>5. QED
      BY <1>1, <1>2, <2>1, <2>4, <3>2, <3>3, <3>4 DEF FilterInv
  <2>5. QED
    BY <2>3, <2>4
<1>8. CASE FilterKeep
  BY <1>1, <1>2, <1>8 DEF FilterKeep, FilterInv
<1>9. CASE UNCHANGED vars
  BY <1>1, <1>2, <1>9 DEF vars, FilterInv
<1>10. CASE pc' \notin {"nm", "leading", "filter"}
  BY <1>10 DEF FilterInv
<1>11. QED
  BY <1>4, <1>5, <1>6, <1>7, <1>8, <1>9, <1>10
     DEF Next, Filter, Select, Ended, NothingToSort, FilterDone, StartRound, ScanStep, ScanDone,
         TakeLowest, CopyFails, WeirdCase, SortDone, PrintSymbol, PrintDone

----------------------------------------------------------------------------
(* The sort.                                                               *)

(* Below the sentinel, narrowing the difference to a char loses nothing.   *)
LEMMA LowerMeans ==
  ASSUME min \in 0..Sentinel, NEW cur \in 0..(Sentinel - 1)
  PROVE  Lower(cur) <=> cur < min
<1> DEFINE d == min - cur
<1>1. d \in -126..127
  BY DEF Sentinel
<1>2. (d + 128) % 256 = d + 128
  BY <1>1
<1>3. QED
  BY <1>1, <1>2 DEF Lower, Char

LEMMA NameBelow ==
  ASSUME Typed, BelowSentinel
  PROVE  \A k \in 1..Len(syms) :
           syms[k] \in 1..Len(input) /\ Name(syms[k]) \in 0..(Sentinel - 1)
<1>1. syms \in Seq(1..Len(input)) /\ Len(input) \in Nat
  BY InputTyped DEF Typed, TypeOK
<1>2. ASSUME NEW s, s \in 1..Len(input) PROVE Name(s) \in 0..(Sentinel - 1)
  <2>1. Name(s) \in 0..255
    BY <1>2, InputTyped DEF Typed, TypeOK, Name, Byte
  <2>2. Name(s) < 127
    BY <1>2 DEF BelowSentinel, Sentinel
  <2>3. QED
    BY <2>1, <2>2 DEF Sentinel
<1>3. QED
  BY <1>1, <1>2

LEMMA WalkStep ==
  ASSUME Typed, WalkInv, [Next]_vars
  PROVE  WalkInv'
<1> USE DEF origin, scan, output
<1>1. /\ Len(input) \in Nat /\ Len(syms) \in Nat /\ syms \in Seq(1..Len(input))
      /\ input' = input /\ (BelowSentinel' <=> BelowSentinel)
      /\ \A s : Name(s)' = Name(s)
  BY InputTyped, LenProperties, OriginKept DEF Typed, TypeOK, BelowSentinel, Name
<1>2. CASE StartRound
  <2>1. syms # <<>> /\ syms' = syms /\ head' = 1 /\ min' = Sentinel
    BY <1>2 DEF StartRound
  <2>2. QED
    BY <1>1, <2>1 DEF WalkInv
<1>3. CASE ScanStep
  <2>1. /\ pc = "scan" /\ head \in 1..Len(syms) /\ syms # <<>> /\ syms' = syms
        /\ pc' = pc /\ head' = head + 1
        /\ IF Lower(Name(syms[head]))
             THEN min' = Name(syms[head]) /\ indexSelected' = head - 1
             ELSE min' = min /\ indexSelected' = indexSelected
    BY <1>1, <1>3 DEF ScanStep, WalkInv, Index
  <2>2. head' \in 1..(Len(syms') + 1)
    BY <1>1, <2>1
  <2>3. ASSUME BelowSentinel
        PROVE  /\ Selected' \in 1..head /\ min' = Name(syms[Selected'])
               /\ \A k \in 1..head :
                    min' <= Name(syms[k]) /\ (k < Selected' => min' < Name(syms[k]))
    <3> DEFINE N(k) == Name(syms[k])
    <3>1. \A k \in 1..Len(syms) : N(k) \in 0..(Sentinel - 1)
      BY <2>3, NameBelow
    <3>2. CASE head = 1
      <4>1. min = Sentinel /\ N(1) \in 0..(Sentinel - 1)
        BY <2>1, <2>3, <3>1, <3>2 DEF WalkInv
      <4>2. Lower(N(1))
        BY <4>1, LowerMeans DEF Sentinel
      <4>3. min' = N(1) /\ Selected' = 1
        BY <2>1, <3>2, <4>2 DEF Selected
      <4>4. QED
        BY <3>2, <4>1, <4>3
    <3>3. CASE head # 1
      <4>1. /\ Selected \in 1..(head - 1) /\ min = N(Selected)
            /\ \A k \in 1..(head - 1) : min <= N(k) /\ (k < Selected => min < N(k))
        BY <2>1, <2>3, <3>3 DEF WalkInv
      <4>2. N(head) \in 0..(Sentinel - 1) /\ min \in 0..(Sentinel - 1)
        BY <2>1, <3>1, <4>1
      <4>3. Lower(N(head)) <=> N(head) < min
        BY <4>2, LowerMeans DEF Sentinel
      <4> HIDE DEF N
      <4>4. \A k \in 1..head : k \in 1..(head - 1) \/ k = head
        BY <2>1
      <4>5. CASE N(head) < min
        <5>1. min' = N(head) /\ Selected' = head
          BY <2>1, <4>3, <4>5 DEF Selected, N
        <5>2. \A k \in 1..(head - 1) : N(head) < N(k) /\ N(head) <= N(k)
          <6>1. \A k \in 1..(head - 1) : N(k) \in Int
            BY <2>1, <3>1 DEF N
          <6>2. QED
            BY <4>1, <4>2, <4>5, <6>1
        <5>3. \A k \in 1..head : min' <= N(k) /\ (k < Selected' => min' < N(k))
          BY <2>1, <4>2, <4>4, <5>1, <5>2
        <5>4. QED
          BY <2>1, <5>1, <5>3 DEF N
      <4>6. CASE ~(N(head) < min)
        <5>1. min' = min /\ Selected' = Selected
          BY <2>1, <4>3, <4>6 DEF Selected, N
        <5>2. \A k \in 1..head : min <= N(k) /\ (k < Selected => min < N(k))
          BY <2>1, <4>1, <4>2, <4>4, <4>6
        <5>3. QED
          BY <2>1, <4>1, <5>1, <5>2 DEF N
      <4>7. QED
        BY <4>5, <4>6
    <3>4. QED
      BY <3>2, <3>3
  <2>4. head' # 1 /\ head' - 1 = head
    BY <2>1
  <2>5. QED
    BY <1>1, <2>1, <2>2, <2>3, <2>4 DEF WalkInv
<1>4. CASE UNCHANGED vars
  BY <1>1, <1>4 DEF vars, WalkInv, Selected
<1>5. CASE pc' # "scan"
  BY <1>5 DEF WalkInv
<1>6. QED
  BY <1>2, <1>3, <1>4, <1>5
     DEF Next, Filter, Select, Ended, NothingToSort, RemoveNull, RemoveLeading, LeadingRemoved,
         FilterDelete, FilterKeep, FilterDone, ScanDone, TakeLowest, CopyFails, WeirdCase,
         SortDone, PrintSymbol, PrintDone

(* What the walk selected comes before all that stays.                     *)
LEMMA SelectedFirst ==
  ASSUME Typed, TableOrder, WalkInv, BelowSentinel, ScanDone
  PROVE  /\ Selected \in 1..Len(syms)
         /\ \A k \in 1..Len(syms) :
              /\ Name(syms[Selected]) <= Name(syms[k])
              /\ k # Selected => Precedes(syms[Selected], syms[k])
<1>1. Len(syms) \in Nat /\ Increasing(syms) /\ pc = "scan" /\ head > Len(syms) /\ Len(syms) >= 1
  BY EmptySeq DEF Typed, TypeOK, TableOrder, Editing, ScanDone, WalkInv
<1>2. head \in 1..(Len(syms) + 1)
  BY <1>1 DEF WalkInv
<1>3. head - 1 = Len(syms) /\ head # 1
  BY <1>1, <1>2
<1>4. /\ Selected \in 1..Len(syms)
      /\ \A k \in 1..Len(syms) :
           /\ Name(syms[Selected]) <= Name(syms[k])
           /\ k < Selected => Name(syms[Selected]) < Name(syms[k])
  BY <1>1, <1>3 DEF WalkInv
<1>5. ASSUME NEW k \in 1..Len(syms), k # Selected
      PROVE  Precedes(syms[Selected], syms[k])
  <2>1. CASE k < Selected
    BY <1>4, <2>1 DEF Precedes
  <2>2. CASE k > Selected
    <3>1. syms[Selected] < syms[k]
      BY <1>1, <1>4, <2>2 DEF Increasing
    <3>2. Name(syms[Selected]) \in Int /\ Name(syms[k]) \in Int
      <4>1. \A j \in 1..Len(syms) : Name(syms[j]) \in 0..(Sentinel - 1)
        BY NameBelow
      <4>2. Name(syms[Selected]) \in 0..126 /\ Name(syms[k]) \in 0..126
        BY <1>4, <4>1 DEF Sentinel
      <4>3. 0..126 \subseteq Int
        OBVIOUS
      <4>4. QED
        BY <4>2, <4>3, Zenon
    <3>3. QED
      BY <1>4, <3>1, <3>2 DEF Precedes
  <2>3. QED
    BY <1>4, <1>5, <2>1, <2>2
<1>6. QED
  BY <1>4, <1>5

LEMMA SortStep ==
  ASSUME Typed, TableOrder, FilterInv, WalkInv, SortInv, [Next]_vars
  PROVE  SortInv'
<1> USE DEF origin, scan, output
<1>1. /\ Len(input) \in Nat /\ Len(syms) \in Nat /\ Len(newList) \in Nat
      /\ syms \in Seq(1..Len(input)) /\ newList \in Seq(1..Len(input))
      /\ input' = input /\ (BelowSentinel' <=> BelowSentinel)
  BY InputTyped, LenProperties, OriginKept DEF Typed, TypeOK, BelowSentinel, Name
<1>2. \A s, t : Precedes(s, t)' <=> Precedes(s, t)
  BY <1>1 DEF Precedes, Name
<1>3. SUFFICES ASSUME BelowSentinel
      PROVE  /\ \A j, k \in 1..Len(newList') : j < k => Precedes(newList'[j], newList'[k])
             /\ Sorting' => \A j \in 1..Len(newList'), k \in 1..Len(syms') :
                              Precedes(newList'[j], syms'[k])
  BY <1>1, <1>2 DEF SortInv, AllSorted
<1>4. /\ \A j, k \in 1..Len(newList) : j < k => Precedes(newList[j], newList[k])
      /\ Sorting => \A j \in 1..Len(newList), k \in 1..Len(syms) : Precedes(newList[j], syms[k])
  BY <1>3 DEF SortInv, AllSorted
<1>5. CASE newList' = newList
  <2>1. CASE Sorting /\ Sorting'
    <3>1. Within(syms', syms)
      BY <2>1, Shrinks, Forward DEF Sorting, Editing
    <3>2. QED
      BY <1>4, <1>5, <2>1, <3>1 DEF Within
  <2>2. CASE ~Sorting'
    BY <1>4, <1>5, <2>2
  <2>3. CASE ~Sorting /\ Sorting'
    <3>1. newList = <<>>
      BY <2>3 DEF Sorting, FilterInv, Next, Filter, Select, Ended, vars, NothingToSort,
          RemoveNull, RemoveLeading, LeadingRemoved, FilterDelete, FilterKeep, FilterDone,
          StartRound, ScanStep, ScanDone, TakeLowest, CopyFails, WeirdCase, SortDone,
          PrintSymbol, PrintDone
    <3>2. QED
      BY <1>5, <3>1
  <2>4. QED
    BY <2>1, <2>2, <2>3
<1>6. CASE TakeLowest
  <2> DEFINE x == syms[Selected]
  <2>1. ScanDone /\ newList' = Append(newList, x) /\ Sorting /\ Editing /\ ~SortDone
    BY <1>6 DEF TakeLowest, Selected, ScanDone, Sorting, Editing, SortDone
  <2>2. /\ Selected \in 1..Len(syms) /\ x \in 1..Len(input)
        /\ \A k \in 1..Len(syms) : k # Selected => Precedes(x, syms[k])
    BY <1>1, <1>3, <2>1, SelectedFirst
  <2>3. Takes(Selected) /\ Increasing(syms)
    BY <1>6, <2>1, OneTaken DEF Typed, Selected, TableOrder
  <2>4. Within(syms', syms) /\ \A j \in 1..Len(syms') : syms'[j] # x
    <3>1. 1..Len(input) \subseteq Int
      BY <1>1
    <3>2. QED
      BY <1>1, <2>3, <3>1, RemovedKeeps DEF Takes
  <2> HIDE DEF x
  <2>5. /\ Len(newList') = Len(newList) + 1
        /\ \A k \in 1..Len(newList) : newList'[k] = newList[k]
        /\ newList'[Len(newList) + 1] = x
    BY <1>1, <2>1, <2>2, AppendProperties
  <2>6. \A k \in 1..Len(newList') : k \in 1..Len(newList) \/ k = Len(newList) + 1
    BY <1>1, <2>5
  <2>7. \A j \in 1..Len(newList) : Precedes(newList[j], x)
    BY <1>4, <2>1, <2>2 DEF x
  <2>8. \A k \in 1..Len(syms') : Precedes(x, syms'[k])
    BY <2>2, <2>4 DEF Within, x
  <2>9. \A j \in 1..Len(newList), k \in 1..Len(syms') : Precedes(newList[j], syms'[k])
    BY <1>4, <2>1, <2>4 DEF Within
  <2>10. ASSUME NEW j \in 1..Len(newList'), NEW k \in 1..Len(newList'), j < k
         PROVE  Precedes(newList'[j], newList'[k])
    <3>1. j \in 1..Len(newList)
      BY <1>1, <2>5, <2>10
    <3>2. QED
      BY <1>4, <2>5, <2>6, <2>7, <2>10, <3>1
  <2>11. \A j \in 1..Len(newList'), k \in 1..Len(syms') : Precedes(newList'[j], syms'[k])
    BY <2>5, <2>6, <2>8, <2>9
  <2>12. QED
    BY <2>10, <2>11
<1>7. QED
  BY <1>5, <1>6, Forward

----------------------------------------------------------------------------
(* What is lost.                                                           *)

LEMMA AddOne ==
  ASSUME NEW A, NEW B, NEW x, NEW n \in Nat,
         IsFiniteSet(A), Cardinality(A) <= n, B \subseteq A \cup {x}
  PROVE  IsFiniteSet(B) /\ Cardinality(B) <= n + 1
<1>1. IsFiniteSet(A \cup {x}) /\ Cardinality(A \cup {x}) <= Cardinality(A) + 1
  <2>1. IsFiniteSet(A \cup {x}) /\ Cardinality(A) \in Nat
    BY FS_AddElement, FS_CardinalityType
  <2>2. CASE x \in A
    <3>1. A \cup {x} = A
      BY <2>2
    <3>2. QED
      BY <2>1, <3>1
  <2>3. CASE x \notin A
    <3>1. Cardinality(A \cup {x}) = Cardinality(A) + 1
      BY <2>3, FS_AddElement
    <3>2. QED
      BY <2>1, <3>1
  <2>4. QED
    BY <2>2, <2>3
<1>2. IsFiniteSet(B) /\ Cardinality(B) <= Cardinality(A \cup {x})
  BY <1>1, FS_Subset
<1>3. Cardinality(A) \in Nat /\ Cardinality(B) \in Nat /\ Cardinality(A \cup {x}) \in Nat
  BY <1>1, <1>2, FS_CardinalityType
<1>4. QED
  BY <1>1, <1>2, <1>3

LEMMA LossInit == Init => LossInv
<1> SUFFICES ASSUME Init PROVE LossInv
  OBVIOUS
<1>1. syms = [s \in 1..Len(input) |-> s] /\ lost = 0 /\ Len(input) \in Nat
  BY InputTyped DEF Init
<1>2. Len(syms) = Len(input) /\ \A s \in 1..Len(input) : syms[s] = s
  BY <1>1
<1>3. Missing = {}
  BY <1>1, <1>2 DEF Missing, Listed, Here, ToSet
<1>4. QED
  BY <1>1, <1>3, FS_EmptySet DEF LossInv

LEMMA LossStep ==
  ASSUME Typed, TableOrder, FilterInv, WalkInv, LossInv, [Next]_vars
  PROVE  LossInv'
<1> USE DEF origin, scan, output
<1>1. /\ Len(input) \in Nat /\ Len(syms) \in Nat /\ Len(newList) \in Nat /\ lost \in Nat
      /\ syms \in Seq(1..Len(input)) /\ newList \in Seq(1..Len(input))
      /\ Listed' = Listed /\ 1..Len(input) \subseteq Int
  BY InputTyped, LenProperties, OriginKept DEF Typed, TypeOK, Listed, Skipped
<1>2. SUFFICES ASSUME pc' \notin {"done", "crash"}
               PROVE  IsFiniteSet(Missing') /\ Cardinality(Missing') <= lost'
  BY DEF LossInv
<1>3. IsFiniteSet(Missing) /\ Cardinality(Missing) <= lost
  BY <1>2 DEF LossInv, Next, Filter, Select, Ended, vars, NothingToSort,
      RemoveNull, RemoveLeading, LeadingRemoved, FilterDelete, FilterKeep, FilterDone,
      StartRound, ScanStep, ScanDone, TakeLowest, CopyFails, WeirdCase, SortDone,
      PrintSymbol, PrintDone
<1>4. CASE Missing' = Missing /\ lost' = lost
  BY <1>3, <1>4
<1>5. ASSUME NEW i, Takes(i), Editing, newList' = newList
      PROVE  Here' = (ToSet(syms) \ {syms[i]}) \cup ToSet(newList)
  <2>1. i \in 1..Len(syms) /\ Increasing(syms)
    BY <1>5 DEF Takes, TableOrder
  <2>2. ToSet(syms') = ToSet(syms) \ {syms[i]}
    BY <1>1, <1>5, <2>1, RemovedKeeps DEF Takes, Without
  <2>3. QED
    BY <1>5, <2>2 DEF Here
<1>6. ASSUME NEW i, Takes(i), Editing, newList' = newList, lost' = lost, syms[i] \notin Listed
      PROVE  Missing' = Missing
  BY <1>1, <1>5, <1>6 DEF Missing, Here
<1>7. CASE RemoveNull
  <2>1. pc = "nm" /\ Editing /\ newList' = newList /\ lost' = lost
    BY <1>7 DEF RemoveNull, Editing
  <2>2. CASE syms = <<>>
    BY <1>1, <1>4, <1>7, <2>1, <2>2, OneTaken DEF Typed, Missing, Here
  <2>3. CASE syms # <<>>
    <3>1. Takes(1)
      BY <1>7, <2>3, OneTaken DEF Typed
    <3>2. syms[1] = 1
      BY <1>1, <2>1, <3>1 DEF Takes, FilterInv
    <3>3. syms[1] \notin Listed
      BY <1>1, <3>2 DEF Listed
    <3>4. QED
      BY <1>4, <1>6, <2>1, <3>1, <3>3
  <2>4. QED
    BY <2>2, <2>3
<1>8. CASE RemoveLeading
  <2>1. Editing /\ newList' = newList /\ lost' = lost /\ Takes(1)
    BY <1>8, OneTaken DEF RemoveLeading, Editing, Typed
  <2>2. syms[1] \notin Listed
    BY <1>8 DEF RemoveLeading, Listed
  <2>3. QED
    BY <1>4, <1>6, <2>1, <2>2
<1>9. CASE FilterDelete
  <2>1. Editing /\ newList' = newList /\ lost' = lost /\ Takes(head + 1)
    BY <1>9, OneTaken DEF FilterDelete, Editing, Typed, FilterInv
  <2>2. syms[head + 1] \notin Listed
    BY <1>9 DEF FilterDelete, Listed
  <2>3. QED
    BY <1>4, <1>6, <2>1, <2>2
<1>10. CASE TakeLowest
  <2> DEFINE x == syms[Selected]
  <2>1. Editing /\ newList' = Append(newList, x) /\ lost' = lost
    BY <1>10 DEF TakeLowest, Selected, ScanDone, Editing
  <2>2. Takes(Selected) /\ Increasing(syms) /\ Selected \in 1..Len(syms)
    BY <1>10, <2>1, OneTaken DEF Typed, Selected, TableOrder, Takes
  <2>3. ToSet(syms') = ToSet(syms) \ {x}
    BY <1>1, <2>2, RemovedKeeps DEF Takes, Without
  <2>4. x \in ToSet(syms) /\ x \in 1..Len(input)
    BY <1>1, <2>2 DEF ToSet
  <2> HIDE DEF x
  <2>5. ToSet(newList') = ToSet(newList) \cup {x}
    <3>1. /\ Len(newList') = Len(newList) + 1
          /\ \A k \in 1..Len(newList) : newList'[k] = newList[k]
          /\ newList'[Len(newList) + 1] = x
      BY <1>1, <2>1, <2>4, AppendProperties
    <3>2. /\ ToSet(newList') = {newList'[k] : k \in 1..Len(newList')}
          /\ ToSet(newList) = {newList[k] : k \in 1..Len(newList)}
      BY DEF ToSet
    <3>3. \A k \in 1..Len(newList') : k \in 1..Len(newList) \/ k = Len(newList) + 1
      BY <1>1, <3>1
    <3>4. Len(newList) + 1 \in 1..Len(newList') /\ 1..Len(newList) \subseteq 1..Len(newList')
      BY <1>1, <3>1
    <3>5. QED
      BY <3>1, <3>2, <3>3, <3>4
  <2>6. Here' = Here
    BY <2>3, <2>4, <2>5 DEF Here
  <2>7. QED
    BY <1>1, <1>4, <2>1, <2>6 DEF Missing
<1>11. CASE CopyFails
  <2>1. Editing /\ newList' = newList /\ lost' = lost + 2 /\ Increasing(syms)
    BY <1>11 DEF CopyFails, ScanDone, Editing, TableOrder
  <2>2. PICK t :
          /\ t \in Seq(1..Len(input))
          /\ Selected \in 1..Len(syms) /\ Removed(t, syms, Selected)
          /\ syms' \in Seq(1..Len(input))
          /\ IF t = <<>> THEN syms' = t ELSE Removed(syms', t, 1)
    BY <1>11, TwoTaken DEF Typed
  <2>3. ToSet(t) = ToSet(syms) \ {syms[Selected]} /\ Increasing(t)
    BY <1>1, <2>1, <2>2, RemovedKeeps DEF Without
  <2>4. \E y : ToSet(t) \subseteq ToSet(syms') \cup {y}
    <3>1. CASE t = <<>>
      BY <2>2, <3>1
    <3>2. CASE t # <<>>
      <4>1. 1 \in 1..Len(t) /\ Removed(syms', t, 1)
        BY <2>2, <3>2, EmptySeq
      <4>2. ToSet(syms') = ToSet(t) \ {t[1]}
        <5>1. /\ 1..Len(input) \subseteq Int /\ Increasing(t)
              /\ t \in Seq(1..Len(input)) /\ syms' \in Seq(1..Len(input))
          BY <1>1, <2>2, <2>3
        <5>2. Without(syms', t, 1)
          BY <4>1, <5>1, RemovedKeeps
        <5>3. QED
          BY <5>2 DEF Without
      <4>3. QED
        BY <4>2
    <3>3. QED
      BY <3>1, <3>2
  <2>5. PICK y : ToSet(t) \subseteq ToSet(syms') \cup {y}
    BY <2>4
  <2>6. Missing' \subseteq (Missing \cup {syms[Selected]}) \cup {y}
    BY <1>1, <2>1, <2>3, <2>5 DEF Missing, Here
  <2>7. /\ IsFiniteSet(Missing \cup {syms[Selected]})
        /\ Cardinality(Missing \cup {syms[Selected]}) <= lost + 1
    BY <1>1, <1>3, AddOne
  <2>8. IsFiniteSet(Missing') /\ Cardinality(Missing') <= (lost + 1) + 1
    <3>1. lost + 1 \in Nat
      BY <1>1
    <3>2. QED
      BY <2>6, <2>7, <3>1, AddOne
  <2>9. QED
    BY <1>1, <2>1, <2>8
<1>12. CASE WeirdCase
  <2>1. Editing /\ newList' = newList /\ lost' = lost + 1 /\ syms # <<>>
    BY <1>12 DEF WeirdCase, ScanDone, Editing, WalkInv
  <2>2. Takes(1)
    BY <1>12, <2>1, OneTaken DEF Typed
  <2>3. Missing' \subseteq Missing \cup {syms[1]}
    BY <1>1, <1>5, <2>1, <2>2 DEF Missing, Here
  <2>4. QED
    BY <1>1, <1>3, <2>1, <2>3, AddOne
<1>13. CASE SortDone
  <2>1. syms = <<>> /\ syms' = newList /\ newList' = newList /\ lost' = lost
    BY <1>13 DEF SortDone
  <2>2. ToSet(syms) = {}
    BY <2>1 DEF ToSet
  <2>3. QED
    BY <1>1, <1>4, <2>1, <2>2 DEF Missing, Here
<1>14. CASE syms' = syms /\ newList' = newList /\ lost' = lost
  BY <1>1, <1>4, <1>14 DEF Missing, Here
<1>15. QED
  BY <1>7, <1>8, <1>9, <1>10, <1>11, <1>12, <1>13, <1>14
     DEF Next, Filter, Select, Ended, vars, NothingToSort, LeadingRemoved, FilterKeep,
         FilterDone, StartRound, ScanStep, PrintSymbol, PrintDone

----------------------------------------------------------------------------
(* What is printed.                                                        *)

LEMMA PrintStep ==
  ASSUME Typed, SortInv, PrintInv, [Next]_vars
  PROVE  PrintInv'
<1> USE DEF origin, scan, output
<1>1. /\ Len(input) \in Nat /\ Len(syms) \in Nat /\ Len(newList) \in Nat /\ Len(printed) \in Nat
      /\ syms \in Seq(1..Len(input)) /\ newList \in Seq(1..Len(input)) /\ printed \in Seq(Lines)
      /\ input' = input /\ class' = class /\ (BelowSentinel' <=> BelowSentinel)
  BY InputTyped, LenProperties, OriginKept DEF Typed, TypeOK, BelowSentinel, Name
<1>2. /\ \A s, t : Precedes(s, t)' <=> Precedes(s, t)
      /\ \A s : (Skipped(s)' <=> Skipped(s)) /\ Line(s)' = Line(s)
  BY <1>1 DEF Precedes, Name, Skipped, Line
<1>3. CASE SortDone
  <2>1. /\ pc = "round" /\ syms' = newList /\ newList' = newList /\ printed' = printed
        /\ head' = 1 /\ noSymbols' = (class = 32 /\ newList = <<>>) /\ pc' = "print"
    BY <1>3 DEF SortDone
  <2>2. printed = <<>> /\ Len(printed') = 0
    BY <2>1 DEF PrintInv
  <2>3. class' = 64 \/ syms' # <<>> \/ noSymbols'
    BY <1>1, <2>1 DEF Typed, TypeOK
  <2>4. PrintedSet' = {} /\ Passed(head - 1)' = {}
    BY <2>1, <2>2 DEF PrintedSet, Passed
  <2>5. PrintedInOrder'
    BY <2>2 DEF PrintedInOrder
  <2>6. QED
    BY <1>1, <2>1, <2>2, <2>3, <2>4, <2>5 DEF PrintInv
<1>4. CASE PrintSymbol
  <2> DEFINE x == syms[head]
  <2>1. /\ pc = "print" /\ head \in 1..Len(syms) /\ syms = newList /\ syms' = syms
        /\ newList' = newList /\ head' = head + 1 /\ pc' = pc /\ noSymbols' = noSymbols
        /\ class = 64 \/ syms # <<>> \/ noSymbols
        /\ printed' = IF Skipped(x) THEN printed ELSE Append(printed, Line(x))
        /\ \A j \in 1..Len(printed) : printed[j] = Line(printed[j].symbol)
        /\ PrintedSet = Passed(head - 1) /\ (BelowSentinel => PrintedInOrder)
    BY <1>1, <1>4 DEF PrintSymbol, PrintInv
  <2>2. \A j, k \in 1..Len(syms) : BelowSentinel /\ j < k => Precedes(syms[j], syms[k])
    BY <2>1 DEF SortInv, AllSorted
  <2>3. /\ head' - 1 = head /\ head' \in 1..(Len(syms) + 1)
        /\ \A k \in (head + 1)..Len(syms) : k \in head..Len(syms) /\ k \in 1..Len(syms) /\ head < k
        /\ \A n : n \in 1..head <=> n \in 1..(head - 1) \/ n = head
        /\ head \in head..Len(syms)
    BY <1>1, <2>1
  <2>4. Passed(head - 1)' = Passed(head)
    BY <1>1, <2>1, <2>3 DEF Passed, Skipped
  <2>5. CASE Skipped(x)
    <3>1. printed' = printed /\ PrintedSet' = PrintedSet
      BY <2>1, <2>5 DEF PrintedSet
    <3>2. Passed(head) = Passed(head - 1)
      BY <2>3, <2>5 DEF Passed
    <3>3. BelowSentinel => PrintedInOrder'
      BY <1>2, <2>1, <2>3, <3>1 DEF PrintedInOrder
    <3>4. QED
      BY <1>1, <1>2, <2>1, <2>3, <2>4, <3>1, <3>2, <3>3 DEF PrintInv
  <2>6. CASE ~Skipped(x)
    <3>1. Line(x).symbol = x
      BY DEF Line
    <3>2. x \in 1..Len(input) /\ Line(x) \in Lines
      <4>1. x \in 1..Len(input)
        BY <1>1, <2>1
      <4>2. HasValue(input[x]) \in BOOLEAN
        BY DEF HasValue
      <4>3. QED
        BY <4>1, <4>2, LetterTyped DEF Line, Lines
    <3> DEFINE m == Len(printed) + 1
    <3>3. /\ Len(printed') = m /\ printed'[m] = Line(x)
          /\ \A k \in 1..Len(printed) : printed'[k] = printed[k]
      <4> HIDE DEF x
      <4>1. QED
        BY <1>1, <2>1, <2>6, <3>2, AppendProperties
    <3>4. \A k : k \in 1..m <=> k \in 1..Len(printed) \/ k = m
      BY <1>1
    <3>5. \A j \in 1..Len(printed') : printed'[j] = Line(printed'[j].symbol)
      BY <2>1, <3>1, <3>3, <3>4
    <3>6. PrintedSet' = PrintedSet \cup {x}
      BY <3>1, <3>3, <3>4 DEF PrintedSet
    <3>7. Passed(head) = Passed(head - 1) \cup {x}
      BY <2>3, <2>6 DEF Passed
    <3>8. ASSUME BelowSentinel
          PROVE  PrintedInOrder'
      <4>1. \A k \in (head + 1)..Len(syms) : Precedes(x, syms[k])
        BY <2>1, <2>2, <2>3, <3>8
      <4>2. /\ \A j \in 1..Len(printed) : Precedes(printed[j].symbol, x)
            /\ \A j \in 1..Len(printed), k \in (head + 1)..Len(syms) :
                  Precedes(printed[j].symbol, syms[k])
            /\ \A j, k \in 1..Len(printed) :
                  j < k => Precedes(printed[j].symbol, printed[k].symbol)
        BY <2>1, <2>3, <3>8 DEF PrintedInOrder
      <4>3. \A j, k \in 1..m : j < k => j \in 1..Len(printed)
        BY <1>1
      <4> HIDE DEF x
      <4>4. \A j \in 1..m, k \in (head + 1)..Len(syms) : Precedes(printed'[j].symbol, syms[k])
        BY <3>1, <3>3, <3>4, <4>1, <4>2
      <4>5. \A j, k \in 1..m : j < k => Precedes(printed'[j].symbol, printed'[k].symbol)
        BY <3>1, <3>3, <3>4, <4>2, <4>3
      <4>6. QED
        BY <1>2, <2>1, <3>3, <4>4, <4>5 DEF PrintedInOrder
    <3>9. QED
      BY <1>1, <1>2, <2>1, <2>3, <2>4, <3>5, <3>6, <3>7, <3>8 DEF PrintInv
  <2>7. QED
    BY <2>5, <2>6
<1>5. CASE UNCHANGED vars
  <2>1. PrintedSet' = PrintedSet /\ Passed(head - 1)' = Passed(head - 1)
    BY <1>5 DEF vars, PrintedSet, Passed, Skipped
  <2>2. PrintedInOrder' <=> PrintedInOrder
    BY <1>2, <1>5 DEF vars, PrintedInOrder
  <2>3. QED
    BY <1>1, <1>2, <1>5, <2>1, <2>2 DEF vars, PrintInv
<1>6. CASE printed' = printed /\ pc' # "print" /\ (pc' # "done" => pc \notin {"print", "done"})
  BY <1>1, <1>2, <1>6 DEF PrintInv
<1>7. QED
  BY <1>3, <1>4, <1>5, <1>6
     DEF Next, Filter, Select, Ended, NothingToSort, RemoveNull, RemoveLeading, LeadingRemoved,
         FilterDelete, FilterKeep, FilterDone, StartRound, ScanStep, ScanDone, TakeLowest,
         CopyFails, WeirdCase, PrintDone

LEMMA ListingStep ==
  ASSUME Typed, NullGone, FilterInv, LossInv, PrintInv, PrintsListing, [Next]_vars
  PROVE  PrintsListing'
<1> USE DEF origin, scan, output
<1>1. /\ Len(input) \in Nat /\ Len(syms) \in Nat /\ Len(printed) \in Nat /\ lost \in Nat
      /\ syms \in Seq(1..Len(input)) /\ input' = input /\ class' = class
      /\ Listed' = Listed /\ (BelowSentinel' <=> BelowSentinel)
      /\ \A s, t : Precedes(s, t)' <=> Precedes(s, t)
  BY InputTyped, LenProperties, OriginKept
     DEF Typed, TypeOK, Listed, Skipped, BelowSentinel, Precedes, Name
<1> DEFINE lines == [j \in 1..Len(printed) |-> printed[j].symbol]
<1>2. DOMAIN lines = 1..Len(printed) /\ ToSet(lines) = {printed[j].symbol : j \in 1..Len(printed)}
  BY DEF ToSet
<1>3. CASE NothingToSort
  <2>1. /\ syms = <<>> /\ pc = "nm" /\ class = 64 /\ printed' = printed /\ printed = <<>>
        /\ pc' = "done"
    BY <1>3 DEF NothingToSort, PrintInv
  <2>2. Len(input) = 0
    BY <1>1, <2>1 DEF FilterInv
  <2>3. Listed = {}
    BY <2>2 DEF Listed
  <2>4. lines' = <<>> /\ ToSet(lines') = {} /\ SortedList(lines)'
    BY <1>1, <2>1 DEF ToSet, SortedList
  <2>5. QED
    BY <1>1, <2>1, <2>3, <2>4 DEF PrintsListing
<1>4. CASE PrintDone
  <2>1. /\ pc = "print" /\ head = Len(syms) + 1 /\ syms = newList /\ syms' = syms
        /\ printed' = printed /\ noSymbols' = noSymbols /\ lost' = lost /\ lines' = lines
        /\ class = 64 \/ syms # <<>> \/ noSymbols
    BY <1>1, <1>4 DEF PrintDone, PrintInv
  <2>2. /\ PrintedSet = Passed(head - 1) /\ head - 1 = Len(syms)
        /\ BelowSentinel => \A j, k \in 1..Len(printed) :
                j < k => Precedes(printed[j].symbol, printed[k].symbol)
    BY <1>1, <2>1 DEF PrintInv, PrintedInOrder
  <2>3. BelowSentinel => SortedList(lines)
    <3>1. Len(lines) = Len(printed)
      BY <1>1
    <3>2. SUFFICES ASSUME BelowSentinel, NEW j \in 1..(Len(printed) - 1)
                   PROVE  Precedes(printed[j].symbol, printed[j + 1].symbol)
      BY <1>1, <3>1 DEF SortedList
    <3>3. j \in 1..Len(printed) /\ j + 1 \in 1..Len(printed) /\ j < j + 1
      BY <1>1
    <3>4. QED
      BY <2>2, <3>2, <3>3
  <2>4. \A k \in 1..Len(syms) : syms[k] \in 1..Len(input) /\ syms[k] >= 2
    BY <1>1, <2>1 DEF NullGone
  <2>5. ToSet(lines) \subseteq Listed
    <3>1. \A k \in 1..Len(syms) : ~Skipped(syms[k]) => syms[k] \in Listed
      BY <1>1, <2>4 DEF Listed
    <3>2. Passed(Len(syms)) \subseteq Listed
      BY <3>1 DEF Passed
    <3>3. QED
      BY <1>2, <2>2, <3>2 DEF PrintedSet
  <2>6. lost = 0 => Listed \subseteq ToSet(lines)
    <3>1. SUFFICES ASSUME lost = 0 PROVE Listed \subseteq ToSet(lines)
      OBVIOUS
    <3>2. Missing = {}
      <4>1. IsFiniteSet(Missing) /\ Cardinality(Missing) <= 0
        BY <2>1, <3>1 DEF LossInv
      <4>2. QED
        BY <4>1, FS_EmptySet, FS_CardinalityType
    <3>3. ToSet(syms) = {syms[k] : k \in 1..Len(syms)}
      BY DEF ToSet
    <3>4. \A s \in Listed : s \in ToSet(syms)
      BY <2>1, <3>2 DEF Missing, Here
    <3>5. \A s \in Listed : ~Skipped(s)
      BY DEF Listed
    <3>6. Listed \subseteq Passed(Len(syms))
      BY <3>3, <3>4, <3>5 DEF Passed
    <3>7. QED
      BY <1>2, <2>2, <3>6 DEF PrintedSet
  <2>7. SortedList(lines)' <=> SortedList(lines)
    BY <1>1, <2>1 DEF SortedList
  <2>8. QED
    BY <1>1, <2>1, <2>3, <2>5, <2>6, <2>7 DEF PrintsListing
<1>5. CASE UNCHANGED vars
  <2>1. /\ pc' = pc /\ printed' = printed /\ lost' = lost /\ syms' = syms /\ noSymbols' = noSymbols
        /\ lines' = lines
    BY <1>5 DEF vars
  <2>2. SortedList(lines)' <=> SortedList(lines)
    BY <1>1, <2>1 DEF SortedList
  <2>3. QED
    BY <1>1, <2>1, <2>2 DEF PrintsListing
<1>6. CASE pc' # "done"
  BY <1>6 DEF PrintsListing
<1>7. QED
  BY <1>3, <1>4, <1>5, <1>6
     DEF Next, Filter, Select, Ended, RemoveNull, RemoveLeading, LeadingRemoved,
         FilterDelete, FilterKeep, FilterDone, StartRound, ScanStep, ScanDone, TakeLowest,
         CopyFails, WeirdCase, SortDone, PrintSymbol

LEMMA CrashStep ==
  ASSUME Typed, NullGone, FilterInv, CrashOnlyBehindSkipped, [Next]_vars
  PROVE  CrashOnlyBehindSkipped'
<1> USE DEF origin, scan, output
<1>1. /\ Len(syms) \in Nat /\ syms \in Seq(1..Len(input)) /\ input' = input
      /\ Listed' = Listed /\ (Skipped(Len(input))' <=> Skipped(Len(input)))
  BY LenProperties, OriginKept DEF Typed, TypeOK, Listed, Skipped
<1>2. CASE FilterDelete /\ pc' = "crash"
  <2>1. /\ pc = "filter" /\ syms # <<>> /\ ~Skipped(syms[1]) /\ head \in 1..Len(syms)
        /\ syms[Len(syms)] = Len(input) /\ Skipped(syms[head + 1]) /\ CrashAtEnd
    BY <1>2 DEF FilterInv, FilterDelete
  <2>2. head + 1 = Len(syms)
    BY <1>1, <2>1 DEF CrashAtEnd
  <2>3. syms[1] \in Listed
    BY <1>1, <2>1 DEF NullGone, Listed
  <2>4. QED
    BY <1>1, <2>1, <2>2, <2>3 DEF CrashOnlyBehindSkipped
<1>3. CASE UNCHANGED vars
  BY <1>1, <1>3 DEF vars, CrashOnlyBehindSkipped
<1>4. CASE pc' # "crash"
  BY <1>4 DEF CrashOnlyBehindSkipped
<1>5. QED
  BY <1>2, <1>3, <1>4
     DEF Next, Filter, Select, Ended, NothingToSort, RemoveNull, RemoveLeading, LeadingRemoved,
         FilterKeep, FilterDone, StartRound, ScanStep, ScanDone, TakeLowest, CopyFails,
         WeirdCase, SortDone, PrintSymbol, PrintDone

----------------------------------------------------------------------------
(* The theorems.                                                           *)

LEMMA IInvInit == Init => IInv
<1> SUFFICES ASSUME Init PROVE IInv
  OBVIOUS
<1>1. Typed /\ LossInv
  BY TypedInit, LossInit
<1>2. /\ syms = [s \in 1..Len(input) |-> s] /\ newList = <<>> /\ printed = <<>> /\ pc = "nm"
      /\ Len(input) \in Nat
  BY InputTyped DEF Init
<1>3. Len(syms) = Len(input) /\ \A s \in 1..Len(input) : syms[s] = s
  BY <1>2
<1>4. TableOrder /\ NoTwice /\ FilterInv
  BY <1>2, <1>3 DEF TableOrder, Increasing, NoTwice, FilterInv
<1>5. NullGone /\ WalkInv /\ SortInv /\ PrintsListing /\ CrashOnlyBehindSkipped
  BY <1>2 DEF NullGone, WalkInv, SortInv, AllSorted, Sorting, PrintsListing,
              CrashOnlyBehindSkipped
<1>6. PrintInv
  BY <1>2 DEF PrintInv
<1>7. QED
  BY <1>1, <1>4, <1>5, <1>6 DEF IInv, Typed

LEMMA IInvStep ==
  ASSUME IInv, [Next]_vars
  PROVE  IInv'
<1>1. /\ Typed /\ TableOrder /\ NullGone /\ NoTwice /\ FilterInv /\ WalkInv /\ SortInv
      /\ LossInv /\ PrintInv /\ PrintsListing /\ CrashOnlyBehindSkipped
  BY DEF IInv, Typed
<1>2. Typed' /\ TableOrder' /\ NullGone' /\ NoTwice' /\ FilterInv' /\ WalkInv'
  BY <1>1, TypedStep, OrderStep, NullStep, NoTwiceStep, FilterStep, WalkStep
<1>3. SortInv' /\ LossInv' /\ PrintInv' /\ PrintsListing' /\ CrashOnlyBehindSkipped'
  BY <1>1, SortStep, LossStep, PrintStep, ListingStep, CrashStep
<1>4. QED
  BY <1>2, <1>3 DEF IInv, Typed

LEMMA Invariant == Spec => []IInv
BY IInvInit, IInvStep, PTL DEF Spec

(* The invariant of the selection sort: for names below the sentinel the   *)
(* new list is in the order of names, symbols of one name in the order of  *)
(* the table, and comes before all that waits; the walk of a round ends on *)
(* the lowest name.  Whatever copies fail, and from whatever indexSelected *)
(* the round began.                                                        *)
THEOREM SelectionOrdered == Spec => []SelectionOrder
<1>1. ASSUME IInv PROVE SelectionOrder
  <2> SUFFICES ASSUME Sorting, BelowSentinel
               PROVE  /\ SortedList(newList)
                      /\ newList # <<>> => \A s \in ToSet(syms) : Precedes(Last(newList), s)
                      /\ SelectsLower
    BY DEF SelectionOrder
  <2>1. /\ Typed /\ TableOrder /\ WalkInv
        /\ newList \in Seq(1..Len(input)) /\ Len(newList) \in Nat /\ Len(syms) \in Nat
        /\ AllSorted(newList)
        /\ \A j \in 1..Len(newList), k \in 1..Len(syms) : Precedes(newList[j], syms[k])
    BY <1>1, LenProperties DEF IInv, Typed, TypeOK, SortInv
  <2>2. SortedList(newList)
    <3> SUFFICES ASSUME NEW j \in 1..(Len(newList) - 1)
                 PROVE  Precedes(newList[j], newList[j + 1])
      BY DEF SortedList
    <3>1. j \in 1..Len(newList) /\ j + 1 \in 1..Len(newList) /\ j < j + 1
      BY <2>1
    <3>2. QED
      BY <2>1, <3>1 DEF AllSorted
  <2>3. ToSet(syms) = {syms[k] : k \in 1..Len(syms)}
    BY DEF ToSet
  <2>4. newList # <<>> => \A s \in ToSet(syms) : Precedes(Last(newList), s)
    <3>1. SUFFICES ASSUME newList # <<>>
                   PROVE  \A k \in 1..Len(syms) : Precedes(Last(newList), syms[k])
      BY <2>3
    <3>2. Len(newList) \in 1..Len(newList)
      BY <2>1, <3>1, EmptySeq
    <3>3. QED
      BY <2>1, <3>2 DEF Last
  <2>5. SelectsLower
    <3> SUFFICES ASSUME ScanDone
                 PROVE  /\ indexSelected < Len(syms)
                        /\ \A s \in ToSet(syms) : Name(syms[indexSelected + 1]) <= Name(s)
      BY DEF SelectsLower
    <3>1. /\ Selected \in 1..Len(syms) /\ indexSelected \in Nat
          /\ \A k \in 1..Len(syms) : Name(syms[Selected]) <= Name(syms[k])
      BY <2>1, SelectedFirst DEF Typed, TypeOK
    <3>2. QED
      BY <2>1, <2>3, <3>1 DEF Selected
  <2>6. QED
    BY <2>2, <2>4, <2>5
<1>2. QED
  BY <1>1, Invariant, PTL

(* No symbol is lost but by a failed copy or a weird case, and none is in  *)
(* the two lists twice.                                                    *)
THEOREM LossesBounded == Spec => []LossBounded
<1>1. ASSUME IInv PROVE LossBounded
  <2> SUFFICES ASSUME Sorting
               PROVE  /\ Cardinality(Missing) <= lost
                      /\ Cardinality(ToSet(syms) \cup ToSet(newList)) = Len(syms) + Len(newList)
    BY DEF LossBounded, Missing, Here
  <2>1. /\ Len(input) \in Nat /\ Len(syms) \in Nat /\ Len(newList) \in Nat
        /\ syms \in Seq(1..Len(input)) /\ newList \in Seq(1..Len(input))
        /\ Increasing(syms)
        /\ \A j, k \in 1..Len(newList) : newList[j] = newList[k] => j = k
        /\ \A j \in 1..Len(syms), k \in 1..Len(newList) : syms[j] # newList[k]
    BY <1>1, InputTyped, LenProperties
       DEF IInv, TypeOK, TableOrder, NoTwice, Sorting, Editing
  <2>2. Cardinality(Missing) <= lost
    BY <1>1 DEF IInv, LossInv, Sorting
  <2>3. \A j, k \in 1..Len(syms) : syms[j] = syms[k] => j = k
    <3>1. \A j \in 1..Len(syms) : syms[j] \in Int
      BY <2>1
    <3>2. QED
      BY <2>1, <3>1 DEF Increasing
  <2>4. /\ IsFiniteSet(ToSet(syms)) /\ Cardinality(ToSet(syms)) = Len(syms)
        /\ IsFiniteSet(ToSet(newList)) /\ Cardinality(ToSet(newList)) = Len(newList)
    BY <2>1, <2>3, DistinctCard
  <2>5. ToSet(syms) \cap ToSet(newList) = {}
    BY <2>1 DEF ToSet
  <2>6. Cardinality(ToSet(syms) \cup ToSet(newList)) = Len(syms) + Len(newList)
    <3>1. Cardinality(ToSet(syms) \cup ToSet(newList))
               = Cardinality(ToSet(syms)) + Cardinality(ToSet(newList))
                 - Cardinality(ToSet(syms) \cap ToSet(newList))
      BY <2>4, FS_Union
    <3>2. Cardinality(ToSet(syms) \cap ToSet(newList)) = 0
      <4>1. Cardinality({}) = 0
        BY FS_EmptySet
      <4>2. QED
        BY <2>5, <4>1, Zenon
    <3>3. QED
      BY <2>1, <2>4, <3>1, <3>2
  <2>7. QED
    BY <2>2, <2>6
<1>2. QED
  BY <1>1, Invariant, PTL

(* What is printed is listed, in order for names below the sentinel, and   *)
(* is all that is to be listed unless something was lost.                  *)
THEOREM ListingPrinted == Spec => []PrintsListing
<1>1. IInv => PrintsListing
  BY DEF IInv
<1>2. QED
  BY <1>1, Invariant, PTL

(* The filter runs off the list only behind a table that ends in a symbol  *)
(* of a skipped type, after a printable one.                               *)
THEOREM CrashExplained == Spec => []CrashOnlyBehindSkipped
<1>1. IInv => CrashOnlyBehindSkipped
  BY DEF IInv
<1>2. QED
  BY <1>1, Invariant, PTL

(* In a file whose section of type NULL is that of the undefined symbols,  *)
(* the header a symbol is given tells whether the symbol is undefined.     *)
SectionTells(e) == e.st_shndx = "UNDEF" <=> e.sh_type = "NULL" /\ e.st_shndx # "ABS"

LEMMA LetterOfUndefined ==
  ASSUME NEW e, SectionTells(e)
  PROVE  /\ e.st_shndx = "UNDEF" <=> ~HasValue(e)
         /\ nm_flag_magic(e) \in {"U", "w"} => ~HasValue(e)
         /\ ~HasValue(e) => nm_flag_magic(e) \in {"U", "w", "i", "u"}
<1>1. PICK n \in 1..13 :
        /\ Passes(e, n) /\ \A k \in 1..13 : k < n => ~Passes(e, k)
        /\ nm_flag_magic(e) = Answer(e, n)
  BY FirstTest
<1>2. e.st_shndx = "UNDEF" <=> ~HasValue(e)
  BY DEF SectionTells, HasValue
<1>3. n > 1 => e.st_shndx # "ABS"
  BY <1>1, TestValues
<1>4. n > 6 => HasValue(e)
  BY <1>1, TestValues DEF HasValue
<1>5. n > 5 => e.bind # "WEAK"
  BY <1>1, TestValues
<1>6. n \in {1, 2, 3, 4, 5, 6} \/ n \in {7, 8, 9, 10, 11, 12, 13}
  OBVIOUS
<1>7. CASE n \in {1, 2, 3, 4}
  <2>1. nm_flag_magic(e) \in {"A", "a", "i", "u", "v", "V"}
    BY <1>1, <1>7, AnswerValues
  <2>2. HasValue(e) \/ nm_flag_magic(e) \in {"i", "u"}
    BY <1>1, <1>7, TestValues, AnswerValues DEF HasValue
  <2>3. QED
    BY <1>2, <2>1, <2>2
<1>8. CASE n = 5
  <2>1. nm_flag_magic(e) = IF e.st_shndx = "UNDEF" THEN "w" ELSE "W"
    BY <1>1, <1>8, AnswerValues
  <2>2. QED
    BY <1>2, <2>1
<1>9. CASE n = 6
  <2>1. nm_flag_magic(e) = "U" /\ e.sh_type = "NULL" /\ e.st_shndx # "ABS"
    BY <1>1, <1>3, <1>9, AnswerValues, TestValues
  <2>2. QED
    BY <1>2, <2>1 DEF HasValue
<1>10. CASE n \in {7, 8, 9, 10, 11, 12, 13}
  <2>1. nm_flag_magic(e) \in {"p", "n", "R", "r", "D", "d", "B", "b", "T", "t", "?"}
    BY <1>1, <1>10, AnswerValues
  <2>2. HasValue(e)
    BY <1>4, <1>10
  <2>3. QED
    BY <1>2, <2>1, <2>2
<1>11. QED
  BY <1>6, <1>7, <1>8, <1>9, <1>10

LEMMA LetterOfUsual ==
  ASSUME NEW e, Usual(e), e.sh_flags \in SUBSET Bits
  PROVE  LET c == nm_flag_magic(e)
             content == e.sh_type # "NOBITS"
         IN  /\ c \in {"T", "D", "B", "R"} => e.bind = "GLOBAL"
             /\ c \in {"t", "d", "b", "r"} => e.bind = "LOCAL"
             /\ c \in {"T", "D", "B", "R", "t", "d", "b", "r", "n"}
             /\ ~content <=> c \in {"B", "b"}
             /\ content /\ "EXECINSTR" \in e.sh_flags <=> c \in {"T", "t"}
             /\ content /\ "WRITE" \in e.sh_flags <=> c \in {"D", "d"}
             /\ content /\ e.sh_flags \cap {"ALLOC", "EXECINSTR", "WRITE"} = {"ALLOC"}
                  <=> c \in {"R", "r"}
<1> DEFINE F == e.sh_flags
           ReadsOnly == e.sh_type # "NOBITS" /\ "WRITE" \notin F /\ "EXECINSTR" \notin F
           Global == e.bind = "GLOBAL"
<1>1. /\ e.bind \in {"LOCAL", "GLOBAL"} /\ e.type # "GNU_IFUNC"
      /\ e.st_shndx \notin {"UNDEF", "ABS"}
      /\ e.sh_type \in {"PROGBITS", "NOBITS", "INIT_ARRAY", "DYNAMIC"}
      /\ "LINK_ORDER" \notin F
      /\ "EXECINSTR" \in F => e.sh_type = "PROGBITS" /\ "WRITE" \notin F
      /\ "WRITE" \in F => "ALLOC" \in F
      /\ "TLS" \in F => "WRITE" \in F
  BY DEF Usual
<1>2. ReadOnly(e) <=> ReadsOnly
  <2>1. \A b \in F : b \in Bits
    OBVIOUS
  <2>2. F \subseteq Unmasked <=> "WRITE" \notin F /\ "EXECINSTR" \notin F
    BY <1>1, <2>1 DEF Bits, Unmasked
  <2>3. QED
    BY <2>2 DEF ReadOnly
<1>3. ~ReadsOnly => (DataSection(e) <=> e.sh_type # "NOBITS" /\ "WRITE" \in F)
  BY <1>1 DEF DataSection
<1>4. PICK n \in 1..13 :
        /\ Passes(e, n) /\ \A k \in 1..13 : k < n => ~Passes(e, k)
        /\ nm_flag_magic(e) = Answer(e, n)
  BY FirstTest
<1>5. \A k \in 1..7 : ~Passes(e, k)
  BY <1>1, TestValues
<1>6. ~ReadsOnly => Passes(e, 10) \/ Passes(e, 11) \/ Passes(e, 12)
  BY <1>1, TestValues DEF DataSection
<1>7. \/ ReadsOnly /\ "ALLOC" \notin F /\ nm_flag_magic(e) = "n"
      \/ ReadsOnly /\ "ALLOC" \in F /\ nm_flag_magic(e) = IF Global THEN "R" ELSE "r"
      \/ ~ReadsOnly /\ DataSection(e) /\ nm_flag_magic(e) = IF Global THEN "D" ELSE "d"
      \/ /\ ~ReadsOnly /\ ~DataSection(e) /\ e.sh_type = "NOBITS"
         /\ nm_flag_magic(e) = IF Global THEN "B" ELSE "b"
      \/ /\ ~ReadsOnly /\ ~DataSection(e) /\ e.sh_type # "NOBITS"
         /\ nm_flag_magic(e) = IF Global THEN "T" ELSE "t"
  <2>1. n \in {8, 9, 10, 11, 12, 13}
    BY <1>4, <1>5
  <2>2. ~ReadsOnly => n # 13
    BY <1>4, <1>6
  <2>3. ReadsOnly => n \in {8, 9}
    BY <1>2, <1>4, <2>1, TestValues
  <2>4. CASE n = 8
    BY <1>2, <1>4, <2>4, TestValues, AnswerValues
  <2>5. CASE n = 9
    BY <1>2, <1>4, <2>5, TestValues, AnswerValues
  <2>6. CASE n = 10
    BY <1>2, <1>4, <2>6, TestValues, AnswerValues
  <2>7. CASE n = 11
    BY <1>2, <1>4, <2>3, <2>7, TestValues, AnswerValues
  <2>8. CASE n = 12
    BY <1>2, <1>4, <2>3, <2>8, TestValues, AnswerValues
  <2>9. QED
    BY <2>1, <2>2, <2>3, <2>4, <2>5, <2>6, <2>7, <2>8
<1> HIDE DEF F, Global
<1>8. F \cap {"ALLOC", "EXECINSTR", "WRITE"} = {"ALLOC"}
        <=> "ALLOC" \in F /\ "EXECINSTR" \notin F /\ "WRITE" \notin F
  OBVIOUS
<1>9. QED
  BY <1>1, <1>3, <1>7, <1>8 DEF Global, F

(* The letters tell what nm(1) says, and the value is blank just for what  *)
(* is undefined.                                                           *)
THEOREM LettersTold ==
  ASSUME \A l \in Lists : \A s \in 1..Len(l) : SectionTells(l[s])
  PROVE  Spec => []LettersTell
<1>1. ASSUME IInv PROVE LettersTell
  <2> SUFFICES ASSUME NEW j \in 1..Len(printed)
               PROVE  LET e == input[printed[j].symbol]
                          c == printed[j].letter
                          content == e.sh_type # "NOBITS"
                      IN  /\ e.st_shndx = "UNDEF" <=> ~printed[j].value
                          /\ c \in {"U", "w"} => ~printed[j].value
                          /\ ~printed[j].value => c \in {"U", "w", "i", "u"}
                          /\ Usual(e) =>
                               /\ c \in {"T", "D", "B", "R"} => e.bind = "GLOBAL"
                               /\ c \in {"t", "d", "b", "r"} => e.bind = "LOCAL"
                               /\ c \in {"T", "D", "B", "R", "t", "d", "b", "r", "n"}
                               /\ ~content <=> c \in {"B", "b"}
                               /\ content /\ "EXECINSTR" \in e.sh_flags <=> c \in {"T", "t"}
                               /\ content /\ "WRITE" \in e.sh_flags <=> c \in {"D", "d"}
                               /\ content
                                    /\ e.sh_flags \cap {"ALLOC", "EXECINSTR", "WRITE"} = {"ALLOC"}
                                    <=> c \in {"R", "r"}
    BY DEF LettersTell
  <2> DEFINE s == printed[j].symbol
             e == input[s]
  <2>1. input \in Lists /\ printed \in Seq(Lines) /\ printed[j] = Line(s)
    BY <1>1 DEF IInv, TypeOK, PrintInv
  <2>2. s \in 1..Len(input)
    <3>1. printed[j] \in Lines
      BY <2>1, ElementOfSeq
    <3>2. QED
      BY <3>1 DEF Lines
  <2>3. SectionTells(e) /\ e.sh_flags \in SUBSET Bits
    <3> DEFINE S == [name : Byte, type : STRING, bind : STRING, st_shndx : STRING,
                     sh_type : STRING, sh_flags : SUBSET Bits]
    <3>1. input \in Seq(S)
      BY <2>1, ListsAssumption DEF IsList
    <3>2. \A r \in S : r.sh_flags \in SUBSET Bits
      OBVIOUS
    <3> HIDE DEF S
    <3>3. e \in S
      BY <2>2, <3>1, ElementOfSeq
    <3>4. SectionTells(e)
      BY <2>1, <2>2
    <3>5. QED
      BY <3>2, <3>3, <3>4
  <2>4. printed[j].letter = nm_flag_magic(e) /\ printed[j].value = HasValue(e)
    BY <2>1 DEF Line
  <2> HIDE DEF e
  <2>5. QED
    BY <2>3, <2>4, LetterOfUndefined, LetterOfUsual DEF e
<1>2. QED
  BY <1>1, Invariant, PTL
==============================================================================
