------------------------------- MODULE NmSort -------------------------------
(***************************************************************************)
(* elftool_dump_nm (src/lib/elftool_dump.c): the symbol list is filtered   *)
(* in place, sorted into a new list by selection, and printed.  The 32-bit *)
(* and 64-bit sorts are the same text; their callers differ on the empty   *)
(* list.                                                                   *)
(*                                                                         *)
(* Symbols are their positions in the parsed list.  A name is the byte its *)
(* comparison with another name is decided by: strcmp answers the          *)
(* difference of those bytes, which strcmp_nm then narrows to a char.      *)
(* The lists are sequences: LinkedList justifies the calls that edit them. *)
(***************************************************************************)
EXTENDS Integers, FiniteSets, SequencesExt

CONSTANTS
  Lists,        \* the symbol lists elftool_parse may have recorded
  SpuriousNull  \* whether ft_lstnew may answer NULL

Byte == 0..255
Bits == {"WRITE", "ALLOC", "EXECINSTR", "MERGE", "STRINGS", "INFO_LINK", "MASKOS",
         "LINK_ORDER", "TLS"}
IsList(l) ==
  l \in Seq([name : Byte, type : STRING, bind : STRING,  \* the halves of st_info
             st_shndx : STRING,      \* "UNDEF", "ABS" or that of a section
             sh_type : STRING, sh_flags : SUBSET Bits])  \* of the header the parser found

ASSUME ListsAssumption == \A l \in Lists : IsList(l)
ASSUME NullAssumption == SpuriousNull \in BOOLEAN

VARIABLES
  input,          \* auxiliary: bin->syms as elftool_parse left it
  class,          \* bin->elfclass
  syms, newList,  \* bin->syms and newList of the sort
  pc,
  head,           \* the walking pointer, as a position
  min,            \* the byte of min
  indexSelected,  \* not reset between rounds
  printed,        \* what elftool_dump_nm32/64 has printed: symbol, value or blank, letter
  noSymbols,      \* "no symbols" has been reported
  lost            \* auxiliary: how many symbols a failed copy or a weird case dropped, at most

vars == <<input, class, syms, newList, pc, head, min, indexSelected, printed,
          noSymbols, lost>>
origin == <<input, class>>
scan == <<head, min, indexSelected>>
output == <<printed, noSymbols>>

Name(s) == input[s].name
Skipped(s) == input[s].type \in {"SECTION", "FILE"}

Sentinel == 127  \* ff

Init ==
  /\ input \in Lists
  /\ class \in {32, 64}
  /\ syms = [s \in 1..Len(input) |-> s] /\ newList = <<>>
  /\ pc = "nm"
  /\ head = 0 /\ min = Sentinel /\ indexSelected = 0
  /\ printed = <<>> /\ noSymbols = FALSE
  /\ lost = 0

----------------------------------------------------------------------------
(* ft_lstdelone of the head; nothing to do on the empty list.              *)
DelOne(l) == IF l = <<>> THEN l ELSE Tail(l)

(* Only the 64-bit branch asks for symbols before it sorts.                *)
NothingToSort ==
  /\ pc = "nm" /\ class = 64 /\ syms = <<>>
  /\ noSymbols' = TRUE /\ pc' = "done"
  /\ UNCHANGED <<origin, syms, newList, scan, printed, lost>>

(* "remove the first indice": the null symbol of every symbol table.       *)
MutRemoveNull ==
  /\ pc = "nm"
  /\ syms' = DelOne(DelOne(syms)) /\ pc' = "leading"
  /\ UNCHANGED <<origin, newList, scan, output, lost>>

RemoveNull ==
  /\ pc = "nm" /\ (class = 64 => syms # <<>>)
  /\ syms' = DelOne(syms) /\ pc' = "leading"
  /\ UNCHANGED <<origin, newList, scan, output, lost>>

RemoveLeading ==
  /\ pc = "leading" /\ syms # <<>> /\ Skipped(Head(syms))
  /\ syms' = Tail(syms)
  /\ UNCHANGED <<origin, newList, pc, scan, output, lost>>

LeadingRemoved ==
  /\ pc = "leading" /\ (syms # <<>> => ~Skipped(Head(syms)))
  /\ pc' = IF syms = <<>> THEN "round" ELSE "filter"
  /\ head' = 1
  /\ UNCHANGED <<origin, syms, newList, min, indexSelected, output, lost>>

(* The filter looks at the node behind head.  Having deleted it, head      *)
(* moves on all the same: the next node is never looked at, and when there *)
(* is none head is NULL, whose next field the loop then reads.             *)
MutCrashAtEnd == head = Len(syms) - 2
CrashAtEnd == head = Len(syms) - 1

FilterDelete ==
  /\ pc = "filter" /\ head < Len(syms) /\ Skipped(syms[head + 1])
  /\ syms' = RemoveAt(syms, head + 1)
  /\ pc' = IF CrashAtEnd THEN "crash" ELSE pc
  /\ head' = head + 1
  /\ UNCHANGED <<origin, newList, min, indexSelected, output, lost>>

MutFilterKeep ==
  /\ pc = "filter" /\ head < Len(syms) /\ ~Skipped(syms[head + 1])
  /\ UNCHANGED vars

FilterKeep ==
  /\ pc = "filter" /\ head < Len(syms) /\ ~Skipped(syms[head + 1])
  /\ head' = head + 1
  /\ UNCHANGED <<origin, syms, newList, pc, min, indexSelected, output, lost>>

FilterDone ==
  /\ pc = "filter" /\ head = Len(syms)
  /\ pc' = "round"
  /\ UNCHANGED <<origin, syms, newList, scan, output, lost>>

----------------------------------------------------------------------------
(* strcmp_nm(min, cur) > 0, the answer of strcmp narrowed to a signed char.*)
Char(d) == ((d + 128) % 256) - 128
MutLower(cur) == Char(min - cur) >= 0
Lower(cur) == Char(min - cur) > 0

(* One round: the walk over bin->syms that looks for the lowest name.      *)
StartRound ==
  /\ pc = "round" /\ syms # <<>>
  /\ head' = 1 /\ min' = Sentinel /\ pc' = "scan"
  /\ UNCHANGED <<origin, syms, newList, indexSelected, output, lost>>

MutIndex == head - 2
Index == head - 1

ScanStep ==
  /\ pc = "scan" /\ head <= Len(syms)
  /\ IF Lower(Name(syms[head]))
       THEN min' = Name(syms[head]) /\ indexSelected' = Index
       ELSE UNCHANGED <<min, indexSelected>>
  /\ head' = head + 1
  /\ UNCHANGED <<origin, syms, newList, pc, output, lost>>

ScanDone == pc = "scan" /\ head > Len(syms)

(* The selected node is copied, deleted, and the copy pushed on newList.   *)
MutTakeLowest ==
  /\ ScanDone /\ indexSelected < Len(syms)
  /\ newList' = Append(newList, syms[indexSelected + 1])
  /\ UNCHANGED syms
  /\ pc' = "round"
  /\ UNCHANGED <<origin, scan, output, lost>>

TakeLowest ==
  /\ ScanDone /\ indexSelected < Len(syms)
  /\ newList' = Append(newList, syms[indexSelected + 1])
  /\ syms' = RemoveAt(syms, indexSelected + 1)
  /\ pc' = "round"
  /\ UNCHANGED <<origin, scan, output, lost>>

(* Without a copy, the selected node is deleted, and the first one too.    *)
CopyFails ==
  /\ SpuriousNull
  /\ ScanDone /\ indexSelected < Len(syms)
  /\ syms' = DelOne(RemoveAt(syms, indexSelected + 1))
  /\ lost' = lost + 2
  /\ pc' = "round"
  /\ UNCHANGED <<origin, newList, scan, output>>

(* "Weird case": a selection left over from an earlier round lies behind   *)
(* the end of the list, and the first symbol is deleted for it.            *)
WeirdCase ==
  /\ ScanDone /\ indexSelected >= Len(syms)
  /\ syms' = DelOne(syms)
  /\ lost' = lost + 1
  /\ pc' = "round"
  /\ UNCHANGED <<origin, newList, scan, output>>

SortDone ==
  /\ pc = "round" /\ syms = <<>>
  /\ syms' = newList
  /\ noSymbols' = (class = 32 /\ newList = <<>>)
  /\ head' = 1 /\ pc' = "print"
  /\ UNCHANGED <<origin, newList, min, indexSelected, printed, lost>>

----------------------------------------------------------------------------
(* The section is nothing but data to be read.                             *)
Unmasked == {"MASKOS", "MERGE", "STRINGS", "ALLOC", "INFO_LINK"}
ReadOnly(e) == e.sh_type # "NOBITS" /\ e.sh_flags \subseteq Unmasked

MutDataSection(e) ==
  \/ {"WRITE", "ALLOC"} \cap e.sh_flags # {} /\ e.sh_type = "PROGBITS"
  \/ e.sh_type \in {"DYNAMIC", "FINI_ARRAY", "INIT_ARRAY", "PREINIT_ARRAY"}
DataSection(e) ==
  \/ {"WRITE", "ALLOC"} \subseteq e.sh_flags /\ e.sh_type = "PROGBITS"
  \/ e.sh_type \in {"DYNAMIC", "FINI_ARRAY", "INIT_ARRAY", "PREINIT_ARRAY"}

(* nm_flag_magic: its tests in their order, with the letter each gives.    *)
Tests(e) ==
  LET Case(upper, lower) == IF e.bind = "GLOBAL" THEN upper ELSE lower
      Defined(upper, lower) == IF e.st_shndx = "UNDEF" THEN lower ELSE upper
  IN <<<<e.st_shndx = "ABS", Case("A", "a")>>,
       <<e.type = "GNU_IFUNC", "i">>,
       <<e.bind = "GNU_UNIQUE", "u">>,
       <<e.bind = "WEAK" /\ e.sh_type # "NULL" /\ e.type = "OBJECT", Defined("V", "v")>>,
       <<e.bind = "WEAK", Defined("W", "w")>>,
       <<e.sh_type = "NULL", "U">>,
       <<e.sh_type = "X86_64_UNWIND", "p">>,
       <<ReadOnly(e) /\ "ALLOC" \notin e.sh_flags, "n">>,
       <<ReadOnly(e), Case("R", "r")>>,
       <<DataSection(e), Case("D", "d")>>,
       <<e.sh_type = "NOBITS", Case("B", "b")>>,
       <<e.sh_type = "PROGBITS", Case("T", "t")>>,
       <<TRUE, "?">>>>
nm_flag_magic(e) ==
  LET first == CHOOSE n \in 1..13 : Tests(e)[n][1] /\ \A k \in 1..(n - 1) : ~Tests(e)[k][1]
  IN  Tests(e)[first][2]

HasValue(e) == e.sh_type # "NULL" \/ e.st_shndx = "ABS"
Line(s) == [symbol |-> s, value |-> HasValue(input[s]), letter |-> nm_flag_magic(input[s])]

(* ft_lstiter with elftool_dump_nm32/64: one symbol, if it is of a printed *)
(* type.                                                                   *)
PrintSymbol ==
  /\ pc = "print" /\ head <= Len(syms)
  /\ printed' = IF Skipped(syms[head]) THEN printed ELSE Append(printed, Line(syms[head]))
  /\ head' = head + 1
  /\ UNCHANGED <<origin, syms, newList, pc, min, indexSelected, noSymbols, lost>>

PrintDone ==
  /\ pc = "print" /\ head > Len(syms)
  /\ pc' = "done"
  /\ UNCHANGED <<origin, syms, newList, scan, output, lost>>

(* The caller goes on, or the process is dead: nothing happens here.       *)
Ended == pc \in {"done", "crash"} /\ UNCHANGED vars

Filter == RemoveNull \/ RemoveLeading \/ LeadingRemoved
            \/ FilterDelete \/ FilterKeep \/ FilterDone
Select == StartRound \/ ScanStep \/ TakeLowest \/ CopyFails \/ WeirdCase
Next == NothingToSort \/ Filter \/ Select \/ SortDone \/ PrintSymbol \/ PrintDone \/ Ended

Spec == Init /\ [][Next]_vars
(* One thread, which is scheduled while it has a step to take.             *)
FairSpec == Spec /\ WF_vars(Next)

----------------------------------------------------------------------------
Letters == {"A", "a", "i", "u", "V", "v", "W", "w", "U", "p", "n", "R", "r", "D", "d",
            "B", "b", "T", "t", "?"}
Lines == [symbol : 1..Len(input), value : BOOLEAN, letter : Letters]

(* Every variable has its type.                                            *)
TypeOK ==
  /\ input \in Lists /\ class \in {32, 64}
  /\ syms \in Seq(1..Len(input)) /\ newList \in Seq(1..Len(input))
  /\ pc \in {"nm", "leading", "filter", "round", "scan", "print", "done", "crash"}
  /\ head \in 0..(Len(input) + 1)
  /\ min \in Byte /\ indexSelected \in Nat
  /\ printed \in Seq(Lines)
  /\ noSymbols \in BOOLEAN
  /\ lost \in Nat

(* The order nm prints in: by name, symbols of one name as in the table.   *)
Precedes(s, t) == Name(s) < Name(t) \/ (Name(s) = Name(t) /\ s < t)
SortedList(l) == \A j \in 1..(Len(l) - 1) : Precedes(l[j], l[j + 1])

(* The symbols nm has to print: all but the null one and those of skipped  *)
(* types.                                                                  *)
Listed == {s \in 2..Len(input) : ~Skipped(s)}

Sorting == pc \in {"round", "scan"}
BelowSentinel == \A s \in 1..Len(input) : Name(s) < Sentinel

(* "find the index of the lower" (src/lib/elftool_dump.c:118): when the    *)
(* walk is over, indexSelected is the place of the lowest name.            *)
SelectsLower ==
  ScanDone =>
    /\ indexSelected < Len(syms)
    /\ \A s \in ToSet(syms) : Name(syms[indexSelected + 1]) <= Name(s)

(* The invariant of the selection sort: newList is in order, and nothing   *)
(* still waiting in bin->syms belongs before any of it.  For names below   *)
(* the sentinel it survives the selection that is not reset and the failed *)
(* copies.                                                                 *)
SelectionOrder ==
  Sorting /\ BelowSentinel =>
    /\ SortedList(newList)
    /\ newList # <<>> => \A s \in ToSet(syms) : Precedes(Last(newList), s)
    /\ SelectsLower

(* No symbol is lost but by a failed copy, which loses two at most, or a   *)
(* weird case, which loses one and needs a name above the sentinel; and    *)
(* none is there twice: every selection finds its own node again.          *)
LossBounded ==
  Sorting =>
    /\ Cardinality(Listed \ (ToSet(syms) \cup ToSet(newList))) <= lost
    /\ Cardinality(ToSet(syms) \cup ToSet(newList)) = Len(syms) + Len(newList)

(* What is printed is the sorted listing, up to what was lost.             *)
PrintsListing ==
  LET lines == [j \in 1..Len(printed) |-> printed[j].symbol] IN
  pc = "done" =>
    /\ BelowSentinel => SortedList(lines)
    /\ ToSet(lines) \subseteq Listed
    /\ lost = 0 => ToSet(lines) = Listed
    /\ class = 64 \/ syms # <<>> \/ noSymbols

(* For sections with the flags compilers give them, the letter tells what  *)
(* nm(1) says it does, whatever the order of the tests: its case the       *)
(* binding, T code, D writable data, B data without content, R read-only   *)
(* data, n what is not loaded.  The value is blank just for what is        *)
(* undefined.                                                              *)
Usual(e) ==
  /\ e.bind \in {"LOCAL", "GLOBAL"} /\ e.type # "GNU_IFUNC"
  /\ e.st_shndx \notin {"UNDEF", "ABS"}
  /\ e.sh_type \in {"PROGBITS", "NOBITS", "INIT_ARRAY", "DYNAMIC"}
  /\ "LINK_ORDER" \notin e.sh_flags
  /\ "EXECINSTR" \in e.sh_flags => e.sh_type = "PROGBITS" /\ "WRITE" \notin e.sh_flags
  /\ "WRITE" \in e.sh_flags => "ALLOC" \in e.sh_flags
  /\ "TLS" \in e.sh_flags => "WRITE" \in e.sh_flags

LettersTell ==
  \A j \in 1..Len(printed) :
    LET e == input[printed[j].symbol]
        c == printed[j].letter
        content == e.sh_type # "NOBITS"
    IN  /\ e.st_shndx = "UNDEF" <=> ~printed[j].value
        /\ c \in {"U", "w"} => ~printed[j].value
        /\ ~printed[j].value => c \in {"U", "w", "i", "u"}
        /\ Usual(e) =>
             /\ c \in {"T", "D", "B", "R"} => e.bind = "GLOBAL"
             /\ c \in {"t", "d", "b", "r"} => e.bind = "LOCAL"
             /\ c \in {"T", "D", "B", "R", "t", "d", "b", "r", "n"}
             /\ ~content <=> c \in {"B", "b"}
             /\ content /\ "EXECINSTR" \in e.sh_flags <=> c \in {"T", "t"}
             /\ content /\ "WRITE" \in e.sh_flags <=> c \in {"D", "d"}
             /\ content /\ e.sh_flags \cap {"ALLOC", "EXECINSTR", "WRITE"} = {"ALLOC"}
                  <=> c \in {"R", "r"}

(* The filter runs off the list only behind a table whose last symbol is   *)
(* of a skipped type and follows a printable one.                          *)
CrashOnlyBehindSkipped ==
  pc = "crash" => Listed # {} /\ Skipped(Len(input))

(* nm ends.                                                                *)
Ends == <>(pc \in {"done", "crash"})

----------------------------------------------------------------------------
(* "Dumps the symbols in nm style." (inc/elftool_dump.h:32): whatever the  *)
(* order of the symbols.                                                   *)
NeverCrashes == pc # "crash"
==============================================================================
