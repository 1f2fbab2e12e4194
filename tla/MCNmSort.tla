------------------------------ MODULE MCNmSort ------------------------------
(* Instances of NmSort: every table of up to five symbols over a few kinds. *)
EXTENDS NmSort

Symbol(name, type) ==
  [name |-> name, type |-> type, bind |-> "GLOBAL", st_shndx |-> "section",
   sh_type |-> "PROGBITS", sh_flags |-> {"ALLOC", "EXECINSTR"}]
Kinds(printable, skipped) ==
  {Symbol(n, "FUNC") : n \in printable}
    \cup {Symbol(n, IF n = 0 THEN "SECTION" ELSE "FILE") : n \in skipped}

ListsOver(kinds, n) == UNION {[1..k -> kinds] : k \in 0..n}

(* ASCII names, the empty one among them; a section symbol has no name, a  *)
(* file symbol has one.                                                    *)
AsciiLists == ListsOver(Kinds({0, 97, 126}, {0, 98}), 5)

(* Names that begin with a byte above the sentinel.                        *)
ByteLists == ListsOver(Kinds({0, 97, 200}, {}), 4)

(* One symbol of each kind the letter depends on.                          *)
Null == [Symbol(0, "NOTYPE") EXCEPT !.bind = "LOCAL", !.st_shndx = "UNDEF",
                                    !.sh_type = "NULL", !.sh_flags = {}]
SectionTypes == {"PROGBITS", "NOBITS", "INIT_ARRAY", "DYNAMIC", "NOTE", "X86_64_UNWIND"}
Flags == SUBSET {"WRITE", "ALLOC", "EXECINSTR"}
           \cup {{"ALLOC", "MERGE", "STRINGS"}, {"ALLOC", "LINK_ORDER"}, {"ALLOC", "WRITE", "TLS"}}
Places ==
  [st_shndx : {"UNDEF"}, sh_type : {"NULL"}, sh_flags : {{}}]
    \cup [st_shndx : {"ABS"}, sh_type : {"NULL", "PROGBITS"}, sh_flags : {{}}]
    \cup [st_shndx : {"section"}, sh_type : SectionTypes, sh_flags : Flags]
LetterLists ==
  {<<Null, [name |-> 97, type |-> t, bind |-> b, st_shndx |-> p.st_shndx,
            sh_type |-> p.sh_type, sh_flags |-> p.sh_flags]>> :
     t \in {"NOTYPE", "OBJECT", "GNU_IFUNC"},
     b \in {"LOCAL", "GLOBAL", "WEAK", "GNU_UNIQUE"}, p \in Places}

AllLists == AsciiLists \cup ByteLists \cup LetterLists
==============================================================================
