------------------------------ MODULE MCElfEdit ------------------------------
(* Instances of ElfEdit: small images over every mix of a few kinds of     *)
(* program header, with pages of four cells.                               *)
EXTENDS ElfEdit

Text == Entry("LOAD", 0, 0, 5, 5)       \* covers the header and the table
Data == Entry("LOAD", 5, 8, 2, 5)       \* with a .bss behind its file content
High == Entry("LOAD", 5, 120, 2, 7)     \* ends in the last page there is
Wide == Entry("LOAD", 5, 2, 1, 20)      \* overlaps the others
Note == Entry("NOTE", 5, 9, 1, 1)
Other == Entry("OTHER", 1, 1, 1, 1)

Sections == <<[sh_offset |-> 4, sh_size |-> 2], [sh_offset |-> 7, sh_size |-> 4]>>

Image(class, phoff, table, shoff, shdr, end) ==
  [class |-> class, phoff |-> phoff, entries |-> table, shoff |-> shoff, shdr |-> shdr,
   length |-> end]
ImagesOf(classes, tables, shdr) ==
  {Image(c, 1, t, 6, shdr, 6 + Len(shdr) + 1) : c \in classes, t \in tables}

(* The section headers in front; the header table on the ELF header, and   *)
(* without an entry there; tables that overlap, so that an injection       *)
(* overwrites a section header, or would but for the order of the notes.   *)
Section(off, size) == [sh_offset |-> off, sh_size |-> size]
OtherOrders ==
  {Image(64, 4, <<Text, Note>>, 1, Sections, 9), Image(64, 0, <<Other, Note, Text>>, 5, Sections, 8),
   Image(64, 0, <<>>, 0, <<Section(4, 1)>>, 6)}
SharedTables ==
  {Image(64, 1, t, 2, <<Section(4, 1), Section(5, 2)>>, 8) : t \in {<<Text, Note>>, <<Note, Note, Data>>}}
    \cup {Image(64, 1, <<Note, Text>>, 1, <<Section(3, 1), Section(2, 5)>>, 7),
          Image(64, 2, <<Note, Text, Note>>, 1, <<Section(5, 1), Section(4, 1)>>, 7)}

Tables(kinds, n) == UNION {[1..k -> kinds] : k \in 0..n}

(* Every table of up to two entries; of three, those with two PT_NOTE; and *)
(* one with a PT_NOTE for each call, so that an injection of nothing is    *)
(* followed by two.                                                        *)
Tables64 ==
  Tables({Text, Data, High, Wide, Note, Other}, 2)
    \cup {<<Note, a, Note>> : a \in {Text, Data, High}}
    \cup {<<a, Note, Note>> : a \in {Text, Data}}
    \cup {<<a, b, Note>> : a, b \in {Text, Data, Wide}} \cup {<<Text, Note, Note, Note>>}

AllImages ==
  ImagesOf({64}, Tables64, Sections) \cup ImagesOf({64}, {<<Text, Note>>}, <<>>)
    \cup ImagesOf({32}, {<<Text>>}, Sections) \cup OtherOrders \cup SharedTables
==============================================================================
