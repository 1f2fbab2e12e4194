----------------------------- MODULE MCElfQuery -----------------------------
(* Instances of ElfQuery: a text, a data and another segment with symbols  *)
(* inside, at the start of, across the end of and behind their content.    *)
EXTENDS ElfQuery

Text == Entry("LOAD", 0, 0, 6, 6)       \* the header, the table, two cells of code
Data == Entry("LOAD", 6, 10, 3, 12)     \* with a large .bss
Rest == Entry("LOAD", 9, 25, 2, 2)      \* follows Data in the file
High == Entry("LOAD", 9, 121, 2, 6)     \* ends in the last page there is
Note == Entry("NOTE", 9, 25, 1, 1)

Symbol(name, value, size) == [name |-> name, named |-> TRUE, st_value |-> value, st_size |-> size]
Unnamed(value) == [name |-> <<9>>, named |-> FALSE, st_value |-> value, st_size |-> 1]

Symbols == <<
  Symbol(<<>>, 0, 0),
  Symbol(<<1, 2>>, 4, 2),    \* code; its name begins with that of the next one
  Symbol(<<1>>, 11, 1),
  Symbol(<<3>>, 11, 2),      \* overlaps the one before
  Symbol(<<4>>, 10, 1),      \* at the start of Data
  Symbol(<<5>>, 12, 2),      \* half in .bss
  Symbol(<<6>>, 20, 1),      \* in .bss, far behind the content
  Symbol(<<7>>, 17, 1),      \* in .bss, but not refused
  Symbol(<<8>>, 26, 1)>>     \* in Rest

(* Section headers directly behind the data, or behind the rest.           *)
ImageOf(table, shoff, syms) ==
  [class |-> 64, phoff |-> 1, entries |-> table, shoff |-> shoff,
   shdr |-> <<[sh_offset |-> 6, sh_size |-> 3]>>, length |-> shoff + 2, syms |-> syms]

QueryImages ==
  {ImageOf(t, 9, Symbols) : t \in {<<Text, Data, Note>>, <<Note, Text, Data>>}}
    \cup {ImageOf(t, 11, Symbols) :
            t \in {<<Text, Data, Rest>>, <<Note, Data, Rest>>, <<Text, High, Note>>}}
    \cup {ImageOf(<<Text, Note>>, 9, <<Symbol(<<3>>, 4, 1), Unnamed(5), Symbol(<<1>>, 5, 1)>>)}

Names == {<<>>, <<1>>, <<1, 2>>, <<3>>, <<4>>, <<5>>, <<6>>, <<7>>, <<8>>}
==============================================================================
