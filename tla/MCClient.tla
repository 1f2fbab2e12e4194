------------------------------ MODULE MCClient ------------------------------
(* Instances of Client: every command line of up to three arguments, for   *)
(* the option parser, and a few longer ones on disks full of odd files.    *)
EXTENDS Client, TLC

File(parse, class, types, nmDies, mapped) ==
  [kind |-> "file", parse |-> parse, class |-> class, types |-> types,
   nmDies |-> nmDies, mapped |-> mapped]

Load0 == <<0, 1>>      \* PT_LOAD
GnuStack == <<6, 1>>   \* PT_GNU_STACK
SunwBss == <<6, 10>>   \* PT_SUNWBSS
User8 == <<8, 8>>      \* PT_LOUSER + 8
Low9 == <<1, 9>>       \* in no range

Program == File("ok", 64, <<Load0, GnuStack>>, FALSE, TRUE)
Object == File("ok", 64, <<>>, FALSE, FALSE)
Solaris64 == File("ok", 64, <<Load0, SunwBss>>, FALSE, TRUE)
Solaris32 == File("ok", 32, <<SunwBss>>, FALSE, TRUE)
User64 == File("ok", 64, <<User8, Low9>>, FALSE, TRUE)
Stripped == File("ok", 64, <<Load0>>, TRUE, TRUE)
Text == File("bad", 64, <<>>, FALSE, FALSE)
NoStrtab == File("dies", 64, <<>>, FALSE, TRUE)

SomeFiles ==
  {Program, Object, Solaris64, Solaris32, User64, Stripped, Text, NoStrtab}

(* o may be a directory, or missing.                                       *)
AllDisks ==
  {("a" :> f) @@ ("b" :> g) @@ o : f \in SomeFiles, g \in {Program, Object, Text, Directory},
     o \in {"o" :> Directory, <<>>}}

Arguments8 == {"-h", "-P", "--nm", "--config", "--test", "-o", "a", "x"}
ShortLines == UNION {[1..n -> Arguments8] : n \in 0..3}
LongLines ==
  {<<"-P", "-s", "--nm", "a", "b">>, <<"-E", "--nm", "-s", "-o", "o", "a", "b">>,
   <<"-o", "b", "a", "b", "a">>, <<"-o", "x", "-o", "a", "b", "a", "-h">>,
   <<"-S", "-o", "o", "a", "a">>}
LoneLine == {<<"-o", "o", "a">>}
AllLines == ShortLines \cup LongLines

SomeDisks(c) == IF c \in ShortLines THEN {"a" :> Program} ELSE AllDisks
OneDisk(c) == {("a" :> Program) @@ ("o" :> Directory)}
=============================================================================
