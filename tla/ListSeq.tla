------------------------------- MODULE ListSeq -------------------------------
(***************************************************************************)
(* What liblst/liblst.h promises of a list_t: a sequence of distinct nodes *)
(* that can be extended at both ends and shortened anywhere.               *)
(***************************************************************************)
EXTENDS Naturals, Sequences, SequencesExt

CONSTANT Nodes

VARIABLE seq

Init == seq = <<>>

Fresh == Nodes \ ToSet(seq)

Push == \E n \in Fresh : seq' = Append(seq, n)
AddFront == \E n \in Fresh : seq' = Cons(n, seq)
Delete == \E i \in 1..Len(seq) : seq' = RemoveAt(seq, i)

Next == Push \/ AddFront \/ Delete

Spec == Init /\ [][Next]_seq
==============================================================================
