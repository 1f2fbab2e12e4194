----------------------------- MODULE LinkedList -----------------------------
(***************************************************************************)
(* liblst: the singly linked lists that hold every table of elftool, at    *)
(* the level of their pointers.  One list, one caller; a step is one call, *)
(* or one iteration for the calls that walk the list.                      *)
(*                                                                         *)
(* "next" is the next field of every address, meaningful for the allocated *)
(* ones only.  "chain" is an auxiliary variable: the nodes in the order    *)
(* the calls so far should have left them.  No action's pointers depend on *)
(* it, except to say which node of the list a caller may hold.             *)
(***************************************************************************)
EXTENDS Integers, Sequences, FiniteSets

CONSTANTS Nodes, NULL, MaxIndex

ASSUME NodesAssumption == NULL \notin Nodes
ASSUME IndexAssumption == MaxIndex \in Nat
ASSUME MemoryAssumption == IsFiniteSet(Nodes)

Pointers == Nodes \cup {NULL}

VARIABLES
  next,    \* n->next
  live,    \* the nodes malloc has handed out and free has not taken back
  head,    \* *alst
  pc,      \* the call in progress, "idle" between calls
  new,     \* the node a caller got from ft_lstnew and has not linked yet
  cur,     \* the walking pointer: lst in ft_lstback and ft_lstget
  i,       \* i of ft_lstget and ft_lstsize
  index,   \* the argument of ft_lstget
  rev,     \* l of ft_lstrev
  chain    \* auxiliary

vars == <<next, live, head, pc, new, cur, i, index, rev, chain>>
walk == <<cur, i, index>>

Init ==
  /\ next \in [Nodes -> {NULL}]
  /\ live = {} /\ head = NULL /\ chain = <<>>
  /\ pc = "idle" /\ new = NULL /\ cur = NULL /\ rev = NULL
  /\ i = 0 /\ index = 0

----------------------------------------------------------------------------
(* ft_lstnew and ft_lstnew_nodup: a node with no successor, or NULL.       *)
New(n) ==
  /\ pc = "idle"
  /\ n \in Nodes \ live
  /\ live' = live \cup {n}
  /\ next' = [next EXCEPT ![n] = NULL]
  /\ new' = n /\ pc' = "new"
  /\ UNCHANGED <<head, walk, rev, chain>>

NewFails ==
  /\ pc = "idle"
  /\ new' = NULL /\ pc' = "new"
  /\ UNCHANGED <<next, live, head, walk, rev, chain>>

(* ft_lstpush: the empty list, else ft_lstback walks to the last node and  *)
(* new is linked behind it.  Callers pass the NULL of a failed ft_lstnew.  *)
Extended == IF new = NULL THEN chain ELSE Append(chain, new)

PushEmpty ==
  /\ pc = "new" /\ head = NULL
  /\ head' = new /\ chain' = Extended
  /\ new' = NULL /\ pc' = "idle"
  /\ UNCHANGED <<next, live, walk, rev>>

PushBegin ==
  /\ pc = "new" /\ head # NULL
  /\ cur' = head /\ pc' = "push"
  /\ UNCHANGED <<next, live, head, new, i, index, rev, chain>>

BackStep ==
  /\ pc = "push" /\ next[cur] # NULL
  /\ cur' = next[cur]
  /\ UNCHANGED <<next, live, head, pc, new, i, index, rev, chain>>

PushLink ==
  /\ pc = "push" /\ next[cur] = NULL
  /\ next' = [next EXCEPT ![cur] = new]
  /\ chain' = Extended
  /\ new' = NULL /\ pc' = "idle"
  /\ UNCHANGED <<live, head, walk, rev>>

(* ft_lstadd.  On an empty list new->next keeps the value it has.          *)
MutAddNext == head'
AddNext == IF head = NULL THEN next[new] ELSE head
Prepended == [j \in 1..(Len(chain) + 1) |-> IF j = 1 THEN new ELSE chain[j - 1]]

Add ==
  /\ pc = "new" /\ new # NULL
  /\ head' = new
  /\ next' = [next EXCEPT ![new] = AddNext]
  /\ chain' = Prepended
  /\ new' = NULL /\ pc' = "idle"
  /\ UNCHANGED <<live, walk, rev>>

----------------------------------------------------------------------------
(* ft_lstdelone through a link: the head, or the next field of a node of   *)
(* the list.  The link skips the node, whose content and memory are freed. *)
Without(k) == [j \in 1..(Len(chain) - 1) |-> IF j < k THEN chain[j] ELSE chain[j + 1]]

MutDelOneHead ==  \* the node is skipped and not freed
  /\ head # NULL
  /\ live' = live
  /\ head' = next[head]
  /\ chain' = Without(1)

DelOneHead ==
  /\ head # NULL
  /\ live' = live \ {head}
  /\ head' = next[head]
  /\ chain' = Without(1)

MutDelOneAfter(k) ==  \* the link is cut instead of skipping the victim
  LET p == chain[k]
      victim == next[p]
  IN /\ victim # NULL
     /\ live' = live \ {victim}
     /\ next' = [next EXCEPT ![p] = NULL]
     /\ chain' = Without(k + 1)

DelOneAfter(k) ==
  LET p == chain[k]
      victim == next[p]
  IN /\ victim # NULL
     /\ live' = live \ {victim}
     /\ next' = [next EXCEPT ![p] = next[victim]]
     /\ chain' = Without(k + 1)

DelFirst == pc = "idle" /\ DelOneHead /\ UNCHANGED <<next, pc, new, walk, rev>>

DelAfter ==
  /\ pc = "idle"
  /\ \E k \in 1..Len(chain) : DelOneAfter(k)
  /\ UNCHANGED <<head, pc, new, walk, rev>>

(* ft_lstdel: ft_lstdelone until the list is empty.                        *)
DelBegin ==
  /\ pc = "idle" /\ head # NULL
  /\ pc' = "del"
  /\ UNCHANGED <<next, live, head, new, walk, rev, chain>>

DelStep == pc = "del" /\ DelOneHead /\ UNCHANGED <<next, pc, new, walk, rev>>

DelEnd ==
  /\ pc = "del" /\ head = NULL
  /\ pc' = "idle"
  /\ UNCHANGED <<next, live, head, new, walk, rev, chain>>

----------------------------------------------------------------------------
(* ft_lstget(lst, index); the walk of ft_lstsize is the same without the   *)
(* bound, and answers i where ft_lstget answers the pointer.               *)
MutGetBegin ==  \* i is incremented before it is used
  /\ pc = "idle"
  /\ cur' = head /\ i' = -1 /\ pc' = "get"
  /\ index' \in 0..MaxIndex
  /\ UNCHANGED <<next, live, head, new, rev, chain>>

GetBegin ==
  /\ pc = "idle"
  /\ cur' = head /\ i' = 0 /\ pc' = "get"
  /\ index' \in 0..MaxIndex
  /\ UNCHANGED <<next, live, head, new, rev, chain>>

MutGetStep ==  \* i <= index
  /\ pc = "get" /\ cur # NULL /\ i <= index
  /\ cur' = next[cur] /\ i' = i + 1
  /\ UNCHANGED <<next, live, head, pc, new, index, rev, chain>>

GetStep ==
  /\ pc = "get" /\ cur # NULL /\ i < index
  /\ cur' = next[cur] /\ i' = i + 1
  /\ UNCHANGED <<next, live, head, pc, new, index, rev, chain>>

GetEnd ==
  /\ pc = "get" /\ (cur = NULL \/ i = index)
  /\ pc' = "idle"
  /\ UNCHANGED <<next, live, head, new, walk, rev, chain>>

----------------------------------------------------------------------------
Call == (\E n \in Nodes : New(n)) \/ NewFails \/ DelFirst \/ DelAfter \/ DelBegin \/ GetBegin
Link == PushEmpty \/ PushBegin \/ Add
Walk == BackStep \/ PushLink \/ DelStep \/ DelEnd \/ GetStep \/ GetEnd

Next == Call \/ Link \/ Walk

Spec == Init /\ [][Next]_vars

(* A call, once made, runs: its caller does nothing else meanwhile.        *)
FairSpec == Spec /\ WF_vars(Link \/ Walk)

----------------------------------------------------------------------------
(* ft_lstrev: each node is moved to the front of l, and the walk goes on   *)
(* from the next field that ft_lstadd has just overwritten.                *)
RevBegin ==
  /\ pc = "idle" /\ head # NULL
  /\ rev' = NULL /\ pc' = "rev"
  /\ UNCHANGED <<next, live, head, new, walk, chain>>

RevStep ==
  /\ pc = "rev" /\ head # NULL
  /\ LET moved == IF rev = NULL THEN next ELSE [next EXCEPT ![head] = rev]
     IN  next' = moved /\ head' = moved[head]
  /\ rev' = head
  /\ UNCHANGED <<live, pc, new, walk, chain>>

RevEnd ==
  /\ pc = "rev" /\ head = NULL
  /\ head' = rev /\ pc' = "idle"
  /\ chain' = [j \in 1..Len(chain) |-> chain[Len(chain) + 1 - j]]
  /\ UNCHANGED <<next, live, new, walk, rev>>

RevNext == Next \/ RevBegin \/ RevStep \/ RevEnd
RevSpec == Init /\ [][RevNext]_vars /\ WF_vars(Link \/ Walk \/ RevStep \/ RevEnd)

----------------------------------------------------------------------------
ChainNodes == {chain[j] : j \in 1..Len(chain)}

(* Every variable has its type.                                            *)
TypeOK ==
  /\ next \in [Nodes -> Pointers]
  /\ live \subseteq Nodes
  /\ head \in Pointers /\ new \in Pointers /\ cur \in Pointers /\ rev \in Pointers
  /\ pc \in {"idle", "new", "push", "del", "get", "rev"}
  /\ i \in Nat /\ index \in Nat
  /\ chain \in Seq(Nodes)

(* The pointers spell the sequence of nodes the calls should have left:    *)
(* no node is lost, none appears twice, the last one ends the list.        *)
Spelled ==
  /\ head = IF chain = <<>> THEN NULL ELSE chain[1]
  /\ \A j \in 1..Len(chain) :
       next[chain[j]] = IF j = Len(chain) THEN NULL ELSE chain[j + 1]
  /\ \A j, k \in 1..Len(chain) : chain[j] = chain[k] => j = k

(* Memory and list agree: what is allocated is in the list, or in the      *)
(* hands of the caller about to link it; nothing freed is reachable.       *)
NoLeakNoDangling ==
  /\ live = ChainNodes \cup ({new} \ {NULL})
  /\ new \notin ChainNodes
  /\ new # NULL => next[new] = NULL /\ pc \in {"new", "push"}

(* A walking pointer is a node of the list at the place the walk counts.   *)
WalkInList ==
  /\ pc = "push" => cur \in ChainNodes
  /\ pc = "get" =>
       /\ i <= index
       /\ IF i < Len(chain) THEN cur = chain[i + 1] ELSE cur = NULL /\ i = Len(chain)

(* ft_lstget answers the node at the index, NULL when the list is shorter. *)
GetAnswers ==
  pc = "get" /\ (cur = NULL \/ i = index) =>
    cur = IF index < Len(chain) THEN chain[index + 1] ELSE NULL

ListInv == Spelled /\ NoLeakNoDangling /\ WalkInList

(* Every call returns: no walk runs in a cycle.                            *)
CallsReturn == pc # "idle" ~> pc = "idle"

(* "Reverses the list." (liblst/liblst.h:99): ft_lstrev returns.           *)
RevReturns == pc = "rev" ~> pc = "idle"

(* The list as a reader of the pointers finds it: the nodes from p on, at  *)
(* most k of them.                                                         *)
NodesFrom[k \in 0..Cardinality(Nodes)] ==
  [p \in Pointers |->
     IF p = NULL \/ k = 0 THEN <<>> ELSE <<p>> \o NodesFrom[k - 1][next[p]]]
AsRead == NodesFrom[Cardinality(Nodes)][head]

Abstract == INSTANCE ListSeq WITH seq <- AsRead
ImplementsSeq == Abstract!Spec
=============================================================================
