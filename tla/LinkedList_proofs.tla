-------------------------- MODULE LinkedList_proofs --------------------------
(***************************************************************************)
(* The pointers of a list spell its sequence, nothing leaks and nothing    *)
(* freed is reachable, for any number of nodes.                            *)
(***************************************************************************)
EXTENDS LinkedList, FiniteSetTheorems, WellFoundedInduction, TLAPS

Inv == TypeOK /\ ListInv

(* A sequence given by its length and its elements.                        *)
LEMMA SeqByIndex ==
  ASSUME NEW S, NEW m \in Nat, NEW s, s \in [1..m -> S]
  PROVE  s \in Seq(S) /\ Len(s) = m /\ DOMAIN s = 1..m
OBVIOUS

(* What the three ways of changing the chain yield.                        *)
LEMMA WithoutFacts ==
  ASSUME TypeOK, NEW k \in 1..Len(chain)
  PROVE  /\ Without(k) \in Seq(Nodes) /\ Len(Without(k)) = Len(chain) - 1
         /\ \A j \in 1..(Len(chain) - 1) :
              Without(k)[j] = IF j < k THEN chain[j] ELSE chain[j + 1]
<1>1. Len(chain) - 1 \in Nat /\ \A j \in 1..Len(chain) : chain[j] \in Nodes
  BY DEF TypeOK
<1>2. Without(k) \in [1..(Len(chain) - 1) -> Nodes]
  BY <1>1 DEF Without
<1>3. QED
  BY <1>1, <1>2, SeqByIndex DEF Without

LEMMA PrependedFacts ==
  ASSUME TypeOK, new \in Nodes
  PROVE  /\ Prepended \in Seq(Nodes) /\ Len(Prepended) = Len(chain) + 1
         /\ \A j \in 1..(Len(chain) + 1) :
              Prepended[j] = IF j = 1 THEN new ELSE chain[j - 1]
<1>1. Len(chain) \in Nat /\ \A j \in 1..Len(chain) : chain[j] \in Nodes
  BY DEF TypeOK
<1>2. Prepended \in [1..(Len(chain) + 1) -> Nodes]
  BY <1>1 DEF Prepended
<1>3. QED
  BY <1>1, <1>2, SeqByIndex DEF Prepended

LEMMA ExtendedFacts ==
  ASSUME TypeOK, new \in Nodes
  PROVE  /\ Extended \in Seq(Nodes) /\ Len(Extended) = Len(chain) + 1
         /\ \A j \in 1..(Len(chain) + 1) :
              Extended[j] = IF j = Len(chain) + 1 THEN new ELSE chain[j]
BY NodesAssumption DEF TypeOK, Extended

----------------------------------------------------------------------------
LEMMA InvInit == Init => Inv
BY DEF Init, Inv, TypeOK, Pointers, ListInv, Spelled, NoLeakNoDangling, ChainNodes,
       WalkInList

(* Facts every step starts from.                                           *)
LEMMA Basics ==
  ASSUME Inv
  PROVE  /\ Len(chain) \in Nat /\ NULL \notin Nodes
         /\ \A j \in 1..Len(chain) : chain[j] \in Nodes
         /\ ChainNodes \subseteq Nodes
         /\ chain = <<>> <=> Len(chain) = 0
         /\ head = NULL <=> Len(chain) = 0
         /\ Len(chain) > 0 => head = chain[1] /\ head \in ChainNodes
BY NodesAssumption DEF Inv, TypeOK, ListInv, Spelled, ChainNodes

(* Steps that only move a walking pointer or a program counter.            *)
LEMMA WalkSteps ==
  ASSUME Inv,
         NewFails \/ PushBegin \/ BackStep \/ DelBegin \/ DelEnd
           \/ GetBegin \/ GetStep \/ GetEnd \/ UNCHANGED vars
  PROVE  Inv'
<1> USE DEF Inv, ListInv, TypeOK, Spelled, NoLeakNoDangling, WalkInList, ChainNodes, Pointers
<1>0. /\ Len(chain) \in Nat /\ NULL \notin Nodes
      /\ \A j \in 1..Len(chain) : chain[j] \in Nodes
      /\ head = NULL <=> Len(chain) = 0
      /\ Len(chain) > 0 => head = chain[1] /\ head \in ChainNodes
  BY Basics
<1>1. CASE NewFails
  BY <1>1 DEF NewFails, walk
<1>2. CASE PushBegin
  BY <1>0, <1>2 DEF PushBegin, walk
<1>3. CASE BackStep
  <2>1. PICK j \in 1..Len(chain) : cur = chain[j]
    BY <1>3 DEF BackStep
  <2>2. j # Len(chain) /\ next[cur] = chain[j + 1] /\ j + 1 \in 1..Len(chain)
    BY <1>0, <1>3, <2>1 DEF BackStep
  <2>3. cur' \in ChainNodes /\ cur' \in Nodes
    BY <1>0, <1>3, <2>2 DEF BackStep
  <2>4. QED
    BY <1>3, <2>3 DEF BackStep, walk
<1>4. CASE DelBegin
  BY <1>4 DEF DelBegin, walk
<1>5. CASE DelEnd
  BY <1>5 DEF DelEnd, walk
<1>6. CASE GetBegin
  BY <1>0, <1>6, IndexAssumption DEF GetBegin, walk
<1>7. CASE GetStep
  <2>1. i < Len(chain) /\ cur = chain[i + 1] /\ i + 1 \in 1..Len(chain)
    BY <1>0, <1>7 DEF GetStep
  <2>2. cur' = IF i + 1 = Len(chain) THEN NULL ELSE chain[i + 2]
    BY <1>0, <1>7, <2>1 DEF GetStep
  <2>3. cur' \in Pointers
    BY <1>0, <2>1, <2>2
  <2>4. /\ i' <= index'
        /\ IF i' < Len(chain') THEN cur' = chain'[i' + 1] ELSE cur' = NULL /\ i' = Len(chain')
    BY <1>0, <1>7, <2>1, <2>2 DEF GetStep
  <2>5. QED
    BY <1>7, <2>3, <2>4 DEF GetStep
<1>8. CASE GetEnd
  BY <1>8 DEF GetEnd, walk
<1>9. CASE UNCHANGED vars
  BY <1>9 DEF vars, walk
<1>10. QED
  BY <1>1, <1>2, <1>3, <1>4, <1>5, <1>6, <1>7, <1>8, <1>9

(* ft_lstnew: the fresh node is outside the list.                          *)
LEMMA NewStep ==
  ASSUME Inv, NEW n \in Nodes, New(n)
  PROVE  Inv'
<1>1. /\ pc = "idle" /\ n \notin live
      /\ live' = live \cup {n} /\ next' = [next EXCEPT ![n] = NULL]
      /\ new' = n /\ pc' = "new"
      /\ UNCHANGED <<head, cur, i, index, rev, chain>>
  BY DEF New, walk
<1>2. live = ChainNodes \cup ({new} \ {NULL}) /\ (new # NULL => pc \in {"new", "push"})
  BY DEF Inv, ListInv, NoLeakNoDangling
<1>3. new = NULL /\ live = ChainNodes /\ n \notin ChainNodes /\ n # NULL
  BY <1>1, <1>2, NodesAssumption
<1>4. TypeOK'
  BY <1>1 DEF Inv, TypeOK, Pointers
<1>5. Spelled'
  BY <1>1, <1>3, Basics DEF Inv, ListInv, Spelled, ChainNodes, TypeOK
<1>6. NoLeakNoDangling'
  BY <1>1, <1>3 DEF NoLeakNoDangling, ChainNodes, Inv, TypeOK
<1>7. WalkInList'
  BY <1>1 DEF WalkInList
<1>8. QED
  BY <1>4, <1>5, <1>6, <1>7 DEF Inv, ListInv

(* ft_lstpush: the last node's next field is the only one that changes.    *)
LEMMA PushSteps ==
  ASSUME Inv, PushEmpty \/ PushLink
  PROVE  Inv'
<1>0. /\ Len(chain) \in Nat /\ NULL \notin Nodes
      /\ \A j \in 1..Len(chain) : chain[j] \in Nodes
      /\ head = NULL <=> Len(chain) = 0
      /\ Len(chain) > 0 => head = chain[1]
  BY Basics
<1>1. /\ pc' = "idle" /\ new' = NULL /\ live' = live /\ chain' = Extended
      /\ rev' = rev /\ cur' = cur /\ i' = i /\ index' = index
      /\ live = ChainNodes \cup ({new} \ {NULL}) /\ new \notin ChainNodes
      /\ new # NULL => next[new] = NULL
  BY DEF PushEmpty, PushLink, walk, Inv, ListInv, NoLeakNoDangling
<1>2. WalkInList'
  BY <1>1 DEF WalkInList
<1>3. /\ next' \in [Nodes -> Pointers] /\ head' \in Pointers
  BY DEF PushEmpty, PushLink, Inv, TypeOK, Pointers
<1>4. CASE new = NULL
  <2>1. chain' = chain /\ head' = head
    BY <1>0, <1>1, <1>4 DEF Extended, PushEmpty, PushLink
  <2>2. next' = next
    BY <1>4 DEF PushEmpty, PushLink, Inv, TypeOK
  <2>3. QED
    BY <1>0, <1>1, <1>2, <1>3, <1>4, <2>1, <2>2
       DEF Inv, ListInv, TypeOK, Spelled, NoLeakNoDangling, ChainNodes, Pointers
<1>5. CASE new # NULL
  <2>1. new \in Nodes
    BY <1>5 DEF Inv, TypeOK, Pointers
  <2>2. /\ chain' \in Seq(Nodes) /\ Len(chain') = Len(chain) + 1
        /\ \A j \in 1..(Len(chain) + 1) :
             chain'[j] = IF j = Len(chain) + 1 THEN new ELSE chain[j]
    BY <1>1, <2>1, ExtendedFacts DEF Inv
  <2>3. \A j \in 1..Len(chain) : chain[j] # new
    BY <1>1 DEF ChainNodes
  <2>4. ChainNodes' = ChainNodes \cup {new}
    BY <1>0, <2>2 DEF ChainNodes
  <2>5. \A j, k \in 1..Len(chain') : chain'[j] = chain'[k] => j = k
    <3>1. \A j, k \in 1..Len(chain) : chain[j] = chain[k] => j = k
      BY DEF Inv, ListInv, Spelled
    <3>2. QED
      BY <1>0, <2>2, <2>3, <3>1
  <2>6. /\ head' = chain'[1] /\ chain' # <<>>
        /\ \A j \in 1..Len(chain') :
             next'[chain'[j]] = IF j = Len(chain') THEN NULL ELSE chain'[j + 1]
    <3>1. CASE PushEmpty
      <4>1. Len(chain) = 0 /\ head' = new /\ next' = next
        BY <1>0, <3>1 DEF PushEmpty
      <4>2. QED
        BY <1>0, <1>1, <1>5, <2>2, <4>1
    <3>2. CASE PushLink
      <4>1. /\ head' = head /\ next' = [next EXCEPT ![cur] = new]
            /\ cur \in ChainNodes /\ next[cur] = NULL
        BY <3>2 DEF PushLink, Inv, ListInv, WalkInList
      <4>2. PICK k \in 1..Len(chain) : cur = chain[k]
        BY <4>1 DEF ChainNodes
      <4>3. \A j \in 1..Len(chain) :
               next[chain[j]] = IF j = Len(chain) THEN NULL ELSE chain[j + 1]
        BY DEF Inv, ListInv, Spelled
      <4>4. k = Len(chain) /\ Len(chain) > 0
        BY <1>0, <4>1, <4>2, <4>3
      <4>5. \A j \in 1..Len(chain) : chain[j] = cur => j = Len(chain)
        BY <4>2, <4>4 DEF Inv, ListInv, Spelled
      <4>6. /\ \A j \in 1..Len(chain) : j # Len(chain) => next'[chain[j]] = next[chain[j]]
            /\ next'[cur] = new /\ next'[new] = NULL
        BY <1>0, <1>1, <1>5, <2>1, <2>3, <4>1, <4>2, <4>5 DEF Inv, TypeOK
      <4>7. head' = chain'[1] /\ chain' # <<>>
        BY <1>0, <2>2, <4>1, <4>4
      <4>8. ASSUME NEW j \in 1..Len(chain')
            PROVE  next'[chain'[j]] = IF j = Len(chain') THEN NULL ELSE chain'[j + 1]
        <5>1. CASE j = Len(chain) + 1
          BY <1>0, <2>2, <4>6, <5>1
        <5>2. CASE j = Len(chain)
          BY <1>0, <2>2, <4>2, <4>4, <4>6, <5>2
        <5>3. CASE j \in 1..(Len(chain) - 1)
          <6>1. /\ j \in 1..Len(chain) /\ j + 1 \in 1..Len(chain)
                /\ j # Len(chain) /\ j # Len(chain') /\ j # Len(chain) + 1
                /\ j + 1 # Len(chain) + 1
            BY <1>0, <2>2, <5>3
          <6>2. chain'[j] = chain[j] /\ chain'[j + 1] = chain[j + 1]
            BY <1>0, <2>2, <6>1
          <6>3. next'[chain[j]] = next[chain[j]]
            BY <4>6, <6>1
          <6>4. next[chain[j]] = chain[j + 1]
            BY <4>3, <6>1
          <6>5. QED
            BY <6>1, <6>2, <6>3, <6>4
        <5>4. QED
          BY <1>0, <2>2, <4>8, <5>1, <5>2, <5>3
      <4>9. QED
        BY <4>7, <4>8
    <3>3. QED
      BY <3>1, <3>2
  <2>7. TypeOK'
    BY <1>1, <1>3, <2>2 DEF Inv, TypeOK, Pointers
  <2>8. Spelled'
    BY <2>5, <2>6 DEF Spelled
  <2>9. NULL \notin ChainNodes'
    BY <1>0, <2>1, <2>4 DEF ChainNodes
  <2>10. NoLeakNoDangling'
    BY <1>1, <1>5, <2>4, <2>9 DEF NoLeakNoDangling
  <2>11. QED
    BY <1>2, <2>7, <2>8, <2>10 DEF Inv, ListInv
<1>6. QED
  BY <1>4, <1>5

(* ft_lstadd: only the new node's next field changes.                      *)
LEMMA AddStep ==
  ASSUME Inv, Add
  PROVE  Inv'
<1>0. /\ Len(chain) \in Nat /\ NULL \notin Nodes
      /\ \A j \in 1..Len(chain) : chain[j] \in Nodes
      /\ head = NULL <=> Len(chain) = 0
      /\ Len(chain) > 0 => head = chain[1]
  BY Basics
<1>1. /\ pc' = "idle" /\ new' = NULL /\ live' = live /\ chain' = Prepended
      /\ rev' = rev /\ cur' = cur /\ i' = i /\ index' = index
      /\ live = ChainNodes \cup ({new} \ {NULL}) /\ new \notin ChainNodes
      /\ new \in Nodes /\ next[new] = NULL
      /\ head' = new /\ next' = [next EXCEPT ![new] = head]
  BY DEF Add, AddNext, walk, Inv, ListInv, NoLeakNoDangling, TypeOK, Pointers
<1>2. /\ chain' \in Seq(Nodes) /\ Len(chain') = Len(chain) + 1
      /\ \A j \in 1..(Len(chain) + 1) : chain'[j] = IF j = 1 THEN new ELSE chain[j - 1]
  BY <1>1, PrependedFacts DEF Inv
<1>3. /\ \A j \in 1..Len(chain) : chain[j] # new
      /\ \A j, k \in 1..Len(chain) : chain[j] = chain[k] => j = k
      /\ \A j \in 1..Len(chain) :
           next[chain[j]] = IF j = Len(chain) THEN NULL ELSE chain[j + 1]
  BY <1>1 DEF ChainNodes, Inv, ListInv, Spelled
<1>4. ChainNodes' = ChainNodes \cup {new}
  <2>1. ASSUME NEW j \in 1..Len(chain)
        PROVE  chain'[j + 1] = chain[j] /\ j + 1 \in 1..Len(chain')
    <3>1. j + 1 \in 1..(Len(chain) + 1) /\ j + 1 # 1 /\ (j + 1) - 1 = j
      BY <1>0
    <3>2. chain'[j + 1] = chain[(j + 1) - 1]
      BY <1>2, <3>1
    <3>3. QED
      BY <1>2, <3>1, <3>2
  <2>2. ChainNodes' \subseteq ChainNodes \cup {new}
    BY <1>0, <1>2 DEF ChainNodes
  <2>3. ChainNodes \cup {new} \subseteq ChainNodes'
    BY <1>0, <1>2, <2>1 DEF ChainNodes
  <2>4. QED
    BY <2>2, <2>3
<1>5. TypeOK'
  BY <1>1, <1>2 DEF Inv, TypeOK, Pointers
<1>6. Spelled'
  <2>1. head' = chain'[1] /\ chain' # <<>>
    BY <1>0, <1>1, <1>2
  <2>2. \A j, k \in 1..Len(chain') : chain'[j] = chain'[k] => j = k
    <3>1. TAKE j, k \in 1..Len(chain')
    <3>2. HAVE chain'[j] = chain'[k]
    <3>3. \A m \in 1..Len(chain') :
             m # 1 => /\ chain'[m] = chain[m - 1] /\ m - 1 \in 1..Len(chain)
                      /\ chain'[m] # new
      BY <1>0, <1>2, <1>3
    <3>4. chain'[1] = new
      BY <1>0, <1>2
    <3>5. CASE j = 1 \/ k = 1
      BY <3>2, <3>3, <3>4, <3>5
    <3>6. CASE j # 1 /\ k # 1
      <4>1. j - 1 = k - 1
        BY <1>3, <3>2, <3>3, <3>6
      <4>2. QED
        BY <1>0, <1>2, <4>1
    <3>7. QED
      BY <3>5, <3>6
  <2>3. next'[new] = head /\ \A j \in 1..Len(chain) : next'[chain[j]] = next[chain[j]]
    BY <1>0, <1>1, <1>3 DEF Inv, TypeOK
  <2>4. ASSUME NEW j \in 1..Len(chain')
        PROVE  next'[chain'[j]] = IF j = Len(chain') THEN NULL ELSE chain'[j + 1]
    <3>1. CASE j = 1
      BY <1>0, <1>2, <2>3, <3>1
    <3>2. CASE j # 1
      <4>1. j - 1 \in 1..Len(chain) /\ chain'[j] = chain[j - 1]
        BY <1>0, <1>2, <3>2
      <4>2. next'[chain'[j]] = IF j - 1 = Len(chain) THEN NULL ELSE chain[(j - 1) + 1]
        BY <1>3, <2>3, <4>1
      <4>3. QED
        BY <1>0, <1>2, <4>1, <4>2
    <3>3. QED
      BY <3>1, <3>2
  <2>5. QED
    BY <2>1, <2>2, <2>4 DEF Spelled
<1>7. NULL \notin ChainNodes'
  BY <1>0, <1>1, <1>4 DEF ChainNodes
<1>8. NoLeakNoDangling'
  BY <1>0, <1>1, <1>4, <1>7 DEF NoLeakNoDangling
<1>9. WalkInList'
  BY <1>1 DEF WalkInList
<1>10. QED
  BY <1>5, <1>6, <1>8, <1>9 DEF Inv, ListInv

(* The chain without its k-th node: which nodes are left.                  *)
LEMMA RemovalFacts ==
  ASSUME Inv, NEW k \in 1..Len(chain), chain' = Without(k)
  PROVE  /\ chain' \in Seq(Nodes) /\ Len(chain') = Len(chain) - 1
         /\ \A j \in 1..(Len(chain) - 1) :
              chain'[j] = IF j < k THEN chain[j] ELSE chain[j + 1]
         /\ \A j, m \in 1..Len(chain') : chain'[j] = chain'[m] => j = m
         /\ ChainNodes' = ChainNodes \ {chain[k]}
<1>1. /\ Len(chain) \in Nat
      /\ \A j, m \in 1..Len(chain) : chain[j] = chain[m] => j = m
  BY DEF Inv, TypeOK, ListInv, Spelled
<1>2. /\ chain' \in Seq(Nodes) /\ Len(chain') = Len(chain) - 1
      /\ \A j \in 1..(Len(chain) - 1) :
           chain'[j] = IF j < k THEN chain[j] ELSE chain[j + 1]
  BY WithoutFacts DEF Inv
<1>3. \A j, m \in 1..Len(chain') : chain'[j] = chain'[m] => j = m
  <2> DEFINE old(j) == IF j < k THEN j ELSE j + 1
  <2>1. \A j \in 1..Len(chain') : chain'[j] = chain[old(j)] /\ old(j) \in 1..Len(chain)
    BY <1>1, <1>2
  <2>2. \A j, m \in 1..Len(chain') : old(j) = old(m) => j = m
    BY <1>1, <1>2
  <2> HIDE DEF old
  <2>3. QED
    BY <1>1, <2>1, <2>2
<1>4. ChainNodes' \subseteq ChainNodes \ {chain[k]}
  <2>1. ASSUME NEW j \in 1..Len(chain')
        PROVE  chain'[j] \in ChainNodes /\ chain'[j] # chain[k]
    <3>1. CASE j < k
      BY <1>1, <1>2, <3>1 DEF ChainNodes
    <3>2. CASE ~(j < k)
      <4>1. j + 1 \in 1..Len(chain) /\ j + 1 # k /\ chain'[j] = chain[j + 1]
        BY <1>1, <1>2, <3>2
      <4>2. QED
        BY <1>1, <4>1 DEF ChainNodes
    <3>3. QED
      BY <3>1, <3>2
  <2>2. QED
    BY <2>1 DEF ChainNodes
<1>5. ChainNodes \ {chain[k]} \subseteq ChainNodes'
  <2>1. SUFFICES ASSUME NEW j \in 1..Len(chain), chain[j] # chain[k]
                 PROVE  chain[j] \in ChainNodes'
    BY DEF ChainNodes
  <2>2. CASE j < k
    <3>1. j \in 1..Len(chain') /\ chain'[j] = chain[j]
      BY <1>1, <1>2, <2>2
    <3>2. QED
      BY <3>1 DEF ChainNodes
  <2>3. CASE ~(j < k)
    <3>1. j - 1 \in 1..Len(chain') /\ chain'[j - 1] = chain[j]
      BY <1>1, <1>2, <2>1, <2>3
    <3>2. QED
      BY <3>1 DEF ChainNodes
  <2>4. QED
    BY <2>2, <2>3
<1>6. QED
  BY <1>2, <1>3, <1>4, <1>5

(* ft_lstdelone through the head, alone or as a step of ft_lstdel.         *)
LEMMA DelHeadStep ==
  ASSUME Inv, DelFirst \/ DelStep
  PROVE  Inv'
<1>0. /\ Len(chain) \in Nat /\ NULL \notin Nodes
      /\ \A j \in 1..Len(chain) : chain[j] \in Nodes
      /\ head = NULL <=> Len(chain) = 0
      /\ Len(chain) > 0 => head = chain[1]
  BY Basics
<1>1. /\ head # NULL /\ live' = live \ {head} /\ head' = next[head]
      /\ chain' = Without(1) /\ pc \in {"idle", "del"}
      /\ UNCHANGED <<next, pc, new, rev, cur, i, index>>
  BY DEF DelFirst, DelStep, DelOneHead, walk
<1>2. 1 \in 1..Len(chain) /\ head = chain[1]
  BY <1>0, <1>1
<1>3. /\ chain' \in Seq(Nodes) /\ Len(chain') = Len(chain) - 1
      /\ \A j \in 1..(Len(chain) - 1) : chain'[j] = chain[j + 1]
      /\ \A j, m \in 1..Len(chain') : chain'[j] = chain'[m] => j = m
      /\ ChainNodes' = ChainNodes \ {head}
  BY <1>1, <1>2, RemovalFacts
<1>4. \A j \in 1..Len(chain) :
         next[chain[j]] = IF j = Len(chain) THEN NULL ELSE chain[j + 1]
  BY DEF Inv, ListInv, Spelled
<1>5. new = NULL
  BY <1>1 DEF Inv, ListInv, NoLeakNoDangling
<1>6. TypeOK'
  BY <1>1, <1>2, <1>3 DEF Inv, TypeOK, Pointers
<1>7. Spelled'
  <2>1. head' = IF chain' = <<>> THEN NULL ELSE chain'[1]
    BY <1>0, <1>1, <1>2, <1>3, <1>4
  <2>2. \A j \in 1..Len(chain') :
           next[chain'[j]] = IF j = Len(chain') THEN NULL ELSE chain'[j + 1]
    BY <1>0, <1>3, <1>4
  <2>3. QED
    BY <1>1, <1>3, <2>1, <2>2 DEF Spelled
<1>8. NoLeakNoDangling'
  BY <1>0, <1>1, <1>3, <1>5 DEF NoLeakNoDangling, Inv, ListInv, ChainNodes
<1>9. WalkInList'
  BY <1>1 DEF WalkInList
<1>10. QED
  BY <1>6, <1>7, <1>8, <1>9 DEF Inv, ListInv

(* ft_lstdelone through the next field of a node of the list.              *)
LEMMA DelAfterStep ==
  ASSUME Inv, DelAfter
  PROVE  Inv'
<1>0. /\ Len(chain) \in Nat /\ NULL \notin Nodes
      /\ \A j \in 1..Len(chain) : chain[j] \in Nodes
      /\ head = NULL <=> Len(chain) = 0
      /\ Len(chain) > 0 => head = chain[1]
  BY Basics
<1>1. /\ \A j \in 1..Len(chain) :
           next[chain[j]] = IF j = Len(chain) THEN NULL ELSE chain[j + 1]
      /\ \A j, m \in 1..Len(chain) : chain[j] = chain[m] => j = m
  BY DEF Inv, ListInv, Spelled
<1>2. PICK k \in 1..Len(chain) : DelOneAfter(k)
  BY DEF DelAfter
<1>3. /\ next[chain[k]] # NULL
      /\ live' = live \ {next[chain[k]]}
      /\ next' = [next EXCEPT ![chain[k]] = next[next[chain[k]]]]
      /\ chain' = Without(k + 1)
      /\ pc = "idle" /\ UNCHANGED <<head, pc, new, rev, cur, i, index>>
  BY <1>2 DEF DelOneAfter, DelAfter, walk
<1>4. k < Len(chain) /\ k + 1 \in 1..Len(chain) /\ next[chain[k]] = chain[k + 1]
  BY <1>0, <1>1, <1>3
<1>5. /\ chain' \in Seq(Nodes) /\ Len(chain') = Len(chain) - 1
      /\ \A j \in 1..(Len(chain) - 1) :
           chain'[j] = IF j < k + 1 THEN chain[j] ELSE chain[j + 1]
      /\ \A j, m \in 1..Len(chain') : chain'[j] = chain'[m] => j = m
      /\ ChainNodes' = ChainNodes \ {chain[k + 1]}
  BY <1>3, <1>4, RemovalFacts
<1>6. new = NULL
  BY <1>3 DEF Inv, ListInv, NoLeakNoDangling
<1>7. /\ next'[chain[k]] = IF k + 1 = Len(chain) THEN NULL ELSE chain[k + 2]
      /\ \A j \in 1..Len(chain) : j # k => next'[chain[j]] = next[chain[j]]
  BY <1>0, <1>1, <1>3, <1>4 DEF Inv, TypeOK
<1>8. TypeOK'
  BY <1>0, <1>3, <1>4, <1>5 DEF Inv, TypeOK, Pointers
<1>9. Spelled'
  <2>0. Len(chain) \in Nat /\ Len(chain') = Len(chain) - 1 /\ k < Len(chain)
    BY <1>0, <1>4, <1>5
  <2>1. head' = chain'[1] /\ chain' # <<>>
    BY <1>0, <1>3, <1>4, <1>5
  <2>2. ASSUME NEW j \in 1..Len(chain')
        PROVE  next'[chain'[j]] = IF j = Len(chain') THEN NULL ELSE chain'[j + 1]
    <3>1. CASE j = k
      BY <1>0, <1>4, <1>5, <1>7, <3>1
    <3>2. CASE j < k
      <4>1. /\ j \in 1..Len(chain) /\ j # k /\ j # Len(chain) /\ j # Len(chain')
            /\ chain'[j] = chain[j] /\ chain'[j + 1] = chain[j + 1]
        BY <1>0, <1>4, <1>5, <3>2
      <4>2. next'[chain[j]] = next[chain[j]] /\ next[chain[j]] = chain[j + 1]
        BY <1>1, <1>7, <4>1
      <4>3. QED
        BY <4>1, <4>2
    <3>3. CASE j > k
      <4>0. /\ j + 1 \in 1..Len(chain) /\ j + 1 # k
            /\ j \in 1..(Len(chain) - 1) /\ ~(j < k + 1)
            /\ j # Len(chain') => j + 1 \in 1..(Len(chain) - 1) /\ ~(j + 1 < k + 1)
        BY <2>0, <3>3
      <4>1. /\ j + 1 \in 1..Len(chain) /\ j + 1 # k
            /\ chain'[j] = chain[j + 1]
            /\ j # Len(chain') => chain'[j + 1] = chain[(j + 1) + 1]
        BY <1>5, <4>0
      <4>2. next'[chain[j + 1]] = next[chain[j + 1]]
        BY <1>7, <4>1
      <4>3. next[chain[j + 1]] = IF j + 1 = Len(chain) THEN NULL ELSE chain[(j + 1) + 1]
        BY <1>1, <4>1
      <4>4. QED
        BY <1>0, <1>5, <4>1, <4>2, <4>3
    <3>4. QED
      BY <1>0, <1>5, <3>1, <3>2, <3>3
  <2>3. QED
    BY <1>5, <2>1, <2>2 DEF Spelled
<1>10. NoLeakNoDangling'
  BY <1>0, <1>3, <1>4, <1>5, <1>6 DEF NoLeakNoDangling, Inv, ListInv, ChainNodes
<1>11. WalkInList'
  BY <1>3 DEF WalkInList
<1>12. QED
  BY <1>8, <1>9, <1>10, <1>11 DEF Inv, ListInv

----------------------------------------------------------------------------
(* Types, and the pointers spell the sequence, in every reachable state.   *)
THEOREM ListCorrect == Spec => []Inv
<1>1. Inv /\ [Next]_vars => Inv'
  BY WalkSteps, NewStep, PushSteps, AddStep, DelHeadStep, DelAfterStep
     DEF Next, Call, Link, Walk
<1>2. QED
  BY InvInit, <1>1, PTL DEF Spec

THEOREM ListTyped == Spec => []TypeOK
BY ListCorrect, PTL DEF Inv

(* The pointers spell exactly the nodes the calls should have left.        *)
THEOREM ListSpelled == Spec => []Spelled
BY ListCorrect, PTL DEF Inv, ListInv

(* Nothing allocated is lost and nothing freed can be reached.             *)
THEOREM ListMemory == Spec => []NoLeakNoDangling
BY ListCorrect, PTL DEF Inv, ListInv

(* ft_lstget answers the node at the index.                                *)
THEOREM GetCorrect == Spec => []GetAnswers
<1>1. Inv => GetAnswers
  <2> SUFFICES ASSUME Inv, pc = "get", cur = NULL \/ i = index
               PROVE  cur = IF index < Len(chain) THEN chain[index + 1] ELSE NULL
    BY DEF GetAnswers
  <2>1. /\ i \in Nat /\ index \in Nat /\ i <= index
        /\ IF i < Len(chain) THEN cur = chain[i + 1] ELSE cur = NULL /\ i = Len(chain)
    BY DEF Inv, TypeOK, ListInv, WalkInList
  <2>2. i < Len(chain) => i + 1 \in 1..Len(chain) /\ cur # NULL
    BY <2>1, Basics
  <2>3. QED
    BY <2>1, <2>2, Basics
<1>2. QED
  BY <1>1, ListCorrect, PTL

----------------------------------------------------------------------------
(* The reading of the list that ImplementsSeq is about.                    *)

(* Induction over the naturals, for a set of them.                         *)
LEMMA NaturalsReached ==
  ASSUME NEW T, 0 \in T, \A n \in Nat : n \in T => n + 1 \in T
  PROVE  \A n \in Nat : n \in T
<1>1. PICK R : IsWellFoundedOn(R, Nat) /\ \A x, y \in Nat : x < y => <<x, y>> \in R
  <2>1. \A x, y \in Nat : x < y => <<x, y>> \in OpToRel(<, Nat)
    BY DEF OpToRel
  <2>2. QED
    BY <2>1, NatLessThanWellFounded
<1>2. PICK S : S = Nat
  OBVIOUS
<1>3. SUFFICES ASSUME S \ T # {}
               PROVE  FALSE
  BY <1>2
<1>4. PICK x \in S \ T : \A y \in S \ T : ~ (<<y, x>> \in R)
  <2>1. IsWellFoundedOn(R, S) /\ S \ T \subseteq S
    BY <1>1, <1>2
  <2>2. QED
    BY <1>3, <2>1, WFMin
<1>5. x \in Nat /\ x \notin T /\ x # 0
  BY <1>2, <1>4
<1>6. x - 1 \in Nat /\ x - 1 < x /\ (x - 1) + 1 = x
  BY <1>5
<1>7. x - 1 \notin T
  BY <1>5, <1>6
<1>8. <<x - 1, x>> \in R
  BY <1>1, <1>5, <1>6
<1>9. QED
  BY <1>2, <1>4, <1>6, <1>7, <1>8

LEMMA NodesFinite == Cardinality(Nodes) \in Nat
BY MemoryAssumption, FS_CardinalityType

(* The equation NodesFrom is defined by, up to a depth of m.               *)
Reading(f, m) ==
  f = [k \in 0..m |-> [p \in Pointers |->
         IF p = NULL \/ k = 0 THEN <<>> ELSE <<p>> \o f[k - 1][next[p]]]]

LEMMA ReadingAt ==
  ASSUME NEW f, NEW m, Reading(f, m), NEW k \in 0..m, NEW p \in Pointers
  PROVE  f[k][p] = IF p = NULL \/ k = 0 THEN <<>> ELSE <<p>> \o f[k - 1][next[p]]
<1> DEFINE row(j) == [q \in Pointers |->
             IF q = NULL \/ j = 0 THEN <<>> ELSE <<q>> \o f[j - 1][next[q]]]
<1>1. f = [j \in 0..m |-> row(j)]
  BY DEF Reading
<1>2. f[k] = row(k)
  <2> HIDE DEF row
  <2>1. QED
    BY <1>1
<1>3. QED
  BY <1>2

LEMMA ReadingExists == \A m \in Nat : \E f : Reading(f, m)
<1> DEFINE T == {m \in Nat : \E f : Reading(f, m)}
<1>1. 0 \in T
  <2>1. Reading([k \in 0..0 |-> [p \in Pointers |-> <<>>]], 0)
    BY DEF Reading
  <2>2. QED
    BY <2>1
<1>2. ASSUME NEW n \in Nat, n \in T PROVE n + 1 \in T
  <2>1. PICK f : Reading(f, n)
    BY <1>2
  <2> DEFINE last == [p \in Pointers |->
               IF p = NULL THEN <<>> ELSE <<p>> \o f[n][next[p]]]
             g == [k \in 0..(n + 1) |-> IF k = n + 1 THEN last ELSE f[k]]
             step(k) == [p \in Pointers |->
               IF p = NULL \/ k = 0 THEN <<>> ELSE <<p>> \o g[k - 1][next[p]]]
  <2>2. ASSUME NEW k \in 0..(n + 1)
        PROVE  g[k] = step(k)
    <3>1. CASE k = n + 1
      <4>1. g[k - 1] = f[n] /\ k # 0 /\ g[k] = last
        BY <3>1
      <4>2. QED
        BY <4>1
    <3>2. CASE k # n + 1
      <4>1. k \in 0..n /\ g[k] = f[k] /\ (k # 0 => g[k - 1] = f[k - 1])
        BY <3>2
      <4>2. f[k] = [p \in Pointers |->
                      IF p = NULL \/ k = 0 THEN <<>> ELSE <<p>> \o f[k - 1][next[p]]]
        BY <2>1, <4>1 DEF Reading
      <4>3. QED
        BY <4>1, <4>2
    <3>3. QED
      BY <3>1, <3>2
  <2>3. g = [k \in 0..(n + 1) |-> step(k)]
    BY <2>2
  <2>4. Reading(g, n + 1)
    BY <2>3 DEF Reading
  <2>5. QED
    BY <2>4
<1>3. QED
  <2> HIDE DEF T
  <2>1. \A n \in Nat : n \in T
    BY <1>1, <1>2, NaturalsReached
  <2>2. QED
    BY <2>1 DEF T

LEMMA NodesFromReads == Reading(NodesFrom, Cardinality(Nodes))
<1>1. \E f : Reading(f, Cardinality(Nodes))
  BY NodesFinite, ReadingExists
<1>2. Reading(CHOOSE f : Reading(f, Cardinality(Nodes)), Cardinality(Nodes))
  BY <1>1
<1>3. NodesFrom = CHOOSE f : Reading(f, Cardinality(Nodes))
  BY DEF NodesFrom, Reading
<1>4. QED
  BY <1>2, <1>3

(* What a reader finds is the chain: no pointer leads astray, and the list *)
(* is no longer than memory.                                               *)
LEMMA ChainFits == Inv => Len(chain) \in 0..Cardinality(Nodes)
<1> SUFFICES ASSUME Inv
             PROVE  Len(chain) \in 0..Cardinality(Nodes)
  OBVIOUS
<1>1. /\ Len(chain) \in Nat /\ \A j \in 1..Len(chain) : chain[j] \in Nodes
      /\ \A j, k \in 1..Len(chain) : chain[j] = chain[k] => j = k
  BY DEF Inv, TypeOK, ListInv, Spelled
<1>2. [j \in 1..Len(chain) |-> chain[j]] \in Injection(1..Len(chain), Nodes)
  BY <1>1 DEF Injection, IsInjective
<1>3. Cardinality(1..Len(chain)) <= Cardinality(Nodes)
  BY <1>2, MemoryAssumption, FS_Injection
<1>4. Cardinality(1..Len(chain)) = Len(chain)
  <2>1. PICK n \in Nat : n = Len(chain)
    BY <1>1
  <2>2. Cardinality(1..n) = IF 1 > n THEN 0 ELSE n - 1 + 1
    BY FS_Interval
  <2>3. QED
    BY <2>1, <2>2
<1>5. QED
  BY <1>1, <1>3, <1>4, NodesFinite

LastOf(d) == [q \in 1..d |-> chain[Len(chain) - d + q]]

LEMMA LastLonger ==
  ASSUME Inv, NEW d \in Nat, d < Len(chain)
  PROVE  LastOf(d + 1) = <<chain[Len(chain) - d]>> \o LastOf(d)
<1>1. /\ Len(chain) \in Nat /\ chain \in Seq(Nodes)
      /\ \A j \in 1..Len(chain) : chain[j] \in Nodes
  BY DEF Inv, TypeOK
<1>2. LastOf(d) \in [1..d -> Nodes] /\ LastOf(d + 1) \in [1..(d + 1) -> Nodes]
  BY <1>1 DEF LastOf
<1>3. /\ LastOf(d) \in Seq(Nodes) /\ Len(LastOf(d)) = d
      /\ LastOf(d + 1) \in Seq(Nodes) /\ Len(LastOf(d + 1)) = d + 1
  BY <1>2, SeqByIndex
<1>4. /\ \A q \in 1..d : LastOf(d)[q] = chain[Len(chain) - d + q]
      /\ \A q \in 1..(d + 1) : LastOf(d + 1)[q] = chain[Len(chain) - (d + 1) + q]
  BY DEF LastOf
<1> DEFINE x == chain[Len(chain) - d]
           longer == <<x>> \o LastOf(d)
<1>5. x \in Nodes
  BY <1>1
<1> HIDE DEF x
<1>6. /\ longer \in Seq(Nodes) /\ Len(longer) = d + 1 /\ longer[1] = x
      /\ \A q \in 2..(d + 1) : longer[q] = LastOf(d)[q - 1]
  BY <1>3, <1>5
<1>7. ASSUME NEW q \in 1..(d + 1) PROVE LastOf(d + 1)[q] = longer[q]
  <2>1. CASE q = 1
    <3>1. Len(chain) - (d + 1) + 1 = Len(chain) - d /\ 1 \in 1..(d + 1)
      BY <1>1
    <3>2. LastOf(d + 1)[1] = x
      BY <1>4, <3>1 DEF x
    <3>3. longer[1] = x
      BY <1>6
    <3>4. QED
      BY <2>1, <3>2, <3>3
  <2>2. CASE q # 1
    <3>1. q - 1 \in 1..d /\ q \in 2..(d + 1)
          /\ Len(chain) - d + (q - 1) = Len(chain) - (d + 1) + q
      BY <1>1, <2>2
    <3>2. QED
      BY <1>4, <1>6, <3>1
  <2>3. QED
    BY <2>1, <2>2
<1> HIDE DEF longer
<1>8. LastOf(d + 1) = longer
  BY <1>3, <1>6, <1>7
<1>9. QED
  BY <1>8 DEF longer, x

LEMMA ReadFromEnd ==
  ASSUME Inv
  PROVE  \A d \in Nat : d <= Len(chain) =>
           \A k \in d..Cardinality(Nodes) :
             NodesFrom[k][IF d = 0 THEN NULL ELSE chain[Len(chain) - d + 1]] = LastOf(d)
<1> DEFINE from(d) == IF d = 0 THEN NULL ELSE chain[Len(chain) - d + 1]
           T == {d \in Nat : d <= Len(chain) =>
                   \A k \in d..Cardinality(Nodes) : NodesFrom[k][from(d)] = LastOf(d)}
<1>0. /\ Len(chain) \in Nat /\ NULL \in Pointers /\ NULL \notin Nodes
      /\ \A j \in 1..Len(chain) : chain[j] \in Nodes /\ chain[j] \in Pointers
      /\ \A j \in 1..Len(chain) :
           next[chain[j]] = IF j = Len(chain) THEN NULL ELSE chain[j + 1]
      /\ Cardinality(Nodes) \in Nat
  BY NodesAssumption, NodesFinite DEF Inv, TypeOK, ListInv, Spelled, Pointers
<1>1. \A k \in 0..Cardinality(Nodes), p \in Pointers :
        NodesFrom[k][p] =
          IF p = NULL \/ k = 0 THEN <<>> ELSE <<p>> \o NodesFrom[k - 1][next[p]]
  <2>1. Reading(NodesFrom, Cardinality(Nodes))
    BY NodesFromReads
  <2>2. QED
    BY <2>1, ReadingAt, Zenon
<1>2. 0 \in T
  <2>1. LastOf(0) = <<>>
    BY DEF LastOf
  <2>2. QED
    BY <1>0, <1>1, <2>1
<1>3. ASSUME NEW d \in Nat, d \in T PROVE d + 1 \in T
  <2>1. SUFFICES ASSUME d + 1 <= Len(chain), NEW k \in (d + 1)..Cardinality(Nodes)
                 PROVE  NodesFrom[k][from(d + 1)] = LastOf(d + 1)
    OBVIOUS
  <2>2. /\ d <= Len(chain) /\ d < Len(chain) /\ k - 1 \in d..Cardinality(Nodes)
        /\ k \in 0..Cardinality(Nodes) /\ k # 0 /\ Len(chain) - d \in 1..Len(chain)
    BY <1>0, <2>1
  <2>3. from(d + 1) = chain[Len(chain) - d]
    BY <1>0, <2>1
  <2>4. next[chain[Len(chain) - d]] = from(d)
    <3>1. d # 0 => Len(chain) - d # Len(chain) /\ Len(chain) - d + 1 = (Len(chain) - d) + 1
      BY <1>0, <2>2
    <3>2. d = 0 => Len(chain) - d = Len(chain)
      BY <1>0
    <3>3. QED
      BY <1>0, <2>2, <3>1, <3>2
  <2>5. NodesFrom[k - 1][from(d)] = LastOf(d)
    BY <1>3, <2>2
  <2>6. NodesFrom[k][from(d + 1)] = <<chain[Len(chain) - d]>> \o NodesFrom[k - 1][from(d)]
    BY <1>0, <1>1, <2>2, <2>3, <2>4
  <2>7. QED
    BY <2>2, <2>5, <2>6, LastLonger
<1>4. QED
  <2> HIDE DEF T
  <2>1. \A d \in Nat : d \in T
    BY <1>2, <1>3, NaturalsReached
  <2>2. QED
    BY <2>1 DEF T

LEMMA ChainIsRead == Inv => AsRead = chain
<1> SUFFICES ASSUME Inv
             PROVE  AsRead = chain
  OBVIOUS
<1> DEFINE n == Len(chain)
<1>1. /\ n \in Nat /\ n <= Cardinality(Nodes) /\ Cardinality(Nodes) \in n..Cardinality(Nodes)
      /\ chain \in Seq(Nodes)
  BY ChainFits, NodesFinite DEF Inv, TypeOK
<1>2. head = IF n = 0 THEN NULL ELSE chain[n - n + 1]
  BY <1>1, Basics
<1>3. NodesFrom[Cardinality(Nodes)][IF n = 0 THEN NULL ELSE chain[n - n + 1]] = LastOf(n)
  BY <1>1, ReadFromEnd
<1>4. LastOf(n) = chain
  <2>1. LastOf(n) = [q \in 1..n |-> chain[q]]
    BY <1>1 DEF LastOf
  <2>2. QED
    BY <1>1, <2>1
<1>5. QED
  BY <1>2, <1>3, <1>4 DEF AsRead

----------------------------------------------------------------------------
(* Sequences with the same elements, and those of a concatenation.         *)
LEMMA SameSequence ==
  ASSUME NEW S, NEW s \in Seq(S), NEW t \in Seq(S), Len(s) = Len(t),
         \A j \in 1..Len(s) : s[j] = t[j]
  PROVE  s = t
OBVIOUS

LEMMA Concatenated ==
  ASSUME NEW S, NEW s \in Seq(S), NEW t \in Seq(S)
  PROVE  /\ s \o t \in Seq(S) /\ Len(s \o t) = Len(s) + Len(t)
         /\ \A j \in 1..(Len(s) + Len(t)) :
              (s \o t)[j] = IF j <= Len(s) THEN s[j] ELSE t[j - Len(s)]
OBVIOUS

(* Every step is a step of ListSeq on the chain, or leaves it alone.       *)
LEMMA PushRefines ==
  ASSUME Inv, PushEmpty \/ PushLink
  PROVE  \/ chain' = chain
         \/ \E n \in Nodes \ Abstract!ToSet(chain) : chain' = Append(chain, n)
<1>1. chain' = Extended
  BY DEF PushEmpty, PushLink
<1>2. CASE new = NULL
  BY <1>1, <1>2 DEF Extended
<1>3. CASE new # NULL
  <2>1. new \in Nodes /\ new \notin ChainNodes
    BY <1>3 DEF Inv, TypeOK, Pointers, ListInv, NoLeakNoDangling
  <2>2. Abstract!ToSet(chain) = ChainNodes
    BY DEF Abstract!ToSet, ChainNodes, Inv, TypeOK
  <2>3. QED
    BY <1>1, <1>3, <2>1, <2>2 DEF Extended
<1>4. QED
  BY <1>2, <1>3

LEMMA AddRefines ==
  ASSUME Inv, Add
  PROVE  \E n \in Nodes \ Abstract!ToSet(chain) : chain' = Abstract!Cons(n, chain)
<1>1. new \in Nodes \ Abstract!ToSet(chain)
  BY DEF Add, Abstract!ToSet, ChainNodes, Inv, TypeOK, Pointers, ListInv, NoLeakNoDangling
<1>2. /\ chain \in Seq(Nodes) /\ Len(chain) \in Nat
      /\ chain' \in Seq(Nodes) /\ Len(chain') = Len(chain) + 1
      /\ \A j \in 1..(Len(chain) + 1) : chain'[j] = IF j = 1 THEN new ELSE chain[j - 1]
  BY <1>1, PrependedFacts DEF Inv, TypeOK, Add
<1> DEFINE longer == <<new>> \o chain
<1>3. /\ longer \in Seq(Nodes) /\ Len(longer) = Len(chain) + 1
      /\ \A j \in 1..(Len(chain) + 1) : longer[j] = IF j = 1 THEN new ELSE chain[j - 1]
  BY <1>1, <1>2
<1> HIDE DEF longer
<1>4. chain' = longer
  <2>1. Len(chain') = Len(longer) /\ \A j \in 1..Len(chain') : chain'[j] = longer[j]
    BY <1>2, <1>3
  <2>2. QED
    BY <1>2, <1>3, <2>1, SameSequence
<1>5. QED
  BY <1>1, <1>4 DEF longer, Abstract!Cons

LEMMA RemovalRefines ==
  ASSUME Inv, NEW k \in 1..Len(chain)
  PROVE  Without(k) = Abstract!RemoveAt(chain, k)
<1>1. /\ chain \in Seq(Nodes) /\ Len(chain) \in Nat /\ k \in Nat
  BY DEF Inv, TypeOK
<1>2. /\ Without(k) \in Seq(Nodes) /\ Len(Without(k)) = Len(chain) - 1
      /\ \A j \in 1..(Len(chain) - 1) :
           Without(k)[j] = IF j < k THEN chain[j] ELSE chain[j + 1]
  BY WithoutFacts DEF Inv
<1> DEFINE before == SubSeq(chain, 1, k - 1)
           behind == SubSeq(chain, k + 1, Len(chain))
           shorter == before \o behind
<1>3. /\ before \in Seq(Nodes) /\ Len(before) = k - 1
      /\ \A j \in 1..(k - 1) : before[j] = chain[j]
  BY <1>1
<1>4. /\ behind \in Seq(Nodes) /\ Len(behind) = Len(chain) - k
      /\ \A j \in 1..(Len(chain) - k) : behind[j] = chain[k + j]
  BY <1>1
<1> HIDE DEF before, behind
<1>5. /\ shorter \in Seq(Nodes) /\ Len(shorter) = Len(chain) - 1
      /\ \A j \in 1..(Len(chain) - 1) :
           shorter[j] = IF j < k THEN before[j] ELSE behind[j - (k - 1)]
  <2>1. /\ shorter \in Seq(Nodes) /\ Len(shorter) = Len(before) + Len(behind)
        /\ \A j \in 1..(Len(before) + Len(behind)) :
             shorter[j] = IF j <= Len(before) THEN before[j] ELSE behind[j - Len(before)]
    <3>1. before \in Seq(Nodes) /\ behind \in Seq(Nodes)
      BY <1>3, <1>4
    <3>2. QED
      BY <3>1, Concatenated
  <2>2. /\ Len(before) + Len(behind) = Len(chain) - 1
        /\ \A j \in 1..(Len(chain) - 1) : j <= Len(before) <=> j < k
    BY <1>1, <1>3, <1>4
  <2>3. QED
    BY <1>3, <2>1, <2>2
<1>6. ASSUME NEW j \in 1..(Len(chain) - 1) PROVE shorter[j] = Without(k)[j]
  <2>1. CASE j < k
    BY <1>1, <1>2, <1>3, <1>5, <2>1
  <2>2. CASE ~(j < k)
    <3>1. j - (k - 1) \in 1..(Len(chain) - k) /\ k + (j - (k - 1)) = j + 1
      BY <1>1, <2>2
    <3>2. QED
      BY <1>2, <1>4, <1>5, <2>2, <3>1
  <2>3. QED
    BY <2>1, <2>2
<1> HIDE DEF shorter
<1>7. Without(k) = shorter
  BY <1>2, <1>5, <1>6
<1>8. QED
  BY <1>7 DEF shorter, before, behind, Abstract!RemoveAt

LEMMA DeletionRefines ==
  ASSUME Inv, DelFirst \/ DelStep \/ DelAfter
  PROVE  \E k \in 1..Len(chain) : chain' = Abstract!RemoveAt(chain, k)
<1>1. PICK k \in 1..Len(chain) : chain' = Without(k)
  <2>1. CASE DelFirst \/ DelStep
    <3>1. 1 \in 1..Len(chain) /\ chain' = Without(1)
      BY <2>1, Basics DEF DelFirst, DelStep, DelOneHead
    <3>2. QED
      BY <3>1
  <2>2. CASE DelAfter
    <3>1. PICK k \in 1..Len(chain) : DelOneAfter(k)
      BY <2>2 DEF DelAfter
    <3>2. next[chain[k]] # NULL /\ chain' = Without(k + 1)
      BY <3>1 DEF DelOneAfter
    <3>3. k + 1 \in 1..Len(chain)
      BY <3>2, Basics DEF Inv, ListInv, Spelled
    <3>4. QED
      BY <3>2, <3>3
  <2>3. QED
    BY <2>1, <2>2
<1>2. QED
  BY <1>1, RemovalRefines

LEMMA StepRefines ==
  ASSUME Inv, [Next]_vars
  PROVE  \/ chain' = chain
         \/ \E n \in Nodes \ Abstract!ToSet(chain) : chain' = Append(chain, n) \/ chain' = Abstract!Cons(n, chain)
         \/ \E k \in 1..Len(chain) : chain' = Abstract!RemoveAt(chain, k)
<1>1. CASE \/ \E n \in Nodes : New(n)
           \/ NewFails \/ DelBegin \/ GetBegin \/ PushBegin \/ BackStep \/ DelEnd
           \/ GetStep \/ GetEnd \/ UNCHANGED vars
  BY <1>1 DEF New, NewFails, DelBegin, GetBegin, PushBegin, BackStep, DelEnd, GetStep,
              GetEnd, vars
<1>2. CASE PushEmpty \/ PushLink
  BY <1>2, PushRefines
<1>3. CASE Add
  BY <1>3, AddRefines
<1>4. CASE DelFirst \/ DelStep \/ DelAfter
  BY <1>4, DeletionRefines
<1>5. QED
  BY <1>1, <1>2, <1>3, <1>4 DEF Next, Call, Link, Walk

(* liblst implements the sequence its header promises, for whoever reads   *)
(* the list by its pointers.                                               *)
THEOREM ListImplementsSeq == Spec => ImplementsSeq
<1>1. Init => Abstract!Init
  <2>1. Init => Inv /\ chain = <<>>
    BY InvInit DEF Init
  <2>2. QED
    BY <2>1, ChainIsRead DEF Abstract!Init
<1>2. (Inv => AsRead = chain)'
  BY ChainIsRead, PTL
<1>3. Inv /\ Inv' /\ [Next]_vars => [Abstract!Next]_AsRead
  <2>1. SUFFICES ASSUME Inv, Inv', [Next]_vars
                 PROVE  [Abstract!Next]_AsRead
    OBVIOUS
  <2>2. AsRead = chain
    BY <2>1, ChainIsRead
  <2>3. AsRead' = chain'
    BY <1>2, <2>1
  <2>4. QED
    BY <2>1, <2>2, <2>3, StepRefines
       DEF Abstract!Next, Abstract!Push, Abstract!AddFront, Abstract!Delete, Abstract!Fresh
<1>4. QED
  BY <1>1, <1>3, ListCorrect, PTL DEF Spec, ImplementsSeq, Abstract!Spec
============================================================================
