--------------------------- MODULE ElfWrite_proofs ---------------------------
(***************************************************************************)
(* elftool_write: what the file it leaves has in common with the image,    *)
(* for every image, its tables overlapping or not, every sequence of calls *)
(* before it, every sequence of overlapping writes and every choice of     *)
(* those that fail.                                                        *)
(***************************************************************************)
EXTENDS ElfEdit_proofs

(* What elftool_write has to do, and for each of its calls where it writes *)
(* to, where the cells come from, and how many there are.  Zeroes come     *)
(* from nowhere in the image.                                              *)
Plan == ZeroWrite \o Writes
SpanType == [place : Nat, source : Nat \cup {Here}, size : Nat]
Span(place, source, size) == [place |-> place, source |-> source, size |-> size]

ZeroSpan == <<Span(0, Here, length)>>
HeaderSpan == <<Span(length, 0, 1)>>
PhdrTableSpans == [j \in 1..Len(phdr) |-> Span(image.phoff + j - 1, phdr[j].p_offset, 1)]
ShdrTableSpans ==
  [j \in 1..Len(image.shdr) |-> Span(image.shoff + j - 1, image.shoff + j - 1, 1)]
SectionSpans ==
  [j \in 1..Len(image.shdr) |->
     Span(ShdrEnt(j).sh_offset, image.shdr[j].sh_offset, ShdrEnt(j).sh_size)]
SegmentSpans ==
  [j \in 1..Len(phdr) |->
     Span(Ent(phdr[j]).p_offset, phdr[j].mem_offset, Ent(phdr[j]).p_filesz)]
WritesSpans == HeaderSpan \o PhdrTableSpans \o ShdrTableSpans \o SectionSpans \o SegmentSpans
Spans == ZeroSpan \o WritesSpans

(* A call that writes cells to where they are in the image is exact.  What *)
(* such a call has written is good when no later one spoils it.            *)
Covers(s, o) == o \in s.place..(s.place + s.size - 1)
Exact(s) == s.place = s.source
Safe(S, k, o) == \A m \in (k + 1)..Len(S) : Covers(S[m], o) => Exact(S[m])
Good(S, k, o) == Covers(S[k], o) /\ Exact(S[k]) /\ Safe(S, k, o)
Hit(S, o) == \E k \in 1..Len(S) : Good(S, k, o)
End(S, n) == IF n = 0 THEN 0 ELSE S[n].place + S[n].size

Done == Len(Plan) - Len(todo)

(* The calls for the segments are the last of the plan.  Each of them      *)
(* seeks, so what they have done is right whatever failed before, and      *)
(* right altogether if none of them failed; other calls go on where the    *)
(* one before them should have ended, and rely on all of them.             *)
First == Len(Plan) - Len(phdr)
Trusted(k) ==
  failed = {} \/ (k \in (First + 1)..Len(Plan) /\ failed \cap 1..Len(phdr) = {})

(* The calls left are the last of the plan; while none has failed, each    *)
(* has begun where the plan says, though most do not seek; and the file    *)
(* has what those of the good calls have written that can be relied on.    *)
WriteInv ==
  pc = "write" =>
    /\ Done \in 0..Len(Plan)
    /\ \A k \in 1..Len(todo) : todo[k] = Plan[Done + k]
    /\ failed = {} => pos = End(Spans, Done)
    /\ \A o \in 0..(length - 1), k \in 1..Done :
         Good(Spans, k, o) /\ Trusted(k) => o \in DOMAIN file /\ file[o] = mem[o]

(* The plan follows the spans, from position a on.                         *)
Matches(c, s) ==
  /\ DOMAIN c.cells = 0..(s.size - 1)
  /\ Exact(s) => \A i \in 0..(s.size - 1) : s.place + i < length => c.cells[i] = mem[s.place + i]
Placed(a, p, S, k) ==
  \/ p[k].at = S[k].place
  \/ p[k].at = Here /\ S[k].place = IF k = 1 THEN a ELSE S[k - 1].place + S[k - 1].size
Follows(a, p, S) ==
  /\ Len(p) = Len(S)
  /\ \A k \in 1..Len(S) : Matches(p[k], S[k]) /\ Placed(a, p, S, k)

----------------------------------------------------------------------------
(* Sequences of spans.                                                     *)

LEMMA Concatenated ==
  ASSUME NEW S, NEW s \in Seq(S), NEW t \in Seq(S)
  PROVE  /\ s \o t \in Seq(S) /\ Len(s \o t) = Len(s) + Len(t) /\ Len(s) \in Nat /\ Len(t) \in Nat
         /\ \A j \in 1..Len(s) : j \in 1..Len(s \o t) /\ (s \o t)[j] = s[j]
         /\ \A j \in 1..Len(t) : Len(s) + j \in 1..Len(s \o t) /\ (s \o t)[Len(s) + j] = t[j]
         /\ \A j \in 1..Len(s \o t) : j \in 1..Len(s) \/ (j - Len(s) \in 1..Len(t) /\ j = Len(s) + (j - Len(s)))
OBVIOUS

LEMMA Joined ==
  ASSUME NEW a, NEW b, NEW p1 \in Seq(Calls), NEW p2 \in Seq(Calls),
         NEW s1 \in Seq(SpanType), NEW s2 \in Seq(SpanType),
         Follows(a, p1, s1), Follows(b, p2, s2),
         \/ \A k \in 1..Len(p2) : k = 1 => p2[k].at # Here
         \/ s1 # <<>> /\ b = End(s1, Len(s1))
  PROVE  Follows(a, p1 \o p2, s1 \o s2)
<1> DEFINE p == p1 \o p2
           S == s1 \o s2
           n == Len(s1)
<1>1. /\ Len(p) = Len(p1) + Len(p2) /\ Len(p1) = n /\ Len(p2) = Len(s2) /\ n \in Nat /\ Len(s2) \in Nat
      /\ \A j \in 1..n : p[j] = p1[j]
      /\ \A j \in 1..Len(s2) : p[n + j] = p2[j]
  <2>1. Len(p1) = Len(s1) /\ Len(p2) = Len(s2)
    BY DEF Follows
  <2>2. /\ Len(p) = Len(p1) + Len(p2) /\ Len(p1) \in Nat /\ Len(p2) \in Nat
        /\ \A j \in 1..Len(p1) : p[j] = p1[j]
        /\ \A j \in 1..Len(p2) : p[Len(p1) + j] = p2[j]
    BY Concatenated
  <2>3. QED
    BY <2>1, <2>2
<1>2. /\ Len(S) = n + Len(s2)
      /\ \A j \in 1..n : S[j] = s1[j]
      /\ \A j \in 1..Len(s2) : S[n + j] = s2[j]
      /\ \A j \in 1..Len(S) : j \in 1..n \/ (j - n \in 1..Len(s2) /\ j = n + (j - n))
  BY Concatenated
<1> HIDE DEF p, S
<1>3. ASSUME NEW k \in 1..n PROVE Matches(p[k], S[k]) /\ Placed(a, p, S, k)
  <2>1. Matches(p1[k], s1[k]) /\ Placed(a, p1, s1, k)
    BY DEF Follows
  <2>2. k # 1 => k - 1 \in 1..n
    BY <1>1
  <2>3. QED
    BY <1>1, <1>2, <2>1, <2>2 DEF Placed
<1>4. ASSUME NEW k \in 1..Len(s2) PROVE Matches(p[n + k], S[n + k]) /\ Placed(a, p, S, n + k)
  <2>1. Matches(p2[k], s2[k]) /\ Placed(b, p2, s2, k)
    BY DEF Follows
  <2>2. p[n + k] = p2[k] /\ S[n + k] = s2[k]
    BY <1>1, <1>2
  <2>3. Placed(a, p, S, n + k)
    <3>1. CASE k # 1
      <4>1. k - 1 \in 1..Len(s2) /\ (n + k) - 1 = n + (k - 1) /\ n + k # 1
        BY <1>1, <3>1
      <4>2. S[(n + k) - 1] = s2[k - 1]
        BY <1>2, <4>1
      <4>3. QED
        BY <2>1, <2>2, <3>1, <4>1, <4>2 DEF Placed
    <3>2. CASE k = 1 /\ p2[k].at # Here
      BY <2>1, <2>2, <3>2 DEF Placed
    <3>3. CASE k = 1 /\ s1 # <<>> /\ b = End(s1, n)
      <4>1. n \in 1..n /\ n # 0 /\ (n + k) - 1 = n /\ n + k # 1
        BY <1>1, <3>3, EmptySeq
      <4>2. S[(n + k) - 1] = s1[n] /\ b = s1[n].place + s1[n].size
        BY <1>2, <3>3, <4>1 DEF End
      <4>3. QED
        BY <2>1, <2>2, <3>3, <4>1, <4>2 DEF Placed
    <3>4. QED
      BY <1>1, <3>1, <3>2, <3>3
  <2>4. QED
    BY <2>1, <2>2, <2>3
<1>5. ASSUME NEW k \in 1..Len(S) PROVE Matches(p[k], S[k]) /\ Placed(a, p, S, k)
  <2>1. CASE k \in 1..n
    BY <1>3, <2>1
  <2>2. CASE k - n \in 1..Len(s2) /\ k = n + (k - n)
    <3>1. PICK j \in 1..Len(s2) : k = n + j
      BY <2>2
    <3>2. QED
      BY <1>4, <3>1
  <2>3. QED
    BY <1>2, <2>1, <2>2
<1>6. QED
  BY <1>1, <1>2, <1>5 DEF Follows, p, S

(* What is hit at the end of a sequence is hit in the whole, and what is   *)
(* hit at its beginning, if the rest is safe.                              *)
LEMMA GoodLast ==
  ASSUME NEW s \in Seq(SpanType), NEW t \in Seq(SpanType), NEW o,
         NEW k \in 1..Len(t), Good(t, k, o)
  PROVE  Len(s) + k \in 1..Len(s \o t) /\ Good(s \o t, Len(s) + k, o)
<1> DEFINE S == s \o t
           n == Len(s)
<1>1. Good(t, k, o)
  OBVIOUS
<1>2. /\ Len(S) = n + Len(t) /\ n \in Nat /\ Len(t) \in Nat
      /\ \A j \in 1..Len(t) : n + j \in 1..Len(S) /\ S[n + j] = t[j]
  BY Concatenated
<1> HIDE DEF S, n
<1>3. ASSUME NEW m \in (n + k + 1)..Len(S), Covers(S[m], o) PROVE Exact(S[m])
  <2>1. PICK j \in (k + 1)..Len(t) : m = n + j
    <3>1. m - n \in (k + 1)..Len(t) /\ m = n + (m - n)
      BY <1>2
    <3>2. QED
      BY <3>1
  <2>2. j \in 1..Len(t)
    BY <1>2
  <2>3. S[m] = t[j]
    BY <1>2, <2>1, <2>2
  <2>4. QED
    BY <1>1, <1>3, <2>1, <2>3 DEF Good, Safe
<1>4. Good(S, n + k, o)
  BY <1>1, <1>2, <1>3 DEF Good, Safe
<1>5. QED
  BY <1>2, <1>4 DEF S, n

LEMMA HitLast ==
  ASSUME NEW s \in Seq(SpanType), NEW t \in Seq(SpanType), NEW o, Hit(t, o)
  PROVE  Hit(s \o t, o)
BY GoodLast DEF Hit

LEMMA HitFirst ==
  ASSUME NEW s \in Seq(SpanType), NEW t \in Seq(SpanType), NEW o, Hit(s, o), Safe(t, 0, o)
  PROVE  Hit(s \o t, o)
<1> DEFINE S == s \o t
           n == Len(s)
<1>1. PICK k \in 1..n : Good(s, k, o)
  BY DEF Hit
<1>2. /\ Len(S) = n + Len(t) /\ n \in Nat /\ Len(t) \in Nat
      /\ \A j \in 1..n : j \in 1..Len(S) /\ S[j] = s[j]
      /\ \A j \in 1..Len(t) : S[n + j] = t[j]
      /\ \A j \in 1..Len(S) : j \in 1..n \/ (j - n \in 1..Len(t) /\ j = n + (j - n))
  BY Concatenated
<1> HIDE DEF S, n
<1>3. ASSUME NEW m \in (k + 1)..Len(S), Covers(S[m], o) PROVE Exact(S[m])
  <2>1. m \in 1..Len(S)
    BY <1>2
  <2>2. CASE m \in 1..n
    <3>1. m \in (k + 1)..n /\ S[m] = s[m]
      BY <1>2, <2>2
    <3>2. QED
      BY <1>1, <1>3, <3>1 DEF Good, Safe, n
  <2>3. CASE m - n \in 1..Len(t) /\ m = n + (m - n)
    <3>1. PICK j \in 1..Len(t) : m = n + j
      BY <2>3
    <3>2. j \in (0 + 1)..Len(t) /\ S[m] = t[j]
      BY <1>2, <3>1
    <3>3. QED
      BY <1>3, <3>2 DEF Safe
  <2>4. QED
    BY <1>2, <2>1, <2>2, <2>3
<1>4. Good(S, k, o)
  BY <1>1, <1>2, <1>3 DEF Good, Safe
<1>5. QED
  BY <1>2, <1>4 DEF Hit, S

----------------------------------------------------------------------------
(* The plan.                                                               *)

LEMMA PlaceFacts ==
  ASSUME TypeOK, Layout, WrapperInv, InjectedInv
  PROVE  /\ image.phoff \in Nat /\ image.shoff \in Nat /\ length \in Nat
         /\ Len(phdr) \in Nat /\ Len(image.shdr) \in Nat /\ N \in Nat
         /\ \A j \in 1..Len(phdr) : /\ phdr[j].p_offset \in Nat /\ phdr[j].mem_offset \in Nat
                                    /\ Ent(phdr[j]).p_offset \in Nat /\ Ent(phdr[j]).p_filesz \in Nat
         /\ \A j \in 1..Len(image.shdr) :
              /\ image.shdr[j].sh_offset \in Nat
              /\ ShdrEnt(j).sh_offset \in Nat /\ ShdrEnt(j).sh_size \in Nat
<1>1. /\ image.phoff \in Nat /\ image.shoff \in Nat /\ length \in Nat /\ N \in Nat
      /\ image.shdr \in Seq([sh_offset : Nat, sh_size : Nat]) /\ Len(image.shdr) \in Nat
      /\ phdr \in Seq(Wrapper) /\ Len(phdr) \in Nat
  BY ImageFacts, LenProperties DEF TypeOK, Wrapper
<1>2. ASSUME NEW j \in 1..Len(phdr)
      PROVE  /\ phdr[j].p_offset \in Nat /\ phdr[j].mem_offset \in Nat
             /\ Ent(phdr[j]).p_offset \in Nat /\ Ent(phdr[j]).p_filesz \in Nat
  <2>1. phdr[j] \in Wrapper
    BY <1>1, ElementOfSeq
  <2>2. Ent(phdr[j]) \in Entries
    BY TypesOnly, WrapperSlots DEF Ent, Layout
  <2>3. QED
    BY <2>1, <2>2 DEF Wrapper, Entries
<1>3. QED
  BY <1>1, <1>2, HeaderTypes

LEMMA SpanFacts ==
  ASSUME NEW place \in Nat, NEW source \in Nat \cup {Here}, NEW n \in Nat
  PROVE  /\ Span(place, source, n) \in SpanType
         /\ Span(place, source, n).place = place /\ Span(place, source, n).size = n
         /\ Exact(Span(place, source, n)) <=> place = source
BY DEF Span, SpanType, Exact

LEMMA SpansType ==
  ASSUME TypeOK, Layout, WrapperInv, InjectedInv
  PROVE  /\ ZeroSpan \in Seq(SpanType) /\ HeaderSpan \in Seq(SpanType)
         /\ PhdrTableSpans \in Seq(SpanType) /\ ShdrTableSpans \in Seq(SpanType)
         /\ SectionSpans \in Seq(SpanType) /\ SegmentSpans \in Seq(SpanType)
<1>1. Span(0, Here, length) \in SpanType /\ Span(length, 0, 1) \in SpanType
  BY PlaceFacts, SpanFacts
<1>2. ASSUME NEW j \in 1..Len(phdr)
      PROVE  /\ Span(image.phoff + j - 1, phdr[j].p_offset, 1) \in SpanType
             /\ Span(Ent(phdr[j]).p_offset, phdr[j].mem_offset, Ent(phdr[j]).p_filesz) \in SpanType
  <2>1. image.phoff + j - 1 \in Nat
    BY PlaceFacts
  <2>2. QED
    BY <2>1, PlaceFacts, SpanFacts
<1>3. ASSUME NEW j \in 1..Len(image.shdr)
      PROVE  /\ Span(image.shoff + j - 1, image.shoff + j - 1, 1) \in SpanType
             /\ Span(ShdrEnt(j).sh_offset, image.shdr[j].sh_offset, ShdrEnt(j).sh_size) \in SpanType
  <2>1. image.shoff + j - 1 \in Nat
    BY PlaceFacts
  <2>2. QED
    BY <2>1, PlaceFacts, SpanFacts
<1>4. ZeroSpan \in Seq(SpanType) /\ HeaderSpan \in Seq(SpanType)
  BY <1>1 DEF ZeroSpan, HeaderSpan
<1>5. PhdrTableSpans \in Seq(SpanType)
  BY <1>2, PlaceFacts, IsASeq DEF PhdrTableSpans
<1>6. SegmentSpans \in Seq(SpanType)
  BY <1>2, PlaceFacts, IsASeq DEF SegmentSpans
<1>7. ShdrTableSpans \in Seq(SpanType)
  BY <1>3, PlaceFacts, IsASeq DEF ShdrTableSpans
<1>8. SectionSpans \in Seq(SpanType)
  BY <1>3, PlaceFacts, IsASeq DEF SectionSpans
<1>9. QED
  BY <1>4, <1>5, <1>6, <1>7, <1>8

(* A call copies what its span says.                                       *)
LEMMA CallMatches ==
  ASSUME NEW at, NEW place \in Nat, NEW from \in Nat, NEW n \in Nat
  PROVE  /\ WriteAt(at, from, n).at = at
         /\ Matches(WriteAt(at, from, n), Span(place, from, n))
BY DEF WriteAt, Chunk, Matches, Exact, Span

LEMMA PartsFollow ==
  ASSUME TypeOK, Layout, WrapperInv, InjectedInv
  PROVE  /\ Follows(0, ZeroWrite, ZeroSpan) /\ Follows(length, HeaderWrite, HeaderSpan)
         /\ Follows(0, PhdrTableWrites, PhdrTableSpans) /\ Follows(0, ShdrTableWrites, ShdrTableSpans)
         /\ Follows(0, SectionWrites, SectionSpans) /\ Follows(0, SegmentWrites, SegmentSpans)
<1>1. Follows(0, ZeroWrite, ZeroSpan)
  <2>1. PICK c : c = [at |-> Here, cells |-> [o \in 0..(length - 1) |-> Zero]]
    OBVIOUS
  <2>2. Matches(c, Span(0, Here, length)) /\ c.at = Here
    BY <2>1 DEF Matches, Exact, Span, Here
  <2>3. ZeroWrite = <<c>>
    BY <2>1 DEF ZeroWrite
  <2>4. QED
    BY <2>2, <2>3 DEF Follows, Placed, ZeroSpan, Span
<1>2. Follows(length, HeaderWrite, HeaderSpan)
  <2>1. Matches(WriteAt(Here, 0, 1), Span(length, 0, 1)) /\ WriteAt(Here, 0, 1).at = Here
    BY PlaceFacts, CallMatches
  <2>2. QED
    BY <2>1 DEF Follows, Placed, HeaderWrite, HeaderSpan, Span
<1>3. Follows(0, PhdrTableWrites, PhdrTableSpans)
  <2>1. ASSUME NEW k \in 1..Len(phdr)
        PROVE  /\ Matches(PhdrTableWrites[k], PhdrTableSpans[k])
               /\ Placed(0, PhdrTableWrites, PhdrTableSpans, k)
    <3>1. image.phoff + k - 1 \in Nat /\ phdr[k].p_offset \in Nat /\ image.phoff \in Nat
      BY PlaceFacts
    <3>2. /\ Matches(PhdrTableWrites[k], PhdrTableSpans[k])
          /\ PhdrTableWrites[k].at = TableStart(k, image.phoff)
      BY <3>1, CallMatches DEF PhdrTableWrites, PhdrTableSpans
    <3>3. PhdrTableSpans[k].place = image.phoff + k - 1
      BY <3>1 DEF PhdrTableSpans, Span
    <3>4. ASSUME k # 1
          PROVE  PhdrTableSpans[k - 1].place + PhdrTableSpans[k - 1].size = image.phoff + k - 1
      <4>1. k - 1 \in 1..Len(phdr)
        BY <3>4, PlaceFacts
      <4>2. PhdrTableSpans[k - 1].place = image.phoff + (k - 1) - 1 /\ PhdrTableSpans[k - 1].size = 1
        BY <4>1 DEF PhdrTableSpans, Span
      <4>3. QED
        BY <3>1, <4>2
    <3>5. QED
      BY <3>1, <3>2, <3>3, <3>4 DEF Placed, TableStart
  <2>2. Len(PhdrTableWrites) = Len(phdr) /\ Len(PhdrTableSpans) = Len(phdr)
    BY PlaceFacts DEF PhdrTableWrites, PhdrTableSpans
  <2>3. QED
    BY <2>1, <2>2 DEF Follows
<1>4. Follows(0, ShdrTableWrites, ShdrTableSpans)
  <2>1. ASSUME NEW k \in 1..Len(image.shdr)
        PROVE  /\ Matches(ShdrTableWrites[k], ShdrTableSpans[k])
               /\ Placed(0, ShdrTableWrites, ShdrTableSpans, k)
    <3>1. image.shoff + k - 1 \in Nat /\ image.shoff \in Nat
      BY PlaceFacts
    <3>2. /\ Matches(ShdrTableWrites[k], ShdrTableSpans[k])
          /\ ShdrTableWrites[k].at = TableStart(k, image.shoff)
      BY <3>1, CallMatches DEF ShdrTableWrites, ShdrTableSpans
    <3>3. ShdrTableSpans[k].place = image.shoff + k - 1
      BY <3>1 DEF ShdrTableSpans, Span
    <3>4. ASSUME k # 1
          PROVE  ShdrTableSpans[k - 1].place + ShdrTableSpans[k - 1].size = image.shoff + k - 1
      <4>1. k - 1 \in 1..Len(image.shdr)
        BY <3>4, PlaceFacts
      <4>2. ShdrTableSpans[k - 1].place = image.shoff + (k - 1) - 1 /\ ShdrTableSpans[k - 1].size = 1
        BY <4>1 DEF ShdrTableSpans, Span
      <4>3. QED
        BY <3>1, <4>2
    <3>5. QED
      BY <3>1, <3>2, <3>3, <3>4 DEF Placed, TableStart
  <2>2. Len(ShdrTableWrites) = Len(image.shdr) /\ Len(ShdrTableSpans) = Len(image.shdr)
    BY PlaceFacts DEF ShdrTableWrites, ShdrTableSpans
  <2>3. QED
    BY <2>1, <2>2 DEF Follows
<1>5. Follows(0, SectionWrites, SectionSpans)
  <2>1. ASSUME NEW k \in 1..Len(image.shdr)
        PROVE  /\ Matches(SectionWrites[k], SectionSpans[k])
               /\ SectionWrites[k].at = SectionSpans[k].place
    <3>1. /\ image.shdr[k].sh_offset \in Nat
          /\ ShdrEnt(k).sh_offset \in Nat /\ ShdrEnt(k).sh_size \in Nat
      BY PlaceFacts
    <3>2. PICK s, from : s = ShdrEnt(k) /\ from = image.shdr[k].sh_offset
      OBVIOUS
    <3>3. /\ SectionWrites[k] = WriteAt(s.sh_offset, from, s.sh_size)
          /\ SectionSpans[k] = Span(s.sh_offset, from, s.sh_size)
      BY <3>2 DEF SectionWrites, SectionSpans
    <3>4. SectionSpans[k].place = s.sh_offset
      BY <3>3 DEF Span
    <3>5. QED
      BY <3>1, <3>2, <3>3, <3>4, CallMatches
  <2>2. Len(SectionWrites) = Len(image.shdr) /\ Len(SectionSpans) = Len(image.shdr)
    BY PlaceFacts DEF SectionWrites, SectionSpans
  <2>3. QED
    BY <2>1, <2>2 DEF Follows, Placed
<1>6. Follows(0, SegmentWrites, SegmentSpans)
  <2>1. ASSUME NEW k \in 1..Len(phdr)
        PROVE  /\ Matches(SegmentWrites[k], SegmentSpans[k])
               /\ SegmentWrites[k].at = SegmentSpans[k].place
    <3>1. /\ Ent(phdr[k]).p_offset \in Nat /\ phdr[k].mem_offset \in Nat
          /\ Ent(phdr[k]).p_filesz \in Nat
      BY PlaceFacts
    <3>2. PICK e, from : e = Ent(phdr[k]) /\ from = phdr[k].mem_offset
      OBVIOUS
    <3>3. /\ SegmentWrites[k] = WriteAt(e.p_offset, from, e.p_filesz)
          /\ SegmentSpans[k] = Span(e.p_offset, from, e.p_filesz)
      BY <3>2 DEF SegmentWrites, SegmentSpans
    <3>4. SegmentSpans[k].place = e.p_offset
      BY <3>3 DEF Span
    <3>5. QED
      BY <3>1, <3>2, <3>3, <3>4, CallMatches
  <2>2. Len(SegmentWrites) = Len(phdr) /\ Len(SegmentSpans) = Len(phdr)
    BY PlaceFacts DEF SegmentWrites, SegmentSpans
  <2>3. QED
    BY <2>1, <2>2 DEF Follows, Placed
<1>7. QED
  BY <1>1, <1>2, <1>3, <1>4, <1>5, <1>6

(* Each part but the header begins with a seek, and the header goes on     *)
(* where the zeroes end.                                                   *)
LEMMA PlanFollows ==
  ASSUME TypeOK, Layout, WrapperInv, InjectedInv
  PROVE  /\ Follows(0, Plan, Spans) /\ Plan \in Seq(Calls) /\ Spans \in Seq(SpanType)
<1>1. /\ \A k \in 1..Len(PhdrTableWrites) : k = 1 => PhdrTableWrites[k].at # Here
      /\ \A k \in 1..Len(ShdrTableWrites) : k = 1 => ShdrTableWrites[k].at # Here
      /\ \A k \in 1..Len(SectionWrites) : SectionWrites[k].at # Here
      /\ \A k \in 1..Len(SegmentWrites) : SegmentWrites[k].at # Here
  <2>1. Here \notin Nat
    BY DEF Here
  <2>2. QED
    BY <2>1, PlaceFacts
       DEF PhdrTableWrites, ShdrTableWrites, SectionWrites, SegmentWrites, WriteAt, TableStart
<1> DEFINE w3 == HeaderWrite \o PhdrTableWrites
           s3 == HeaderSpan \o PhdrTableSpans
           w4 == w3 \o ShdrTableWrites
           s4 == s3 \o ShdrTableSpans
           w5 == w4 \o SectionWrites
           s5 == s4 \o SectionSpans
<1>2. w3 \in Seq(Calls) /\ s3 \in Seq(SpanType) /\ Follows(length, w3, s3)
  BY <1>1, PartsType, SpansType, PartsFollow, Joined, Concatenated
<1> HIDE DEF w3, s3
<1>3. w4 \in Seq(Calls) /\ s4 \in Seq(SpanType) /\ Follows(length, w4, s4)
  BY <1>1, <1>2, PartsType, SpansType, PartsFollow, Joined, Concatenated
<1> HIDE DEF w4, s4
<1>4. w5 \in Seq(Calls) /\ s5 \in Seq(SpanType) /\ Follows(length, w5, s5)
  BY <1>1, <1>3, PartsType, SpansType, PartsFollow, Joined, Concatenated
<1> HIDE DEF w5, s5
<1>5. /\ Writes \in Seq(Calls) /\ WritesSpans \in Seq(SpanType)
      /\ Follows(length, Writes, WritesSpans)
  <2>1. Writes = w5 \o SegmentWrites /\ WritesSpans = s5 \o SegmentSpans
    BY DEF Writes, WritesSpans, w3, s3, w4, s4, w5, s5
  <2>2. QED
    BY <1>1, <1>4, <2>1, PartsType, SpansType, PartsFollow, Joined, Concatenated
<1>6. ZeroSpan # <<>> /\ length = End(ZeroSpan, Len(ZeroSpan))
  BY PlaceFacts DEF ZeroSpan, End, Span
<1>7. QED
  BY <1>5, <1>6, PartsType, SpansType, PartsFollow, Joined, Concatenated DEF Plan, Spans

----------------------------------------------------------------------------
(* The writing.                                                            *)

(* A call that neither changes the image nor the wrappers keeps the plan.  *)
LEMMA SamePlan ==
  ASSUME UNCHANGED <<image, mem, length, phdr>>
  PROVE  Plan' = Plan /\ Spans' = Spans
<1>0. \A j : ShdrEnt(j)' = ShdrEnt(j)
  BY DEF ShdrEnt, PhdrCells, ParsedCell
<1>1. Plan' = Plan
  BY <1>0 DEF Plan, ZeroWrite, Writes, HeaderWrite, PhdrTableWrites, ShdrTableWrites,
              SectionWrites, SegmentWrites, WriteAt, Chunk, Ent, TableStart
<1>2. Spans' = Spans
  BY <1>0 DEF Spans, ZeroSpan, WritesSpans, HeaderSpan, PhdrTableSpans, ShdrTableSpans,
              SectionSpans, SegmentSpans, Ent, Span
<1>3. QED
  BY <1>1, <1>2

LEMMA LastPart ==
  ASSUME NEW s \in Seq(Calls), NEW t \in Seq(Calls), NEW u \in Seq(Calls)
  PROVE  /\ Len(s \o (t \o u)) = (Len(s) + Len(t)) + Len(u)
         /\ \A j \in 1..Len(u) : (s \o (t \o u))[(Len(s) + Len(t)) + j] = u[j]
<1>1. PICK v \in Seq(Calls) : v = t \o u
  BY Concatenated
<1>2. PICK p : p = s \o v
  OBVIOUS
<1>3. PICK a \in Nat, b \in Nat, c \in Nat : a = Len(s) /\ b = Len(t) /\ c = Len(u)
  BY LenProperties
<1>4. Len(v) = b + c /\ \A j \in 1..c : b + j \in 1..Len(v) /\ v[b + j] = u[j]
  BY <1>1, <1>3, Concatenated
<1>5. Len(p) = a + Len(v) /\ \A j \in 1..Len(v) : p[a + j] = v[j]
  BY <1>2, <1>3, Concatenated
<1>6. Len(p) = (a + b) + c
  BY <1>4, <1>5
<1>7. ASSUME NEW j \in 1..c PROVE p[(a + b) + j] = u[j]
  <2>1. p[a + (b + j)] = v[b + j] /\ v[b + j] = u[j]
    BY <1>4, <1>5
  <2>2. a + (b + j) = (a + b) + j
    OBVIOUS
  <2>3. QED
    BY <2>1, <2>2
<1>8. Len(p) = (a + b) + c /\ \A j \in 1..c : p[(a + b) + j] = u[j]
  BY <1>6, <1>7
<1>9. p = s \o (t \o u)
  BY <1>1, <1>2
<1>10. QED
  BY <1>3, <1>8, <1>9, Zenon

(* The last calls, one for each wrapper, seek where they write.            *)
LEMMA SegmentsSeek ==
  ASSUME TypeOK, Layout, WrapperInv, InjectedInv
  PROVE  /\ First \in Nat /\ Len(Plan) \in Nat /\ Len(phdr) \in Nat
         /\ Len(Plan) = First + Len(phdr)
         /\ \A k \in (First + 1)..Len(Plan) : Plan[k].at # Here
<1>1. /\ HeaderWrite \in Seq(Calls) /\ PhdrTableWrites \in Seq(Calls) /\ ShdrTableWrites \in Seq(Calls)
      /\ SectionWrites \in Seq(Calls) /\ SegmentWrites \in Seq(Calls) /\ ZeroWrite \in Seq(Calls)
  BY PartsType
<1>2. PICK w \in Seq(Calls) : w = HeaderWrite \o PhdrTableWrites \o ShdrTableWrites \o SectionWrites
  BY <1>1, Concatenated
<1>3. Plan = ZeroWrite \o (w \o SegmentWrites)
  BY <1>2 DEF Plan, Writes
<1>4. /\ Len(phdr) \in Nat /\ Len(SegmentWrites) = Len(phdr)
      /\ \A j \in 1..Len(phdr) : SegmentWrites[j].at # Here
  <2>1. Here \notin Nat
    BY DEF Here
  <2>2. QED
    BY <2>1, PlaceFacts DEF SegmentWrites, WriteAt
<1>5. PICK m \in Nat : m = Len(ZeroWrite) + Len(w)
  BY <1>1, LenProperties
<1>6. /\ Len(Plan) = m + Len(phdr)
      /\ \A j \in 1..Len(phdr) : Plan[m + j] = SegmentWrites[j]
  <2>1. PICK z \in Seq(Calls), u \in Seq(Calls) : z = ZeroWrite /\ u = SegmentWrites
    BY <1>1
  <2>2. /\ Len(z \o (w \o u)) = (Len(z) + Len(w)) + Len(u)
        /\ \A j \in 1..Len(u) : (z \o (w \o u))[(Len(z) + Len(w)) + j] = u[j]
    BY LastPart
  <2>3. QED
    BY <1>3, <1>4, <1>5, <2>1, <2>2
<1>7. First = m
  BY <1>4, <1>6 DEF First
<1>8. ASSUME NEW k \in (m + 1)..Len(Plan) PROVE Plan[k].at # Here
  <2>1. k - m \in 1..Len(phdr) /\ m + (k - m) = k
    BY <1>4, <1>6
  <2>2. Plan[m + (k - m)] = SegmentWrites[k - m]
    BY <1>6, <2>1
  <2>3. QED
    BY <1>4, <2>1, <2>2
<1>9. QED
  BY <1>4, <1>6, <1>7, <1>8

(* The next call is the plan's, where the plan says.                       *)
LEMMA NextCall ==
  ASSUME IInv, WriteInv, pc = "write", todo # <<>>
  PROVE  /\ Done + 1 \in 1..Len(Plan) /\ Done \in Nat /\ Done + 1 \in 1..Len(Spans)
         /\ Head(todo) = Plan[Done + 1] /\ Head(todo) \in Calls
         /\ Spans[Done + 1] \in SpanType /\ Matches(Head(todo), Spans[Done + 1])
         /\ failed = {} \/ Done + 1 \in (First + 1)..Len(Plan)
              => Position = Spans[Done + 1].place
         /\ Tail(todo) \in Seq(Calls) /\ Len(Tail(todo)) = Len(todo) - 1
         /\ \A k \in 1..Len(Tail(todo)) : Tail(todo)[k] = todo[k + 1]
<1>1. /\ Follows(0, Plan, Spans) /\ Plan \in Seq(Calls) /\ Spans \in Seq(SpanType)
      /\ todo \in Seq(Calls)
  BY PlanFollows DEF IInv, TodoInv
<1>2. /\ Len(Plan) \in Nat /\ Len(Plan) = Len(Spans) /\ Len(todo) \in Nat /\ Len(todo) > 0
  <2>1. Len(Plan) \in Nat /\ Len(todo) \in Nat /\ Len(todo) # 0
    BY <1>1, EmptySeq, LenProperties
  <2>2. QED
    BY <1>1, <2>1 DEF Follows
<1>3. /\ Done \in 0..Len(Plan) /\ \A k \in 1..Len(todo) : todo[k] = Plan[Done + k]
      /\ failed = {} => pos = End(Spans, Done)
  BY DEF WriteInv
<1>4. Done + 1 \in 1..Len(Plan) /\ Done \in Nat /\ Done + 1 \in 1..Len(Spans)
  BY <1>2, <1>3 DEF Done
<1>5. /\ Head(todo) = todo[1] /\ Head(todo) \in Calls /\ Tail(todo) \in Seq(Calls)
      /\ Len(Tail(todo)) = Len(todo) - 1
      /\ \A k \in 1..Len(Tail(todo)) : Tail(todo)[k] = todo[k + 1]
  BY <1>1, <1>2, HeadTailProperties
<1>6. Head(todo) = Plan[Done + 1]
  <2>1. 1 \in 1..Len(todo)
    BY <1>2
  <2>2. QED
    BY <1>3, <1>5, <2>1
<1>7. Spans[Done + 1] \in SpanType
  BY <1>1, <1>4, ElementOfSeq
<1>8. Matches(Head(todo), Spans[Done + 1]) /\ Placed(0, Plan, Spans, Done + 1)
  BY <1>1, <1>4, <1>6 DEF Follows
<1>9. ASSUME failed = {} \/ Done + 1 \in (First + 1)..Len(Plan)
      PROVE  Position = Spans[Done + 1].place
  <2>0. failed = {} \/ Head(todo).at # Here
    BY <1>6, <1>9, SegmentsSeek DEF IInv
  <2>1. Spans[Done + 1].place # Here
    BY <1>7 DEF SpanType, Here
  <2>2. (Done + 1) - 1 = Done /\ (Done + 1 = 1 <=> Done = 0)
    BY <1>4
  <2> HIDE DEF Done
  <2>3. QED
    BY <1>3, <1>6, <1>8, <2>0, <2>1, <2>2 DEF Placed, Position, End
<1>10. QED
  BY <1>4, <1>5, <1>6, <1>7, <1>8, <1>9

(* A call that succeeds keeps what good calls have stored and adds to it.  *)
LEMMA WriteStepKeeps ==
  ASSUME IInv, WriteInv, WriteStep
  PROVE  WriteInv'
<1> DEFINE d == Done
           s == Spans[d + 1]
           cells == Head(todo).cells
<1>1. pc = "write" /\ todo # <<>> /\ UNCHANGED <<image, mem, length, phdr, pc, failed>>
  BY DEF WriteStep, bin
<1>2. Plan' = Plan /\ Spans' = Spans /\ \A k : Trusted(k)' = Trusted(k)
  BY <1>1, SamePlan DEF Trusted, First
<1>3. /\ d + 1 \in 1..Len(Plan) /\ d \in Nat /\ d + 1 \in 1..Len(Spans)
      /\ Head(todo) \in Calls /\ s \in SpanType /\ Matches(Head(todo), s)
      /\ failed = {} \/ d + 1 \in (First + 1)..Len(Plan) => Position = s.place
      /\ Len(Tail(todo)) = Len(todo) - 1
      /\ \A k \in 1..Len(Tail(todo)) : Tail(todo)[k] = todo[k + 1]
  BY <1>1, NextCall
<1>4. /\ file' = Stored(Position, cells) /\ todo' = Tail(todo)
      /\ pos' = Position + Cardinality(DOMAIN cells)
  BY DEF WriteStep
<1>5. Len(Plan) \in Nat /\ Len(todo) \in Nat /\ Len(Spans) \in Nat
  BY PlanFollows, LenProperties DEF IInv, TodoInv
<1>6. Done' = d + 1
  <2>1. Done' = Len(Plan) - Len(Tail(todo))
    BY <1>2, <1>4 DEF Done
  <2>2. d = Len(Plan) - Len(todo)
    BY DEF Done
  <2> HIDE DEF d
  <2>3. Len(Tail(todo)) = Len(todo) - 1
    BY <1>3
  <2>4. PICK a, b, c : a = Len(Plan) /\ b = Len(todo) /\ c = Len(Tail(todo))
    OBVIOUS
  <2>5. a \in Nat /\ b \in Nat /\ c = b - 1 /\ Done' = a - c /\ d = a - b
    BY <1>5, <2>1, <2>2, <2>3, <2>4
  <2>6. QED
    BY <2>5
<1>7. \A k \in 1..Len(todo) : todo[k] = Plan[d + k]
  BY <1>1 DEF WriteInv
<1>8. \A o \in 0..(length - 1), k \in 1..d :
        Good(Spans, k, o) /\ Trusted(k) => o \in DOMAIN file /\ file[o] = mem[o]
  BY <1>1 DEF WriteInv
<1> HIDE DEF d
<1>9. \A k \in 1..Len(todo') : todo'[k] = Plan[(d + 1) + k]
  <2>1. ASSUME NEW k \in 1..Len(todo') PROVE todo'[k] = Plan[(d + 1) + k]
    <3>1. k + 1 \in 1..Len(todo) /\ d + (k + 1) = (d + 1) + k
      BY <1>3, <1>4, <1>5
    <3>2. QED
      BY <1>3, <1>4, <1>7, <3>1
  <2>2. QED
    BY <2>1
<1>10. ASSUME failed = {} PROVE pos' = End(Spans, d + 1)
  <2>1. cells \in CellRuns
    BY <1>3 DEF Calls
  <2>2. Cardinality(DOMAIN cells) = s.size
    <3>1. DOMAIN cells = 0..(s.size - 1) /\ s.size \in Nat
      BY <1>3 DEF Matches, SpanType
    <3>2. PICK n \in Nat : n = Cardinality(DOMAIN cells) /\ DOMAIN cells = 0..(n - 1)
      BY <2>1, RunSize
    <3> HIDE DEF cells
    <3>3. 0..(n - 1) = 0..(s.size - 1)
      BY <3>1, <3>2
    <3>4. n = s.size
      <4> DEFINE m == s.size
      <4>1. m \in Nat
        BY <3>1
      <4> HIDE DEF m
      <4>2. ASSUME n < m PROVE FALSE
        <5>1. n \in 0..(m - 1) /\ n \notin 0..(n - 1)
          BY <4>1, <4>2
        <5>2. QED
          BY <3>3, <5>1 DEF m
      <4>3. ASSUME m < n PROVE FALSE
        <5>1. m \in 0..(n - 1) /\ m \notin 0..(m - 1)
          BY <4>1, <4>3
        <5>2. QED
          BY <3>3, <5>1 DEF m
      <4>4. n = m
        BY <4>1, <4>2, <4>3
      <4>5. QED
        BY <4>4 DEF m
    <3>5. QED
      BY <3>2, <3>4
  <2>3. d + 1 # 0
    BY <1>3
  <2>4. QED
    BY <1>3, <1>4, <1>10, <2>2, <2>3 DEF End
<1>11. ASSUME NEW o \in 0..(length - 1), NEW k \in 1..(d + 1), Good(Spans, k, o), Trusted(k)
       PROVE  o \in DOMAIN file' /\ file'[o] = mem[o]
  <2>0. failed = {} \/ d + 1 \in (First + 1)..Len(Plan)
    <3>1. First \in Nat /\ (failed = {} \/ k \in (First + 1)..Len(Plan))
      BY <1>11, SegmentsSeek DEF Trusted, IInv
    <3>2. QED
      BY <1>3, <1>5, <3>1
  <2>1. /\ s.place \in Nat /\ s.size \in Nat /\ Position = s.place /\ cells \in CellRuns
        /\ length \in Nat
    BY <1>3, <2>0 DEF SpanType, Calls, IInv, TypeOK
  <2>2. /\ DOMAIN cells = 0..(s.size - 1)
        /\ Exact(s) => \A i \in 0..(s.size - 1) : s.place + i < length => cells[i] = mem[s.place + i]
    BY <1>3 DEF Matches
  <2>3. PICK at \in Nat, n \in Nat : /\ at = s.place /\ n = Cardinality(DOMAIN cells)
                                     /\ DOMAIN cells = 0..(n - 1)
    BY <2>1, RunSize
  <2>4. /\ DOMAIN file \subseteq DOMAIN file'
        /\ \A p \in at..(at + n - 1) : p \in DOMAIN file' /\ file'[p] = cells[p - at]
        /\ \A p \in DOMAIN file' : p \notin at..(at + n - 1) =>
             file'[p] = IF p \in DOMAIN file THEN file[p] ELSE Zero
    <3>1. PICK c : c = cells
      OBVIOUS
    <3>2. c \in CellRuns /\ n = Cardinality(DOMAIN c)
      BY <2>1, <2>3, <3>1
    <3>3. /\ DOMAIN file \subseteq DOMAIN Stored(at, c)
          /\ \A p \in at..(at + n - 1) : p \in DOMAIN Stored(at, c) /\ Stored(at, c)[p] = c[p - at]
          /\ \A p \in DOMAIN Stored(at, c) : p \notin at..(at + n - 1) =>
               Stored(at, c)[p] = IF p \in DOMAIN file THEN file[p] ELSE Zero
      BY <3>2, StoredFacts
    <3>4. file' = Stored(at, c)
      BY <1>4, <2>1, <2>3, <3>1
    <3>5. QED
      BY <3>1, <3>3, <3>4
  <2>5. CASE o \in at..(at + n - 1)
    <3>1. o - at \in 0..(n - 1) /\ at + (o - at) = o /\ o - at \in DOMAIN cells
      BY <2>3, <2>5
    <3>2. Covers(s, o)
      <4>1. o - at \in 0..(s.size - 1)
        BY <2>2, <3>1
      <4> HIDE DEF s
      <4>2. o \in s.place..(s.place + s.size - 1)
        BY <2>1, <2>3, <4>1
      <4>3. QED
        BY <4>2 DEF Covers
    <3>3. Exact(s)
      <4>1. CASE k = d + 1
        BY <1>11, <4>1 DEF Good
      <4>2. CASE k \in 1..d
        <5>1. d + 1 \in (k + 1)..Len(Spans)
          BY <1>3, <1>5, <4>2
        <5>2. QED
          BY <1>11, <3>2, <5>1 DEF Good, Safe
      <4>3. QED
        BY <1>3, <4>1, <4>2
    <3>4. cells[o - at] = mem[o]
      <4>1. o - at \in 0..(s.size - 1) /\ at + (o - at) < length
        BY <2>1, <2>2, <3>1
      <4>2. QED
        BY <2>2, <2>3, <3>1, <3>3, <4>1
    <3>5. QED
      BY <2>4, <2>5, <3>4
  <2>6. CASE o \notin at..(at + n - 1)
    <3>1. k # d + 1
      <4>1. ASSUME k = d + 1 PROVE FALSE
        <5>1. Covers(s, o)
          BY <1>11, <4>1 DEF Good
        <5>2. o - at \in 0..(s.size - 1)
          BY <2>1, <2>3, <5>1 DEF Covers
        <5>3. o - at \in 0..(n - 1)
          BY <2>2, <2>3, <5>2
        <5>4. QED
          BY <2>3, <2>6, <5>3
      <4>2. QED
        BY <4>1
    <3>2. k \in 1..d
      BY <1>3, <3>1
    <3>3. o \in DOMAIN file /\ file[o] = mem[o]
      BY <1>8, <1>11, <3>2
    <3>4. QED
      BY <2>4, <2>6, <3>3
  <2>7. QED
    BY <2>5, <2>6
<1>12. d + 1 \in 0..Len(Plan)
  BY <1>3
<1>13. QED
  BY <1>1, <1>2, <1>6, <1>9, <1>10, <1>11, <1>12 DEF WriteInv

LEMMA WriteInvStep ==
  ASSUME IInv, WriteInv, [Next]_vars
  PROVE  WriteInv'
<1>1. CASE WriteBegin
  <2>1. /\ UNCHANGED <<image, mem, length, phdr>> /\ todo' = Plan /\ pos' = 0
    BY <1>1 DEF WriteBegin, bin, Plan
  <2>2. Plan' = Plan /\ Spans' = Spans /\ Len(Plan) \in Nat
    BY <2>1, SamePlan, PlanFollows, LenProperties DEF IInv
  <2>3. Done' = 0
    BY <2>1, <2>2 DEF Done
  <2>4. \A k \in 1..Len(todo') : todo'[k] = Plan'[0 + k]
    BY <2>1, <2>2
  <2>5. pos' = End(Spans', 0)
    BY <2>1 DEF End
  <2>6. QED
    BY <2>2, <2>3, <2>4, <2>5 DEF WriteInv
<1>2. CASE WriteStep
  BY <1>2, WriteStepKeeps
<1>3. CASE WriteStepFails
  <2>1. /\ pc = "write" /\ todo # <<>> /\ UNCHANGED <<image, mem, length, phdr>>
        /\ todo' = Tail(todo) /\ failed' = failed \cup {Len(todo)} /\ file' = file
    BY <1>3 DEF WriteStepFails, bin
  <2>2. Plan' = Plan /\ Spans' = Spans
    BY <2>1, SamePlan
  <2>3. /\ Done + 1 \in 1..Len(Plan) /\ Done \in Nat /\ Len(Tail(todo)) = Len(todo) - 1
        /\ \A k \in 1..Len(Tail(todo)) : Tail(todo)[k] = todo[k + 1]
        /\ \A k \in 1..Len(todo) : todo[k] = Plan[Done + k]
    BY <2>1, NextCall DEF WriteInv
  <2>4. Len(Plan) \in Nat /\ Len(todo) \in Nat
    BY PlanFollows, LenProperties DEF IInv, TodoInv
  <2>5. Done' = Done + 1
    BY <2>1, <2>2, <2>3, <2>4 DEF Done
  <2>6. PICK d \in Nat : d = Done
    BY <2>3
  <2>7. ASSUME NEW k \in 1..Len(todo') PROVE todo'[k] = Plan[(d + 1) + k]
    <3>1. k + 1 \in 1..Len(todo) /\ d + (k + 1) = (d + 1) + k
      BY <2>1, <2>3, <2>4, <2>6
    <3>2. QED
      BY <2>1, <2>3, <2>6, <3>1
  <2>8. Done' \in 0..Len(Plan')
    BY <2>2, <2>3, <2>5
  <2>9. \A k \in 1..Len(todo') : todo'[k] = Plan'[Done' + k]
    BY <2>2, <2>5, <2>6, <2>7
  <2>10. failed' # {}
    BY <2>1
  <2>11. ASSUME NEW o \in 0..(length' - 1), NEW k \in 1..Done', Good(Spans', k, o), Trusted(k)'
         PROVE  o \in DOMAIN file' /\ file'[o] = mem'[o]
    <3>1. k \in (First + 1)..Len(Plan) /\ Len(todo) \notin 1..Len(phdr)
      BY <2>1, <2>2, <2>10, <2>11 DEF Trusted, First
    <3>2. failed \cap 1..Len(phdr) = {}
      BY <2>1, <2>10, <2>11 DEF Trusted
    <3>3. Len(Plan) = First + Len(phdr) /\ First \in Nat /\ Len(phdr) \in Nat
      BY SegmentsSeek DEF IInv
    <3>4. d = Len(Plan) - Len(todo) /\ Len(todo) # 0
      BY <2>1, <2>4, <2>6, EmptySeq DEF Done, IInv, TodoInv
    <3>5. d + 1 <= First
      BY <2>4, <3>1, <3>3, <3>4
    <3>6. FALSE
      BY <2>5, <2>6, <3>1, <3>3, <3>5
    <3>7. QED
      BY <3>6
  <2>12. QED
    BY <2>8, <2>9, <2>10, <2>11 DEF WriteInv
<1>4. CASE UNCHANGED vars
  <2>1. UNCHANGED <<image, mem, length, phdr, pc, todo, pos, file, failed>>
    BY <1>4 DEF vars
  <2>2. Plan' = Plan /\ Spans' = Spans /\ \A k : Trusted(k)' = Trusted(k)
    BY <2>1, SamePlan DEF Trusted, First
  <2>3. QED
    BY <2>1, <2>2 DEF WriteInv, Done
<1>5. CASE Inject \/ OpenFails \/ BufferFails \/ WriteEnd \/ InjectionStep
  <2>1. pc' # "write"
    BY <1>5 DEF Inject, OpenFails, BufferFails, BeginWrite, WriteEnd, InjectionStep, AppendNoMemory,
                AppendCode, FindNote, NoNote, GetVaddr, NoLoad, WriteEntry, Return
  <2>2. QED
    BY <2>1 DEF WriteInv
<1>6. QED
  BY <1>1, <1>2, <1>3, <1>4, <1>5 DEF Next, WritingStep, Finished

----------------------------------------------------------------------------
(* What is good in the end.                                                *)

(* The cells of the code of an injection.                                  *)
CodeOf(t) == t.code_file_offset..(t.code_file_offset + t.code_len - 1)

(* A segment is written to where it is in the image, unless its entry was  *)
(* overwritten by an injection: then it is written over that one's code.   *)
LEMMA SegmentWritten ==
  ASSUME IInv, NEW j \in 1..Len(phdr), ~Exact(SegmentSpans[j])
  PROVE  /\ j \in 1..N
         /\ \E i \in 1..Count : \A o : Covers(SegmentSpans[j], o) => o \in CodeOf(injected[i])
<1> USE DEF IInv
<1>1. PICK e, w : e = Ent(phdr[j]) /\ w = phdr[j]
  OBVIOUS
<1>2. SegmentSpans[j] = Span(e.p_offset, w.mem_offset, e.p_filesz)
  BY <1>1 DEF SegmentSpans
<1>3. e.p_offset # w.mem_offset
  BY <1>2 DEF Exact, Span
<1>4. w.p_offset \in Slots /\ e = mem[w.p_offset] /\ (j \in 1..N \/ j \in (N + 1)..Len(phdr))
  BY <1>1, TypesOnly, WrapperSlots DEF Ent
<1>5. ASSUME NEW i \in 1..Count, w.p_offset = injected[i].phdr_file_offset
      PROVE  e.p_offset = injected[i].code_file_offset /\ e.p_filesz = injected[i].code_len
  <2>1. Stands(injected[i])
    BY DEF InjectedInv
  <2>2. QED
    BY <1>4, <1>5, <2>1 DEF Stands, Entry
<1>6. j \notin (N + 1)..Len(phdr)
  <2> SUFFICES ASSUME j \in (N + 1)..Len(phdr) PROVE FALSE
    OBVIOUS
  <2>1. PICK i \in 1..Count : Lists(w, injected[i])
    BY <1>1 DEF WrapperInv
  <2>2. QED
    BY <1>3, <1>5, <2>1 DEF Lists
<1>7. j \in 1..N /\ w.p_offset = image.phoff + j - 1 /\ w.mem_offset = image.entries[j].p_offset
  BY <1>1, <1>4, <1>6 DEF WrapperInv
<1>8. w.p_offset \in Overwritten
  <2>1. PICK s : s = w.p_offset
    OBVIOUS
  <2>2. s - image.phoff + 1 = j
    BY <1>7, <2>1, PlaceFacts
  <2>3. ParsedCell(s) = image.entries[j]
    BY <1>4, <2>1, <2>2, SlotOf DEF TypeOK
  <2>4. s \in 0..(image.length - 1)
    BY <1>4, <2>1, ImageFacts DEF TypeOK
  <2>5. mem[s] # ParsedCell(s)
    BY <1>3, <1>4, <1>7, <2>1, <2>3
  <2>6. QED
    BY <2>1, <2>4, <2>5 DEF ParsedInv
<1>9. PICK i \in 1..Count : w.p_offset = injected[i].phdr_file_offset
  BY <1>8 DEF Overwritten, Count
<1>10. \A o : Covers(SegmentSpans[j], o) => o \in CodeOf(injected[i])
  BY <1>2, <1>5, <1>9 DEF Covers, Span, CodeOf
<1>11. QED
  BY <1>7, <1>10

(* The code of an injection is good in the end: the wrapper pushed for it  *)
(* is behind those of the parser, and no wrapper from there on spoils any. *)
LEMMA CodeGood ==
  ASSUME IInv, ~unlisted, NEW i \in 1..Count, NEW o \in CodeOf(injected[i])
  PROVE  Hit(SegmentSpans, o)
<1> USE DEF IInv
<1>1. PICK j \in (N + 1)..Len(phdr) : Lists(phdr[j], injected[i])
  BY DEF WrapperInv
<1>2. /\ N \in Nat /\ Len(phdr) \in Nat /\ j \in 1..Len(phdr) /\ j \in Nat /\ j > N
      /\ Len(SegmentSpans) = Len(phdr)
  <2>1. N \in Nat /\ Len(phdr) \in Nat
    BY PlaceFacts
  <2>2. QED
    BY <2>1 DEF SegmentSpans
<1>3. \A m \in j..Len(phdr) : Exact(SegmentSpans[m])
  <2>1. ASSUME NEW m \in j..Len(phdr), ~Exact(SegmentSpans[m]) PROVE FALSE
    <3>1. m \in 1..Len(phdr) /\ m \notin 1..N
      BY <1>2
    <3>2. QED
      BY <2>1, <3>1, SegmentWritten
  <2>2. QED
    BY <2>1
<1>4. Covers(SegmentSpans[j], o)
  <2>1. Stands(injected[i])
    BY DEF InjectedInv
  <2>2. PICK e : e = Ent(phdr[j])
    OBVIOUS
  <2>3. e.p_offset = injected[i].code_file_offset /\ e.p_filesz = injected[i].code_len
    BY <1>1, <2>1, <2>2 DEF Lists, Stands, Ent, Entry
  <2>4. SegmentSpans[j] = Span(e.p_offset, phdr[j].mem_offset, e.p_filesz)
    BY <1>2, <2>2 DEF SegmentSpans
  <2>5. QED
    BY <2>3, <2>4 DEF Covers, Span, CodeOf
<1>5. Good(SegmentSpans, j, o)
  <2>1. \A m \in (j + 1)..Len(SegmentSpans) : m \in j..Len(phdr)
    BY <1>2
  <2>2. j \in j..Len(phdr)
    BY <1>2
  <2>3. QED
    BY <1>3, <1>4, <2>1, <2>2 DEF Good, Safe
<1>6. QED
  BY <1>2, <1>5 DEF Hit

(* Outside the injected code every write of a segment is exact.            *)
LEMMA SegmentsSafe ==
  ASSUME IInv, NEW o, \A i \in 1..Count : o \notin CodeOf(injected[i])
  PROVE  \A j \in 1..Len(phdr) : Covers(SegmentSpans[j], o) => Exact(SegmentSpans[j])
BY SegmentWritten

(* A cell that is hit stays so if all that is written behind it is exact.  *)
LEMMA TableHit ==
  ASSUME IInv, NEW k \in 1..N
  PROVE  Hit(PhdrTableSpans, image.phoff + k - 1)
<1> USE DEF IInv
<1>1. /\ N \in Nat /\ Len(phdr) \in Nat /\ image.phoff \in Nat /\ Len(phdr) >= N
      /\ k \in 1..Len(phdr) /\ phdr[k].p_offset = image.phoff + k - 1
  BY PlaceFacts DEF WrapperInv
<1>2. Len(PhdrTableSpans) = Len(phdr)
  BY <1>1 DEF PhdrTableSpans
<1>3. Covers(PhdrTableSpans[k], image.phoff + k - 1) /\ Exact(PhdrTableSpans[k])
  <2>1. /\ PhdrTableSpans[k].place = image.phoff + k - 1 /\ PhdrTableSpans[k].size = 1
        /\ PhdrTableSpans[k].source = image.phoff + k - 1
    BY <1>1 DEF PhdrTableSpans, Span
  <2>2. QED
    BY <1>1, <2>1 DEF Covers, Exact
<1>4. ASSUME NEW m \in (k + 1)..Len(phdr) PROVE ~Covers(PhdrTableSpans[m], image.phoff + k - 1)
  <2>1. m \in 1..Len(phdr) /\ k < m /\ k \in Nat /\ m \in Nat
    BY <1>1
  <2>2. PhdrTableSpans[m].place = image.phoff + m - 1 /\ PhdrTableSpans[m].size = 1
    BY <2>1 DEF PhdrTableSpans, Span
  <2>3. QED
    BY <1>1, <2>1, <2>2 DEF Covers
<1>5. QED
  BY <1>1, <1>2, <1>3, <1>4 DEF Hit, Good, Safe

LEMMA ExactHit ==
  ASSUME NEW s \in Seq(SpanType), NEW k \in 1..Len(s), NEW o, Covers(s[k], o),
         \A j \in 1..Len(s) : Covers(s[j], o) => Exact(s[j])
  PROVE  Hit(s, o)
<1>1. \A m \in (k + 1)..Len(s) : m \in 1..Len(s)
  BY LenProperties
<1>2. QED
  BY <1>1 DEF Hit, Good, Safe

LEMMA ExactSafe ==
  ASSUME NEW s, \A j \in 1..Len(s) : Exact(s[j])
  PROVE  \A o : Safe(s, 0, o)
BY DEF Safe

(* A byte of a segment is written by a call for a segment, and by no later *)
(* one from elsewhere.                                                     *)
LEMMA SegmentHit ==
  ASSUME IInv, ~unlisted, NEW o \in SegmentCells
  PROVE  Hit(SegmentSpans, o)
<1> USE DEF IInv
<1>1. PICK j \in 1..N : o \in Table[j].p_offset..(Table[j].p_offset + Table[j].p_filesz - 1)
  <2>1. PICK e \in ToSet(Table) : o \in e.p_offset..(e.p_offset + e.p_filesz - 1)
    BY DEF SegmentCells
  <2>2. QED
    BY <2>1 DEF ToSet, Table, N
<1>2. CASE \E i \in 1..Count : o \in CodeOf(injected[i])
  BY <1>2, CodeGood
<1>3. CASE \A i \in 1..Count : o \notin CodeOf(injected[i])
  <2>1. PICK e : e = Table[j]
    OBVIOUS
  <2>2. e = Ent(phdr[j]) /\ j \in 1..Len(phdr)
    BY <2>1, SlotOf, TypesOnly, WrapperSlots DEF Ent, TypeOK
  <2>3. SegmentSpans[j] = Span(e.p_offset, phdr[j].mem_offset, e.p_filesz)
    BY <2>2 DEF SegmentSpans
  <2>4. Covers(SegmentSpans[j], o)
    BY <1>1, <2>1, <2>3 DEF Covers, Span
  <2>5. Len(SegmentSpans) = Len(phdr) /\ SegmentSpans \in Seq(SpanType)
    BY PlaceFacts, SpansType DEF SegmentSpans
  <2>6. \A k \in 1..Len(SegmentSpans) : Covers(SegmentSpans[k], o) => Exact(SegmentSpans[k])
    BY <1>3, <2>5, SegmentsSafe
  <2>7. QED
    BY <2>2, <2>4, <2>5, <2>6, ExactHit
<1>4. QED
  BY <1>2, <1>3

(* These calls are the last.                                               *)
LEMMA SegmentHitLast ==
  ASSUME IInv, NEW o, Hit(SegmentSpans, o)
  PROVE  \E k \in (First + 1)..Len(Plan) : k \in 1..Len(Spans) /\ Good(Spans, k, o)
<1> USE DEF IInv
<1> DEFINE s5 == HeaderSpan \o PhdrTableSpans \o ShdrTableSpans \o SectionSpans
<1>1. PICK j \in 1..Len(SegmentSpans) : Good(SegmentSpans, j, o)
  BY DEF Hit
<1>2. /\ s5 \in Seq(SpanType) /\ ZeroSpan \in Seq(SpanType) /\ SegmentSpans \in Seq(SpanType)
      /\ WritesSpans \in Seq(SpanType)
  BY SpansType, Concatenated DEF WritesSpans
<1>3. WritesSpans = s5 \o SegmentSpans /\ Spans = ZeroSpan \o WritesSpans
  BY DEF WritesSpans, Spans
<1> HIDE DEF s5
<1>4. Len(s5) + j \in 1..Len(WritesSpans) /\ Good(WritesSpans, Len(s5) + j, o)
  BY <1>1, <1>2, <1>3, GoodLast
<1>5. /\ Len(ZeroSpan) + (Len(s5) + j) \in 1..Len(Spans)
      /\ Good(Spans, Len(ZeroSpan) + (Len(s5) + j), o)
  BY <1>2, <1>3, <1>4, GoodLast
<1>6. Len(Spans) = Len(ZeroSpan) + (Len(s5) + Len(SegmentSpans))
  BY <1>2, <1>3, Concatenated
<1>7. Len(ZeroSpan) \in Nat /\ Len(s5) \in Nat
  BY <1>2, LenProperties
<1>8. /\ Len(SegmentSpans) = Len(phdr) /\ Len(Plan) = Len(Spans) /\ First \in Nat
      /\ Len(phdr) \in Nat /\ Len(Plan) = First + Len(phdr)
  BY SegmentsSeek, PlaceFacts, PlanFollows DEF SegmentSpans, Follows
<1>9. Len(ZeroSpan) + (Len(s5) + j) \in (First + 1)..Len(Plan)
  BY <1>6, <1>7, <1>8
<1>10. QED
  BY <1>5, <1>9

LEMMA CoveredHit ==
  ASSUME IInv, ~unlisted, HeadersKept, NEW o \in Covered
  PROVE  Hit(Spans, o)
<1> USE DEF IInv
<1> DEFINE s3 == HeaderSpan \o PhdrTableSpans
           s4 == s3 \o ShdrTableSpans
           s5 == s4 \o SectionSpans
<1>1. /\ HeaderSpan \in Seq(SpanType) /\ ZeroSpan \in Seq(SpanType)
      /\ PhdrTableSpans \in Seq(SpanType) /\ ShdrTableSpans \in Seq(SpanType)
      /\ SectionSpans \in Seq(SpanType) /\ SegmentSpans \in Seq(SpanType)
  BY SpansType
<1>2. s3 \in Seq(SpanType)
  BY <1>1, Concatenated
<1>3. Hit(PhdrTableSpans, o) => Hit(s3, o)
  BY <1>1, HitLast
<1> HIDE DEF s3
<1>4. s4 \in Seq(SpanType)
  BY <1>1, <1>2, Concatenated
<1>5. /\ Hit(ShdrTableSpans, o) => Hit(s4, o)
      /\ Hit(s3, o) /\ Safe(ShdrTableSpans, 0, o) => Hit(s4, o)
  BY <1>1, <1>2, HitLast, HitFirst
<1> HIDE DEF s4
<1>6. s5 \in Seq(SpanType)
  BY <1>1, <1>4, Concatenated
<1>7. /\ Hit(SectionSpans, o) => Hit(s5, o)
      /\ Hit(s4, o) /\ Safe(SectionSpans, 0, o) => Hit(s5, o)
  BY <1>1, <1>4, HitLast, HitFirst
<1> HIDE DEF s5
<1>8. /\ Hit(SegmentSpans, o) => Hit(Spans, o)
      /\ Hit(s5, o) /\ Safe(SegmentSpans, 0, o) => Hit(Spans, o)
  <2>1. WritesSpans = s5 \o SegmentSpans /\ Spans = ZeroSpan \o WritesSpans
    BY DEF WritesSpans, Spans, s3, s4, s5
  <2>2. WritesSpans \in Seq(SpanType)
    BY <1>1, <1>6, <2>1, Concatenated
  <2>3. Hit(WritesSpans, o) => Hit(Spans, o)
    BY <1>1, <2>1, <2>2, HitLast
  <2>4. Hit(SegmentSpans, o) => Hit(WritesSpans, o)
    BY <1>1, <1>6, <2>1, HitLast
  <2>5. Hit(s5, o) /\ Safe(SegmentSpans, 0, o) => Hit(WritesSpans, o)
    BY <1>1, <1>6, <2>1, HitFirst
  <2>6. QED
    BY <2>3, <2>4, <2>5
<1>9. /\ Len(ShdrTableSpans) = Len(image.shdr) /\ Len(SectionSpans) = Len(image.shdr)
      /\ Len(SegmentSpans) = Len(phdr) /\ Len(phdr) \in Nat /\ Len(image.shdr) \in Nat
  BY PlaceFacts DEF ShdrTableSpans, SectionSpans, SegmentSpans
<1>10. /\ \A j \in 1..Len(ShdrTableSpans) : Exact(ShdrTableSpans[j])
       /\ \A j \in 1..Len(SectionSpans) : Exact(SectionSpans[j])
  BY <1>9 DEF ShdrTableSpans, SectionSpans, Exact, Span, HeadersKept
<1>11. Safe(ShdrTableSpans, 0, o) /\ Safe(SectionSpans, 0, o)
  BY <1>10, ExactSafe
<1>12. CASE \E i \in 1..Count : o \in CodeOf(injected[i])
  BY <1>8, <1>12, CodeGood
<1>13. CASE \A i \in 1..Count : o \notin CodeOf(injected[i])
  <2>1. \A j \in 1..Len(SegmentSpans) : Covers(SegmentSpans[j], o) => Exact(SegmentSpans[j])
    BY <1>9, <1>13, SegmentsSafe
  <2>2. Safe(SegmentSpans, 0, o)
    BY <2>1 DEF Safe
  <2>3. ASSUME NEW j \in 1..Len(image.entries), o = image.phoff + j - 1 PROVE Hit(Spans, o)
    <3>1. Hit(PhdrTableSpans, o)
      BY <2>3, TableHit DEF N
    <3>2. QED
      BY <1>3, <1>5, <1>7, <1>8, <1>11, <2>2, <3>1
  <2>4. ASSUME NEW j \in 1..Len(image.shdr), o = image.shoff + j - 1 PROVE Hit(Spans, o)
    <3>1. Covers(ShdrTableSpans[j], o)
      BY <2>4, PlaceFacts DEF ShdrTableSpans, Covers, Span
    <3>2. Hit(ShdrTableSpans, o)
      BY <1>1, <1>9, <1>10, <3>1, ExactHit
    <3>3. QED
      BY <1>5, <1>7, <1>8, <1>11, <2>2, <3>2
  <2>5. ASSUME NEW s \in ToSet(image.shdr), o \in s.sh_offset..(s.sh_offset + s.sh_size - 1)
        PROVE  Hit(Spans, o)
    <3>1. PICK j \in 1..Len(image.shdr) : s = image.shdr[j]
      <4>1. DOMAIN image.shdr = 1..Len(image.shdr)
        BY ImageFacts, LenProperties DEF TypeOK
      <4>2. QED
        BY <4>1 DEF ToSet
    <3>2. Covers(SectionSpans[j], o)
      BY <2>5, <3>1 DEF SectionSpans, Covers, Span, HeadersKept
    <3>3. Hit(SectionSpans, o)
      BY <1>1, <1>9, <1>10, <3>2, ExactHit
    <3>4. QED
      BY <1>7, <1>8, <2>2, <3>3
  <2>6. \/ o \in PhdrCells \/ o \in image.shoff..(image.shoff + Len(image.shdr) - 1)
        \/ \E s \in ToSet(image.shdr) : o \in s.sh_offset..(s.sh_offset + s.sh_size - 1)
        \/ o \in SegmentCells
    BY DEF Covered
  <2>7. CASE o \in PhdrCells
    <3>1. PICK a \in Nat, n \in Nat : a = image.phoff /\ n = Len(image.entries)
      BY PlaceFacts DEF N
    <3>2. o \in a..(a + n - 1)
      BY <2>7, <3>1 DEF PhdrCells
    <3>3. o - a + 1 \in 1..n /\ o = a + (o - a + 1) - 1
      BY <3>2
    <3>4. QED
      BY <2>3, <3>1, <3>3
  <2>8. CASE o \in image.shoff..(image.shoff + Len(image.shdr) - 1)
    <3>1. PICK a \in Nat, n \in Nat : a = image.shoff /\ n = Len(image.shdr)
      BY PlaceFacts
    <3>2. o \in a..(a + n - 1)
      BY <2>8, <3>1
    <3>3. o - a + 1 \in 1..n /\ o = a + (o - a + 1) - 1
      BY <3>2
    <3>4. QED
      BY <2>4, <3>1, <3>3
  <2>9. QED
    BY <1>8, <2>5, <2>6, <2>7, <2>8, SegmentHit
<1>14. QED
  BY <1>12, <1>13

----------------------------------------------------------------------------
(* In the file that elftool_write leaves the segments are those of the     *)
(* image, whatever went before the calls for them: failed calls, stale     *)
(* wrappers, sections no longer where their headers say, tables that       *)
(* overlap.  The tables and the sections are those of the image too when   *)
(* no call has failed and the section headers are as they were parsed.     *)
THEOREM FileIsImage == Spec => []WrittenIsImage
<1>1. Init => WriteInv
  BY DEF Init, WriteInv
<1>2. IInv /\ WriteInv /\ [Next]_vars => WriteInv'
  BY WriteInvStep
<1>3. IInv /\ WriteInv => WrittenIsImage
  <2> SUFFICES ASSUME IInv, WriteInv, Written, ~unlisted PROVE WrittenIsImage
    BY DEF WrittenIsImage
  <2>1. Len(Spans) = Len(Plan) /\ Len(Plan) \in Nat
    BY PlanFollows, LenProperties DEF Follows, IInv
  <2>2. Done = Len(Spans)
    BY <2>1 DEF Done, Written
  <2>3. ASSUME NEW o, o < length, NEW k \in 1..Len(Spans), Good(Spans, k, o), Trusted(k)
        PROVE  file[o] = mem[o]
    <3>1. Covers(Spans[k], o) /\ Spans[k] \in SpanType
      BY <2>3, PlanFollows, ElementOfSeq DEF Good, IInv
    <3>2. o \in 0..(length - 1)
      BY <2>3, <3>1 DEF Covers, SpanType, IInv, TypeOK
    <3>3. QED
      BY <2>2, <2>3, <3>2 DEF WriteInv, Written
  <2>4. ASSUME failed \cap 1..Len(phdr) = {}, NEW o \in SegmentCells, o < length
        PROVE  file[o] = mem[o]
    <3>1. PICK k \in (First + 1)..Len(Plan) : k \in 1..Len(Spans) /\ Good(Spans, k, o)
      BY SegmentHit, SegmentHitLast
    <3>2. QED
      BY <2>3, <2>4, <3>1 DEF Trusted
  <2>5. ASSUME failed = {}, HeadersKept, NEW o \in Covered, o < length
        PROVE  file[o] = mem[o]
    <3>1. PICK k \in 1..Len(Spans) : Good(Spans, k, o)
      BY <2>5, CoveredHit DEF Hit
    <3>2. QED
      BY <2>3, <2>5, <3>1 DEF Trusted
  <2>6. QED
    BY <2>4, <2>5 DEF WrittenIsImage, InFile
<1>4. QED
  BY <1>1, <1>2, <1>3, Invariant, PTL DEF Spec

==============================================================================
