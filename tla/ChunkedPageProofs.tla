------------------------- MODULE ChunkedPageProofs --------------------------
(***************************************************************************)
(* What the client gets of a page with server side includes, for every     *)
(* page, every size of the cache and whatever room each call is given.     *)
(***************************************************************************)
EXTENDS ChunkedPage, SequenceTheorems, WellFoundedInduction, TLAPS

-----------------------------------------------------------------------------
(***************************************************************************)
(* The inductive invariant.  Where says which characters of the page are   *)
(* in the cache, and what the loop knows about them; Framing is about      *)
(* chunks, Tag about the tag that is being read, and Produced compares     *)
(* with the reference.                                                     *)
(***************************************************************************)

(* A call of WEB_ReadContent is under way. *)
Calling == pc \in {"fill", "scan", "frame"}

(* How much of the page was consumed. *)
At == index - Len(cache)

(* The mark that is searched. *)
Mark == IF ssiState = 2 THEN TagEnd ELSE TagStart

(* What is in the cache cannot be parsed yet. *)
Starved == cache = <<>> \/ (Len(cache) = 1 /\ cache[1] = Mark[1])

Where ==
  /\ Len(cache) <= index
  /\ \A k \in 1..Len(cache) : cache[k] = page[At + k]
  /\ Calling => page # <<>>
  /\ pc \in {"fill", "scan"} => stage # "END"
  /\ pc = "fill" /\ AllRead => Starved
  /\ pc = "end" => stage = "END"
  /\ pc \in {"frame", "idle"} /\ stage = "more" => ~(AllRead /\ cache = <<>>)
  /\ stage = "END" => AllRead /\ cache = <<>>

(* The longest chunk. *)
Cap == IF room > 1 THEN room ELSE 1

Framing ==
  /\ stage = "first" =>
       /\ pc \in {"idle", "fill", "scan"} /\ wire = <<>> /\ ssiState = 1
       /\ pc = "idle" => index = 0 /\ cache = <<>> /\ out = <<>>
       /\ pc # "idle" => bare
  /\ pc \in {"fill", "scan"} => Len(out) < Cap /\ (bare => stage = "first" /\ Len(out) = At)
  /\ pc = "frame" =>
       /\ Len(out) <= Cap \/ stage = "END"
       /\ bare => wire = <<>> /\ (out = <<>> => FirstIsEmpty)
  /\ (pc = "idle" /\ stage # "first") \/ (Calling /\ ~bare) => wire # <<>> \/ FirstIsEmpty
  /\ \A i \in 1..Len(wire) : wire[i].last => stage = "END" /\ pc \in {"idle", "end"}
  /\ stage = "END" /\ pc \in {"idle", "end"} /\ out # <<>> => wire # <<>> /\ wire[Len(wire)].last

(* Where the tag began that is being read. *)
Start == At - 1 - Len(tagName)

Tag ==
  /\ ssiState = 1 => tagName = <<>>
  /\ ssiState = 2 /\ stage # "END" =>
       /\ Start >= 1 /\ TagStartsAt(page, Start)
       /\ \A k \in 1..Len(tagName) : tagName[k] = page[Start + 1 + k]
       /\ \A j \in (Start + 2)..At : ~TagEndsAt(page, j)
       /\ At = Len(page) /\ tagName # <<>> => page[Len(page)] # TagEnd[1]
       /\ pc \in {"frame", "idle"} /\ stage = "more" /\ AllRead => LateTag \/ Starved

(* All that was produced. *)
Output == IF Calling THEN Body(wire) \o out ELSE Body(wire)

(* The page is produced up to this character. *)
Pending == IF ssiState = 1 THEN At + 1 ELSE Start

Produced ==
  ~LateTag /\ ~cut /\ pc # "undefined" =>
    IF stage = "END" THEN Output = Substituted(page)
    ELSE Output \o SubstitutedFrom(page)[Pending] = Substituted(page)

PageInv == TypeOK /\ Where /\ Framing /\ Tag /\ Produced

-----------------------------------------------------------------------------
(***************************************************************************)
(* The recursive definitions.  Induction is on the least number for which  *)
(* a statement fails.                                                      *)
(***************************************************************************)

(* A nonempty set of natural numbers has a least element, and Min is it. *)
LEMMA MinIsLeast ==
  ASSUME NEW S \in SUBSET Nat, S # {}
  PROVE  Min(S) \in S /\ \A y \in S : Min(S) <= y
<1>1. PICK x \in S : \A y \in S : ~ (<<y, x>> \in OpToRel(<, Nat))
  BY NatLessThanWellFounded, WFMin, Zenon
<1>2. ASSUME NEW y \in S PROVE x <= y
  <2>1. x \in Nat /\ y \in Nat
    OBVIOUS
  <2>2. ~ (y < x)
    BY <1>1, <2>1 DEF OpToRel
  <2>3. QED
    BY <2>1, <2>2
<1>3. QED
  BY <1>2 DEF Min

(* A set with 0 that is closed under successors up to n has all up to n. *)
LEMMA UpTo ==
  ASSUME NEW n \in Nat, NEW S, 0 \in S,
         \A k \in 0..n : k \in S /\ k < n => k + 1 \in S
  PROVE  \A k \in 0..n : k \in S
<1> DEFINE T == {k \in 0..n : k \notin S}
<1>1. SUFFICES ASSUME T # {} PROVE FALSE
  OBVIOUS
<1>2. T \in SUBSET Nat
  OBVIOUS
<1>3. Min(T) \in T /\ \A y \in T : Min(T) <= y
  BY <1>1, <1>2, MinIsLeast
<1>4. PICK m \in T : \A y \in T : m <= y
  BY <1>3
<1>5. m \in 0..n /\ m \notin S /\ m # 0
  BY <1>4
<1>6. m - 1 \in 0..n /\ m - 1 \in S /\ (m - 1) + 1 = m
  <2>1. m - 1 \in 0..n /\ ~(m <= m - 1) /\ (m - 1) + 1 = m
    BY <1>5
  <2>2. QED
    BY <1>4, <2>1
<1>7. m - 1 < n
  BY <1>5
<1>8. QED
  BY <1>5, <1>6, <1>7

(* One step of SubstitutedFrom. *)
SubStep(p, f, i) ==
  IF i > Len(p) THEN <<>>
  ELSE IF ~TagStartsAt(p, i) THEN <<p[i]>> \o f[i + 1]
  ELSE IF EndsOf(p, i) = {} THEN Unclosed(p, i)
  ELSE Value(SubSeq(p, i + 2, Min(EndsOf(p, i)) - 1)) \o f[Min(EndsOf(p, i)) + 2]

(* One step of BodyUpTo. *)
BodyStep(w, f, n) == IF n = 0 THEN <<>> ELSE f[n - 1] \o w[n].data

(* A recursive function is the one chosen that satisfies its equation. *)
LEMMA SubIsChosen ==
  ASSUME NEW p
  PROVE  SubstitutedFrom(p) = CHOOSE f : f = [i \in 1..(Len(p) + 1) |-> SubStep(p, f, i)]
BY DEF SubstitutedFrom, SubStep

(* The same for the chunks. *)
LEMMA BodyIsChosen ==
  ASSUME NEW w
  PROVE  BodyUpTo(w) = CHOOSE f : f = [n \in 0..Len(w) |-> BodyStep(w, f, n)]
BY DEF BodyUpTo, BodyStep

(* What a chunk on the wire is. *)
Chunks == [crlf : BOOLEAN, data : Seq(Text), last : BOOLEAN, room : Int]

(* The chunks of a sequence have data. *)
LEMMA DataOfChunk ==
  ASSUME NEW w \in Seq(Chunks)
  PROVE  Len(w) \in Nat /\ \A n \in 1..Len(w) : w[n].data \in Seq(Text)
<1>1. Len(w) \in Nat
  BY LenProperties
<1>2. ASSUME NEW n \in 1..Len(w) PROVE w[n].data \in Seq(Text)
  <2>1. w[n] \in Chunks
    BY ElementOfSeq
  <2>2. QED
    BY <2>1 DEF Chunks
<1>3. QED
  BY <1>1, <1>2

(* BodyUpTo satisfies its equation. *)
LEMMA BodyEquation ==
  ASSUME NEW w \in Seq(Chunks)
  PROVE  BodyUpTo(w) = [n \in 0..Len(w) |-> BodyStep(w, BodyUpTo(w), n)]
<1> DEFINE OK(k, f) == f \in [0..k -> Seq(Text)] /\ \A n \in 0..k : f[n] = BodyStep(w, f, n)
           S == {k \in 0..Len(w) : \E f : OK(k, f)}
<1>1. Len(w) \in Nat /\ \A n \in 1..Len(w) : w[n].data \in Seq(Text)
  BY DataOfChunk
<1>2. 0 \in S
  <2>1. OK(0, [n \in 0..0 |-> <<>>])
    BY DEF BodyStep
  <2> HIDE DEF OK
  <2>2. QED
    BY <1>1, <2>1
<1>3. ASSUME NEW k \in 0..Len(w), k \in S, k < Len(w) PROVE k + 1 \in S
  <2>1. PICK f : OK(k, f)
    BY <1>3
  <2> DEFINE g == [n \in 0..(k + 1) |-> IF n = k + 1 THEN f[k] \o w[k + 1].data ELSE f[n]]
  <2>2. k \in Nat /\ k + 1 \in 1..Len(w) /\ w[k + 1].data \in Seq(Text)
    BY <1>1, <1>3
  <2>3. f[k] \in Seq(Text) /\ f[k] \o w[k + 1].data \in Seq(Text)
    BY <2>1, <2>2, ConcatProperties
  <2>4. g \in [0..(k + 1) -> Seq(Text)]
    BY <2>1, <2>2, <2>3
  <2>5. ASSUME NEW n \in 0..(k + 1) PROVE g[n] = BodyStep(w, g, n)
    <3>1. CASE n = k + 1
      BY <2>2, <3>1 DEF BodyStep
    <3>2. CASE n # k + 1
      <4>1. n \in 0..k /\ g[n] = f[n] /\ f[n] = BodyStep(w, f, n)
        BY <2>1, <2>2, <3>2
      <4>2. n # 0 => n - 1 \in 0..(k + 1) /\ n - 1 # k + 1
        BY <2>2, <4>1
      <4>3. n # 0 => g[n - 1] = f[n - 1]
        BY <4>2
      <4>4. QED
        BY <4>1, <4>3 DEF BodyStep
    <3>3. QED
      BY <3>1, <3>2
  <2>6. OK(k + 1, g)
    BY <2>4, <2>5
  <2>7. k + 1 \in 0..Len(w)
    BY <1>1, <2>2
  <2> HIDE DEF OK
  <2>8. QED
    BY <2>6, <2>7
<1>4. Len(w) \in S
  <2> HIDE DEF S
  <2>1. \A k \in 0..Len(w) : k \in S
    BY <1>1, <1>2, <1>3, UpTo
  <2>2. QED
    BY <1>1, <2>1
<1>5. PICK f : OK(Len(w), f)
  BY <1>4
<1>6. f = [n \in 0..Len(w) |-> BodyStep(w, f, n)]
  BY <1>5
<1>7. QED
  BY <1>6, BodyIsChosen

(* What the client has after n chunks. *)
LEMMA BodyValues ==
  ASSUME NEW w \in Seq(Chunks)
  PROVE  /\ BodyUpTo(w)[0] = <<>>
         /\ \A n \in 1..Len(w) : BodyUpTo(w)[n] = BodyUpTo(w)[n - 1] \o w[n].data
         /\ \A n \in 0..Len(w) : BodyUpTo(w)[n] \in Seq(Text)
<1> DEFINE B == BodyUpTo(w)
           S == {k \in 0..Len(w) : B[k] \in Seq(Text)}
<1>1. Len(w) \in Nat /\ \A n \in 1..Len(w) : w[n].data \in Seq(Text)
  BY DataOfChunk
<1>2. \A n \in 0..Len(w) : B[n] = BodyStep(w, B, n)
  BY BodyEquation
<1> HIDE DEF B
<1>3. B[0] = <<>>
  BY <1>1, <1>2 DEF BodyStep
<1>4. ASSUME NEW n \in 1..Len(w) PROVE B[n] = B[n - 1] \o w[n].data
  <2>1. n \in 0..Len(w) /\ n # 0
    BY <1>1
  <2>2. QED
    BY <1>2, <2>1 DEF BodyStep
<1>5. ASSUME NEW k \in 0..Len(w), k \in S, k < Len(w) PROVE k + 1 \in S
  <2>1. k + 1 \in 1..Len(w) /\ k + 1 \in 0..Len(w) /\ (k + 1) - 1 = k
    BY <1>1, <1>5
  <2>2. B[k + 1] = B[k] \o w[k + 1].data
    BY <1>4, <2>1
  <2>3. B[k] \in Seq(Text) /\ w[k + 1].data \in Seq(Text)
    BY <1>1, <1>5, <2>1
  <2>4. B[k + 1] \in Seq(Text)
    BY <2>2, <2>3, ConcatProperties
  <2>5. QED
    BY <2>1, <2>4
<1>6. 0 \in S
  <2>1. B[0] \in Seq(Text) /\ 0 \in 0..Len(w)
    BY <1>1, <1>3
  <2>2. QED
    BY <2>1
<1>7. \A k \in 0..Len(w) : k \in S
  <2> HIDE DEF S
  <2>1. QED
    BY <1>1, <1>5, <1>6, UpTo
<1>8. QED
  BY <1>3, <1>4, <1>7 DEF B

(* Without a chunk the client has nothing. *)
LEMMA BodyEmpty == Body(<<>>) = <<>>
<1>1. <<>> \in Seq(Chunks) /\ Len(<<>>) = 0
  BY EmptySeq
<1>2. QED
  BY <1>1, BodyValues DEF Body

(* The client gets text. *)
LEMMA BodyType ==
  ASSUME NEW w \in Seq(Chunks)
  PROVE  Body(w) \in Seq(Text)
<1>1. Len(w) \in 0..Len(w)
  BY LenProperties
<1>2. QED
  BY <1>1, BodyValues DEF Body

(* Another chunk. *)
LEMMA BodyAppend ==
  ASSUME NEW w \in Seq(Chunks), NEW x \in Chunks
  PROVE  Body(Append(w, x)) = Body(w) \o x.data
<1> DEFINE v == Append(w, x)
           B == BodyUpTo(w)
           C == BodyUpTo(v)
           N == Len(w)
           S == {k \in 0..N : B[k] = C[k]}
<1>1. /\ N \in Nat /\ v \in Seq(Chunks) /\ Len(v) = N + 1 /\ v[N + 1] = x
      /\ \A i \in 1..N : v[i] = w[i]
  BY AppendProperties, LenProperties
<1>2. /\ B[0] = <<>> /\ C[0] = <<>>
      /\ \A n \in 1..N : B[n] = B[n - 1] \o w[n].data
      /\ \A n \in 1..(N + 1) : C[n] = C[n - 1] \o v[n].data
  BY <1>1, BodyValues
<1> HIDE DEF v, B, C, N
<1>3. 0 \in S
  BY <1>1, <1>2
<1>4. ASSUME NEW k \in 0..N, k \in S, k < N PROVE k + 1 \in S
  <2>1. k + 1 \in 1..N /\ k + 1 \in 1..(N + 1) /\ k + 1 \in 0..N /\ (k + 1) - 1 = k
    BY <1>1, <1>4
  <2>2. B[k + 1] = B[k] \o w[k + 1].data /\ C[k + 1] = C[k] \o v[k + 1].data
    BY <1>2, <2>1
  <2>3. QED
    BY <1>1, <1>4, <2>1, <2>2
<1>5. \A k \in 0..N : k \in S
  <2> HIDE DEF S
  <2>1. QED
    BY <1>1, <1>3, <1>4, UpTo
<1>6. B[N] = C[N]
  BY <1>1, <1>5
<1>7. C[N + 1] = C[N] \o x.data
  <2>1. N + 1 \in 1..(N + 1) /\ (N + 1) - 1 = N
    BY <1>1
  <2>2. QED
    BY <1>1, <1>2, <2>1
<1>8. QED
  BY <1>1, <1>6, <1>7 DEF Body, B, C, N, v

(* The end of a tag. *)
LEMMA FirstEnd ==
  ASSUME NEW p \in Seq(Chars), NEW i \in 1..Len(p), EndsOf(p, i) # {}
  PROVE  LET e == Min(EndsOf(p, i))
         IN  /\ e \in Nat /\ e >= i + 2 /\ e < Len(p) /\ TagEndsAt(p, e)
             /\ \A j \in EndsOf(p, i) : e <= j
<1>1. i \in Nat /\ Len(p) \in Nat
  BY LenProperties
<1>2. EndsOf(p, i) \in SUBSET Nat
  BY <1>1 DEF EndsOf
<1>3. PICK e : e = Min(EndsOf(p, i)) /\ e \in EndsOf(p, i) /\ \A j \in EndsOf(p, i) : e <= j
  BY <1>2, MinIsLeast
<1>4. e \in Nat /\ e >= i + 2 /\ e < Len(p) /\ TagEndsAt(p, e)
  BY <1>1, <1>3 DEF EndsOf, TagEndsAt
<1>5. QED
  BY <1>3, <1>4

(* A value is text. *)
LEMMA ValueType == \A name : Value(name) \in Seq(Text)
<1>1. "v" \in Text /\ "w" \in Text
  BY DEF Text
<1>2. <<>> \in Seq(Text) /\ <<"v", "w">> \in Seq(Text)
  BY <1>1
<1>3. QED
  BY <1>2 DEF Value

(* So is what is sent of a tag that is not closed. *)
LEMMA UnclosedType == \A p, i : Unclosed(p, i) \in Seq(Text)
<1>1. TagEnd[1] \in Text
  BY DEF TagEnd, Text, Chars
<1>2. <<>> \in Seq(Text) /\ <<TagEnd[1]>> \in Seq(Text)
  BY <1>1
<1>3. QED
  BY <1>2 DEF Unclosed

(* What precedes the recursive part of a step, and where that part is. *)
LEMMA StepType ==
  ASSUME NEW p \in Seq(Chars), NEW i \in 1..(Len(p) + 1), NEW f,
         \A j \in (i + 1)..(Len(p) + 1) : f[j] \in Seq(Text)
  PROVE  SubStep(p, f, i) \in Seq(Text)
<1>1. i \in Nat /\ Len(p) \in Nat
  BY LenProperties
<1>2. CASE i > Len(p)
  BY <1>2, EmptySeq DEF SubStep
<1>3. CASE i <= Len(p) /\ ~TagStartsAt(p, i)
  <2>1. i \in 1..Len(p) /\ i + 1 \in (i + 1)..(Len(p) + 1)
    BY <1>1, <1>3
  <2>2. p[i] \in Text
    BY <2>1, ElementOfSeq DEF Text
  <2>3. <<p[i]>> \in Seq(Text) /\ f[i + 1] \in Seq(Text)
    BY <2>1, <2>2
  <2>4. <<p[i]>> \o f[i + 1] \in Seq(Text)
    BY <2>3, ConcatProperties
  <2>5. QED
    BY <1>1, <1>3, <2>4 DEF SubStep
<1>4. CASE i <= Len(p) /\ TagStartsAt(p, i) /\ EndsOf(p, i) = {}
  BY <1>1, <1>4, UnclosedType DEF SubStep
<1>5. CASE i <= Len(p) /\ TagStartsAt(p, i) /\ EndsOf(p, i) # {}
  <2>1. PICK e : e = Min(EndsOf(p, i)) /\ e \in Nat /\ e >= i + 2 /\ e < Len(p)
    BY <1>1, <1>5, FirstEnd
  <2>2. e + 2 \in (i + 1)..(Len(p) + 1)
    BY <1>1, <2>1
  <2>3. f[e + 2] \in Seq(Text) /\ Value(SubSeq(p, i + 2, e - 1)) \in Seq(Text)
    BY <2>2, ValueType
  <2>4. Value(SubSeq(p, i + 2, e - 1)) \o f[e + 2] \in Seq(Text)
    BY <2>3, ConcatProperties
  <2>5. QED
    BY <1>1, <1>5, <2>1, <2>4 DEF SubStep
<1>6. QED
  BY <1>1, <1>2, <1>3, <1>4, <1>5

(* A step looks only at later characters. *)
LEMMA StepLocal ==
  ASSUME NEW p \in Seq(Chars), NEW i \in 1..(Len(p) + 1), NEW f, NEW g,
         \A j \in (i + 1)..(Len(p) + 1) : f[j] = g[j]
  PROVE  SubStep(p, f, i) = SubStep(p, g, i)
<1>1. i \in Nat /\ Len(p) \in Nat
  BY LenProperties
<1>2. CASE i > Len(p)
  BY <1>2 DEF SubStep
<1>3. CASE i <= Len(p) /\ ~TagStartsAt(p, i)
  <2>1. i + 1 \in (i + 1)..(Len(p) + 1)
    BY <1>1, <1>3
  <2>2. f[i + 1] = g[i + 1]
    BY <2>1
  <2>3. QED
    BY <1>1, <1>3, <2>2 DEF SubStep
<1>4. CASE i <= Len(p) /\ TagStartsAt(p, i) /\ EndsOf(p, i) = {}
  BY <1>1, <1>4 DEF SubStep
<1>5. CASE i <= Len(p) /\ TagStartsAt(p, i) /\ EndsOf(p, i) # {}
  <2>1. PICK e : e = Min(EndsOf(p, i)) /\ e \in Nat /\ e >= i + 2 /\ e < Len(p)
    BY <1>1, <1>5, FirstEnd
  <2>2. e + 2 \in (i + 1)..(Len(p) + 1)
    BY <1>1, <2>1
  <2>3. f[e + 2] = g[e + 2]
    BY <2>2
  <2>4. QED
    BY <1>1, <1>5, <2>1, <2>3 DEF SubStep
<1>6. QED
  BY <1>1, <1>2, <1>3, <1>4, <1>5

(* SubstitutedFrom satisfies its equation. *)
LEMMA SubEquation ==
  ASSUME NEW p \in Seq(Chars)
  PROVE  SubstitutedFrom(p) = [i \in 1..(Len(p) + 1) |-> SubStep(p, SubstitutedFrom(p), i)]
<1> DEFINE N == Len(p)
           OK(k, f) == /\ f \in [(N + 1 - k)..(N + 1) -> Seq(Text)]
                       /\ \A i \in (N + 1 - k)..(N + 1) : f[i] = SubStep(p, f, i)
           S == {k \in 0..N : \E f : OK(k, f)}
<1>1. N \in Nat
  BY LenProperties
<1>2. 0 \in S
  <2> DEFINE f == [i \in (N + 1 - 0)..(N + 1) |-> <<>>]
  <2>1. f \in [(N + 1 - 0)..(N + 1) -> Seq(Text)]
    OBVIOUS
  <2>2. ASSUME NEW i \in (N + 1 - 0)..(N + 1) PROVE f[i] = SubStep(p, f, i)
    <3>1. i > Len(p) /\ f[i] = <<>>
      BY <1>1
    <3> HIDE DEF f
    <3>2. QED
      BY <3>1 DEF SubStep
  <2>3. OK(0, f)
    BY <2>1, <2>2
  <2> HIDE DEF OK
  <2>4. QED
    BY <1>1, <2>3
<1>3. ASSUME NEW k \in 0..N, k \in S, k < N PROVE k + 1 \in S
  <2>1. PICK f : OK(k, f)
    BY <1>3
  <2>0. N - k \in Nat
    BY <1>1, <1>3
  <2>2. PICK m \in Nat : m = N - k
    BY <2>0
  <2>3. /\ N + 1 - k = m + 1 /\ N + 1 - (k + 1) = m /\ m \in 1..(N + 1)
        /\ k + 1 \in 0..N /\ m + 1 <= N + 1
    BY <1>1, <1>3, <2>2
  <2> DEFINE g == [i \in m..(N + 1) |-> IF i = m THEN SubStep(p, f, m) ELSE f[i]]
  <2>4. f \in [(m + 1)..(N + 1) -> Seq(Text)] /\ \A i \in (m + 1)..(N + 1) : f[i] = SubStep(p, f, i)
    BY <2>1, <2>3
  <2>5. SubStep(p, f, m) \in Seq(Text)
    BY <2>3, <2>4, StepType
  <2>6. g \in [m..(N + 1) -> Seq(Text)]
    <3>1. ASSUME NEW i \in m..(N + 1), i # m PROVE f[i] \in Seq(Text)
      <4>1. i \in (m + 1)..(N + 1)
        BY <1>1, <2>2, <3>1
      <4>2. QED
        BY <2>4, <4>1
    <3>2. QED
      BY <2>5, <3>1
  <2>7. ASSUME NEW i \in m..(N + 1) PROVE g[i] = SubStep(p, g, i)
    <3>1. \A j \in (i + 1)..(N + 1) : j \in m..(N + 1) /\ j # m
      BY <1>1, <2>2
    <3>2. \A j \in (i + 1)..(N + 1) : f[j] = g[j]
      BY <3>1
    <3>3. i \in 1..(N + 1)
      BY <1>1, <2>3
    <3>4. SubStep(p, f, i) = SubStep(p, g, i)
      BY <3>2, <3>3, StepLocal
    <3>5. CASE i = m
      BY <3>4, <3>5
    <3>6. CASE i # m
      <4>1. i \in (m + 1)..(N + 1)
        BY <1>1, <2>2, <3>6
      <4>2. QED
        BY <2>4, <3>4, <3>6, <4>1
    <3>7. QED
      BY <3>5, <3>6
  <2>8. OK(k + 1, g)
    <3> HIDE DEF g
    <3>1. QED
      BY <2>3, <2>6, <2>7
  <2> HIDE DEF OK, g
  <2>9. QED
    BY <2>3, <2>8
<1>4. N \in S
  <2> HIDE DEF S
  <2>1. \A k \in 0..N : k \in S
    BY <1>1, <1>2, <1>3, UpTo
  <2>2. QED
    BY <1>1, <2>1
<1>5. PICK f : OK(N, f)
  BY <1>4
<1>6. f = [i \in 1..(N + 1) |-> SubStep(p, f, i)]
  <2>1. N + 1 - N = 1
    BY <1>1
  <2>2. QED
    BY <1>5, <2>1
<1>7. QED
  BY <1>6, SubIsChosen

(* What SubstitutedFrom gives for a character, by cases. *)
LEMMA SubValues ==
  ASSUME NEW p \in Seq(Chars)
  PROVE  /\ SubstitutedFrom(p)[Len(p) + 1] = <<>>
         /\ \A i \in 1..Len(p) :
              /\ ~TagStartsAt(p, i) =>
                   SubstitutedFrom(p)[i] = <<p[i]>> \o SubstitutedFrom(p)[i + 1]
              /\ TagStartsAt(p, i) /\ EndsOf(p, i) = {} =>
                   SubstitutedFrom(p)[i] = Unclosed(p, i)
              /\ TagStartsAt(p, i) /\ EndsOf(p, i) # {} =>
                   SubstitutedFrom(p)[i] = Value(SubSeq(p, i + 2, Min(EndsOf(p, i)) - 1))
                                             \o SubstitutedFrom(p)[Min(EndsOf(p, i)) + 2]
         /\ \A i \in 1..(Len(p) + 1) : SubstitutedFrom(p)[i] \in Seq(Text)
<1> DEFINE N == Len(p)
           F == SubstitutedFrom(p)
           S == {k \in 0..N : \A i \in (N + 1 - k)..(N + 1) : F[i] \in Seq(Text)}
<1>1. N \in Nat
  BY LenProperties
<1>2. \A i \in 1..(N + 1) : F[i] = SubStep(p, F, i)
  BY SubEquation
<1> HIDE DEF F
<1>3. F[N + 1] = <<>>
  <2>1. N + 1 \in 1..(N + 1) /\ N + 1 > N
    BY <1>1
  <2>2. QED
    BY <1>2, <2>1 DEF SubStep
<1>4. ASSUME NEW i \in 1..N
      PROVE  /\ ~TagStartsAt(p, i) => F[i] = <<p[i]>> \o F[i + 1]
             /\ TagStartsAt(p, i) /\ EndsOf(p, i) = {} => F[i] = Unclosed(p, i)
             /\ TagStartsAt(p, i) /\ EndsOf(p, i) # {} =>
                  F[i] = Value(SubSeq(p, i + 2, Min(EndsOf(p, i)) - 1))
                           \o F[Min(EndsOf(p, i)) + 2]
  <2>1. i \in 1..(N + 1) /\ ~(i > N)
    BY <1>1
  <2>2. F[i] = SubStep(p, F, i)
    BY <1>2, <2>1
  <2>3. QED
    BY <2>1, <2>2 DEF SubStep
<1>5. 0 \in S
  <2>1. \A i \in (N + 1 - 0)..(N + 1) : i = N + 1
    BY <1>1
  <2>2. F[N + 1] \in Seq(Text)
    BY <1>3
  <2>3. \A i \in (N + 1 - 0)..(N + 1) : F[i] \in Seq(Text)
    BY <2>1, <2>2
  <2>4. QED
    BY <1>1, <2>3
<1>6. ASSUME NEW k \in 0..N, k \in S, k < N PROVE k + 1 \in S
  <2>0. N - k \in Nat
    BY <1>1, <1>6
  <2>1. PICK m \in Nat : m = N - k
    BY <2>0
  <2>2. /\ N + 1 - k = m + 1 /\ N + 1 - (k + 1) = m /\ m \in 1..(N + 1)
        /\ k + 1 \in 0..N
    BY <1>1, <1>6, <2>1
  <2>3. \A j \in (m + 1)..(N + 1) : F[j] \in Seq(Text)
    BY <1>6, <2>2
  <2>4. F[m] \in Seq(Text)
    <3>1. SubStep(p, F, m) \in Seq(Text)
      BY <2>2, <2>3, StepType
    <3>2. QED
      BY <1>2, <2>2, <3>1
  <2>5. ASSUME NEW j \in m..(N + 1) PROVE F[j] \in Seq(Text)
    <3>1. j = m \/ j \in (m + 1)..(N + 1)
      BY <1>1, <2>1
    <3>2. QED
      BY <2>3, <2>4, <3>1
  <2>6. QED
    BY <2>2, <2>5
<1>7. \A k \in 0..N : k \in S
  <2> HIDE DEF S
  <2>1. QED
    BY <1>1, <1>5, <1>6, UpTo
<1>8. ASSUME NEW i \in 1..(N + 1) PROVE F[i] \in Seq(Text)
  <2>1. N \in S /\ i \in (N + 1 - N)..(N + 1)
    BY <1>1, <1>7
  <2>2. QED
    BY <2>1
<1>9. QED
  BY <1>3, <1>4, <1>8 DEF F

(* A function on the first n numbers is a sequence of that length. *)
LEMMA SeqOfFunction ==
  ASSUME NEW T, NEW n \in Nat, NEW f \in [1..n -> T]
  PROVE  f \in Seq(T) /\ Len(f) = n
OBVIOUS

(* Where no tag begins, the page is left as it is. *)
LEMMA PlainRest ==
  ASSUME NEW p \in Seq(Chars), NEW m \in 1..(Len(p) + 1), NEW r \in Seq(Text),
         Len(r) = Len(p) + 1 - m,
         \A k \in 1..Len(r) : r[k] = p[m - 1 + k],
         \A i \in m..Len(p) : ~TagStartsAt(p, i)
  PROVE  SubstitutedFrom(p)[m] = r
<1> DEFINE N == Len(p)
           F == SubstitutedFrom(p)
           R(i) == [k \in 1..(N + 1 - i) |-> p[i - 1 + k]]
           S == {k \in 0..(N + 1 - m) : F[N + 1 - k] = R(N + 1 - k)}
<1>1. N \in Nat /\ m \in Nat /\ N + 1 - m \in Nat
  BY LenProperties
<1>2. F[N + 1] = <<>> /\ \A i \in 1..N : ~TagStartsAt(p, i) => F[i] = <<p[i]>> \o F[i + 1]
  BY SubValues
<1>3. \A i \in m..(N + 1) : R(i) \in Seq(Text) /\ Len(R(i)) = N + 1 - i
  <2>1. SUFFICES ASSUME NEW i \in m..(N + 1) PROVE R(i) \in Seq(Text) /\ Len(R(i)) = N + 1 - i
    OBVIOUS
  <2>2. \A k \in 1..(N + 1 - i) : i - 1 + k \in 1..N
    BY <1>1, <2>1
  <2>3. \A k \in 1..(N + 1 - i) : p[i - 1 + k] \in Text
    BY <2>2, ElementOfSeq DEF Text
  <2>4. PICK l \in Nat : l = N + 1 - i
    <3>1. N + 1 - i \in Nat
      BY <1>1, <2>1
    <3>2. QED
      BY <3>1, Zenon
  <2>5. R(i) \in [1..l -> Text] /\ N + 1 - i = l
    <3>1. \A k \in 1..l : p[i - 1 + k] \in Text
      BY <2>3, <2>4
    <3>2. [k \in 1..l |-> p[i - 1 + k]] \in [1..l -> Text]
      BY <3>1, Zenon
    <3>3. QED
      BY <2>4, <3>2
  <2> HIDE DEF R
  <2>6. R(i) \in Seq(Text) /\ Len(R(i)) = l
    BY <2>5, SeqOfFunction
  <2>7. QED
    BY <2>5, <2>6
<1> HIDE DEF F
<1>4. 0 \in S
  <2>1. R(N + 1) = <<>>
    <3>1. N + 1 \in m..(N + 1) /\ N + 1 - (N + 1) = 0
      BY <1>1
    <3>2. Len(R(N + 1)) = 0 /\ R(N + 1) \in Seq(Text)
      BY <1>3, <3>1
    <3> HIDE DEF R
    <3>3. QED
      BY <3>2, EmptySeq
  <2>2. N + 1 - 0 = N + 1 /\ 0 \in 0..(N + 1 - m)
    BY <1>1
  <2> HIDE DEF R
  <2>3. QED
    BY <1>2, <2>1, <2>2
<1>5. ASSUME NEW k \in 0..(N + 1 - m), k \in S, k < N + 1 - m PROVE k + 1 \in S
  <2>1. N - k \in Nat /\ N - k >= m /\ k \in Nat /\ k + 1 <= N + 1 - m
    BY <1>1, <1>5
  <2>2. PICK i \in Nat : i = N - k
    BY <2>1
  <2>3. /\ N + 1 - k = i + 1 /\ N + 1 - (k + 1) = i /\ k + 1 \in 0..(N + 1 - m)
        /\ i \in m..N /\ i \in 1..N /\ i \in m..(N + 1) /\ i + 1 \in m..(N + 1)
        /\ N + 1 - (i + 1) = N - i /\ N - i \in Nat /\ N + 1 - i = N - i + 1
    <3>1. PICK n \in Nat : n = N
      BY <1>1
    <3>2. m \in Nat /\ 1 <= m /\ i \in Nat /\ k \in Nat /\ i = n - k /\ i >= m /\ k + 1 <= n + 1 - m
      BY <1>1, <2>1, <2>2, <3>1
    <3>3. /\ n + 1 - k = i + 1 /\ n + 1 - (k + 1) = i /\ k + 1 \in 0..(n + 1 - m)
          /\ i \in m..n /\ i \in 1..n /\ i \in m..(n + 1) /\ i + 1 \in m..(n + 1)
          /\ n + 1 - (i + 1) = n - i /\ n - i \in Nat /\ n + 1 - i = n - i + 1
      BY <3>2
    <3>4. QED
      BY <3>1, <3>3
  <2>4. F[i] = <<p[i]>> \o R(i + 1)
    <3>1. F[N + 1 - k] = R(N + 1 - k)
      BY <1>5
    <3> HIDE DEF R
    <3>2. F[i + 1] = R(i + 1) /\ ~TagStartsAt(p, i)
      BY <2>3, <3>1
    <3>3. QED
      BY <1>2, <2>3, <3>2
  <2>5. p[i] \in Text /\ <<p[i]>> \in Seq(Text) /\ Len(<<p[i]>>) = 1 /\ <<p[i]>>[1] = p[i]
    <3>1. p[i] \in Text
      BY <2>3, ElementOfSeq DEF Text
    <3>2. QED
      BY <3>1
  <2>6. R(i + 1) \in Seq(Text) /\ Len(R(i + 1)) = N - i
    BY <1>3, <2>3
  <2>7. R(i) \in Seq(Text) /\ Len(R(i)) = N - i + 1
    BY <1>3, <2>3
  <2>8. /\ \A j \in 1..(N - i) : R(i + 1)[j] = p[i + 1 - 1 + j]
        /\ \A j \in 1..(N - i + 1) : R(i)[j] = p[i - 1 + j]
    BY <2>3
  <2> HIDE DEF R
  <2>9. F[i] = R(i)
    <3> DEFINE c == <<p[i]>> \o R(i + 1)
    <3>1. /\ c \in Seq(Text) /\ Len(c) = N - i + 1
          /\ \A j \in 1..(N - i + 1) : c[j] = IF j <= 1 THEN p[i] ELSE R(i + 1)[j - 1]
      <4>1. Len(<<p[i]>>) + Len(R(i + 1)) = N - i + 1
        <5>1. PICK d \in Nat : d = N - i /\ Len(R(i + 1)) = d
          BY <2>3, <2>6
        <5>2. QED
          BY <2>5, <5>1
      <4>2. /\ c \in Seq(Text) /\ Len(c) = Len(<<p[i]>>) + Len(R(i + 1))
            /\ \A j \in 1..(Len(<<p[i]>>) + Len(R(i + 1))) :
                 c[j] = IF j <= Len(<<p[i]>>) THEN <<p[i]>>[j] ELSE R(i + 1)[j - Len(<<p[i]>>)]
        BY <2>5, <2>6, ConcatProperties
      <4> HIDE DEF c
      <4>3. ASSUME NEW j \in 1..(N - i + 1) PROVE c[j] = IF j <= 1 THEN p[i] ELSE R(i + 1)[j - 1]
        <5>1. c[j] = IF j <= 1 THEN <<p[i]>>[j] ELSE R(i + 1)[j - 1]
          BY <2>5, <4>1, <4>2
        <5>2. j <= 1 => j = 1
          BY <2>3
        <5>3. QED
          BY <2>5, <5>1, <5>2
      <4>4. QED
        BY <4>1, <4>2, <4>3
    <3> HIDE DEF c
    <3>2. ASSUME NEW j \in 1..(N - i + 1) PROVE c[j] = R(i)[j]
      <4>1. CASE j <= 1
        <5>1. i - 1 + j = i
          BY <2>3, <4>1
        <5>2. QED
          BY <2>8, <3>1, <4>1, <5>1
      <4>2. CASE ~(j <= 1)
        <5>1. j - 1 \in 1..(N - i) /\ i + 1 - 1 + (j - 1) = i - 1 + j
          BY <2>3, <4>2
        <5>2. QED
          BY <2>8, <3>1, <4>2, <5>1
      <4>3. QED
        BY <4>1, <4>2
    <3>3. c = R(i)
      BY <2>7, <3>1, <3>2, SeqEqual
    <3>4. QED
      BY <2>4, <3>3 DEF c
  <2>10. QED
    BY <2>3, <2>9
<1>6. \A k \in 0..(N + 1 - m) : k \in S
  <2> HIDE DEF S
  <2>1. QED
    BY <1>1, <1>4, <1>5, UpTo
<1>7. F[m] = R(m)
  <2>1. N + 1 - m \in 0..(N + 1 - m) /\ N + 1 - (N + 1 - m) = m
    BY <1>1
  <2>2. N + 1 - m \in S
    BY <1>6, <2>1
  <2> HIDE DEF R
  <2>3. QED
    BY <2>1, <2>2
<1>8. R(m) = r
  <2>1. m \in m..(N + 1)
    BY <1>1
  <2>2. R(m) \in Seq(Text) /\ Len(R(m)) = N + 1 - m
    BY <1>3, <2>1
  <2>3. \A k \in 1..(N + 1 - m) : R(m)[k] = r[k]
    OBVIOUS
  <2> HIDE DEF R
  <2>4. QED
    BY <2>2, <2>3, SeqEqual
<1>9. QED
  BY <1>7, <1>8 DEF F

-----------------------------------------------------------------------------
(***************************************************************************)
(* The cache and the page.                                                 *)
(***************************************************************************)

(* The page is a sequence of characters. *)
LEMMA PageType == TypeOK => page \in Seq(Chars) /\ Len(page) \in Nat
BY PageAssumption, LenProperties DEF TypeOK

(* The marks, character by character. *)
LEMMA Marks ==
  /\ TagStart[1] = "<" /\ TagStart[2] = "!" /\ TagEnd[1] = "-" /\ TagEnd[2] = ">"
  /\ Len(TagStart) = 2 /\ Len(TagEnd) = 2
  /\ TagStart \in Seq(Chars) /\ TagEnd \in Seq(Chars)
BY DEF TagStart, TagEnd, Chars

(* The numbers of characters that were read, cached and consumed. *)
LEMMA Numbers ==
  ASSUME TypeOK, Where
  PROVE  /\ index \in Nat /\ Len(cache) \in Nat /\ At \in Nat /\ Len(page) \in Nat
         /\ index <= Len(page) /\ index = At + Len(cache) /\ Len(tagName) \in Nat
         /\ Len(cache) <= CACHE /\ CACHE \in Nat /\ CACHE >= 2
         /\ AllRead <=> index = Len(page)
<1>1. /\ index \in 0..Len(page) /\ Len(cache) \in Nat /\ Len(page) \in Nat /\ Len(tagName) \in Nat
      /\ Len(cache) <= index
  BY PageType, LenProperties DEF TypeOK, Where
<1>2. QED
  BY <1>1, PageAssumption DEF At, AllRead, TypeOK

(* What is left after n characters. *)
LEMMA Dropped ==
  ASSUME NEW s \in Seq(Chars), NEW n \in 0..Len(s)
  PROVE  /\ Drop(s, n) \in Seq(Chars) /\ Len(Drop(s, n)) = Len(s) - n
         /\ \A k \in 1..(Len(s) - n) : Drop(s, n)[k] = s[n + k]
<1>1. Len(s) \in Nat /\ n \in Nat
  BY LenProperties
<1>2. \A i \in (n + 1)..Len(s) : s[i] \in Chars
  BY <1>1, ElementOfSeq
<1>3. n + 1 \in Int /\ Len(s) \in Int
  BY <1>1
<1>4. /\ SubSeq(s, n + 1, Len(s)) \in Seq(Chars)
      /\ Len(SubSeq(s, n + 1, Len(s))) = IF n + 1 <= Len(s) THEN Len(s) - (n + 1) + 1 ELSE 0
      /\ \A i \in 1..(Len(s) - (n + 1) + 1) : SubSeq(s, n + 1, Len(s))[i] = s[n + 1 + i - 1]
  BY <1>2, <1>3, SubSeqProperties
<1>5. PICK d : d = Drop(s, n) /\ d = SubSeq(s, n + 1, Len(s))
  BY DEF Drop
<1>6. Len(d) = Len(s) - n
  BY <1>1, <1>4, <1>5
<1>7. ASSUME NEW k \in 1..(Len(s) - n) PROVE d[k] = s[n + k]
  <2>1. k \in 1..(Len(s) - (n + 1) + 1) /\ n + 1 + k - 1 = n + k
    BY <1>1
  <2>2. QED
    BY <1>4, <1>5, <2>1
<1>8. QED
  BY <1>4, <1>5, <1>6, <1>7

(* n characters of the cache are consumed. *)
LEMMA Consumed ==
  ASSUME TypeOK, Where, NEW n \in 1..2, n <= Len(cache), cache' = Drop(cache, n), UNCHANGED file
  PROVE  /\ cache' \in Seq(Chars) /\ Len(cache') = Len(cache) - n /\ At' = At + n
         /\ \A k \in 1..Len(cache') : cache'[k] = page'[At' + k]
         /\ Len(cache') <= index'
         /\ Len(cache') <= CACHE
<1>1. /\ index \in Nat /\ Len(cache) \in Nat /\ At \in Nat
      /\ index = At + Len(cache) /\ Len(cache) <= CACHE /\ CACHE \in Nat
  BY Numbers
<1>2. n \in 0..Len(cache) /\ cache \in Seq(Chars) /\ index' = index /\ page' = page
  BY <1>1 DEF TypeOK, file
<1>3. /\ cache' \in Seq(Chars) /\ Len(cache') = Len(cache) - n
      /\ \A k \in 1..(Len(cache) - n) : cache'[k] = cache[n + k]
  BY <1>2, Dropped
<1>4. At' = At + n /\ Len(cache') <= index' /\ Len(cache') <= CACHE
  BY <1>1, <1>2, <1>3 DEF At
<1>5. ASSUME NEW k \in 1..Len(cache') PROVE cache'[k] = page'[At' + k]
  <2>1. k \in 1..(Len(cache) - n) /\ n + k \in 1..Len(cache) /\ At + (n + k) = At' + k
    BY <1>1, <1>3, <1>4
  <2>2. cache[n + k] = page[At + (n + k)]
    BY <2>1 DEF Where
  <2>3. QED
    BY <1>2, <1>3, <2>1, <2>2
<1>6. QED
  BY <1>3, <1>4, <1>5

(* Two characters at the front of the cache. *)
LEMMA FoundMark ==
  ASSUME TypeOK, NEW mark \in {TagStart, TagEnd}
  PROVE  Found(mark) <=> Len(cache) >= 2 /\ cache[1] = mark[1] /\ cache[2] = mark[2]
<1>1. Len(mark) = 2 /\ mark \in Seq(Chars) /\ cache \in Seq(Chars) /\ Len(cache) \in Nat
  BY Marks, LenProperties DEF TypeOK
<1>2. CASE Len(cache) >= 2
  <2>1. \A i \in 1..2 : cache[i] \in Chars
    <3>1. \A i \in 1..2 : i \in 1..Len(cache)
      BY <1>1, <1>2
    <3>2. QED
      BY <1>1, <3>1, ElementOfSeq
  <2>2. PICK d : d = SubSeq(cache, 1, 2)
    OBVIOUS
  <2>3. /\ d \in Seq(Chars) /\ Len(d) = 2
        /\ d[1] = cache[1] /\ d[2] = cache[2]
    <3>1. /\ d \in Seq(Chars) /\ Len(d) = (IF 1 <= 2 THEN 2 - 1 + 1 ELSE 0)
          /\ \A i \in 1..(2 - 1 + 1) : d[i] = cache[1 + i - 1]
      BY <2>1, <2>2, SubSeqProperties
    <3>2. QED
      BY <3>1
  <2>4. d = mark <=> d[1] = mark[1] /\ d[2] = mark[2]
    <3>1. ASSUME d[1] = mark[1], d[2] = mark[2] PROVE d = mark
      <4>1. \A i \in 1..Len(d) : d[i] = mark[i]
        BY <2>3, <3>1
      <4>2. QED
        BY <1>1, <2>3, <4>1, SeqEqual
    <3>2. QED
      BY <3>1
  <2>5. QED
    BY <1>1, <1>2, <2>2, <2>3, <2>4 DEF Found
<1>3. QED
  BY <1>1, <1>2 DEF Found

(* What the front of the cache says about the page. *)
LEMMA Front ==
  ASSUME TypeOK, Where, Scanning
  PROVE  /\ At + 1 \in 1..Len(page) /\ cache[1] = page[At + 1] /\ Len(cache) >= 1
         /\ ssiState = 1 => (Found(TagStart) <=> TagStartsAt(page, At + 1))
         /\ ssiState = 2 => (Found(TagEnd) <=> TagEndsAt(page, At + 1))
         /\ Found(TagStart) \/ Found(TagEnd) => Len(cache) >= 2
         /\ ssiState = 2 /\ ~Found(TagEnd) /\ At + 1 = Len(page) => page[Len(page)] # TagEnd[1]
<1>1. /\ index \in Nat /\ Len(cache) \in Nat /\ At \in Nat /\ Len(page) \in Nat
      /\ index <= Len(page) /\ index = At + Len(cache)
  BY Numbers
<1>2. Len(cache) >= 1 /\ cache \in Seq(Chars)
  BY <1>1, EmptySeq DEF Scanning, TypeOK
<1>3. At + 1 \in 1..Len(page) /\ cache[1] = page[At + 1]
  BY <1>1, <1>2 DEF Where
<1>4. Len(cache) >= 2 => cache[2] = page[At + 2] /\ At + 1 < Len(page)
  BY <1>1, <1>2 DEF Where
<1>5. PICK mark \in {TagStart, TagEnd} : mark = IF ssiState = 2 THEN TagEnd ELSE TagStart
  OBVIOUS
<1>6. ~(cache[1] = mark[1] /\ Len(cache) < 2)
  BY <1>2, <1>5, Marks DEF Scanning, Incomplete
<1>7. Found(TagStart) <=> Len(cache) >= 2 /\ cache[1] = TagStart[1] /\ cache[2] = TagStart[2]
  BY FoundMark
<1>8. Found(TagEnd) <=> Len(cache) >= 2 /\ cache[1] = TagEnd[1] /\ cache[2] = TagEnd[2]
  BY FoundMark
<1>9. At + 1 + 1 = At + 2
  BY <1>1
<1>10. ASSUME ssiState = 1 PROVE Found(TagStart) <=> TagStartsAt(page, At + 1)
  <2>1. mark = TagStart
    BY <1>5, <1>10
  <2>2. QED
    BY <1>1, <1>3, <1>4, <1>6, <1>7, <1>9, <2>1 DEF TagStartsAt
<1>11. ASSUME ssiState = 2 PROVE Found(TagEnd) <=> TagEndsAt(page, At + 1)
  <2>1. mark = TagEnd
    BY <1>5, <1>11
  <2>2. QED
    BY <1>1, <1>3, <1>4, <1>6, <1>8, <1>9, <2>1 DEF TagEndsAt
<1>12. ASSUME ssiState = 2, ~Found(TagEnd), At + 1 = Len(page) PROVE page[Len(page)] # TagEnd[1]
  <2>1. mark = TagEnd /\ Len(cache) < 2
    BY <1>1, <1>4, <1>5, <1>12
  <2>2. QED
    BY <1>3, <1>6, <1>12, <2>1
<1>13. QED
  BY <1>2, <1>3, <1>7, <1>8, <1>10, <1>11, <1>12

(* The lesser and the greater of two numbers. *)
LEMMA MinOfTwo ==
  ASSUME NEW a \in Int, NEW b \in Int
  PROVE  Min({a, b}) \in {a, b} /\ Min({a, b}) <= a /\ Min({a, b}) <= b
BY DEF Min

LEMMA MaxOfTwo ==
  ASSUME NEW a \in Int, NEW b \in Int
  PROVE  Max({a, b}) = IF a > b THEN a ELSE b
BY DEF Max

(* The cache is filled from the page. *)
LEMMA Filled ==
  ASSUME TypeOK, Where, Fill, ~AllRead
  PROVE  /\ cache' \in Seq(Chars) /\ Len(cache') <= CACHE
         /\ index' \in 0..Len(page) /\ At' = At /\ Len(cache') <= index'
         /\ \A k \in 1..Len(cache') : cache'[k] = page'[At' + k]
<1> DEFINE n == Min({Len(page) - index, CACHE - Len(cache)})
           s == SubSeq(page, index + 1, index + n)
<1>1. /\ index \in Nat /\ Len(cache) \in Nat /\ At \in Nat /\ Len(page) \in Nat
      /\ index <= Len(page) /\ index = At + Len(cache)
      /\ Len(cache) <= CACHE /\ CACHE \in Nat
  BY Numbers
<1>2. n \in Nat /\ n <= Len(page) - index /\ n <= CACHE - Len(cache)
  <2>0. Len(page) - index \in Nat /\ CACHE - Len(cache) \in Nat
    BY <1>1
  <2>1. PICK a \in Nat, b \in Nat : a = Len(page) - index /\ b = CACHE - Len(cache)
    BY <2>0
  <2>2. Min({a, b}) \in {a, b} /\ Min({a, b}) <= a /\ Min({a, b}) <= b
    BY MinOfTwo
  <2>3. QED
    BY <2>1, <2>2
<1>3. cache' = cache \o s /\ index' = index + n /\ page' = page
  BY DEF Fill
<1> HIDE DEF n
<1>4. \A i \in (index + 1)..(index + n) : i \in 1..Len(page)
  BY <1>1, <1>2
<1>5. \A i \in (index + 1)..(index + n) : page[i] \in Chars
  BY <1>4, PageType, ElementOfSeq
<1>6. index + 1 \in Int /\ index + n \in Int
  BY <1>1, <1>2
<1>7. PICK a \in Int, b \in Int : a = index + 1 /\ b = index + n
  BY <1>6
<1>8. s \in Seq(Chars) /\ Len(s) = n /\ \A i \in 1..n : s[i] = page[index + i]
  <2>1. \A i \in a..b : page[i] \in Chars
    BY <1>5, <1>7
  <2>2. /\ SubSeq(page, a, b) \in Seq(Chars)
        /\ Len(SubSeq(page, a, b)) = IF a <= b THEN b - a + 1 ELSE 0
        /\ \A i \in 1..(b - a + 1) : SubSeq(page, a, b)[i] = page[a + i - 1]
    BY <2>1, SubSeqProperties
  <2>3. SubSeq(page, a, b) = s
    BY <1>7
  <2>4. b - a + 1 = n /\ (a <= b \/ n = 0)
    BY <1>1, <1>2, <1>7
  <2>5. \A i \in 1..n : a + i - 1 = index + i
    BY <1>1, <1>2, <1>7
  <2> HIDE DEF s
  <2>6. s \in Seq(Chars) /\ Len(s) = n
    BY <2>2, <2>3, <2>4
  <2>7. ASSUME NEW i \in 1..n PROVE s[i] = page[index + i]
    BY <2>2, <2>3, <2>4, <2>5
  <2>8. QED
    BY <2>6, <2>7
<1> HIDE DEF s
<1>9. /\ cache' \in Seq(Chars) /\ Len(cache') = Len(cache) + n
      /\ \A i \in 1..(Len(cache) + n) :
           cache'[i] = IF i <= Len(cache) THEN cache[i] ELSE s[i - Len(cache)]
  <2>1. cache \in Seq(Chars)
    BY DEF TypeOK
  <2>2. QED
    BY <1>3, <1>8, <2>1, ConcatProperties
<1>10. /\ Len(cache') <= CACHE /\ index' \in 0..Len(page) /\ At' = At /\ Len(cache') <= index'
  BY <1>1, <1>2, <1>3, <1>9 DEF At
<1>11. ASSUME NEW k \in 1..Len(cache') PROVE cache'[k] = page'[At' + k]
  <2>1. k \in 1..(Len(cache) + n)
    BY <1>9
  <2>2. CASE k <= Len(cache)
    <3>1. k \in 1..Len(cache)
      BY <1>1, <2>1, <2>2
    <3>2. QED
      BY <1>3, <1>9, <1>10, <2>1, <2>2, <3>1 DEF Where
  <2>3. CASE ~(k <= Len(cache))
    <3>1. k - Len(cache) \in 1..n /\ index + (k - Len(cache)) = At + k
      BY <1>1, <1>2, <2>1, <2>3
    <3>2. QED
      BY <1>3, <1>8, <1>9, <1>10, <2>1, <2>3, <3>1
  <2>4. QED
    BY <2>2, <2>3
<1>12. QED
  BY <1>9, <1>10, <1>11

(* All is acknowledged after the last chunk. *)
Ended ==
  /\ pc = "idle" /\ stage = "END" /\ pc' = "end"
  /\ UNCHANGED <<file, ssi, stage, room, out, bare, wire, cut>>

Loading == pc = "idle" /\ Load

(* The two callbacks do the same things. *)
LEMMA Callbacks ==
  ASSUME OnHttpSent \/ OnHttpPoll
  PROVE  (Loading \/ Ended) /\ (unacked' = FALSE \/ unacked' = unacked)
BY DEF OnHttpSent, OnHttpPoll, Loading, Ended

(* The types hold at first. *)
LEMMA TypeInit == Init => TypeOK
<1> SUFFICES ASSUME Init PROVE TypeOK
  OBVIOUS
<1>1. page \in Pages /\ Len(page) \in Nat
  BY PageAssumption, LenProperties DEF Init
<1>2. <<>> \in Seq(Chars) /\ <<>> \in Seq(Text) /\ Len(<<>>) = 0
  BY EmptySeq
<1>3. <<>> \in Seq([crlf : BOOLEAN, data : Seq(Text), last : BOOLEAN, room : Int])
  BY EmptySeq
<1>4. 0 <= CACHE /\ 0 \in 0..Len(page)
  BY <1>1, PageAssumption
<1>5. /\ index \in 0..Len(page) /\ cache \in Seq(Chars) /\ Len(cache) <= CACHE
      /\ tagName \in Seq(Chars) /\ out \in Seq(Text)
      /\ wire \in Seq([crlf : BOOLEAN, data : Seq(Text), last : BOOLEAN, room : Int])
  BY <1>2, <1>3, <1>4 DEF Init
<1>6. QED
  BY <1>1, <1>5 DEF Init, TypeOK

(* Characters of the page may be sent. *)
LEMMA CharsAreText == \A s \in Seq(Chars) : s \in Seq(Text)
BY SeqMonotonic DEF Text

(* Every step keeps the types. *)
LEMMA TypeStep == TypeOK /\ Where /\ [Next]_vars => TypeOK'
<1> SUFFICES ASSUME TypeOK, Where, [Next]_vars PROVE TypeOK'
  OBVIOUS
<1>0. /\ index \in Nat /\ Len(cache) \in Nat /\ At \in Nat /\ Len(page) \in Nat
      /\ index <= Len(page) /\ index = At + Len(cache)
      /\ Len(cache) <= CACHE /\ CACHE \in Nat
      /\ cache \in Seq(Chars) /\ page \in Seq(Chars)
  BY Numbers, PageType DEF TypeOK
<1>1. CASE OnHttpSent \/ OnHttpPoll
  <2>1. (Loading \/ Ended) /\ unacked' \in BOOLEAN
    BY <1>1, Callbacks DEF TypeOK
  <2>2. CASE Loading
    <3>1. <<>> \in Seq(Chars) /\ <<>> \in Seq(Text) /\ Len(<<>>) = 0 /\ cache \in Seq(Text)
      BY <1>0, EmptySeq, CharsAreText
    <3>2. bare' \in BOOLEAN
      BY <2>2 DEF Loading, Load, IsFirst
    <3>3. out' \in Seq(Text) /\ cache' \in Seq(Chars) /\ Len(cache') <= CACHE
      <4>1. \/ out' = cache /\ cache' = <<>>
            \/ out' = out /\ cache' = cache
            \/ out' = <<>> /\ cache' = cache
        BY <2>2 DEF Loading, Load
      <4>2. out \in Seq(Text) /\ 0 <= CACHE
        BY <1>0 DEF TypeOK
      <4>3. QED
        BY <1>0, <3>1, <4>1, <4>2
    <3>4. QED
      BY <2>1, <2>2, <3>2, <3>3 DEF Loading, Load, TypeOK, file
  <2>3. CASE Ended
    BY <2>1, <2>3 DEF Ended, TypeOK, file, ssi
  <2>4. QED
    BY <2>1, <2>2, <2>3
<1>2. CASE Fill
  <2>1. CASE AllRead
    BY <1>2, <2>1 DEF Fill, Done, TypeOK
  <2>2. CASE ~AllRead
    <3>1. cache' \in Seq(Chars) /\ Len(cache') <= CACHE /\ index' \in 0..Len(page) /\ page' = page
      BY <1>2, <2>2, Filled DEF Fill
    <3>2. QED
      BY <1>2, <2>2, <3>1 DEF Fill, TypeOK
  <2>3. QED
    BY <2>1, <2>2
<1>3. CASE NeedMore
  BY <1>3 DEF NeedMore, TypeOK, file, ssi
<1>4. CASE CopyText
  <2>1. cache[1] \in Text /\ 1 \in 1..2 /\ 1 <= Len(cache)
    <3>1. 1 \in 1..Len(cache)
      BY <1>0, <1>4, Front DEF CopyText
    <3>2. cache[1] \in Chars
      BY <1>0, <3>1, ElementOfSeq
    <3>3. QED
      BY <1>0, <3>1, <3>2 DEF Text
  <2>2. cache' \in Seq(Chars) /\ Len(cache') <= CACHE
    BY <1>4, <2>1, Consumed DEF CopyText
  <2>3. out' \in Seq(Text)
    BY <1>4, <2>1, AppendProperties DEF CopyText, TypeOK
  <2>4. stage' \in {"first", "more", "END"} /\ pc' \in {"frame", "scan"}
    BY <1>4 DEF CopyText, Done, TypeOK, Scanning
  <2>5. QED
    BY <1>4, <2>2, <2>3, <2>4 DEF CopyText, TypeOK, file
<1>5. CASE TagFound
  <2>1. 2 \in 1..2 /\ 2 <= Len(cache) /\ Len(TagStart) = 2
    BY <1>5, Front, Marks DEF TagFound
  <2>2. cache' \in Seq(Chars) /\ Len(cache') <= CACHE
    BY <1>5, <2>1, Consumed DEF TagFound
  <2>3. QED
    BY <1>5, <2>2 DEF TagFound, Done, TypeOK, file
<1>6. CASE CopyName
  <2>1. cache[1] \in Chars /\ 1 \in 1..2 /\ 1 <= Len(cache)
    <3>1. 1 \in 1..Len(cache)
      BY <1>0, <1>6, Front DEF CopyName
    <3>2. QED
      BY <1>0, <3>1, ElementOfSeq
  <2>2. cache' \in Seq(Chars) /\ Len(cache') <= CACHE
    BY <1>6, <2>1, Consumed DEF CopyName
  <2>3. tagName' \in Seq(Chars)
    BY <1>6, <2>1, AppendProperties DEF CopyName, TypeOK
  <2>4. QED
    BY <1>6, <2>2, <2>3 DEF CopyName, TypeOK, file
<1>7. CASE ReplaceTag
  <2> DEFINE v == Value(tagName)
             n == IF v = <<>> THEN 0 ELSE Min({Len(v), room - Len(out) - SLACK})
  <2>1. 2 \in 1..2 /\ 2 <= Len(cache) /\ Len(TagEnd) = 2
    BY <1>7, Front, Marks DEF ReplaceTag
  <2>2. cache' \in Seq(Chars) /\ Len(cache') <= CACHE
    BY <1>7, <2>1, Consumed DEF ReplaceTag
  <2>3. v \in Seq(Text) /\ Len(v) \in Nat /\ Len(out) \in Nat /\ room \in Int /\ SLACK \in Nat
    BY ValueType, LenProperties, PageAssumption DEF TypeOK
  <2>4. n \in Int /\ n <= Len(v)
    <3>0. room - Len(out) - SLACK \in Int
      BY <2>3
    <3>1. PICK a \in Nat, b \in Int : a = Len(v) /\ b = room - Len(out) - SLACK
      BY <2>3, <3>0
    <3>2. Min({a, b}) \in {a, b} /\ Min({a, b}) <= a
      BY MinOfTwo
    <3>3. v = <<>> => Len(v) = 0
      OBVIOUS
    <3>4. n = 0 \/ n = Min({a, b})
      BY <3>1
    <3>5. QED
      BY <3>1, <3>2, <3>4
  <2> HIDE DEF v, n
  <2>5. SubSeq(v, 1, n) \in Seq(Text)
    <3>1. \A i \in 1..n : i \in 1..Len(v)
      BY <2>3, <2>4
    <3>2. \A i \in 1..n : v[i] \in Text
      BY <2>3, <3>1, ElementOfSeq
    <3>3. QED
      BY <2>4, <3>2, SubSeqProperties
  <2>6. out' \in Seq(Text) /\ cut' \in BOOLEAN
    <3>1. out' = out \o SubSeq(v, 1, n) /\ cut' = (cut \/ n < Len(v)) /\ out \in Seq(Text)
      BY <1>7 DEF ReplaceTag, TypeOK, v, n
    <3>2. QED
      BY <2>5, <3>1, ConcatProperties
  <2>7. tagName' \in Seq(Chars)
    BY <1>7, EmptySeq DEF ReplaceTag, NextName
  <2>8. /\ UNCHANGED <<file, stage, room, unacked, bare, wire>> /\ ssiState' = 1
        /\ pc' \in {"undefined", pc}
    BY <1>7 DEF ReplaceTag
  <2>9. QED
    BY <2>2, <2>6, <2>7, <2>8 DEF TypeOK, file
<1>8. CASE Frame
  <2>1. UNCHANGED <<file, ssi, stage, room, out, bare, cut>> /\ pc' = "idle" /\ unacked' \in BOOLEAN
    BY <1>8 DEF Frame, TypeOK
  <2>2. wire' \in Seq(Chunks)
    <3>1. PICK x : x = [crlf |-> ~bare, data |-> out, last |-> IsLast, room |-> room]
      OBVIOUS
    <3>2. x \in Chunks
      BY <3>1, PageAssumption DEF TypeOK, IsLast, Chunks
    <3>3. wire' = Append(wire, x) \/ wire' = wire
      BY <1>8, <3>1 DEF Frame
    <3>4. wire \in Seq(Chunks)
      BY DEF TypeOK, Chunks
    <3>5. QED
      BY <3>2, <3>3, <3>4, AppendProperties
  <2>3. QED
    BY <2>1, <2>2 DEF TypeOK, file, ssi, Chunks
<1>9. CASE UNCHANGED vars
  BY <1>9 DEF vars, file, ssi, TypeOK
<1>10. QED
  BY <1>1, <1>2, <1>3, <1>4, <1>5, <1>6, <1>7, <1>8, <1>9 DEF Next, Read

-----------------------------------------------------------------------------
(***************************************************************************)
(* What is in the cache.                                                   *)
(***************************************************************************)

(* The file does not change while it is sent. *)
LEMMA PageStays == [Next]_vars => page' = page
BY DEF Next, Read, vars, file, ssi, OnHttpSent, OnHttpPoll, Load, Fill, NeedMore, CopyText,
       TagFound, CopyName, ReplaceTag, Frame

(* The cache is empty at first. *)
LEMMA WhereInit == Init => Where
<1> SUFFICES ASSUME Init PROVE Where
  OBVIOUS
<1>1. Len(cache) = 0 /\ index = 0 /\ pc = "idle" /\ stage = "first"
  BY EmptySeq DEF Init
<1>2. QED
  BY <1>1 DEF Where, Calling

(* Emptiness as a length. *)
LEMMA CacheOrEnd ==
  ASSUME TypeOK, Where
  PROVE  /\ cache = <<>> <=> Len(cache) = 0
         /\ page = <<>> <=> Len(page) = 0
BY PageType, EmptySeq DEF TypeOK

(* Every step keeps the cache a part of the page. *)
LEMMA WhereStep == TypeOK /\ Where /\ [Next]_vars => Where'
<1> SUFFICES ASSUME TypeOK, Where, [Next]_vars PROVE Where'
  OBVIOUS
<1>0. /\ index \in Nat /\ Len(cache) \in Nat /\ At \in Nat /\ Len(page) \in Nat
      /\ index <= Len(page) /\ index = At + Len(cache)
      /\ AllRead <=> index = Len(page)
      /\ cache = <<>> <=> Len(cache) = 0
      /\ page = <<>> <=> Len(page) = 0
      /\ page' = page
  BY Numbers, CacheOrEnd, PageStays
<1>1. ASSUME cache' = cache, index' = index
      PROVE  /\ Len(cache') <= index' /\ At' = At /\ (AllRead' <=> AllRead)
             /\ \A k \in 1..Len(cache') : cache'[k] = page'[At' + k]
  <2>1. At' = At /\ (AllRead' <=> AllRead)
    BY <1>0, <1>1 DEF At, AllRead
  <2>2. QED
    BY <1>0, <1>1, <2>1 DEF Where
<1>2. CASE OnHttpSent \/ OnHttpPoll
  <2>1. Loading \/ Ended
    BY <1>2, Callbacks
  <2>2. CASE Loading
    <3>1. index' = index /\ pc = "idle" /\ stage # "END" /\ (AllRead' <=> AllRead)
      BY <1>0, <2>2 DEF Loading, Load, file, AllRead
    <3>2. CASE AllRead /\ cache # <<>> /\ out' = cache /\ cache' = <<>> /\ stage' = "END" /\ pc' = "frame"
      <4>1. Len(cache') = 0 /\ page' # <<>>
        BY <1>0, <3>2, EmptySeq
      <4>2. QED
        BY <1>0, <3>1, <3>2, <4>1 DEF Where, Calling
    <3>3. CASE AllRead /\ cache = <<>> /\ stage' = "END" /\ pc' = "end" /\ cache' = cache
      BY <1>1, <3>1, <3>3 DEF Where, Calling
    <3>4. CASE ~AllRead /\ pc' = "fill" /\ cache' = cache /\ stage' = stage
      BY <1>0, <1>1, <3>1, <3>4 DEF Where, Calling
    <3>5. QED
      BY <2>2, <3>2, <3>3, <3>4 DEF Loading, Load
  <2>3. CASE Ended
    BY <1>1, <2>3 DEF Ended, Where, Calling, file, ssi
  <2>4. QED
    BY <2>1, <2>2, <2>3
<1>3. CASE Fill
  <2>1. CASE AllRead
    <3>1. cache' = cache /\ index' = index /\ pc' = "frame" /\ pc = "fill"
      BY <1>3, <2>1 DEF Fill, Done
    <3>2. stage' = IF AllRead /\ cache = <<>> THEN "END" ELSE "more"
      BY <1>3, <2>1 DEF Fill, Done
    <3>3. QED
      BY <1>0, <1>1, <2>1, <3>1, <3>2 DEF Where, Calling
  <2>2. CASE ~AllRead
    <3>1. Len(cache') <= index' /\ \A k \in 1..Len(cache') : cache'[k] = page'[At' + k]
      BY <1>3, <2>2, Filled
    <3>2. pc = "fill" /\ pc' = "scan" /\ stage' = stage
      BY <1>3, <2>2 DEF Fill
    <3>3. QED
      BY <1>0, <3>1, <3>2 DEF Where, Calling
  <2>3. QED
    BY <2>1, <2>2
<1>4. CASE NeedMore
  <2>1. cache' = cache /\ index' = index /\ pc' = "fill" /\ pc = "scan" /\ stage' = stage /\ ssiState' = ssiState
    BY <1>4 DEF NeedMore, file, ssi
  <2>2. Starved'
    <3>1. CASE cache = <<>>
      BY <2>1, <3>1 DEF Starved
    <3>2. CASE cache # <<>>
      <4>1. Len(cache) = 1 /\ cache[1] = Mark[1]
        <5>1. PICK mark \in {TagStart, TagEnd} : mark = Mark
          BY DEF Mark
        <5>2. Incomplete(mark)
          BY <1>4, <3>2, <5>1 DEF NeedMore, Mark
        <5>3. Len(mark) = 2
          BY Marks
        <5>4. cache[1] = mark[1]
          BY <5>2 DEF Incomplete
        <5>5. Len(cache) = 1
          <6>1. Len(cache) # 0 /\ Len(cache) \in Nat
            BY <1>0, <3>2, Zenon
          <6>2. Len(cache) < 2
            BY <5>2, <5>3 DEF Incomplete
          <6>3. QED
            BY <6>1, <6>2
        <5>6. QED
          BY <5>1, <5>4, <5>5
      <4>2. QED
        BY <2>1, <4>1 DEF Starved, Mark
    <3>3. QED
      BY <3>1, <3>2
  <2>3. QED
    BY <1>0, <1>1, <2>1, <2>2 DEF Where, Calling
<1>5. ASSUME NEW n \in 1..2, n <= Len(cache), cache' = Drop(cache, n), UNCHANGED file, pc = "scan",
             \/ pc' = "frame" /\ stage' = IF AllRead /\ cache' = <<>> THEN "END" ELSE "more"
             \/ pc' \in {"scan", "undefined"} /\ stage' = stage
      PROVE  Where'
  <2>1. Len(cache') <= index' /\ \A k \in 1..Len(cache') : cache'[k] = page'[At' + k]
    BY <1>5, Consumed
  <2>2. (AllRead' <=> AllRead) /\ page # <<>> /\ stage # "END"
    BY <1>5 DEF AllRead, file, Where, Calling
  <2>3. QED
    BY <1>0, <1>5, <2>1, <2>2 DEF Where, Calling
<1>6. CASE CopyText
  <2>1. 1 \in 1..2 /\ 1 <= Len(cache)
    BY <1>6, Front DEF CopyText
  <2>2. /\ cache' = Drop(cache, 1) /\ UNCHANGED file /\ pc = "scan"
        /\ \/ pc' = "frame" /\ stage' = IF AllRead /\ cache' = <<>> THEN "END" ELSE "more"
           \/ pc' \in {"scan", "undefined"} /\ stage' = stage
    BY <1>6 DEF CopyText, Done, Scanning
  <2>3. QED
    BY <1>5, <2>1, <2>2
<1>7. CASE TagFound
  <2>1. 2 \in 1..2 /\ 2 <= Len(cache)
    BY <1>7, Front DEF TagFound
  <2>2. /\ cache' = Drop(cache, 2) /\ UNCHANGED file /\ pc = "scan"
        /\ pc' = "frame" /\ stage' = IF AllRead /\ cache' = <<>> THEN "END" ELSE "more"
    BY <1>7, Marks DEF TagFound, Done, Scanning
  <2>3. QED
    BY <1>5, <2>1, <2>2
<1>8. CASE CopyName
  <2>1. 1 \in 1..2 /\ 1 <= Len(cache)
    BY <1>8, Front DEF CopyName
  <2>2. /\ cache' = Drop(cache, 1) /\ UNCHANGED file /\ pc = "scan"
        /\ pc' \in {"scan", "undefined"} /\ stage' = stage
    BY <1>8 DEF CopyName, Scanning
  <2>3. QED
    BY <1>5, <2>1, <2>2
<1>9. CASE ReplaceTag
  <2>1. 2 \in 1..2 /\ 2 <= Len(cache)
    BY <1>9, Front DEF ReplaceTag
  <2>2. cache' = Drop(cache, 2) /\ UNCHANGED file /\ pc = "scan" /\ pc' \in {"scan", "undefined"} /\ stage' = stage
    BY <1>9, Marks DEF ReplaceTag, Scanning
  <2>3. QED
    BY <1>5, <2>1, <2>2
<1>10. CASE Frame
  <2>1. cache' = cache /\ index' = index /\ pc' = "idle" /\ pc = "frame" /\ stage' = stage
    BY <1>10 DEF Frame, file, ssi
  <2>2. QED
    BY <1>0, <1>1, <2>1 DEF Where, Calling
<1>11. CASE UNCHANGED vars
  <2>1. cache' = cache /\ index' = index /\ pc' = pc /\ stage' = stage /\ ssiState' = ssiState
    BY <1>11 DEF vars, file, ssi
  <2>2. Starved' <=> Starved
    BY <2>1 DEF Starved, Mark
  <2>3. Calling' <=> Calling
    BY <2>1 DEF Calling
  <2>4. QED
    BY <1>0, <1>1, <2>1, <2>2, <2>3 DEF Where
<1>12. QED
  BY <1>2, <1>3, <1>4, <1>6, <1>7, <1>8, <1>9, <1>10, <1>11 DEF Next, Read

-----------------------------------------------------------------------------
(***************************************************************************)
(* The chunks.                                                             *)
(***************************************************************************)

(* What ChunksAreFramed says about the chunks. *)
Framed ==
  \A i \in 1..Len(wire) :
    /\ wire[i].crlf = (i > 1) \/ FirstIsEmpty
    /\ wire[i].last => i = Len(wire)
    /\ Len(wire[i].data) <= Max({wire[i].room, 1}) \/ wire[i].last

(* Nothing was sent at first. *)
LEMMA FramingInit == Init => Framing /\ Framed
<1> SUFFICES ASSUME Init PROVE Framing /\ Framed
  OBVIOUS
<1>1. Len(wire) = 0 /\ wire = <<>> /\ pc = "idle" /\ stage = "first"
  BY EmptySeq DEF Init
<1>2. QED
  BY <1>1 DEF Framing, Framed, Calling, Init

(* The first call gives nothing. *)
LEMMA NothingFirst ==
  ASSUME TypeOK, Where, At = 0, ssiState = 1,
         \/ AllRead /\ Starved /\ page # <<>>
         \/ TagStartsAt(page, 1)
  PROVE  FirstIsEmpty
<1>1. /\ index \in Nat /\ Len(cache) \in Nat /\ Len(page) \in Nat
      /\ index <= Len(page) /\ index = At + Len(cache)
      /\ AllRead <=> index = Len(page)
      /\ cache = <<>> <=> Len(cache) = 0
      /\ page = <<>> <=> Len(page) = 0
      /\ page \in Seq(Chars)
  BY Numbers, CacheOrEnd, PageType
<1>2. CASE AllRead /\ Starved /\ page # <<>>
  <2>1. Len(cache) = 1 /\ cache[1] = TagStart[1] /\ Len(page) = 1
    BY <1>1, <1>2 DEF Starved, Mark
  <2>2. cache[1] = page[1]
    BY <2>1 DEF Where
  <2>3. page[1] = "<"
    BY <2>1, <2>2, Marks
  <2>4. PICK d : d = SubSeq(TagStart, 1, 1)
    OBVIOUS
  <2>5. page = d
    <3>1. \A i \in 1..1 : TagStart[i] \in Chars
      BY Marks, ElementOfSeq
    <3>2. /\ d \in Seq(Chars) /\ Len(d) = (IF 1 <= 1 THEN 1 - 1 + 1 ELSE 0)
          /\ \A i \in 1..(1 - 1 + 1) : d[i] = TagStart[1 + i - 1]
      BY <2>4, <3>1, SubSeqProperties
    <3>3. d \in Seq(Chars) /\ Len(d) = 1 /\ d[1] = "<"
      BY <3>2, Marks
    <3>4. \A i \in 1..Len(d) : d[i] = page[i]
      BY <2>3, <3>3
    <3>5. QED
      BY <1>1, <2>1, <3>3, <3>4, SeqEqual
  <2>6. QED
    BY <2>4, <2>5 DEF FirstIsEmpty
<1>3. CASE TagStartsAt(page, 1)
  <2>1. Len(page) >= 2 /\ page[1] = TagStart[1] /\ page[2] = TagStart[2]
    BY <1>1, <1>3 DEF TagStartsAt
  <2>2. PICK d : d = SubSeq(page, 1, 2)
    OBVIOUS
  <2>3. \A i \in 1..2 : page[i] \in Chars
    <3>1. \A i \in 1..2 : i \in 1..Len(page)
      BY <1>1, <2>1
    <3>2. QED
      BY <1>1, <3>1, ElementOfSeq
  <2>4. /\ d \in Seq(Chars) /\ Len(d) = (IF 1 <= 2 THEN 2 - 1 + 1 ELSE 0)
        /\ \A i \in 1..(2 - 1 + 1) : d[i] = page[1 + i - 1]
    BY <2>2, <2>3, SubSeqProperties
  <2>5. d \in Seq(Chars) /\ Len(d) = 2 /\ d[1] = page[1] /\ d[2] = page[2]
    BY <2>4
  <2>6. \A i \in 1..Len(d) : d[i] = TagStart[i]
    BY <2>1, <2>5
  <2>7. d = TagStart
    BY <2>5, <2>6, Marks, SeqEqual
  <2>8. QED
    BY <2>1, <2>2, <2>7 DEF FirstIsEmpty
<1>4. QED
  BY <1>2, <1>3

(* The value of a tag fits. *)
LEMMA ValueFits ==
  ASSUME TypeOK, Where, Framing, ReplaceTag, pc' # "undefined"
  PROVE  /\ out' \in Seq(Text) /\ Len(out') < Cap
         /\ pc' = "scan"
         /\ ~cut' => ~cut /\ out' = out \o Value(tagName)
<1> DEFINE v == Value(tagName)
           n == IF v = <<>> THEN 0 ELSE Min({Len(v), room - Len(out) - SLACK})
<1>1. v \in Seq(Text) /\ Len(v) \in Nat /\ out \in Seq(Text) /\ Len(out) \in Nat /\ room \in Int
      /\ SLACK \in Nat /\ SLACK >= 1
  BY ValueType, LenProperties, PageAssumption DEF TypeOK
<1>2. /\ out' = out \o SubSeq(v, 1, n) /\ cut' = (cut \/ n < Len(v)) /\ pc = "scan"
      /\ pc' = IF n < 0 THEN "undefined" ELSE pc
  BY DEF ReplaceTag, Scanning
<1>3. n \in Int /\ n <= Len(v) /\ (n = 0 \/ Len(out) + n < room)
  <2>0. room - Len(out) - SLACK \in Int
    BY <1>1
  <2>1. PICK a \in Nat, b \in Int : a = Len(v) /\ b = room - Len(out) - SLACK
    BY <1>1, <2>0
  <2>2. Min({a, b}) \in {a, b} /\ Min({a, b}) <= a /\ Min({a, b}) <= b
    BY MinOfTwo
  <2>3. n = 0 \/ n = Min({a, b})
    BY <2>1
  <2>4. QED
    BY <1>1, <2>1, <2>2, <2>3
<1> HIDE DEF v, n
<1>4. n \in Nat /\ pc' = "scan"
  BY <1>2, <1>3
<1>5. SubSeq(v, 1, n) \in Seq(Text) /\ Len(SubSeq(v, 1, n)) = n
  <2>1. \A i \in 1..n : i \in 1..Len(v)
    BY <1>1, <1>3, <1>4
  <2>2. \A i \in 1..n : v[i] \in Text
    BY <1>1, <2>1, ElementOfSeq
  <2>3. SubSeq(v, 1, n) \in Seq(Text) /\ Len(SubSeq(v, 1, n)) = IF 1 <= n THEN n - 1 + 1 ELSE 0
    BY <1>3, <2>2, SubSeqProperties
  <2>4. QED
    BY <1>4, <2>3
<1>6. out' \in Seq(Text) /\ Len(out') = Len(out) + n
  BY <1>1, <1>2, <1>5, ConcatProperties
<1>7. Len(out) < Cap
  BY <1>2 DEF Framing
<1>8. Len(out') < Cap
  BY <1>1, <1>3, <1>4, <1>6, <1>7 DEF Cap
<1>9. ASSUME ~cut' PROVE ~cut /\ out' = out \o v
  <2>0. ~cut /\ ~(n < Len(v))
    BY <1>2, <1>9
  <2>1. ~cut /\ n = Len(v)
    BY <1>1, <1>3, <2>0
  <2>2. SubSeq(v, 1, Len(v)) = v
    BY <1>1, SubSeqFull
  <2>3. QED
    BY <1>2, <2>1, <2>2
<1>10. QED
  BY <1>4, <1>6, <1>8, <1>9 DEF v

(* Every step keeps what is known about the chunk being made. *)
LEMMA FramingStep == TypeOK /\ Where /\ Framing /\ [Next]_vars => Framing'
<1> SUFFICES ASSUME TypeOK, Where, Framing, [Next]_vars PROVE Framing'
  OBVIOUS
<1>0. /\ index \in Nat /\ Len(cache) \in Nat /\ At \in Nat /\ Len(page) \in Nat
      /\ index <= Len(page) /\ index = At + Len(cache)
      /\ Len(out) \in Nat /\ room \in Int /\ Len(wire) \in Nat
  BY Numbers, LenProperties, PageAssumption DEF TypeOK
<1>1. FirstIsEmpty' <=> FirstIsEmpty
  BY PageStays DEF FirstIsEmpty
<1>2. ASSUME pc \notin {"idle", "end"} \/ stage # "END"
      PROVE  \A i \in 1..Len(wire) : ~wire[i].last
  BY <1>2 DEF Framing
<1>3. out = <<>> <=> Len(out) = 0
  BY EmptySeq DEF TypeOK
<1>4. CASE OnHttpSent \/ OnHttpPoll
  <2>1. Loading \/ Ended
    BY <1>4, Callbacks
  <2>2. CASE Loading
    <3>1. /\ pc = "idle" /\ stage # "END" /\ bare' = (stage = "first" /\ index = 0)
          /\ index' = index /\ ssiState' = ssiState /\ wire' = wire /\ room' \in Int
      BY <2>2, PageAssumption DEF Loading, Load, IsFirst, file
    <3>2. \A i \in 1..Len(wire') : ~wire'[i].last
      BY <1>2, <3>1
    <3>3. CASE AllRead /\ cache # <<>> /\ stage' = "END" /\ pc' = "frame"
      <4>1. stage # "first"
        BY <3>1, <3>3 DEF Framing
      <4>2. ~bare'
        BY <3>1, <4>1
      <4>3. wire # <<>> \/ FirstIsEmpty
        BY <3>1, <4>1 DEF Framing
      <4>4. QED
        BY <1>1, <3>1, <3>2, <3>3, <4>2, <4>3 DEF Framing, Calling
    <3>4. CASE AllRead /\ cache = <<>> /\ stage' = "END" /\ pc' = "end" /\ out' = out
      <4>1. stage = "first"
        BY <3>1, <3>4 DEF Where, TypeOK
      <4>2. out' = <<>>
        BY <3>1, <3>4, <4>1 DEF Framing
      <4>3. QED
        BY <3>1, <3>2, <3>4, <4>2 DEF Framing, Calling
    <3>5. CASE ~AllRead /\ out' = <<>> /\ pc' = "fill" /\ cache' = cache /\ stage' = stage
      <4>1. Len(out') = 0 /\ Len(out') < Cap'
        <5>1. Len(out') = 0
          BY <3>5, EmptySeq
        <5>2. QED
          BY <3>1, <5>1 DEF Cap
      <4>2. ASSUME stage = "first"
            PROVE  bare' /\ At' = 0 /\ wire = <<>> /\ ssiState = 1
        <5>1. index = 0 /\ cache = <<>> /\ wire = <<>> /\ ssiState = 1
          BY <3>1, <4>2 DEF Framing
        <5>2. Len(cache) = 0
          BY <5>1, EmptySeq
        <5>3. At' = 0
          <6>1. Len(cache') = 0 /\ index' = 0
            BY <3>1, <3>5, <5>1, <5>2
          <6>2. QED
            BY <6>1 DEF At
        <5>4. QED
          BY <3>1, <4>2, <5>1, <5>3
      <4>3. ASSUME stage # "first" PROVE ~bare' /\ (wire # <<>> \/ FirstIsEmpty)
        BY <3>1, <4>3 DEF Framing
      <4>4. QED
        BY <1>1, <3>1, <3>2, <3>5, <4>1, <4>2, <4>3 DEF Framing, Calling
    <3>6. QED
      BY <2>2, <3>3, <3>4, <3>5 DEF Loading, Load
  <2>3. CASE Ended
    BY <2>3 DEF Ended, Framing, Calling
  <2>4. QED
    BY <2>1, <2>2, <2>3
<1>5. CASE Fill
  <2>1. /\ pc = "fill" /\ UNCHANGED <<ssiState, room, out, bare, wire>>
        /\ Cap' = Cap /\ Len(out) < Cap /\ (bare => stage = "first" /\ Len(out) = At)
        /\ ~bare => wire # <<>> \/ FirstIsEmpty
    BY <1>5 DEF Fill, Cap, Framing, Calling
  <2>2. \A i \in 1..Len(wire') : ~wire'[i].last
    BY <1>2, <2>1
  <2>3. CASE AllRead
    <3>1. pc' = "frame" /\ stage' \in {"END", "more"}
      BY <1>5, <2>3 DEF Fill, Done
    <3>2. ASSUME bare PROVE wire = <<>> /\ (out = <<>> => FirstIsEmpty)
      <4>1. wire = <<>> /\ ssiState = 1 /\ Len(out) = At
        BY <2>1, <3>2 DEF Framing
      <4>2. Starved /\ page # <<>>
        BY <2>1, <2>3 DEF Where, Calling
      <4>3. QED
        BY <1>3, <2>3, <4>1, <4>2, NothingFirst
    <3>3. Len(out) <= Cap
      BY <1>0, <2>1 DEF Cap
    <3>4. QED
      BY <1>1, <2>1, <2>2, <3>1, <3>2, <3>3 DEF Framing, Calling
  <2>4. CASE ~AllRead
    <3>1. pc' = "scan" /\ stage' = stage /\ At' = At
      BY <1>5, <2>4, Filled DEF Fill
    <3>2. stage = "first" => bare /\ wire = <<>> /\ ssiState = 1
      BY <2>1 DEF Framing
    <3>3. QED
      BY <1>1, <2>1, <2>2, <3>1, <3>2 DEF Framing, Calling
  <2>5. QED
    BY <2>3, <2>4
<1>6. CASE NeedMore
  <2>1. pc = "scan" /\ pc' = "fill" /\ UNCHANGED <<file, ssi, stage, room, out, bare, wire>>
    BY <1>6 DEF NeedMore
  <2>2. At' = At /\ Cap' = Cap
    BY <2>1 DEF At, Cap, file, ssi
  <2>3. \A i \in 1..Len(wire') : ~wire'[i].last
    BY <1>2, <2>1
  <2>4. QED
    BY <1>1, <2>1, <2>2, <2>3 DEF Framing, Calling, ssi
<1>7. CASE CopyText
  <2>1. /\ pc = "scan" /\ UNCHANGED <<file, ssiState, room, bare, wire>> /\ ssiState = 1
        /\ Cap' = Cap /\ Len(out) < Cap /\ (bare => stage = "first" /\ Len(out) = At)
        /\ ~bare => wire # <<>> \/ FirstIsEmpty
    BY <1>7 DEF CopyText, Scanning, Cap, Framing, Calling
  <2>2. \A i \in 1..Len(wire') : ~wire'[i].last
    BY <1>2, <2>1
  <2>3. 1 \in 1..2 /\ 1 <= Len(cache) /\ 1 \in 1..Len(cache)
    BY <1>0, <1>7, Front DEF CopyText
  <2>4. At' = At + 1
    BY <1>7, <2>1, <2>3, Consumed DEF CopyText
  <2>5. Len(out') = Len(out) + 1
    <3>1. cache[1] \in Chars
      BY <2>3, ElementOfSeq DEF TypeOK
    <3>2. cache[1] \in Text /\ out \in Seq(Text) /\ out' = Append(out, cache[1])
      BY <1>7, <3>1 DEF Text, CopyText, TypeOK
    <3>3. QED
      BY <3>2, AppendProperties
  <2>6. Len(out') <= Cap /\ out' # <<>>
    BY <1>0, <2>1, <2>5, EmptySeq DEF Cap
  <2>7. stage = "first" => bare /\ wire = <<>>
    BY <2>1 DEF Framing
  <2>8. CASE Len(out') >= room
    <3>1. pc' = "frame" /\ stage' \in {"END", "more"}
      BY <1>7, <2>8 DEF CopyText, Done
    <3>2. QED
      BY <1>1, <2>1, <2>2, <2>6, <2>7, <3>1 DEF Framing, Calling
  <2>9. CASE ~(Len(out') >= room)
    <3>1. pc' = "scan" /\ stage' = stage
      BY <1>7, <2>1, <2>9 DEF CopyText
    <3>2. Len(out') < Cap' /\ (bare => Len(out') = At')
      BY <1>0, <2>1, <2>4, <2>5, <2>9 DEF Cap
    <3>3. QED
      BY <1>1, <2>1, <2>2, <2>7, <3>1, <3>2 DEF Framing, Calling
  <2>10. QED
    BY <2>8, <2>9
<1>8. CASE TagFound
  <2>1. /\ pc = "scan" /\ UNCHANGED <<out, room, bare, wire>> /\ ssiState = 1
        /\ Cap' = Cap /\ Len(out) < Cap /\ (bare => stage = "first" /\ Len(out) = At)
        /\ ~bare => wire # <<>> \/ FirstIsEmpty
        /\ pc' = "frame" /\ stage' \in {"END", "more"}
    BY <1>8 DEF TagFound, Done, Scanning, Cap, Framing, Calling
  <2>2. \A i \in 1..Len(wire') : ~wire'[i].last
    BY <1>2, <2>1
  <2>3. ASSUME bare PROVE wire = <<>> /\ (out = <<>> => FirstIsEmpty)
    <3>1. wire = <<>> /\ Len(out) = At
      BY <2>1, <2>3 DEF Framing
    <3>2. TagStartsAt(page, At + 1)
      BY <1>8, Front DEF TagFound
    <3>3. At = 0 => TagStartsAt(page, 1)
      BY <3>2
    <3>4. QED
      BY <1>3, <2>1, <3>1, <3>3, NothingFirst
  <2>4. Len(out) <= Cap
    BY <1>0, <2>1 DEF Cap
  <2>5. QED
    BY <1>1, <2>1, <2>2, <2>3, <2>4 DEF Framing, Calling
<1>9. CASE CopyName
  <2>1. /\ pc = "scan" /\ UNCHANGED <<stage, out, room, bare, wire>> /\ ssiState = 2
        /\ pc' \in {"scan", "undefined"}
        /\ Cap' = Cap /\ Len(out) < Cap /\ stage # "first" /\ ~bare
        /\ wire # <<>> \/ FirstIsEmpty
    BY <1>9 DEF CopyName, Scanning, Cap, Framing, Calling
  <2>2. \A i \in 1..Len(wire') : ~wire'[i].last
    BY <1>2, <2>1
  <2>3. QED
    BY <1>1, <2>1, <2>2 DEF Framing, Calling
<1>10. CASE ReplaceTag
  <2>1. /\ pc = "scan" /\ UNCHANGED <<stage, room, bare, wire>> /\ ssiState = 2
        /\ Cap' = Cap /\ stage # "first" /\ ~bare
        /\ wire # <<>> \/ FirstIsEmpty
    BY <1>10 DEF ReplaceTag, Scanning, Cap, Framing, Calling
  <2>2. \A i \in 1..Len(wire') : ~wire'[i].last
    BY <1>2, <2>1
  <2>3. CASE pc' = "undefined"
    BY <2>1, <2>2, <2>3 DEF Framing, Calling
  <2>4. CASE pc' # "undefined"
    <3>1. pc' = "scan" /\ Len(out') < Cap'
      BY <1>10, <2>1, <2>4, ValueFits
    <3>2. QED
      BY <1>1, <2>1, <2>2, <3>1 DEF Framing, Calling
  <2>5. QED
    BY <2>3, <2>4
<1>11. CASE Frame
  <2>1. /\ pc = "frame" /\ pc' = "idle" /\ UNCHANGED <<stage, room, out, bare>> /\ stage # "first"
        /\ bare => wire = <<>> /\ (out = <<>> => FirstIsEmpty)
        /\ ~bare => wire # <<>> \/ FirstIsEmpty
    BY <1>11 DEF Frame, Framing, Calling
  <2>2. \A i \in 1..Len(wire) : ~wire[i].last
    BY <1>2, <2>1
  <2>3. CASE out = <<>>
    <3>1. wire' = wire
      BY <1>11, <2>3 DEF Frame
    <3>2. QED
      BY <1>1, <2>1, <2>2, <2>3, <3>1 DEF Framing, Calling
  <2>4. CASE out # <<>>
    <3>1. PICK x : x = [crlf |-> ~bare, data |-> out, last |-> IsLast, room |-> room]
      OBVIOUS
    <3>2. x \in Chunks /\ wire \in Seq(Chunks) /\ wire' = Append(wire, x) /\ (x.last <=> stage = "END")
      <4>1. x \in Chunks /\ (x.last <=> stage = "END")
        <5>1. room \in Int /\ bare \in BOOLEAN /\ IsLast \in BOOLEAN /\ out \in Seq(Text)
          BY PageAssumption DEF TypeOK, IsLast
        <5>2. QED
          BY <3>1, <5>1 DEF Chunks, IsLast
      <4>2. wire \in Seq(Chunks) /\ wire' = Append(wire, x)
        BY <1>11, <2>4, <3>1 DEF TypeOK, Chunks, Frame
      <4>3. QED
        BY <4>1, <4>2
    <3>3. /\ Len(wire') = Len(wire) + 1 /\ wire'[Len(wire')] = x
          /\ \A i \in 1..Len(wire) : wire'[i] = wire[i]
      BY <1>0, <3>2, AppendProperties
    <3>4. wire' # <<>>
      BY <1>0, <3>3, EmptySeq
    <3>5. ASSUME NEW i \in 1..Len(wire'), wire'[i].last PROVE stage' = "END"
      <4>1. i \in 1..Len(wire) \/ i = Len(wire')
        BY <1>0, <3>3
      <4>2. i = Len(wire')
        BY <2>2, <3>3, <3>5, <4>1
      <4>3. QED
        BY <2>1, <3>2, <3>3, <3>5, <4>2
    <3>6. QED
      BY <2>1, <3>2, <3>3, <3>4, <3>5 DEF Framing, Calling
  <2>5. QED
    BY <2>3, <2>4
<1>12. CASE UNCHANGED vars
  <2>1. UNCHANGED <<page, index, cache, ssiState, stage, room, out, pc, bare, wire>>
    BY <1>12 DEF vars, file, ssi
  <2>2. At' = At /\ Cap' = Cap /\ (Calling' <=> Calling)
    BY <2>1 DEF At, Cap, Calling
  <2>3. QED
    BY <1>1, <2>1, <2>2 DEF Framing
<1>13. QED
  BY <1>4, <1>5, <1>6, <1>7, <1>8, <1>9, <1>10, <1>11, <1>12 DEF Next, Read

(* Every step keeps the chunks framed. *)
LEMMA FramedStep == TypeOK /\ Where /\ Framing /\ Framed /\ [Next]_vars => Framed'
<1> SUFFICES ASSUME TypeOK, Where, Framing, Framed, [Next]_vars PROVE Framed'
  OBVIOUS
<1>0. FirstIsEmpty' <=> FirstIsEmpty
  BY PageStays DEF FirstIsEmpty
<1>1. CASE wire' = wire
  BY <1>0, <1>1 DEF Framed
<1>2. CASE Frame /\ out # <<>>
  <2>1. PICK x : x = [crlf |-> ~bare, data |-> out, last |-> IsLast, room |-> room]
    OBVIOUS
  <2>2. x \in Chunks /\ wire \in Seq(Chunks) /\ wire' = Append(wire, x)
    BY <1>2, <2>1, PageAssumption DEF TypeOK, IsLast, Chunks, Frame
  <2>3. /\ x.crlf = ~bare /\ x.last = (stage = "END") /\ x.room = room /\ x.data = out
    BY <2>1 DEF IsLast
  <2>4. /\ Len(wire) \in Nat /\ Len(wire') = Len(wire) + 1 /\ wire'[Len(wire) + 1] = x
        /\ \A i \in 1..Len(wire) : wire'[i] = wire[i]
    BY <2>2, AppendProperties, LenProperties
  <2>5. \A i \in 1..Len(wire) : ~wire[i].last
    BY <1>2 DEF Frame, Framing
  <2>6. ASSUME NEW i \in 1..Len(wire)
        PROVE  /\ wire'[i].crlf = (i > 1) \/ FirstIsEmpty'
               /\ wire'[i].last => i = Len(wire')
               /\ Len(wire'[i].data) <= Max({wire'[i].room, 1}) \/ wire'[i].last
    BY <1>0, <2>4, <2>5 DEF Framed
  <2>7. x.crlf = (Len(wire) + 1 > 1) \/ FirstIsEmpty
    <3>1. CASE bare
      <4>1. Len(wire) = 0
        BY <1>2, <3>1, EmptySeq DEF Frame, Framing
      <4>2. QED
        BY <2>3, <3>1, <4>1
    <3>2. CASE ~bare
      <4>1. wire # <<>> \/ FirstIsEmpty
        BY <1>2, <3>2 DEF Frame, Framing, Calling
      <4>2. wire # <<>> => Len(wire) > 0
        BY <2>2, <2>4, EmptySeq
      <4>3. wire # <<>> => (Len(wire) + 1 > 1) = TRUE
        BY <2>4, <4>2
      <4>4. QED
        BY <2>3, <3>2, <4>1, <4>3
    <3>3. QED
      BY <3>1, <3>2
  <2>8. Len(x.data) <= Max({x.room, 1}) \/ x.last
    <3>1. Len(out) <= Cap \/ x.last
      BY <1>2, <2>3 DEF Frame, Framing
    <3>2. room \in Int
      BY PageAssumption DEF TypeOK
    <3>3. Max({room, 1}) = Cap
      BY <3>2, MaxOfTwo DEF Cap
    <3>4. QED
      BY <2>3, <3>1, <3>3
  <2>9. ASSUME NEW i \in 1..Len(wire')
        PROVE  /\ wire'[i].crlf = (i > 1) \/ FirstIsEmpty'
               /\ wire'[i].last => i = Len(wire')
               /\ Len(wire'[i].data) <= Max({wire'[i].room, 1}) \/ wire'[i].last
    <3>1. CASE i \in 1..Len(wire)
      BY <2>6, <3>1
    <3>2. CASE i = Len(wire) + 1
      BY <1>0, <2>4, <2>7, <2>8, <3>2
    <3>3. QED
      BY <2>4, <3>1, <3>2
  <2>10. QED
    BY <2>9 DEF Framed
<1>3. wire' = wire \/ (Frame /\ out # <<>>)
  BY DEF Next, Read, vars, OnHttpSent, OnHttpPoll, Load, Fill, NeedMore, CopyText,
         TagFound, CopyName, ReplaceTag, Frame
<1>4. QED
  BY <1>1, <1>2, <1>3

(* What ChunksAreFramed adds is about the end. *)
LEMMA FramingImplies == TypeOK /\ Where /\ Framing /\ Framed => ChunksAreFramed
BY DEF Framing, Framed, ChunksAreFramed, Where

-----------------------------------------------------------------------------
(***************************************************************************)
(* The tag that is being read.                                             *)
(***************************************************************************)

(* No tag is being read at first. *)
LEMMA TagInit == Init => Tag
BY DEF Init, Tag

(* Every step keeps what is known about the tag being read. *)
LEMMA TagStep == TypeOK /\ Where /\ Tag /\ [Next]_vars => Tag'
<1> SUFFICES ASSUME TypeOK, Where, Tag, [Next]_vars PROVE Tag'
  OBVIOUS
<1>0. /\ index \in Nat /\ Len(cache) \in Nat /\ At \in Nat /\ Len(page) \in Nat
      /\ index <= Len(page) /\ index = At + Len(cache) /\ Len(tagName) \in Nat
      /\ Len(cache) <= CACHE /\ CACHE \in Nat
      /\ AllRead <=> index = Len(page)
      /\ Start = At - 1 - Len(tagName)
  BY Numbers DEF Start
<1>1. page' = page /\ (LateTag' <=> LateTag)
  BY PageStays DEF LateTag
<1>2. ASSUME UNCHANGED <<ssiState, tagName>>, stage' # "END" => stage # "END",
             At' = At,
             ssiState = 2 /\ pc' \in {"frame", "idle"} /\ stage' = "more" /\ AllRead' => LateTag \/ Starved'
      PROVE  Tag'
  <2>1. Start' = Start
    BY <1>2 DEF Start
  <2>2. QED
    BY <1>1, <1>2, <2>1 DEF Tag
<1>3. ASSUME UNCHANGED <<index, cache>> PROVE At' = At /\ (AllRead' <=> AllRead)
  BY <1>1, <1>3 DEF At, AllRead
<1>4. CASE OnHttpSent \/ OnHttpPoll
  <2>1. Loading \/ Ended
    BY <1>4, Callbacks
  <2>2. CASE Loading
    <3>1. UNCHANGED <<index, ssiState, tagName>> /\ stage # "END"
      BY <2>2 DEF Loading, Load, file
    <3>2. CASE stage' = "END"
      BY <3>1, <3>2 DEF Tag
    <3>3. CASE cache' = cache /\ pc' = "fill"
      <4>1. At' = At
        BY <1>3, <3>1, <3>3
      <4>2. QED
        BY <1>2, <3>1, <3>3, <4>1
    <3>4. QED
      BY <2>2, <3>2, <3>3 DEF Loading, Load
  <2>3. CASE Ended
    <3>1. UNCHANGED <<index, cache, ssiState, tagName, stage>> /\ stage = "END"
      BY <2>3 DEF Ended, file, ssi
    <3>2. QED
      BY <3>1 DEF Tag
  <2>4. QED
    BY <2>1, <2>2, <2>3
<1>5. CASE Fill
  <2>1. pc = "fill" /\ UNCHANGED <<ssiState, tagName>> /\ stage # "END"
    BY <1>5 DEF Fill, Where
  <2>2. CASE AllRead
    <3>1. UNCHANGED <<index, cache>>
      BY <1>5, <2>2 DEF Fill
    <3>2. Starved'
      BY <2>1, <2>2, <3>1 DEF Starved, Mark, Where
    <3>3. QED
      BY <1>2, <1>3, <2>1, <3>1, <3>2
  <2>3. CASE ~AllRead
    <3>1. pc' = "scan" /\ stage' = stage /\ At' = At
      BY <1>5, <2>3, Filled DEF Fill
    <3>2. QED
      BY <1>2, <2>1, <3>1
  <2>4. QED
    BY <2>2, <2>3
<1>6. CASE NeedMore
  <2>1. pc' = "fill" /\ UNCHANGED <<index, cache, ssiState, tagName, stage>>
    BY <1>6 DEF NeedMore, file, ssi
  <2>2. QED
    BY <1>2, <1>3, <2>1
<1>7. CASE CopyText
  BY <1>7 DEF CopyText, Tag
<1>8. CASE TagFound
  <2>1. /\ ssiState = 1 /\ ssiState' = 2 /\ tagName' = tagName /\ UNCHANGED file /\ cache' = Drop(cache, 2)
    BY <1>8, Marks DEF TagFound
  <2>2. TagStartsAt(page, At + 1) /\ 2 \in 1..2 /\ 2 <= Len(cache) /\ At + 1 \in 1..Len(page)
    BY <1>8, Front DEF TagFound
  <2>3. At' = At + 2
    BY <2>1, <2>2, Consumed
  <2>4. tagName' = <<>> /\ Len(tagName') = 0
    BY <2>1, EmptySeq DEF Tag
  <2>5. Start' = At + 1
    BY <1>0, <2>3, <2>4 DEF Start
  <2>6. ASSUME AllRead' PROVE LateTag'
    <3>1. index = Len(page)
      BY <1>0, <1>1, <2>1, <2>6 DEF AllRead, file
    <3>2. At + 1 \in 1..(Len(page) - 1) /\ At + 1 + CACHE > Len(page)
      BY <1>0, <2>2, <3>1
    <3>3. LateTag
      BY <2>2, <3>2 DEF LateTag
    <3>4. QED
      BY <1>1, <3>3
  <2>7. At + 1 >= 1 /\ (At + 1 + 2)..(At + 2) = {} /\ 1..0 = {}
    BY <1>0
  <2>8. QED
    BY <1>1, <2>1, <2>2, <2>3, <2>4, <2>5, <2>6, <2>7 DEF Tag
<1>9. CASE CopyName
  <2>1. /\ ssiState = 2 /\ UNCHANGED <<file, ssiState, stage>> /\ cache' = Drop(cache, 1)
        /\ tagName' = Append(tagName, cache[1]) /\ pc = "scan" /\ pc' \in {"scan", "undefined"}
    BY <1>9 DEF CopyName, Scanning
  <2>2. /\ ~TagEndsAt(page, At + 1) /\ 1 \in 1..2 /\ 1 <= Len(cache) /\ At + 1 \in 1..Len(page)
        /\ cache[1] = page[At + 1]
        /\ At + 1 = Len(page) => page[Len(page)] # TagEnd[1]
    BY <1>9, Front DEF CopyName
  <2>3. At' = At + 1
    BY <2>1, <2>2, Consumed
  <2>4. /\ Len(tagName') = Len(tagName) + 1 /\ tagName'[Len(tagName) + 1] = cache[1]
        /\ \A k \in 1..Len(tagName) : tagName'[k] = tagName[k]
    <3>1. cache[1] \in Chars /\ tagName \in Seq(Chars)
      BY <2>2, PageType, ElementOfSeq DEF TypeOK
    <3>2. QED
      BY <2>1, <3>1, AppendProperties
  <2>5. Start' = Start
    BY <1>0, <2>3, <2>4 DEF Start
  <2>6. stage # "END"
    BY <2>1 DEF Where
  <2>7. /\ Start >= 1 /\ TagStartsAt(page, Start)
        /\ \A k \in 1..Len(tagName) : tagName[k] = page[Start + 1 + k]
        /\ \A j \in (Start + 2)..At : ~TagEndsAt(page, j)
    BY <2>1, <2>6 DEF Tag
  <2>8. ASSUME NEW k \in 1..Len(tagName') PROVE tagName'[k] = page[Start + 1 + k]
    <3>0. PICK n \in Nat : n = Len(tagName) /\ k \in 1..(n + 1)
      BY <1>0, <2>4
    <3>1. k \in 1..Len(tagName) \/ (k = Len(tagName) + 1 /\ Start + 1 + k = At + 1)
      BY <1>0, <3>0
    <3>2. QED
      BY <2>2, <2>4, <2>7, <3>1
  <2>9. ASSUME NEW j \in (Start + 2)..At' PROVE ~TagEndsAt(page, j)
    <3>1. j \in (Start + 2)..At \/ j = At + 1
      BY <1>0, <2>3, <2>7
    <3>2. QED
      BY <2>2, <2>7, <3>1
  <2>10. At' = Len(page) => page[Len(page)] # TagEnd[1]
    BY <2>2, <2>3
  <2>11. QED
    BY <1>1, <2>1, <2>5, <2>7, <2>8, <2>9, <2>10 DEF Tag
<1>10. CASE ReplaceTag
  BY <1>10 DEF ReplaceTag, NextName, Tag
<1>11. CASE Frame
  <2>1. pc = "frame" /\ UNCHANGED <<index, cache, ssiState, tagName, stage>>
    BY <1>11 DEF Frame, file, ssi
  <2>2. Starved' <=> Starved
    BY <2>1 DEF Starved, Mark
  <2>3. ssiState = 2 /\ stage = "more" /\ AllRead => LateTag \/ Starved
    BY <2>1 DEF Tag
  <2>4. QED
    BY <1>2, <1>3, <2>1, <2>2, <2>3
<1>12. CASE UNCHANGED vars
  <2>1. UNCHANGED <<index, cache, ssiState, tagName, stage, pc>>
    BY <1>12 DEF vars, file, ssi
  <2>2. Starved' <=> Starved
    BY <2>1 DEF Starved, Mark
  <2>3. ssiState = 2 /\ pc \in {"frame", "idle"} /\ stage = "more" /\ AllRead => LateTag \/ Starved
    BY DEF Tag
  <2>4. QED
    BY <1>2, <1>3, <2>1, <2>2, <2>3
<1>13. QED
  BY <1>4, <1>5, <1>6, <1>7, <1>8, <1>9, <1>10, <1>11, <1>12 DEF Next, Read

-----------------------------------------------------------------------------
(***************************************************************************)
(* What was produced.                                                      *)
(***************************************************************************)

(* All that is produced is text. *)
LEMMA OutputType ==
  ASSUME TypeOK
  PROVE  Output \in Seq(Text) /\ Body(wire) \in Seq(Text) /\ out \in Seq(Text)
<1>1. Body(wire) \in Seq(Text)
  BY BodyType DEF TypeOK, Chunks
<1>2. out \in Seq(Text)
  BY DEF TypeOK
<1>3. QED
  BY <1>1, <1>2, ConcatProperties DEF Output

(* A part of the page is still to be produced. *)
LEMMA PendingType ==
  ASSUME TypeOK, Where, Tag, stage # "END"
  PROVE  Pending \in 1..(Len(page) + 1) /\ SubstitutedFrom(page)[Pending] \in Seq(Text)
<1>1. /\ index \in Nat /\ Len(cache) \in Nat /\ At \in Nat /\ Len(page) \in Nat
      /\ index <= Len(page) /\ index = At + Len(cache) /\ Len(tagName) \in Nat
      /\ Start = At - 1 - Len(tagName)
  BY Numbers DEF Start
<1>2. CASE ssiState = 1
  <2>1. Pending \in 1..(Len(page) + 1)
    BY <1>1, <1>2 DEF Pending
  <2>2. QED
    BY <2>1, PageType, SubValues
<1>3. CASE ssiState = 2
  <2>1. Start >= 1 /\ Start < Len(page)
    BY <1>3 DEF Tag, TagStartsAt
  <2>2. Pending \in 1..(Len(page) + 1)
    BY <1>1, <1>3, <2>1 DEF Pending
  <2>3. QED
    BY <2>2, PageType, SubValues
<1>4. QED
  BY <1>2, <1>3 DEF TypeOK

(* At the end of the file, the cache is what is left to be produced. *)
LEMMA RestOfPage ==
  ASSUME TypeOK, Where, Tag, AllRead, ~LateTag, stage # "END", ssiState = 1 \/ Starved
  PROVE  SubstitutedFrom(page)[Pending] = cache
<1>1. /\ index \in Nat /\ Len(cache) \in Nat /\ At \in Nat /\ Len(page) \in Nat
      /\ index = At + Len(cache) /\ Len(tagName) \in Nat
      /\ Start = At - 1 - Len(tagName)
      /\ index = Len(page) /\ Len(cache) <= CACHE /\ CACHE \in Nat
  BY Numbers DEF Start
<1>2. page \in Seq(Chars) /\ cache \in Seq(Text)
  BY PageType, CharsAreText DEF TypeOK
<1>3. CASE ssiState = 1
  <2>1. At + 1 \in 1..(Len(page) + 1) /\ Len(cache) = Len(page) + 1 - (At + 1)
    BY <1>1
  <2>2. ASSUME NEW k \in 1..Len(cache) PROVE cache[k] = page[At + 1 - 1 + k]
    <3>1. At + 1 - 1 + k = At + k
      BY <1>1
    <3>2. QED
      BY <3>1 DEF Where
  <2>3. ASSUME NEW i \in (At + 1)..Len(page) PROVE ~TagStartsAt(page, i)
    <3>1. SUFFICES ASSUME TagStartsAt(page, i) PROVE FALSE
      OBVIOUS
    <3>2. i < Len(page)
      BY <3>1 DEF TagStartsAt
    <3>3. i \in 1..(Len(page) - 1) /\ i + CACHE > Len(page)
      BY <1>1, <3>2
    <3>4. QED
      BY <3>1, <3>3 DEF LateTag
  <2>4. PICK m \in 1..(Len(page) + 1) : m = At + 1
    BY <2>1
  <2>5. SubstitutedFrom(page)[m] = cache
    <3>1. Len(cache) = Len(page) + 1 - m
      BY <2>1, <2>4
    <3>2. ASSUME NEW k \in 1..Len(cache) PROVE cache[k] = page[m - 1 + k]
      <4>1. At + 1 - 1 + k = m - 1 + k
        BY <1>1, <2>4
      <4>2. QED
        BY <2>2, <4>1
    <3>3. \A i \in m..Len(page) : ~TagStartsAt(page, i)
      BY <2>3, <2>4
    <3>4. QED
      BY <1>2, <3>1, <3>2, <3>3, PlainRest
  <2>6. QED
    BY <1>3, <2>4, <2>5 DEF Pending
<1>4. CASE ssiState = 2 /\ Starved
  <2>1. /\ Start >= 1 /\ TagStartsAt(page, Start) /\ Start < Len(page)
        /\ \A j \in (Start + 2)..At : ~TagEndsAt(page, j)
        /\ At = Len(page) /\ tagName # <<>> => page[Len(page)] # TagEnd[1]
    BY <1>4 DEF Tag, TagStartsAt
  <2>2. Len(cache) <= 1
    <3>1. Len(cache) = 0 \/ Len(cache) = 1
      BY <1>4, EmptySeq DEF Starved
    <3>2. QED
      BY <3>1
  <2>3. EndsOf(page, Start) = {}
    <3>1. SUFFICES ASSUME NEW j \in (Start + 2)..Len(page), TagEndsAt(page, j) PROVE FALSE
      BY DEF EndsOf
    <3>2. j < Len(page)
      BY <3>1 DEF TagEndsAt
    <3>3. j \in (Start + 2)..At
      BY <1>1, <2>1, <2>2, <3>2
    <3>4. QED
      BY <2>1, <3>1, <3>3
  <2>4. Start \in 1..Len(page)
    BY <1>1, <2>1
  <2>5. SubstitutedFrom(page)[Start] = Unclosed(page, Start)
    <3>1. PICK i \in 1..Len(page) : i = Start
      BY <2>4
    <3>2. QED
      BY <1>2, <2>1, <2>3, <3>1, SubValues
  <2>6. CASE cache = <<>>
    <3>1. At = Len(page)
      BY <1>1, <2>6, EmptySeq
    <3>2. Start + 2 <= Len(page) => tagName # <<>>
      BY <1>1, <3>1, EmptySeq
    <3>3. Unclosed(page, Start) = <<>>
      BY <2>1, <3>1, <3>2 DEF Unclosed
    <3>4. QED
      BY <1>4, <2>5, <2>6, <3>3 DEF Pending
  <2>7. CASE cache # <<>>
    <3>1. Len(cache) = 1 /\ cache[1] = TagEnd[1]
      BY <1>4, <2>7 DEF Starved, Mark
    <3>2. At + 1 = Len(page) /\ cache[1] = page[At + 1]
      BY <1>1, <3>1 DEF Where
    <3>3. Start + 2 <= Len(page)
      BY <1>1, <3>2
    <3>4. page[Len(page)] = TagEnd[1]
      BY <3>1, <3>2
    <3>5. Unclosed(page, Start) = <<TagEnd[1]>>
      BY <3>3, <3>4 DEF Unclosed
    <3>6. cache = <<TagEnd[1]>>
      <4>1. TagEnd[1] \in Chars /\ cache \in Seq(Chars)
        BY Marks DEF Chars, TypeOK
      <4>2. PICK d : d = <<TagEnd[1]>>
        OBVIOUS
      <4>3. d \in Seq(Chars) /\ Len(d) = 1 /\ d[1] = TagEnd[1]
        BY <4>1, <4>2
      <4>4. \A i \in 1..Len(d) : d[i] = cache[i]
        BY <3>1, <4>3
      <4>5. QED
        BY <3>1, <4>1, <4>2, <4>3, <4>4, SeqEqual
    <3>7. QED
      BY <1>4, <2>5, <3>5, <3>6 DEF Pending
  <2>8. QED
    BY <2>6, <2>7
<1>5. QED
  BY <1>3, <1>4 DEF TypeOK

(* Text is put together in any grouping. *)
LEMMA TextAssociative == \A a, v, r \in Seq(Text) : (a \o v) \o r = a \o (v \o r)
BY ConcatAssociative

(* The whole page is to be produced at first. *)
LEMMA ProducedInit == Init => Produced
<1> SUFFICES ASSUME Init PROVE Produced
  OBVIOUS
<1>1. page \in Seq(Chars) /\ Len(page) \in Nat /\ Len(cache) = 0 /\ index = 0
  BY PageAssumption, LenProperties, EmptySeq DEF Init
<1>2. Output = <<>>
  BY BodyEmpty DEF Init, Output, Calling
<1>3. Pending = 1
  BY <1>1 DEF Init, Pending, At
<1>4. SubstitutedFrom(page)[1] \in Seq(Text)
  <2>1. 1 \in 1..(Len(page) + 1)
    BY <1>1
  <2>2. QED
    BY <1>1, <2>1, SubValues
<1>5. <<>> \o SubstitutedFrom(page)[1] = SubstitutedFrom(page)[1]
  BY <1>4, ConcatEmptySeq
<1>6. QED
  BY <1>2, <1>3, <1>5 DEF Produced, Init, Substituted

(* Every step takes as much from what is left as it produces. *)
LEMMA ProducedStep == TypeOK /\ Where /\ Framing /\ Tag /\ Produced /\ [Next]_vars => Produced'
<1> SUFFICES ASSUME TypeOK, Where, Framing, Tag, Produced, [Next]_vars PROVE Produced'
  OBVIOUS
<1>0. /\ index \in Nat /\ Len(cache) \in Nat /\ At \in Nat /\ Len(page) \in Nat
      /\ index <= Len(page) /\ index = At + Len(cache) /\ Len(tagName) \in Nat
      /\ Start = At - 1 - Len(tagName)
      /\ AllRead <=> index = Len(page)
  BY Numbers DEF Start
<1>1. page' = page /\ (LateTag' <=> LateTag) /\ page \in Seq(Chars)
  BY PageStays, PageType DEF LateTag
<1>2. PICK P : P = page
  OBVIOUS
<1>3. PICK F : F = SubstitutedFrom(page)
  OBVIOUS
<1>4. PICK T : T = Substituted(page)
  OBVIOUS
<1>5. SubstitutedFrom(page)' = F /\ Substituted(page)' = T
  BY <1>1, <1>3, <1>4
<1>6. Output \in Seq(Text) /\ Body(wire) \in Seq(Text) /\ out \in Seq(Text)
  BY OutputType
<1>7. SUFFICES ASSUME ~LateTag, ~cut', pc' # "undefined"
               PROVE  IF stage' = "END" THEN Output' = T ELSE Output' \o F[Pending'] = T
  BY <1>1, <1>5 DEF Produced
<1>8. ASSUME ~cut, pc # "undefined"
      PROVE  /\ stage = "END" => Output = T
             /\ stage # "END" => Output \o F[Pending] = T
  BY <1>3, <1>4, <1>7, <1>8 DEF Produced
<1>9. stage # "END" => Pending \in 1..(Len(page) + 1) /\ F[Pending] \in Seq(Text)
  BY <1>3, PendingType
<1>10. ASSUME AllRead, stage # "END", ssiState = 1 \/ Starved PROVE F[Pending] = cache
  BY <1>3, <1>7, <1>10, RestOfPage
<1>11. CASE OnHttpSent \/ OnHttpPoll
  <2>1. Loading \/ Ended
    BY <1>11, Callbacks
  <2>2. CASE Loading
    <3>1. UNCHANGED <<index, ssiState, tagName, wire, cut>> /\ stage # "END" /\ pc = "idle"
      BY <2>2 DEF Loading, Load, file
    <3>2. Body(wire) \o F[Pending] = T /\ Output = Body(wire)
      BY <1>7, <1>8, <3>1 DEF Output, Calling
    <3>3. CASE AllRead /\ cache # <<>> /\ out' = cache /\ stage' = "END" /\ pc' = "frame"
      <4>1. stage = "more"
        BY <3>1, <3>3 DEF Framing, TypeOK
      <4>2. ssiState = 1 \/ Starved
        BY <1>7, <3>1, <3>3, <4>1 DEF Tag, TypeOK
      <4>3. Output' = Body(wire) \o cache
        BY <3>1, <3>3 DEF Output, Calling
      <4>4. QED
        BY <1>10, <3>1, <3>2, <3>3, <4>2, <4>3
    <3>4. CASE AllRead /\ cache = <<>> /\ stage' = "END" /\ pc' = "end"
      <4>1. Output' = Body(wire)
        BY <3>1, <3>4 DEF Output, Calling
      <4>2. F[Pending] = <<>>
        BY <1>10, <3>1, <3>4 DEF Starved
      <4>3. Body(wire) \o <<>> = Body(wire)
        BY <1>6, ConcatEmptySeq
      <4>4. QED
        BY <3>2, <3>4, <4>1, <4>2, <4>3
    <3>5. CASE ~AllRead /\ out' = <<>> /\ pc' = "fill" /\ cache' = cache /\ stage' = stage
      <4>1. Output' = Body(wire) \o <<>>
        BY <3>1, <3>5 DEF Output, Calling
      <4>2. Body(wire) \o <<>> = Body(wire)
        BY <1>6, ConcatEmptySeq
      <4>3. Pending' = Pending
        BY <3>1, <3>5 DEF Pending, Start, At
      <4>4. QED
        BY <3>1, <3>2, <3>5, <4>1, <4>2, <4>3
    <3>6. QED
      BY <2>2, <3>3, <3>4, <3>5 DEF Loading, Load
  <2>3. CASE Ended
    <3>1. UNCHANGED <<wire, cut, stage>> /\ stage = "END" /\ pc = "idle" /\ pc' = "end"
      BY <2>3 DEF Ended
    <3>2. Output' = Output
      BY <3>1 DEF Output, Calling
    <3>3. QED
      BY <1>7, <1>8, <3>1, <3>2
  <2>4. QED
    BY <2>1, <2>2, <2>3
<1>12. ASSUME UNCHANGED <<cut, wire, out>>, Calling, Calling', stage # "END", At' = At,
              UNCHANGED <<ssiState, tagName>>,
              stage' = "END" => F[Pending] = <<>>
       PROVE  IF stage' = "END" THEN Output' = T ELSE Output' \o F[Pending'] = T
  <2>1. Output' = Output /\ Pending' = Pending
    BY <1>12 DEF Output, Pending, Start
  <2>2. Output \o F[Pending] = T
    BY <1>7, <1>8, <1>12 DEF Calling
  <2>3. Output \o <<>> = Output
    BY <1>6, ConcatEmptySeq
  <2>4. QED
    BY <1>12, <2>1, <2>2, <2>3
<1>13. CASE Fill
  <2>1. UNCHANGED <<cut, wire, out, ssiState, tagName>> /\ pc = "fill" /\ stage # "END"
    BY <1>13 DEF Fill, Where
  <2>2. CASE AllRead
    <3>1. /\ UNCHANGED <<index, cache>> /\ pc' = "frame"
          /\ stage' = IF AllRead /\ cache = <<>> THEN "END" ELSE "more"
      BY <1>13, <2>2 DEF Fill, Done
    <3>2. stage' = "END" => F[Pending] = <<>>
      BY <1>10, <2>1, <2>2, <3>1 DEF Where
    <3>3. At' = At /\ Calling /\ Calling'
      BY <2>1, <3>1 DEF At, Calling
    <3>4. QED
      BY <1>12, <2>1, <3>2, <3>3
  <2>3. CASE ~AllRead
    <3>1. pc' = "scan" /\ stage' = stage /\ At' = At
      BY <1>13, <2>3, Filled DEF Fill
    <3>2. Calling /\ Calling'
      BY <2>1, <3>1 DEF Calling
    <3>3. QED
      BY <1>12, <2>1, <3>1, <3>2
  <2>4. QED
    BY <2>2, <2>3
<1>14. CASE NeedMore
  <2>1. /\ UNCHANGED <<index, cache, cut, wire, out, ssiState, tagName, stage>>
        /\ pc = "scan" /\ pc' = "fill" /\ stage # "END"
    BY <1>14 DEF NeedMore, file, ssi, Where
  <2>2. At' = At /\ Calling /\ Calling'
    BY <2>1 DEF At, Calling
  <2>3. QED
    BY <1>12, <2>1, <2>2
<1>15. CASE CopyText
  <2>1. /\ UNCHANGED <<file, cut, wire, ssiState, tagName>> /\ pc = "scan" /\ stage # "END"
        /\ ssiState = 1 /\ cache' = Drop(cache, 1) /\ out' = Append(out, cache[1])
        /\ pc' \in {"frame", "scan"}
    BY <1>15 DEF CopyText, Scanning, Done, Where
  <2>2. /\ At + 1 \in 1..Len(page) /\ cache[1] = page[At + 1] /\ 1 <= Len(cache) /\ 1 \in 1..2
        /\ ~TagStartsAt(page, At + 1)
    BY <1>15, Front DEF CopyText
  <2>3. At' = At + 1 /\ Len(cache') = Len(cache) - 1 /\ cache' \in Seq(Chars)
    BY <2>1, <2>2, Consumed
  <2>4. PICK c : c = page[At + 1]
    OBVIOUS
  <2>5. c \in Text
    BY <1>1, <2>2, <2>4, ElementOfSeq DEF Text
  <2>6. Output' = Output \o <<c>>
    <3>1. out' = out \o <<c>>
      BY <1>6, <2>1, <2>2, <2>4, <2>5, AppendIsConcat
    <3>2. Output = Body(wire) \o out /\ Output' = Body(wire) \o (out \o <<c>>)
      BY <2>1, <3>1 DEF Output, Calling
    <3>3. <<c>> \in Seq(Text)
      BY <2>5
    <3>4. (Body(wire) \o out) \o <<c>> = Body(wire) \o (out \o <<c>>)
      BY <1>6, <3>3, ConcatAssociative
    <3>5. QED
      BY <3>2, <3>4
  <2>7. Pending = At + 1 /\ Pending' = At + 2
    <3>1. At' + 1 = At + 2
      BY <1>0, <2>3
    <3>2. QED
      BY <2>1, <3>1 DEF Pending
  <2>8. F[At + 1] = <<c>> \o F[At + 2] /\ F[At + 2] \in Seq(Text)
    <3>1. PICK i \in 1..Len(page) : i = At + 1
      BY <2>2
    <3>2. i + 1 = At + 2 /\ i + 1 \in 1..(Len(page) + 1)
      BY <1>0, <3>1
    <3>3. F[i] = <<page[i]>> \o F[i + 1] /\ F[i + 1] \in Seq(Text)
      BY <1>1, <1>3, <2>2, <3>1, <3>2, SubValues
    <3>4. QED
      BY <2>4, <3>1, <3>2, <3>3
  <2>9. Output' \o F[At + 2] = T
    <3>1. Output \o F[At + 1] = T
      BY <1>7, <1>8, <2>1, <2>7
    <3>2. <<c>> \in Seq(Text)
      BY <2>5
    <3>3. (Output \o <<c>>) \o F[At + 2] = Output \o (<<c>> \o F[At + 2])
      BY <1>6, <2>8, <3>2, TextAssociative
    <3>4. QED
      BY <2>6, <2>8, <3>1, <3>3
  <2>10. ASSUME stage' = "END" PROVE Output' = T
    <3>1. AllRead /\ cache' = <<>>
      BY <1>15, <2>1, <2>10 DEF CopyText, Done
    <3>2. Len(cache') = 0
      BY <3>1, EmptySeq
    <3>3. At + 2 = Len(page) + 1
      <4>1. index = Len(page)
        BY <1>0, <3>1
      <4>2. PICK n \in Nat, a \in Nat, l \in Nat : n = Len(cache) /\ a = At /\ l = Len(page)
        BY <1>0
      <4>3. n - 1 = 0
        BY <2>3, <3>2, <4>2
      <4>4. l = a + n
        BY <1>0, <4>1, <4>2
      <4>5. a + 2 = l + 1
        BY <4>3, <4>4
      <4>6. QED
        BY <4>2, <4>5
    <3>4. F[At + 2] = <<>>
      BY <1>1, <1>3, <3>3, SubValues
    <3>5. Output' \in Seq(Text)
      <4>1. <<c>> \in Seq(Text)
        BY <2>5
      <4>2. QED
        BY <1>6, <2>6, <4>1, ConcatProperties
    <3>6. Output' \o <<>> = Output'
      BY <3>5, ConcatEmptySeq
    <3>7. QED
      BY <2>9, <3>4, <3>6
  <2>11. QED
    BY <2>7, <2>9, <2>10
<1>16. CASE TagFound
  <2>1. /\ UNCHANGED <<file, cut, wire, out, tagName>> /\ pc = "scan" /\ stage # "END" /\ pc' = "frame"
        /\ ssiState = 1 /\ ssiState' = 2 /\ cache' = Drop(cache, 2)
        /\ stage' = IF AllRead /\ cache' = <<>> THEN "END" ELSE "more"
    BY <1>16, Marks DEF TagFound, Scanning, Done, Where
  <2>2. TagStartsAt(page, At + 1) /\ 2 \in 1..2 /\ 2 <= Len(cache) /\ At + 1 \in 1..Len(page)
    BY <1>16, Front DEF TagFound
  <2>3. At' = At + 2
    BY <2>1, <2>2, Consumed
  <2>4. Len(tagName') = 0
    BY <2>1, EmptySeq DEF Tag
  <2>5. Pending' = At + 1 /\ Pending = At + 1
    <3>1. Start' = At + 1
      BY <1>0, <2>3, <2>4 DEF Start
    <3>2. QED
      BY <2>1, <3>1 DEF Pending
  <2>6. ~AllRead
    <3>1. SUFFICES ASSUME AllRead PROVE FALSE
      OBVIOUS
    <3>2. Len(cache) <= CACHE /\ CACHE \in Nat
      BY Numbers
    <3>3. At + 1 \in 1..(Len(page) - 1) /\ At + 1 + CACHE > Len(page)
      BY <1>0, <2>2, <3>1, <3>2
    <3>4. QED
      BY <1>7, <2>2, <3>3 DEF LateTag
  <2>7. Output' = Output
    BY <2>1 DEF Output, Calling
  <2>8. QED
    BY <1>7, <1>8, <2>1, <2>5, <2>6, <2>7
<1>17. CASE CopyName
  <2>1. /\ UNCHANGED <<file, ssiState, cut, wire, out, stage, pc>> /\ cache' = Drop(cache, 1)
        /\ tagName' = Append(tagName, cache[1]) /\ pc = "scan" /\ stage # "END" /\ ssiState = 2
    BY <1>7, <1>17 DEF CopyName, Scanning, Where
  <2>2. 1 \in 1..2 /\ 1 <= Len(cache) /\ At + 1 \in 1..Len(page) /\ cache[1] = page[At + 1]
    BY <1>17, Front DEF CopyName
  <2>3. At' = At + 1
    BY <2>1, <2>2, Consumed
  <2>4. Len(tagName') = Len(tagName) + 1
    <3>1. cache[1] \in Chars /\ tagName \in Seq(Chars)
      BY <1>1, <2>2, ElementOfSeq DEF TypeOK
    <3>2. QED
      BY <2>1, <3>1, AppendProperties
  <2>5. Start' = Start
    BY <1>0, <2>3, <2>4 DEF Start
  <2>6. Pending' = Pending /\ Output' = Output
    BY <2>1, <2>5 DEF Pending, Output, Calling
  <2>7. QED
    BY <1>7, <1>8, <2>1, <2>6
<1>18. CASE ReplaceTag
  <2>1. /\ UNCHANGED <<file, wire, stage>> /\ pc = "scan" /\ stage # "END" /\ ssiState = 2 /\ ssiState' = 1
        /\ cache' = Drop(cache, 2)
    BY <1>18, Marks DEF ReplaceTag, Scanning, Where
  <2>2. ~cut /\ out' = out \o Value(tagName) /\ pc' = "scan"
    BY <1>7, <1>18, ValueFits
  <2>3. /\ TagEndsAt(page, At + 1) /\ 2 \in 1..2 /\ 2 <= Len(cache) /\ At + 1 \in 1..Len(page)
    BY <1>18, Front DEF ReplaceTag
  <2>4. At' = At + 2
    BY <2>1, <2>3, Consumed
  <2>5. /\ Start >= 1 /\ TagStartsAt(page, Start) /\ Start < Len(page)
        /\ \A k \in 1..Len(tagName) : tagName[k] = page[Start + 1 + k]
        /\ \A j \in (Start + 2)..At : ~TagEndsAt(page, j)
    BY <2>1 DEF Tag, TagStartsAt
  <2>6. PICK i \in 1..Len(page) : i = Start
    <3>1. Start \in 1..Len(page)
      BY <1>0, <2>5
    <3>2. QED
      BY <3>1
  <2>7. At + 1 \in EndsOf(page, i)
    BY <1>0, <2>3, <2>6 DEF EndsOf
  <2>8. Min(EndsOf(page, i)) = At + 1
    <3>1. PICK e : e = Min(EndsOf(page, i))
      OBVIOUS
    <3>2. /\ e \in Nat /\ e >= i + 2 /\ TagEndsAt(page, e)
          /\ \A j \in EndsOf(page, i) : e <= j
      BY <1>1, <2>7, <3>1, FirstEnd
    <3>3. e <= At + 1
      BY <2>7, <3>2
    <3>4. ~(e \in (Start + 2)..At)
      BY <2>5, <3>2
    <3>5. e = At + 1
      BY <1>0, <2>6, <3>2, <3>3, <3>4
    <3>6. QED
      BY <3>1, <3>5
  <2>9. SubSeq(page, i + 2, At) = tagName
    <3>1. PICK d : d = SubSeq(page, i + 2, At)
      OBVIOUS
    <3>2. PICK a \in Int, b \in Int : a = i + 2 /\ b = At
      BY <1>0
    <3>3. \A k \in a..b : page[k] \in Chars
      <4>1. \A k \in a..b : k \in 1..Len(page)
        BY <1>0, <3>2
      <4>2. QED
        BY <1>1, <4>1, ElementOfSeq
    <3>4. /\ SubSeq(page, a, b) \in Seq(Chars)
          /\ Len(SubSeq(page, a, b)) = IF a <= b THEN b - a + 1 ELSE 0
          /\ \A k \in 1..(b - a + 1) : SubSeq(page, a, b)[k] = page[a + k - 1]
      BY <3>3, SubSeqProperties
    <3>5. SubSeq(page, a, b) = d
      BY <3>1, <3>2
    <3>6. b - a + 1 = Len(tagName)
      BY <1>0, <2>6, <3>2
    <3>7. d \in Seq(Chars) /\ Len(d) = Len(tagName)
      <4>1. (IF a <= b THEN b - a + 1 ELSE 0) = Len(tagName)
        BY <1>0, <3>2, <3>6
      <4>2. QED
        BY <3>4, <3>5, <4>1
    <3>8. ASSUME NEW k \in 1..Len(d) PROVE d[k] = tagName[k]
      <4>1. k \in 1..(b - a + 1) /\ k \in 1..Len(tagName)
        BY <3>6, <3>7
      <4>2. a + k - 1 = Start + 1 + k
        BY <1>0, <2>6, <3>2
      <4>3. d[k] = page[a + k - 1] /\ tagName[k] = page[Start + 1 + k]
        BY <2>5, <3>4, <3>5, <4>1
      <4>4. QED
        BY <4>2, <4>3
    <3>9. tagName \in Seq(Chars)
      BY DEF TypeOK
    <3>10. QED
      BY <3>1, <3>7, <3>8, <3>9, SeqEqual
  <2>10. F[i] = Value(tagName) \o F[At + 3] /\ F[At + 3] \in Seq(Text)
    <3>0. PICK e : e = Min(EndsOf(page, i))
      OBVIOUS
    <3>1. F[i] = Value(SubSeq(page, i + 2, e - 1)) \o F[e + 2] /\ e = At + 1
      BY <1>1, <1>3, <2>5, <2>6, <2>7, <2>8, <3>0, SubValues
    <3>2. At + 1 - 1 = At /\ At + 1 + 2 = At + 3 /\ At + 3 \in 1..(Len(page) + 1)
      BY <1>0, <2>3
    <3>3. F[At + 3] \in Seq(Text)
      BY <1>1, <1>3, <3>2, SubValues
    <3>4. e - 1 = At /\ e + 2 = At + 3
      BY <1>0, <3>1
    <3>5. F[i] = Value(SubSeq(page, i + 2, At)) \o F[At + 3]
      BY <3>1, <3>4
    <3>6. QED
      BY <2>9, <3>3, <3>5
  <2>11. Output' = Output \o Value(tagName)
    <3>1. Output = Body(wire) \o out /\ Output' = Body(wire) \o (out \o Value(tagName))
      BY <2>1, <2>2 DEF Output, Calling
    <3>2. Value(tagName) \in Seq(Text)
      BY ValueType
    <3>3. (Body(wire) \o out) \o Value(tagName) = Body(wire) \o (out \o Value(tagName))
      BY <1>6, <3>2, TextAssociative
    <3>4. QED
      BY <3>1, <3>3
  <2>12. Output \o F[i] = T
    <3>1. Pending = i
      BY <2>1, <2>6 DEF Pending
    <3>2. QED
      BY <1>8, <2>1, <2>2, <3>1
  <2>13. Output' \o F[At + 3] = T
    <3>1. (Output \o Value(tagName)) \o F[At + 3] = Output \o (Value(tagName) \o F[At + 3])
      <4>1. Value(tagName) \in Seq(Text) /\ F[At + 3] \in Seq(Text) /\ Output \in Seq(Text)
        BY <1>6, <2>10, ValueType
      <4>2. QED
        BY <4>1, TextAssociative
    <3>2. QED
      BY <2>10, <2>11, <2>12, <3>1
  <2>14. Pending' = At + 3
    <3>1. At' + 1 = At + 3
      BY <1>0, <2>4
    <3>2. QED
      BY <2>1, <3>1 DEF Pending
  <2>15. QED
    BY <2>1, <2>13, <2>14
<1>19. CASE Frame
  <2>1. /\ pc = "frame" /\ pc' = "idle" /\ UNCHANGED <<index, cache, ssiState, tagName, stage, cut>>
    BY <1>19 DEF Frame, file, ssi
  <2>2. Pending' = Pending /\ Output = Body(wire) \o out /\ Output' = Body(wire')
    BY <2>1 DEF Pending, Start, At, Output, Calling
  <2>3. Body(wire') = Body(wire) \o out
    <3>1. CASE out = <<>>
      <4>1. wire' = wire
        BY <1>19, <3>1 DEF Frame
      <4>2. Body(wire) \o <<>> = Body(wire)
        BY <1>6, ConcatEmptySeq
      <4>3. QED
        BY <3>1, <4>1, <4>2
    <3>2. CASE out # <<>>
      <4>1. PICK x : x = [crlf |-> ~bare, data |-> out, last |-> IsLast, room |-> room]
        OBVIOUS
      <4>2. room \in Int /\ bare \in BOOLEAN /\ IsLast \in BOOLEAN
        BY PageAssumption DEF TypeOK, IsLast
      <4>3. x \in Chunks /\ x.data = out
        BY <1>6, <4>1, <4>2 DEF Chunks
      <4>4. wire \in Seq(Chunks) /\ wire' = Append(wire, x)
        BY <1>19, <3>2, <4>1 DEF TypeOK, Chunks, Frame
      <4>5. QED
        BY <4>3, <4>4, BodyAppend
    <3>3. QED
      BY <3>1, <3>2
  <2>4. QED
    BY <1>7, <1>8, <2>1, <2>2, <2>3
<1>20. CASE UNCHANGED vars
  <2>1. UNCHANGED <<index, cache, ssiState, tagName, stage, cut, pc, wire, out>>
    BY <1>20 DEF vars, file, ssi
  <2>2. Pending' = Pending /\ Output' = Output
    BY <2>1 DEF Pending, Start, At, Output, Calling
  <2>3. QED
    BY <1>7, <1>8, <2>1, <2>2
<1>21. QED
  BY <1>11, <1>13, <1>14, <1>15, <1>16, <1>17, <1>18, <1>19, <1>20 DEF Next, Read

-----------------------------------------------------------------------------
(***************************************************************************)
(* The theorems.                                                           *)
(***************************************************************************)

(* At the end nothing is left to be produced. *)
LEMMA InvImplies == PageInv => PageIsSubstituted
<1> SUFFICES ASSUME PageInv, pc = "end", ~LateTag, ~cut PROVE Body(wire) = Substituted(page)
  BY DEF PageIsSubstituted
<1>1. stage = "END"
  BY DEF PageInv, Where
<1>2. Output = Body(wire)
  BY DEF Output, Calling
<1>3. QED
  BY <1>1, <1>2 DEF PageInv, Produced

(* The invariant holds. *)
LEMMA PageInvariant == Spec => [](PageInv /\ Framed)
<1>1. Init => PageInv /\ Framed
  BY TypeInit, WhereInit, FramingInit, TagInit, ProducedInit DEF PageInv
<1>2. PageInv /\ Framed /\ [Next]_vars => (PageInv /\ Framed)'
  BY TypeStep, WhereStep, FramingStep, FramedStep, TagStep, ProducedStep DEF PageInv
<1>3. QED
  BY <1>1, <1>2, PTL DEF Spec

(* Types, and a cache that never overflows whatever is left in it when it   *)
(* is filled again.                                                        *)
THEOREM PageTypeCorrect == Spec => []TypeOK
BY PageInvariant, PTL DEF PageInv

(***************************************************************************)
(* The chunks of every page make a body, for every size of the cache and   *)
(* whatever room the calls are given.                                      *)
(***************************************************************************)
THEOREM ChunksStayFramed == Spec => []ChunksAreFramed
<1>1. PageInv /\ Framed => ChunksAreFramed
  BY FramingImplies DEF PageInv
<1>2. QED
  BY <1>1, PageInvariant, PTL

(***************************************************************************)
(* Every page arrives with its tags replaced, for every size of the cache  *)
(* and whatever room the calls are given, unless a tag is late or a value  *)
(* was cut.                                                                *)
(***************************************************************************)
THEOREM PagesAreSubstituted == Spec => []PageIsSubstituted
BY InvImplies, PageInvariant, PTL

=============================================================================
