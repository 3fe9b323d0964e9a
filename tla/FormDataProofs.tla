--------------------------- MODULE FormDataProofs ---------------------------
(***************************************************************************)
(* What the setters get of a posted form, for every form, every size of    *)
(* the buffer and every cut of the form into segments; and, at the end,    *)
(* what AppThread and the configuration make of it.                        *)
(***************************************************************************)
EXTENDS FormData, AppThread, SequenceTheorems, FiniteSetTheorems, WellFoundedInduction, TLAPS

-----------------------------------------------------------------------------
(***************************************************************************)
(* The inductive invariant.  It holds without escaped ampersands; the      *)
(* types hold for all forms.                                               *)
(***************************************************************************)

(* TypeOK, with closer bounds, except for what it says about left. *)
Calls == [name : Seq(Int), value : Seq(Int)]

IsBuffer(m) ==
  /\ m \in Seq(Int) /\ Len(m) = SEND_BUF
  /\ \A i \in (SEND_BUF - RESERVE + 1)..SEND_BUF : m[i] = 0

Types ==
  /\ body \in Bodies /\ received \in 0..Len(body)
  /\ IsBuffer(mem)
  /\ left \in Int /\ left <= SEND_BUF - RESERVE
  /\ p \in 1..(SEND_BUF - RESERVE + 1) /\ ne \in 0..(SEND_BUF - RESERVE)
  /\ calls \in Seq(Calls)
  /\ early \in BOOLEAN
  /\ pc \in {"recv", "parse", "done", "undefined"}

(* What may be in the buffer. *)
Byte == {0} \cup (1..Len(body)) \cup {-i : i \in {j \in 1..Len(body) : body[j] = "%"}}

(* The fields of the form, and what URLDecode makes of them. *)
FormFields == [k \in Nat |-> Field(k)]

FieldsSet ==
  [k \in Nat |-> [name |-> URLDecode(Field(k).name), value |-> URLDecode(Field(k).value)]]

Plain == [k \in Nat |-> Decoded(Field(k).value)]

(* The part of the buffer that was not parsed begins here, ... *)
From == IF pc = "recv" THEN 1 ELSE p

(* ... and is this part of the body. *)
Pos == received - left + From

(* The fields that end before position i. *)
EndsBefore(i) == {e \in FieldEnds : e < i}

(* Nothing but the unparsed part has an ampersand. *)
Buffer ==
  pc \in {"recv", "parse"} =>
    /\ left \in 0..(SEND_BUF - RESERVE) /\ left <= received /\ From <= left + 1
    /\ \A i \in 1..SEND_BUF : mem[i] \in Byte
    /\ \A i \in From..left : mem[i] = received - left + i
    /\ \A i \in 1..SEND_BUF : mem[i] \in FieldEnds => pc = "parse" /\ i \in From..left

(* Before a field is parsed early, nothing is left in the buffer. *)
Clean ==
  pc \in {"recv", "parse"} /\ ~early =>
    /\ \A i \in (left + 1)..SEND_BUF : mem[i] = 0
    /\ Remain > 0 => From = 1

(* The unparsed part begins with a field, and those before it were set. *)
AtField ==
  pc \in {"recv", "parse"} =>
    /\ Pos - 1 \in {0} \cup FieldEnds
    /\ Len(calls) = Cardinality(EndsBefore(Pos))

(* What was set. *)
Exact ==
  \A k \in 1..Len(calls) :
    /\ FormFields[k] \in Calls
    /\ calls[k].name = FieldsSet[k].name
    /\ \/ calls[k].value = FieldsSet[k].value
       \/ k = Cardinality(FieldEnds) /\ early /\ Begins(calls[k].value, Plain[k])

Complete ==
  /\ pc = "done" => left = 0 /\ Len(calls) = Cardinality(FieldEnds)
  /\ pc # "undefined"

FormInv == Buffer /\ Clean /\ AtField /\ Exact /\ Complete

-----------------------------------------------------------------------------
(***************************************************************************)
(* The recursive definitions.  Induction is on the least number for which  *)
(* a statement fails.                                                      *)
(***************************************************************************)

(* A nonempty set of natural numbers has a least element, and Min is it. *)
LEMMA MinIsLeast ==
  ASSUME NEW S \in SUBSET Nat, S # {}
  PROVE  Min(S) \in S /\ \A y \in S : Min(S) <= y
<1>1. PICK x \in S : \A y \in S : ~ (<<y, x>> \in OpToRel(<, Nat))
  BY NatLessThanWellFounded, WFMin, Zenon
<1>2. ASSUME NEW y \in S PROVE x <= y
  <2>1. x \in Nat /\ y \in Nat
    OBVIOUS
  <2>2. ~ (y < x)
    BY <1>1, <2>1 DEF OpToRel
  <2>3. QED
    BY <2>1, <2>2
<1>3. QED
  BY <1>2 DEF Min

(* A set with 0 that is closed under successors up to n has all up to n. *)
LEMMA UpTo ==
  ASSUME NEW n \in Nat, NEW S, 0 \in S,
         \A k \in 0..n : k \in S /\ k < n => k + 1 \in S
  PROVE  \A k \in 0..n : k \in S
<1> DEFINE T == {k \in 0..n : k \notin S}
<1>1. SUFFICES ASSUME T # {} PROVE FALSE
  OBVIOUS
<1>2. T \in SUBSET Nat
  OBVIOUS
<1>3. Min(T) \in T /\ \A y \in T : Min(T) <= y
  BY <1>1, <1>2, MinIsLeast
<1>4. PICK m \in T : \A y \in T : m <= y
  BY <1>3
<1>5. m \in 0..n /\ m \notin S /\ m # 0
  BY <1>4
<1>6. m - 1 \in 0..n /\ m - 1 \in S /\ (m - 1) + 1 = m
  <2>1. m - 1 \in 0..n /\ ~(m <= m - 1) /\ (m - 1) + 1 = m
    BY <1>5
  <2>2. QED
    BY <1>4, <2>1
<1>7. m - 1 < n
  BY <1>5
<1>8. QED
  BY <1>5, <1>6, <1>7

-----------------------------------------------------------------------------
(***************************************************************************)
(* The buffer.                                                             *)
(***************************************************************************)

(* The sizes. *)
LEMMA Sizes ==
  /\ SEND_BUF \in Nat /\ RESERVE \in Nat /\ RESERVE >= 1 /\ SEND_BUF > RESERVE
  /\ SEND_BUF - RESERVE \in Nat
BY FormAssumption

(* The bytes of a buffer. *)
LEMMA BufferBytes ==
  ASSUME NEW m, IsBuffer(m)
  PROVE  \A i \in 1..SEND_BUF : m[i] \in Int
BY ElementOfSeq DEF IsBuffer

(* Every string in the buffer ends before the reserved bytes, or in them. *)
LEMMA EndOfString ==
  ASSUME NEW m, IsBuffer(m), NEW s \in 1..SEND_BUF
  PROVE  /\ StrEnd(m, s) \in s..SEND_BUF /\ m[StrEnd(m, s)] = 0
         /\ \A i \in s..SEND_BUF : m[i] = 0 => StrEnd(m, s) <= i
         /\ s <= SEND_BUF - RESERVE + 1 => StrEnd(m, s) <= SEND_BUF - RESERVE + 1
<1> DEFINE Z == {i \in s..SEND_BUF : m[i] = 0}
<1>1. Z \in SUBSET Nat
  BY Sizes
<1>2. SEND_BUF \in (SEND_BUF - RESERVE + 1)..SEND_BUF /\ SEND_BUF \in s..SEND_BUF
  BY Sizes
<1>3. SEND_BUF \in Z
  BY <1>2 DEF IsBuffer
<1>4. Min(Z) \in Z /\ \A y \in Z : Min(Z) <= y
  BY <1>1, <1>3, MinIsLeast
<1>5. StrEnd(m, s) = Min(Z)
  BY DEF StrEnd
<1>6. ASSUME s <= SEND_BUF - RESERVE + 1 PROVE Min(Z) <= SEND_BUF - RESERVE + 1
  <2>1. /\ SEND_BUF - RESERVE + 1 \in (SEND_BUF - RESERVE + 1)..SEND_BUF
        /\ SEND_BUF - RESERVE + 1 \in s..SEND_BUF
    BY <1>6, Sizes
  <2>2. m[SEND_BUF - RESERVE + 1] = 0
    BY <2>1 DEF IsBuffer
  <2>3. QED
    BY <1>4, <2>1, <2>2
<1>7. QED
  BY <1>4, <1>5, <1>6

(* A string of the buffer. *)
LEMMA StringAt ==
  ASSUME NEW m, IsBuffer(m), NEW s \in 1..SEND_BUF
  PROVE  /\ Str(m, s) \in Seq(Int) /\ Len(Str(m, s)) = StrEnd(m, s) - s
         /\ \A k \in 1..(StrEnd(m, s) - s) : Str(m, s)[k] = m[s + k - 1]
<1>1. PICK e \in s..SEND_BUF : e = StrEnd(m, s)
  BY EndOfString
<1>2. s \in Nat /\ e \in Nat /\ e >= s /\ e <= SEND_BUF /\ SEND_BUF \in Nat
  BY <1>1, Sizes
<1>3. PICK b \in Int : b = e - 1
  BY <1>2
<1>4. \A i \in s..b : m[i] \in Int
  <2>1. \A i \in s..b : i \in 1..SEND_BUF
    BY <1>2, <1>3
  <2>2. QED
    BY <2>1, BufferBytes
<1>5. /\ SubSeq(m, s, b) \in Seq(Int)
      /\ Len(SubSeq(m, s, b)) = IF s <= b THEN b - s + 1 ELSE 0
      /\ \A i \in 1..(b - s + 1) : SubSeq(m, s, b)[i] = m[s + i - 1]
  BY <1>2, <1>4, SubSeqProperties
<1>6. Str(m, s) = SubSeq(m, s, b)
  BY <1>1, <1>3 DEF Str
<1>7. b - s + 1 = e - s /\ (s <= b \/ e - s = 0)
  BY <1>2, <1>3
<1>8. QED
  BY <1>1, <1>5, <1>6, <1>7

(* The characters of bytes. *)
LEMMA CharOf ==
  /\ Char(0) = "NUL"
  /\ \A v \in Int : v > 0 => Char(v) = body[v]
  /\ \A v \in Int : v < 0 => Char(v) = IF body[1 - v] = "a" THEN "&" ELSE "x"
BY DEF Char

(* A character is found at its first place, or not found. *)
LEMMA FindFirst ==
  ASSUME NEW m, IsBuffer(m), NEW s \in 1..SEND_BUF, NEW c, c # "NUL"
  PROVE  /\ Find(m, s, c) = 0 => \A i \in s..StrEnd(m, s) : Char(m[i]) # c
         /\ Find(m, s, c) # 0 =>
              /\ Find(m, s, c) \in s..(StrEnd(m, s) - 1) /\ Char(m[Find(m, s, c)]) = c
              /\ \A i \in s..StrEnd(m, s) : Char(m[i]) = c => Find(m, s, c) <= i
<1>1. PICK e \in s..SEND_BUF : e = StrEnd(m, s)
  BY EndOfString
<1> DEFINE H == {i \in s..e : Char(m[i]) = c}
<1>2. Find(m, s, c) = IF H = {} THEN 0 ELSE Min(H)
  BY <1>1 DEF Find
<1>3. s \in Nat /\ e \in Nat /\ s >= 1
  BY <1>1, Sizes
<1>4. H \in SUBSET Nat
  BY <1>3
<1>5. CASE H = {}
  BY <1>1, <1>2, <1>5
<1>6. CASE H # {}
  <2>1. Min(H) \in H /\ \A y \in H : Min(H) <= y
    BY <1>4, <1>6, MinIsLeast
  <2>2. Min(H) # e
    BY <1>1, <2>1, EndOfString, CharOf
  <2>3. Min(H) \in s..(e - 1) /\ Min(H) # 0
    BY <1>3, <2>1, <2>2
  <2>4. QED
    BY <1>1, <1>2, <1>6, <2>1, <2>3
<1>7. QED
  BY <1>5, <1>6

(* A string written into the buffer, byte by byte. *)
LEMMA WriteAt ==
  ASSUME NEW m \in Seq(Int), Len(m) = SEND_BUF, NEW i \in 1..SEND_BUF, NEW t \in Seq(Int),
         i + Len(t) <= SEND_BUF + 1
  PROVE  /\ Write(m, i, t) \in Seq(Int) /\ Len(Write(m, i, t)) = SEND_BUF
         /\ \A k \in 1..SEND_BUF :
              Write(m, i, t)[k] = IF i <= k /\ k < i + Len(t) THEN t[k - i + 1] ELSE m[k]
<1>1. PICK N \in Nat : N = SEND_BUF
  BY Sizes
<1>2. PICK l \in Nat : l = Len(t)
  BY LenProperties
<1>3. i \in Nat /\ i >= 1 /\ i <= N /\ i + l <= N + 1
  BY <1>1, <1>2
<1>4. \A j \in 1..N : m[j] \in Int
  BY <1>1, ElementOfSeq
<1>5. PICK a : a = SubSeq(m, 1, i - 1)
  OBVIOUS
<1>6. a \in Seq(Int) /\ Len(a) = i - 1 /\ \A k \in 1..(i - 1) : a[k] = m[k]
  <2>1. PICK b \in Int : b = i - 1
    BY <1>3
  <2>2. \A j \in 1..b : m[j] \in Int
    BY <1>3, <1>4, <2>1
  <2>3. /\ SubSeq(m, 1, b) \in Seq(Int)
        /\ Len(SubSeq(m, 1, b)) = IF 1 <= b THEN b - 1 + 1 ELSE 0
        /\ \A k \in 1..(b - 1 + 1) : SubSeq(m, 1, b)[k] = m[1 + k - 1]
    BY <2>2, SubSeqProperties
  <2>4. b - 1 + 1 = i - 1 /\ (1 <= b \/ i - 1 = 0) /\ \A k \in 1..(i - 1) : 1 + k - 1 = k
    BY <1>3, <2>1
  <2>5. QED
    BY <1>5, <2>1, <2>3, <2>4
<1>7. PICK z : z = SubSeq(m, i + l, N)
  OBVIOUS
<1>8. z \in Seq(Int) /\ Len(z) = N - i - l + 1 /\ \A k \in 1..(N - i - l + 1) : z[k] = m[i + l + k - 1]
  <2>1. PICK b \in Int : b = i + l
    BY <1>3
  <2>2. \A j \in b..N : m[j] \in Int
    <3>1. \A j \in b..N : j \in 1..N
      BY <1>3, <2>1
    <3>2. QED
      BY <1>4, <3>1
  <2>3. /\ SubSeq(m, b, N) \in Seq(Int)
        /\ Len(SubSeq(m, b, N)) = IF b <= N THEN N - b + 1 ELSE 0
        /\ \A k \in 1..(N - b + 1) : SubSeq(m, b, N)[k] = m[b + k - 1]
    BY <2>2, SubSeqProperties
  <2>4. N - b + 1 = N - i - l + 1 /\ (b <= N \/ N - i - l + 1 = 0)
    BY <1>3, <2>1
  <2>5. QED
    BY <1>7, <2>1, <2>3, <2>4
<1>9. PICK u : u = a \o t
  OBVIOUS
<1>10. /\ u \in Seq(Int) /\ Len(u) = i - 1 + l
       /\ \A k \in 1..(i - 1 + l) : u[k] = IF k <= i - 1 THEN a[k] ELSE t[k - (i - 1)]
  <2>1. i - 1 \in Nat
    BY <1>3
  <2>2. PICK q \in Nat : q = i - 1
    BY <2>1
  <2>3. Len(a) = q /\ Len(t) = l /\ a \in Seq(Int)
    BY <1>2, <1>6, <2>2
  <2>4. /\ u \in Seq(Int) /\ Len(u) = q + l
        /\ \A k \in 1..(q + l) : u[k] = IF k <= q THEN a[k] ELSE t[k - q]
    <3>1. a \in Seq(Int)
      BY <2>3
    <3>2. /\ a \o t \in Seq(Int) /\ Len(a \o t) = Len(a) + Len(t)
          /\ \A k \in 1..(Len(a) + Len(t)) :
               (a \o t)[k] = IF k <= Len(a) THEN a[k] ELSE t[k - Len(a)]
      BY <3>1, ConcatProperties
    <3>3. QED
      BY <1>9, <2>3, <3>2
  <2>5. QED
    BY <2>2, <2>4
<1>11. PICK w : w = u \o z
  OBVIOUS
<1>12. /\ w \in Seq(Int) /\ Len(w) = (i - 1 + l) + (N - i - l + 1)
       /\ \A k \in 1..((i - 1 + l) + (N - i - l + 1)) :
            w[k] = IF k <= i - 1 + l THEN u[k] ELSE z[k - (i - 1 + l)]
  <2>1. i - 1 + l \in Nat /\ N - i - l + 1 \in Nat
    BY <1>3
  <2>2. PICK q \in Nat, r \in Nat : q = i - 1 + l /\ r = N - i - l + 1
    BY <2>1
  <2>3. Len(u) = q /\ Len(z) = r /\ u \in Seq(Int) /\ z \in Seq(Int)
    BY <1>8, <1>10, <2>2
  <2>4. /\ w \in Seq(Int) /\ Len(w) = q + r
        /\ \A k \in 1..(q + r) : w[k] = IF k <= q THEN u[k] ELSE z[k - q]
    <3>1. u \in Seq(Int) /\ z \in Seq(Int)
      BY <2>3
    <3>2. /\ u \o z \in Seq(Int) /\ Len(u \o z) = Len(u) + Len(z)
          /\ \A k \in 1..(Len(u) + Len(z)) :
               (u \o z)[k] = IF k <= Len(u) THEN u[k] ELSE z[k - Len(u)]
      BY <3>1, ConcatProperties
    <3>3. QED
      BY <1>11, <2>3, <3>2
  <2>5. QED
    BY <2>2, <2>4
<1>13. (i - 1 + l) + (N - i - l + 1) = N
  BY <1>3
<1>14. ASSUME NEW k \in 1..N
       PROVE  w[k] = IF i <= k /\ k < i + l THEN t[k - i + 1] ELSE m[k]
  <2>1. w[k] = IF k <= i - 1 + l THEN u[k] ELSE z[k - (i - 1 + l)]
    BY <1>12, <1>13
  <2>2. CASE k <= i - 1
    <3>1. k <= i - 1 + l /\ k \in 1..(i - 1 + l) /\ k \in 1..(i - 1) /\ ~(i <= k)
      BY <1>3, <2>2
    <3>2. QED
      BY <1>6, <1>10, <2>1, <2>2, <3>1
  <2>3. CASE i <= k /\ k < i + l
    <3>1. k <= i - 1 + l /\ k \in 1..(i - 1 + l) /\ ~(k <= i - 1) /\ k - (i - 1) = k - i + 1
      BY <1>3, <2>3
    <3>2. QED
      BY <1>10, <2>1, <2>3, <3>1
  <2>4. CASE i + l <= k
    <3>1. /\ ~(k <= i - 1 + l) /\ k - (i - 1 + l) \in 1..(N - i - l + 1) /\ ~(k < i + l)
          /\ i + l + (k - (i - 1 + l)) - 1 = k
      BY <1>3, <2>4
    <3>2. z[k - (i - 1 + l)] = m[i + l + (k - (i - 1 + l)) - 1]
      BY <1>8, <3>1
    <3>3. QED
      BY <2>1, <3>1, <3>2
  <2>5. QED
    BY <1>3, <2>2, <2>3, <2>4
<1>15. w = Write(m, i, t)
  BY <1>1, <1>2, <1>5, <1>7, <1>9, <1>11 DEF Write
<1>16. QED
  BY <1>1, <1>2, <1>12, <1>13, <1>14, <1>15


-----------------------------------------------------------------------------
(***************************************************************************)
(* URLDecode.                                                              *)
(***************************************************************************)

(* Character i of s is a digit of an escape, ... *)
Digit(s, i) == {i - 1, i - 2} \cap Escapes(s) # {}

(* ... or else becomes this one. *)
Kept(s, i) == IF i \in Escapes(s) THEN -s[i] ELSE s[i]

(* One step of DecodedUpTo. *)
DecStep(s, f, i) ==
  IF i = 0 THEN <<>> ELSE IF Digit(s, i) THEN f[i - 1] ELSE Append(f[i - 1], Kept(s, i))

(* A recursive function is the one chosen that satisfies its equation. *)
LEMMA DecIsChosen ==
  ASSUME NEW s
  PROVE  DecodedUpTo(s) = CHOOSE f : f = [i \in 0..Len(s) |-> DecStep(s, f, i)]
BY DEF DecodedUpTo, DecStep, Digit, Kept

(* Bytes stay bytes. *)
LEMMA KeptType ==
  ASSUME NEW s \in Seq(Int)
  PROVE  Len(s) \in Nat /\ \A i \in 1..Len(s) : Kept(s, i) \in Int
<1>1. Len(s) \in Nat /\ \A i \in 1..Len(s) : s[i] \in Int
  BY LenProperties, ElementOfSeq
<1>2. QED
  BY <1>1 DEF Kept

(* DecodedUpTo satisfies its equation. *)
LEMMA DecEquation ==
  ASSUME NEW s \in Seq(Int)
  PROVE  DecodedUpTo(s) = [i \in 0..Len(s) |-> DecStep(s, DecodedUpTo(s), i)]
<1> DEFINE OK(k, f) == f \in [0..k -> Seq(Int)] /\ \A n \in 0..k : f[n] = DecStep(s, f, n)
           S == {k \in 0..Len(s) : \E f : OK(k, f)}
<1>1. Len(s) \in Nat /\ \A n \in 1..Len(s) : Kept(s, n) \in Int
  BY KeptType
<1>2. 0 \in S
  <2>1. OK(0, [n \in 0..0 |-> <<>>])
    BY DEF DecStep
  <2> HIDE DEF OK
  <2>2. QED
    BY <1>1, <2>1
<1>3. ASSUME NEW k \in 0..Len(s), k \in S, k < Len(s) PROVE k + 1 \in S
  <2>1. PICK f : OK(k, f)
    BY <1>3
  <2>2. k \in Nat /\ k + 1 \in 1..Len(s) /\ Kept(s, k + 1) \in Int
    BY <1>1, <1>3
  <2>3. f[k] \in Seq(Int) /\ Append(f[k], Kept(s, k + 1)) \in Seq(Int)
    BY <2>1, <2>2, AppendProperties
  <2>4. PICK x \in Seq(Int) : x = IF Digit(s, k + 1) THEN f[k] ELSE Append(f[k], Kept(s, k + 1))
    BY <2>3
  <2> DEFINE g == [n \in 0..(k + 1) |-> IF n = k + 1 THEN x ELSE f[n]]
  <2>5. g \in [0..(k + 1) -> Seq(Int)]
    BY <2>1, <2>2, <2>4
  <2>6. ASSUME NEW n \in 0..(k + 1) PROVE g[n] = DecStep(s, g, n)
    <3>1. CASE n = k + 1
      <4>1. n # 0 /\ n - 1 = k /\ g[n] = x /\ g[n - 1] = f[k]
        BY <2>2, <3>1
      <4>2. QED
        BY <2>4, <3>1, <4>1 DEF DecStep
    <3>2. CASE n # k + 1
      <4>1. n \in 0..k /\ g[n] = f[n] /\ f[n] = DecStep(s, f, n)
        BY <2>1, <2>2, <3>2
      <4>2. n # 0 => n - 1 \in 0..(k + 1) /\ n - 1 # k + 1
        BY <2>2, <4>1
      <4>3. n # 0 => g[n - 1] = f[n - 1]
        BY <4>2
      <4>4. QED
        BY <4>1, <4>3 DEF DecStep
    <3>3. QED
      BY <3>1, <3>2
  <2>7. OK(k + 1, g)
    BY <2>5, <2>6
  <2>8. k + 1 \in 0..Len(s)
    BY <1>1, <2>2
  <2> HIDE DEF OK
  <2>9. QED
    BY <2>7, <2>8
<1>4. Len(s) \in S
  <2> HIDE DEF S
  <2>1. \A k \in 0..Len(s) : k \in S
    BY <1>1, <1>2, <1>3, UpTo
  <2>2. QED
    BY <1>1, <2>1
<1>5. PICK f : OK(Len(s), f)
  BY <1>4
<1>6. f = [n \in 0..Len(s) |-> DecStep(s, f, n)]
  BY <1>5
<1>7. QED
  BY <1>6, DecIsChosen

(* What is decoded, character by character. *)
LEMMA DecValues ==
  ASSUME NEW s \in Seq(Int)
  PROVE  /\ DecodedUpTo(s)[0] = <<>>
         /\ \A n \in 1..Len(s) :
              DecodedUpTo(s)[n] = IF Digit(s, n) THEN DecodedUpTo(s)[n - 1]
                                  ELSE Append(DecodedUpTo(s)[n - 1], Kept(s, n))
         /\ \A n \in 0..Len(s) : DecodedUpTo(s)[n] \in Seq(Int)
<1> DEFINE B == DecodedUpTo(s)
           S == {k \in 0..Len(s) : B[k] \in Seq(Int)}
<1>1. Len(s) \in Nat /\ \A n \in 1..Len(s) : Kept(s, n) \in Int
  BY KeptType
<1>2. \A n \in 0..Len(s) : B[n] = DecStep(s, B, n)
  BY DecEquation
<1> HIDE DEF B
<1>3. B[0] = <<>>
  BY <1>1, <1>2 DEF DecStep
<1>4. ASSUME NEW n \in 1..Len(s)
      PROVE  B[n] = IF Digit(s, n) THEN B[n - 1] ELSE Append(B[n - 1], Kept(s, n))
  <2>1. n \in 0..Len(s) /\ n # 0
    BY <1>1
  <2>2. QED
    BY <1>2, <2>1 DEF DecStep
<1>5. ASSUME NEW k \in 0..Len(s), k \in S, k < Len(s) PROVE k + 1 \in S
  <2>1. k + 1 \in 1..Len(s) /\ k + 1 \in 0..Len(s) /\ (k + 1) - 1 = k
    BY <1>1, <1>5
  <2>2. B[k + 1] = IF Digit(s, k + 1) THEN B[k] ELSE Append(B[k], Kept(s, k + 1))
    BY <1>4, <2>1
  <2>3. B[k] \in Seq(Int) /\ Kept(s, k + 1) \in Int
    BY <1>1, <1>5, <2>1
  <2>4. B[k + 1] \in Seq(Int)
    BY <2>2, <2>3, AppendProperties
  <2>5. QED
    BY <2>1, <2>4
<1>6. 0 \in S
  <2>1. B[0] \in Seq(Int) /\ 0 \in 0..Len(s)
    BY <1>1, <1>3
  <2>2. QED
    BY <2>1
<1>7. \A k \in 0..Len(s) : k \in S
  <2> HIDE DEF S
  <2>1. QED
    BY <1>1, <1>5, <1>6, UpTo
<1>8. QED
  BY <1>3, <1>4, <1>7 DEF B

(* Nothing becomes longer, and the bytes are those of s or of its escapes. *)
LEMMA DecContent ==
  ASSUME NEW s \in Seq(Int), NEW n \in 0..Len(s)
  PROVE  /\ Len(DecodedUpTo(s)[n]) <= n
         /\ \A j \in 1..Len(DecodedUpTo(s)[n]) :
              \E k \in 1..Len(s) : DecodedUpTo(s)[n][j] = Kept(s, k)
<1> DEFINE B == DecodedUpTo(s)
           Q(b) == \A j \in 1..Len(b) : \E k \in 1..Len(s) : b[j] = Kept(s, k)
           S == {k \in 0..Len(s) : Len(B[k]) <= k /\ Q(B[k])}
<1>1. Len(s) \in Nat /\ \A i \in 1..Len(s) : Kept(s, i) \in Int
  BY KeptType
<1>2. /\ B[0] = <<>>
      /\ \A i \in 1..Len(s) : B[i] = IF Digit(s, i) THEN B[i - 1] ELSE Append(B[i - 1], Kept(s, i))
      /\ \A i \in 0..Len(s) : B[i] \in Seq(Int)
  BY DecValues
<1> HIDE DEF B
<1>3. 0 \in S
  <2>1. Len(B[0]) = 0
    BY <1>2, EmptySeq
  <2>2. QED
    BY <1>1, <2>1
<1>4. ASSUME NEW k \in 0..Len(s), k \in S, k < Len(s) PROVE k + 1 \in S
  <2>1. k \in Nat /\ k + 1 \in 1..Len(s) /\ k + 1 \in 0..Len(s) /\ (k + 1) - 1 = k
    BY <1>1, <1>4
  <2>2. B[k + 1] = IF Digit(s, k + 1) THEN B[k] ELSE Append(B[k], Kept(s, k + 1))
    BY <1>2, <2>1
  <2>3. B[k] \in Seq(Int) /\ Kept(s, k + 1) \in Int /\ Len(B[k]) \in Nat
    BY <1>1, <1>2, <2>1, LenProperties
  <2>4. Len(B[k]) <= k /\ Q(B[k])
    BY <1>4
  <2>5. CASE Digit(s, k + 1)
    <3>1. B[k + 1] = B[k] /\ Len(B[k]) <= k + 1
      BY <2>1, <2>2, <2>3, <2>4, <2>5
    <3> HIDE DEF Q
    <3>2. QED
      BY <2>1, <2>4, <3>1
  <2>6. CASE ~Digit(s, k + 1)
    <3>1. PICK b : b = B[k + 1]
      OBVIOUS
    <3>2. b = Append(B[k], Kept(s, k + 1))
      BY <2>2, <2>6, <3>1
    <3>3. /\ Len(b) = Len(B[k]) + 1 /\ b[Len(B[k]) + 1] = Kept(s, k + 1)
          /\ \A j \in 1..Len(B[k]) : b[j] = B[k][j]
      BY <2>3, <3>2, AppendProperties
    <3>4. ASSUME NEW j \in 1..Len(b) PROVE \E i \in 1..Len(s) : b[j] = Kept(s, i)
      <4>1. j \in 1..Len(B[k]) \/ j = Len(B[k]) + 1
        BY <2>3, <3>3
      <4>2. CASE j \in 1..Len(B[k])
        <5>1. \E i \in 1..Len(s) : B[k][j] = Kept(s, i)
          BY <2>4, <4>2
        <5>2. QED
          BY <3>3, <4>2, <5>1
      <4>3. CASE j = Len(B[k]) + 1
        BY <2>1, <3>3, <4>3
      <4>4. QED
        BY <4>1, <4>2, <4>3
    <3>5. Len(b) <= k + 1
      BY <2>1, <2>3, <2>4, <3>3
    <3>6. Q(b)
      BY <3>4
    <3> HIDE DEF Q
    <3>7. QED
      BY <2>1, <3>1, <3>5, <3>6
  <2>7. QED
    BY <2>5, <2>6
<1>5. \A k \in 0..Len(s) : k \in S
  <2> HIDE DEF S
  <2>1. QED
    BY <1>1, <1>3, <1>4, UpTo
<1>6. QED
  BY <1>5 DEF B

(* Without an escape nothing changes. *)
LEMMA DecSame ==
  ASSUME NEW s \in Seq(Int), Escapes(s) = {}
  PROVE  Decoded(s) = s
<1> DEFINE B == DecodedUpTo(s)
           S == {k \in 0..Len(s) : Len(B[k]) = k /\ \A j \in 1..k : B[k][j] = s[j]}
<1>1. Len(s) \in Nat /\ \A i \in 1..Len(s) : Kept(s, i) \in Int
  BY KeptType
<1>2. /\ B[0] = <<>>
      /\ \A i \in 1..Len(s) : B[i] = IF Digit(s, i) THEN B[i - 1] ELSE Append(B[i - 1], Kept(s, i))
      /\ \A i \in 0..Len(s) : B[i] \in Seq(Int)
  BY DecValues
<1> HIDE DEF B
<1>3. 0 \in S
  <2>1. Len(B[0]) = 0
    BY <1>2, EmptySeq
  <2>2. QED
    BY <1>1, <2>1
<1>4. ASSUME NEW k \in 0..Len(s), k \in S, k < Len(s) PROVE k + 1 \in S
  <2>1. k \in Nat /\ k + 1 \in 1..Len(s) /\ k + 1 \in 0..Len(s) /\ (k + 1) - 1 = k
    BY <1>1, <1>4
  <2>2. B[k + 1] = Append(B[k], s[k + 1])
    <3>1. B[k + 1] = IF Digit(s, k + 1) THEN B[k] ELSE Append(B[k], Kept(s, k + 1))
      BY <1>2, <2>1
    <3>2. ~Digit(s, k + 1) /\ Kept(s, k + 1) = s[k + 1]
      BY DEF Digit, Kept
    <3>3. QED
      BY <3>1, <3>2
  <2>3. B[k] \in Seq(Int) /\ s[k + 1] \in Int
    BY <1>2, <2>1, ElementOfSeq
  <2>4. Len(B[k]) = k /\ \A j \in 1..k : B[k][j] = s[j]
    BY <1>4
  <2>5. PICK b : b = B[k + 1]
    OBVIOUS
  <2>6. /\ Len(b) = Len(B[k]) + 1 /\ b[Len(B[k]) + 1] = s[k + 1]
        /\ \A j \in 1..Len(B[k]) : b[j] = B[k][j]
    BY <2>2, <2>3, <2>5, AppendProperties
  <2>7. Len(b) = k + 1 /\ b[k + 1] = s[k + 1] /\ \A j \in 1..k : b[j] = s[j]
    BY <2>4, <2>6
  <2>8. \A j \in 1..(k + 1) : j \in 1..k \/ j = k + 1
    BY <2>1
  <2>9. \A j \in 1..(k + 1) : b[j] = s[j]
    BY <2>7, <2>8
  <2>10. QED
    BY <2>1, <2>5, <2>7, <2>9
<1>5. Len(s) \in S
  <2> HIDE DEF S
  <2>1. \A k \in 0..Len(s) : k \in S
    BY <1>1, <1>3, <1>4, UpTo
  <2>2. QED
    BY <1>1, <2>1
<1>6. PICK b : b = B[Len(s)]
  OBVIOUS
<1>7. b \in Seq(Int) /\ Len(b) = Len(s) /\ \A j \in 1..Len(b) : b[j] = s[j]
  BY <1>1, <1>2, <1>5, <1>6
<1>8. b = s
  BY <1>7, SeqEqual
<1>9. QED
  BY <1>6, <1>8 DEF Decoded, B


(* A string begins with another, character by character. *)
LEMMA BeginsWith ==
  ASSUME NEW a \in Seq(Int), NEW b \in Seq(Int), Len(b) <= Len(a),
         \A j \in 1..Len(b) : a[j] = b[j]
  PROVE  Begins(a, b)
<1>1. PICK l \in Nat : l = Len(b)
  BY LenProperties
<1>2. Len(a) \in Nat
  BY LenProperties
<1>3. \A i \in 1..l : a[i] \in Int
  <2>1. \A i \in 1..l : i \in 1..Len(a)
    BY <1>1, <1>2
  <2>2. QED
    BY <2>1, ElementOfSeq
<1>4. /\ SubSeq(a, 1, l) \in Seq(Int)
      /\ Len(SubSeq(a, 1, l)) = IF 1 <= l THEN l - 1 + 1 ELSE 0
      /\ \A i \in 1..(l - 1 + 1) : SubSeq(a, 1, l)[i] = a[1 + i - 1]
  BY <1>3, SubSeqProperties
<1>5. PICK d : d = SubSeq(a, 1, l)
  OBVIOUS
<1>6. d \in Seq(Int) /\ Len(d) = l
  BY <1>4, <1>5
<1>7. ASSUME NEW i \in 1..Len(d) PROVE d[i] = b[i]
  <2>1. i \in 1..(l - 1 + 1) /\ 1 + i - 1 = i /\ i \in 1..Len(b)
    BY <1>1, <1>6
  <2>2. QED
    BY <1>4, <1>5, <2>1
<1>8. d = b
  BY <1>1, <1>6, <1>7, SeqEqual
<1>9. QED
  BY <1>1, <1>5, <1>8 DEF Begins

(* Escapes are where characters are. *)
LEMMA EscapesIn == \A s : \A i \in Escapes(s) : i \in Int /\ i >= 1
BY DEF Escapes

(* What follows a string with complete escapes does not matter to it. *)
LEMMA DecExtends ==
  ASSUME NEW s \in Seq(Int), NEW t \in Seq(Int), Len(s) <= Len(t),
         \A i \in 1..Len(s) : t[i] = s[i],
         \A i \in 1..Len(s) : i \in Escapes(t) <=> i \in Escapes(s)
  PROVE  Begins(Decoded(t), Decoded(s))
<1>1. PICK n \in Nat : n = Len(s)
  BY LenProperties
<1>2. PICK r \in Nat : Len(t) = n + r
  <2>1. Len(t) \in Nat /\ n <= Len(t)
    BY <1>1, LenProperties
  <2>2. Len(t) - n \in Nat /\ Len(t) = n + (Len(t) - n)
    BY <2>1
  <2>3. QED
    BY <2>2
<1> DEFINE B == DecodedUpTo(s)
           C == DecodedUpTo(t)
           S == {k \in 0..n : B[k] = C[k]}
           E(k) == Len(B[n]) <= Len(C[n + k]) /\ \A j \in 1..Len(B[n]) : C[n + k][j] = B[n][j]
           R == {k \in 0..r : E(k)}
<1>3. /\ B[0] = <<>>
      /\ \A i \in 1..n : B[i] = IF Digit(s, i) THEN B[i - 1] ELSE Append(B[i - 1], Kept(s, i))
      /\ \A i \in 0..n : B[i] \in Seq(Int)
  BY <1>1, DecValues
<1>4. /\ C[0] = <<>>
      /\ \A i \in 1..(n + r) : C[i] = IF Digit(t, i) THEN C[i - 1] ELSE Append(C[i - 1], Kept(t, i))
      /\ \A i \in 0..(n + r) : C[i] \in Seq(Int)
  BY <1>2, DecValues
<1>5. \A i \in 1..(n + r) : Kept(t, i) \in Int
  BY <1>2, KeptType
<1> HIDE DEF B, C
<1>6. ASSUME NEW i \in 1..n PROVE Kept(t, i) = Kept(s, i) /\ (Digit(t, i) <=> Digit(s, i))
  <2>1. Kept(t, i) = Kept(s, i)
    BY <1>1 DEF Kept
  <2>2. ASSUME NEW j \in {i - 1, i - 2} PROVE j \in Escapes(t) <=> j \in Escapes(s)
    <3>1. CASE j >= 1
      <4>1. j \in 1..Len(s)
        BY <1>1, <3>1
      <4>2. QED
        BY <4>1
    <3>2. CASE ~(j >= 1)
      BY <3>2, EscapesIn
    <3>3. QED
      BY <3>1, <3>2
  <2>3. QED
    BY <2>1, <2>2 DEF Digit
<1>7. 0 \in S
  BY <1>3, <1>4
<1>8. ASSUME NEW k \in 0..n, k \in S, k < n PROVE k + 1 \in S
  <2>1. k + 1 \in 1..n /\ k + 1 \in 0..n /\ k + 1 \in 1..(n + r) /\ (k + 1) - 1 = k
    BY <1>8
  <2>2. B[k + 1] = IF Digit(s, k + 1) THEN B[k] ELSE Append(B[k], Kept(s, k + 1))
    BY <1>3, <2>1
  <2>3. C[k + 1] = IF Digit(t, k + 1) THEN C[k] ELSE Append(C[k], Kept(t, k + 1))
    BY <1>4, <2>1
  <2>4. Kept(t, k + 1) = Kept(s, k + 1) /\ (Digit(t, k + 1) <=> Digit(s, k + 1))
    BY <1>6, <2>1
  <2>5. B[k] = C[k]
    BY <1>8
  <2>6. B[k + 1] = C[k + 1]
    BY <2>2, <2>3, <2>4, <2>5
  <2>7. QED
    BY <2>1, <2>6
<1>9. B[n] = C[n] /\ B[n] \in Seq(Int) /\ Len(B[n]) \in Nat
  <2>1. \A k \in 0..n : k \in S
    <3> HIDE DEF S
    <3>1. QED
      BY <1>7, <1>8, UpTo
  <2>2. n \in 0..n
    OBVIOUS
  <2>3. n \in S /\ B[n] \in Seq(Int)
    BY <1>3, <2>1, <2>2
  <2>4. QED
    BY <2>3, LenProperties
<1>10. 0 \in R
  <2>1. n + 0 = n
    OBVIOUS
  <2>2. E(0)
    BY <1>9, <2>1
  <2>3. QED
    BY <2>2
<1>11. ASSUME NEW k \in 0..r, k \in R, k < r PROVE k + 1 \in R
  <2>1. /\ n + k + 1 \in 1..(n + r) /\ k + 1 \in 0..r /\ (n + k + 1) - 1 = n + k
        /\ n + k \in 0..(n + r) /\ n + (k + 1) = n + k + 1
    BY <1>11
  <2>2. PICK c, d : c = C[n + k] /\ d = C[n + k + 1]
    OBVIOUS
  <2>3. d = IF Digit(t, n + k + 1) THEN c ELSE Append(c, Kept(t, n + k + 1))
    BY <1>4, <2>1, <2>2
  <2>4. c \in Seq(Int) /\ Len(c) \in Nat /\ Kept(t, n + k + 1) \in Int
    BY <1>4, <1>5, <2>1, <2>2, LenProperties
  <2>5. Len(B[n]) <= Len(c) /\ \A j \in 1..Len(B[n]) : c[j] = B[n][j]
    BY <1>11, <2>2
  <2>6. Len(c) <= Len(d) /\ \A j \in 1..Len(c) : d[j] = c[j]
    <3>1. CASE d = c
      BY <2>4, <3>1
    <3>2. CASE d = Append(c, Kept(t, n + k + 1))
      <4>1. Len(d) = Len(c) + 1 /\ \A j \in 1..Len(c) : d[j] = c[j]
        BY <2>4, <3>2, AppendProperties
      <4>2. QED
        BY <2>4, <4>1
    <3>3. QED
      BY <2>3, <3>1, <3>2
  <2>7. Len(B[n]) <= Len(d)
    <3>1. d \in Seq(Int)
      BY <1>4, <2>1, <2>2
    <3>2. Len(d) \in Nat
      BY <3>1, LenProperties
    <3>3. QED
      BY <1>9, <2>4, <2>5, <2>6, <3>2
  <2>8. ASSUME NEW j \in 1..Len(B[n]) PROVE d[j] = B[n][j]
    <3>1. j \in 1..Len(c)
      BY <1>9, <2>4, <2>5
    <3>2. QED
      BY <2>5, <2>6, <3>1
  <2>9. E(k + 1)
    BY <2>1, <2>2, <2>7, <2>8
  <2>10. QED
    BY <2>1, <2>9
<1>12. E(r)
  <2>1. \A k \in 0..r : k \in R
    <3> HIDE DEF R
    <3>1. QED
      BY <1>10, <1>11, UpTo
  <2>2. r \in 0..r
    OBVIOUS
  <2>3. QED
    BY <2>1, <2>2
<1>13. PICK b, c : b = B[n] /\ c = C[n + r]
  OBVIOUS
<1>14. b \in Seq(Int) /\ c \in Seq(Int) /\ Len(b) <= Len(c) /\ \A j \in 1..Len(b) : c[j] = b[j]
  <2>1. n + r \in 0..(n + r)
    OBVIOUS
  <2>2. QED
    BY <1>4, <1>9, <1>12, <1>13, <2>1
<1>15. Begins(c, b)
  BY <1>14, BeginsWith
<1>16. QED
  BY <1>1, <1>2, <1>13, <1>15 DEF Decoded, B, C

(***************************************************************************)
(* URLDecode keeps the length of the string, which begins with the decoded *)
(* one and is unchanged without escapes.                                   *)
(***************************************************************************)
LEMMA URLDecodes ==
  ASSUME NEW s \in Seq(Int)
  PROVE  /\ URLDecode(s) \in Seq(Int) /\ Len(URLDecode(s)) = Len(s)
         /\ Begins(URLDecode(s), Decoded(s))
         /\ Escapes(s) = {} => URLDecode(s) = s
         /\ \A j \in 1..Len(s) : \E k \in 1..Len(s) : URLDecode(s)[j] \in {s[k], Kept(s, k)}
<1>1. PICK n \in Nat : n = Len(s)
  BY LenProperties
<1>2. PICK d : d = Decoded(s)
  OBVIOUS
<1>3. /\ d \in Seq(Int) /\ Len(d) \in Nat /\ Len(d) <= n
      /\ \A j \in 1..Len(d) : \E k \in 1..n : d[j] = Kept(s, k)
  <2>1. n \in 0..Len(s)
    BY <1>1
  <2>2. DecodedUpTo(s)[n] \in Seq(Int)
    BY <2>1, DecValues
  <2>3. d = DecodedUpTo(s)[n]
    BY <1>1, <1>2 DEF Decoded
  <2>4. /\ Len(DecodedUpTo(s)[n]) <= n
        /\ \A j \in 1..Len(DecodedUpTo(s)[n]) :
              \E k \in 1..Len(s) : DecodedUpTo(s)[n][j] = Kept(s, k)
    BY <2>1, DecContent
  <2>5. d \in Seq(Int) /\ Len(d) \in Nat
    BY <2>2, <2>3, LenProperties
  <2>6. QED
    BY <1>1, <2>3, <2>4, <2>5
<1>4. PICK l \in Nat, q \in Nat : l = Len(d) /\ q = n - l
  <2>1. n - Len(d) \in Nat
    BY <1>3
  <2>2. QED
    BY <1>3, <2>1
<1>5. q > 0 => n >= 3
  <2>1. SUFFICES ASSUME q > 0 PROVE n >= 3
    OBVIOUS
  <2>2. d # s
    BY <1>1, <1>4, <2>1
  <2>3. PICK i \in Escapes(s) : TRUE
    BY <1>2, <2>2, DecSame
  <2>4. i \in 1..(n - 2)
    BY <1>1, <2>3 DEF Escapes
  <2>5. QED
    BY <2>4
<1>6. PICK z : z = [j \in 1..q |-> s[n - (j % 2)]]
  OBVIOUS
<1>7. \A j \in 1..q : n - (j % 2) \in 1..n
  BY <1>5
<1>8. z \in Seq(Int) /\ Len(z) = q /\ \A j \in 1..q : z[j] = s[n - (j % 2)]
  <2>1. \A j \in 1..q : s[n - (j % 2)] \in Int
    BY <1>1, <1>7, ElementOfSeq
  <2>2. QED
    BY <1>6, <2>1
<1>9. PICK u : u = d \o z
  OBVIOUS
<1>10. URLDecode(s) = u
  BY <1>1, <1>2, <1>4, <1>6, <1>9 DEF URLDecode
<1>11. /\ u \in Seq(Int) /\ Len(u) = l + q
       /\ \A k \in 1..(l + q) : u[k] = IF k <= l THEN d[k] ELSE z[k - l]
  <2>1. d \in Seq(Int) /\ z \in Seq(Int)
    BY <1>3, <1>8
  <2>2. /\ d \o z \in Seq(Int) /\ Len(d \o z) = Len(d) + Len(z)
        /\ \A k \in 1..(Len(d) + Len(z)) :
             (d \o z)[k] = IF k <= Len(d) THEN d[k] ELSE z[k - Len(d)]
    BY <2>1, ConcatProperties
  <2>3. Len(d) = l /\ Len(z) = q
    BY <1>4, <1>8
  <2>4. QED
    BY <1>9, <2>2, <2>3
<1>12. l + q = n /\ Len(u) = n
  BY <1>4, <1>11
<1>13. Begins(u, d)
  <2>1. Len(d) <= Len(u)
    BY <1>3, <1>12
  <2>2. \A j \in 1..Len(d) : u[j] = d[j]
    BY <1>4, <1>11
  <2>3. QED
    BY <1>3, <1>11, <2>1, <2>2, BeginsWith
<1>14. ASSUME Escapes(s) = {} PROVE u = s
  <2>1. d = s
    BY <1>2, <1>14, DecSame
  <2>2. l = n
    BY <1>1, <1>4, <2>1
  <2>3. \A j \in 1..Len(u) : u[j] = s[j]
    BY <1>11, <1>12, <2>1, <2>2
  <2>4. QED
    BY <1>1, <1>11, <1>12, <2>3, SeqEqual
<1>15. ASSUME NEW j \in 1..n PROVE \E k \in 1..n : u[j] \in {s[k], Kept(s, k)}
  <2>1. CASE j <= l
    <3>1. j \in 1..Len(d) /\ u[j] = d[j]
      BY <1>4, <1>11, <1>12, <2>1
    <3>2. PICK k \in 1..n : d[j] = Kept(s, k)
      BY <1>3, <3>1
    <3>3. QED
      BY <3>1, <3>2
  <2>2. CASE ~(j <= l)
    <3>1. j - l \in 1..q /\ u[j] = z[j - l]
      BY <1>11, <1>12, <2>2
    <3>2. PICK k \in 1..n : k = n - ((j - l) % 2)
      BY <1>7, <3>1
    <3>3. u[j] = s[k]
      BY <1>8, <3>1, <3>2
    <3>4. QED
      BY <3>3
  <2>3. QED
    BY <2>1, <2>2
<1>16. QED
  BY <1>1, <1>2, <1>10, <1>11, <1>12, <1>13, <1>14, <1>15


-----------------------------------------------------------------------------
(***************************************************************************)
(* Types.  This holds for all forms, even with escaped ampersands.         *)
(***************************************************************************)

(* A NUL is written. *)
LEMMA CutAt ==
  ASSUME NEW m, IsBuffer(m), NEW i \in 1..SEND_BUF
  PROVE  IsBuffer(Cut(m, i)) /\ \A k \in 1..SEND_BUF : Cut(m, i)[k] = IF k = i THEN 0 ELSE m[k]
<1>1. PICK t : t = <<0>>
  OBVIOUS
<1>2. t \in Seq(Int) /\ Len(t) = 1 /\ t[1] = 0
  BY <1>1
<1>3. m \in Seq(Int) /\ Len(m) = SEND_BUF /\ i + Len(t) <= SEND_BUF + 1
  BY <1>2, Sizes DEF IsBuffer
<1>4. PICK w : w = Write(m, i, t)
  OBVIOUS
<1>5. /\ w \in Seq(Int) /\ Len(w) = SEND_BUF
      /\ \A k \in 1..SEND_BUF : w[k] = IF i <= k /\ k < i + Len(t) THEN t[k - i + 1] ELSE m[k]
  <2>1. t \in Seq(Int)
    BY <1>2
  <2>2. m \in Seq(Int)
    BY <1>3
  <2>3. Len(m) = SEND_BUF /\ i + Len(t) <= SEND_BUF + 1
    BY <1>3
  <2>4. /\ Write(m, i, t) \in Seq(Int) /\ Len(Write(m, i, t)) = SEND_BUF
        /\ \A k \in 1..SEND_BUF :
             Write(m, i, t)[k] = IF i <= k /\ k < i + Len(t) THEN t[k - i + 1] ELSE m[k]
    BY <2>1, <2>2, <2>3, WriteAt
  <2>5. QED
    BY <1>4, <2>4
<1>6. ASSUME NEW k \in 1..SEND_BUF PROVE w[k] = IF k = i THEN 0 ELSE m[k]
  <2>1. CASE k = i
    <3>1. i <= k /\ k < i + 1 /\ k - i + 1 = 1
      BY <2>1
    <3>2. QED
      BY <1>2, <1>5, <2>1, <3>1
  <2>2. CASE k # i
    <3>1. ~(i <= k /\ k < i + 1)
      BY <2>2
    <3>2. QED
      BY <1>2, <1>5, <2>2, <3>1
  <2>3. QED
    BY <2>1, <2>2
<1>7. IsBuffer(w)
  <2>1. \A k \in (SEND_BUF - RESERVE + 1)..SEND_BUF : k \in 1..SEND_BUF
    BY Sizes
  <2>2. QED
    BY <1>5, <1>6, <2>1 DEF IsBuffer
<1>8. w = Cut(m, i)
  BY <1>1, <1>4 DEF Cut
<1>9. QED
  BY <1>6, <1>7, <1>8

(* A string of the buffer is decoded in place. *)
LEMMA DecodeInPlace ==
  ASSUME NEW m, IsBuffer(m), NEW b, IsBuffer(b), NEW s \in 1..(SEND_BUF - RESERVE + 1)
  PROVE  /\ IsBuffer(Write(b, s, URLDecode(Str(m, s))))
         /\ \A i \in 1..SEND_BUF :
              \/ Write(b, s, URLDecode(Str(m, s)))[i] = b[i]
              \/ /\ s <= i /\ i < StrEnd(m, s)
                 /\ \E k \in 1..Len(Str(m, s)) :
                      Write(b, s, URLDecode(Str(m, s)))[i] \in {Str(m, s)[k], Kept(Str(m, s), k)}
<1>0. s \in 1..SEND_BUF /\ s \in Nat /\ SEND_BUF \in Nat /\ RESERVE \in Nat
      /\ SEND_BUF - RESERVE \in Nat /\ RESERVE >= 1
  BY Sizes
<1>1. PICK e \in Nat : e = StrEnd(m, s) /\ s <= e /\ e <= SEND_BUF - RESERVE + 1
  BY <1>0, EndOfString
<1>2. PICK r : r = Str(m, s)
  OBVIOUS
<1>3. r \in Seq(Int) /\ Len(r) = e - s
  BY <1>0, <1>1, <1>2, StringAt
<1>4. PICK u : u = URLDecode(r)
  OBVIOUS
<1>5. /\ u \in Seq(Int) /\ Len(u) = e - s
      /\ \A j \in 1..(e - s) : \E k \in 1..Len(r) : u[j] \in {r[k], Kept(r, k)}
  BY <1>3, <1>4, URLDecodes
<1>6. PICK w : w = Write(b, s, u)
  OBVIOUS
<1>7. b \in Seq(Int) /\ Len(b) = SEND_BUF /\ s + Len(u) <= SEND_BUF + 1
  BY <1>0, <1>1, <1>5 DEF IsBuffer
<1>8. /\ w \in Seq(Int) /\ Len(w) = SEND_BUF
      /\ \A k \in 1..SEND_BUF : w[k] = IF s <= k /\ k < s + Len(u) THEN u[k - s + 1] ELSE b[k]
  BY <1>0, <1>5, <1>6, <1>7, WriteAt
<1>9. s + Len(u) = e
  BY <1>0, <1>1, <1>5
<1>10. IsBuffer(w)
  <2>1. \A k \in (SEND_BUF - RESERVE + 1)..SEND_BUF : k \in 1..SEND_BUF /\ ~(k < e)
    BY <1>0, <1>1
  <2>2. QED
    BY <1>8, <1>9, <2>1 DEF IsBuffer
<1>11. ASSUME NEW i \in 1..SEND_BUF
       PROVE  \/ w[i] = b[i]
              \/ s <= i /\ i < e /\ \E k \in 1..Len(r) : w[i] \in {r[k], Kept(r, k)}
  <2>1. CASE s <= i /\ i < e
    <3>1. i - s + 1 \in 1..(e - s) /\ w[i] = u[i - s + 1]
      BY <1>0, <1>1, <1>8, <1>9, <2>1
    <3>2. QED
      BY <1>5, <2>1, <3>1
  <2>2. CASE ~(s <= i /\ i < e)
    BY <1>8, <1>9, <2>2
  <2>3. QED
    BY <2>1, <2>2
<1>12. QED
  BY <1>1, <1>2, <1>4, <1>6, <1>10, <1>11

(* A byte i of m was decoded as a part of the string at s. *)
Changed(m, s, i, v) ==
  /\ s <= i /\ i < StrEnd(m, s)
  /\ \E k \in 1..Len(Str(m, s)) : v \in {Str(m, s)[k], Kept(Str(m, s), k)}

(* A field is set: its two strings are decoded in place. *)
LEMMA FieldSet ==
  ASSUME Types, NEW m, IsBuffer(m), NEW name \in 1..(SEND_BUF - RESERVE + 1),
         NEW value \in 1..(SEND_BUF - RESERVE + 1), SetField(m, name, value)
  PROVE  /\ IsBuffer(mem')
         /\ calls' = Append(calls, [name |-> URLDecode(Str(m, name)),
                                    value |-> URLDecode(Str(m, value))])
         /\ calls' \in Seq(Calls)
         /\ \A i \in 1..SEND_BUF :
              mem'[i] = m[i] \/ Changed(m, name, i, mem'[i]) \/ Changed(m, value, i, mem'[i])
<1>1. PICK n, v : n = URLDecode(Str(m, name)) /\ v = URLDecode(Str(m, value))
  OBVIOUS
<1>2. mem' = Write(Write(m, name, n), value, v) /\ calls' = Append(calls, [name |-> n, value |-> v])
  BY <1>1 DEF SetField
<1>3. PICK w : w = Write(m, name, n)
  OBVIOUS
<1>4. IsBuffer(w) /\ \A i \in 1..SEND_BUF : w[i] = m[i] \/ Changed(m, name, i, w[i])
  <2>1. /\ IsBuffer(Write(m, name, URLDecode(Str(m, name))))
        /\ \A i \in 1..SEND_BUF :
             \/ Write(m, name, URLDecode(Str(m, name)))[i] = m[i]
             \/ /\ name <= i /\ i < StrEnd(m, name)
                /\ \E k \in 1..Len(Str(m, name)) :
                     Write(m, name, URLDecode(Str(m, name)))[i]
                       \in {Str(m, name)[k], Kept(Str(m, name), k)}
    BY DecodeInPlace, Zenon
  <2>2. w = Write(m, name, URLDecode(Str(m, name)))
    BY <1>1, <1>3
  <2>3. QED
    BY <2>1, <2>2, Zenon DEF Changed
<1>5. IsBuffer(mem') /\ \A i \in 1..SEND_BUF : mem'[i] = w[i] \/ Changed(m, value, i, mem'[i])
  <2>1. IsBuffer(w)
    BY <1>4
  <2>2. /\ IsBuffer(Write(w, value, URLDecode(Str(m, value))))
        /\ \A i \in 1..SEND_BUF :
             \/ Write(w, value, URLDecode(Str(m, value)))[i] = w[i]
             \/ /\ value <= i /\ i < StrEnd(m, value)
                /\ \E k \in 1..Len(Str(m, value)) :
                     Write(w, value, URLDecode(Str(m, value)))[i]
                       \in {Str(m, value)[k], Kept(Str(m, value), k)}
    BY <2>1, DecodeInPlace, Zenon
  <2>3. mem' = Write(w, value, URLDecode(Str(m, value)))
    BY <1>1, <1>2, <1>3
  <2>4. QED
    BY <2>2, <2>3, Zenon DEF Changed
<1>6. ASSUME NEW i \in 1..SEND_BUF
      PROVE  mem'[i] = m[i] \/ Changed(m, name, i, mem'[i]) \/ Changed(m, value, i, mem'[i])
  <2>1. CASE mem'[i] = w[i]
    <3>1. w[i] = m[i] \/ Changed(m, name, i, w[i])
      BY <1>4
    <3>2. QED
      BY <2>1, <3>1
  <2>2. QED
    BY <1>5, <2>1
<1>7. calls' \in Seq(Calls)
  <2>1. name \in 1..SEND_BUF /\ value \in 1..SEND_BUF
    BY Sizes
  <2>2. Str(m, name) \in Seq(Int) /\ Str(m, value) \in Seq(Int)
    BY <2>1, StringAt
  <2>3. n \in Seq(Int) /\ v \in Seq(Int)
    BY <1>1, <2>2, URLDecodes
  <2>4. [name |-> n, value |-> v] \in Calls
    BY <2>3 DEF Calls
  <2>5. QED
    BY <1>2, <2>4, AppendProperties DEF Types
<1>8. QED
  BY <1>1, <1>2, <1>5, <1>6, <1>7


(* A string written in front of the reserved bytes. *)
LEMMA WriteBuffer ==
  ASSUME NEW m, IsBuffer(m), NEW i \in 1..SEND_BUF, NEW t \in Seq(Int),
         i + Len(t) <= SEND_BUF - RESERVE + 1
  PROVE  /\ IsBuffer(Write(m, i, t))
         /\ \A k \in 1..SEND_BUF :
              Write(m, i, t)[k] = IF i <= k /\ k < i + Len(t) THEN t[k - i + 1] ELSE m[k]
<1>1. Len(t) \in Nat
  BY LenProperties
<1>2. m \in Seq(Int)
  BY DEF IsBuffer
<1>3. Len(m) = SEND_BUF /\ i + Len(t) <= SEND_BUF + 1
  BY <1>1, Sizes DEF IsBuffer
<1>4. PICK w : w = Write(m, i, t)
  OBVIOUS
<1>5. /\ Write(m, i, t) \in Seq(Int) /\ Len(Write(m, i, t)) = SEND_BUF
      /\ \A k \in 1..SEND_BUF :
           Write(m, i, t)[k] = IF i <= k /\ k < i + Len(t) THEN t[k - i + 1] ELSE m[k]
  BY <1>2, <1>3, WriteAt
<1>6. \A k \in (SEND_BUF - RESERVE + 1)..SEND_BUF : k \in 1..SEND_BUF /\ ~(k < i + Len(t))
  BY <1>1, Sizes
<1>7. IsBuffer(w)
  BY <1>4, <1>5, <1>6 DEF IsBuffer
<1>8. QED
  BY <1>4, <1>5, <1>7

(* A form, and its length. *)
LEMMA FormLength ==
  ASSUME Types
  PROVE  /\ IsForm(body) /\ Len(body) \in Nat /\ received \in Nat /\ received <= Len(body)
         /\ Remain \in Nat /\ Remain = Len(body) - received
<1>1. IsForm(body)
  BY FormAssumption DEF Types
<1>2. Len(body) \in Nat
  BY <1>1, LenProperties DEF IsForm
<1>3. QED
  BY <1>1, <1>2 DEF Types, Remain

(* A part of the body. *)
LEMMA PartOfBody ==
  \A r \in Nat, c \in Nat :
    [i \in 1..c |-> r + i] \in Seq(Int) /\ Len([i \in 1..c |-> r + i]) = c
OBVIOUS

(* What is received follows what is in the buffer. *)
LEMMA DataAppended ==
  ASSUME Types, left >= 0, NEW size \in 1..Remain, NEW c, c = Min({size, Free}), c > 0,
         mem' = Write(mem, left + 1, [i \in 1..c |-> received + i])
  PROVE  /\ c \in Nat /\ c >= 1 /\ received + c <= Len(body) /\ left + c <= SEND_BUF - RESERVE
         /\ IsBuffer(mem')
         /\ \A k \in 1..SEND_BUF :
              mem'[k] = IF left < k /\ k <= left + c THEN received - left + k ELSE mem[k]
<1>1. size \in Nat /\ size <= Len(body) - received /\ received \in Nat /\ Len(body) \in Nat
  BY FormLength
<1>2. left \in Nat /\ left <= SEND_BUF - RESERVE
  BY DEF Types
<1>3. Free \in Nat /\ Free = SEND_BUF - RESERVE - left
  BY <1>2, Sizes DEF Free
<1>4. {size, Free} \in SUBSET Nat /\ {size, Free} # {}
  BY <1>1, <1>3
<1>5. c \in {size, Free} /\ c <= size /\ c <= Free
  BY <1>4, MinIsLeast
<1>6. c \in Nat /\ c >= 1 /\ received + c <= Len(body) /\ left + c <= SEND_BUF - RESERVE
  BY <1>1, <1>2, <1>3, <1>5, Sizes
<1>7. PICK t : t = [i \in 1..c |-> received + i]
  OBVIOUS
<1>8. t \in Seq(Int) /\ Len(t) = c /\ \A i \in 1..c : t[i] = received + i
  <2>1. \A i \in 1..c : received + i \in Int
    BY <1>1
  <2>2. \A i \in 1..c : t[i] = received + i
    BY <1>7
  <2>3. PICK r \in Nat : r = received
    BY <1>1
  <2>4. t \in Seq(Int) /\ Len(t) = c
    <3>1. t = [i \in 1..c |-> r + i] /\ c \in Nat
      BY <1>6, <1>7, <2>3
    <3>2. QED
      BY <3>1, PartOfBody
  <2>5. QED
    BY <2>2, <2>4
<1>9. PICK b, j : b = mem /\ j = left + 1
  OBVIOUS
<1>10. IsBuffer(b) /\ j \in 1..SEND_BUF /\ j + Len(t) <= SEND_BUF - RESERVE + 1
  BY <1>2, <1>6, <1>8, <1>9, Sizes DEF Types
<1>11. t \in Seq(Int)
  BY <1>8
<1>12. /\ IsBuffer(Write(b, j, t))
       /\ \A k \in 1..SEND_BUF :
            Write(b, j, t)[k] = IF j <= k /\ k < j + Len(t) THEN t[k - j + 1] ELSE b[k]
  BY <1>10, <1>11, WriteBuffer
<1>13. mem' = Write(b, j, t)
  BY <1>7, <1>9
<1>14. ASSUME NEW k \in 1..SEND_BUF
       PROVE  mem'[k] = IF left < k /\ k <= left + c THEN received - left + k ELSE mem[k]
  <2>1. mem'[k] = IF j <= k /\ k < j + c THEN t[k - j + 1] ELSE mem[k]
    BY <1>8, <1>9, <1>12, <1>13
  <2>2. j <= k /\ k < j + c <=> left < k /\ k <= left + c
    BY <1>2, <1>6, <1>9
  <2>3. j <= k /\ k < j + c => k - j + 1 \in 1..c /\ received + (k - j + 1) = received - left + k
    BY <1>1, <1>2, <1>6, <1>9
  <2>4. QED
    BY <1>8, <2>1, <2>2, <2>3
<1>15. QED
  BY <1>6, <1>12, <1>13, <1>14

(* What is moved to the front. *)
LEMMA Moved ==
  ASSUME Types, MoveDown(p - 1)
  PROVE  /\ left' = left - p + 1 /\ left' \in Int /\ left' <= SEND_BUF - RESERVE
         /\ IsBuffer(mem')
         /\ \A k \in 1..SEND_BUF : mem'[k] = IF k <= left' THEN mem[k + p - 1] ELSE mem[k]
<1>1. /\ left \in Int /\ left <= SEND_BUF - RESERVE
      /\ p \in Nat /\ p >= 1 /\ p <= SEND_BUF - RESERVE + 1
  BY Sizes DEF Types
<1>2. left' = left - (p - 1)
  BY DEF MoveDown
<1>3. PICK l \in Int : l = left' /\ l = left - p + 1
  BY <1>1, <1>2
<1>4. CASE p - 1 > 0 /\ l > 0
  <2>1. PICK b : b = mem
    OBVIOUS
  <2>2. PICK t : t = SubSeq(mem, p, left)
    OBVIOUS
  <2>3. p - 1 + 1 = p /\ p - 1 + l = left /\ left \in Int /\ p \in Int
    BY <1>1, <1>3
  <2>4. mem' = Write(b, 1, t)
    BY <1>2, <1>3, <1>4, <2>1, <2>2, <2>3 DEF MoveDown
  <2>5. IsBuffer(b)
    BY <2>1 DEF Types
  <2>6. \A i \in p..left : b[i] \in Int
    <3>1. \A i \in p..left : i \in 1..SEND_BUF
      BY <1>1, Sizes
    <3>2. QED
      BY <2>5, <3>1, BufferBytes
  <2>7. PICK f \in Int, g \in Int : f = p /\ g = left
    BY <2>3
  <2>8. /\ SubSeq(b, f, g) \in Seq(Int)
        /\ Len(SubSeq(b, f, g)) = IF f <= g THEN g - f + 1 ELSE 0
        /\ \A i \in 1..(g - f + 1) : SubSeq(b, f, g)[i] = b[f + i - 1]
    <3>1. \A i \in f..g : b[i] \in Int
      BY <2>6, <2>7
    <3>2. QED
      BY <3>1, SubSeqProperties
  <2>9. f <= g /\ g - f + 1 = l
    BY <1>1, <1>3, <1>4, <2>7
  <2>10. t = SubSeq(b, f, g)
    BY <2>1, <2>2, <2>7
  <2>11. t \in Seq(Int) /\ Len(t) = l /\ \A i \in 1..l : t[i] = b[f + i - 1]
    BY <2>8, <2>9, <2>10
  <2>12. 1 + l <= SEND_BUF - RESERVE + 1 /\ 1 \in 1..SEND_BUF
    BY <1>1, <1>3, Sizes
  <2>13. t \in Seq(Int)
    BY <2>11
  <2>14. 1 + Len(t) <= SEND_BUF - RESERVE + 1 /\ 1 \in 1..SEND_BUF
    BY <2>11, <2>12
  <2>15. /\ IsBuffer(Write(b, 1, t))
         /\ \A k \in 1..SEND_BUF :
              Write(b, 1, t)[k] = IF 1 <= k /\ k < 1 + Len(t) THEN t[k - 1 + 1] ELSE b[k]
    BY <2>5, <2>13, <2>14, WriteBuffer
  <2>16. ASSUME NEW k \in 1..SEND_BUF PROVE mem'[k] = IF k <= l THEN mem[k + p - 1] ELSE mem[k]
    <3>1. mem'[k] = IF 1 <= k /\ k < 1 + l THEN t[k - 1 + 1] ELSE mem[k]
      BY <2>1, <2>4, <2>11, <2>15
    <3>2. (1 <= k /\ k < 1 + l <=> k <= l) /\ k - 1 + 1 = k /\ (k <= l => k \in 1..l)
      OBVIOUS
    <3>3. f + k - 1 = k + p - 1
      BY <1>1, <2>7
    <3>4. k \in 1..l => t[k] = mem[k + p - 1]
      BY <2>1, <2>11, <3>3
    <3>5. QED
      BY <3>1, <3>2, <3>4
  <2>17. IsBuffer(mem')
    BY <2>4, <2>15
  <2>18. l <= SEND_BUF - RESERVE
    BY <1>1, <1>3, Sizes
  <2>19. QED
    BY <1>3, <2>16, <2>17, <2>18
<1>5. CASE ~(p - 1 > 0 /\ l > 0)
  <2>1. mem' = mem
    BY <1>2, <1>3, <1>5 DEF MoveDown
  <2>2. ASSUME NEW k \in 1..SEND_BUF PROVE k <= l => k + p - 1 = k
    BY <1>1, <1>3, <1>5
  <2>3. l <= SEND_BUF - RESERVE
    BY <1>1, <1>3, Sizes
  <2>4. IsBuffer(mem')
    BY <2>1 DEF Types
  <2>5. ASSUME NEW k \in 1..SEND_BUF PROVE mem'[k] = IF k <= l THEN mem[k + p - 1] ELSE mem[k]
    BY <2>1, <2>2
  <2>6. QED
    BY <1>3, <2>3, <2>4, <2>5
<1>6. QED
  BY <1>4, <1>5

(* The end of the string at p, and what is found in it. *)
LEMMA FoundInBuffer ==
  ASSUME Types, NEW c, c # "NUL"
  PROVE  /\ StrEnd(mem, p) \in p..(SEND_BUF - RESERVE + 1)
         /\ Find(mem, p, c) \in 0..(SEND_BUF - RESERVE)
         /\ Find(mem, p, c) # 0 => Find(mem, p, c) \in p..(StrEnd(mem, p) - 1)
<1>1. PICK b, s : b = mem /\ s = p
  OBVIOUS
<1>2. IsBuffer(b) /\ s \in 1..SEND_BUF /\ s <= SEND_BUF - RESERVE + 1 /\ s \in Nat /\ s >= 1
  BY <1>1, Sizes DEF Types
<1>3. StrEnd(b, s) \in s..SEND_BUF /\ StrEnd(b, s) <= SEND_BUF - RESERVE + 1
  BY <1>2, EndOfString
<1>4. Find(b, s, c) # 0 => Find(b, s, c) \in s..(StrEnd(b, s) - 1)
  BY <1>2, FindFirst
<1>5. PICK e, f : e \in Nat /\ e = StrEnd(b, s) /\ f = Find(b, s, c)
  BY <1>2, <1>3
<1>6. e \in s..(SEND_BUF - RESERVE + 1)
  BY <1>2, <1>3, <1>5, Sizes
<1>7. f # 0 => f \in s..(e - 1)
  BY <1>4, <1>5
<1>8. f \in 0..(SEND_BUF - RESERVE)
  BY <1>2, <1>6, <1>7, Sizes
<1>9. QED
  BY <1>1, <1>5, <1>6, <1>7, <1>8

(* The string at p ends before the second reserved byte. *)
LEMMA StringEnds ==
  ASSUME Types
  PROVE  StrEnd(mem, p) \in p..(SEND_BUF - RESERVE + 1)
<1>1. PICK b, s : b = mem /\ s = p
  OBVIOUS
<1>2. IsBuffer(b) /\ s \in 1..SEND_BUF /\ s <= SEND_BUF - RESERVE + 1 /\ s \in Nat /\ s >= 1
  BY <1>1, Sizes DEF Types
<1>3. StrEnd(b, s) \in s..SEND_BUF /\ StrEnd(b, s) <= SEND_BUF - RESERVE + 1
  BY <1>2, EndOfString
<1>4. StrEnd(b, s) \in s..(SEND_BUF - RESERVE + 1)
  BY <1>2, <1>3, Sizes
<1>5. QED
  BY <1>1, <1>4

(* Types of a field that is set. *)
LEMMA NextFieldTypes ==
  ASSUME Types, NextField
  PROVE  /\ IsBuffer(mem') /\ calls' \in Seq(Calls)
         /\ p' \in 1..(SEND_BUF - RESERVE + 1) /\ ne' \in 0..(SEND_BUF - RESERVE)
<1>1. PICK e, a, s : e = Find(mem, p, "=") /\ a = Find(mem, p, "&") /\ s = p
  OBVIOUS
<1>2. e # 0 /\ a # 0
  BY <1>1 DEF NextField, HasField
<1>3. s \in Nat /\ s >= 1
  BY <1>1 DEF Types
<1>4. e \in 1..(SEND_BUF - RESERVE) /\ a \in 1..(SEND_BUF - RESERVE)
  BY <1>1, <1>2, FoundInBuffer, Sizes
<1>5. PICK b, m : b = Cut(mem, e) /\ m = Cut(Cut(mem, e), a)
  OBVIOUS
<1>6. PICK o : o = mem
  OBVIOUS
<1>7. IsBuffer(o) /\ e \in 1..SEND_BUF /\ a \in 1..SEND_BUF
  BY <1>4, <1>6, Sizes DEF Types
<1>8. IsBuffer(Cut(o, e))
  BY <1>7, CutAt
<1>9. IsBuffer(b)
  BY <1>5, <1>6, <1>8
<1>10. IsBuffer(Cut(b, a))
  BY <1>7, <1>9, CutAt
<1>11. IsBuffer(m)
  BY <1>5, <1>10
<1>12. s \in 1..(SEND_BUF - RESERVE + 1) /\ e + 1 \in 1..(SEND_BUF - RESERVE + 1)
  BY <1>1, <1>4, Sizes DEF Types
<1>13. SetField(m, s, e + 1)
  BY <1>1, <1>5 DEF NextField
<1>14. PICK v : v = e + 1
  OBVIOUS
<1>15. v \in 1..(SEND_BUF - RESERVE + 1) /\ SetField(m, s, v)
  BY <1>12, <1>13, <1>14
<1>16. IsBuffer(mem') /\ calls' \in Seq(Calls)
  BY <1>11, <1>12, <1>15, FieldSet
<1>17. p' = a + 1 /\ ne' = e
  BY <1>1 DEF NextField
<1>18. QED
  BY <1>4, <1>16, <1>17, Sizes

(* Types of the last field. *)
LEMMA LastFieldTypes ==
  ASSUME Types, LastField
  PROVE  IsBuffer(mem') /\ calls' \in Seq(Calls)
<1>1. CASE LastEquals = 0
  BY <1>1 DEF LastField, Types
<1>2. CASE LastEquals # 0
  <2>1. LastEquals \in 0..(SEND_BUF - RESERVE)
    BY FoundInBuffer DEF LastEquals, Types
  <2>2. PICK e \in 1..(SEND_BUF - RESERVE) : e = LastEquals
    BY <1>2, <2>1, Sizes
  <2>3. PICK m, o, s, v : m = Cut(mem, e) /\ o = mem /\ s = p /\ v = e + 1
    OBVIOUS
  <2>4. IsBuffer(o) /\ e \in 1..SEND_BUF
    BY <2>3, Sizes DEF Types
  <2>5. IsBuffer(Cut(o, e))
    BY <2>4, CutAt
  <2>6. IsBuffer(m)
    BY <2>3, <2>5
  <2>7. s \in 1..(SEND_BUF - RESERVE + 1) /\ v \in 1..(SEND_BUF - RESERVE + 1)
    BY <2>3, Sizes DEF Types
  <2>8. SetField(m, s, v)
    BY <1>2, <2>2, <2>3 DEF LastField
  <2>9. QED
    BY <2>6, <2>7, <2>8, FieldSet
<1>3. QED
  BY <1>1, <1>2

(* The types hold at the start, and are kept by every step. *)
LEMMA TypesInit == Init => Types
<1>1. SUFFICES ASSUME Init PROVE Types
  OBVIOUS
<1>2. SEND_BUF \in Nat /\ mem = [i \in 1..SEND_BUF |-> 0]
  BY <1>1, Sizes DEF Init
<1>3. mem \in Seq(Int) /\ Len(mem) = SEND_BUF /\ \A i \in 1..SEND_BUF : mem[i] = 0
  BY <1>2
<1>4. IsBuffer(mem)
  <2>1. \A i \in (SEND_BUF - RESERVE + 1)..SEND_BUF : i \in 1..SEND_BUF
    BY Sizes
  <2>2. QED
    BY <1>3, <2>1 DEF IsBuffer
<1>5. IsForm(body)
  BY <1>1, FormAssumption DEF Init
<1>6. Len(body) \in Nat
  BY <1>5, LenProperties DEF IsForm
<1>7. calls \in Seq(Calls)
  BY <1>1 DEF Init
<1>8. QED
  <2>1. /\ body \in Bodies /\ received = 0 /\ left = 0 /\ p = 1 /\ ne = 0
        /\ early = FALSE /\ pc = "recv"
    BY <1>1 DEF Init
  <2>2. early \in BOOLEAN
    BY <2>1, Zenon
  <2>3. /\ received \in 0..Len(body) /\ left \in Int /\ left <= SEND_BUF - RESERVE
        /\ p \in 1..(SEND_BUF - RESERVE + 1) /\ ne \in 0..(SEND_BUF - RESERVE)
    BY <1>6, <2>1, Sizes
  <2>4. pc \in {"recv", "parse", "done", "undefined"}
    BY <2>1, Zenon
  <2>5. QED
    BY <1>4, <1>7, <2>1, <2>2, <2>3, <2>4, Zenon DEF Types

(* Every step keeps the types, for all forms. *)
LEMMA TypesStep == Types /\ [Next]_vars => Types'
<1>1. SUFFICES ASSUME Types, [Next]_vars PROVE Types'
  OBVIOUS
<1>2. CASE WEB_OnFormReceived
  <2>1. PICK size \in 1..Remain :
          LET consumed == Min({size, Free})
          IN  \/ /\ left >= 0 /\ consumed > 0
                 /\ mem' = Write(mem, left + 1, [i \in 1..consumed |-> received + i])
                 /\ left' = left + consumed
                 /\ received' = received + consumed
                 /\ p' = 1 /\ ne' = 0 /\ pc' = "parse"
              \/ /\ left < 0
                 /\ pc' = "undefined"
                 /\ UNCHANGED <<received, mem, left, p, ne>>
    BY <1>2 DEF WEB_OnFormReceived
  <2>2. PICK c : c = Min({size, Free})
    OBVIOUS
  <2>3. UNCHANGED <<body, calls, early>>
    BY <1>2 DEF WEB_OnFormReceived
  <2>4. CASE left < 0 /\ pc' = "undefined" /\ UNCHANGED <<received, mem, left, p, ne>>
    BY <1>1, <2>3, <2>4 DEF Types, IsBuffer
  <2>5. CASE /\ left >= 0 /\ c > 0
             /\ mem' = Write(mem, left + 1, [i \in 1..c |-> received + i])
             /\ left' = left + c
             /\ received' = received + c
             /\ p' = 1 /\ ne' = 0 /\ pc' = "parse"
    <3>1. /\ c \in Nat /\ c >= 1 /\ received + c <= Len(body) /\ left + c <= SEND_BUF - RESERVE
          /\ IsBuffer(mem')
      BY <1>1, <2>2, <2>5, DataAppended
    <3>2. left \in Int /\ received \in Nat /\ Len(body) \in Nat
      BY <1>1, FormLength DEF Types
    <3>3. left' \in Int /\ left' <= SEND_BUF - RESERVE /\ received' \in 0..Len(body)
      BY <2>5, <3>1, <3>2
    <3>4. p' \in 1..(SEND_BUF - RESERVE + 1) /\ ne' \in 0..(SEND_BUF - RESERVE)
      BY <2>5, Sizes
    <3>5. QED
      BY <1>1, <2>3, <2>5, <3>1, <3>3, <3>4 DEF Types, IsBuffer
  <2>6. QED
    BY <2>1, <2>2, <2>4, <2>5
<1>3. CASE NextField
  <2>1. /\ IsBuffer(mem') /\ calls' \in Seq(Calls)
        /\ p' \in 1..(SEND_BUF - RESERVE + 1) /\ ne' \in 0..(SEND_BUF - RESERVE)
    BY <1>1, <1>3, NextFieldTypes
  <2>2. UNCHANGED <<body, received, left, pc>>
    BY <1>3 DEF NextField
  <2>3. early' \in BOOLEAN
    BY <1>3 DEF NextField
  <2>4. QED
    BY <1>1, <2>1, <2>2, <2>3 DEF Types, IsBuffer
<1>4. CASE KeepRest
  <2>1. left' \in Int /\ left' <= SEND_BUF - RESERVE /\ IsBuffer(mem')
    BY <1>1, <1>4, Moved DEF KeepRest
  <2>2. pc' = "recv" /\ UNCHANGED <<body, received, p, ne, calls, early>>
    BY <1>4 DEF KeepRest
  <2>3. QED
    BY <1>1, <2>1, <2>2 DEF Types, IsBuffer
<1>5. CASE LastField
  <2>1. IsBuffer(mem') /\ calls' \in Seq(Calls)
    BY <1>1, <1>5, LastFieldTypes
  <2>2. left' = 0 /\ pc' = "done" /\ UNCHANGED <<body, received, p, ne, early>>
    BY <1>5 DEF LastField
  <2>3. QED
    BY <1>1, <2>1, <2>2, Sizes DEF Types, IsBuffer
<1>6. CASE UNCHANGED vars
  BY <1>1, <1>6 DEF vars, Types, IsBuffer
<1>7. QED
  BY <1>1, <1>2, <1>3, <1>4, <1>5, <1>6 DEF Next


-----------------------------------------------------------------------------
(***************************************************************************)
(* The form.                                                               *)
(***************************************************************************)

(* What the body determines does not change with the body unchanged. *)
LEMMA SameEscapes ==
  ASSUME body' = body, NEW s
  PROVE  Escapes(s)' = Escapes(s)
BY DEF Escapes, Char

(* What a string decodes to depends on the body only, ... *)
LEMMA SameDecoded ==
  ASSUME body' = body, NEW s
  PROVE  Decoded(s)' = Decoded(s) /\ URLDecode(s)' = URLDecode(s)
<1>1. Escapes(s)' = Escapes(s)
  BY SameEscapes
<1>2. DecodedUpTo(s)' = DecodedUpTo(s)
  BY <1>1 DEF DecodedUpTo
<1>3. Decoded(s)' = Decoded(s)
  BY <1>2 DEF Decoded
<1>4. URLDecode(s)' = URLDecode(s)
  BY <1>3 DEF URLDecode
<1>5. QED
  BY <1>3, <1>4

(* ... and so do its fields, ... *)
LEMMA SameField ==
  ASSUME body' = body, NEW k
  PROVE  Field(k)' = Field(k)
BY DEF Field, FieldAt, FieldEnds, Piece

(* ... and what the invariant says about them. *)
LEMMA SameForm ==
  ASSUME body' = body
  PROVE  /\ FieldEnds' = FieldEnds /\ Byte' = Byte /\ (HasAmpersand' <=> HasAmpersand)
         /\ FormFields' = FormFields /\ FieldsSet' = FieldsSet /\ Plain' = Plain
<1>1. FieldEnds' = FieldEnds /\ Byte' = Byte /\ (HasAmpersand' <=> HasAmpersand)
  BY DEF FieldEnds, Byte, HasAmpersand
<1>2. \A k : Field(k)' = Field(k)
  BY SameField
<1>3. FormFields' = FormFields
  BY <1>2 DEF FormFields
<1>4. ASSUME NEW k
      PROVE  /\ URLDecode(Field(k).name)' = URLDecode(Field(k).name)
             /\ URLDecode(Field(k).value)' = URLDecode(Field(k).value)
             /\ Decoded(Field(k).value)' = Decoded(Field(k).value)
  <2>1. PICK s, t : s = Field(k).name /\ t = Field(k).value
    OBVIOUS
  <2>2. Field(k)' = Field(k)
    BY SameField
  <2>3. URLDecode(Field(k).name)' = URLDecode(s)'
    BY <2>1, <2>2 DEF URLDecode, Decoded, DecodedUpTo, Escapes
  <2>4. URLDecode(Field(k).value)' = URLDecode(t)'
    BY <2>1, <2>2 DEF URLDecode, Decoded, DecodedUpTo, Escapes
  <2>5. Decoded(Field(k).value)' = Decoded(t)'
    BY <2>1, <2>2 DEF Decoded, DecodedUpTo, Escapes
  <2>6. URLDecode(s)' = URLDecode(s) /\ URLDecode(t)' = URLDecode(t) /\ Decoded(t)' = Decoded(t)
    BY SameDecoded
  <2>7. QED
    BY <2>1, <2>3, <2>4, <2>5, <2>6
<1>5. FieldsSet' = FieldsSet
  BY <1>4 DEF FieldsSet
<1>6. Plain' = Plain
  BY <1>4 DEF Plain
<1>7. QED
  BY <1>1, <1>3, <1>5, <1>6

(* The ends of the fields are positions, and 0 is not one of them. *)
LEMMA EndsArePositions ==
  ASSUME Types
  PROVE  /\ FieldEnds \in SUBSET (1..(Len(body) + 1)) /\ Len(body) + 1 \in FieldEnds
         /\ \A i \in 1..Len(body) : i \in FieldEnds <=> body[i] = "&"
         /\ IsFiniteSet(FieldEnds) /\ Cardinality(FieldEnds) \in Nat
         /\ \A i : IsFiniteSet(EndsBefore(i)) /\ Cardinality(EndsBefore(i)) \in Nat
                   /\ Cardinality(EndsBefore(i)) <= Cardinality(FieldEnds)
<1>1. Len(body) \in Nat
  BY FormLength
<1>2. FieldEnds \in SUBSET (1..(Len(body) + 1)) /\ Len(body) + 1 \in FieldEnds
  BY <1>1 DEF FieldEnds
<1>3. \A i \in 1..Len(body) : i \in FieldEnds <=> body[i] = "&"
  BY <1>1 DEF FieldEnds
<1>4. IsFiniteSet(1..(Len(body) + 1))
  BY <1>1, FS_Interval
<1>5. IsFiniteSet(FieldEnds) /\ Cardinality(FieldEnds) \in Nat
  BY <1>2, <1>4, FS_Subset, FS_CardinalityType
<1>6. ASSUME NEW i
      PROVE  IsFiniteSet(EndsBefore(i)) /\ Cardinality(EndsBefore(i)) \in Nat
             /\ Cardinality(EndsBefore(i)) <= Cardinality(FieldEnds)
  <2>1. EndsBefore(i) \subseteq FieldEnds
    BY DEF EndsBefore
  <2>2. QED
    BY <1>5, <2>1, FS_Subset, FS_CardinalityType
<1>7. QED
  BY <1>2, <1>3, <1>5, <1>6

(* Every field has an equals sign, every escape its two digits. *)
LEMMA FormParts ==
  ASSUME Types
  PROVE  /\ \A s \in 1..(Len(body) + 1) : s - 1 \in {0} \cup FieldEnds =>
              \E j \in s..Len(body) : body[j] = "=" /\ \A k \in s..j : k \notin FieldEnds
         /\ \A i \in 1..Len(body) : body[i] = "%" =>
              i + 2 <= Len(body) /\ body[i + 1] \in Hex /\ body[i + 2] \in Hex
<1>1. IsForm(body) /\ Len(body) \in Nat
  BY FormLength
<1>2. ASSUME NEW s \in 1..(Len(body) + 1), s - 1 \in {0} \cup FieldEnds
      PROVE  \E j \in s..Len(body) : body[j] = "=" /\ \A k \in s..j : k \notin FieldEnds
  <2>1. HasEquals(body, s)
    <3>1. CASE s - 1 = 0
      <4>1. s = 1
        BY <3>1
      <4>2. QED
        BY <1>1, <4>1 DEF IsForm
    <3>2. CASE s - 1 # 0
      <4>1. s - 1 \in FieldEnds /\ s - 1 \in 1..Len(body) /\ (s - 1) + 1 = s
        BY <1>1, <1>2, <3>2
      <4>2. body[s - 1] = "&"
        BY <4>1, EndsArePositions
      <4>3. HasEquals(body, (s - 1) + 1)
        BY <1>1, <4>1, <4>2 DEF IsForm
      <4>4. QED
        BY <4>1, <4>3
    <3>3. QED
      BY <3>1, <3>2
  <2>2. PICK j \in s..Len(body) : body[j] = "=" /\ \A k \in s..j : body[k] # "&"
    BY <2>1 DEF HasEquals
  <2>3. \A k \in s..j : k \in 1..Len(body)
    BY <1>1, <2>2
  <2>4. \A k \in s..j : k \notin FieldEnds
    BY <2>2, <2>3, EndsArePositions
  <2>5. QED
    BY <2>2, <2>4
<1>3. QED
  BY <1>1, <1>2 DEF IsForm

(* The characters of the bytes. *)
LEMMA ByteChars ==
  ASSUME Types, ~HasAmpersand, NEW v \in Byte
  PROVE  /\ v \in Int /\ v <= Len(body)
         /\ Char(v) = "&" <=> v \in FieldEnds
         /\ Char(v) = "=" <=> v \in 1..Len(body) /\ body[v] = "="
         /\ Char(v) = "%" => v \in 1..Len(body) /\ body[v] = "%"
<1>1. Len(body) \in Nat
  BY FormLength
<1>2. CASE v = 0
  <2>1. Char(v) = "NUL" /\ v \notin 1..Len(body) /\ v <= Len(body) /\ v \in Int
    BY <1>1, <1>2, CharOf
  <2>2. v \notin FieldEnds
    BY <1>1, <1>2, EndsArePositions
  <2>3. QED
    BY <2>1, <2>2
<1>3. CASE v \in 1..Len(body)
  <2>1. Char(v) = body[v]
    BY <1>1, <1>3, CharOf
  <2>2. v \in FieldEnds <=> body[v] = "&"
    BY <1>3, EndsArePositions
  <2>3. v \in Int /\ v <= Len(body)
    BY <1>1, <1>3
  <2>4. QED
    BY <1>3, <2>1, <2>2, <2>3
<1>4. CASE v # 0 /\ v \notin 1..Len(body)
  <2>1. PICK i \in 1..Len(body) : v = -i /\ body[i] = "%"
    BY <1>4 DEF Byte
  <2>2. i + 2 <= Len(body)
    BY <2>1, FormParts
  <2>3. i \in 1..(Len(body) - 1)
    BY <1>1, <2>2
  <2>4. body[i + 1] # "a"
    BY <2>1, <2>3 DEF HasAmpersand
  <2>5. v \in Int /\ v < 0 /\ 1 - v = i + 1 /\ v <= Len(body)
    BY <1>1, <2>1
  <2>6. Char(v) = "x"
    BY <2>4, <2>5, CharOf
  <2>7. v \notin FieldEnds
    BY <1>1, <2>5, EndsArePositions
  <2>8. QED
    BY <1>4, <2>5, <2>6, <2>7
<1>5. QED
  BY <1>2, <1>3, <1>4

(* Decoding makes bytes of bytes, and no ampersand. *)
LEMMA KeptBytes ==
  ASSUME Types, ~HasAmpersand, NEW s, NEW k, s[k] \in Byte
  PROVE  Kept(s, k) \in Byte /\ (Kept(s, k) \in FieldEnds => s[k] \in FieldEnds)
<1>1. Len(body) \in Nat
  BY FormLength
<1>2. CASE k \in Escapes(s)
  <2>1. Char(s[k]) = "%"
    BY <1>2 DEF Escapes
  <2>2. PICK v \in Byte : v = s[k]
    OBVIOUS
  <2>3. v \in 1..Len(body) /\ body[v] = "%"
    BY <2>1, <2>2, ByteChars
  <2>4. -v \in Byte
    BY <2>3 DEF Byte
  <2>5. -v < 0
    BY <1>1, <2>3
  <2>6. -v \notin FieldEnds
    BY <1>1, <2>3, <2>5, EndsArePositions
  <2>7. Kept(s, k) = -v
    BY <1>2, <2>2 DEF Kept
  <2>8. QED
    BY <2>4, <2>6, <2>7
<1>3. CASE k \notin Escapes(s)
  BY <1>3 DEF Kept
<1>4. QED
  BY <1>2, <1>3

(* The same for what a field leaves in the buffer. *)
LEMMA ChangedBytes ==
  ASSUME Types, ~HasAmpersand, NEW m, IsBuffer(m), \A j \in 1..SEND_BUF : m[j] \in Byte,
         NEW s \in 1..SEND_BUF, NEW i, NEW v, Changed(m, s, i, v)
  PROVE  /\ v \in Byte
         /\ v \in FieldEnds => \E j \in s..(StrEnd(m, s) - 1) : m[j] \in FieldEnds
<1>1. PICK r, e : r = Str(m, s) /\ e = StrEnd(m, s)
  OBVIOUS
<1>2. e \in s..SEND_BUF /\ s \in Nat /\ s >= 1 /\ SEND_BUF \in Nat
  BY <1>1, EndOfString, Sizes
<1>3. r \in Seq(Int) /\ Len(r) = e - s /\ \A k \in 1..(e - s) : r[k] = m[s + k - 1]
  BY <1>1, StringAt
<1>4. PICK k \in 1..Len(r) : v \in {r[k], Kept(r, k)}
  BY <1>1 DEF Changed
<1>5. k \in 1..(e - s) /\ s + k - 1 \in s..(e - 1) /\ s + k - 1 \in 1..SEND_BUF
  BY <1>2, <1>3, <1>4
<1>6. PICK j \in s..(e - 1) : j = s + k - 1 /\ j \in 1..SEND_BUF
  BY <1>5
<1>7. r[k] = m[j]
  BY <1>3, <1>5, <1>6
<1>8. r[k] \in Byte
  BY <1>6, <1>7
<1>9. Kept(r, k) \in Byte /\ (Kept(r, k) \in FieldEnds => r[k] \in FieldEnds)
  BY <1>8, KeptBytes
<1>10. v \in Byte /\ (v \in FieldEnds => m[j] \in FieldEnds)
  BY <1>4, <1>7, <1>8, <1>9
<1>11. QED
  BY <1>1, <1>6, <1>10


(* A part of the body, position by position. *)
LEMMA PieceOf ==
  ASSUME NEW i \in Int, NEW j \in Int, j >= i - 1
  PROVE  /\ Piece(i, j) \in Seq(Int) /\ Len(Piece(i, j)) = j - i + 1
         /\ \A k \in 1..(j - i + 1) : Piece(i, j)[k] = i + k - 1
<1>1. j - i + 1 \in Nat
  OBVIOUS
<1>2. PICK n \in Nat : n = j - i + 1
  BY <1>1
<1>3. Piece(i, j) = [k \in 1..n |-> i + k - 1]
  BY <1>2 DEF Piece
<1>4. Piece(i, j) \in Seq(Int) /\ Len(Piece(i, j)) = n
  BY <1>3
<1>5. QED
  BY <1>2, <1>3, <1>4

(* A string of bytes that were not decoded is a part of the body. *)
RawString(m, s, e, d) ==
  /\ s \in 1..SEND_BUF /\ e \in s..SEND_BUF /\ m[e] = 0
  /\ d \in Nat /\ \A i \in s..(e - 1) : m[i] = d + i

(* The string at s is a piece of the body, up to its NUL. *)
LEMMA StringIs ==
  ASSUME NEW m, IsBuffer(m), NEW s, NEW e, NEW d, RawString(m, s, e, d)
  PROVE  StrEnd(m, s) = e /\ Str(m, s) = Piece(d + s, d + e - 1)
<1>0. /\ s \in 1..SEND_BUF /\ e \in s..SEND_BUF /\ m[e] = 0
      /\ d \in Nat /\ \A i \in s..(e - 1) : m[i] = d + i
  BY DEF RawString
<1>1. s \in Nat /\ s >= 1 /\ e \in Nat /\ e >= s /\ e <= SEND_BUF /\ SEND_BUF \in Nat
  BY <1>0, Sizes
<1>2. StrEnd(m, s) \in s..SEND_BUF /\ m[StrEnd(m, s)] = 0 /\ StrEnd(m, s) <= e
  BY <1>0, EndOfString
<1>3. PICK z \in s..SEND_BUF : z = StrEnd(m, s)
  BY <1>2
<1>4. z = e
  <2>1. SUFFICES ASSUME z # e PROVE FALSE
    OBVIOUS
  <2>2. z \in s..(e - 1)
    BY <1>1, <1>2, <1>3, <2>1
  <2>3. d + z = 0
    BY <1>0, <1>2, <1>3, <2>2
  <2>4. QED
    BY <1>0, <1>1, <2>2, <2>3
<1>5. PICK r, w : r = Str(m, s) /\ w = Piece(d + s, d + e - 1)
  OBVIOUS
<1>6. r \in Seq(Int) /\ Len(r) = e - s /\ \A k \in 1..(e - s) : r[k] = m[s + k - 1]
  <2>1. /\ Str(m, s) \in Seq(Int) /\ Len(Str(m, s)) = StrEnd(m, s) - s
        /\ \A k \in 1..(StrEnd(m, s) - s) : Str(m, s)[k] = m[s + k - 1]
    BY <1>0, StringAt
  <2>2. StrEnd(m, s) = e
    BY <1>3, <1>4
  <2>3. QED
    BY <1>5, <2>1, <2>2
<1>7. PICK i \in Int, j \in Int : i = d + s /\ j = d + e - 1 /\ j >= i - 1 /\ j - i + 1 = e - s
  BY <1>0, <1>1
<1>8. /\ Piece(i, j) \in Seq(Int) /\ Len(Piece(i, j)) = j - i + 1
      /\ \A k \in 1..(j - i + 1) : Piece(i, j)[k] = i + k - 1
  BY <1>7, PieceOf
<1>9. w \in Seq(Int) /\ Len(w) = e - s /\ \A k \in 1..(e - s) : w[k] = i + k - 1
  BY <1>5, <1>7, <1>8
<1>10. ASSUME NEW k \in 1..Len(r) PROVE r[k] = w[k]
  <2>1. k \in 1..(e - s)
    BY <1>6
  <2>2. s + k - 1 \in s..(e - 1) /\ d + (s + k - 1) = i + k - 1
    BY <1>0, <1>1, <1>7, <2>1
  <2>3. r[k] = d + (s + k - 1)
    BY <1>0, <1>6, <2>1, <2>2
  <2>4. QED
    BY <1>9, <2>1, <2>2, <2>3
<1>11. r = w
  <2>1. r \in Seq(Int) /\ w \in Seq(Int) /\ Len(r) = Len(w)
    BY <1>6, <1>9
  <2>2. QED
    BY <1>10, <2>1, SeqEqual
<1>12. QED
  BY <1>3, <1>4, <1>5, <1>11

(* The greatest and the least element of a set. *)
LEMMA MaxIs ==
  ASSUME NEW S \in SUBSET Int, NEW x \in S, \A y \in S : y <= x
  PROVE  Max(S) = x
<1>1. \A y \in S : x >= y
  OBVIOUS
<1>2. PICK g \in S : g = Max(S) /\ g >= x
  BY <1>1 DEF Max
<1>3. g \in Int /\ x \in Int /\ g <= x
  BY <1>2
<1>4. g = x
  BY <1>2, <1>3
<1>5. QED
  BY <1>2, <1>4

(* An element of a set that no other is below is its minimum. *)
LEMMA MinIs ==
  ASSUME NEW S \in SUBSET Nat, NEW x \in S, \A y \in S : x <= y
  PROVE  Min(S) = x
<1>1. PICK g \in S : g = Min(S) /\ g <= x
  BY MinIsLeast
<1>2. g \in Int /\ x \in Int /\ x <= g
  BY <1>1
<1>3. g = x
  BY <1>1, <1>2
<1>4. QED
  BY <1>1, <1>3

(* The field that ends before b. *)
LEMMA FieldIs ==
  ASSUME Types, NEW b \in FieldEnds, NEW s \in 1..b, s - 1 \in {0} \cup FieldEnds,
         \A i \in s..(b - 1) : i \notin FieldEnds,
         NEW q \in s..(b - 1), body[q] = "=", \A i \in s..(q - 1) : body[i] # "="
  PROVE  FieldAt(b) = [name |-> Piece(s, q - 1), value |-> Piece(q + 1, b - 1)]
<1>1. FieldEnds \in SUBSET Nat /\ b \in Nat /\ s \in Nat /\ s >= 1 /\ q \in Nat
  <2>1. FieldEnds \in SUBSET (1..(Len(body) + 1)) /\ Len(body) \in Nat
    BY EndsArePositions, FormLength
  <2>2. b \in 1..(Len(body) + 1)
    BY <2>1
  <2>3. QED
    BY <2>1, <2>2
<1> DEFINE M == {0} \cup {i \in FieldEnds : i < b}
           Q == {i \in s..(b - 1) : body[i] = "="}
<1>2. Max(M) = s - 1
  <2>1. M \in SUBSET Int
    <3>1. \A i \in FieldEnds : i \in Int
      BY <1>1
    <3>2. QED
      BY <3>1
  <2>2. s - 1 \in M
    BY <1>1
  <2>3. ASSUME NEW y \in M PROVE y <= s - 1
    <3>1. CASE y = 0
      BY <1>1, <3>1
    <3>2. CASE y # 0
      <4>1. y \in FieldEnds /\ y < b /\ y \in Nat
        BY <1>1, <3>2
      <4>2. ~(y \in s..(b - 1))
        BY <4>1
      <4>3. QED
        BY <1>1, <4>1, <4>2
    <3>3. QED
      BY <3>1, <3>2
  <2> HIDE DEF M
  <2>4. QED
    BY <2>1, <2>2, <2>3, MaxIs
<1>3. Min(Q) = q
  <2>1. Q \in SUBSET Nat /\ q \in Q
    BY <1>1
  <2>2. ASSUME NEW y \in Q PROVE q <= y
    <3>1. y \in s..(b - 1) /\ ~(y \in s..(q - 1))
      OBVIOUS
    <3>2. QED
      BY <1>1, <3>1
  <2> HIDE DEF Q
  <2>3. QED
    BY <2>1, <2>2, MinIs
<1>4. (s - 1) + 1 = s
  BY <1>1
<1>5. Max(M) + 1 = s
  BY <1>2, <1>4
<1>6. FieldAt(b) = LET start == Max(M) + 1
                       eq    == Min({i \in start..(b - 1) : body[i] = "="})
                   IN  [name |-> Piece(start, eq - 1), value |-> Piece(eq + 1, b - 1)]
  BY DEF FieldAt
<1>7. QED
  BY <1>3, <1>5, <1>6

(* An end more, and none. *)
LEMMA EndsGrow ==
  ASSUME Types, NEW b \in FieldEnds
  PROVE  /\ EndsBefore(b + 1) = EndsBefore(b) \cup {b}
         /\ Cardinality(EndsBefore(b + 1)) = Cardinality(EndsBefore(b)) + 1
<1>1. FieldEnds \in SUBSET Int
  BY EndsArePositions, FormLength
<1>2. EndsBefore(b + 1) = EndsBefore(b) \cup {b}
  <2>1. ASSUME NEW e \in FieldEnds PROVE e < b + 1 <=> e < b \/ e = b
    <3>1. e \in Int /\ b \in Int
      BY <1>1
    <3>2. QED
      BY <3>1
  <2>2. QED
    BY <2>1 DEF EndsBefore
<1>3. b \notin EndsBefore(b)
  BY <1>1 DEF EndsBefore
<1>4. IsFiniteSet(EndsBefore(b))
  BY EndsArePositions
<1>5. Cardinality(EndsBefore(b) \cup {b}) = Cardinality(EndsBefore(b)) + 1
  BY <1>3, <1>4, FS_AddElement
<1>6. QED
  BY <1>2, <1>5

(* No field ends where the body has no end of a field. *)
LEMMA EndsStay ==
  ASSUME Types, NEW s \in Int, NEW b \in Int, s <= b, \A i \in s..(b - 1) : i \notin FieldEnds
  PROVE  EndsBefore(b) = EndsBefore(s)
<1>1. FieldEnds \in SUBSET Int
  BY EndsArePositions, FormLength
<1>2. ASSUME NEW e \in FieldEnds PROVE e < b <=> e < s
  <2>1. e \in Int /\ ~(e \in s..(b - 1))
    BY <1>1
  <2>2. QED
    BY <2>1
<1>3. QED
  BY <1>2 DEF EndsBefore

(* The ends are counted by their order. *)
LEMMA EndsAreOrdered ==
  ASSUME Types, NEW b \in FieldEnds, NEW c \in FieldEnds, b < c
  PROVE  Cardinality(EndsBefore(b)) < Cardinality(EndsBefore(c))
<1>1. FieldEnds \in SUBSET Int
  BY EndsArePositions, FormLength
<1>2. EndsBefore(b + 1) \subseteq EndsBefore(c)
  <2>1. ASSUME NEW e \in FieldEnds, e < b + 1 PROVE e < c
    <3>1. e \in Int /\ b \in Int /\ c \in Int
      BY <1>1
    <3>2. QED
      BY <2>1, <3>1
  <2>2. QED
    BY <2>1 DEF EndsBefore
<1>3. IsFiniteSet(EndsBefore(c)) /\ Cardinality(EndsBefore(c)) \in Nat
      /\ Cardinality(EndsBefore(b)) \in Nat
  BY EndsArePositions
<1>4. Cardinality(EndsBefore(b + 1)) <= Cardinality(EndsBefore(c))
  BY <1>2, <1>3, FS_Subset
<1>5. Cardinality(EndsBefore(b + 1)) = Cardinality(EndsBefore(b)) + 1
  BY EndsGrow
<1>6. QED
  BY <1>3, <1>4, <1>5

(* The field that ends at b, with k - 1 fields before it, is the k-th. *)
LEMMA NthField ==
  ASSUME Types, NEW b \in FieldEnds, NEW k, Cardinality(EndsBefore(b)) = k - 1
  PROVE  Field(k) = FieldAt(b)
<1>1. FieldEnds \in SUBSET Int
  BY EndsArePositions, FormLength
<1>2. ASSUME NEW c \in FieldEnds, Cardinality(EndsBefore(c)) = k - 1 PROVE c = b
  <2>1. Cardinality(EndsBefore(b)) \in Nat /\ Cardinality(EndsBefore(c)) \in Nat
    BY EndsArePositions
  <2>2. ~(Cardinality(EndsBefore(b)) < Cardinality(EndsBefore(c)))
        /\ ~(Cardinality(EndsBefore(c)) < Cardinality(EndsBefore(b)))
    BY <1>2, <2>1
  <2>3. ~(b < c) /\ ~(c < b)
    BY <2>2, EndsAreOrdered
  <2>4. b \in Int /\ c \in Int
    BY <1>1
  <2>5. QED
    BY <2>3, <2>4
<1>3. (CHOOSE e \in FieldEnds : Cardinality(EndsBefore(e)) = k - 1) = b
  BY <1>2
<1>4. Field(k) = FieldAt(CHOOSE e \in FieldEnds : Cardinality(EndsBefore(e)) = k - 1)
  BY DEF Field, EndsBefore
<1>5. QED
  BY <1>3, <1>4

(* The field that begins at s, if n fields end before it. *)
FieldFrom(s, q, b, n) ==
  /\ b \in FieldEnds /\ s \in 1..b /\ s - 1 \in {0} \cup FieldEnds
  /\ \A i \in s..(b - 1) : i \notin FieldEnds
  /\ q \in s..(b - 1) /\ body[q] = "=" /\ \A i \in s..(q - 1) : body[i] # "="
  /\ n \in Nat /\ n = Cardinality(EndsBefore(s))

FieldKnown(s, q, b, n) ==
  /\ FormFields[n + 1] \in Calls
  /\ FieldsSet[n + 1] = [name |-> URLDecode(Piece(s, q - 1)),
                         value |-> URLDecode(Piece(q + 1, b - 1))]
  /\ Plain[n + 1] = Decoded(Piece(q + 1, b - 1))
  /\ Cardinality(EndsBefore(b + 1)) = n + 1

(* A first equals sign between two ends makes the field that follows n others. *)
LEMMA FieldFound ==
  ASSUME Types, NEW s, NEW q, NEW b, NEW n, FieldFrom(s, q, b, n)
  PROVE  FieldKnown(s, q, b, n)
<1>0. /\ b \in FieldEnds /\ s \in 1..b /\ s - 1 \in {0} \cup FieldEnds
      /\ \A i \in s..(b - 1) : i \notin FieldEnds
      /\ q \in s..(b - 1) /\ body[q] = "=" /\ \A i \in s..(q - 1) : body[i] # "="
      /\ n \in Nat /\ n = Cardinality(EndsBefore(s))
  BY DEF FieldFrom
<1>1. b \in Nat /\ s \in Nat /\ q \in Nat /\ s <= q /\ q <= b - 1
  <2>1. FieldEnds \in SUBSET (1..(Len(body) + 1)) /\ Len(body) \in Nat
    BY EndsArePositions, FormLength
  <2>2. b \in 1..(Len(body) + 1)
    BY <1>0, <2>1
  <2>3. QED
    BY <1>0, <2>1, <2>2
<1>2. EndsBefore(b) = EndsBefore(s)
  BY <1>0, <1>1, EndsStay
<1>3. (n + 1) - 1 = n /\ n + 1 \in Nat
  BY <1>0
<1>4. Cardinality(EndsBefore(b)) = (n + 1) - 1
  BY <1>0, <1>2, <1>3
<1>5. PICK k \in Nat : k = n + 1
  BY <1>3
<1>6. Field(k) = FieldAt(b)
  BY <1>0, <1>4, <1>5, NthField
<1>7. PICK x, y : x = Piece(s, q - 1) /\ y = Piece(q + 1, b - 1)
  OBVIOUS
<1>8. FieldAt(b) = [name |-> x, value |-> y]
  BY <1>0, <1>7, FieldIs
<1>9. Field(k) = [name |-> x, value |-> y] /\ Field(k).name = x /\ Field(k).value = y
  BY <1>6, <1>8
<1>10. x \in Seq(Int) /\ y \in Seq(Int)
  <2>1. PICK i1 \in Int, j1 \in Int, i2 \in Int, j2 \in Int :
          i1 = s /\ j1 = q - 1 /\ i2 = q + 1 /\ j2 = b - 1 /\ j1 >= i1 - 1 /\ j2 >= i2 - 1
    BY <1>1
  <2>2. Piece(i1, j1) \in Seq(Int)
    BY <2>1, PieceOf
  <2>3. Piece(i2, j2) \in Seq(Int)
    BY <2>1, PieceOf
  <2>4. QED
    BY <1>7, <2>1, <2>2, <2>3
<1>11. FormFields[k] = [name |-> x, value |-> y]
  BY <1>9 DEF FormFields
<1>12. FieldsSet[k] = [name |-> URLDecode(x), value |-> URLDecode(y)]
  BY <1>9 DEF FieldsSet
<1>13. Plain[k] = Decoded(y)
  BY <1>9 DEF Plain
<1>14. FormFields[k] \in Calls
  BY <1>10, <1>11 DEF Calls
<1>15. Cardinality(EndsBefore(b + 1)) = n + 1
  BY <1>0, <1>2, EndsGrow
<1>16. QED
  BY <1>5, <1>7, <1>12, <1>13, <1>14, <1>15 DEF FieldKnown


-----------------------------------------------------------------------------
(***************************************************************************)
(* The steps.                                                              *)
(***************************************************************************)

(* The unparsed part of the buffer is a part of the body. *)
LEMMA RawPart ==
  ASSUME Types, ~HasAmpersand, FormInv, pc = "parse"
  PROVE  /\ received - left \in Nat /\ left \in Nat /\ left <= SEND_BUF - RESERVE
         /\ p \in Nat /\ p >= 1 /\ p <= left + 1 /\ Pos = received - left + p
         /\ Pos - 1 \in {0} \cup FieldEnds
         /\ \A i \in 1..SEND_BUF : mem[i] \in Byte
         /\ \A i \in p..left :
              /\ mem[i] = received - left + i
              /\ mem[i] \in 1..Len(body) /\ i \in 1..SEND_BUF
         /\ \A i \in p..left : StrEnd(mem, p) > left
<1>1. /\ received \in Nat /\ received <= Len(body) /\ Len(body) \in Nat /\ left \in Nat
      /\ left <= SEND_BUF - RESERVE /\ left <= received
  BY FormLength, Sizes DEF FormInv, Buffer
<1>2. From = p /\ p \in Nat /\ p >= 1 /\ p <= left + 1
  BY DEF From, FormInv, Buffer, Types
<1>3. received - left \in Nat
  BY <1>1
<1>4. Pos = received - left + p /\ Pos - 1 \in {0} \cup FieldEnds
  BY <1>2 DEF Pos, FormInv, AtField
<1>5. \A i \in 1..SEND_BUF : mem[i] \in Byte
  BY DEF FormInv, Buffer
<1>6. ASSUME NEW i \in p..left
      PROVE  /\ mem[i] = received - left + i
             /\ mem[i] \in 1..Len(body) /\ i \in 1..SEND_BUF
  <2>1. mem[i] = received - left + i
    BY <1>2 DEF FormInv, Buffer
  <2>2. received - left + i \in 1..Len(body) /\ i \in 1..SEND_BUF
    BY <1>1, <1>2, Sizes
  <2>3. QED
    BY <2>1, <2>2
<1>7. ASSUME NEW i \in p..left PROVE StrEnd(mem, p) > left
  <2>1. PICK b, s : b = mem /\ s = p
    OBVIOUS
  <2>2. IsBuffer(b) /\ s \in 1..SEND_BUF
    BY <1>1, <1>2, <1>6, <2>1, Sizes DEF Types
  <2>3. StrEnd(b, s) \in s..SEND_BUF /\ b[StrEnd(b, s)] = 0
    BY <2>2, EndOfString
  <2>4. PICK z \in s..SEND_BUF : z = StrEnd(mem, p) /\ mem[z] = 0
    BY <2>1, <2>3
  <2>5. ~(z \in p..left)
    BY <1>1, <1>6, <2>4
  <2>6. z > left
    BY <1>1, <1>2, <2>1, <2>4, <2>5
  <2>7. QED
    BY <2>4, <2>6
<1>8. QED
  BY <1>1, <1>2, <1>3, <1>4, <1>5, <1>6, <1>7

(* The characters of the unparsed part. *)
LEMMA RawChars ==
  ASSUME Types, ~HasAmpersand, FormInv, pc = "parse", NEW i \in p..left
  PROVE  /\ Char(mem[i]) = "&" <=> received - left + i \in FieldEnds
         /\ Char(mem[i]) = "=" <=> body[received - left + i] = "="
         /\ i \in p..StrEnd(mem, p)
<1>1. PICK v : v = mem[i]
  OBVIOUS
<1>2. v = received - left + i /\ v \in 1..Len(body) /\ i \in 1..SEND_BUF
  BY <1>1, RawPart
<1>3. v \in Byte
  BY <1>1, <1>2, RawPart
<1>4. (Char(v) = "&" <=> v \in FieldEnds) /\ (Char(v) = "=" <=> body[v] = "=")
  BY <1>2, <1>3, ByteChars
<1>5. PICK z : z = StrEnd(mem, p)
  OBVIOUS
<1>6. z \in p..(SEND_BUF - RESERVE + 1) /\ z > left /\ p \in Nat /\ left \in Nat
  BY <1>5, StringEnds, RawPart
<1>7. i \in p..z
  BY <1>6, Sizes
<1>8. QED
  BY <1>1, <1>2, <1>4, <1>5, <1>7

(* In front of the end of a field that has arrived there is its equals sign. *)
LEMMA EqualsFound ==
  ASSUME Types, ~HasAmpersand, FormInv, pc = "parse",
         NEW b \in FieldEnds, Pos <= b, b <= received + 1
  PROVE  \E e \in p..left :
           /\ e = Find(mem, p, "=") /\ received - left + e < b
           /\ body[received - left + e] = "="
           /\ \A i \in Pos..(received - left + e - 1) : body[i] # "="
<1>1. PICK d \in Nat : d = received - left
  BY RawPart
<1>2. /\ left \in Nat /\ p \in Nat /\ p >= 1 /\ p <= left + 1 /\ Pos = d + p
      /\ Pos - 1 \in {0} \cup FieldEnds
  BY <1>1, RawPart
<1>3. received \in Nat /\ Len(body) \in Nat /\ received <= Len(body) /\ d + left = received
  BY <1>1, <1>2, FormLength
<1>4. FieldEnds \in SUBSET (1..(Len(body) + 1))
  BY EndsArePositions
<1>5. b \in Nat
  BY <1>3, <1>4
<1>6. PICK s \in 1..(Len(body) + 1) : s = Pos
  BY <1>2, <1>3, <1>5
<1>7. PICK j \in s..Len(body) : body[j] = "=" /\ \A k \in s..j : k \notin FieldEnds
  BY <1>2, <1>6, FormParts
<1>8. j < b
  <2>1. ~(b \in s..j)
    BY <1>7
  <2>2. QED
    BY <1>3, <1>5, <1>6, <1>7, <2>1
<1>9. PICK g \in p..left : g = j - d
  <2>1. j - d \in p..left
    BY <1>2, <1>3, <1>5, <1>6, <1>7, <1>8
  <2>2. QED
    BY <2>1
<1>10. d + g = j
  BY <1>2, <1>3, <1>7, <1>9
<1>11. Char(mem[g]) = "=" /\ g \in p..StrEnd(mem, p)
  <2>1. body[received - left + g] = "="
    BY <1>1, <1>7, <1>10
  <2>2. QED
    BY <2>1, RawChars
<1>12. PICK o, t : o = mem /\ t = p
  OBVIOUS
<1>13. IsBuffer(o) /\ t \in 1..SEND_BUF
  BY <1>2, <1>9, <1>12, RawPart, Sizes DEF Types
<1>14. /\ Find(o, t, "=") = 0 => \A i \in t..StrEnd(o, t) : Char(o[i]) # "="
       /\ Find(o, t, "=") # 0 =>
            /\ Find(o, t, "=") \in t..(StrEnd(o, t) - 1) /\ Char(o[Find(o, t, "=")]) = "="
            /\ \A i \in t..StrEnd(o, t) : Char(o[i]) = "=" => Find(o, t, "=") <= i
  BY <1>13, FindFirst
<1>15. PICK e : e = Find(mem, p, "=")
  OBVIOUS
<1>16. e # 0
  BY <1>11, <1>12, <1>14, <1>15
<1>17. /\ e \in p..(StrEnd(mem, p) - 1) /\ Char(mem[e]) = "="
       /\ \A i \in p..StrEnd(mem, p) : Char(mem[i]) = "=" => e <= i
  BY <1>12, <1>14, <1>15, <1>16
<1>18. e <= g
  BY <1>11, <1>17
<1>19. e \in p..left
  <2>1. StrEnd(mem, p) \in p..(SEND_BUF - RESERVE + 1)
    BY StringEnds
  <2>2. e \in Nat
    BY <1>2, <1>17, <2>1, Sizes
  <2>3. QED
    BY <1>2, <1>9, <1>17, <1>18, <2>2
<1>20. body[d + e] = "="
  BY <1>1, <1>17, <1>19, RawChars
<1>21. d + e < b
  BY <1>2, <1>5, <1>8, <1>9, <1>10, <1>18, <1>19
<1>22. ASSUME NEW i \in Pos..(d + e - 1) PROVE body[i] # "="
  <2>1. PICK h \in p..left : h = i - d
    <3>1. i - d \in p..left
      BY <1>2, <1>19
    <3>2. QED
      BY <3>1
  <2>2. d + h = i /\ h < e
    BY <1>2, <1>19, <2>1
  <2>3. ~(e <= h)
    BY <1>2, <1>19, <2>1, <2>2
  <2>4. Char(mem[h]) # "="
    BY <1>17, <2>1, <2>3, RawChars
  <2>5. QED
    BY <1>1, <2>1, <2>2, <2>4, RawChars
<1>23. QED
  BY <1>1, <1>15, <1>19, <1>20, <1>21, <1>22

(* When the loop ends, no ampersand is left in the buffer. *)
LEMMA NoFieldNoEnd ==
  ASSUME Types, ~HasAmpersand, FormInv, pc = "parse", ~HasField
  PROVE  \A i \in p..left : received - left + i \notin FieldEnds
<1>1. SUFFICES ASSUME NEW i \in p..left, received - left + i \in FieldEnds PROVE FALSE
  OBVIOUS
<1>2. PICK b \in FieldEnds : b = received - left + i
  BY <1>1
<1>3. /\ received - left \in Nat /\ left \in Nat /\ p \in Nat /\ p >= 1
      /\ Pos = received - left + p /\ received \in Nat /\ p <= left
  BY <1>1, RawPart, FormLength
<1>4. Pos <= b /\ b <= received + 1
  BY <1>2, <1>3
<1>5. PICK e \in p..left : e = Find(mem, p, "=")
  BY <1>4, EqualsFound
<1>6. Find(mem, p, "=") # 0
  BY <1>3, <1>5
<1>7. Char(mem[i]) = "&" /\ i \in p..StrEnd(mem, p)
  BY <1>1, RawChars
<1>8. PICK o, t : o = mem /\ t = p
  OBVIOUS
<1>9. IsBuffer(o) /\ t \in 1..SEND_BUF
  BY <1>1, <1>3, <1>8, RawPart, Sizes DEF Types
<1>10. Find(o, t, "&") = 0 => \A k \in t..StrEnd(o, t) : Char(o[k]) # "&"
  BY <1>9, FindFirst
<1>11. Find(mem, p, "&") # 0
  BY <1>7, <1>8, <1>10
<1>12. p \in p..left
  BY <1>3
<1>13. mem[p] # 0
  <2>1. mem[p] \in 1..Len(body)
    BY <1>12, RawPart
  <2>2. QED
    BY <2>1, FormLength
<1>14. QED
  BY <1>3, <1>6, <1>11, <1>13 DEF HasField

(* The field that a turn of the loop finds. *)
LEMMA FieldAhead ==
  ASSUME Types, ~HasAmpersand, FormInv, pc = "parse", HasField
  PROVE  \E e \in p..left, a \in p..left :
           /\ e = Find(mem, p, "=") /\ a = Find(mem, p, "&") /\ e < a
           /\ received - left + a \in FieldEnds
           /\ \A i \in p..(a - 1) : received - left + i \notin FieldEnds
           /\ body[received - left + e] = "="
           /\ \A i \in Pos..(received - left + e - 1) : body[i] # "="
<1>1. PICK d \in Nat : d = received - left
  BY RawPart
<1>2. left \in Nat /\ p \in Nat /\ p >= 1 /\ p <= left /\ Pos = d + p /\ left <= SEND_BUF - RESERVE
  BY <1>1, RawPart DEF HasField
<1>3. received \in Nat /\ d + left = received
  BY <1>1, <1>2, FormLength
<1>4. PICK o, t, a : o = mem /\ t = p /\ a = Find(mem, p, "&")
  OBVIOUS
<1>5. IsBuffer(o) /\ t \in 1..SEND_BUF
  BY <1>2, <1>4, Sizes DEF Types
<1>6. Find(o, t, "&") # 0 =>
        /\ Find(o, t, "&") \in t..(StrEnd(o, t) - 1) /\ Char(o[Find(o, t, "&")]) = "&"
        /\ \A i \in t..StrEnd(o, t) : Char(o[i]) = "&" => Find(o, t, "&") <= i
  BY <1>5, FindFirst
<1>7. /\ a \in p..(StrEnd(mem, p) - 1) /\ Char(mem[a]) = "&"
      /\ \A i \in p..StrEnd(mem, p) : Char(mem[i]) = "&" => a <= i
  BY <1>4, <1>6 DEF HasField
<1>8. a \in 1..SEND_BUF
  <2>1. StrEnd(mem, p) \in p..(SEND_BUF - RESERVE + 1)
    BY StringEnds
  <2>2. QED
    BY <1>2, <1>7, <2>1, Sizes
<1>9. a \in p..left
  <2>1. mem[a] \in Byte
    BY <1>8, RawPart
  <2>2. mem[a] \in FieldEnds
    BY <1>7, <2>1, ByteChars
  <2>3. From = p
    BY DEF From
  <2>4. QED
    BY <1>8, <2>2, <2>3 DEF FormInv, Buffer
<1>10. d + a \in FieldEnds
  BY <1>1, <1>7, <1>9, RawChars
<1>11. ASSUME NEW i \in p..(a - 1) PROVE d + i \notin FieldEnds
  <2>1. i \in p..left /\ ~(a <= i)
    BY <1>2, <1>9
  <2>2. i \in p..StrEnd(mem, p)
    BY <2>1, RawChars
  <2>3. Char(mem[i]) # "&"
    BY <1>7, <2>1, <2>2
  <2>4. QED
    BY <1>1, <2>1, <2>3, RawChars
<1>12. PICK b \in FieldEnds : b = d + a
  BY <1>10
<1>13. Pos <= b /\ b <= received + 1
  BY <1>2, <1>3, <1>9, <1>12
<1>14. PICK e \in p..left :
           /\ e = Find(mem, p, "=") /\ d + e < b
           /\ body[d + e] = "="
           /\ \A i \in Pos..(d + e - 1) : body[i] # "="
  BY <1>1, <1>13, EqualsFound
<1>15. e < a
  BY <1>2, <1>9, <1>12, <1>14
<1>16. QED
  BY <1>1, <1>4, <1>9, <1>10, <1>11, <1>14, <1>15


(* One more call. *)
LEMMA CallsGrow ==
  ASSUME Types, NEW c \in Calls, calls' = Append(calls, c)
  PROVE  /\ Len(calls) \in Nat /\ Len(calls') = Len(calls) + 1
         /\ \A k \in 1..Len(calls) : calls'[k] = calls[k]
         /\ calls'[Len(calls) + 1] = c
<1>1. PICK s : s = calls
  OBVIOUS
<1>2. s \in Seq(Calls)
  BY <1>1 DEF Types
<1>3. /\ Len(s) \in Nat /\ Len(Append(s, c)) = Len(s) + 1
      /\ \A k \in 1..Len(s) : Append(s, c)[k] = s[k]
      /\ Append(s, c)[Len(s) + 1] = c
  BY <1>2, AppendProperties, LenProperties
<1>4. QED
  BY <1>1, <1>3

(* A call for the next field keeps Exact. *)
LEMMA ExactGrows ==
  ASSUME Types, Exact, body' = body, early => early',
         NEW c \in Calls, calls' = Append(calls, c), NEW n \in Nat, n = Len(calls),
         FormFields[n + 1] \in Calls, c.name = FieldsSet[n + 1].name,
         \/ c.value = FieldsSet[n + 1].value
         \/ n + 1 = Cardinality(FieldEnds) /\ early' /\ Begins(c.value, Plain[n + 1])
  PROVE  Exact'
<1>1. /\ FieldEnds' = FieldEnds /\ FormFields' = FormFields
      /\ FieldsSet' = FieldsSet /\ Plain' = Plain
  BY SameForm
<1>2. Len(calls') = n + 1 /\ (\A k \in 1..n : calls'[k] = calls[k]) /\ calls'[n + 1] = c
  BY CallsGrow
<1>3. SUFFICES ASSUME NEW k \in 1..(n + 1)
               PROVE  /\ FormFields[k] \in Calls
                      /\ calls'[k].name = FieldsSet[k].name
                      /\ \/ calls'[k].value = FieldsSet[k].value
                         \/ /\ k = Cardinality(FieldEnds) /\ early'
                            /\ Begins(calls'[k].value, Plain[k])
  BY <1>1, <1>2 DEF Exact
<1>4. CASE k = n + 1
  BY <1>2, <1>4
<1>5. CASE k # n + 1
  <2>1. k \in 1..Len(calls) /\ calls'[k] = calls[k]
    BY <1>2, <1>5
  <2>2. /\ FormFields[k] \in Calls
        /\ calls[k].name = FieldsSet[k].name
        /\ \/ calls[k].value = FieldsSet[k].value
           \/ k = Cardinality(FieldEnds) /\ early /\ Begins(calls[k].value, Plain[k])
    BY <2>1 DEF Exact
  <2>3. QED
    BY <2>1, <2>2
<1>6. QED
  BY <1>4, <1>5

(* The invariant holds when WEB_OnFormHeaders has run. *)
LEMMA InitStep == Init => (Types /\ (~HasAmpersand => FormInv))
<1>1. SUFFICES ASSUME Init PROVE Types /\ FormInv
  OBVIOUS
<1>2. Types
  BY <1>1, TypesInit
<1>3. SEND_BUF \in Nat /\ mem = [i \in 1..SEND_BUF |-> 0]
  BY <1>1, Sizes DEF Init
<1>4. \A i \in 1..SEND_BUF : mem[i] = 0
  BY <1>3
<1>5. received = 0 /\ left = 0 /\ p = 1 /\ early = FALSE /\ pc = "recv" /\ calls = <<>>
  BY <1>1 DEF Init
<1>6. From = 1
  BY <1>5 DEF From
<1>7. Pos = 1
  BY <1>5, <1>6 DEF Pos
<1>8. FieldEnds \in SUBSET (1..(Len(body) + 1)) /\ Len(body) \in Nat
  BY <1>2, EndsArePositions, FormLength
<1>9. 0 \notin FieldEnds /\ 0 \in Byte
  BY <1>8 DEF Byte
<1>10. Buffer
  <2>1. left \in 0..(SEND_BUF - RESERVE) /\ left <= received /\ From <= left + 1
    BY <1>5, <1>6, Sizes
  <2>2. \A i \in From..left : FALSE
    BY <1>5, <1>6
  <2>3. QED
    BY <1>4, <1>9, <2>1, <2>2 DEF Buffer
<1>11. Clean
  <2>1. \A i \in (left + 1)..SEND_BUF : i \in 1..SEND_BUF
    BY <1>5
  <2>2. QED
    BY <1>4, <1>6, <2>1 DEF Clean
<1>12. AtField
  <2>1. EndsBefore(1) = {}
    <3>1. ASSUME NEW e \in FieldEnds PROVE ~(e < 1)
      <4>1. e \in 1..(Len(body) + 1)
        BY <1>8
      <4>2. QED
        BY <1>8, <4>1
    <3>2. QED
      BY <3>1 DEF EndsBefore
  <2>2. Cardinality(EndsBefore(1)) = 0
    BY <2>1, FS_EmptySet
  <2>3. Len(calls) = 0
    BY <1>5
  <2>4. QED
    BY <1>7, <2>2, <2>3 DEF AtField
<1>13. Exact
  <2>1. Len(calls) = 0
    BY <1>5
  <2>2. QED
    BY <2>1 DEF Exact
<1>14. Complete
  BY <1>5 DEF Complete
<1>15. QED
  BY <1>2, <1>10, <1>11, <1>12, <1>13, <1>14 DEF FormInv

(* Data is received. *)
LEMMA ReceiveStep ==
  ASSUME Types, ~HasAmpersand, FormInv, WEB_OnFormReceived
  PROVE  FormInv'
<1>1. pc = "recv" /\ UNCHANGED <<body, calls, early>>
  BY DEF WEB_OnFormReceived
<1>2. /\ left \in Nat /\ left <= SEND_BUF - RESERVE /\ left <= received
      /\ From = 1 /\ Pos = received - left + 1
      /\ \A i \in 1..SEND_BUF : mem[i] \in Byte
      /\ \A i \in 1..left : mem[i] = received - left + i
      /\ \A i \in 1..SEND_BUF : mem[i] \notin FieldEnds
  <2>1. From = 1
    BY <1>1 DEF From
  <2>2. left \in Nat
    BY <1>1 DEF FormInv, Buffer
  <2>3. QED
    BY <1>1, <2>1, <2>2, Sizes DEF FormInv, Buffer, Pos
<1>3. PICK size \in 1..Remain :
        /\ left >= 0 /\ Min({size, Free}) > 0
        /\ mem' = Write(mem, left + 1, [i \in 1..Min({size, Free}) |-> received + i])
        /\ left' = left + Min({size, Free})
        /\ received' = received + Min({size, Free})
        /\ p' = 1 /\ ne' = 0 /\ pc' = "parse"
  <2>1. ~(left < 0)
    BY <1>2
  <2>2. QED
    BY <2>1 DEF WEB_OnFormReceived
<1>4. PICK c : c = Min({size, Free})
  OBVIOUS
<1>5. /\ c \in Nat /\ c >= 1 /\ received + c <= Len(body) /\ left + c <= SEND_BUF - RESERVE
      /\ \A k \in 1..SEND_BUF :
           mem'[k] = IF left < k /\ k <= left + c THEN received - left + k ELSE mem[k]
  <2>1. left >= 0 /\ c > 0 /\ mem' = Write(mem, left + 1, [i \in 1..c |-> received + i])
    BY <1>3, <1>4
  <2>2. QED
    BY <1>4, <2>1, DataAppended
<1>6. left' = left + c /\ received' = received + c /\ p' = 1 /\ pc' = "parse"
  BY <1>3, <1>4
<1>7. received \in Nat /\ Len(body) \in Nat
  BY FormLength
<1>8. left' \in Nat /\ received' - left' = received - left
  BY <1>2, <1>5, <1>6, <1>7
<1>9. From' = 1
  BY <1>6 DEF From
<1>10. Pos' = Pos
  BY <1>2, <1>8, <1>9 DEF Pos
<1>11. FieldEnds' = FieldEnds /\ Byte' = Byte
  BY <1>1, SameForm
<1>12. Buffer'
  <2>1. left' \in 0..(SEND_BUF - RESERVE) /\ left' <= received' /\ From' <= left' + 1
    BY <1>2, <1>5, <1>6, <1>7, <1>9
  <2>2. ASSUME NEW i \in 1..SEND_BUF
        PROVE  mem'[i] \in Byte /\ (mem'[i] \in FieldEnds => i \in 1..left')
    <3>1. CASE left < i /\ i <= left + c
      <4>1. mem'[i] = received - left + i
        BY <1>5, <3>1
      <4>2. received - left + i \in 1..Len(body) /\ i \in 1..left'
        BY <1>2, <1>5, <1>6, <1>7, <3>1
      <4>3. QED
        BY <4>1, <4>2 DEF Byte
    <3>2. CASE ~(left < i /\ i <= left + c)
      BY <1>2, <1>5, <3>2
    <3>3. QED
      BY <3>1, <3>2
  <2>3. ASSUME NEW i \in 1..left' PROVE mem'[i] = received' - left' + i
    <3>1. i \in 1..SEND_BUF /\ left' = left + c
      BY <1>2, <1>5, <1>6, Sizes
    <3>2. CASE left < i
      <4>1. i <= left + c
        BY <1>2, <1>5, <3>1
      <4>2. mem'[i] = received - left + i
        BY <1>5, <3>1, <3>2, <4>1
      <4>3. QED
        BY <1>8, <4>2
    <3>3. CASE ~(left < i)
      <4>1. i \in 1..left
        BY <1>2, <3>1, <3>3
      <4>2. mem'[i] = mem[i]
        BY <1>5, <3>1, <3>3
      <4>3. QED
        BY <1>2, <1>8, <4>1, <4>2
    <3>4. QED
      BY <3>2, <3>3
  <2>4. QED
    BY <1>6, <1>9, <1>11, <2>1, <2>2, <2>3 DEF Buffer
<1>13. Clean'
  <2>1. SUFFICES ASSUME ~early' PROVE \A i \in (left' + 1)..SEND_BUF : mem'[i] = 0
    BY <1>9 DEF Clean
  <2>2. ~early
    BY <1>1, <2>1
  <2>3. \A i \in (left + 1)..SEND_BUF : mem[i] = 0
    BY <1>1, <2>2 DEF FormInv, Clean
  <2>4. ASSUME NEW i \in (left' + 1)..SEND_BUF PROVE mem'[i] = 0
    <3>1. i \in 1..SEND_BUF /\ ~(i <= left + c) /\ i \in (left + 1)..SEND_BUF
      BY <1>2, <1>5, <1>6
    <3>2. QED
      BY <1>5, <2>3, <3>1
  <2>5. QED
    BY <2>4
<1>14. AtField'
  <2>1. Pos - 1 \in {0} \cup FieldEnds /\ Len(calls) = Cardinality(EndsBefore(Pos))
    BY <1>1 DEF FormInv, AtField
  <2>2. QED
    BY <1>1, <1>10, <1>11, <2>1 DEF AtField, EndsBefore
<1>15. Exact'
  <2>1. FormFields' = FormFields /\ FieldsSet' = FieldsSet /\ Plain' = Plain
    BY <1>1, SameForm
  <2>2. QED
    BY <1>1, <1>11, <2>1 DEF FormInv, Exact
<1>16. Complete'
  BY <1>6 DEF Complete
<1>17. QED
  BY <1>12, <1>13, <1>14, <1>15, <1>16 DEF FormInv

(* The loop ends, and the rest waits for more data. *)
LEMMA KeepRestStep ==
  ASSUME Types, ~HasAmpersand, FormInv, KeepRest
  PROVE  FormInv'
<1>1. /\ pc = "parse" /\ ~HasField /\ Remain > 0 /\ MoveDown(p - 1) /\ pc' = "recv"
      /\ UNCHANGED <<body, received, p, ne, calls, early>>
  BY DEF KeepRest
<1>2. PICK d \in Nat : d = received - left
  BY <1>1, RawPart
<1>3. /\ left \in Nat /\ left <= SEND_BUF - RESERVE /\ p \in Nat /\ p >= 1 /\ p <= left + 1
      /\ Pos = d + p
      /\ \A i \in 1..SEND_BUF : mem[i] \in Byte
      /\ \A i \in p..left : mem[i] = d + i
  BY <1>1, <1>2, RawPart
<1>4. \A i \in p..left : mem[i] \notin FieldEnds
  BY <1>1, <1>2, <1>3, NoFieldNoEnd
<1>5. \A i \in 1..SEND_BUF : mem[i] \notin FieldEnds
  <2>1. From = p
    BY <1>1 DEF From
  <2>2. QED
    BY <1>1, <1>4, <2>1 DEF FormInv, Buffer
<1>6. /\ left' = left - p + 1
      /\ \A k \in 1..SEND_BUF : mem'[k] = IF k <= left' THEN mem[k + p - 1] ELSE mem[k]
  BY <1>1, Moved
<1>7. /\ left' \in Nat /\ left' <= left /\ left' <= received
      /\ received - left' = d + p - 1
  <2>1. received \in Nat /\ left <= received
    BY <1>2, <1>3, FormLength
  <2>2. QED
    BY <1>2, <1>3, <1>6, <2>1
<1>0. received' = received
  BY <1>1
<1>8. From' = 1
  BY <1>1 DEF From
<1>9. Pos' = Pos
  <2>1. Pos' = received - left' + 1
    BY <1>1, <1>8 DEF Pos
  <2>2. QED
    <3>1. received - left' = d + p - 1 /\ Pos = d + p /\ d \in Nat /\ p \in Nat
      BY <1>3, <1>7
    <3>2. QED
      BY <2>1, <3>1
<1>10. FieldEnds' = FieldEnds /\ Byte' = Byte
  BY <1>1, SameForm
<1>11. ASSUME NEW k \in 1..SEND_BUF, k <= left'
       PROVE  k + p - 1 \in p..left /\ k + p - 1 \in 1..SEND_BUF
  BY <1>3, <1>6, <1>7, <1>11, Sizes
<1>12. Buffer'
  <2>1. left' \in 0..(SEND_BUF - RESERVE) /\ left' <= received' /\ From' <= left' + 1
    <3>1. left' \in 0..(SEND_BUF - RESERVE)
      BY <1>3, <1>7, Sizes
    <3>0. 1 <= left' + 1
      <4>1. left' \in Nat
        BY <1>7
      <4>2. \A n \in Nat : 1 <= n + 1
        OBVIOUS
      <4>3. QED
        BY <4>1, <4>2
    <3>2. left' <= received'
      BY <1>0, <1>7
    <3>3. QED
      BY <1>8, <3>0, <3>1, <3>2
  <2>2. ASSUME NEW i \in 1..SEND_BUF PROVE mem'[i] \in Byte /\ mem'[i] \notin FieldEnds
    BY <1>3, <1>5, <1>6, <1>11
  <2>3. ASSUME NEW i \in 1..left' PROVE mem'[i] = received' - left' + i
    <3>1. i \in 1..SEND_BUF /\ i <= left'
      BY <1>3, <1>7, Sizes
    <3>2. mem'[i] = mem[i + p - 1]
      BY <1>6, <3>1
    <3>3. PICK j \in p..left : j = i + p - 1
      BY <1>11, <3>1
    <3>4. mem'[i] = d + j
      BY <1>3, <3>2, <3>3
    <3>5. d + j = received' - left' + i
      <4>1. received' - left' = d + p - 1 /\ d \in Nat /\ p \in Nat /\ i \in Int
        BY <1>0, <1>3, <1>7
      <4>2. QED
        BY <3>3, <4>1
    <3>6. QED
      BY <3>4, <3>5
  <2>4. QED
    BY <1>1, <1>8, <1>10, <2>1, <2>2, <2>3 DEF Buffer
<1>13. Clean'
  <2>1. SUFFICES ASSUME ~early' PROVE \A i \in (left' + 1)..SEND_BUF : mem'[i] = 0
    BY <1>8 DEF Clean
  <2>2. ~early
    BY <1>1, <2>1
  <2>3. From = p /\ From = 1 /\ \A i \in (left + 1)..SEND_BUF : mem[i] = 0
    BY <1>1, <2>2 DEF FormInv, Clean, From
  <2>4. left' = left
    BY <1>3, <1>6, <2>3
  <2>5. ASSUME NEW i \in (left' + 1)..SEND_BUF PROVE mem'[i] = 0
    <3>1. i \in 1..SEND_BUF /\ ~(i <= left') /\ i \in (left + 1)..SEND_BUF
      BY <1>3, <2>4
    <3>2. QED
      BY <1>6, <2>3, <3>1
  <2>6. QED
    BY <2>5
<1>14. AtField'
  <2>1. Pos - 1 \in {0} \cup FieldEnds /\ Len(calls) = Cardinality(EndsBefore(Pos))
    BY <1>1 DEF FormInv, AtField
  <2>2. QED
    BY <1>1, <1>9, <1>10, <2>1 DEF AtField, EndsBefore
<1>15. Exact'
  <2>1. FormFields' = FormFields /\ FieldsSet' = FieldsSet /\ Plain' = Plain
    BY <1>1, SameForm
  <2>2. QED
    BY <1>1, <1>10, <2>1 DEF FormInv, Exact
<1>16. Complete'
  BY <1>1 DEF Complete
<1>17. QED
  BY <1>12, <1>13, <1>14, <1>15, <1>16 DEF FormInv


(* A turn of the loop sets a field. *)
LEMMA NextFieldStep ==
  ASSUME Types, ~HasAmpersand, FormInv, NextField
  PROVE  FormInv'
<1>1. /\ pc = "parse" /\ HasField /\ pc' = "parse" /\ early' = (early \/ Remain > 0)
      /\ body' = body /\ received' = received /\ left' = left
  BY DEF NextField
<1>2. PICK d \in Nat : d = received - left
  BY <1>1, RawPart
<1>3. /\ left \in Nat /\ left <= SEND_BUF - RESERVE /\ p \in Nat /\ p >= 1 /\ Pos = d + p
      /\ left <= SEND_BUF /\ received \in Nat /\ d + left = received
  <2>1. left \in Nat /\ left <= SEND_BUF - RESERVE /\ p \in Nat /\ p >= 1 /\ Pos = d + p
    BY <1>1, <1>2, RawPart
  <2>2. received \in Nat
    BY FormLength
  <2>3. d + left = received
    BY <1>2, <2>1, <2>2
  <2>4. left <= SEND_BUF
    BY <2>1, Sizes
  <2>5. QED
    BY <2>1, <2>2, <2>3, <2>4
<1>4. /\ \A i \in 1..SEND_BUF : mem[i] \in Byte
      /\ \A i \in p..left : mem[i] = d + i
  BY <1>1, <1>2, RawPart
<1>5. PICK e \in p..left, a \in p..left :
        /\ e = Find(mem, p, "=") /\ a = Find(mem, p, "&") /\ e < a
        /\ d + a \in FieldEnds
        /\ \A i \in p..(a - 1) : d + i \notin FieldEnds
        /\ body[d + e] = "="
        /\ \A i \in Pos..(d + e - 1) : body[i] # "="
  BY <1>1, <1>2, FieldAhead
<1>6. PICK s \in Nat : s = p
  BY <1>3
<1>7. /\ e \in Nat /\ a \in Nat /\ s >= 1 /\ s <= e /\ e + 1 <= a /\ a <= left
      /\ a <= SEND_BUF - RESERVE /\ e \in 1..SEND_BUF /\ a \in 1..SEND_BUF /\ s \in 1..SEND_BUF
      /\ e + 1 \in 1..SEND_BUF
  BY <1>3, <1>5, <1>6, Sizes
<1>8. PICK o, c, m, v : o = mem /\ c = Cut(o, e) /\ m = Cut(c, a) /\ v = e + 1
  OBVIOUS
<1>9. IsBuffer(o)
  BY <1>8 DEF Types
<1>10. IsBuffer(Cut(o, e)) /\ \A k \in 1..SEND_BUF : Cut(o, e)[k] = IF k = e THEN 0 ELSE o[k]
  BY <1>7, <1>9, CutAt
<1>11. IsBuffer(c) /\ \A k \in 1..SEND_BUF : c[k] = IF k = e THEN 0 ELSE o[k]
  BY <1>8, <1>10
<1>12. IsBuffer(Cut(c, a)) /\ \A k \in 1..SEND_BUF : Cut(c, a)[k] = IF k = a THEN 0 ELSE c[k]
  BY <1>7, <1>11, CutAt
<1>13. IsBuffer(m) /\ \A k \in 1..SEND_BUF : m[k] = IF k = e \/ k = a THEN 0 ELSE mem[k]
  BY <1>8, <1>11, <1>12
<1>14. SetField(m, s, v)
  BY <1>5, <1>6, <1>8 DEF NextField
<1>15. v = e + 1 /\ s \in 1..(SEND_BUF - RESERVE + 1) /\ v \in 1..(SEND_BUF - RESERVE + 1) /\ v <= a
       /\ v \in 1..SEND_BUF
  BY <1>7, <1>8, Sizes
<1>16. /\ calls' = Append(calls, [name |-> URLDecode(Str(m, s)), value |-> URLDecode(Str(m, v))])
       /\ \A i \in 1..SEND_BUF :
            mem'[i] = m[i] \/ Changed(m, s, i, mem'[i]) \/ Changed(m, v, i, mem'[i])
  BY <1>13, <1>14, <1>15, FieldSet
<1>17. \A i \in s..(a - 1) : i # e => m[i] = d + i
  <2>1. ASSUME NEW i \in s..(a - 1), i # e PROVE i \in 1..SEND_BUF /\ i # a /\ i \in p..left
    <3>1. i \in 1..SEND_BUF /\ i # a
      BY <1>7, Sizes
    <3>2. i \in s..left
      BY <1>3, <1>7
    <3>3. QED
      BY <1>6, <3>1, <3>2
  <2>2. QED
    BY <1>4, <1>13, <2>1
<1>18. StrEnd(m, s) = e /\ Str(m, s) = Piece(d + s, d + e - 1)
  <2>1. e \in s..SEND_BUF
    BY <1>7, Sizes
  <2>2. m[e] = 0
    BY <1>7, <1>13
  <2>3. \A i \in s..(e - 1) : i \in s..(a - 1) /\ i # e
    BY <1>7
  <2>4. \A i \in s..(e - 1) : m[i] = d + i
    BY <1>17, <2>3
  <2>5. IsBuffer(m) /\ RawString(m, s, e, d)
    BY <1>7, <1>13, <2>1, <2>2, <2>4 DEF RawString
  <2>6. QED
    BY <2>5, StringIs
<1>19. StrEnd(m, v) = a /\ Str(m, v) = Piece(d + v, d + a - 1)
  <2>1. a \in v..SEND_BUF
    BY <1>7, <1>15, Sizes
  <2>2. m[a] = 0
    BY <1>7, <1>13
  <2>3. \A i \in v..(a - 1) : i \in s..(a - 1) /\ i # e
    BY <1>7, <1>15
  <2>4. \A i \in v..(a - 1) : m[i] = d + i
    BY <1>17, <2>3
  <2>5. IsBuffer(m) /\ RawString(m, v, a, d)
    BY <1>13, <1>15, <2>1, <2>2, <2>4 DEF RawString
  <2>6. QED
    BY <2>5, StringIs
<1>20. PICK b \in FieldEnds, t \in Nat, q \in Nat : b = d + a /\ t = d + p /\ q = d + e
  BY <1>3, <1>5, <1>7
<1>21. Pos = t /\ b \in Nat /\ t \in 1..b /\ q \in t..(b - 1) /\ t - 1 \in {0} \cup FieldEnds
  <2>1. Pos = t /\ b \in Nat /\ t \in 1..b /\ q \in t..(b - 1)
    BY <1>3, <1>6, <1>7, <1>20
  <2>2. QED
    BY <1>1, <2>1, RawPart
<1>22. \A i \in t..(b - 1) : i \notin FieldEnds
  <2>1. ASSUME NEW i \in t..(b - 1) PROVE i \notin FieldEnds
    <3>1. i - d \in p..(a - 1) /\ d + (i - d) = i
      BY <1>3, <1>7, <1>20
    <3>2. QED
      BY <1>5, <3>1
  <2>2. QED
    BY <2>1
<1>23. body[q] = "=" /\ \A i \in t..(q - 1) : body[i] # "="
  BY <1>5, <1>20, <1>21
<1>24. PICK n \in Nat : n = Len(calls) /\ n = Cardinality(EndsBefore(t))
  <2>1. Len(calls) = Cardinality(EndsBefore(t)) /\ Cardinality(EndsBefore(t)) \in Nat
    BY <1>1, <1>21, EndsArePositions DEF FormInv, AtField
  <2>2. QED
    BY <2>1
<1>25. /\ FormFields[n + 1] \in Calls
       /\ FieldsSet[n + 1] = [name |-> URLDecode(Piece(t, q - 1)),
                              value |-> URLDecode(Piece(q + 1, b - 1))]
       /\ Cardinality(EndsBefore(b + 1)) = n + 1
  <2>1. FieldFrom(t, q, b, n)
    BY <1>21, <1>22, <1>23, <1>24 DEF FieldFrom
  <2>2. FieldKnown(t, q, b, n)
    BY <2>1, FieldFound
  <2>3. QED
    BY <2>2 DEF FieldKnown
<1>26. d + s = t /\ d + e - 1 = q - 1 /\ d + v = q + 1 /\ d + a - 1 = b - 1
  BY <1>6, <1>7, <1>15, <1>20
<1>27. PICK x, y : x = URLDecode(Str(m, s)) /\ y = URLDecode(Str(m, v))
  OBVIOUS
<1>28. x \in Seq(Int) /\ y \in Seq(Int)
  <2>1. Str(m, s) \in Seq(Int) /\ Str(m, v) \in Seq(Int)
    BY <1>7, <1>13, <1>15, StringAt
  <2>2. QED
    BY <1>27, <2>1, URLDecodes
<1>29. PICK r \in Calls : r = [name |-> x, value |-> y]
  BY <1>28 DEF Calls
<1>30. calls' = Append(calls, r)
  BY <1>16, <1>27, <1>29
<1>31. x = URLDecode(Piece(t, q - 1)) /\ y = URLDecode(Piece(q + 1, b - 1))
  BY <1>18, <1>19, <1>26, <1>27
<1>32. FieldsSet[n + 1] = [name |-> x, value |-> y]
  BY <1>25, <1>31
<1>33. r.name = FieldsSet[n + 1].name /\ r.value = FieldsSet[n + 1].value
  BY <1>29, <1>32
<1>34. Exact'
  <2>1. Exact /\ (early => early')
    BY <1>1 DEF FormInv
  <2>2. QED
    BY <1>1, <1>24, <1>25, <1>30, <1>33, <2>1, ExactGrows
<1>35. FieldEnds' = FieldEnds /\ Byte' = Byte
  BY <1>1, SameForm
<1>36. p' = a + 1
  BY <1>5 DEF NextField
<1>37. From' = a + 1
  BY <1>1, <1>36 DEF From
<1>38. AtField'
  <2>1. Pos' = received - left + (a + 1)
    BY <1>1, <1>37 DEF Pos
  <2>2. Pos' = b + 1
    BY <1>2, <1>3, <1>7, <1>20, <2>1
  <2>3. Pos' - 1 = b
    BY <1>21, <2>2
  <2>4. Len(calls') = n + 1
    BY <1>24, <1>30, CallsGrow
  <2>5. QED
    BY <1>25, <1>35, <2>2, <2>3, <2>4 DEF AtField, EndsBefore
<1>39. \A j \in 1..SEND_BUF : m[j] \in Byte
  <2>1. 0 \in Byte
    BY DEF Byte
  <2>2. QED
    BY <1>4, <1>13, <2>1
<1>40. \A j \in s..(a - 1) : m[j] \notin FieldEnds
  <2>1. 0 \notin FieldEnds
    BY EndsArePositions, FormLength
  <2>2. ASSUME NEW j \in s..(a - 1) PROVE m[j] \notin FieldEnds
    <3>1. CASE j = e
      BY <1>7, <1>13, <2>1, <3>1
    <3>2. CASE j # e
      BY <1>5, <1>6, <1>17, <3>2
    <3>3. QED
      BY <3>1, <3>2
  <2>3. QED
    BY <2>2
<1>41. ASSUME NEW i \in 1..SEND_BUF
       PROVE  mem'[i] \in Byte /\ (mem'[i] = m[i] \/ (i < a /\ mem'[i] \notin FieldEnds))
  <2>1. CASE mem'[i] = m[i]
    BY <1>39, <2>1
  <2>2. CASE Changed(m, s, i, mem'[i])
    <3>1. PICK w : w = mem'[i]
      OBVIOUS
    <3>2. w \in Byte /\ (w \in FieldEnds => \E j \in s..(StrEnd(m, s) - 1) : m[j] \in FieldEnds)
      BY <1>7, <1>13, <1>39, <2>2, <3>1, ChangedBytes
    <3>3. \A j \in s..(e - 1) : j \in s..(a - 1)
      BY <1>7
    <3>4. w \notin FieldEnds
      BY <1>18, <1>40, <3>2, <3>3
    <3>5. i < e
      BY <1>18, <2>2 DEF Changed
    <3>6. i < a
      BY <1>7, <3>5
    <3>7. QED
      BY <3>1, <3>2, <3>4, <3>6
  <2>3. CASE Changed(m, v, i, mem'[i])
    <3>1. PICK w : w = mem'[i]
      OBVIOUS
    <3>2. w \in Byte /\ (w \in FieldEnds => \E j \in v..(StrEnd(m, v) - 1) : m[j] \in FieldEnds)
      BY <1>13, <1>15, <1>39, <2>3, <3>1, ChangedBytes
    <3>3. \A j \in v..(a - 1) : j \in s..(a - 1)
      BY <1>7, <1>15
    <3>4. w \notin FieldEnds
      BY <1>19, <1>40, <3>2, <3>3
    <3>5. i < a
      BY <1>19, <2>3 DEF Changed
    <3>6. QED
      BY <3>1, <3>2, <3>4, <3>5
  <2>4. QED
    BY <1>16, <2>1, <2>2, <2>3
<1>42. Buffer'
  <2>1. left' \in 0..(SEND_BUF - RESERVE) /\ left' <= received' /\ From' <= left' + 1
    <3>1. left \in 0..(SEND_BUF - RESERVE) /\ left <= received /\ a + 1 <= left + 1
      BY <1>3, <1>7, Sizes
    <3>2. QED
      BY <1>1, <1>37, <3>1
  <2>2. ASSUME NEW i \in (a + 1)..left PROVE mem'[i] = received - left + i
    <3>1. i \in 1..SEND_BUF /\ ~(i < a) /\ i # e /\ i # a /\ i \in p..left
      <4>1. i \in 1..SEND_BUF /\ ~(i < a) /\ i # e /\ i # a
        BY <1>3, <1>7, Sizes
      <4>2. i \in s..left
        BY <1>3, <1>7
      <4>3. QED
        BY <1>6, <4>1, <4>2
    <3>2. mem'[i] = mem[i]
      BY <1>13, <1>41, <3>1
    <3>3. QED
      BY <1>2, <1>4, <3>1, <3>2
  <2>3. ASSUME NEW i \in 1..SEND_BUF, mem'[i] \in FieldEnds PROVE i \in (a + 1)..left
    <3>1. mem'[i] = m[i]
      BY <1>41, <2>3
    <3>2. ~(i \in s..(a - 1))
      BY <1>40, <2>3, <3>1
    <3>3. 0 \notin FieldEnds
      BY EndsArePositions, FormLength
    <3>4. i # a /\ mem[i] \in FieldEnds
      BY <1>13, <2>3, <3>1, <3>3
    <3>5. From = p
      BY <1>1 DEF From
    <3>6. i \in p..left
      BY <1>1, <3>4, <3>5 DEF FormInv, Buffer
    <3>7. QED
      BY <1>3, <1>6, <1>7, <3>2, <3>4, <3>6
  <2>4. QED
    BY <1>1, <1>35, <1>37, <1>41, <2>1, <2>2, <2>3 DEF Buffer
<1>43. Clean'
  <2>1. SUFFICES ASSUME ~early'
                 PROVE  (\A i \in (left + 1)..SEND_BUF : mem'[i] = 0) /\ ~(Remain' > 0)
    BY <1>1 DEF Clean
  <2>2. ~early /\ ~(Remain > 0)
    BY <1>1, <2>1
  <2>3. Remain' = Remain
    BY <1>1 DEF Remain
  <2>4. ASSUME NEW i \in (left + 1)..SEND_BUF PROVE mem'[i] = 0
    <3>1. i \in 1..SEND_BUF /\ ~(i < a) /\ i # e /\ i # a
      BY <1>3, <1>7
    <3>2. mem'[i] = mem[i]
      BY <1>13, <1>41, <3>1
    <3>3. QED
      BY <1>1, <2>2, <3>2 DEF FormInv, Clean
  <2>5. QED
    BY <2>2, <2>3, <2>4
<1>44. Complete'
  BY <1>1 DEF Complete
<1>45. QED
  BY <1>34, <1>38, <1>42, <1>43, <1>44 DEF FormInv


(* To begin with what begins with a string. *)
LEMMA BeginsTransitive ==
  ASSUME NEW x \in Seq(Int), NEW y \in Seq(Int), NEW z \in Seq(Int), Begins(x, y), Begins(y, z)
  PROVE  Begins(x, z)
<1>1. Len(x) \in Nat /\ Len(y) \in Nat /\ Len(z) \in Nat /\ Len(z) <= Len(y) /\ Len(y) <= Len(x)
  BY LenProperties DEF Begins
<1>2. \A i \in 1..Len(y) : x[i] = y[i]
  <2>1. SubSeq(x, 1, Len(y)) = y
    BY DEF Begins
  <2>2. PICK l \in Nat : l = Len(y) /\ l <= Len(x)
    BY <1>1
  <2>3. \A i \in 1..l : x[i] \in Int
    <3>1. \A i \in 1..l : i \in 1..Len(x)
      BY <1>1, <2>2
    <3>2. QED
      BY <3>1, ElementOfSeq
  <2>4. \A i \in 1..(l - 1 + 1) : SubSeq(x, 1, l)[i] = x[1 + i - 1]
    BY <2>3, SubSeqProperties
  <2>5. ASSUME NEW i \in 1..l PROVE SubSeq(x, 1, l)[i] = x[i]
    <3>1. i \in 1..(l - 1 + 1) /\ 1 + i - 1 = i
      BY <2>2
    <3>2. QED
      BY <2>4, <3>1
  <2>6. QED
    BY <2>1, <2>2, <2>5
<1>3. \A i \in 1..Len(z) : y[i] = z[i]
  <2>1. SubSeq(y, 1, Len(z)) = z
    BY DEF Begins
  <2>2. PICK l \in Nat : l = Len(z) /\ l <= Len(y)
    BY <1>1
  <2>3. \A i \in 1..l : y[i] \in Int
    <3>1. \A i \in 1..l : i \in 1..Len(y)
      BY <1>1, <2>2
    <3>2. QED
      BY <3>1, ElementOfSeq
  <2>4. \A i \in 1..(l - 1 + 1) : SubSeq(y, 1, l)[i] = y[1 + i - 1]
    BY <2>3, SubSeqProperties
  <2>5. ASSUME NEW i \in 1..l PROVE SubSeq(y, 1, l)[i] = y[i]
    <3>1. i \in 1..(l - 1 + 1) /\ 1 + i - 1 = i
      BY <2>2
    <3>2. QED
      BY <2>4, <3>1
  <2>6. QED
    BY <2>1, <2>2, <2>5
<1>4. ASSUME NEW i \in 1..Len(z) PROVE x[i] = z[i]
  <2>1. i \in 1..Len(y)
    BY <1>1
  <2>2. QED
    BY <1>2, <1>3, <2>1
<1>5. Len(z) <= Len(x)
  BY <1>1
<1>6. QED
  BY <1>4, <1>5, BeginsWith

(* The end of the body, decoded with what is behind it in the buffer. *)
LEMMA TailDecoded ==
  ASSUME Types, NEW t \in Seq(Int), NEW w \in Seq(Int), NEW q \in Nat, NEW l \in Nat,
         l = Len(w), l <= Len(t), q + l = Len(body),
         \A i \in 1..l : w[i] = q + i /\ t[i] = q + i
  PROVE  Begins(URLDecode(t), Decoded(w))
<1>1. Len(t) \in Nat /\ Len(body) \in Nat
  BY LenProperties, FormLength
<1>2. ASSUME NEW i \in 1..l, i \in Escapes(w) PROVE i \in Escapes(t)
  <2>1. /\ i \in 1..(l - 2)
        /\ Char(w[i]) = "%" /\ Char(w[i + 1]) \in Hex /\ Char(w[i + 2]) \in Hex
    BY <1>2 DEF Escapes
  <2>2. i \in 1..(Len(t) - 2) /\ i + 1 \in 1..l /\ i + 2 \in 1..l
    <3>1. i \in 1..(l - 2)
      BY <2>1
    <3>2. PICK n \in Nat : n = Len(t) /\ l <= n
      BY <1>1
    <3>3. i \in 1..(n - 2) /\ i + 1 \in 1..l /\ i + 2 \in 1..l
      BY <3>1, <3>2
    <3>4. QED
      BY <3>2, <3>3
  <2>3. t[i] = w[i] /\ t[i + 1] = w[i + 1] /\ t[i + 2] = w[i + 2]
    BY <2>2
  <2>4. QED
    BY <2>1, <2>2, <2>3 DEF Escapes
<1>3. ASSUME NEW i \in 1..l, i \in Escapes(t) PROVE i \in Escapes(w)
  <2>1. Char(t[i]) = "%" /\ Char(t[i + 1]) \in Hex /\ Char(t[i + 2]) \in Hex
    BY <1>3 DEF Escapes
  <2>2. q + i \in 1..Len(body) /\ q + i \in Int /\ q + i > 0 /\ t[i] = q + i
    BY <1>1
  <2>3. PICK x \in Int : x = q + i
    BY <2>2
  <2>4. x > 0 /\ Char(x) = "%"
    BY <2>1, <2>2, <2>3
  <2>5. body[q + i] = "%"
    BY <2>3, <2>4, CharOf
  <2>6. q + i + 2 <= Len(body)
    BY <2>2, <2>5, FormParts
  <2>7. i \in 1..(l - 2) /\ i + 1 \in 1..l /\ i + 2 \in 1..l
    BY <1>1, <2>6
  <2>8. t[i] = w[i] /\ t[i + 1] = w[i + 1] /\ t[i + 2] = w[i + 2]
    BY <2>7
  <2>9. QED
    BY <2>1, <2>7, <2>8 DEF Escapes
<1>4. Begins(Decoded(t), Decoded(w))
  <2>1. Len(w) <= Len(t)
    OBVIOUS
  <2>2. \A i \in 1..Len(w) : t[i] = w[i]
    OBVIOUS
  <2>3. \A i \in 1..Len(w) : i \in Escapes(t) <=> i \in Escapes(w)
    BY <1>2, <1>3
  <2>4. QED
    BY <2>1, <2>2, <2>3, DecExtends
<1>5. Begins(URLDecode(t), Decoded(t)) /\ URLDecode(t) \in Seq(Int)
  BY URLDecodes
<1>6. Decoded(t) \in Seq(Int) /\ Decoded(w) \in Seq(Int)
  <2>1. Len(t) \in 0..Len(t) /\ Len(w) \in 0..Len(w)
    BY <1>1
  <2>2. QED
    BY <2>1, DecValues DEF Decoded
<1>7. QED
  BY <1>4, <1>5, <1>6, BeginsTransitive

(* The last field is set. *)
LEMMA LastFieldStep ==
  ASSUME Types, ~HasAmpersand, FormInv, LastField
  PROVE  FormInv'
<1>1. /\ pc = "parse" /\ ~HasField /\ Remain = 0 /\ left' = 0 /\ pc' = "done"
      /\ body' = body /\ early' = early
  BY DEF LastField
<1>2. PICK d \in Nat : d = received - left
  BY <1>1, RawPart
<1>3. /\ left \in Nat /\ left <= SEND_BUF - RESERVE /\ p \in Nat /\ p >= 1 /\ Pos = d + p
      /\ p <= left + 1
  BY <1>1, <1>2, RawPart
<1>4. received \in Nat /\ received = Len(body) /\ d + left = Len(body)
  <2>1. received \in Nat /\ Len(body) \in Nat /\ Len(body) - received = 0
    BY <1>1, FormLength
  <2>2. received = Len(body)
    BY <2>1
  <2>3. QED
    BY <1>2, <1>3, <2>1, <2>2
<1>5. PICK b \in FieldEnds : b = Len(body) + 1
  BY EndsArePositions
<1>6. b \in Nat /\ b = d + left + 1
  BY <1>3, <1>4, <1>5
<1>7. PICK e \in p..left :
           /\ e = Find(mem, p, "=") /\ d + e < b
           /\ body[d + e] = "="
           /\ \A i \in Pos..(d + e - 1) : body[i] # "="
  <2>1. Pos <= b /\ b <= received + 1
    BY <1>3, <1>4, <1>5, <1>6
  <2>2. QED
    BY <1>1, <1>2, <2>1, EqualsFound
<1>8. PICK s \in Nat : s = p
  BY <1>3
<1>9. /\ e \in Nat /\ s >= 1 /\ s <= e /\ e <= left /\ e # 0
      /\ e \in 1..SEND_BUF /\ s \in 1..SEND_BUF /\ left + 1 \in 1..SEND_BUF
  BY <1>3, <1>7, <1>8, Sizes
<1>10. \A i \in s..left : mem[i] = d + i
  BY <1>1, <1>2, <1>8, RawPart
<1>11. LastEquals = e
  <2>1. p \in s..left /\ p <= left
    BY <1>8, <1>9, <1>3
  <2>2. mem[p] = d + p
    BY <1>10, <2>1
  <2>3. mem[p] # 0
    BY <1>3, <2>2
  <2>4. QED
    BY <1>7, <2>1, <2>3 DEF LastEquals
<1>12. PICK o, m, v : o = mem /\ m = Cut(o, e) /\ v = e + 1
  OBVIOUS
<1>13. IsBuffer(o)
  BY <1>12 DEF Types
<1>14. IsBuffer(Cut(o, e)) /\ \A k \in 1..SEND_BUF : Cut(o, e)[k] = IF k = e THEN 0 ELSE o[k]
  BY <1>9, <1>13, CutAt
<1>15. IsBuffer(m) /\ \A k \in 1..SEND_BUF : m[k] = IF k = e THEN 0 ELSE mem[k]
  BY <1>12, <1>14
<1>16. SetField(m, s, v)
  BY <1>8, <1>9, <1>11, <1>12 DEF LastField
<1>17. /\ v = e + 1 /\ v \in Nat /\ v <= left + 1 /\ v \in 1..SEND_BUF
       /\ s \in 1..(SEND_BUF - RESERVE + 1) /\ v \in 1..(SEND_BUF - RESERVE + 1)
  BY <1>3, <1>9, <1>12, Sizes
<1>18. calls' = Append(calls, [name |-> URLDecode(Str(m, s)), value |-> URLDecode(Str(m, v))])
  BY <1>15, <1>16, <1>17, FieldSet
<1>19. \A i \in s..left : i # e => m[i] = d + i
  <2>1. ASSUME NEW i \in s..left PROVE i \in 1..SEND_BUF
    BY <1>3, <1>9, Sizes
  <2>2. QED
    BY <1>10, <1>15, <2>1
<1>20. Str(m, s) = Piece(d + s, d + e - 1)
  <2>1. e \in s..SEND_BUF
    BY <1>9, Sizes
  <2>2. m[e] = 0
    BY <1>9, <1>15
  <2>3. \A i \in s..(e - 1) : i \in s..left /\ i # e
    BY <1>3, <1>9
  <2>4. \A i \in s..(e - 1) : m[i] = d + i
    BY <1>19, <2>3
  <2>5. IsBuffer(m) /\ RawString(m, s, e, d)
    BY <1>9, <1>15, <2>1, <2>2, <2>4 DEF RawString
  <2>6. QED
    BY <2>5, StringIs
<1>21. PICK t \in Nat, q \in Nat : t = d + p /\ q = d + e
  BY <1>3, <1>9
<1>22. PICK n \in Nat : n = Len(calls) /\ n = Cardinality(EndsBefore(t))
  <2>1. Pos = t
    BY <1>3, <1>21
  <2>2. Len(calls) = Cardinality(EndsBefore(t)) /\ Cardinality(EndsBefore(t)) \in Nat
    BY <1>1, <2>1, EndsArePositions DEF FormInv, AtField
  <2>3. QED
    BY <2>2
<1>23. FieldFrom(t, q, b, n)
  <2>1. Pos = t /\ t \in 1..b /\ q \in t..(b - 1)
    BY <1>3, <1>6, <1>8, <1>9, <1>21
  <2>2. t - 1 \in {0} \cup FieldEnds
    BY <1>1, <2>1, RawPart
  <2>3. ASSUME NEW i \in t..(b - 1) PROVE i \notin FieldEnds
    <3>1. i - d \in p..left /\ d + (i - d) = i
      BY <1>3, <1>6, <1>21
    <3>2. QED
      BY <1>1, <1>2, <3>1, NoFieldNoEnd
  <2>4. body[q] = "=" /\ \A i \in t..(q - 1) : body[i] # "="
    BY <1>7, <1>21, <2>1
  <2>5. QED
    BY <1>22, <2>1, <2>2, <2>3, <2>4 DEF FieldFrom
<1>24. FieldKnown(t, q, b, n)
  BY <1>23, FieldFound
<1>25. Cardinality(FieldEnds) = n + 1
  <2>1. FieldEnds \in SUBSET (1..(Len(body) + 1)) /\ Len(body) \in Nat
    BY EndsArePositions, FormLength
  <2>2. ASSUME NEW i \in FieldEnds PROVE i < b + 1
    <3>1. i \in 1..(Len(body) + 1)
      BY <2>1
    <3>2. QED
      BY <1>5, <2>1, <3>1
  <2>3. EndsBefore(b + 1) = FieldEnds
    BY <2>2 DEF EndsBefore
  <2>4. QED
    BY <1>24, <2>3 DEF FieldKnown
<1>26. PICK x, y, w : x = URLDecode(Str(m, s)) /\ y = URLDecode(Str(m, v)) /\ w = Piece(q + 1, b - 1)
  OBVIOUS
<1>27. Str(m, s) \in Seq(Int) /\ Str(m, v) \in Seq(Int)
  BY <1>9, <1>15, <1>17, StringAt
<1>28. x \in Seq(Int) /\ y \in Seq(Int)
  BY <1>26, <1>27, URLDecodes
<1>29. PICK r \in Calls : r = [name |-> x, value |-> y]
  BY <1>28 DEF Calls
<1>30. calls' = Append(calls, r)
  BY <1>18, <1>26, <1>29
<1>31. /\ FormFields[n + 1] \in Calls /\ FieldsSet[n + 1].name = URLDecode(Piece(t, q - 1))
       /\ FieldsSet[n + 1].value = URLDecode(w) /\ Plain[n + 1] = Decoded(w)
  BY <1>24, <1>26 DEF FieldKnown
<1>32. r.name = FieldsSet[n + 1].name
  <2>1. d + s = t /\ d + e - 1 = q - 1
    BY <1>8, <1>9, <1>21
  <2>2. QED
    BY <1>20, <1>26, <1>29, <1>31, <2>1
<1>33. ASSUME ~early PROVE r.value = FieldsSet[n + 1].value
  <2>1. mem[left + 1] = 0
    <3>1. \A i \in (left + 1)..SEND_BUF : mem[i] = 0
      BY <1>1, <1>33 DEF FormInv, Clean
    <3>2. left + 1 \in (left + 1)..SEND_BUF
      BY <1>3, <1>9, Sizes
    <3>3. QED
      BY <3>1, <3>2
  <2>2. PICK z \in Nat : z = left + 1
    BY <1>3
  <2>3. z \in v..SEND_BUF /\ z \in 1..SEND_BUF /\ z # e
    BY <1>3, <1>9, <1>17, <2>2, Sizes
  <2>4. m[z] = 0
    BY <1>15, <2>1, <2>2, <2>3
  <2>5. \A i \in v..(z - 1) : i \in s..left /\ i # e
    BY <1>3, <1>9, <1>17, <2>2
  <2>6. \A i \in v..(z - 1) : m[i] = d + i
    BY <1>19, <2>5
  <2>7. IsBuffer(m) /\ RawString(m, v, z, d)
    BY <1>15, <1>17, <2>3, <2>4, <2>6 DEF RawString
  <2>8. Str(m, v) = Piece(d + v, d + z - 1)
    BY <2>7, StringIs
  <2>9. d + v = q + 1 /\ d + z - 1 = b - 1
    BY <1>3, <1>6, <1>9, <1>17, <1>21, <2>2
  <2>10. y = URLDecode(w)
    BY <1>26, <2>8, <2>9
  <2>11. QED
    BY <1>29, <1>31, <2>10
<1>34. ASSUME early PROVE n + 1 = Cardinality(FieldEnds) /\ Begins(r.value, Plain[n + 1])
  <2>1. PICK u : u = Str(m, v)
    OBVIOUS
  <2>2. PICK z \in Nat : z = StrEnd(m, v) /\ z \in v..SEND_BUF /\ m[z] = 0
    <3>1. StrEnd(m, v) \in v..SEND_BUF /\ m[StrEnd(m, v)] = 0
      BY <1>15, <1>17, EndOfString
    <3>2. StrEnd(m, v) \in Nat
      BY <1>17, <3>1, Sizes
    <3>3. QED
      BY <3>1, <3>2
  <2>3. z >= left + 1
    <3>1. SUFFICES ASSUME ~(z >= left + 1) PROVE FALSE
      OBVIOUS
    <3>2. z \in s..left /\ z # e /\ z >= 1
      BY <1>3, <1>9, <1>17, <2>2, <3>1
    <3>3. m[z] = d + z
      BY <1>19, <3>2
    <3>4. d + z = 0
      BY <2>2, <3>3
    <3>5. QED
      BY <3>2, <3>4
  <2>4. u \in Seq(Int) /\ Len(u) = z - v /\ \A k \in 1..(z - v) : u[k] = m[v + k - 1]
    <3>1. /\ Str(m, v) \in Seq(Int) /\ Len(Str(m, v)) = StrEnd(m, v) - v
          /\ \A k \in 1..(StrEnd(m, v) - v) : Str(m, v)[k] = m[v + k - 1]
      BY <1>15, <1>17, StringAt
    <3>2. QED
      BY <2>1, <2>2, <3>1
  <2>5. PICK l \in Nat : l = left - e
    <3>1. left - e \in Nat
      BY <1>3, <1>9
    <3>2. QED
      BY <3>1
  <2>6. q + l = Len(body) /\ l <= z - v
    <3>1. q + l = Len(body)
      BY <1>3, <1>4, <1>9, <1>21, <2>5
    <3>2. l <= z - v
      BY <1>3, <1>9, <1>17, <2>2, <2>3, <2>5
    <3>3. QED
      BY <3>1, <3>2
  <2>7. w \in Seq(Int) /\ Len(w) = l /\ \A i \in 1..l : w[i] = q + i
    <3>1. PICK i1 \in Int, j1 \in Int : i1 = q + 1 /\ j1 = b - 1 /\ j1 >= i1 - 1 /\ j1 - i1 + 1 = l
      BY <1>3, <1>6, <1>9, <1>21, <2>5
    <3>2. /\ Piece(i1, j1) \in Seq(Int) /\ Len(Piece(i1, j1)) = j1 - i1 + 1
          /\ \A k \in 1..(j1 - i1 + 1) : Piece(i1, j1)[k] = i1 + k - 1
      BY <3>1, PieceOf
    <3>3. w = Piece(i1, j1)
      BY <1>26, <3>1
    <3>4. \A i \in 1..l : i1 + i - 1 = q + i
      BY <3>1
    <3>5. QED
      BY <3>1, <3>2, <3>3, <3>4
  <2>8. ASSUME NEW i \in 1..l PROVE u[i] = q + i
    <3>1. i \in 1..(z - v) /\ v + i - 1 \in s..left /\ v + i - 1 # e /\ d + (v + i - 1) = q + i
      BY <1>3, <1>9, <1>17, <1>21, <2>2, <2>5, <2>6
    <3>2. QED
      BY <1>19, <2>4, <3>1
  <2>9. u \in Seq(Int) /\ w \in Seq(Int) /\ l = Len(w) /\ l <= Len(u)
    BY <2>4, <2>6, <2>7
  <2>10. \A i \in 1..l : w[i] = q + i /\ u[i] = q + i
    BY <2>7, <2>8
  <2>11. Begins(URLDecode(u), Decoded(w))
    BY <2>6, <2>9, <2>10, TailDecoded
  <2>12. Begins(r.value, Plain[n + 1])
    BY <1>26, <1>29, <1>31, <2>1, <2>11
  <2>13. QED
    BY <1>25, <2>12
<1>35. Exact'
  <2>1. Exact /\ (early => early')
    BY <1>1 DEF FormInv
  <2>2. \/ r.value = FieldsSet[n + 1].value
        \/ n + 1 = Cardinality(FieldEnds) /\ early' /\ Begins(r.value, Plain[n + 1])
    BY <1>1, <1>25, <1>33, <1>34
  <2>3. QED
    BY <1>1, <1>22, <1>30, <1>31, <1>32, <2>1, <2>2, ExactGrows
<1>36. Complete'
  <2>1. Len(calls') = n + 1
    BY <1>22, <1>30, CallsGrow
  <2>2. FieldEnds' = FieldEnds
    BY <1>1, SameForm
  <2>3. QED
    BY <1>1, <1>25, <2>1, <2>2 DEF Complete
<1>37. Buffer' /\ Clean' /\ AtField'
  BY <1>1 DEF Buffer, Clean, AtField
<1>38. QED
  BY <1>35, <1>36, <1>37 DEF FormInv


(* The invariant is kept by every step. *)
LEMMA Step ==
  ASSUME Types, ~HasAmpersand => FormInv, [Next]_vars
  PROVE  Types' /\ (~HasAmpersand' => FormInv')
<1>1. Types'
  BY TypesStep
<1>2. body' = body
  BY DEF Next, WEB_OnFormReceived, NextField, KeepRest, LastField, vars
<1>3. HasAmpersand' <=> HasAmpersand
  BY <1>2, SameForm
<1>4. SUFFICES ASSUME ~HasAmpersand, FormInv PROVE FormInv'
  BY <1>1, <1>3
<1>5. CASE WEB_OnFormReceived
  BY <1>4, <1>5, ReceiveStep
<1>6. CASE NextField
  BY <1>4, <1>6, NextFieldStep
<1>7. CASE KeepRest
  BY <1>4, <1>7, KeepRestStep
<1>8. CASE LastField
  BY <1>4, <1>8, LastFieldStep
<1>9. CASE UNCHANGED vars
  <2>1. UNCHANGED <<body, received, mem, left, p, ne, calls, early, pc>>
    BY <1>9 DEF vars
  <2>2. /\ FieldEnds' = FieldEnds /\ Byte' = Byte
        /\ FormFields' = FormFields /\ FieldsSet' = FieldsSet /\ Plain' = Plain
    BY <1>2, SameForm
  <2>3. From' = From
    BY <2>1 DEF From
  <2>4. Pos' = Pos /\ Remain' = Remain
    BY <2>1, <2>3 DEF Pos, Remain
  <2>5. Buffer'
    BY <1>4, <2>1, <2>2, <2>3 DEF FormInv, Buffer
  <2>6. Clean'
    BY <1>4, <2>1, <2>3, <2>4 DEF FormInv, Clean
  <2>7. AtField'
    BY <1>4, <2>1, <2>2, <2>4 DEF FormInv, AtField, EndsBefore
  <2>8. Exact'
    BY <1>4, <2>1, <2>2 DEF FormInv, Exact
  <2>9. Complete'
    BY <1>4, <2>1, <2>2 DEF FormInv, Complete
  <2>10. QED
    BY <2>5, <2>6, <2>7, <2>8, <2>9 DEF FormInv
<1>10. QED
  BY <1>5, <1>6, <1>7, <1>8, <1>9 DEF Next

(* The invariant holds always. *)
LEMMA Invariant == Spec => [](Types /\ (~HasAmpersand => FormInv))
<1>1. Init => Types /\ (~HasAmpersand => FormInv)
  BY InitStep
<1>2. (Types /\ (~HasAmpersand => FormInv)) /\ [Next]_vars => (Types /\ (~HasAmpersand => FormInv))'
  BY Step
<1>3. QED
  BY <1>1, <1>2, PTL DEF Spec

(* The fields of the form that were set are strings. *)
LEMMA FieldStrings ==
  ASSUME Types, FormInv, NEW k \in 1..Len(calls)
  PROVE  /\ k \in Nat /\ Field(k).name \in Seq(Int) /\ Field(k).value \in Seq(Int)
         /\ calls[k].name = URLDecode(Field(k).name)
         /\ \/ calls[k].value = URLDecode(Field(k).value)
            \/ /\ k = Cardinality(FieldEnds) /\ early
               /\ Begins(calls[k].value, Decoded(Field(k).value))
<1>1. k \in Nat
  OBVIOUS
<1>2. /\ FormFields[k] \in Calls /\ calls[k].name = FieldsSet[k].name
      /\ \/ calls[k].value = FieldsSet[k].value
         \/ k = Cardinality(FieldEnds) /\ early /\ Begins(calls[k].value, Plain[k])
  BY DEF FormInv, Exact
<1>3. FormFields[k] = Field(k) /\ Plain[k] = Decoded(Field(k).value)
  BY <1>1 DEF FormFields, Plain
<1>4. FieldsSet[k] = [name |-> URLDecode(Field(k).name), value |-> URLDecode(Field(k).value)]
  BY <1>1 DEF FieldsSet
<1>5. FieldsSet[k].name = URLDecode(Field(k).name) /\ FieldsSet[k].value = URLDecode(Field(k).value)
  BY <1>4
<1>6. Field(k) \in Calls
  BY <1>2, <1>3
<1>7. Field(k).name \in Seq(Int) /\ Field(k).value \in Seq(Int)
  BY <1>6 DEF Calls
<1>8. QED
  BY <1>1, <1>2, <1>3, <1>5, <1>7

(***************************************************************************)
(* WEB_OnFormReceived and ExtractFormData keep their types and stay within *)
(* _sendBuffer: its reserved bytes stay NUL, for every form, and the count *)
(* of buffered bytes stays within the buffer unless the form has an        *)
(* escaped ampersand.                                                      *)
(***************************************************************************)
THEOREM FormTypeCorrect == Spec => []TypeOK
<1>1. ASSUME Types, ~HasAmpersand => FormInv PROVE TypeOK
  <2>1. SUFFICES ASSUME ~HasAmpersand PROVE left \in 0..(SEND_BUF - RESERVE)
    <3>1. p \in 1..SEND_BUF /\ ne \in 0..SEND_BUF
      BY <1>1, Sizes DEF Types
    <3>2. QED
      BY <1>1, <2>1, <3>1 DEF Types, TypeOK, IsBuffer, Calls
  <2>2. CASE pc \in {"recv", "parse"}
    BY <1>1, <2>1, <2>2 DEF FormInv, Buffer
  <2>3. CASE pc = "done"
    BY <1>1, <2>1, <2>3, Sizes DEF FormInv, Complete
  <2>4. QED
    BY <1>1, <2>1, <2>2, <2>3 DEF FormInv, Complete, Types
<1>2. QED
  BY <1>1, Invariant, PTL

(***************************************************************************)
(* ExtractFormData passes each complete field of the form to TAG_Setter    *)
(* once and in the order of the form, however it is cut into segments and  *)
(* however small the buffer is, and what the setter gets begins with the   *)
(* decoded name or value.                                                  *)
(***************************************************************************)
THEOREM FieldsStayInOrder == Spec => []FieldsInOrder
<1>1. ASSUME Types, ~HasAmpersand => FormInv PROVE FieldsInOrder
  <2>1. SUFFICES ASSUME ~HasAmpersand
                 PROVE  /\ Len(calls) <= Cardinality(FieldEnds)
                        /\ pc = "done" => Len(calls) = Cardinality(FieldEnds)
                        /\ \A k \in 1..Len(calls) :
                             /\ Begins(calls[k].name, Decoded(Field(k).name))
                             /\ Begins(calls[k].value, Decoded(Field(k).value))
    BY DEF FieldsInOrder
  <2>2. FormInv
    BY <1>1, <2>1
  <2>3. pc = "done" => Len(calls) = Cardinality(FieldEnds)
    BY <2>2 DEF FormInv, Complete
  <2>4. Cardinality(FieldEnds) \in Nat
    BY <1>1, EndsArePositions
  <2>5. Len(calls) <= Cardinality(FieldEnds)
    <3>1. CASE pc \in {"recv", "parse"}
      <4>1. Len(calls) = Cardinality(EndsBefore(Pos))
        BY <2>2, <3>1 DEF FormInv, AtField
      <4>2. \A i : Cardinality(EndsBefore(i)) <= Cardinality(FieldEnds)
        BY <1>1, EndsArePositions
      <4>3. QED
        BY <4>1, <4>2
    <3>2. CASE pc = "done"
      BY <2>3, <2>4, <3>2
    <3>3. QED
      BY <1>1, <2>2, <3>1, <3>2 DEF Types, FormInv, Complete
  <2>6. ASSUME NEW k \in 1..Len(calls)
        PROVE  /\ Begins(calls[k].name, Decoded(Field(k).name))
               /\ Begins(calls[k].value, Decoded(Field(k).value))
    <3>1. PICK x, y : x = Field(k).name /\ y = Field(k).value
      OBVIOUS
    <3>2. /\ x \in Seq(Int) /\ y \in Seq(Int) /\ calls[k].name = URLDecode(x)
          /\ calls[k].value = URLDecode(y) \/ Begins(calls[k].value, Decoded(y))
      BY <1>1, <2>2, <3>1, FieldStrings
    <3>3. Begins(URLDecode(x), Decoded(x)) /\ Begins(URLDecode(y), Decoded(y))
      BY <3>2, URLDecodes
    <3>4. QED
      BY <3>1, <3>2, <3>3
  <2>7. QED
    BY <2>3, <2>5, <2>6
<1>2. QED
  BY <1>1, Invariant, PTL

(***************************************************************************)
(* What TAG_Setter gets is exactly what was posted if it has no escape,    *)
(* but for the last value of a form of which a field was parsed before the *)
(* last part arrived.                                                      *)
(***************************************************************************)
THEOREM FieldsStayExact == Spec => []FieldsAreExact
<1>1. ASSUME Types, ~HasAmpersand => FormInv PROVE FieldsAreExact
  <2>1. SUFFICES ASSUME ~HasAmpersand, NEW k \in 1..Len(calls)
                 PROVE  /\ Escapes(Field(k).name) = {} => calls[k].name = Field(k).name
                        /\ Escapes(Field(k).value) = {} /\ ~(k = Cardinality(FieldEnds) /\ early)
                             => calls[k].value = Field(k).value
    BY DEF FieldsAreExact
  <2>2. FormInv
    BY <1>1, <2>1
  <2>3. PICK x, y : x = Field(k).name /\ y = Field(k).value
    OBVIOUS
  <2>4. /\ x \in Seq(Int) /\ y \in Seq(Int) /\ calls[k].name = URLDecode(x)
        /\ calls[k].value = URLDecode(y) \/ (k = Cardinality(FieldEnds) /\ early)
    BY <1>1, <2>2, <2>3, FieldStrings
  <2>5. (Escapes(x) = {} => URLDecode(x) = x) /\ (Escapes(y) = {} => URLDecode(y) = y)
    BY <2>4, URLDecodes
  <2>6. QED
    BY <2>3, <2>4, <2>5
<1>2. QED
  BY <1>1, Invariant, PTL

-----------------------------------------------------------------------------
(***************************************************************************)
(* What becomes of the fields: the setters write them to a configuration   *)
(* that all connections share (AppThread.tla).  What AppThread guarantees  *)
(* for any number of connections that use the form, whatever fields they   *)
(* post and in whatever order.                                             *)
(***************************************************************************)

(* What a field of the configuration may hold. *)
Settings == Addresses \cup Others \cup {0, 1}

(* AppTypeOK, and that the configurations are functions. *)
AppTypeInv ==
  /\ AppTypeOK
  /\ work \in [Fields -> Settings] /\ temp \in [Fields -> Settings]

(***************************************************************************)
(* A field of g_TempConfig that nobody disturbed since the form of c was   *)
(* loaded has the value that c posted or, before that, the running one.    *)
(***************************************************************************)
CopyInv ==
  \A c \in Conns : \A f \in Fields \ disturbed[c] :
    temp[f] = IF f \in Posted(c) THEN posted[c][f] ELSE work[f]

(* What a field may be set to is a setting, and not None. *)
LEMMA ValuesAreSettings ==
  ASSUME NEW f \in Fields
  PROVE  Values(f) \subseteq Settings /\ None \notin Values(f)
<1>1. None \notin Values(f)
  BY AppAssumption
<1>2. Values(f) \subseteq Settings
  BY DEF Fields, Values, Settings
<1>3. QED
  BY <1>1, <1>2

(* What the steps of the loops leave alone. *)
LEMMA LoopKeepsConfig ==
  ASSUME Loop \/ TimersDue \/ Arrive
  PROVE  UNCHANGED <<work, temp, posted, disturbed>>
BY DEF Loop, LeaveLoop, EnterInloop, TimersDone, Fetch, MessageDone, SessionCheck,
       TimersDue, Arrive, config

(* The types hold at the start. *)
LEMMA AppTypeInit == AppInit => AppTypeInv
<1> SUFFICES ASSUME AppInit PROVE AppTypeInv
  OBVIOUS
<1>1. work \in [Fields -> Settings] /\ temp \in [Fields -> Settings]
  BY DEF AppInit, Settings
<1>2. \A f \in Fields : work[f] \in Values(f) /\ temp[f] \in Values(f)
  BY AppAssumption DEF AppInit, Fields, Values
<1>3. posted \in [Conns -> [Fields -> Addresses \cup Others \cup {0, 1, None}]]
  BY DEF AppInit, Nothing
<1>4. disturbed \in [Conns -> SUBSET Fields]
  BY DEF AppInit
<1>5. mbox \in 0..MAX_MBOX
  BY AppAssumption DEF AppInit
<1>6. ready \in BOOLEAN /\ dhcp \in BOOLEAN /\ asked \in BOOLEAN
  BY DEF AppInit
<1>7. QED
  BY <1>1, <1>2, <1>3, <1>4, <1>5, <1>6 DEF AppTypeInv, AppTypeOK, AppInit

(* The handlers and the loops keep the types. *)
LEMMA AppTypeStep == AppTypeInv /\ [AppNext]_appVars => AppTypeInv'
<1> SUFFICES ASSUME AppTypeInv, [AppNext]_appVars PROVE AppTypeInv'
  OBVIOUS
<1> USE DEF AppTypeInv, AppTypeOK
<1>1. CASE OnDhcpFinished
  <2>1. PICK a \in Addresses : work' = [work EXCEPT !["IP"] = a]
    BY <1>1 DEF OnDhcpFinished
  <2>2. "IP" \in Fields /\ Values("IP") = Addresses /\ a \in Settings
    BY DEF Fields, Values, Settings
  <2>3. work' \in [Fields -> Settings] /\ \A f \in Fields : work'[f] \in Values(f)
    BY <2>1, <2>2
  <2>4. disturbed' \in [Conns -> SUBSET Fields]
    BY <1>1, <2>2 DEF OnDhcpFinished
  <2>5. QED
    BY <1>1, <2>3, <2>4 DEF OnDhcpFinished
<1>2. ASSUME NEW c \in Conns, FormGet(c) PROVE AppTypeInv'
  <2>1. disturbed' \in [Conns -> SUBSET Fields]
    BY <1>2 DEF FormGet, Posted
  <2>2. QED
    BY <1>2, <2>1 DEF FormGet, LoadConfig4Edit
<1>3. ASSUME NEW c \in Conns, NEW f \in Fields, TAG_Setter(c, f) PROVE AppTypeInv'
  <2>1. PICK v \in Values(f) : /\ temp' = [temp EXCEPT ![f] = v]
                               /\ posted' = [posted EXCEPT ![c][f] = v]
    BY <1>3 DEF TAG_Setter
  <2>2. v \in Settings
    BY ValuesAreSettings
  <2>3. temp' \in [Fields -> Settings] /\ \A g \in Fields : temp'[g] \in Values(g)
    BY <2>1, <2>2
  <2>4. posted' \in [Conns -> [Fields -> Addresses \cup Others \cup {0, 1, None}]]
    BY <2>1, <2>2 DEF Settings
  <2>5. disturbed' \in [Conns -> SUBSET Fields]
    BY <1>3 DEF TAG_Setter
  <2>6. QED
    BY <1>3, <2>3, <2>4, <2>5 DEF TAG_Setter
<1>4. ASSUME NEW c \in Conns, FormPosted(c) PROVE AppTypeInv'
  <2>1. posted' \in [Conns -> [Fields -> Addresses \cup Others \cup {0, 1, None}]]
    BY <1>4 DEF FormPosted, Nothing
  <2>2. disturbed' \in [Conns -> SUBSET Fields]
    BY <1>4 DEF FormPosted
  <2>3. ready' \in BOOLEAN /\ asked' \in BOOLEAN
    BY <1>4 DEF FormPosted
  <2>4. QED
    BY <1>4, <2>1, <2>2, <2>3 DEF FormPosted, AppyConfig
<1>5. ASSUME NEW c \in Conns, FormAborted(c) PROVE AppTypeInv'
  <2>1. posted' \in [Conns -> [Fields -> Addresses \cup Others \cup {0, 1, None}]]
    BY <1>5 DEF FormAborted, Nothing
  <2>2. disturbed' \in [Conns -> SUBSET Fields]
    BY <1>5 DEF FormAborted, Posted
  <2>3. QED
    BY <1>5, <2>1, <2>2 DEF FormAborted
<1>6. CASE Loop \/ TimersDue \/ Arrive
  <2>1. UNCHANGED <<work, temp, posted, disturbed>>
    BY <1>6, LoopKeepsConfig
  <2>2. mbox' \in 0..MAX_MBOX
    BY <1>6, AppAssumption DEF Loop, LeaveLoop, EnterInloop, TimersDone,
       Fetch, MessageDone,
       SessionCheck, TimersDue, Arrive
  <2>3. loop' \in {"wait", "serve", "ended"}
    BY <1>6 DEF Loop, LeaveLoop, EnterInloop, TimersDone, Fetch,
       MessageDone,
       SessionCheck, TimersDue, Arrive
  <2>4. at' \in {"top", "timers", "fetch", "message", "sweep", "ended"}
    BY <1>6 DEF Loop, LeaveLoop, EnterInloop, TimersDone, Fetch,
       MessageDone,
       SessionCheck, TimersDue, Arrive, AfterSilence
  <2>5. dhcp' \in BOOLEAN /\ ready' \in BOOLEAN /\ asked' \in BOOLEAN
    BY <1>6 DEF Loop, LeaveLoop, EnterInloop, TimersDone, Fetch,
       MessageDone,
       SessionCheck, TimersDue, Arrive
  <2>6. QED
    BY <2>1, <2>2, <2>3, <2>4, <2>5
<1>7. CASE UNCHANGED appVars
  BY <1>7 DEF appVars, config
<1>8. QED
  BY <1>1, <1>2, <1>3, <1>4, <1>5, <1>6, <1>7 DEF AppNext, Handler

(* The copy of an undisturbed form is kept by every handler. *)
LEMMA CopyStep == AppTypeInv /\ CopyInv /\ [AppNext]_appVars => CopyInv'
<1> SUFFICES ASSUME AppTypeInv, CopyInv, [AppNext]_appVars,
                    NEW d \in Conns, NEW g \in Fields, g \notin disturbed'[d]
             PROVE  temp'[g] = IF posted'[d][g] # None THEN posted'[d][g] ELSE work'[g]
  BY DEF CopyInv, Posted
<1>0. /\ work \in [Fields -> Settings] /\ temp \in [Fields -> Settings]
      /\ posted \in [Conns -> [Fields -> Addresses \cup Others \cup {0, 1, None}]]
      /\ disturbed \in [Conns -> SUBSET Fields]
  BY DEF AppTypeInv, AppTypeOK
<1>i. g \notin disturbed[d] => temp[g] = IF posted[d][g] # None THEN posted[d][g] ELSE work[g]
  BY DEF CopyInv, Posted
<1>1. CASE OnDhcpFinished
  <2>1. PICK a \in Addresses : work' = [work EXCEPT !["IP"] = a]
    BY <1>1 DEF OnDhcpFinished
  <2>2. /\ g \notin disturbed[d] /\ (g = "IP" => posted[d][g] # None)
        /\ temp' = temp /\ posted' = posted
    BY <1>0, <1>1 DEF OnDhcpFinished, Posted
  <2>3. QED
    BY <1>0, <1>i, <2>1, <2>2
<1>2. ASSUME NEW c \in Conns, FormGet(c)
      PROVE  temp'[g] = IF posted'[d][g] # None THEN posted'[d][g] ELSE work'[g]
  BY <1>2 DEF FormGet, Posted, LoadConfig4Edit
<1>3. ASSUME NEW c \in Conns, NEW f \in Fields, TAG_Setter(c, f)
      PROVE  temp'[g] = IF posted'[d][g] # None THEN posted'[d][g] ELSE work'[g]
  <2>1. PICK v \in Values(f) : /\ temp' = [temp EXCEPT ![f] = v]
                               /\ posted' = [posted EXCEPT ![c][f] = v]
    BY <1>3 DEF TAG_Setter
  <2>2. v # None /\ work' = work
    BY <1>3, ValuesAreSettings DEF TAG_Setter
  <2>3. disturbed'[d] = IF d = c THEN disturbed[d] \ {f} ELSE disturbed[d] \cup {f}
    BY <1>3 DEF TAG_Setter
  <2>4. CASE g = f
    <3>1. d = c
      BY <2>3, <2>4
    <3>2. QED
      BY <1>0, <2>1, <2>2, <2>4, <3>1
  <2>5. CASE g # f
    <3>1. g \notin disturbed[d]
      BY <2>3, <2>5
    <3>2. temp'[g] = temp[g] /\ posted'[d][g] = posted[d][g]
      BY <1>0, <2>1, <2>5
    <3>3. QED
      BY <1>i, <2>2, <3>1, <3>2
  <2>6. QED
    BY <2>4, <2>5
<1>4. ASSUME NEW c \in Conns, FormPosted(c)
      PROVE  temp'[g] = IF posted'[d][g] # None THEN posted'[d][g] ELSE work'[g]
  <2>1. work' = temp /\ temp' = temp /\ posted' = [posted EXCEPT ![c] = Nothing]
    BY <1>4 DEF FormPosted, AppyConfig
  <2>2. disturbed'[d] = IF d = c THEN {} ELSE disturbed[d] \cap Posted(d)
    BY <1>4 DEF FormPosted
  <2>3. CASE d = c
    BY <1>0, <2>1, <2>3 DEF Nothing
  <2>4. CASE d # c
    <3>1. posted'[d] = posted[d]
      BY <1>0, <2>1, <2>4
    <3>2. g \notin disturbed[d] \/ posted[d][g] = None
      BY <2>2, <2>4 DEF Posted
    <3>3. QED
      BY <1>i, <2>1, <3>1, <3>2
  <2>5. QED
    BY <2>3, <2>4
<1>5. ASSUME NEW c \in Conns, FormAborted(c)
      PROVE  temp'[g] = IF posted'[d][g] # None THEN posted'[d][g] ELSE work'[g]
  <2>1. work' = work /\ temp' = temp /\ posted' = [posted EXCEPT ![c] = Nothing]
    BY <1>5 DEF FormAborted
  <2>2. disturbed' = [disturbed EXCEPT ![c] = disturbed[c] \cup Posted(c)]
    BY <1>0, <1>5 DEF FormAborted
  <2>3. CASE d = c
    <3>1. g \notin disturbed[d] /\ posted[d][g] = None
      BY <1>0, <2>2, <2>3 DEF Posted
    <3>2. posted'[d][g] = None
      BY <1>0, <2>1, <2>3 DEF Nothing
    <3>3. QED
      BY <1>i, <2>1, <3>1, <3>2
  <2>4. CASE d # c
    BY <1>0, <1>i, <2>1, <2>2, <2>4
  <2>5. QED
    BY <2>3, <2>4
<1>6. CASE Loop \/ TimersDue \/ Arrive
  BY <1>6, <1>i, LoopKeepsConfig
<1>7. CASE UNCHANGED appVars
  BY <1>7, <1>i DEF appVars, config
<1>8. QED
  BY <1>1, <1>2, <1>3, <1>4, <1>5, <1>6, <1>7 DEF AppNext, Handler

(* The copy is that of the running configuration at the start. *)
LEMMA CopyInit == AppInit => CopyInv
BY DEF AppInit, CopyInv, Posted, Nothing, Fields

-----------------------------------------------------------------------------
(* InitDevInfo, OnDhcpFinished, TAG_Setter and AppyConfig leave a value of its   *)
(* range in every field of g_WorkConfig and g_TempConfig, and the loops of       *)
(* AppThread keep their types.                                                   *)
THEOREM AppTypeCorrect == AppSpec => []AppTypeOK
<1>1. AppTypeInv => AppTypeOK
  BY DEF AppTypeInv
<1>2. QED
  BY <1>1, AppTypeInit, AppTypeStep, PTL DEF AppSpec

(***************************************************************************)
(* FormsAreIsolated for any number of connections: AppyConfig changes the  *)
(* undisturbed fields of g_WorkConfig as the form of this connection says, *)
(* although all connections edit the same g_TempConfig.                    *)
(***************************************************************************)
THEOREM FormsStayIsolated == AppSpec => FormsAreIsolated
<1>1. CopyInv /\ [AppNext]_appVars =>
        [\A c \in Conns : FormPosted(c) =>
           \A f \in Fields \ disturbed[c] :
             work'[f] = IF f \in Posted(c) THEN posted[c][f] ELSE work[f]]_appVars
  <2> SUFFICES ASSUME CopyInv, NEW c \in Conns, FormPosted(c),
                      NEW f \in Fields \ disturbed[c]
               PROVE  work'[f] = IF f \in Posted(c) THEN posted[c][f] ELSE work[f]
    OBVIOUS
  <2>1. QED
    BY DEF CopyInv, FormPosted, AppyConfig
<1>2. QED
  BY <1>1, AppTypeInit, AppTypeStep, CopyInit, CopyStep, PTL DEF AppSpec,
     FormsAreIsolated

=============================================================================
