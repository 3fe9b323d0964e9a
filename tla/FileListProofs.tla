--------------------------- MODULE FileListProofs ---------------------------
(***************************************************************************)
(* What the list of a folder guarantees for every folder and every size of *)
(* the buffers, however TCP takes it.                                      *)
(***************************************************************************)
EXTENDS FileList, SequenceTheorems, TLAPS

Marks == {"[", ",", "]", "[]"}

(***************************************************************************)
(* t lists m entries: the visible ones of the first n of the folder.       *)
(***************************************************************************)
Partial(t, n, m) ==
  /\ m \in Nat /\ n \in Nat /\ n <= Len(folder)
  /\ t \in Seq(Nat \cup Marks) /\ Len(t) = 2 * m
  /\ \A k \in 1..m : t[2 * k - 1] = IF k = 1 THEN "[" ELSE ","
  /\ \A k \in 1..m : t[2 * k] \in 1..n /\ folder[t[2 * k]] > 0
  /\ \A k \in 2..m : t[2 * (k - 1)] < t[2 * k]
  /\ \A i \in 1..n : folder[i] > 0 => \E k \in 1..m : t[2 * k] = i

(* A folder is a sequence of sizes. *)
LEMMA FolderType ==
  ASSUME folder \in Folders
  PROVE  /\ folder \in Seq(0..SLACK) /\ Len(folder) \in Nat
         /\ \A i \in 1..Len(folder) : folder[i] \in Nat
         /\ (folder = <<>> <=> Len(folder) = 0)
<1>1. folder \in Seq(0..SLACK)
  BY ListAssumption, Zenon
<1>2. Len(folder) \in Nat /\ (folder = <<>> <=> Len(folder) = 0)
  BY <1>1, LenProperties, EmptySeq
<1>3. ASSUME NEW i \in 1..Len(folder) PROVE folder[i] \in Nat
  <2>1. folder[i] \in 0..SLACK
    BY <1>1, ElementOfSeq
  <2>2. QED
    BY <2>1, ListAssumption
<1>4. QED
  BY <1>1, <1>2, <1>3

(* Nothing is listed at the start. *)
LEMMA PartialStart ==
  ASSUME folder \in Folders
  PROVE  Partial(<<>>, 0, 0)
<1>1. <<>> \in Seq(Nat \cup Marks) /\ Len(<<>>) = 0
  BY EmptySeq
<1>2. Len(folder) \in Nat
  BY FolderType
<1>3. QED
  BY <1>1, <1>2 DEF Partial

(* A separator and an entry at the end of a text. *)
LEMMA TwoMore ==
  ASSUME NEW S, NEW t \in Seq(S), NEW a \in S, NEW b \in S
  PROVE  /\ t \o <<a, b>> \in Seq(S) /\ Len(t \o <<a, b>>) = Len(t) + 2
         /\ \A j \in 1..Len(t) : (t \o <<a, b>>)[j] = t[j]
         /\ (t \o <<a, b>>)[Len(t) + 1] = a /\ (t \o <<a, b>>)[Len(t) + 2] = b
<1>1. <<a, b>> \in Seq(S) /\ Len(<<a, b>>) = 2 /\ <<a, b>>[1] = a /\ <<a, b>>[2] = b
  OBVIOUS
<1>2. Len(t) \in Nat
  BY LenProperties
<1> DEFINE u == <<a, b>>
<1>3. u \in Seq(S) /\ Len(u) = 2 /\ u[1] = a /\ u[2] = b
  BY <1>1
<1> HIDE DEF u
<1>c. /\ t \o u \in Seq(S) /\ Len(t \o u) = Len(t) + Len(u)
      /\ \A j \in 1..(Len(t) + Len(u)) : (t \o u)[j] = IF j <= Len(t) THEN t[j] ELSE u[j - Len(t)]
  BY <1>3, ConcatProperties
<1>4. /\ t \o u \in Seq(S) /\ Len(t \o u) = Len(t) + 2
      /\ \A j \in 1..(Len(t) + 2) : (t \o u)[j] = IF j <= Len(t) THEN t[j] ELSE u[j - Len(t)]
  BY <1>3, <1>c
<1>5. \A j \in 1..Len(t) : (t \o u)[j] = t[j]
  BY <1>2, <1>4
<1>6. Len(t) + 1 - Len(t) = 1 /\ Len(t) + 2 - Len(t) = 2
  BY <1>2
<1>7. (t \o u)[Len(t) + 1] = u[1] /\ (t \o u)[Len(t) + 2] = u[2]
  BY <1>2, <1>4, <1>6
<1>8. QED
  BY <1>3, <1>4, <1>5, <1>7 DEF u

(* One more entry of the folder is listed or passed over. *)
LEMMA PartialGrows ==
  ASSUME folder \in Folders, NEW n, Partial(text, n, listed), n < Len(folder), List(n + 1)
  PROVE  Partial(text', n + 1, listed')
<1>0. Len(folder) \in Nat /\ n \in Nat
  BY FolderType DEF Partial
<1>1. /\ listed \in Nat /\ n \in Nat /\ Len(folder) \in Nat /\ n + 1 <= Len(folder)
      /\ text \in Seq(Nat \cup Marks) /\ Len(text) = 2 * listed
  <2>1. n + 1 <= Len(folder)
    BY <1>0
  <2>2. QED
    BY <1>0, <2>1 DEF Partial
<1>2. /\ \A k \in 1..listed : text[2 * k - 1] = IF k = 1 THEN "[" ELSE ","
      /\ \A k \in 1..listed : text[2 * k] \in 1..n /\ folder[text[2 * k]] > 0
      /\ \A k \in 2..listed : text[2 * (k - 1)] < text[2 * k]
      /\ \A i \in 1..n : folder[i] > 0 => \E k \in 1..listed : text[2 * k] = i
  BY DEF Partial
<1>3. folder[n + 1] \in Nat
  BY <1>1, FolderType
<1>4. CASE folder[n + 1] = 0
  <2>1. text' = text /\ listed' = listed
    BY <1>3, <1>4 DEF List
  <2>2. ASSUME NEW k \in 1..listed PROVE text[2 * k] \in 1..(n + 1) /\ folder[text[2 * k]] > 0
    <3>1. text[2 * k] \in 1..n /\ folder[text[2 * k]] > 0
      BY <1>2
    <3>2. QED
      BY <1>0, <3>1
  <2>3. ASSUME NEW i \in 1..(n + 1), folder[i] > 0 PROVE \E k \in 1..listed : text[2 * k] = i
    <3>1. i \in 1..n
      BY <1>1, <1>4, <2>3
    <3>2. QED
      BY <1>2, <2>3, <3>1
  <2>4. n + 1 \in Nat
    BY <1>0
  <2>5. Partial(text, n + 1, listed)
    BY <1>1, <1>2, <2>2, <2>3, <2>4 DEF Partial
  <2>6. QED
    BY <2>1, <2>5
<1>5. CASE folder[n + 1] > 0
  <2>1. text' = text \o <<Separator, n + 1>> /\ listed' = listed + 1
    BY <1>3, <1>5 DEF List
  <2>2. /\ text' \in Seq(Nat \cup Marks) /\ Len(text') = 2 * listed + 2
        /\ \A j \in 1..(2 * listed) : text'[j] = text[j]
        /\ text'[2 * listed + 1] = Separator /\ text'[2 * listed + 2] = n + 1
    <3> DEFINE S == Nat \cup Marks
               e == n + 1
    <3>1. Separator \in S
      BY DEF Separator, Marks
    <3>2. e \in S
      BY <1>0
    <3>3. text \in Seq(S) /\ text' = text \o <<Separator, e>>
      BY <1>1, <2>1
    <3> HIDE DEF S, e
    <3>4. /\ text' \in Seq(S) /\ Len(text') = Len(text) + 2
          /\ \A j \in 1..Len(text) : text'[j] = text[j]
          /\ text'[Len(text) + 1] = Separator /\ text'[Len(text) + 2] = e
      BY <3>1, <3>2, <3>3, TwoMore
    <3>5. QED
      BY <1>1, <3>4 DEF S, e
  <2>3. ASSUME NEW k \in 1..listed
        PROVE  text'[2 * k - 1] = text[2 * k - 1] /\ text'[2 * k] = text[2 * k]
    <3>1. 2 * k - 1 \in 1..(2 * listed) /\ 2 * k \in 1..(2 * listed)
      BY <1>1
    <3>2. QED
      BY <2>2, <3>1
  <2>4. 2 * (listed + 1) - 1 = 2 * listed + 1 /\ 2 * (listed + 1) = 2 * listed + 2
    BY <1>1
  <2>5. text'[2 * (listed + 1) - 1] = Separator /\ text'[2 * (listed + 1)] = n + 1
    BY <2>2, <2>4
  <2>6. ASSUME NEW k \in 1..(listed + 1)
        PROVE  text'[2 * k - 1] = IF k = 1 THEN "[" ELSE ","
    <3>1. CASE k = listed + 1
      <4>1. text'[2 * k - 1] = Separator /\ (k = 1 <=> listed = 0)
        BY <1>1, <2>5, <3>1
      <4>2. QED
        BY <4>1 DEF Separator
    <3>2. CASE k # listed + 1
      <4>1. k \in 1..listed
        BY <1>1, <3>2
      <4>2. QED
        BY <1>2, <2>3, <4>1
    <3>3. QED
      BY <3>1, <3>2
  <2>7. ASSUME NEW k \in 1..(listed + 1)
        PROVE  text'[2 * k] \in 1..(n + 1) /\ folder[text'[2 * k]] > 0
    <3>1. CASE k = listed + 1
      BY <1>1, <1>5, <2>5, <3>1
    <3>2. CASE k # listed + 1
      <4>1. k \in 1..listed
        BY <1>1, <3>2
      <4>2. text[2 * k] \in 1..n /\ folder[text[2 * k]] > 0
        BY <1>2, <4>1
      <4>3. QED
        BY <1>1, <2>3, <4>1, <4>2
    <3>3. QED
      BY <3>1, <3>2
  <2>8. ASSUME NEW k \in 2..(listed + 1) PROVE text'[2 * (k - 1)] < text'[2 * k]
    <3>0. k - 1 \in 1..listed
      BY <1>1
    <3>1. text'[2 * (k - 1)] = text[2 * (k - 1)] /\ text[2 * (k - 1)] \in 1..n
      BY <1>2, <2>3, <3>0
    <3>2. CASE k = listed + 1
      BY <1>1, <2>5, <3>1, <3>2
    <3>3. CASE k # listed + 1
      <4>1. k \in 1..listed /\ k \in 2..listed
        BY <1>1, <3>3
      <4>2. text'[2 * k] = text[2 * k]
        BY <2>3, <4>1
      <4>3. QED
        BY <1>2, <3>1, <4>1, <4>2
    <3>4. QED
      BY <3>2, <3>3
  <2>9. ASSUME NEW i \in 1..(n + 1), folder[i] > 0 PROVE \E k \in 1..(listed + 1) : text'[2 * k] = i
    <3>1. CASE i = n + 1
      <4>1. listed + 1 \in 1..(listed + 1)
        BY <1>1
      <4>2. QED
        BY <2>5, <3>1, <4>1
    <3>2. CASE i # n + 1
      <4>1. i \in 1..n
        BY <1>1, <3>2
      <4>2. PICK k \in 1..listed : text[2 * k] = i
        BY <1>2, <2>9, <4>1
      <4>3. k \in 1..(listed + 1) /\ text'[2 * k] = i
        BY <1>1, <2>3, <4>2
      <4>4. QED
        BY <4>3
    <3>3. QED
      BY <3>1, <3>2
  <2>10. listed + 1 \in Nat /\ n + 1 \in Nat /\ Len(text') = 2 * (listed + 1)
    BY <1>1, <2>2
  <2>11. QED
    BY <1>1, <2>1, <2>2, <2>6, <2>7, <2>8, <2>9, <2>10 DEF Partial
<1>6. QED
  BY <1>3, <1>4, <1>5

(* When the whole folder was read, closing the array makes the list. *)
LEMMA PartialEnds ==
  ASSUME folder \in Folders, NEW t, NEW m, Partial(t, Len(folder), m)
  PROVE  IsListing(Append(t, "]"))
<1> DEFINE u == Append(t, "]")
<1>1. m \in Nat /\ Len(folder) \in Nat /\ t \in Seq(Nat \cup Marks) /\ Len(t) = 2 * m
  BY FolderType DEF Partial
<1>2. /\ \A k \in 1..m : t[2 * k - 1] = IF k = 1 THEN "[" ELSE ","
      /\ \A k \in 1..m : t[2 * k] \in 1..Len(folder) /\ folder[t[2 * k]] > 0
      /\ \A k \in 2..m : t[2 * (k - 1)] < t[2 * k]
      /\ \A i \in 1..Len(folder) : folder[i] > 0 => \E k \in 1..m : t[2 * k] = i
  BY DEF Partial
<1>3. /\ Len(u) = 2 * m + 1 /\ u[2 * m + 1] = "]"
      /\ \A j \in 1..(2 * m) : u[j] = t[j]
  <2>1. "]" \in Nat \cup Marks
    BY DEF Marks
  <2>2. QED
    BY <1>1, <2>1, AppendProperties
<1> HIDE DEF u
<1>4. Len(u) \div 2 = m
  BY <1>1, <1>3
<1>5. ASSUME NEW k \in 1..m
      PROVE  u[2 * k - 1] = t[2 * k - 1] /\ u[2 * k] = t[2 * k]
  <2>1. 2 * k - 1 \in 1..(2 * m) /\ 2 * k \in 1..(2 * m)
    BY <1>1
  <2>2. QED
    BY <1>3, <2>1
<1>6. \A k \in 1..m : u[2 * k - 1] = IF k = 1 THEN "[" ELSE ","
  BY <1>2, <1>5
<1>7. ASSUME NEW k \in 2..m PROVE u[2 * (k - 1)] < u[2 * k]
  <2>1. k - 1 \in 1..m /\ k \in 1..m
    BY <1>1
  <2>2. QED
    BY <1>2, <1>5, <2>1
<1>8. {u[2 * k] : k \in 1..m} = Visible
  <2>1. ASSUME NEW k \in 1..m PROVE u[2 * k] \in Visible
    BY <1>2, <1>5 DEF Visible
  <2>2. ASSUME NEW i \in Visible PROVE \E k \in 1..m : u[2 * k] = i
    BY <1>2, <1>5 DEF Visible
  <2>3. QED
    BY <2>1, <2>2
<1>9. QED
  BY <1>3, <1>4, <1>6, <1>7, <1>8 DEF IsListing, u

-----------------------------------------------------------------------------
(***************************************************************************)
(* The inductive invariant: types; what was produced so far, for each      *)
(* stage; and how the search, the stage and the end are related.           *)
(***************************************************************************)
Types ==
  /\ folder \in Folders
  /\ stage \in {"first", "more", "END"}
  /\ pc \in {"wait", "read", "send", "closed"}
  /\ why \in {"open", "sent", "lost", "starved"}
  /\ bytesLeft \in Nat /\ unacked \in 0..SND_BUF /\ out \in Nat

Produced ==
  /\ stage = "first" => text = <<>> /\ next = 0 /\ listed = 0
  /\ stage = "more" => folder # <<>> /\ Partial(text, next, listed)
  /\ stage = "END" => IF folder = <<>> THEN text = <<"[]">> ELSE IsListing(text)

Endings ==
  /\ search <=> stage = "more"
  /\ pc = "closed" <=> why # "open"
  /\ why = "starved" => bytesLeft >= SEND_BUF - FRAME - SLACK
  /\ why = "sent" => stage = "END" /\ bytesLeft = 0

ListInv == Types /\ Produced /\ Endings

(* What is left and in flight stays a number, and TCP is not overfilled. *)
LEMMA SendBufferedType ==
  ASSUME NEW left \in Nat, NEW u \in 0..SND_BUF, sendBuffered(left, u)
  PROVE  bytesLeft' \in Nat /\ unacked' \in 0..SND_BUF
<1>1. SND_BUF \in Nat
  BY ListAssumption
<1> DEFINE r == SND_BUF - u
           n == Min({left, r})
<1>2. left \in Int /\ r \in Nat
  BY <1>1
<1>3. n \in {left, r} /\ n <= left /\ n <= r
  <2> HIDE DEF r
  <2>1. QED
    BY <1>2 DEF Min
<1>4. bytesLeft' = left - n /\ unacked' = u + n
  BY DEF sendBuffered
<1> HIDE DEF n
<1>5. n \in Nat
  BY <1>2, <1>3
<1>6. QED
  BY <1>1, <1>3, <1>4, <1>5

(* What was produced does not depend on the rest of the state. *)
LEMMA ProducedKept ==
  ASSUME Produced, UNCHANGED <<folder, next, stage, listed, text>>
  PROVE  Produced'
<1>0. folder' = folder /\ next' = next /\ stage' = stage /\ listed' = listed /\ text' = text
  OBVIOUS
<1>1. Partial(text, next, listed)' = Partial(text, next, listed)
  BY <1>0, Zenon DEF Partial
<1>2. IsListing(text)' = IsListing(text)
  BY <1>0, Zenon DEF IsListing, Visible
<1>3. QED
  BY <1>0, <1>1, <1>2 DEF Produced

(***************************************************************************)
(* The parts of HttpResponseProc, with u bytes still in flight.            *)
(***************************************************************************)
LEMMA ResponseKeepsInv ==
  ASSUME ListInv, folder' = folder, pc = "wait", NEW u \in 0..SND_BUF,
         SendRemaining(u) \/ AllSent(u) \/ LastInFlight(u) \/ StartReading(u)
  PROVE  ListInv'
<1> USE DEF ListInv
<1>1. UNCHANGED <<folder, next, search, stage, listed, text>>
  BY DEF SendRemaining, AllSent, LastInFlight, StartReading, call
<1>2. Produced'
  BY <1>1, ProducedKept
<1>3. why = "open"
  BY DEF Endings
<1>4. CASE SendRemaining(u)
  <2>1. bytesLeft' \in Nat /\ unacked' \in 0..SND_BUF
    BY <1>4, SendBufferedType DEF SendRemaining, Types
  <2>2. UNCHANGED <<out, pc, why>>
    BY <1>4 DEF SendRemaining, call
  <2>3. Types'
    BY <1>1, <2>1, <2>2 DEF Types
  <2>4. Endings'
    BY <1>1, <1>3, <2>2 DEF Endings
  <2>5. QED
    BY <1>2, <2>3, <2>4
<1>5. CASE AllSent(u)
  <2>1. unacked' = u /\ pc' = "closed" /\ why' = "sent" /\ UNCHANGED <<out, bytesLeft>>
    BY <1>5 DEF AllSent, call
  <2>2. stage = "END" /\ ~(bytesLeft > 0)
    BY <1>5 DEF AllSent, MustFlush
  <2>3. bytesLeft = 0
    BY <2>2 DEF Types
  <2>4. Types'
    BY <1>1, <2>1 DEF Types
  <2>5. Endings'
    BY <1>1, <2>1, <2>2, <2>3 DEF Endings
  <2>6. QED
    BY <1>2, <2>4, <2>5
<1>6. CASE LastInFlight(u)
  <2>1. unacked' = u /\ UNCHANGED <<out, bytesLeft, pc, why>>
    BY <1>6 DEF LastInFlight, call
  <2>2. Types' /\ Endings'
    BY <1>1, <2>1 DEF Types, Endings
  <2>3. QED
    BY <1>2, <2>2
<1>7. CASE StartReading(u)
  <2>1. unacked' = u /\ out' = 0 /\ pc' = "read" /\ UNCHANGED <<bytesLeft, why>>
    BY <1>7 DEF StartReading
  <2>2. Types' /\ Endings'
    BY <1>1, <1>3, <2>1 DEF Types, Endings
  <2>3. QED
    BY <1>2, <2>2
<1>8. QED
  BY <1>4, <1>5, <1>6, <1>7

(* Listing an entry adds to the output of this call. *)
LEMMA ListType ==
  ASSUME Types, NEW i \in 1..Len(folder), List(i)
  PROVE  out' \in Nat
BY FolderType DEF Types, List

LEMMA FirstKeepsInv ==
  ASSUME ListInv, WEB_firstdir
  PROVE  ListInv'
<1> USE DEF ListInv
<1>0. /\ pc = "read" /\ stage = "first" /\ why = "open" /\ folder \in Folders /\ out \in Nat
      /\ UNCHANGED <<folder, bytesLeft, unacked, why>>
  BY DEF WEB_firstdir, Endings, Types
<1>1. text = <<>> /\ next = 0 /\ listed = 0 /\ ~search
  BY <1>0 DEF Produced, Endings
<1>2. CASE folder = <<>>
  <2>1. /\ text' = Append(text, "[]") /\ stage' = "END" /\ pc' = "send" /\ out' = out + 1
        /\ search' = search
    BY <1>2 DEF WEB_firstdir, EndOfList
  <2>2. text' = <<"[]">>
    BY <1>1, <2>1
  <2>3. Types'
    BY <1>0, <2>1 DEF Types
  <2>4. Produced'
    BY <1>0, <1>2, <2>1, <2>2 DEF Produced
  <2>5. Endings'
    BY <1>0, <1>1, <2>1 DEF Endings
  <2>6. QED
    BY <2>3, <2>4, <2>5
<1>3. CASE folder # <<>>
  <2>1. search' = TRUE /\ next' = 1 /\ List(1) /\ stage' = "more" /\ pc' = pc
    BY <1>3 DEF WEB_firstdir
  <2>2. Len(folder) \in Nat /\ Len(folder) > 0
    BY <1>0, <1>3, FolderType
  <2>3. Partial(text', 1, listed')
    <3>1. Partial(text, 0, listed)
      BY <1>0, <1>1, PartialStart
    <3>2. List(0 + 1) /\ 0 < Len(folder) /\ 0 + 1 = 1
      BY <2>1, <2>2
    <3>3. Partial(text', 0 + 1, listed')
      BY <1>0, <3>1, <3>2, PartialGrows
    <3>4. QED
      BY <3>2, <3>3
  <2>4. Produced'
    BY <1>0, <1>3, <2>1, <2>3 DEF Produced, Partial
  <2>5. out' \in Nat
    BY <2>1, <2>2, ListType
  <2>6. Types' /\ Endings'
    BY <1>0, <2>1, <2>5 DEF Types, Endings
  <2>7. QED
    BY <2>4, <2>6
<1>4. QED
  BY <1>2, <1>3

LEMMA NextEntryKeepsInv ==
  ASSUME ListInv, WEB_readdir
  PROVE  ListInv'
<1> USE DEF ListInv
<1>0. /\ stage = "more" /\ next < Len(folder) /\ next' = next + 1 /\ List(next + 1)
      /\ UNCHANGED <<folder, search, stage, bytesLeft, unacked, pc, why>>
      /\ folder \in Folders
  BY DEF WEB_readdir, Types
<1>1. folder # <<>> /\ Partial(text, next, listed)
  BY <1>0 DEF Produced
<1>2. Partial(text', next + 1, listed')
  BY <1>0, <1>1, PartialGrows
<1>3. Produced'
  BY <1>0, <1>1, <1>2 DEF Produced, Partial
<1>4. out' \in Nat
  <2>1. next \in Nat /\ Len(folder) \in Nat
    BY <1>0, <1>1, FolderType DEF Partial
  <2>2. next + 1 \in 1..Len(folder)
    BY <1>0, <2>1
  <2>3. QED
    BY <1>0, <2>2, ListType
<1>5. Types' /\ Endings'
  BY <1>0, <1>4 DEF Types, Endings
<1>6. QED
  BY <1>3, <1>5

LEMMA EndKeepsInv ==
  ASSUME ListInv, ReadEnds
  PROVE  ListInv'
<1> USE DEF ListInv
<1>0. /\ pc = "read" /\ why = "open" /\ stage = "more" /\ next = Len(folder)
      /\ search' = FALSE /\ out' = out + 1
      /\ text' = Append(text, "]") /\ stage' = "END" /\ pc' = "send"
      /\ UNCHANGED <<folder, bytesLeft, unacked, why>>
      /\ folder \in Folders
  BY DEF ReadEnds, WEB_closedir, EndOfList, Types, Endings
<1>1. folder # <<>> /\ Partial(text, Len(folder), listed)
  BY <1>0 DEF Produced
<1>2. IsListing(text')
  BY <1>0, <1>1, PartialEnds
<1>3. Produced'
  BY <1>0, <1>1, <1>2 DEF Produced, IsListing, Visible
<1>4. Types' /\ Endings'
  BY <1>0 DEF Types, Endings
<1>5. QED
  BY <1>3, <1>4

LEMMA ListInit == Init => ListInv
BY ListAssumption DEF Init, ListInv, Types, Produced, Endings

LEMMA ListStep == ListInv /\ [Next]_vars => ListInv'
<1> SUFFICES ASSUME ListInv, [Next]_vars PROVE ListInv'
  OBVIOUS
<1>0. unacked \in Nat /\ unacked <= SND_BUF /\ SND_BUF \in Nat
  BY ListAssumption DEF ListInv, Types
<1>1. CASE OnHttpSent
  <2>1. PICK n \in 1..unacked :
          LET u == unacked - n
          IN  SendRemaining(u) \/ AllSent(u) \/ (LastInFlight(u) /\ u > 0) \/ StartReading(u)
    BY <1>1 DEF OnHttpSent
  <2>2. unacked - n \in 0..SND_BUF
    BY <1>0
  <2>3. folder' = folder /\ pc = "wait"
    BY <1>1 DEF OnHttpSent
  <2>4. QED
    BY <2>1, <2>2, <2>3, ResponseKeepsInv
<1>2. CASE OnHttpPoll
  <2>1. unacked \in 0..SND_BUF
    BY <1>0
  <2>2. QED
    BY <1>2, <2>1, ResponseKeepsInv DEF OnHttpPoll
<1>3. CASE Lost
  <2>1. /\ UNCHANGED <<folder, next, search, stage, listed, out, text, bytesLeft, unacked>>
        /\ pc' = "closed" /\ why' = "lost"
    BY <1>3 DEF Lost, call
  <2>2. QED
    BY <2>1, ProducedKept DEF ListInv, Types, Endings
<1>4. CASE NoRoom
  <2>1. UNCHANGED <<folder, next, search, stage, listed, out, text, bytesLeft, unacked>>
    BY <1>4 DEF NoRoom, call
  <2>2. Produced'
    BY <2>1, ProducedKept DEF ListInv
  <2>3. pc = "read" /\ why = "open"
    BY <1>4 DEF NoRoom, ListInv, Endings
  <2>4. CASE pc' = "send" /\ why' = why
    BY <2>1, <2>2, <2>3, <2>4 DEF ListInv, Types, Endings
  <2>5. CASE out = 0 /\ pc' = "closed" /\ why' = "starved"
    <3>1. bytesLeft >= SEND_BUF - FRAME - SLACK
      BY <1>4, <2>5, ListAssumption DEF NoRoom, Room, ListInv, Types
    <3>2. QED
      BY <2>1, <2>2, <2>3, <2>5, <3>1 DEF ListInv, Types, Endings
  <2>6. QED
    BY <1>4, <2>4, <2>5 DEF NoRoom
<1>5. CASE SendChunk
  <2>1. /\ UNCHANGED <<folder, next, search, stage, listed, out, text, why>>
        /\ pc = "send" /\ pc' = "wait" /\ why = "open"
    BY <1>5 DEF SendChunk, call, ListInv, Endings
  <2>2. bytesLeft' \in Nat /\ unacked' \in 0..SND_BUF
    <3>1. bytesLeft + out + FRAME \in Nat /\ unacked \in 0..SND_BUF
      BY ListAssumption DEF ListInv, Types
    <3>2. QED
      BY <1>5, <3>1, SendBufferedType DEF SendChunk
  <2>3. Produced'
    BY <2>1, ProducedKept DEF ListInv
  <2>4. QED
    BY <2>1, <2>2, <2>3 DEF ListInv, Types, Endings
<1>6. CASE UNCHANGED vars
  <2>1. /\ UNCHANGED <<folder, next, search, stage, listed, out, text>>
        /\ UNCHANGED <<bytesLeft, unacked, pc, why>>
    BY <1>6 DEF vars, call
  <2>2. QED
    BY <2>1, ProducedKept DEF ListInv, Types, Endings
<1>7. QED
  BY <1>1, <1>2, <1>3, <1>4, <1>5, <1>6, FirstKeepsInv, NextEntryKeepsInv, EndKeepsInv
     DEF Next, Read

-----------------------------------------------------------------------------
(***************************************************************************)
(* ListingIsWhole for every folder and all sizes: a response of            *)
(* files.cgi that ends well listed each visible entry once and in order,   *)
(* wherever Files_ReadOneFileInfo was interrupted by a full buffer.        *)
(***************************************************************************)
THEOREM ListingsAreWhole == Spec => []ListingIsWhole
<1>1. ListInv => ListingIsWhole
  BY DEF ListInv, Produced, Endings, ListingIsWhole
<1>2. QED
  BY <1>1, ListInit, ListStep, PTL DEF Spec

(***************************************************************************)
(* SearchesAreClosed for every folder and all sizes: a search is left open *)
(* only by a response that was lost, or by one that starved on a full      *)
(* buffer.                                                                 *)
(***************************************************************************)
THEOREM SearchesStayClosed == Spec => []SearchesAreClosed
<1>1. ListInv => SearchesAreClosed
  BY DEF ListInv, Types, Endings, SearchesAreClosed
<1>2. QED
  BY <1>1, ListInit, ListStep, PTL DEF Spec

=============================================================================
