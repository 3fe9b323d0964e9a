--------------------------- MODULE HttpRecvProofs ---------------------------
(***************************************************************************)
(* What the receive path guarantees for every stream, every way to cut it  *)
(* into segments and pbufs, and every size of the buffer and the window.   *)
(***************************************************************************)
EXTENDS HttpRecv, SequenceTheorems, WellFoundedInduction, TLAPS

-----------------------------------------------------------------------------
(* Facts about the least and the greatest element of a set of numbers.     *)

(* A nonempty set of natural numbers has a least element, and Min is it. *)
LEMMA MinIsLeast ==
  ASSUME NEW S \in SUBSET Nat, S # {}
  PROVE  Min(S) \in S /\ \A y \in S : Min(S) <= y
<1>1. PICK x \in S : \A y \in S : ~ (<<y, x>> \in OpToRel(<, Nat))
  BY NatLessThanWellFounded, WFMin, Zenon
<1>2. ASSUME NEW y \in S PROVE x <= y
  <2>1. x \in Nat /\ y \in Nat
    OBVIOUS
  <2>2. ~ (y < x)
    BY <1>1, <2>1 DEF OpToRel
  <2>3. QED
    BY <2>1, <2>2
<1>3. QED
  BY <1>2 DEF Min

(* A bounded nonempty set of natural numbers has a greatest element. *)
LEMMA MaxIsGreatest ==
  ASSUME NEW m \in Nat, NEW S \in SUBSET (0..m), S # {}
  PROVE  Max(S) \in S /\ \A y \in S : y <= Max(S)
<1> DEFINE T == {m - x : x \in S}
<1>1. T \in SUBSET Nat /\ T # {}
  <2>1. \A x \in S : x \in Int /\ m - x \in Nat
    OBVIOUS
  <2>2. PICK x : x \in S
    OBVIOUS
  <2>3. m - x \in T
    BY <2>2
  <2>4. QED
    BY <2>1, <2>3
<1>2. Min(T) \in T /\ \A y \in T : Min(T) <= y
  BY <1>1, MinIsLeast
<1>3. PICK x \in S : Min(T) = m - x
  BY <1>2
<1>4. ASSUME NEW y \in S PROVE y <= x
  <2>1. m - y \in T /\ x \in 0..m /\ y \in 0..m
    OBVIOUS
  <2>2. m - x <= m - y
    BY <1>2, <1>3, <2>1
  <2>3. QED
    BY <2>1, <2>2
<1>5. QED
  BY <1>4 DEF Max

(* The lesser of two numbers. *)
LEMMA MinOfTwo ==
  ASSUME NEW a \in Int, NEW b \in Int
  PROVE  Min({a, b}) \in {a, b} /\ Min({a, b}) <= a /\ Min({a, b}) <= b
BY DEF Min

-----------------------------------------------------------------------------
(***************************************************************************)
(* The inductive invariant.  Content says which byte of the stream is at   *)
(* each index of the buffer and of the chain, also in the part of the      *)
(* first pbuf that was copied already; Chain is what WindowIsWhole says,   *)
(* and that the offset lies in the first pbuf; Parser is what the local    *)
(* variables of HttpRequestProc are worth between its steps.               *)
(***************************************************************************)
DataTypes ==
  /\ stream \in Streams /\ sent \in 0..Len(stream)
  /\ wnd \in 0..TCP_WND
  /\ buf \in Seq(Nat) /\ Len(buf) <= MAX_REQ_BUF_SIZE
  /\ chain \in Seq(Nat) /\ cuts \subseteq 1..Len(chain)
  /\ off \in Nat /\ taken \in Nat

Content ==
  /\ \A i \in 1..Len(buf) : buf[i] = taken + i
  /\ \A i \in 1..Len(chain) : chain[i] = taken + Len(buf) - off + i
  /\ sent = taken + Len(buf) + Len(chain) - off

Chain ==
  /\ WindowIsWhole
  /\ off <= Len(chain) /\ (chain = <<>> => off = 0)

DataInv == DataTypes /\ Content /\ Chain

Parser ==
  /\ pc \in {"lines", "shift"} => pos <= Len(buf)
  /\ pc = "header" => size = Len(buf)
  /\ pc = "body" /\ ~rq.chunked => size = Len(buf)
  /\ pc \in {"chunk", "undefined"} \/ rq.state \in {"CHUNK_LEN", "CHUNK"} => rq.chunked

RecvInv == TypeOK /\ DataInv /\ Parser

(***************************************************************************)
(* What a step may do to the bytes: receive a segment, copy some of the    *)
(* chain into the buffer, consume some of the buffer, or nothing.          *)
(***************************************************************************)
Receives(n) ==
  /\ n \in 1..TCP_MSS /\ n <= wnd /\ n <= Len(stream) - sent
  /\ sent' = sent + n
  /\ \E ends \in SUBSET (1..n) :
       n \in ends /\ Enqueue([i \in 1..n |-> sent + i], ends)
  /\ UNCHANGED <<stream, taken>>

Copied == Min({MAX_REQ_BUF_SIZE - Len(buf), Len(chain) - off})

FreedBy(n) == Max({0} \cup {c \in cuts : c <= off + n})

Copies(n, f) ==
  /\ n = Copied /\ f = FreedBy(n)
  /\ buf' = buf \o Loaded(n)
  /\ chain' = Drop(chain, f)
  /\ cuts' = {c - f : c \in {d \in cuts : d > f}}
  /\ off' = off + n - f
  /\ Freed(f)
  /\ UNCHANGED <<net, taken>>

Consumes(n) ==
  /\ n \in 0..Len(buf)
  /\ Consume(n)
  /\ UNCHANGED <<net, window>>

Rests == UNCHANGED <<net, window, buf, taken>>

DataStep ==
  \/ \E n \in Nat : Receives(n)
  \/ Copies(Copied, FreedBy(Copied))
  \/ \E n \in Nat : Consumes(n)
  \/ Rests

(* Dropping the first n elements of a sequence. *)
LEMMA DropProperties ==
  ASSUME NEW S, NEW s \in Seq(S), NEW n \in 0..Len(s)
  PROVE  /\ Drop(s, n) \in Seq(S)
         /\ Len(Drop(s, n)) = Len(s) - n
         /\ \A i \in 1..(Len(s) - n) : Drop(s, n)[i] = s[n + i]
<1>1. \A i \in (n + 1)..Len(s) : s[i] \in S
  BY ElementOfSeq
<1>2. QED
  BY <1>1, SubSeqProperties, LenProperties DEF Drop

(* How much of the chain is copied, and how much of it is freed. *)
LEMMA CopiedAndFreed ==
  ASSUME DataInv
  PROVE  /\ Copied \in 0..(Len(chain) - off) /\ Copied <= MAX_REQ_BUF_SIZE - Len(buf)
         /\ FreedBy(Copied) \in 0..(off + Copied)
         /\ FreedBy(Copied) \in {0} \cup cuts
         /\ \A c \in cuts : c > FreedBy(Copied) <=> c > off + Copied
<1> USE RecvAssumption DEF DataInv, DataTypes
<1>0. Len(buf) \in Nat /\ Len(chain) \in Nat /\ off <= Len(chain) /\ off \in Nat
  BY LenProperties DEF Chain
<1>1. Copied \in 0..(Len(chain) - off) /\ Copied <= MAX_REQ_BUF_SIZE - Len(buf)
  <2>1. MAX_REQ_BUF_SIZE - Len(buf) \in Nat /\ Len(chain) - off \in Nat
    BY <1>0
  <2>2. /\ Copied \in {MAX_REQ_BUF_SIZE - Len(buf), Len(chain) - off}
        /\ Copied <= MAX_REQ_BUF_SIZE - Len(buf) /\ Copied <= Len(chain) - off
    <3> DEFINE a == MAX_REQ_BUF_SIZE - Len(buf)
               b == Len(chain) - off
    <3>1. a \in Int /\ b \in Int
      BY <2>1
    <3>2. Min({a, b}) \in {a, b} /\ Min({a, b}) <= a /\ Min({a, b}) <= b
      <4> HIDE DEF a, b
      <4>1. QED
        BY <3>1, MinOfTwo
    <3>3. QED
      BY <3>2 DEF Copied
  <2>3. QED
    BY <2>1, <2>2
<1> DEFINE m == off + Copied
           S == {0} \cup {c \in cuts : c <= m}
<1>2. cuts \subseteq Nat /\ m \in Nat
  BY <1>0, <1>1
<1>3. S \in SUBSET (0..m) /\ S # {}
  <2> HIDE DEF m
  <2>1. \A c \in S : c \in 0..m
    BY <1>2
  <2>2. 0 \in S
    OBVIOUS
  <2>3. QED
    BY <2>1, <2>2
<1>4. Max(S) \in S /\ \A y \in S : y <= Max(S)
  <2> HIDE DEF S, m
  <2>1. QED
    BY <1>2, <1>3, MaxIsGreatest
<1>5. FreedBy(Copied) = Max(S)
  BY DEF FreedBy
<1> DEFINE f == Max(S)
<1>6. f \in 0..m /\ f \in {0} \cup cuts
  <2> HIDE DEF m, f
  <2>1. QED
    BY <1>2, <1>3, <1>4 DEF f
<1>7. ASSUME NEW c \in cuts PROVE c > f <=> c > m
  <2> HIDE DEF m, f
  <2>1. c \in Nat /\ f \in Nat /\ m \in Nat /\ f <= m
    BY <1>2, <1>6
  <2>2. c <= m => c <= f
    BY <1>4 DEF f
  <2>3. QED
    BY <2>1, <2>2
<1>8. QED
  BY <1>1, <1>5, <1>6, <1>7

(* What the invariant says about lengths, for arithmetic. *)
LEMMA Lengths ==
  ASSUME DataInv
  PROVE  /\ Len(buf) \in 0..MAX_REQ_BUF_SIZE /\ Len(chain) \in Nat
         /\ off \in Nat /\ off <= Len(chain) /\ taken \in Nat /\ sent \in Nat /\ wnd \in Nat
         /\ wnd + Len(chain) = TCP_WND
         /\ sent = taken + Len(buf) + Len(chain) - off
         /\ (chain = <<>> <=> Len(chain) = 0)
         /\ cuts \subseteq Nat
         /\ MAX_REQ_BUF_SIZE \in Nat /\ TCP_WND \in Nat
<1>1. Len(buf) \in Nat /\ Len(chain) \in Nat /\ (chain = <<>> <=> Len(chain) = 0)
  BY LenProperties, EmptySeq DEF DataInv, DataTypes
<1>2. stream \in Seq(Tokens)
  BY RecvAssumption, Zenon DEF DataInv, DataTypes
<1>3. sent \in Nat
  BY <1>2, LenProperties DEF DataInv, DataTypes
<1>4. QED
  BY <1>1, <1>3, RecvAssumption DEF DataInv, DataTypes, Chain, WindowIsWhole, Content

(* The stream is a sequence of tokens. *)
LEMMA StreamTokens ==
  ASSUME DataInv
  PROVE  Len(stream) \in Nat /\ sent <= Len(stream) /\ \A i \in 1..Len(stream) : stream[i] \in Tokens
<1>1. stream \in Seq(Tokens)
  BY RecvAssumption, Zenon DEF DataInv, DataTypes
<1>2. QED
  BY <1>1, LenProperties, ElementOfSeq DEF DataInv, DataTypes

(* A segment, whether it goes into the buffer or onto the chain. *)
LEMMA ReceiveKeepsData ==
  ASSUME DataInv, NEW n \in Nat, Receives(n)
  PROVE  DataInv'
<1>l. /\ Len(buf) \in Nat /\ Len(chain) \in Nat /\ off \in Nat /\ taken \in Nat
      /\ sent \in Nat /\ wnd \in Nat /\ MAX_REQ_BUF_SIZE \in Nat /\ TCP_WND \in Nat
      /\ Len(buf) <= MAX_REQ_BUF_SIZE /\ off <= Len(chain)
      /\ wnd + Len(chain) = TCP_WND
      /\ sent = taken + Len(buf) + Len(chain) - off
  BY Lengths
<1>e. chain = <<>> <=> Len(chain) = 0
  BY Lengths
<1>c. cuts \subseteq Nat
  BY Lengths
<1>b. \A i \in 1..Len(buf) : buf[i] = taken + i
  BY DEF DataInv, Content
<1>k. \A i \in 1..Len(chain) : chain[i] = taken + Len(buf) - off + i
  BY DEF DataInv, Content
<1>s. buf \in Seq(Nat) /\ chain \in Seq(Nat)
  BY DEF DataInv, DataTypes
<1> DEFINE p == [i \in 1..n |-> sent + i]
<1>0. /\ n \in Nat /\ n > 0 /\ n <= wnd /\ sent' = sent + n /\ sent + n <= Len(stream)
      /\ stream' = stream /\ taken' = taken
  BY <1>l, StreamTokens DEF Receives
<1>1. p \in Seq(Nat) /\ Len(p) = n /\ \A i \in 1..n : p[i] = sent + i
  BY <1>0, <1>l
<1>2. PICK ends \in SUBSET (1..n) : n \in ends /\ Enqueue(p, ends)
  BY DEF Receives
<1>3. stream \in Streams /\ sent' \in 0..Len(stream')
  BY <1>0, <1>l, StreamTokens DEF DataInv, DataTypes
<1> HIDE DEF p
<1>4. CASE Fits(Len(p))
  <2>1. chain = <<>> /\ n <= MAX_REQ_BUF_SIZE - Len(buf)
    BY <1>1, <1>4 DEF Fits
  <2>2. buf' = buf \o p /\ wnd' = wnd /\ chain' = chain /\ cuts' = cuts /\ off' = off
    BY <1>2, <1>4 DEF Enqueue, window
  <2>3. /\ buf' \in Seq(Nat) /\ Len(buf') = Len(buf) + n
        /\ \A i \in 1..(Len(buf) + n) : buf'[i] = IF i <= Len(buf) THEN buf[i] ELSE p[i - Len(buf)]
    BY <1>1, <2>2, ConcatProperties DEF DataInv, DataTypes
  <2>4. Len(chain) = 0 /\ off = 0 /\ sent = taken + Len(buf)
    BY <2>1, <1>l
  <2>5. DataTypes'
    BY <1>0, <1>3, <2>1, <2>2, <2>3, <1>l DEF DataInv, DataTypes
  <2>6. ASSUME NEW i \in 1..(Len(buf) + n) PROVE buf'[i] = taken + i
    <3>1. CASE i <= Len(buf)
      <4>1. i \in 1..Len(buf)
        BY <1>0, <1>l, <3>1
      <4>2. buf'[i] = buf[i]
        BY <2>3, <3>1
      <4>3. QED
        BY <1>b, <4>1, <4>2
    <3>2. CASE i > Len(buf)
      <4>1. i - Len(buf) \in 1..n
        BY <1>0, <3>2, <1>l
      <4>2. buf'[i] = sent + (i - Len(buf))
        BY <1>1, <2>3, <3>2, <4>1, <1>l
      <4>3. QED
        BY <2>4, <4>2, <1>l
    <3>3. QED
      BY <3>1, <3>2, <1>l
  <2>7. Content'
    BY <1>0, <2>2, <2>3, <2>4, <2>6, <1>l DEF Content
  <2>8. Chain'
    BY <2>2 DEF Chain, WindowIsWhole, DataInv
  <2>9. QED
    BY <2>5, <2>7, <2>8 DEF DataInv
<1>5. CASE ~Fits(Len(p))
  <2>a. /\ chain' = chain \o p
        /\ cuts' = cuts \cup {Len(chain) + e : e \in ends}
    BY <1>1, <1>2, <1>5 DEF Enqueue
  <2>1. wnd' = wnd - n /\ buf' = buf /\ off' = off
    BY <1>1, <1>2, <1>5 DEF Enqueue
  <2>b. Len(chain') = Len(chain) + n
    BY <1>1, <1>s, <2>a, ConcatProperties
  <2>2. /\ chain' \in Seq(Nat)
        /\ \A i \in 1..(Len(chain) + n) :
             chain'[i] = IF i <= Len(chain) THEN chain[i] ELSE p[i - Len(chain)]
    BY <1>1, <1>s, <2>a, ConcatProperties
  <2>3. ASSUME NEW c \in cuts' PROVE c \in 1..(Len(chain) + n) /\ off < c
    <3>1. CASE c \in cuts
      BY <1>0, <3>1, <1>l DEF DataInv, DataTypes, Chain, WindowIsWhole
    <3>2. CASE c \in {Len(chain) + e : e \in ends}
      BY <1>0, <3>2, <1>l
    <3>3. QED
      BY <2>a, <3>1, <3>2
  <2>4. DataTypes'
    <3>1. wnd' \in 0..TCP_WND /\ Len(buf') <= MAX_REQ_BUF_SIZE /\ off' \in Nat /\ taken' \in Nat
      BY <1>0, <1>l, <2>1
    <3>2. cuts' \subseteq 1..Len(chain')
      BY <2>b, <2>3
    <3>3. QED
      BY <1>0, <1>3, <1>s, <2>1, <2>2, <3>1, <3>2 DEF DataTypes
  <2>5. ASSUME NEW i \in 1..(Len(chain) + n) PROVE chain'[i] = taken + Len(buf) - off + i
    <3>1. CASE i <= Len(chain)
      <4>1. i \in 1..Len(chain)
        BY <1>0, <1>l, <3>1
      <4>2. chain'[i] = chain[i]
        BY <2>2, <3>1
      <4>3. QED
        BY <1>k, <4>1, <4>2
    <3>2. CASE i > Len(chain)
      <4>1. i - Len(chain) \in 1..n
        BY <1>0, <3>2, <1>l
      <4>2. chain'[i] = sent + (i - Len(chain))
        BY <1>1, <2>2, <3>2, <4>1, <1>l
      <4>3. QED
        BY <4>2, <1>l
    <3>3. QED
      BY <3>1, <3>2, <1>l
  <2>6. Content'
    <3>1. sent' = taken' + Len(buf') + Len(chain') - off'
      BY <1>0, <1>l, <2>1, <2>b
    <3>2. QED
      BY <1>0, <1>b, <2>1, <2>b, <2>5, <3>1 DEF Content
  <2>7. Len(chain') \in cuts'
    BY <1>2, <2>a, <2>b
  <2>8. Len(chain') \in Nat /\ wnd' + Len(chain') = TCP_WND /\ off' <= Len(chain') /\ Len(chain') # 0
    BY <1>0, <2>1, <2>b, <1>l
  <2>c. chain' # <<>>
    BY <2>8, EmptySeq
  <2>d. \A c \in cuts' : off' < c
    BY <2>1, <2>3
  <2>9. Chain'
    BY <2>7, <2>8, <2>c, <2>d DEF Chain, WindowIsWhole
  <2>10. QED
    BY <2>4, <2>6, <2>9 DEF DataInv
<1>6. QED
  BY <1>4, <1>5

(* Copying moves the border between buffer and chain, and no byte. *)
LEMMA CopyKeepsData ==
  ASSUME DataInv, NEW n, NEW f, Copies(n, f)
  PROVE  DataInv'
<1>l. /\ Len(buf) \in Nat /\ Len(chain) \in Nat /\ off \in Nat /\ taken \in Nat
      /\ sent \in Nat /\ wnd \in Nat /\ MAX_REQ_BUF_SIZE \in Nat /\ TCP_WND \in Nat
      /\ Len(buf) <= MAX_REQ_BUF_SIZE /\ off <= Len(chain)
      /\ wnd + Len(chain) = TCP_WND
      /\ sent = taken + Len(buf) + Len(chain) - off
  BY Lengths
<1>e. chain = <<>> <=> Len(chain) = 0
  BY Lengths
<1>c. cuts \subseteq Nat
  BY Lengths
<1>b. \A i \in 1..Len(buf) : buf[i] = taken + i
  BY DEF DataInv, Content
<1>k. \A i \in 1..Len(chain) : chain[i] = taken + Len(buf) - off + i
  BY DEF DataInv, Content
<1>s. buf \in Seq(Nat) /\ chain \in Seq(Nat)
  BY DEF DataInv, DataTypes
<1>1. /\ n \in Nat /\ f \in Nat /\ n <= Len(chain) - off /\ n <= MAX_REQ_BUF_SIZE - Len(buf)
      /\ f <= off + n /\ f <= Len(chain)
  BY CopiedAndFreed, <1>l DEF Copies
<1>2. \A c \in cuts : c > f <=> c > off + n
  BY CopiedAndFreed DEF Copies
<1>a. /\ buf' = buf \o Loaded(n) /\ chain' = Drop(chain, f)
      /\ cuts' = {c - f : c \in {d \in cuts : d > f}}
  BY DEF Copies
<1>3. /\ off' = off + n - f /\ wnd' = wnd + f
      /\ stream' = stream /\ sent' = sent /\ taken' = taken
  BY DEF Copies, Freed, net
<1>4. /\ Loaded(n) \in Seq(Nat) /\ Len(Loaded(n)) = n
      /\ \A i \in 1..n : Loaded(n)[i] = chain[off + i]
  <2>1. ASSUME NEW i \in (off + 1)..(off + n) PROVE chain[i] \in Nat
    <3>1. i \in 1..Len(chain)
      BY <1>1, <1>l
    <3>2. QED
      BY <1>s, <3>1, ElementOfSeq
  <2> DEFINE u == off + 1
             v == off + n
  <2>2. u \in Int /\ v \in Int /\ v - u + 1 = n /\ (u <= v <=> n # 0)
    BY <1>1, <1>l
  <2>3. \A i \in 1..n : u + i - 1 = off + i
    BY <1>1, <1>l
  <2>4. Loaded(n) = SubSeq(chain, u, v)
    BY DEF Loaded
  <2>5. \A i \in u..v : chain[i] \in Nat
    BY <2>1
  <2> HIDE DEF u, v
  <2>6. /\ Loaded(n) \in Seq(Nat)
        /\ Len(Loaded(n)) = IF u <= v THEN v - u + 1 ELSE 0
        /\ \A i \in 1..(v - u + 1) : Loaded(n)[i] = chain[u + i - 1]
    BY <2>2, <2>4, <2>5, SubSeqProperties
  <2>7. QED
    BY <1>1, <2>2, <2>3, <2>6
<1>5. Len(buf') = Len(buf) + n
  BY <1>a, <1>s, <1>4, ConcatProperties
<1>d. /\ buf' \in Seq(Nat)
      /\ \A i \in 1..(Len(buf) + n) : buf'[i] = IF i <= Len(buf) THEN buf[i] ELSE Loaded(n)[i - Len(buf)]
  BY <1>a, <1>s, <1>4, ConcatProperties
<1>6. Len(chain') = Len(chain) - f
  <2>1. f \in 0..Len(chain)
    BY <1>1, <1>l
  <2>2. QED
    BY <1>a, <1>s, <2>1, DropProperties
<1>f. chain' \in Seq(Nat) /\ \A i \in 1..(Len(chain) - f) : chain'[i] = chain[f + i]
  <2>1. f \in 0..Len(chain)
    BY <1>1, <1>l
  <2>2. QED
    BY <1>a, <1>s, <2>1, DropProperties
<1>7. ASSUME NEW c \in cuts' PROVE c \in 1..Len(chain') /\ off' < c
  <2>1. PICK d \in cuts : d > f /\ c = d - f
    BY <1>a
  <2>2. d \in Nat /\ d <= Len(chain) /\ d > off + n
    BY <1>2, <1>c, <1>l, <2>1 DEF DataInv, DataTypes
  <2>3. QED
    BY <1>1, <1>3, <1>6, <2>1, <2>2, <1>l
<1>8. DataTypes'
  <2>1. stream' \in Streams /\ sent' \in 0..Len(stream') /\ taken' \in Nat
    BY <1>3 DEF DataInv, DataTypes
  <2>2. wnd' \in 0..TCP_WND /\ off' \in Nat /\ Len(buf') <= MAX_REQ_BUF_SIZE
    BY <1>1, <1>3, <1>5, <1>l
  <2>3. QED
    BY <1>7, <1>d, <1>f, <2>1, <2>2 DEF DataTypes
<1>9. ASSUME NEW i \in 1..(Len(buf) + n) PROVE buf'[i] = taken + i
  <2>1. CASE i <= Len(buf)
    <3>1. i \in 1..Len(buf)
      BY <1>1, <1>l, <2>1
    <3>2. buf'[i] = buf[i]
      BY <1>d, <2>1
    <3>3. QED
      BY <1>b, <3>1, <3>2
  <2>2. CASE i > Len(buf)
    <3>1. i - Len(buf) \in 1..n
      BY <1>1, <2>2, <1>l
    <3>2. buf'[i] = chain[off + (i - Len(buf))]
      <4>1. ~ (i <= Len(buf))
        BY <1>1, <1>l, <2>2
      <4>2. buf'[i] = Loaded(n)[i - Len(buf)]
        BY <1>d, <4>1
      <4>3. QED
        BY <1>4, <3>1, <4>2
    <3>3. off + (i - Len(buf)) \in 1..Len(chain)
      BY <1>1, <3>1, <1>l
    <3>4. chain[off + (i - Len(buf))] = taken + Len(buf) - off + (off + (i - Len(buf)))
      BY <1>k, <3>3
    <3>5. QED
      BY <1>1, <3>2, <3>4, <1>l
  <2>3. QED
    BY <1>1, <2>1, <2>2, <1>l
<1>10. ASSUME NEW i \in 1..(Len(chain) - f) PROVE chain'[i] = taken' + Len(buf') - off' + i
  <2>1. f + i \in 1..Len(chain)
    BY <1>1, <1>l
  <2>2. chain'[i] = taken + Len(buf) - off + (f + i)
    BY <1>f, <1>k, <2>1
  <2>3. QED
    BY <1>1, <1>3, <1>5, <2>2, <1>l
<1>11. sent' = taken' + Len(buf') + Len(chain') - off'
  BY <1>1, <1>3, <1>5, <1>6, <1>l
<1>12. Content'
  BY <1>3, <1>5, <1>6, <1>9, <1>10, <1>11 DEF Content
<1>13. /\ Len(chain') \in Nat /\ wnd' + Len(chain') = TCP_WND
       /\ off' <= Len(chain') /\ (Len(chain') = 0 => off' = 0)
  <2>1. off' = off + n - f /\ wnd' = wnd + f
    BY <1>3
  <2>2. QED
    BY <1>1, <1>6, <1>l, <2>1
<1>14. ASSUME Len(chain') # 0 PROVE Len(chain') \in cuts'
  <2>1. Len(chain) > f /\ chain # <<>>
    BY <1>1, <1>6, <1>14, <1>l, <1>e
  <2>2. Len(chain) \in cuts
    BY <2>1 DEF DataInv, Chain, WindowIsWhole
  <2>3. QED
    BY <1>a, <1>6, <2>1, <2>2
<1>15. chain' = <<>> <=> Len(chain') = 0
  BY <1>f, EmptySeq
<1>16. Chain'
  BY <1>7, <1>13, <1>14, <1>15 DEF Chain, WindowIsWhole
<1>17. QED
  BY <1>8, <1>12, <1>16 DEF DataInv

(* What is shifted out of the buffer is counted. *)
LEMMA ConsumeKeepsData ==
  ASSUME DataInv, NEW n, Consumes(n)
  PROVE  DataInv'
<1>l. /\ Len(buf) \in Nat /\ Len(chain) \in Nat /\ off \in Nat /\ taken \in Nat
      /\ sent \in Nat /\ wnd \in Nat /\ MAX_REQ_BUF_SIZE \in Nat /\ TCP_WND \in Nat
      /\ Len(buf) <= MAX_REQ_BUF_SIZE /\ off <= Len(chain)
      /\ wnd + Len(chain) = TCP_WND
      /\ sent = taken + Len(buf) + Len(chain) - off
  BY Lengths
<1>1. /\ n \in 0..Len(buf) /\ buf' = Drop(buf, n) /\ taken' = taken + n
      /\ stream' = stream /\ sent' = sent
      /\ wnd' = wnd /\ chain' = chain /\ cuts' = cuts /\ off' = off
  BY DEF Consumes, Consume, net, window
<1>2. /\ buf' \in Seq(Nat) /\ Len(buf') = Len(buf) - n
      /\ \A i \in 1..(Len(buf) - n) : buf'[i] = buf[n + i]
  BY <1>1, DropProperties DEF DataInv, DataTypes
<1>3. n \in Nat /\ n <= Len(buf)
  BY <1>1, <1>l
<1>4. DataTypes'
  <2>1. Len(buf') <= MAX_REQ_BUF_SIZE /\ taken' \in Nat
    BY <1>1, <1>2, <1>3, <1>l
  <2>2. QED
    BY <1>1, <1>2, <2>1 DEF DataInv, DataTypes
<1>5. ASSUME NEW i \in 1..(Len(buf) - n) PROVE buf'[i] = taken' + i
  <2>1. n + i \in 1..Len(buf)
    BY <1>3, <1>l
  <2>2. buf'[i] = taken + (n + i)
    BY <1>2, <2>1 DEF DataInv, Content
  <2>3. QED
    BY <1>1, <1>3, <2>2, <1>l
<1>6. ASSUME NEW i \in 1..Len(chain) PROVE chain[i] = taken' + Len(buf') - off + i
  <2>1. chain[i] = taken + Len(buf) - off + i
    BY DEF DataInv, Content
  <2>2. QED
    BY <1>1, <1>2, <1>3, <2>1, <1>l
<1>7. sent = taken' + Len(buf') + Len(chain) - off
  BY <1>1, <1>2, <1>3, <1>l
<1>8. Content'
  BY <1>1, <1>2, <1>5, <1>6, <1>7 DEF Content
<1>9. Chain'
  BY <1>1 DEF Chain, WindowIsWhole, DataInv
<1>10. QED
  BY <1>4, <1>8, <1>9 DEF DataInv

(* The invariant of the bytes is kept by every step of the bytes. *)
LEMMA DataKept ==
  ASSUME DataInv, DataStep
  PROVE  DataInv'
<1>1. CASE Rests
  BY <1>1 DEF Rests, net, window, DataInv, DataTypes, Content, Chain, WindowIsWhole
<1>2. QED
  BY <1>1, ReceiveKeepsData, CopyKeepsData, ConsumeKeepsData DEF DataStep

-----------------------------------------------------------------------------
(* The types of the control variables, and what TypeOK consists of. *)
Results == {0, -307, -500}

Requests ==
  [state : RequestStates, method : Methods \cup {"none"}, req : Nat,
   keep : BOOLEAN, chunked : BOOLEAN, length : Nat, received : Nat,
   result : Results]

Flags ==
  /\ fin \in BOOLEAN /\ idle \in BOOLEAN /\ astray \in BOOLEAN /\ refused \in BOOLEAN
  /\ why \in {"open", "fin", "silent", "stalled", "done", "bad"}

Histories == given \in Seq(Nat) /\ log \in Seq([req : Nat, body : Seq(Nat)])

Locals ==
  /\ pc \in {"wait", "load", "lines", "shift", "header", "chunk", "body", "exit",
             "closed", "undefined"}
  /\ size \in 0..MAX_REQ_BUF_SIZE /\ pos \in 0..MAX_REQ_BUF_SIZE

ControlTypes == rq \in Requests /\ Flags /\ Histories /\ Locals

LEMMA TypesSplit == TypeOK <=> DataTypes /\ ControlTypes
BY DEF TypeOK, DataTypes, ControlTypes, Requests, Results, Flags, Histories, Locals

LEMMA TypesSplitNext == TypeOK' <=> DataTypes' /\ ControlTypes'
BY TypesSplit, PTL

(* The fields of a request can be set one by one. *)
LEMMA EmptyRequest == NoRequest \in Requests /\ NoRequest.state = "IDLE"
BY DEF NoRequest, Requests, RequestStates, Results

LEMMA SetState ==
  ASSUME NEW r \in Requests, NEW v \in RequestStates
  PROVE  /\ [r EXCEPT !.state = v] \in Requests
         /\ [r EXCEPT !.state = v].state = v
         /\ [r EXCEPT !.state = v].chunked = r.chunked
BY DEF Requests

LEMMA SetResult ==
  ASSUME NEW r \in Requests, NEW v \in Results
  PROVE  /\ [r EXCEPT !.result = v] \in Requests
         /\ [r EXCEPT !.result = v].state = r.state
         /\ [r EXCEPT !.result = v].chunked = r.chunked
BY DEF Requests

LEMMA SetReceived ==
  ASSUME NEW r \in Requests, NEW v \in Nat
  PROVE  /\ [r EXCEPT !.received = v] \in Requests
         /\ [r EXCEPT !.received = v].state = r.state
         /\ [r EXCEPT !.received = v].chunked = r.chunked
BY DEF Requests

LEMMA SetMethod ==
  ASSUME NEW r \in Requests, NEW v \in Methods, NEW k \in Nat
  PROVE  /\ [r EXCEPT !.method = v, !.req = k] \in Requests
         /\ [r EXCEPT !.method = v, !.req = k].state = r.state
         /\ [r EXCEPT !.method = v, !.req = k].chunked = r.chunked
BY DEF Requests

LEMMA SetStateResult ==
  ASSUME NEW r \in Requests, NEW v \in RequestStates, NEW k \in Results
  PROVE  /\ [r EXCEPT !.state = v, !.result = k] \in Requests
         /\ [r EXCEPT !.state = v, !.result = k].state = v
         /\ [r EXCEPT !.state = v, !.result = k].chunked = r.chunked
BY DEF Requests

(* What is in the buffer is a token. *)
LEMMA TokenAt ==
  ASSUME DataInv, NEW i \in 1..Len(buf)
  PROVE  At(i) \in Tokens
<1>1. /\ Len(buf) \in Nat /\ Len(chain) \in Nat /\ off \in Nat /\ taken \in Nat /\ sent \in Nat
      /\ off <= Len(chain) /\ sent = taken + Len(buf) + Len(chain) - off
  BY Lengths
<1>2. Len(stream) \in Nat /\ sent <= Len(stream) /\ \A k \in 1..Len(stream) : stream[k] \in Tokens
  BY StreamTokens
<1>3. taken + i \in 1..Len(stream)
  BY <1>1, <1>2
<1>4. buf[i] = taken + i
  BY DEF DataInv, Content
<1>5. QED
  BY <1>2, <1>3, <1>4 DEF At

(* A line ends within the buffer, with a byte behind its CR. *)
LEMMA LineEndRange ==
  ASSUME DataInv, pos \in Nat, LineEnds # {}
  PROVE  Min(LineEnds) \in (pos + 1)..(Len(buf) - 1)
<1>1. Len(buf) \in Nat
  BY Lengths
<1>2. LineEnds \in SUBSET Nat /\ LineEnds \subseteq (pos + 1)..(Len(buf) - 1)
  BY <1>1 DEF LineEnds
<1>3. QED
  BY <1>2, MinIsLeast

(* So does the length of a chunk. *)
LEMMA SizeEndRange ==
  ASSUME DataInv, SizeEnds # {}
  PROVE  Min(SizeEnds) \in 1..(Len(buf) - 1)
<1>1. Len(buf) \in Nat
  BY Lengths
<1>2. SizeEnds \in SUBSET Nat /\ SizeEnds \subseteq 1..(Len(buf) - 1)
  BY <1>1 DEF SizeEnds
<1>3. QED
  BY <1>2, MinIsLeast

-----------------------------------------------------------------------------
(***************************************************************************)
(* One lemma per action: it is a step of the bytes, keeps the types of the *)
(* control variables, and what Parser says of them.                        *)
(***************************************************************************)
Good == DataStep /\ ControlTypes' /\ Parser'

LEMMA CloseGood ==
  ASSUME RecvInv, NEW reason \in {"fin", "silent", "stalled", "done", "bad"}, Close(reason)
  PROVE  Good
<1>1. DataStep
  BY DEF Close, DataStep, Rests
<1>2. /\ UNCHANGED <<buf, size, pos, rq, fin, idle, astray, refused, given, log>>
      /\ pc' = "closed" /\ why' = reason
  BY DEF Close, history
<1>3. ControlTypes
  BY TypesSplit DEF RecvInv
<1>4. ControlTypes'
  BY <1>2, <1>3 DEF ControlTypes, Flags, Histories, Locals
<1>5. Parser'
  BY <1>2 DEF RecvInv, Parser
<1>6. QED
  BY <1>1, <1>4, <1>5 DEF Good

LEMMA ReceiveGood ==
  ASSUME RecvInv, OnHttpReceive
  PROVE  Good
<1>1. DataStep
  <2>1. PICK n \in 1..TCP_MSS : Receives(n)
    BY DEF OnHttpReceive, Receives
  <2>2. n \in Nat
    BY RecvAssumption
  <2>3. QED
    BY <2>1, <2>2 DEF DataStep
<1>2. /\ UNCHANGED <<size, pos, rq, fin, given, log, astray, refused, why>>
      /\ pc' \in {"load", "wait"} /\ idle' = FALSE
  BY DEF OnHttpReceive, Proceed, history
<1>3. ControlTypes
  BY TypesSplit DEF RecvInv
<1>4. ControlTypes'
  BY <1>2, <1>3 DEF ControlTypes, Flags, Histories, Locals
<1>5. Parser'
  BY <1>2 DEF RecvInv, Parser
<1>6. QED
  BY <1>1, <1>4, <1>5 DEF Good

LEMMA QuietGood ==
  ASSUME RecvInv, Rests, pc' \in {"wait", "load", "exit"}, fin' \in BOOLEAN, idle' \in BOOLEAN,
         UNCHANGED <<size, pos, rq, given, log, astray, refused, why>>
  PROVE  Good
<1>1. ControlTypes
  BY TypesSplit DEF RecvInv
<1>2. ControlTypes'
  BY <1>1 DEF ControlTypes, Flags, Histories, Locals
<1>3. Parser'
  BY DEF RecvInv, Parser
<1>4. QED
  BY <1>2, <1>3 DEF Good, DataStep

LEMMA FinGood ==
  ASSUME RecvInv, OnHttpReceiveFin
  PROVE  Good
<1>1. CASE Close("fin")
  BY <1>1, CloseGood
<1>2. CASE ~Close("fin")
  <2>1. /\ Rests /\ pc' \in {"wait", "load"} /\ fin' = TRUE /\ idle' = FALSE
        /\ UNCHANGED <<size, pos, rq, given, log, astray, refused, why>>
    BY <1>2 DEF OnHttpReceiveFin, Rests, Proceed, history
  <2>2. QED
    BY <2>1, QuietGood
<1>3. QED
  BY <1>1, <1>2

LEMMA PollGood ==
  ASSUME RecvInv, OnHttpPoll
  PROVE  Good
<1>1. /\ Rests /\ pc' = "load" /\ fin' = fin /\ idle' = TRUE
      /\ UNCHANGED <<size, pos, rq, given, log, astray, refused, why>>
  BY DEF OnHttpPoll, Rests, history
<1>2. fin' \in BOOLEAN
  BY <1>1, TypesSplit DEF RecvInv, ControlTypes, Flags
<1>3. QED
  BY <1>1, <1>2, QuietGood

LEMMA RequestEndGood ==
  ASSUME RecvInv, RequestEnd
  PROVE  Good
<1>1. CASE Close("done")
  BY <1>1, CloseGood
<1>2. CASE ~Close("done")
  <2>1. /\ Rests /\ UNCHANGED <<pc, size, pos, fin, log, astray, refused, why>>
        /\ pc = "wait" /\ rq' = NoRequest /\ given' = <<>> /\ idle' = FALSE
    BY <1>2 DEF RequestEnd, Rests
  <2>2. NoRequest \in Requests /\ NoRequest.state = "IDLE" /\ <<>> \in Seq(Nat)
    BY EmptySeq, EmptyRequest
  <2>3. ControlTypes
    BY TypesSplit DEF RecvInv
  <2>4. ControlTypes'
    BY <2>1, <2>2, <2>3 DEF ControlTypes, Flags, Histories, Locals
  <2>5. Parser'
    BY <2>1, <2>2 DEF Parser
  <2>6. QED
    BY <2>1, <2>4, <2>5 DEF Good, DataStep
<1>3. QED
  BY <1>1, <1>2

LEMMA LoadGood ==
  ASSUME RecvInv, Load
  PROVE  Good
<1>1. Copies(Copied, FreedBy(Copied))
  BY DEF Load, Copies, Copied, FreedBy, net
<1>2. DataStep
  BY <1>1 DEF DataStep
<1>3. DataInv'
  BY <1>2, DataKept DEF RecvInv
<1>4. Len(buf') \in 0..MAX_REQ_BUF_SIZE
  BY <1>3, RecvAssumption, LenProperties DEF DataInv, DataTypes
<1>5. ControlTypes
  BY TypesSplit DEF RecvInv
<1>6. /\ size' = Len(buf') /\ pos' = 0
      /\ UNCHANGED <<fin, idle, given, log, astray, refused, why>>
  BY DEF Load, history
<1>7. \/ pc' = "exit" /\ rq' = rq
      \/ pc' = "lines" /\ rq' = [rq EXCEPT !.state = "HEADER"]
      \/ pc' = "chunk" /\ rq' = rq /\ rq.state = "CHUNK_LEN"
      \/ pc' = "body" /\ rq' = rq
  BY DEF Load
<1>8. rq' \in Requests /\ (rq'.state \in {"CHUNK_LEN", "CHUNK"} => rq'.chunked)
  <2>1. rq \in Requests /\ (rq.state \in {"CHUNK_LEN", "CHUNK"} => rq.chunked)
    BY <1>5 DEF ControlTypes, RecvInv, Parser
  <2>2. QED
    BY <1>7, <2>1 DEF Requests, RequestStates
<1>9. ControlTypes'
  BY <1>4, <1>5, <1>6, <1>7, <1>8, RecvAssumption DEF ControlTypes, Flags, Histories, Locals
<1>10. Parser'
  BY <1>4, <1>6, <1>7, <1>8 DEF Parser
<1>11. QED
  BY <1>2, <1>9, <1>10 DEF Good

LEMMA LinesDoneGood ==
  ASSUME RecvInv, LinesDone
  PROVE  Good
<1>1. /\ Rests /\ UNCHANGED <<buf, size, pos, rq, fin, idle, given, log, astray, refused, why>>
      /\ pc = "lines" /\ pc' = "shift"
  BY DEF LinesDone, Rests, history
<1>2. ControlTypes
  BY TypesSplit DEF RecvInv
<1>3. ControlTypes'
  BY <1>1, <1>2 DEF ControlTypes, Flags, Histories, Locals
<1>4. Parser'
  BY <1>1 DEF RecvInv, Parser
<1>5. QED
  BY <1>1, <1>3, <1>4 DEF Good, DataStep

(* A header line changes neither the state nor the types of the request. *)
LEMMA HeaderLineType ==
  ASSUME rq \in Requests, NEW w \in Tokens
  PROVE  HeaderLine(w) \in Requests /\ HeaderLine(w).state = rq.state
<1>1. w.n \in Nat
  BY DEF Tokens
<1>2. QED
  BY <1>1 DEF HeaderLine, Requests

LEMMA ParseLineGood ==
  ASSUME RecvInv, ParseLine
  PROVE  Good
<1> DEFINE e == Min(LineEnds)
           w == At(pos + 1)
<1>1. Rests /\ UNCHANGED <<buf, size, fin, idle, given, log, astray, refused, why>>
  BY DEF ParseLine, Rests, history
<1>2. ControlTypes
  BY TypesSplit DEF RecvInv
<1>3. pc = "lines" /\ LineEnds # {} /\ pos \in Nat /\ DataInv /\ pos <= Len(buf)
  BY <1>2, RecvAssumption DEF ParseLine, ControlTypes, Locals, RecvInv, Parser
<1>4. Len(buf) \in Nat /\ Len(buf) <= MAX_REQ_BUF_SIZE /\ MAX_REQ_BUF_SIZE \in Nat
  BY <1>3, Lengths
<1>5. e \in (pos + 1)..(Len(buf) - 1)
  BY <1>3, LineEndRange
<1>6. w \in Tokens
  <2>1. pos + 1 \in 1..Len(buf)
    BY <1>3, <1>4, <1>5
  <2>2. QED
    BY <1>3, <2>1, TokenAt
<1>7. pos' \in 0..MAX_REQ_BUF_SIZE /\ pos' <= Len(buf)
  <2>1. pos' = e + 1 \/ pos' = pos
    BY DEF ParseLine
  <2> HIDE DEF e
  <2>2. QED
    BY <1>3, <1>4, <1>5, <2>1
<1>8. pc' \in {"lines", "shift"}
  BY DEF ParseLine
<1>9. rq \in Requests /\ (rq.state \in {"CHUNK_LEN", "CHUNK"} => rq.chunked)
  BY <1>2 DEF ControlTypes, RecvInv, Parser
<1>10. rq' \in Requests /\ (rq'.state \in {"CHUNK_LEN", "CHUNK"} => rq'.chunked)
  <2>1. \/ rq' = [rq EXCEPT !.state = "HEADER_DONE",
                            !.result = IF rq.method = "none" THEN -500 ELSE @]
        \/ w.t \in Methods /\ rq' = [rq EXCEPT !.method = w.t, !.req = w.req]
        \/ rq' = [rq EXCEPT !.result = -500]
        \/ rq' = HeaderLine(w)
    BY DEF ParseLine
  <2> HIDE DEF w
  <2>2. CASE rq' = [rq EXCEPT !.state = "HEADER_DONE",
                              !.result = IF rq.method = "none" THEN -500 ELSE @]
    <3> DEFINE v == IF rq.method = "none" THEN -500 ELSE rq.result
    <3>1. v \in Results /\ "HEADER_DONE" \in RequestStates
      BY <1>9 DEF Requests, Results, RequestStates
    <3>2. rq' = [rq EXCEPT !.state = "HEADER_DONE", !.result = v]
      BY <1>9, <2>2 DEF Requests
    <3> HIDE DEF v
    <3>3. rq' \in Requests /\ rq'.state = "HEADER_DONE"
      BY <1>9, <3>1, <3>2, SetStateResult
    <3>4. QED
      BY <3>3
  <2>3. CASE w.t \in Methods /\ rq' = [rq EXCEPT !.method = w.t, !.req = w.req]
    <3>1. w.req \in Nat
      BY <1>6 DEF Tokens
    <3>2. QED
      BY <1>9, <2>3, <3>1, SetMethod
  <2>4. CASE rq' = [rq EXCEPT !.result = -500]
    <3>1. -500 \in Results
      BY DEF Results
    <3>2. QED
      BY <1>9, <2>4, <3>1, SetResult
  <2>5. CASE rq' = HeaderLine(w)
    <3>1. rq' \in Requests /\ rq'.state = rq.state
      BY <1>6, <1>9, <2>5, HeaderLineType
    <3>2. rq.chunked => rq'.chunked
      BY <1>9, <2>5 DEF HeaderLine, Requests
    <3>3. QED
      BY <1>9, <3>1, <3>2
  <2>6. QED
    BY <2>1, <2>2, <2>3, <2>4, <2>5
<1>11. ControlTypes'
  BY <1>1, <1>2, <1>7, <1>8, <1>10 DEF ControlTypes, Flags, Histories, Locals
<1>12. Parser'
  BY <1>1, <1>7, <1>8, <1>10 DEF Parser
<1>13. QED
  BY <1>1, <1>11, <1>12 DEF Good, DataStep

LEMMA ShiftGood ==
  ASSUME RecvInv, Shift
  PROVE  Good
<1> DEFINE n == IF Truncates THEN Len(buf) \div 2 ELSE pos
<1>1. /\ Consume(n) /\ size' = Len(buf) - n /\ astray' = (astray \/ Truncates)
      /\ UNCHANGED <<net, window, pos, rq, fin, idle, given, log, refused, why>>
      /\ pc' \in {"exit", "header", "load"}
  BY DEF Shift, SizeAfter
<1>2. ControlTypes
  BY TypesSplit DEF RecvInv
<1>3. pos \in Nat /\ DataInv /\ pos <= Len(buf)
  BY <1>2, RecvAssumption DEF Shift, ControlTypes, Locals, RecvInv, Parser
<1>4. Len(buf) \in Nat /\ Len(buf) <= MAX_REQ_BUF_SIZE /\ MAX_REQ_BUF_SIZE \in Nat
  BY <1>3, Lengths
<1>5. n \in 0..Len(buf)
  BY <1>3, <1>4
<1> HIDE DEF n
<1>6. Consumes(n) /\ n \in Nat
  BY <1>1, <1>4, <1>5 DEF Consumes
<1>7. DataStep
  BY <1>6 DEF DataStep
<1>8. size' \in 0..MAX_REQ_BUF_SIZE
  BY <1>1, <1>4, <1>5
<1>9. size' = Len(buf')
  BY <1>1, <1>3, <1>5, DropProperties DEF Consume, DataInv, DataTypes
<1>10. astray' \in BOOLEAN
  BY <1>1, <1>2 DEF ControlTypes, Flags, Truncates
<1>11. ControlTypes'
  BY <1>1, <1>2, <1>8, <1>10 DEF ControlTypes, Flags, Histories, Locals
<1>12. Parser'
  BY <1>1, <1>9 DEF RecvInv, Parser
<1>13. QED
  BY <1>7, <1>11, <1>12 DEF Good

LEMMA HeadersGood ==
  ASSUME RecvInv, HeadersReceived
  PROVE  Good
<1>1. /\ Rests /\ UNCHANGED <<buf, size, pos, fin, idle, given, refused, why>>
      /\ pc = "header" /\ pc' \in {"exit", "chunk", "body"}
  BY DEF HeadersReceived, Rests, history
<1>2. ControlTypes
  BY TypesSplit DEF RecvInv
<1>3. rq \in Requests /\ size = Len(buf)
  BY <1>1, <1>2 DEF ControlTypes, RecvInv, Parser
<1>4. astray' \in BOOLEAN
  BY <1>2 DEF HeadersReceived, HasBody, ControlTypes, Flags
<1>5. log' \in Seq([req : Nat, body : Seq(Nat)])
  <2>1. log \in Seq([req : Nat, body : Seq(Nat)])
    BY <1>2 DEF ControlTypes, Histories
  <2>2. [req |-> rq.req, body |-> <<>>] \in [req : Nat, body : Seq(Nat)]
    BY <1>3, EmptySeq DEF Requests
  <2>3. log' = log \/ log' = Append(log, [req |-> rq.req, body |-> <<>>])
    BY DEF HeadersReceived
  <2>4. Append(log, [req |-> rq.req, body |-> <<>>]) \in Seq([req : Nat, body : Seq(Nat)])
    <3> DEFINE S == [req : Nat, body : Seq(Nat)]
               x == [req |-> rq.req, body |-> <<>>]
    <3>1. log \in Seq(S) /\ x \in S
      BY <2>1, <2>2
    <3> HIDE DEF S, x
    <3>2. Append(log, x) \in Seq(S)
      BY <3>1, AppendProperties
    <3>3. QED
      BY <3>2 DEF S, x
  <2>5. QED
    BY <2>1, <2>3, <2>4
<1>6. rq' \in Requests /\ rq'.chunked = rq.chunked
  <2>1. \/ \E v \in {-307, -500} : rq' = [rq EXCEPT !.state = "SENDING", !.result = v]
        \/ \E v \in {"CHUNK_LEN", "BODY", "SENDING"} : rq' = [rq EXCEPT !.state = v]
    BY DEF HeadersReceived
  <2>2. /\ "SENDING" \in RequestStates /\ "CHUNK_LEN" \in RequestStates /\ "BODY" \in RequestStates
        /\ -307 \in Results /\ -500 \in Results
    BY DEF RequestStates, Results
  <2>3. CASE \E v \in {-307, -500} : rq' = [rq EXCEPT !.state = "SENDING", !.result = v]
    <3>1. PICK v \in Results : rq' = [rq EXCEPT !.state = "SENDING", !.result = v]
      BY <2>2, <2>3
    <3>2. QED
      BY <1>3, <2>2, <3>1 DEF Requests
  <2>4. CASE \E v \in {"CHUNK_LEN", "BODY", "SENDING"} : rq' = [rq EXCEPT !.state = v]
    BY <1>3, <2>2, <2>4, SetState
  <2>5. QED
    BY <2>1, <2>3, <2>4
<1>7. /\ rq'.state \in {"CHUNK_LEN", "CHUNK"} => rq.chunked
      /\ pc' = "chunk" => rq.chunked
  <2>1. /\ pc' = "chunk" => rq.chunked
        /\ \/ rq'.state = "SENDING"
           \/ rq'.state = "BODY"
           \/ rq.chunked
    BY <1>3 DEF HeadersReceived, Requests
  <2>2. QED
    BY <2>1
<1>8. ControlTypes'
  BY <1>1, <1>2, <1>4, <1>5, <1>6 DEF ControlTypes, Flags, Histories, Locals
<1>9. Parser'
  BY <1>1, <1>3, <1>6, <1>7 DEF Parser
<1>10. QED
  BY <1>1, <1>8, <1>9 DEF Good, DataStep

(* atol() never gives a negative length. *)
LEMMA AtolIsNat ==
  ASSUME NEW n \in Nat
  PROVE  Atol(n) \in Nat
<1>1. n \div 16 \in Nat /\ n % 16 \in Nat
  OBVIOUS
<1>2. \A h \in 1..9, l \in Nat : 10 * h + l \in Nat /\ h \in Nat
  OBVIOUS
<1>3. QED
  BY <1>1, <1>2 DEF Atol

LEMMA ChunkLengthGood ==
  ASSUME RecvInv, ChunkLength
  PROVE  Good
<1> DEFINE e == Min(SizeEnds)
           n == IF e > 1 /\ At(1).t = "SIZE" THEN Atol(At(1).n) ELSE 0
<1>1. /\ UNCHANGED <<net, window, size, pos, fin, idle, given, log, astray, why>>
      /\ pc = "chunk"
  BY DEF ChunkLength
<1>2. ControlTypes
  BY TypesSplit DEF RecvInv
<1>3. rq \in Requests /\ DataInv /\ rq.chunked
  BY <1>1, <1>2 DEF ControlTypes, RecvInv, Parser
<1>4. CASE /\ SizeEnds # {}
           /\ rq' = [rq EXCEPT !.state = "CHUNK", !.length = n + 2, !.received = 0]
           /\ Consume(e + 1)
           /\ pc' = "body" /\ refused' = refused
  <2>1. e \in 1..(Len(buf) - 1) /\ Len(buf) \in Nat
    BY <1>3, <1>4, SizeEndRange, Lengths
  <2>2. n \in Nat
    <3>1. 1 \in 1..Len(buf)
      BY <2>1
    <3>2. At(1).n \in Nat
      BY <1>3, <3>1, TokenAt DEF Tokens
    <3>3. Atol(At(1).n) \in Nat
      BY <3>2, AtolIsNat
    <3>4. QED
      BY <3>3
  <2> HIDE DEF e, n
  <2>3. Consumes(e + 1) /\ e + 1 \in Nat
    BY <1>1, <1>4, <2>1 DEF Consumes
  <2>4. rq' \in Requests /\ rq'.chunked
    <3>1. "CHUNK" \in RequestStates /\ n + 2 \in Nat
      BY <2>2 DEF RequestStates
    <3> DEFINE l == n + 2
    <3>2. rq' = [rq EXCEPT !.state = "CHUNK", !.length = l, !.received = 0] /\ l \in Nat
      BY <1>4, <3>1
    <3> HIDE DEF l
    <3>3. QED
      BY <1>3, <3>1, <3>2 DEF Requests
  <2>5. DataStep
    BY <2>3 DEF DataStep
  <2>6. ControlTypes'
    BY <1>1, <1>2, <1>4, <2>4 DEF ControlTypes, Flags, Histories, Locals
  <2>7. Parser'
    BY <1>4, <2>4 DEF Parser
  <2>8. QED
    BY <2>5, <2>6, <2>7 DEF Good
<1>5. CASE pc' = "exit" /\ refused' = TRUE /\ UNCHANGED <<rq, buf, taken>>
  <2>1. DataStep
    BY <1>1, <1>5 DEF DataStep, Rests
  <2>2. ControlTypes'
    BY <1>1, <1>2, <1>5 DEF ControlTypes, Flags, Histories, Locals
  <2>3. Parser'
    BY <1>3, <1>5 DEF Parser
  <2>4. QED
    BY <2>1, <2>2, <2>3 DEF Good
<1>6. QED
  BY <1>4, <1>5 DEF ChunkLength

(* The handler is never given more than it is offered. *)
LEMMA TakesRange ==
  ASSUME NEW m, NEW offered \in Nat, NEW open \in Int, NEW k \in Takes(m, offered, open)
  PROVE  k \in Int /\ k <= offered
<1>1. Min({offered, open}) \in {offered, open} /\ Min({offered, open}) <= offered
  BY MinOfTwo
<1> DEFINE l == Min({offered, open})
<1>2. l \in Int /\ l <= offered
  BY <1>1
<1>3. k \in {0, l} \cup (0..l) \cup {offered}
  BY DEF Takes
<1> HIDE DEF l
<1>4. QED
  BY <1>2, <1>3

(* Consuming a body keeps the types, and reaches chunks only when chunked. *)
LEMMA AfterBodyType ==
  ASSUME rq \in Requests, rq.state \in {"CHUNK_LEN", "CHUNK"} => rq.chunked,
         NEW k \in Nat
  PROVE  /\ AfterBody(k) \in Requests
         /\ AfterBody(k).chunked = rq.chunked
         /\ AfterBody(k).state \in {"CHUNK_LEN", "CHUNK"} => rq.chunked
<1>1. rq.received \in Nat /\ rq.received + k \in Nat
  BY DEF Requests
<1>2. CASE rq.received + k < rq.length
  <2>1. AfterBody(k) = [rq EXCEPT !.received = rq.received + k]
    BY <1>2 DEF AfterBody
  <2>2. QED
    BY <1>1, <2>1, SetReceived
<1>3. CASE ~(rq.received + k < rq.length)
  <2>1. \/ rq.chunked /\ AfterBody(k) = [rq EXCEPT !.state = "CHUNK_LEN", !.length = 0, !.received = 0]
        \/ AfterBody(k) = [rq EXCEPT !.state = "SENDING"]
    BY <1>3 DEF AfterBody
  <2>2. "SENDING" \in RequestStates /\ "CHUNK_LEN" \in RequestStates
    BY DEF RequestStates
  <2>3. CASE AfterBody(k) = [rq EXCEPT !.state = "SENDING"]
    BY <2>2, <2>3, SetState
  <2>4. CASE rq.chunked /\ AfterBody(k) = [rq EXCEPT !.state = "CHUNK_LEN", !.length = 0, !.received = 0]
    <3> DEFINE z == 0
    <3>1. z \in Nat /\ AfterBody(k) = [rq EXCEPT !.state = "CHUNK_LEN", !.length = z, !.received = z]
      BY <2>4
    <3> HIDE DEF z
    <3>2. AfterBody(k) \in Requests
      BY <2>2, <3>1 DEF Requests
    <3>3. AfterBody(k).chunked = rq.chunked
      BY <3>1 DEF Requests
    <3>4. QED
      BY <2>4, <3>2, <3>3
  <2>5. QED
    BY <2>1, <2>3, <2>4
<1>4. QED
  BY <1>2, <1>3

LEMMA ContentGood ==
  ASSUME RecvInv, ContentReceived
  PROVE  Good
<1>1. PICK k \in Takes(rq.method, size, rq.length - rq.received) :
       \/ /\ k = 0
          /\ pc' = "exit"
          /\ refused' = (size > 0)
          /\ UNCHANGED <<rq, buf, taken, given, log, astray, idle>>
       \/ /\ k > 0 /\ k <= Len(buf)
          /\ Consume(k)
          /\ rq' = AfterBody(k)
          /\ given' = given \o SubSeq(buf, 1, k)
          /\ log' = IF rq'.state # "SENDING" THEN log
                    ELSE Append(log, [req |-> rq.req, body |-> given'])
          /\ astray' = (astray \/ (rq.method = "AUTH" /\ rq.received + k > rq.length))
          /\ refused' = FALSE /\ idle' = FALSE
          /\ pc' = IF rq'.state = "SENDING" \/ chain = <<>> THEN "exit" ELSE "load"
       \/ /\ k > Len(buf)
          /\ pc' = "undefined"
          /\ UNCHANGED <<rq, buf, taken, given, log, astray, refused, idle>>
  BY DEF ContentReceived
<1>2. UNCHANGED <<net, window, size, pos, fin, why>> /\ pc = "body"
  BY DEF ContentReceived
<1>3. ControlTypes
  BY TypesSplit DEF RecvInv
<1>4. /\ rq \in Requests /\ DataInv /\ (rq.state \in {"CHUNK_LEN", "CHUNK"} => rq.chunked)
      /\ (~rq.chunked => size = Len(buf))
  BY <1>2, <1>3 DEF ControlTypes, RecvInv, Parser
<1>5. Len(buf) \in Nat /\ buf \in Seq(Nat) /\ size \in Nat
  BY <1>3, <1>4, Lengths, RecvAssumption DEF ControlTypes, Locals, DataInv, DataTypes
<1>6. k \in Int /\ k <= size
  <2>1. rq.length - rq.received \in Int
    BY <1>4 DEF Requests
  <2>2. QED
    BY <1>5, <2>1, TakesRange
<1>7. CASE k = 0
  <2>1. /\ pc' = "exit" /\ refused' = (size > 0)
        /\ UNCHANGED <<rq, buf, taken, given, log, astray, idle>>
    BY <1>1, <1>5, <1>7
  <2>2. DataStep
    BY <1>2, <2>1 DEF DataStep, Rests
  <2>3. ControlTypes'
    BY <1>2, <1>3, <2>1 DEF ControlTypes, Flags, Histories, Locals
  <2>4. Parser'
    BY <1>4, <2>1 DEF Parser
  <2>5. QED
    BY <2>2, <2>3, <2>4 DEF Good
<1>8. CASE k > 0 /\ k <= Len(buf)
  <2>1. /\ Consume(k)
        /\ rq' = AfterBody(k)
        /\ given' = given \o SubSeq(buf, 1, k)
        /\ log' = IF rq'.state # "SENDING" THEN log
                  ELSE Append(log, [req |-> rq.req, body |-> given'])
        /\ astray' = (astray \/ (rq.method = "AUTH" /\ rq.received + k > rq.length))
        /\ refused' = FALSE /\ idle' = FALSE
        /\ pc' \in {"exit", "load"}
    BY <1>1, <1>5, <1>6, <1>8
  <2>2. k \in Nat /\ Consumes(k)
    BY <1>2, <1>5, <1>6, <1>8, <2>1 DEF Consumes
  <2>3. DataStep
    BY <2>2 DEF DataStep
  <2>4. /\ rq' \in Requests /\ rq'.chunked = rq.chunked
        /\ (rq'.state \in {"CHUNK_LEN", "CHUNK"} => rq'.chunked)
    BY <1>4, <2>1, <2>2, AfterBodyType
  <2>5. given' \in Seq(Nat)
    <3>1. \A i \in 1..k : buf[i] \in Nat
      BY <1>5, <1>6, <1>8, ElementOfSeq
    <3>2. SubSeq(buf, 1, k) \in Seq(Nat)
      BY <1>6, <3>1, SubSeqProperties
    <3>3. given \in Seq(Nat)
      BY <1>3 DEF ControlTypes, Histories
    <3>4. QED
      BY <2>1, <3>2, <3>3, ConcatProperties
  <2>6. log' \in Seq([req : Nat, body : Seq(Nat)])
    <3>1. log \in Seq([req : Nat, body : Seq(Nat)])
      BY <1>3 DEF ControlTypes, Histories
    <3>2. [req |-> rq.req, body |-> given'] \in [req : Nat, body : Seq(Nat)]
      BY <1>4, <2>5 DEF Requests
    <3>3. log' = log \/ log' = Append(log, [req |-> rq.req, body |-> given'])
      BY <2>1
    <3>4. Append(log, [req |-> rq.req, body |-> given']) \in Seq([req : Nat, body : Seq(Nat)])
      <4> DEFINE S == [req : Nat, body : Seq(Nat)]
                 x == [req |-> rq.req, body |-> given']
      <4>1. log \in Seq(S) /\ x \in S
        BY <3>1, <3>2
      <4> HIDE DEF S, x
      <4>2. Append(log, x) \in Seq(S)
        BY <4>1, AppendProperties
      <4>3. QED
        BY <4>2 DEF S, x
    <3>5. QED
      BY <3>1, <3>3, <3>4
  <2>7. astray' \in BOOLEAN
    BY <1>3, <2>1 DEF ControlTypes, Flags
  <2>8. ControlTypes'
    BY <1>2, <1>3, <2>1, <2>4, <2>5, <2>6, <2>7 DEF ControlTypes, Flags, Histories, Locals
  <2>9. Parser'
    BY <2>1, <2>4 DEF Parser
  <2>10. QED
    BY <2>3, <2>8, <2>9 DEF Good
<1>9. CASE k > Len(buf)
  <2>1. pc' = "undefined" /\ UNCHANGED <<rq, buf, taken, given, log, astray, refused, idle>>
    BY <1>1, <1>5, <1>6, <1>9
  <2>2. rq.chunked
    BY <1>4, <1>5, <1>6, <1>9
  <2>3. DataStep
    BY <1>2, <2>1 DEF DataStep, Rests
  <2>4. ControlTypes'
    BY <1>2, <1>3, <2>1 DEF ControlTypes, Flags, Histories, Locals
  <2>5. Parser'
    BY <2>1, <2>2 DEF Parser
  <2>6. QED
    BY <2>3, <2>4, <2>5 DEF Good
<1>10. QED
  BY <1>1, <1>7, <1>8, <1>9

LEMMA ReturnGood ==
  ASSUME RecvInv, Return
  PROVE  Good
<1>1. CASE Close("bad") \/ Close("fin")
  BY <1>1, CloseGood
<1>2. CASE ~(Close("bad") \/ Close("fin"))
  <2>1. /\ Rests /\ pc' = "wait" /\ fin' = fin /\ idle' = idle
        /\ UNCHANGED <<size, pos, rq, given, log, astray, refused, why>>
    BY <1>2 DEF Return, Rests, history
  <2>2. fin' \in BOOLEAN /\ idle' \in BOOLEAN
    BY <2>1, TypesSplit DEF RecvInv, ControlTypes, Flags
  <2>3. QED
    BY <2>1, <2>2, QuietGood
<1>3. QED
  BY <1>1, <1>2

LEMMA TimeoutGood ==
  ASSUME RecvInv, Timeout
  PROVE  Good
BY CloseGood DEF Timeout

(* Every step of the connection is a good one. *)
LEMMA NextGood ==
  ASSUME RecvInv, Next
  PROVE  Good
BY ReceiveGood, FinGood, PollGood, TimeoutGood, RequestEndGood, LoadGood, ParseLineGood,
   LinesDoneGood, ShiftGood, HeadersGood, ChunkLengthGood, ContentGood, ReturnGood
   DEF Next, Callback, HttpRequestProc

-----------------------------------------------------------------------------
(* A new connection satisfies the invariant. *)
LEMMA RecvInit == Init => RecvInv
<1> SUFFICES ASSUME Init PROVE RecvInv
  OBVIOUS
<1>1. /\ stream \in Streams /\ sent = 0 /\ wnd = TCP_WND /\ buf = <<>> /\ chain = <<>>
      /\ cuts = {} /\ off = 0 /\ taken = 0 /\ Len(buf) = 0 /\ Len(chain) = 0
      /\ buf \in Seq(Nat) /\ chain \in Seq(Nat)
  BY EmptySeq DEF Init
<1>2. Len(stream) \in Nat
  BY <1>1, RecvAssumption, LenProperties
<1>3. DataTypes
  BY <1>1, <1>2, RecvAssumption DEF DataTypes
<1>4. Content /\ Chain
  BY <1>1, RecvAssumption DEF Content, Chain, WindowIsWhole
<1>5. rq \in Requests /\ rq.state = "IDLE" /\ pc = "wait"
  BY EmptyRequest DEF Init
<1>6. Histories
  BY EmptySeq DEF Init, Histories
<1>7. Flags /\ Locals
  <2>1. Flags
    BY DEF Init, Flags
  <2>2. Locals
    BY RecvAssumption DEF Init, Locals
  <2>3. QED
    BY <2>1, <2>2
<1>8. Parser
  BY <1>5 DEF Parser
<1>9. QED
  BY <1>3, <1>4, <1>5, <1>6, <1>7, <1>8, TypesSplit DEF RecvInv, DataInv, ControlTypes

LEMMA RecvStep == RecvInv /\ [Next]_vars => RecvInv'
<1> SUFFICES ASSUME RecvInv, [Next]_vars PROVE RecvInv'
  OBVIOUS
<1>1. CASE Next
  <2>1. Good
    BY <1>1, NextGood
  <2>2. DataInv'
    BY <2>1, DataKept DEF Good, RecvInv
  <2>3. TypeOK'
    BY <2>1, <2>2, TypesSplitNext DEF Good, DataInv
  <2>4. QED
    BY <2>1, <2>2, <2>3 DEF Good, RecvInv
<1>2. CASE UNCHANGED vars
  <2>1. Rests /\ UNCHANGED <<pc, size, pos, rq, fin, idle, given, log, astray, refused, why>>
    BY <1>2 DEF vars, Rests, history
  <2>2. DataInv'
    BY <2>1, DataKept DEF DataStep, RecvInv
  <2>3. ControlTypes
    BY TypesSplit DEF RecvInv
  <2>4. ControlTypes'
    BY <2>1, <2>3 DEF ControlTypes, Flags, Histories, Locals
  <2>5. Parser'
    BY <2>1 DEF RecvInv, Rests, Parser
  <2>6. QED
    BY <2>2, <2>4, <2>5, TypesSplitNext DEF RecvInv, DataInv
<1>3. QED
  BY <1>1, <1>2

(* The invariant holds in every reachable state. *)
LEMMA RecvInvariant == Spec => []RecvInv
<1>1. QED
  BY RecvInit, RecvStep, PTL DEF Spec

-----------------------------------------------------------------------------
(***************************************************************************)
(* TypeOK for every size of buffer and window: http_request_buffer never   *)
(* holds more than max_level bytes, and the window is never overdrawn.     *)
(***************************************************************************)
THEOREM RecvTypeCorrect == Spec => []TypeOK
<1>1. RecvInv => TypeOK
  BY DEF RecvInv
<1>2. QED
  BY <1>1, RecvInvariant, PTL

(* In the buffer and the chain, the bytes are the ones that arrived, in order. *)
LEMMA InvOrders ==
  ASSUME RecvInv
  PROVE  BytesInOrder
<1> DEFINE d == Drop(chain, off)
           w == [i \in 1..(sent - taken) |-> taken + i]
<1>1. /\ Len(buf) \in Nat /\ Len(chain) \in Nat /\ off \in Nat /\ taken \in Nat /\ sent \in Nat
      /\ off <= Len(chain) /\ sent = taken + Len(buf) + Len(chain) - off
  BY Lengths DEF RecvInv
<1>2. buf \in Seq(Nat) /\ chain \in Seq(Nat) /\ off \in 0..Len(chain)
  BY <1>1 DEF RecvInv, DataInv, DataTypes
<1>3. /\ d \in Seq(Nat) /\ Len(d) = Len(chain) - off
      /\ \A i \in 1..(Len(chain) - off) : d[i] = chain[off + i]
  BY <1>2, DropProperties
<1>4. sent - taken \in Nat /\ sent - taken = Len(buf) + (Len(chain) - off)
  BY <1>1
<1>5. w \in Seq(Nat) /\ Len(w) = sent - taken /\ \A i \in 1..(sent - taken) : w[i] = taken + i
  BY <1>1, <1>4
<1> HIDE DEF d, w
<1>6. /\ buf \o d \in Seq(Nat) /\ Len(buf \o d) = Len(buf) + Len(d)
      /\ \A i \in 1..(Len(buf) + Len(d)) :
           (buf \o d)[i] = IF i <= Len(buf) THEN buf[i] ELSE d[i - Len(buf)]
  BY <1>2, <1>3, ConcatProperties
<1>7. ASSUME NEW i \in 1..(sent - taken) PROVE (buf \o d)[i] = taken + i
  <2>1. i \in 1..(Len(buf) + Len(d))
    BY <1>3, <1>4
  <2>2. CASE i <= Len(buf)
    <3>1. (buf \o d)[i] = buf[i] /\ i \in 1..Len(buf)
      BY <1>1, <1>6, <2>1, <2>2
    <3>2. QED
      BY <3>1 DEF RecvInv, DataInv, Content
  <2>3. CASE ~(i <= Len(buf))
    <3>1. i - Len(buf) \in 1..(Len(chain) - off)
      BY <1>1, <1>4, <2>3
    <3>2. (buf \o d)[i] = chain[off + (i - Len(buf))]
      BY <1>3, <1>6, <2>1, <2>3, <3>1
    <3>3. off + (i - Len(buf)) \in 1..Len(chain)
      BY <1>1, <3>1
    <3>4. chain[off + (i - Len(buf))] = taken + Len(buf) - off + (off + (i - Len(buf)))
      BY <3>3 DEF RecvInv, DataInv, Content
    <3>5. QED
      BY <1>1, <3>2, <3>4
  <2>4. QED
    BY <2>2, <2>3
<1>8. Len(buf \o d) = Len(w)
  BY <1>3, <1>4, <1>5, <1>6
<1>9. \A i \in 1..Len(w) : (buf \o d)[i] = w[i]
  BY <1>5, <1>7
<1>10. buf \o d = w
  BY <1>5, <1>6, <1>8, <1>9, SeqEqual
<1>11. QED
  BY <1>10 DEF BytesInOrder, Waiting, d, w

(***************************************************************************)
(* BytesInOrder for every stream: no order of segments, pbufs, polls and   *)
(* parsing steps loses, repeats or swaps a received byte.                  *)
(***************************************************************************)
THEOREM BytesStayInOrder == Spec => []BytesInOrder
<1>1. RecvInv => BytesInOrder
  BY InvOrders
<1>2. QED
  BY <1>1, RecvInvariant, PTL

(***************************************************************************)
(* WindowIsWhole: altcp_recved() is called for each byte exactly once, and *)
(* the offset never passes the end of a pbuf that is still in the chain.   *)
(***************************************************************************)
THEOREM WindowStaysWhole == Spec => []WindowIsWhole
<1>1. RecvInv => WindowIsWhole
  BY DEF RecvInv, DataInv, Chain
<1>2. QED
  BY <1>1, RecvInvariant, PTL

(***************************************************************************)
(* OnlyChunksOverdraw: without chunked encoding request_length never       *)
(* becomes negative, whatever the handler takes.                           *)
(***************************************************************************)
THEOREM PlainBodiesNeverOverdraw == Spec => []OnlyChunksOverdraw
<1>1. RecvInv => OnlyChunksOverdraw
  BY DEF RecvInv, Parser, OnlyChunksOverdraw
<1>2. QED
  BY <1>1, RecvInvariant, PTL

-----------------------------------------------------------------------------
(* The refinement: each step of the bytes is a step of the flow control. *)
LEMMA FlowInit == Init => Flow!Init
<1> SUFFICES ASSUME Init PROVE Flow!Init
  OBVIOUS
<1>1. sent = 0 /\ wnd = TCP_WND /\ taken = 0
  BY DEF Init
<1>2. QED
  BY <1>1, RecvAssumption DEF Flow!Init

LEMMA FlowStep ==
  ASSUME DataInv, DataInv', DataStep
  PROVE  [Flow!Next]_(Flow!vars)
<1>1. /\ sent \in Nat /\ wnd \in Nat /\ taken \in Nat /\ MAX_REQ_BUF_SIZE \in Nat /\ TCP_WND \in Nat
      /\ Len(buf) \in Nat
  BY Lengths
<1>2. /\ sent' \in Nat /\ wnd' \in Nat /\ taken' \in Nat
      /\ sent' + wnd' - taken' <= TCP_WND + MAX_REQ_BUF_SIZE
      /\ wnd' <= TCP_WND /\ taken' <= sent'
  <2>1. /\ Len(buf') \in Nat /\ Len(chain') \in Nat /\ off' \in Nat /\ taken' \in Nat
        /\ Len(buf') <= MAX_REQ_BUF_SIZE /\ off' <= Len(chain')
        /\ wnd' + Len(chain') = TCP_WND /\ wnd' \in 0..TCP_WND
        /\ sent' = taken' + Len(buf') + Len(chain') - off'
    BY LenProperties, RecvAssumption DEF DataInv, DataTypes, Content, Chain, WindowIsWhole
  <2>2. wnd' \in Nat /\ wnd' <= TCP_WND
    BY <1>1, <2>1
  <2>3. sent' \in Nat /\ taken' <= sent'
    BY <2>1
  <2>4. sent' + wnd' - taken' <= TCP_WND + MAX_REQ_BUF_SIZE
    <3>1. \A b, c, o, t, s, w, W, M \in Nat :
            b <= M /\ w + c = W /\ s = t + b + c - o => s + w - t <= W + M
      OBVIOUS
    <3>2. QED
      BY <1>1, <2>1, <2>2, <2>3, <3>1, Zenon
  <2>5. QED
    BY <2>1, <2>2, <2>3, <2>4
<1>3. Flow!Storable((sent + wnd)', taken')
  BY <1>2 DEF Flow!Storable
<1>4. ASSUME NEW n \in Nat, Receives(n) PROVE Flow!Next
  <2>1. n > 0 /\ n <= wnd /\ sent' = sent + n /\ taken' = taken
    BY <1>1, <1>4, RecvAssumption DEF Receives
  <2>2. wnd' = wnd \/ wnd' = wnd - n
    <3> DEFINE p == [i \in 1..n |-> sent + i]
    <3>1. PICK ends \in SUBSET (1..n) : Enqueue(p, ends)
      BY <1>4 DEF Receives
    <3>2. Len(p) = n
      OBVIOUS
    <3> HIDE DEF p
    <3>3. QED
      BY <3>1, <3>2 DEF Enqueue, window
  <2>3. /\ sent' > sent /\ sent' <= sent + wnd
        /\ (sent + wnd)' \in {sent + wnd, sent + wnd + (sent' - sent)}
    BY <1>1, <2>1, <2>2
  <2>4. Flow!Arrive
    BY <2>1, <2>3 DEF Flow!Arrive
  <2>5. QED
    BY <1>3, <2>4 DEF Flow!Next
<1>5. ASSUME Copies(Copied, FreedBy(Copied)) PROVE [Flow!Next]_(Flow!vars)
  <2>1. FreedBy(Copied) \in Nat
    <3>1. Copied \in Nat /\ off \in Nat /\ FreedBy(Copied) \in 0..(off + Copied)
      BY CopiedAndFreed, Lengths
    <3>2. QED
      BY <3>1
  <2>2. wnd' = wnd + FreedBy(Copied) /\ sent' = sent /\ taken' = taken
    BY <1>5 DEF Copies, Freed, net
  <2>3. CASE FreedBy(Copied) = 0
    BY <1>1, <2>2, <2>3 DEF Flow!vars
  <2>4. CASE FreedBy(Copied) > 0
    <3>1. (sent + wnd)' > sent + wnd /\ (sent + wnd)' - sent <= TCP_WND
      BY <1>1, <1>2, <2>1, <2>2, <2>4
    <3>2. Flow!Grant
      BY <2>2, <3>1 DEF Flow!Grant
    <3>3. QED
      BY <1>3, <3>2 DEF Flow!Next
  <2>5. QED
    BY <2>1, <2>3, <2>4
<1>6. ASSUME NEW n \in Nat, Consumes(n) PROVE [Flow!Next]_(Flow!vars)
  <2>1. taken' = taken + n /\ sent' = sent /\ wnd' = wnd
    BY <1>6 DEF Consumes, Consume, net, window
  <2>2. CASE n = 0
    BY <1>1, <2>1, <2>2 DEF Flow!vars
  <2>3. CASE n > 0
    <3>1. taken' > taken /\ taken' <= sent
      BY <1>1, <1>2, <2>1, <2>3
    <3>2. Flow!Take
      BY <2>1, <3>1 DEF Flow!Take
    <3>3. QED
      BY <1>3, <3>2 DEF Flow!Next
  <2>4. QED
    BY <2>2, <2>3
<1>7. CASE Rests
  BY <1>7 DEF Rests, net, window, Flow!vars
<1>8. QED
  BY <1>4, <1>5, <1>6, <1>7 DEF DataStep

(***************************************************************************)
(* FlowIsControlled: OnHttpReceive and HttpRequestProc implement the flow  *)
(* control of FlowControl for every size of buffer and window.             *)
(***************************************************************************)
THEOREM RecvImplementsFlowControl == Spec => FlowIsControlled
<1>1. RecvInv /\ RecvInv' /\ [Next]_vars => [Flow!Next]_(Flow!vars)
  <2> SUFFICES ASSUME RecvInv, RecvInv', [Next]_vars PROVE [Flow!Next]_(Flow!vars)
    OBVIOUS
  <2>1. CASE Next
    BY <2>1, NextGood, FlowStep DEF Good, RecvInv
  <2>2. CASE UNCHANGED vars
    BY <2>2 DEF vars, net, window, Flow!vars
  <2>3. QED
    BY <2>1, <2>2
<1>2. QED
  BY <1>1, FlowInit, RecvInvariant, PTL DEF Spec, FlowIsControlled, Flow!Spec

-----------------------------------------------------------------------------
(***************************************************************************)
(* The bodies.  How far the parser came: while it reads lines, pos counts. *)
(***************************************************************************)
Point == IF pc \in {"lines", "shift"} THEN taken + pos ELSE taken

(* Requests end at p: what is behind it belongs to later ones. *)
Boundary(p) ==
  \A i \in 1..p, j \in (p + 1)..Len(stream) : stream[i].req < stream[j].req

(* The requests that were logged began within the first p bytes. *)
Older(p) ==
  \A j \in 1..Len(log) : \E i \in 1..p : log[j].req = stream[i].req

(* What the lines up to p of the header that begins at f said is known. *)
Told(f, p, d) ==
  /\ rq.length \in {0, d}
  /\ \A i \in (f + 2)..p : Begins(stream, i, "LENGTH") => rq.length = d
  /\ \A i \in (f + 2)..p : Begins(stream, i, "CHUNKED") => rq.chunked

(* No request is under way. *)
Between ==
  /\ rq.state \in {"IDLE", "HEADER"} /\ rq.method = "none"
  /\ ~rq.chunked /\ rq.length = 0 /\ rq.received = 0 /\ given = <<>>
  /\ Boundary(Point) /\ Older(Point)

(* In the header f..h, in front of a line. *)
InHeader(f, h, d) ==
  /\ rq.state = "HEADER" /\ rq.received = 0 /\ given = <<>>
  /\ Point \in (f + 1)..(h - 1) /\ EndsLine(stream, Point)
  /\ Told(f, Point, d)

(* Behind the header f..h. *)
HeaderRead(f, h, d) ==
  /\ rq.state = "HEADER_DONE" /\ rq.received = 0 /\ given = <<>>
  /\ Point = h
  /\ Told(f, h, d)

(* s consists of the bytes that follow h. *)
Follows(s, h) == \A i \in 1..Len(s) : s[i] = h + i

(* In the body of length d that follows h. *)
InBody(h, d) ==
  /\ rq.state = "BODY" /\ ~rq.chunked
  /\ rq.length = d /\ rq.received < d
  /\ taken = h + rq.received
  /\ Len(given) = rq.received /\ Follows(given, h)
  /\ \A i \in (h + 1)..(h + d) : stream[i].t = "b"

Within ==
  \E f, h, d \in 0..Len(stream) :
    /\ f > 0 /\ rq.method # "none" /\ rq.req = stream[f].req
    /\ InHeader(f, h, d) \/ HeaderRead(f, h, d) \/ InBody(h, d)
    /\ Framed(stream, f, h, d) /\ Older(f - 1)

(* The request was read to its end and is being answered. *)
Answering == rq.state = "SENDING" /\ Boundary(taken) /\ Older(taken)

(* Where the loop may be, for a state of the request. *)
Control ==
  /\ pc = "lines" => rq.state = "HEADER" /\ rq.result = 0
  /\ pc = "shift" => rq.state \in {"HEADER", "HEADER_DONE"}
  /\ pc = "header" => rq.state = "HEADER_DONE" /\ rq.result = 0
  /\ pc = "body" => rq.state \in {"BODY", "CHUNK"}
  /\ pc = "chunk" => rq.state = "CHUNK_LEN"
  /\ pc = "load" => rq.state \notin {"SENDING", "HEADER_DONE"}
  /\ rq.state = "HEADER_DONE" => pc \in {"shift", "header"} \/ rq.result = -500
  /\ rq.result = -500 => pc \in {"shift", "exit", "closed"}
  /\ rq.result = -307 => rq.state = "SENDING"

BodyInv ==
  /\ Control
  /\ BodiesAreExact
  /\ ~astray /\ rq.result # -500 => Between \/ Within \/ Answering

-----------------------------------------------------------------------------
(* The lines of a header. *)

(***************************************************************************)
(* The line that ParseLine finds behind pos: no line of the stream ends    *)
(* between its beginning and its end.                                      *)
(***************************************************************************)
LEMMA LineFound ==
  ASSUME DataInv, pos \in Nat, LineEnds # {}, NEW q, q = taken + pos,
         NEW e, e = taken + Min(LineEnds) + 1
  PROVE  /\ q \in Nat /\ e \in (q + 2)..Len(stream)
         /\ EndsLine(stream, e)
         /\ \A p \in (q + 2)..(e - 1) : ~EndsLine(stream, p)
<1> DEFINE m == Min(LineEnds)
<1>1. /\ Len(buf) \in Nat /\ Len(chain) \in Nat /\ off \in Nat /\ taken \in Nat /\ sent \in Nat
      /\ off <= Len(chain) /\ sent = taken + Len(buf) + Len(chain) - off
      /\ Len(stream) \in Nat /\ sent <= Len(stream)
  BY Lengths, StreamTokens
<1>2. m \in (pos + 1)..(Len(buf) - 1)
  BY LineEndRange
<1>3. m \in LineEnds /\ \A i \in LineEnds : m <= i
  <2>1. LineEnds \in SUBSET Nat
    BY <1>1 DEF LineEnds
  <2>2. QED
    BY <2>1, MinIsLeast
<1>4. \A i \in 1..Len(buf) : buf[i] = taken + i
  BY DEF DataInv, Content
<1>5. q \in Nat /\ e \in (q + 2)..Len(stream)
  BY <1>1, <1>2
<1>6. EndsLine(stream, e)
  <2>1. buf[m] = e - 1 /\ buf[m + 1] = e
    <3>1. m \in 1..Len(buf) /\ m + 1 \in 1..Len(buf)
      BY <1>1, <1>2
    <3>2. buf[m] = taken + m /\ buf[m + 1] = taken + (m + 1)
      BY <1>4, <3>1
    <3>3. taken + m = e - 1 /\ taken + (m + 1) = e
      BY <1>1, <1>2
    <3>4. QED
      BY <3>2, <3>3
  <2>2. At(m).t = "CR" /\ At(m + 1).t = "LF"
    BY <1>3 DEF LineEnds
  <2>3. QED
    BY <2>1, <2>2 DEF At, EndsLine
<1>7. ASSUME NEW p \in (q + 2)..(e - 1), EndsLine(stream, p) PROVE FALSE
  <2> DEFINE i == p - 1 - taken
  <2>1. i \in (pos + 1)..(Len(buf) - 1) /\ i < m /\ i + 1 \in 1..Len(buf) /\ i \in 1..Len(buf)
    <3>1. m \in Int /\ p \in Int /\ i \in Int /\ taken + pos + 2 <= p /\ p <= taken + m
      BY <1>1, <1>2, <1>5
    <3>2. pos + 1 <= i /\ i < m /\ m <= Len(buf) - 1
      BY <1>1, <1>2, <3>1
    <3>3. QED
      BY <1>1, <3>1, <3>2
  <2>2. buf[i] = p - 1 /\ buf[i + 1] = p
    <3>1. buf[i] = taken + i /\ buf[i + 1] = taken + (i + 1)
      BY <1>4, <2>1
    <3>2. taken + i = p - 1 /\ taken + (i + 1) = p
      BY <1>1, <1>5
    <3>3. QED
      BY <3>1, <3>2
  <2>3. i \in LineEnds
    BY <1>7, <2>1, <2>2 DEF LineEnds, At, EndsLine
  <2>4. QED
    BY <1>2, <1>3, <2>1, <2>3
<1>8. QED
  BY <1>5, <1>6, <1>7

(* A line within a header; the empty one is the last. *)
LEMMA LineInHeader ==
  ASSUME NEW s, Len(s) \in Nat, NEW f \in 0..Len(s), NEW h \in 0..Len(s), NEW d \in 0..Len(s),
         Framed(s, f, h, d),
         NEW q \in (f + 1)..(h - 1), EndsLine(s, q),
         NEW e \in (q + 2)..Len(s), EndsLine(s, e),
         \A p \in (q + 2)..(e - 1) : ~EndsLine(s, p)
  PROVE  /\ IF e = q + 2 THEN e = h ELSE e < h
         /\ \A i \in (q + 2)..e : ~EndsLine(s, i - 1)
<1>1. f + 2 < h /\ h + d <= Len(s) /\ EndsLine(s, h - 2) /\ EndsLine(s, h)
  BY DEF Framed
<1>2. q # h - 1 /\ q + 1 # h - 2 /\ ~EndsLine(s, q + 1)
  <2>1. s[q].t = "LF" /\ s[h - 1].t = "CR" /\ s[h - 3].t = "CR"
    <3>1. (h - 2) - 1 = h - 3
      OBVIOUS
    <3>2. QED
      BY <1>1, <3>1 DEF EndsLine
  <2>2. (q + 1) - 1 = q /\ (q + 1 = h - 2 => q = h - 3)
    OBVIOUS
  <2>3. QED
    BY <2>1, <2>2 DEF EndsLine
<1>3. q + 2 <= h /\ e <= h
  <2>1. q + 2 <= h
    BY <1>2
  <2>2. e <= h
    <3>1. SUFFICES ASSUME e > h PROVE FALSE
      BY <1>1
    <3>2. h \in (q + 2)..(e - 1)
      BY <2>1, <3>1
    <3>3. QED
      BY <1>1, <3>2
  <2>3. QED
    BY <2>1, <2>2
<1>4. CASE e = q + 2
  <2>1. SUFFICES ASSUME e # h PROVE FALSE
    BY <1>2, <1>4
  <2>2. q \in (f + 1)..(h - 3)
    BY <1>3, <1>4, <2>1
  <2>3. ~(EndsLine(s, q) /\ EndsLine(s, q + 2))
    BY <2>2 DEF Framed
  <2>4. QED
    BY <1>4, <2>3
<1>5. CASE e # q + 2
  <2>1. SUFFICES ASSUME e = h PROVE FALSE
    <3>1. e # h => e < h
      BY <1>3
    <3>2. ASSUME NEW i \in (q + 2)..e PROVE ~EndsLine(s, i - 1)
      <4>1. i - 1 = q + 1 \/ i - 1 \in (q + 2)..(e - 1)
        OBVIOUS
      <4>2. QED
        BY <1>2, <4>1
    <3>3. QED
      BY <1>5, <2>1, <3>1, <3>2
  <2>2. h - 2 \in (q + 2)..(e - 1)
    BY <1>2, <1>5, <2>1
  <2>3. QED
    BY <1>1, <2>2
<1>6. QED
  BY <1>4, <1>5

(* The first line of a request is not its last one. *)
LEMMA FirstLine ==
  ASSUME NEW s, Len(s) \in Nat, NEW f \in 1..Len(s), NEW h \in 0..Len(s), NEW d \in 0..Len(s),
         Framed(s, f, h, d),
         NEW e \in (f + 1)..Len(s), EndsLine(s, e),
         \A p \in (f + 1)..(e - 1) : ~EndsLine(s, p)
  PROVE  /\ e \in (f + 1)..(h - 1)
         /\ \A i \in (f + 2)..e : ~EndsLine(s, i - 1)
<1>1. f + 2 < h /\ EndsLine(s, h - 2)
  BY DEF Framed
<1>2. e <= h - 2
  <2>1. SUFFICES ASSUME e > h - 2 PROVE FALSE
    BY <1>1
  <2>2. h - 2 \in (f + 1)..(e - 1)
    BY <1>1, <2>1
  <2>3. QED
    BY <1>1, <2>2
<1>3. \A i \in (f + 2)..e : i - 1 \in (f + 1)..(e - 1)
  OBVIOUS
<1>4. QED
  BY <1>2, <1>3

-----------------------------------------------------------------------------
(* Steps that do not move the parser. *)
Placed == Between \/ Within \/ Answering

(* The state of the request tells where the parser is. *)
LEMMA WhereWithin ==
  ASSUME Within
  PROVE  \E f, h, d \in 0..Len(stream) :
           /\ f > 0 /\ rq.method # "none" /\ rq.req = stream[f].req
           /\ rq.state \in {"IDLE", "HEADER"} => InHeader(f, h, d)
           /\ rq.state = "HEADER_DONE" => HeaderRead(f, h, d)
           /\ rq.state \in {"BODY", "CHUNK"} => InBody(h, d)
           /\ Framed(stream, f, h, d) /\ Older(f - 1)
<1>1. PICK f, h, d \in 0..Len(stream) :
        /\ f > 0 /\ rq.method # "none" /\ rq.req = stream[f].req
        /\ InHeader(f, h, d) \/ HeaderRead(f, h, d) \/ InBody(h, d)
        /\ Framed(stream, f, h, d) /\ Older(f - 1)
  BY DEF Within
<1>2. /\ InHeader(f, h, d) => rq.state = "HEADER"
      /\ HeaderRead(f, h, d) => rq.state = "HEADER_DONE"
      /\ InBody(h, d) => rq.state = "BODY"
  BY DEF InHeader, HeaderRead, InBody
<1>3. QED
  BY <1>1, <1>2

(* What leaves Point and request alone leaves the place of the parser. *)
LEMMA PlaceKept ==
  ASSUME Placed, UNCHANGED <<stream, rq, given, log>>, Point' = Point,
         rq.state \in {"BODY", "SENDING"} => taken' = taken
  PROVE  Placed'
<1>1. CASE Between
  BY <1>1 DEF Placed, Between, Boundary, Older
<1>2. CASE Within
  <2>1. PICK f, h, d \in 0..Len(stream) :
          /\ f > 0 /\ rq.method # "none" /\ rq.req = stream[f].req
          /\ InHeader(f, h, d) \/ HeaderRead(f, h, d) \/ InBody(h, d)
          /\ Framed(stream, f, h, d) /\ Older(f - 1)
    BY <1>2 DEF Within
  <2>2. Older(f - 1)'
    BY <2>1 DEF Older
  <2>3. InHeader(f, h, d) => InHeader(f, h, d)'
    BY DEF InHeader, Told
  <2>4. HeaderRead(f, h, d) => HeaderRead(f, h, d)'
    BY DEF HeaderRead, Told
  <2>5. InBody(h, d) => InBody(h, d)'
    BY DEF InBody
  <2>6. QED
    BY <2>1, <2>2, <2>3, <2>4, <2>5 DEF Within, Placed
<1>3. CASE Answering
  BY <1>3 DEF Placed, Answering, Boundary, Older
<1>4. QED
  BY <1>1, <1>2, <1>3 DEF Placed

(* What BodiesAreExact says of the entry e of the log of a stream s. *)
IsExact(s, e) ==
  /\ {e.body[i] : i \in 1..Len(e.body)} = {i \in 1..Len(s) : s[i].req = e.req /\ s[i].t = "b"}
  /\ \A i \in 1..(Len(e.body) - 1) : e.body[i] < e.body[i + 1]

LogIsExact(s, l) ==
  \A j \in 1..Len(l) : IsExact(s, l[j]) /\ \A k \in 1..(j - 1) : l[k].req < l[j].req

(* BodiesAreExact as a statement about stream and log. *)
LEMMA ExactLog == BodiesAreExact <=> (~astray => LogIsExact(stream, log))
BY DEF BodiesAreExact, BodyOf, LogIsExact, IsExact

(* The same of the next state. *)
LEMMA ExactLogNext == BodiesAreExact' <=> (~astray => LogIsExact(stream, log))'
BY ExactLog, PTL

(* A log that is left alone stays exact. *)
LEMMA LogKept ==
  ASSUME BodiesAreExact, UNCHANGED <<stream, log>>, astray => astray'
  PROVE  BodiesAreExact'
BY ExactLog, ExactLogNext

(* A step that moves no byte and no request preserves the invariant. *)
LEMMA QuietBody ==
  ASSUME BodyInv, UNCHANGED <<stream, taken, rq, given, log, astray>>, Point' = Point, Control'
  PROVE  BodyInv'
<1>1. BodiesAreExact'
  BY LogKept DEF BodyInv
<1>2. ASSUME ~astray', rq'.result # -500 PROVE Placed'
  <2>1. Placed
    BY <1>2 DEF BodyInv, Placed
  <2>2. QED
    BY <2>1, PlaceKept
<1>3. QED
  BY <1>1, <1>2 DEF BodyInv, Placed

(* The connection is closed. *)
LEMMA CloseBody ==
  ASSUME BodyInv, NEW reason, Close(reason), pc \in {"wait", "exit"}
  PROVE  BodyInv'
<1>1. UNCHANGED <<stream, taken, rq, given, log, astray>> /\ pc' = "closed"
  BY DEF Close, net, history
<1>2. Point' = Point
  BY <1>1 DEF Point
<1>3. Control'
  BY <1>1 DEF BodyInv, Control
<1>4. QED
  BY <1>1, <1>2, <1>3, QuietBody

(* A callback that starts the loop. *)
LEMMA StartBody ==
  ASSUME BodyInv, UNCHANGED <<stream, taken, rq, given, log, astray>>,
         pc = "wait", pc' = "wait" \/ (rq.state # "SENDING" /\ pc' = "load")
  PROVE  BodyInv'
<1>2. Point' = Point
  BY DEF Point
<1>3. Control'
  BY DEF BodyInv, Control
<1>4. QED
  BY <1>2, <1>3, QuietBody

(* The callbacks: data, the end of the stream, the poll and its timeout. *)
LEMMA CallbackBody ==
  ASSUME BodyInv, OnHttpReceive \/ OnHttpReceiveFin \/ OnHttpPoll \/ Timeout
  PROVE  BodyInv'
<1>1. CASE OnHttpReceive
  <2>1. UNCHANGED <<stream, taken, rq, given, log, astray>> /\ pc = "wait" /\ Proceed
    BY <1>1 DEF OnHttpReceive, history
  <2>2. pc' = "wait" \/ (rq.state # "SENDING" /\ pc' = "load")
    BY <2>1 DEF Proceed, Receiving
  <2>3. QED
    BY <2>1, <2>2, StartBody
<1>2. CASE OnHttpReceiveFin
  <2>1. CASE Close("fin")
    BY <1>2, <2>1, CloseBody DEF OnHttpReceiveFin
  <2>2. CASE ~Close("fin")
    <3>1. UNCHANGED <<stream, taken, rq, given, log, astray>> /\ pc = "wait" /\ Proceed
      BY <1>2, <2>2 DEF OnHttpReceiveFin, net, history
    <3>2. pc' = "wait" \/ (rq.state # "SENDING" /\ pc' = "load")
      BY <3>1 DEF Proceed, Receiving
    <3>3. QED
      BY <3>1, <3>2, StartBody
  <2>3. QED
    BY <2>1, <2>2
<1>3. CASE OnHttpPoll
  BY <1>3, StartBody DEF OnHttpPoll, Receiving, net, history
<1>4. CASE Timeout
  BY <1>4, CloseBody DEF Timeout
<1>5. QED
  BY <1>1, <1>2, <1>3, <1>4

(* LinesDone and Return leave the place, too. *)
LEMMA LinesDoneBody ==
  ASSUME BodyInv, LinesDone
  PROVE  BodyInv'
<1>1. UNCHANGED <<stream, taken, pos, rq, given, log, astray>> /\ pc = "lines" /\ pc' = "shift"
  BY DEF LinesDone, net, history
<1>2. Point' = Point
  BY <1>1 DEF Point
<1>3. Control'
  BY <1>1 DEF BodyInv, Control
<1>4. QED
  BY <1>1, <1>2, <1>3, QuietBody

(* The loop ends and the callback returns. *)
LEMMA ReturnBody ==
  ASSUME RecvInv, BodyInv, Return
  PROVE  BodyInv'
<1>1. CASE Close("bad") \/ Close("fin")
  BY <1>1, CloseBody DEF Return
<1>2. CASE ~(Close("bad") \/ Close("fin"))
  <2>1. /\ UNCHANGED <<stream, taken, rq, given, log, astray>>
        /\ pc = "exit" /\ pc' = "wait" /\ rq.result > -500
    BY <1>2 DEF Return, net, history
  <2>2. Point' = Point
    BY <2>1 DEF Point
  <2>3. Control'
    BY <2>1 DEF BodyInv, Control
  <2>4. QED
    BY <2>1, <2>2, <2>3, QuietBody
<1>3. QED
  BY <1>1, <1>2

(* The response is sent: the connection is between two requests. *)
LEMMA RequestEndBody ==
  ASSUME BodyInv, RequestEnd
  PROVE  BodyInv'
<1>1. CASE Close("done")
  BY <1>1, CloseBody DEF RequestEnd
<1>2. CASE ~Close("done")
  <2>1. /\ UNCHANGED <<stream, taken, log, astray>> /\ pc = "wait" /\ pc' = "wait"
        /\ rq' = NoRequest /\ given' = <<>> /\ rq.state = "SENDING"
    BY <1>2 DEF RequestEnd, net, Receiving
  <2>2. /\ rq'.state = "IDLE" /\ rq'.method = "none" /\ ~rq'.chunked /\ rq'.length = 0
        /\ rq'.received = 0 /\ rq'.result = 0
    BY <2>1 DEF NoRequest
  <2>3. Control' /\ BodiesAreExact'
    BY <2>1, <2>2, LogKept DEF Control, BodyInv
  <2>4. ASSUME ~astray' PROVE Between'
    <3>1. rq.result # -500
      BY <2>1 DEF BodyInv, Control
    <3>2. Answering
      BY <2>1, <2>4, <3>1 DEF BodyInv, Between, Within, InHeader, HeaderRead, InBody
    <3>3. QED
      BY <2>1, <2>2, <3>2 DEF Between, Answering, Boundary, Older, Point
  <2>5. QED
    BY <2>3, <2>4 DEF BodyInv
<1>3. QED
  BY <1>1, <1>2

(* Load: an idle connection begins to read lines. *)
LEMMA LoadBody ==
  ASSUME RecvInv, BodyInv, Load
  PROVE  BodyInv'
<1>1. /\ UNCHANGED <<stream, taken, given, log, astray>> /\ pc = "load" /\ pos' = 0
      /\ \/ pc' = "exit" /\ rq' = rq
         \/ /\ rq.state \in {"IDLE", "HEADER"} /\ pc' = "lines"
            /\ rq' = [rq EXCEPT !.state = "HEADER"]
         \/ rq.state = "CHUNK_LEN" /\ pc' = "chunk" /\ rq' = rq
         \/ rq.state \in {"BODY", "CHUNK"} /\ pc' = "body" /\ rq' = rq
  BY DEF Load, net, history
<1>2. rq \in Requests /\ taken \in Nat
  BY TypesSplit, Lengths DEF RecvInv, ControlTypes
<1>3. Point = taken /\ Point' = taken
  BY <1>1, <1>2 DEF Point
<1>4. CASE rq' = rq
  <2>1. Control'
    <3>1. rq.result # -500 /\ (rq.result = -307 => rq.state = "SENDING")
          /\ rq.state \notin {"SENDING", "HEADER_DONE"} /\ rq.result \in Results
      BY <1>1, <1>2 DEF BodyInv, Control, Requests
    <3>2. \/ pc' = "exit"
          \/ pc' = "lines" /\ rq.state = "HEADER"
          \/ pc' = "chunk" /\ rq.state = "CHUNK_LEN"
          \/ pc' = "body" /\ rq.state \in {"BODY", "CHUNK"}
      BY <1>1, <1>2, <1>4 DEF Requests
    <3>3. QED
      BY <1>4, <3>1, <3>2 DEF Control, Results
  <2>2. QED
    BY <1>1, <1>3, <1>4, <2>1, QuietBody
<1>5. CASE rq' # rq
  <2>1. /\ rq.state \in {"IDLE", "HEADER"} /\ pc' = "lines"
        /\ rq' = [rq EXCEPT !.state = "HEADER"]
    BY <1>1, <1>5
  <2>2. /\ rq'.state = "HEADER" /\ rq'.method = rq.method /\ rq'.req = rq.req
        /\ rq'.chunked = rq.chunked /\ rq'.length = rq.length
        /\ rq'.received = rq.received /\ rq'.result = rq.result
    BY <1>2, <2>1 DEF Requests
  <2>3. rq.result = 0
    BY <1>1, <1>2, <2>1 DEF BodyInv, Control, Requests, Results
  <2>4. Control' /\ BodiesAreExact'
    BY <1>1, <2>1, <2>2, <2>3, LogKept DEF Control, BodyInv
  <2>5. ASSUME ~astray' PROVE Placed'
    <3>1. Placed
      BY <1>1, <2>3, <2>5 DEF BodyInv, Placed
    <3>2. CASE Between
      BY <1>1, <1>3, <2>2, <3>2 DEF Placed, Between, Boundary, Older
    <3>3. CASE Within
      <4>1. PICK f, h, d \in 0..Len(stream) :
              /\ f > 0 /\ rq.method # "none" /\ rq.req = stream[f].req
              /\ InHeader(f, h, d)
              /\ Framed(stream, f, h, d) /\ Older(f - 1)
        BY <2>1, <3>3, WhereWithin
      <4>2. InHeader(f, h, d)'
        BY <1>1, <1>3, <2>2, <4>1 DEF InHeader, Told
      <4>3. Older(f - 1)'
        BY <1>1, <4>1 DEF Older
      <4>4. QED
        BY <1>1, <2>2, <4>1, <4>2, <4>3 DEF Within, Placed
    <3>4. CASE Answering
      BY <2>1, <3>4 DEF Answering
    <3>5. QED
      BY <3>1, <3>2, <3>3, <3>4 DEF Placed
  <2>6. QED
    BY <2>4, <2>5 DEF BodyInv, Placed
<1>6. QED
  BY <1>4, <1>5

-----------------------------------------------------------------------------
(* The steps that read the header. *)

(* What a header line changes. *)
LEMMA HeaderLineEffect ==
  ASSUME rq \in Requests, NEW w \in Tokens, NEW r, r = HeaderLine(w)
  PROVE  /\ r.state = rq.state /\ r.method = rq.method /\ r.req = rq.req /\ r.result = rq.result
         /\ r.received \in {0, rq.received}
         /\ r.length = IF w.t = "LENGTH" THEN w.n ELSE rq.length
         /\ r.chunked = IF w.t = "CHUNKED" THEN TRUE ELSE rq.chunked
<1>1. CASE w.t = "LENGTH"
  BY <1>1 DEF HeaderLine, Requests
<1>2. CASE w.t = "KEEP"
  BY <1>2 DEF HeaderLine, Requests
<1>3. CASE w.t = "CHUNKED"
  BY <1>3 DEF HeaderLine, Requests
<1>4. CASE w.t \notin {"LENGTH", "KEEP", "CHUNKED"}
  BY <1>4 DEF HeaderLine, Requests
<1>5. QED
  BY <1>1, <1>2, <1>3, <1>4

(* A line begins a request, tells about it or ends its header. *)
LEMMA ParseLineBody ==
  ASSUME RecvInv, BodyInv, ParseLine
  PROVE  BodyInv'
<1>m. PICK m, w, q, e :
        m = Min(LineEnds) /\ w = At(pos + 1) /\ q = taken + pos /\ e = taken + m + 1
  OBVIOUS
<1>1. /\ UNCHANGED <<stream, taken, given, log, astray>>
      /\ pc = "lines" /\ LineEnds # {}
  BY DEF ParseLine, net, history
<1>2. /\ rq \in Requests /\ taken \in Nat /\ pos \in Nat /\ DataInv
      /\ rq.state = "HEADER" /\ rq.result = 0
  BY <1>1, TypesSplit, Lengths, RecvAssumption
     DEF RecvInv, BodyInv, Control, ControlTypes, Locals
<1>3. /\ q \in Nat /\ e \in (q + 2)..Len(stream) /\ EndsLine(stream, e)
      /\ \A p \in (q + 2)..(e - 1) : ~EndsLine(stream, p)
  BY <1>m, <1>1, <1>2, LineFound
<1>4. m \in (pos + 1)..(Len(buf) - 1) /\ Len(buf) \in Nat /\ Len(stream) \in Nat
  BY <1>m, <1>1, <1>2, LineEndRange, Lengths, StreamTokens
<1>5. w = stream[q + 1] /\ w \in Tokens /\ q + 1 \in 1..Len(stream)
  <2>1. pos + 1 \in 1..Len(buf) /\ taken + (pos + 1) = q + 1
    BY <1>m, <1>2, <1>4
  <2>2. buf[pos + 1] = q + 1
    BY <1>2, <2>1 DEF DataInv, Content
  <2>3. QED
    BY <1>m, <1>2, <1>3, <1>4, <2>1, <2>2, TokenAt DEF At
<1>6. Point = q
  BY <1>m, <1>1 DEF Point
<1>7. BodiesAreExact'
  BY <1>1, LogKept DEF BodyInv
<1>8. ~astray' => Placed
  BY <1>1, <1>2 DEF BodyInv, Placed
<1>a. CASE m = pos + 1                                \* the empty line
  <2>1. /\ rq' = [rq EXCEPT !.state = "HEADER_DONE",
                            !.result = IF rq.method = "none" THEN -500 ELSE @]
        /\ pos' = m + 1 /\ pc' = "shift"
    <3>1. ~(m > pos + 1)
      BY <1>2, <1>a
    <3>2. QED
      BY <1>m, <3>1 DEF ParseLine
  <2>2. /\ rq'.state = "HEADER_DONE" /\ rq'.method = rq.method /\ rq'.req = rq.req
        /\ rq'.length = rq.length /\ rq'.chunked = rq.chunked /\ rq'.received = rq.received
        /\ rq'.result = IF rq.method = "none" THEN -500 ELSE 0
    BY <1>2, <2>1 DEF Requests
  <2>3. Control'
    BY <2>1, <2>2 DEF Control
  <2>4. ASSUME ~astray', rq'.result # -500 PROVE Within'
    <3>1. PICK f, h, d \in 0..Len(stream) :
            /\ f > 0 /\ rq.method # "none" /\ rq.req = stream[f].req
            /\ InHeader(f, h, d)
            /\ Framed(stream, f, h, d) /\ Older(f - 1)
      <4>1. Within
        BY <1>2, <1>8, <2>2, <2>4 DEF Placed, Between, Answering
      <4>2. QED
        BY <1>2, <4>1, WhereWithin
    <3>2. q \in (f + 1)..(h - 1) /\ EndsLine(stream, q) /\ Told(f, q, d)
      BY <1>6, <3>1 DEF InHeader
    <3>3. e = q + 2 /\ e = h /\ \A i \in (q + 2)..e : ~EndsLine(stream, i - 1)
      <4>1. e = q + 2
        BY <1>m, <1>2, <1>4, <1>a
      <4>2. /\ IF e = q + 2 THEN e = h ELSE e < h
            /\ \A i \in (q + 2)..e : ~EndsLine(stream, i - 1)
        BY <1>3, <1>4, <3>1, <3>2, LineInHeader
      <4>3. QED
        BY <4>1, <4>2
    <3>4. Point' = h
      <4>1. Point' = taken + (m + 1)
        BY <1>1, <2>1 DEF Point
      <4>2. QED
        BY <1>m, <1>2, <1>4, <3>3, <4>1
    <3>5. w.t = "CR"
      <4>1. (q + 2) - 1 = q + 1
        BY <1>3
      <4>2. QED
        BY <1>3, <1>5, <3>3, <4>1 DEF EndsLine
    <3>6. ASSUME NEW i \in (f + 2)..h PROVE i \in (f + 2)..q \/ i = q + 1 \/ i \in (q + 2)..e
      BY <1>3, <3>2, <3>3
    <3>7. Told(f, h, d)'
      BY <1>1, <1>5, <2>2, <3>2, <3>3, <3>5, <3>6 DEF Told, Begins
    <3>8. HeaderRead(f, h, d)' /\ Older(f - 1)'
      BY <1>1, <2>2, <3>1, <3>4, <3>7 DEF InHeader, HeaderRead, Older
    <3>9. QED
      BY <1>1, <2>2, <3>1, <3>8 DEF Within
  <2>5. QED
    BY <1>7, <2>3, <2>4 DEF BodyInv
<1>b. CASE m # pos + 1 /\ rq.method = "none" /\ w.t \in Methods    \* the request line
  <2>1. rq' = [rq EXCEPT !.method = w.t, !.req = w.req] /\ pos' = m + 1 /\ pc' = "lines"
    BY <1>m, <1>1, <1>b DEF ParseLine
  <2>2. /\ rq'.state = "HEADER" /\ rq'.method = w.t /\ rq'.req = w.req
        /\ rq'.length = rq.length /\ rq'.chunked = rq.chunked /\ rq'.received = rq.received
        /\ rq'.result = 0 /\ w.t # "none"
    BY <1>2, <1>b, <2>1 DEF Requests, Methods
  <2>3. Control'
    BY <2>1, <2>2 DEF Control
  <2>4. ASSUME ~astray' PROVE Within'
    <3>1. Between
      BY <1>2, <1>8, <1>b, <2>4 DEF Placed, Answering, Within
    <3> DEFINE f == q + 1
    <3>2. f \in 1..Len(stream) /\ f - 1 = q
      BY <1>3, <1>5
    <3>3. \A i \in 1..(f - 1) : stream[i].req < stream[f].req
      BY <1>3, <1>4, <1>6, <3>1, <3>2 DEF Between, Boundary
    <3>4. PICK h, d \in 0..Len(stream) : Framed(stream, f, h, d)
      <4>1. stream \in Streams
        BY <1>2 DEF DataInv, DataTypes
      <4>2. QED
        BY <1>5, <1>b, <3>2, <3>3, <4>1, StreamAssumption
    <3>5. e \in (f + 1)..Len(stream) /\ \A p \in (f + 1)..(e - 1) : ~EndsLine(stream, p)
      <4>1. f + 1 = q + 2
        BY <1>3
      <4>2. QED
        BY <1>3, <4>1
    <3>6. /\ e \in (f + 1)..(h - 1)
          /\ \A i \in (f + 2)..e : ~EndsLine(stream, i - 1)
      BY <1>3, <1>4, <3>2, <3>4, <3>5, FirstLine
    <3>7. Point' = e
      <4>1. Point' = taken + (m + 1)
        BY <1>1, <2>1 DEF Point
      <4>2. QED
        BY <1>m, <1>2, <1>4, <4>1
    <3>8. Told(f, e, d)'
      BY <1>1, <2>2, <3>1, <3>6 DEF Told, Begins, Between
    <3>9. InHeader(f, h, d)' /\ Older(f - 1)'
      BY <1>1, <1>3, <1>6, <2>2, <3>1, <3>2, <3>6, <3>7, <3>8 DEF InHeader, Older, Between
    <3>10. f \in 0..Len(stream') /\ f > 0 /\ h \in 0..Len(stream') /\ d \in 0..Len(stream')
      BY <1>1, <3>2, <3>4
    <3>11. rq'.method # "none" /\ rq'.req = stream'[f].req /\ Framed(stream', f, h, d)
      BY <1>1, <1>5, <2>2, <3>4
    <3>12. QED
      BY <3>9, <3>10, <3>11 DEF Within
  <2>5. QED
    BY <1>7, <2>3, <2>4 DEF BodyInv
<1>c. CASE m # pos + 1 /\ rq.method = "none" /\ w.t \notin Methods
  <2>1. rq' = [rq EXCEPT !.result = -500] /\ pc' = "shift"
    BY <1>m, <1>c DEF ParseLine
  <2>2. rq'.state = "HEADER" /\ rq'.result = -500
    BY <1>2, <2>1 DEF Requests
  <2>3. QED
    BY <1>7, <2>1, <2>2 DEF BodyInv, Control
<1>d. CASE m # pos + 1 /\ rq.method # "none"
  <2>1. rq' = HeaderLine(w) /\ pos' = m + 1 /\ pc' = "lines"
    BY <1>m, <1>1, <1>d DEF ParseLine
  <2>2. /\ rq'.state = "HEADER" /\ rq'.method = rq.method /\ rq'.req = rq.req /\ rq'.result = 0
        /\ rq'.received \in {0, rq.received}
        /\ rq'.length = IF w.t = "LENGTH" THEN w.n ELSE rq.length
        /\ rq'.chunked = IF w.t = "CHUNKED" THEN TRUE ELSE rq.chunked
    BY <1>2, <1>5, <2>1, HeaderLineEffect
  <2>3. Control'
    BY <2>1, <2>2 DEF Control
  <2>4. ASSUME ~astray' PROVE Within'
    <3>1. PICK f, h, d \in 0..Len(stream) :
            /\ f > 0 /\ rq.method # "none" /\ rq.req = stream[f].req
            /\ InHeader(f, h, d)
            /\ Framed(stream, f, h, d) /\ Older(f - 1)
      <4>1. Within
        BY <1>2, <1>8, <1>d, <2>4 DEF Placed, Between, Answering
      <4>2. QED
        BY <1>2, <4>1, WhereWithin
    <3>2. q \in (f + 1)..(h - 1) /\ EndsLine(stream, q) /\ Told(f, q, d)
      BY <1>6, <3>1 DEF InHeader
    <3>3. e # q + 2
      BY <1>m, <1>2, <1>4, <1>d
    <3>4. e < h /\ \A i \in (q + 2)..e : ~EndsLine(stream, i - 1)
      BY <1>3, <1>4, <3>1, <3>2, <3>3, LineInHeader
    <3>5. Point' = e
      <4>1. Point' = taken + (m + 1)
        BY <1>1, <2>1 DEF Point
      <4>2. QED
        BY <1>m, <1>2, <1>4, <4>1
    <3>6. w.t = "LENGTH" => w.n = d
      <4>1. q + 1 \in (f + 2)..h /\ (q + 1) - 1 = q
        BY <1>3, <3>2
      <4>2. w.t = "LENGTH" => Begins(stream, q + 1, "LENGTH")
        BY <1>5, <3>2, <4>1 DEF Begins
      <4>3. QED
        BY <1>5, <3>1, <4>1, <4>2 DEF Framed
    <3>7. ASSUME NEW i \in (f + 2)..e PROVE i \in (f + 2)..q \/ i = q + 1 \/ i \in (q + 2)..e
      BY <1>3, <3>2
    <3>8. Told(f, e, d)'
      <4>1. rq'.length \in {0, d} /\ (rq.length = d => rq'.length = d)
            /\ (w.t = "LENGTH" => rq'.length = d)
        BY <2>2, <3>2, <3>6 DEF Told
      <4>2. (rq.chunked => rq'.chunked) /\ (w.t = "CHUNKED" => rq'.chunked)
        BY <2>2
      <4>3. ASSUME NEW i \in (f + 2)..e, Begins(stream, i, "LENGTH") PROVE rq'.length = d
        BY <1>5, <3>2, <3>4, <3>7, <4>1, <4>3 DEF Told, Begins
      <4>4. ASSUME NEW i \in (f + 2)..e, Begins(stream, i, "CHUNKED") PROVE rq'.chunked
        BY <1>5, <3>2, <3>4, <3>7, <4>2, <4>4 DEF Told, Begins
      <4>5. QED
        BY <1>1, <4>1, <4>3, <4>4 DEF Told
    <3>9. e \in (f + 1)..(h - 1) /\ rq'.received = 0
      BY <1>3, <2>2, <3>1, <3>2, <3>4 DEF InHeader
    <3>10. InHeader(f, h, d)' /\ Older(f - 1)'
      BY <1>1, <1>3, <2>2, <3>1, <3>5, <3>8, <3>9 DEF InHeader, Older
    <3>11. QED
      BY <1>1, <2>2, <3>1, <3>10 DEF Within
  <2>5. QED
    BY <1>7, <2>3, <2>4 DEF BodyInv
<1>e. QED
  BY <1>a, <1>b, <1>c, <1>d

(* The lines that were read are shifted out of the buffer. *)
LEMMA ShiftBody ==
  ASSUME RecvInv, BodyInv, Shift
  PROVE  BodyInv'
<1>1. /\ UNCHANGED <<stream, rq, given, log>> /\ pc = "shift"
      /\ taken' = taken + (IF Truncates THEN Len(buf) \div 2 ELSE pos)
      /\ astray' = (astray \/ Truncates)
      /\ pc' = CASE rq.result < 0 -> "exit"
                 [] rq.result = 0 /\ rq.state = "HEADER_DONE" -> "header"
                 [] OTHER -> IF chain # <<>> THEN "load" ELSE "exit"
  BY DEF Shift, Consume, net
<1>2. /\ rq.result \in {0, -500} /\ rq.state \in {"HEADER", "HEADER_DONE"}
  BY <1>1, TypesSplit
     DEF RecvInv, BodyInv, Control, ControlTypes, Requests, Results
<1>3. pc' \in {"exit", "header", "load"}
  BY <1>1, <1>2
<1>4. Control'
  <2>1. CASE rq.result = 0
    BY <1>1, <1>2, <2>1 DEF Control
  <2>2. CASE rq.result = -500
    BY <1>1, <1>2, <2>2 DEF Control
  <2>3. QED
    BY <1>2, <2>1, <2>2
<1>5. BodiesAreExact'
  BY <1>1, LogKept DEF BodyInv
<1>6. ASSUME ~astray', rq'.result # -500 PROVE Placed'
  <2>1. ~astray /\ ~Truncates
    BY <1>1, <1>6
  <2>2. Point' = Point
    BY <1>1, <1>3, <2>1 DEF Point
  <2>3. Placed
    BY <1>1, <1>6, <2>1 DEF BodyInv, Placed
  <2>4. QED
    BY <1>1, <1>2, <2>2, <2>3, PlaceKept
<1>7. QED
  BY <1>4, <1>5, <1>6 DEF BodyInv, Placed

-----------------------------------------------------------------------------
(* The steps that end a header or a body. *)

(* One more entry of the log. *)
LEMMA LogAppended ==
  ASSUME NEW s, NEW S, NEW l \in Seq(S), NEW x \in S, LogIsExact(s, l), IsExact(s, x),
         \A j \in 1..Len(l) : l[j].req < x.req
  PROVE  LogIsExact(s, Append(l, x))
<1> DEFINE a == Append(l, x)
<1>1. /\ Len(l) \in Nat /\ Len(a) = Len(l) + 1
      /\ \A j \in 1..Len(l) : a[j] = l[j]
      /\ a[Len(l) + 1] = x
  BY AppendProperties, LenProperties
<1> HIDE DEF a
<1>2. ASSUME NEW j \in 1..Len(a)
      PROVE  IsExact(s, a[j]) /\ \A k \in 1..(j - 1) : a[k].req < a[j].req
  <2>1. CASE j = Len(l) + 1
    <3>1. a[j] = x /\ \A k \in 1..(j - 1) : k \in 1..Len(l) /\ a[k] = l[k]
      BY <1>1, <2>1
    <3>2. QED
      BY <3>1
  <2>2. CASE j # Len(l) + 1
    <3>1. j \in 1..Len(l) /\ a[j] = l[j] /\ \A k \in 1..(j - 1) : a[k] = l[k]
      BY <1>1, <2>2
    <3>2. QED
      BY <3>1 DEF LogIsExact
  <2>3. QED
    BY <2>1, <2>2
<1>3. QED
  BY <1>2 DEF LogIsExact, a

(* What is known when the header f..h was read. *)
LEMMA LengthTold ==
  ASSUME NEW f \in Nat, NEW h \in Nat, NEW d \in Nat,
         Framed(stream, f, h, d), Told(f, h, d), ~rq.chunked
  PROVE  rq.length = d /\ \A i \in (h + 1)..(h + d) : stream[i].t = "b"
<1>1. ~ \E i \in (f + 2)..h : Begins(stream, i, "CHUNKED")
  BY DEF Told
<1>2. /\ \A i \in (h + 1)..(h + d) : stream[i].t = "b"
      /\ d > 0 => \E i \in (f + 2)..h : Begins(stream, i, "LENGTH")
  BY <1>1 DEF Framed
<1>3. CASE d > 0
  BY <1>2, <1>3 DEF Told
<1>4. CASE ~(d > 0)
  BY <1>2, <1>4 DEF Told
<1>5. QED
  BY <1>3, <1>4

(* The content of a request is what follows its header. *)
LEMMA ContentOf ==
  ASSUME Len(stream) \in Nat, NEW f \in 1..Len(stream), NEW h \in 0..Len(stream),
         NEW d \in 0..Len(stream), Framed(stream, f, h, d),
         \A i \in (h + 1)..(h + d) : stream[i].t = "b",
         \A i \in 1..Len(stream) : stream[i].req \in Nat
  PROVE  {i \in 1..Len(stream) : stream[i].req = stream[f].req /\ stream[i].t = "b"}
           = (h + 1)..(h + d)
<1>0. f + 2 < h /\ h + d <= Len(stream) /\ h + d \in Nat
  BY DEF Framed
<1>1. ASSUME NEW i \in 1..Len(stream), stream[i].req = stream[f].req, stream[i].t = "b"
      PROVE  i \in (h + 1)..(h + d)
  <2>1. stream[i].req \in Nat /\ stream[f].req \in Nat
    OBVIOUS
  <2>2. ~(i < f) /\ ~(i > h + d)
    <3>1. /\ i < f => stream[i].req < stream[f].req
          /\ i > h + d => stream[i].req > stream[f].req
      BY DEF Framed
    <3>2. QED
      BY <1>1, <2>1, <3>1
  <2>3. i \notin f..h
    BY <1>1 DEF Framed
  <2>4. QED
    BY <1>0, <2>2, <2>3
<1>2. ASSUME NEW i \in (h + 1)..(h + d)
      PROVE  i \in 1..Len(stream) /\ stream[i].req = stream[f].req /\ stream[i].t = "b"
  <2>1. i \in 1..Len(stream) /\ i \in f..(h + d)
    BY <1>0
  <2>2. QED
    BY <2>1 DEF Framed
<1>3. QED
  BY <1>1, <1>2

(* A request that was read to its end ends at a boundary, and is logged. *)
LEMMA RequestRead ==
  ASSUME DataInv, NEW f \in 1..Len(stream), NEW h \in 0..Len(stream), NEW d \in 0..Len(stream),
         Framed(stream, f, h, d), Older(f - 1), log \in Seq([req : Nat, body : Seq(Nat)])
  PROVE  /\ Boundary(h + d)
         /\ \A j \in 1..Len(log) : log[j].req < stream[f].req
         /\ \A j \in 1..Len(log) : \E i \in 1..(h + d) : log[j].req = stream[i].req
<1>1. /\ Len(stream) \in Nat /\ \A i \in 1..Len(stream) : stream[i] \in Tokens
      /\ f + 2 < h /\ h + d <= Len(stream) /\ h + d \in Nat
  BY StreamTokens DEF Framed
<1>2. \A i \in 1..Len(stream) : stream[i].req \in Nat
  BY <1>1 DEF Tokens
<1>3. ASSUME NEW i \in 1..(h + d), NEW j \in (h + d + 1)..Len(stream)
      PROVE  stream[i].req < stream[j].req
  <2>1. i \in 1..Len(stream) /\ j \in 1..Len(stream) /\ j > h + d
    BY <1>1
  <2>2. stream[j].req > stream[f].req /\ (stream[i].req < stream[f].req \/ stream[i].req = stream[f].req)
    BY <1>1, <2>1 DEF Framed
  <2>3. stream[i].req \in Nat /\ stream[j].req \in Nat /\ stream[f].req \in Nat
    BY <1>2, <2>1
  <2>4. QED
    BY <2>2, <2>3
<1>4. ASSUME NEW j \in 1..Len(log)
      PROVE  /\ log[j].req < stream[f].req
             /\ \E i \in 1..(h + d) : log[j].req = stream[i].req
  <2>1. PICK i \in 1..(f - 1) : log[j].req = stream[i].req
    BY DEF Older
  <2>2. i \in 1..Len(stream) /\ i < f /\ i \in 1..(h + d)
    BY <1>1
  <2>3. stream[i].req < stream[f].req
    BY <2>2 DEF Framed
  <2>4. QED
    BY <2>1, <2>2, <2>3
<1>5. QED
  BY <1>3, <1>4 DEF Boundary

(* The answer begins; the request was not logged. *)
LEMMA RefusalBegins ==
  ASSUME DataInv, BodiesAreExact, astray => astray',
         NEW f \in 1..Len(stream), NEW h \in 0..Len(stream), NEW d \in 0..Len(stream),
         Framed(stream, f, h, d), Older(f - 1), log \in Seq([req : Nat, body : Seq(Nat)]),
         stream' = stream, taken' = h + d, rq'.state = "SENDING", log' = log
  PROVE  Answering' /\ BodiesAreExact'
<1>1. /\ Boundary(h + d)
      /\ \A j \in 1..Len(log) : \E i \in 1..(h + d) : log[j].req = stream[i].req
  BY RequestRead
<1>2. QED
  BY <1>1, LogKept DEF Answering, Boundary, Older

(* The answer begins; the request was logged with the body b. *)
LEMMA AnswerBegins ==
  ASSUME DataInv, BodiesAreExact, ~astray,
         NEW f \in 1..Len(stream), NEW h \in 0..Len(stream), NEW d \in 0..Len(stream),
         Framed(stream, f, h, d), Older(f - 1), log \in Seq([req : Nat, body : Seq(Nat)]),
         rq.req = stream[f].req, stream' = stream, taken' = h + d, rq'.state = "SENDING",
         NEW b \in Seq(Nat), log' = Append(log, [req |-> rq.req, body |-> b]),
         \A i \in (h + 1)..(h + d) : stream[i].t = "b",
         Len(b) = d, Follows(b, h)
  PROVE  Answering' /\ BodiesAreExact'
<1>b. \A i \in 1..d : b[i] = h + i
  BY DEF Follows
<1> DEFINE x == [req |-> rq.req, body |-> b]
           E == [req : Nat, body : Seq(Nat)]
<1>1. /\ Boundary(h + d)
      /\ \A j \in 1..Len(log) : log[j].req < stream[f].req
      /\ \A j \in 1..Len(log) : \E i \in 1..(h + d) : log[j].req = stream[i].req
  BY RequestRead
<1>2. /\ Len(stream) \in Nat /\ f + 2 < h /\ h + d <= Len(stream) /\ h + d \in Nat
      /\ stream[f].req \in Nat /\ \A i \in 1..Len(stream) : stream[i].req \in Nat
  BY StreamTokens DEF Framed, Tokens
<1>3. x \in E /\ x.req = stream[f].req /\ x.body = b /\ log' = Append(log, x)
  BY <1>2
<1> HIDE DEF x
<1>4. IsExact(stream, x)
  <2>1. {b[i] : i \in 1..Len(b)} = (h + 1)..(h + d)
    <3>1. ASSUME NEW v \in (h + 1)..(h + d) PROVE \E i \in 1..d : v = b[i]
      <4>1. v - h \in 1..d /\ h + (v - h) = v
        BY <1>2
      <4>2. b[v - h] = v
        BY <1>b, <4>1
      <4>3. QED
        BY <4>1, <4>2
    <3>2. \A i \in 1..d : b[i] \in (h + 1)..(h + d)
      BY <1>b, <1>2
    <3>3. QED
      BY <3>1, <3>2
  <2>2. {i \in 1..Len(stream) : stream[i].req = stream[f].req /\ stream[i].t = "b"}
          = (h + 1)..(h + d)
    BY <1>2, ContentOf
  <2>3. ASSUME NEW i \in 1..(d - 1) PROVE b[i] < b[i + 1]
    <3>0. d \in Nat /\ h \in Nat
      BY <1>2
    <3>1. i \in 1..d /\ i + 1 \in 1..d
      BY <3>0
    <3>2. b[i] = h + i /\ b[i + 1] = h + (i + 1)
      BY <1>b, <3>1
    <3>3. QED
      BY <3>0, <3>2
  <2>4. {x.body[i] : i \in 1..Len(x.body)} = (h + 1)..(h + d)
    BY <1>3, <2>1, Zenon
  <2>5. {i \in 1..Len(stream) : stream[i].req = x.req /\ stream[i].t = "b"}
          = (h + 1)..(h + d)
    BY <1>3, <2>2, Zenon
  <2>6. \A i \in 1..(Len(x.body) - 1) : x.body[i] < x.body[i + 1]
    BY <1>3, <2>3
  <2>7. QED
    BY <2>4, <2>5, <2>6, Zenon DEF IsExact
<1>5. LogIsExact(stream, Append(log, x))
  <2>1. LogIsExact(stream, log)
    BY ExactLog
  <2>2. QED
    BY <1>1, <1>3, <1>4, <2>1, LogAppended
<1>6. BodiesAreExact'
  BY <1>3, <1>5, ExactLogNext
<1>7. Older(taken)'
  <2>1. /\ Len(log) \in Nat /\ Len(log') = Len(log) + 1
        /\ \A j \in 1..Len(log) : log'[j] = log[j]
        /\ log'[Len(log) + 1] = x
    BY <1>3, AppendProperties, LenProperties
  <2>2. f \in 1..(h + d)
    BY <1>2
  <2>3. ASSUME NEW j \in 1..Len(log') PROVE \E i \in 1..(h + d) : log'[j].req = stream[i].req
    <3>1. CASE j = Len(log) + 1
      BY <1>3, <2>1, <2>2, <3>1
    <3>2. CASE j # Len(log) + 1
      <4>1. j \in 1..Len(log)
        <5>1. PICK n \in Nat : n = Len(log) /\ Len(log') = n + 1
          BY <2>1
        <5>2. j \in 1..(n + 1) /\ j # n + 1
          BY <3>2, <5>1
        <5>3. j \in 1..n
          BY <5>2
        <5>4. QED
          BY <5>1, <5>3
      <4>2. QED
        BY <1>1, <2>1, <4>1
    <3>3. QED
      BY <3>1, <3>2
  <2>4. QED
    BY <2>3 DEF Older
<1>8. Boundary(taken)'
  BY <1>1 DEF Boundary
<1>9. QED
  BY <1>6, <1>7, <1>8 DEF Answering

(* The header is complete: the request is answered, refused or has a body. *)
LEMMA HeadersBody ==
  ASSUME RecvInv, BodyInv, HeadersReceived
  PROVE  BodyInv'
<1>1. UNCHANGED <<stream, taken, given>> /\ pc = "header"
  BY DEF HeadersReceived, net
<1>2. /\ rq \in Requests /\ taken \in Nat /\ DataInv
      /\ rq.state = "HEADER_DONE" /\ rq.result = 0
      /\ log \in Seq([req : Nat, body : Seq(Nat)])
      /\ Len(stream) \in Nat
  BY <1>1, TypesSplit, Lengths, StreamTokens
     DEF RecvInv, BodyInv, Control, ControlTypes, Histories
<1>3. Point = taken /\ BodiesAreExact
  BY <1>1 DEF Point, BodyInv
<1>4. ASSUME ~astray
      PROVE  \E f, h, d \in 0..Len(stream) :
               /\ f > 0 /\ rq.method # "none" /\ rq.req = stream[f].req
               /\ HeaderRead(f, h, d) /\ taken = h
               /\ Framed(stream, f, h, d) /\ Older(f - 1)
               /\ ~rq.chunked => rq.length = d /\ \A i \in (h + 1)..(h + d) : stream[i].t = "b"
  <2>1. PICK f, h, d \in 0..Len(stream) :
          /\ f > 0 /\ rq.method # "none" /\ rq.req = stream[f].req
          /\ HeaderRead(f, h, d)
          /\ Framed(stream, f, h, d) /\ Older(f - 1)
    <3>1. Within
      BY <1>2, <1>4 DEF BodyInv, Between, Answering
    <3>2. QED
      BY <1>2, <3>1, WhereWithin
  <2>2. taken = h /\ Told(f, h, d)
    BY <1>3, <2>1 DEF HeaderRead
  <2>3. f \in Nat /\ h \in Nat /\ d \in Nat
    BY <1>2
  <2>4. ~rq.chunked => rq.length = d /\ \A i \in (h + 1)..(h + d) : stream[i].t = "b"
    BY <2>1, <2>2, <2>3, LengthTold
  <2>5. QED
    BY <2>1, <2>2, <2>4
<1>a. CASE rq.method \in {"EARLY", "REFUSED"}
  <2>1. /\ rq' = [rq EXCEPT !.state = "SENDING",
                            !.result = IF rq.method = "EARLY" THEN -307 ELSE -500]
        /\ astray' = (astray \/ HasBody(rq)) /\ pc' = "exit" /\ log' = log
    BY <1>a DEF HeadersReceived
  <2>2. rq'.state = "SENDING" /\ rq'.result \in {-307, -500}
    BY <1>2, <2>1 DEF Requests
  <2>3. Control'
    BY <2>1, <2>2 DEF Control
  <2>4. CASE astray'
    BY <1>3, <2>1, <2>3, <2>4, ExactLogNext DEF BodyInv
  <2>5. CASE ~astray'
    <3>1. ~astray /\ ~rq.chunked /\ ~(rq.length > 0)
      BY <2>1, <2>5 DEF HasBody
    <3>2. PICK f, h, d \in 0..Len(stream) :
            /\ f > 0 /\ rq.req = stream[f].req /\ taken = h
            /\ Framed(stream, f, h, d) /\ Older(f - 1) /\ rq.length = d
      BY <1>4, <3>1
    <3>3. f \in 1..Len(stream) /\ taken' = h + d
      BY <1>1, <1>2, <3>1, <3>2
    <3>4. Answering' /\ BodiesAreExact'
      BY <1>1, <1>2, <1>3, <2>1, <2>2, <3>1, <3>2, <3>3, RefusalBegins
    <3>5. QED
      BY <2>3, <3>4 DEF BodyInv
  <2>6. QED
    BY <2>4, <2>5
<1>b. CASE rq.method \notin {"EARLY", "REFUSED"} /\ HasBody(rq)
  <2>1. /\ rq' = [rq EXCEPT !.state = IF rq.chunked THEN "CHUNK_LEN" ELSE "BODY"]
        /\ pc' = IF rq.chunked THEN "chunk" ELSE "body"
        /\ astray' = (astray \/ rq.chunked) /\ log' = log
    BY <1>b DEF HeadersReceived
  <2>2. /\ rq'.state = IF rq.chunked THEN "CHUNK_LEN" ELSE "BODY"
        /\ rq'.method = rq.method /\ rq'.req = rq.req /\ rq'.result = 0
        /\ rq'.length = rq.length /\ rq'.chunked = rq.chunked /\ rq'.received = rq.received
    BY <1>2, <2>1 DEF Requests
  <2>3. Control' /\ BodiesAreExact'
    <3>1. Control'
      BY <2>1, <2>2 DEF Control
    <3>2. BodiesAreExact'
      BY <1>1, <1>3, <2>1, LogKept
    <3>3. QED
      BY <3>1, <3>2
  <2>4. ASSUME ~astray' PROVE Within'
    <3>1. ~astray /\ ~rq.chunked /\ rq.length > 0
      BY <1>b, <2>1, <2>4 DEF HasBody
    <3>2. PICK f, h, d \in 0..Len(stream) :
            /\ f > 0 /\ rq.method # "none" /\ rq.req = stream[f].req
            /\ HeaderRead(f, h, d) /\ taken = h
            /\ Framed(stream, f, h, d) /\ Older(f - 1)
            /\ rq.length = d /\ \A i \in (h + 1)..(h + d) : stream[i].t = "b"
      BY <1>4, <3>1
    <3>3. rq'.received = 0 /\ given' = <<>> /\ h + 0 = h
      BY <1>1, <2>2, <3>2 DEF HeaderRead
    <3>4. Len(given') = rq'.received /\ Follows(given', h)
      BY <3>3, EmptySeq DEF Follows
    <3>5. InBody(h, d)' /\ Older(f - 1)'
      BY <1>1, <2>1, <2>2, <3>1, <3>2, <3>3, <3>4 DEF InBody, Older
    <3>6. QED
      BY <1>1, <2>2, <3>2, <3>5 DEF Within
  <2>5. QED
    BY <2>3, <2>4 DEF BodyInv
<1>c. CASE rq.method \notin {"EARLY", "REFUSED"} /\ ~HasBody(rq)
  <2>1. /\ rq' = [rq EXCEPT !.state = "SENDING"] /\ pc' = "exit" /\ astray' = astray
        /\ log' = Append(log, [req |-> rq.req, body |-> <<>>])
    BY <1>c DEF HeadersReceived
  <2>2. rq'.state = "SENDING" /\ rq'.result = 0
    BY <1>2, <2>1 DEF Requests
  <2>3. Control'
    BY <2>1, <2>2 DEF Control
  <2>4. CASE astray'
    BY <2>3, <2>4, ExactLogNext DEF BodyInv
  <2>5. CASE ~astray'
    <3>1. ~astray /\ ~rq.chunked /\ ~(rq.length > 0)
      BY <1>c, <2>1, <2>5 DEF HasBody
    <3>2. PICK f, h, d \in 0..Len(stream) :
            /\ f > 0 /\ rq.req = stream[f].req /\ taken = h
            /\ Framed(stream, f, h, d) /\ Older(f - 1)
            /\ rq.length = d /\ \A i \in (h + 1)..(h + d) : stream[i].t = "b"
      BY <1>4, <3>1
    <3>3. f \in 1..Len(stream) /\ taken' = h + d /\ d = 0
      BY <1>1, <1>2, <3>1, <3>2
    <3>4. <<>> \in Seq(Nat) /\ Len(<<>>) = d /\ Follows(<<>>, h)
      BY <3>3, EmptySeq DEF Follows
    <3>5. Answering' /\ BodiesAreExact'
      BY <1>1, <1>2, <1>3, <2>1, <2>2, <3>1, <3>2, <3>3, <3>4, AnswerBegins
    <3>6. QED
      BY <2>3, <3>5 DEF BodyInv
  <2>6. QED
    BY <2>4, <2>5
<1>d. QED
  BY <1>a, <1>b, <1>c

(* A chunked request has left the structure that is followed here. *)
LEMMA ChunkBody ==
  ASSUME RecvInv, BodyInv, ChunkLength
  PROVE  BodyInv'
<1>1. /\ UNCHANGED astray /\ pc = "chunk" /\ rq \in Requests
      /\ rq.state = "CHUNK_LEN" /\ rq.result # -500
  BY TypesSplit DEF ChunkLength, RecvInv, BodyInv, Control, ControlTypes
<1>2. astray
  BY <1>1 DEF BodyInv, Between, Answering, Within, InHeader, HeaderRead, InBody
<1>3. \/ pc' = "exit" /\ rq' = rq
      \/ pc' = "body" /\ rq'.state = "CHUNK" /\ rq'.result = rq.result
  BY <1>1 DEF ChunkLength, Requests
<1>4. Control'
  BY <1>1, <1>3 DEF BodyInv, Control
<1>5. QED
  BY <1>1, <1>2, <1>4, ExactLogNext DEF BodyInv

(* Only the login takes more than is open of the body. *)
LEMMA TakesOpen ==
  ASSUME NEW m, m # "AUTH", NEW offered \in Nat, NEW open \in Int,
         NEW k \in Takes(m, offered, open), k > 0
  PROVE  k <= open
<1>1. Min({offered, open}) \in {offered, open} /\ Min({offered, open}) <= open
  BY MinOfTwo
<1> DEFINE l == Min({offered, open})
<1>2. l \in Int /\ l <= open
  BY <1>1
<1>3. k \in {0, l} \cup (0..l)
  BY DEF Takes
<1> HIDE DEF l
<1>4. QED
  BY <1>2, <1>3

(* What the handler got, after k more bytes of the buffer. *)
LEMMA GivenGrows ==
  ASSUME DataInv, NEW h \in Nat, NEW k \in 1..Len(buf), NEW g,
         given \in Seq(Nat), taken = h + Len(given), Follows(given, h),
         g = given \o SubSeq(buf, 1, k)
  PROVE  g \in Seq(Nat) /\ Len(g) = Len(given) + k /\ Follows(g, h)
<1>0. PICK n \in Nat : n = Len(given)
  BY LenProperties
<1>1. /\ buf \in Seq(Nat) /\ Len(buf) \in Nat /\ \A i \in 1..Len(buf) : buf[i] = taken + i
      /\ k \in Nat /\ taken = h + n
  BY <1>0, LenProperties DEF DataInv, DataTypes, Content
<1>2. /\ SubSeq(buf, 1, k) \in Seq(Nat) /\ Len(SubSeq(buf, 1, k)) = k
      /\ \A i \in 1..k : SubSeq(buf, 1, k)[i] = buf[i]
  <2>1. \A i \in 1..k : buf[i] \in Nat
    BY <1>1, ElementOfSeq
  <2>2. QED
    BY <1>1, <2>1, SubSeqProperties
<1>3. /\ g \in Seq(Nat) /\ Len(g) = n + k
      /\ \A i \in 1..(n + k) : g[i] = IF i <= n THEN given[i] ELSE SubSeq(buf, 1, k)[i - n]
  BY <1>0, <1>2, ConcatProperties
<1>4. ASSUME NEW i \in 1..(n + k) PROVE g[i] = h + i
  <2>1. CASE i <= n
    <3>1. i \in 1..n
      BY <1>1, <2>1
    <3>2. given[i] = h + i
      BY <1>0, <3>1 DEF Follows
    <3>3. QED
      BY <1>3, <2>1, <3>2
  <2>2. CASE ~(i <= n)
    <3>1. i - n \in 1..k /\ i - n \in 1..Len(buf)
      BY <1>1, <2>2
    <3>2. g[i] = taken + (i - n)
      BY <1>1, <1>2, <1>3, <2>2, <3>1
    <3>3. QED
      BY <1>1, <2>2, <3>2
  <2>3. QED
    BY <2>1, <2>2
<1>5. QED
  BY <1>0, <1>3, <1>4 DEF Follows

(* CGI_ContentReceived: k bytes of the body are consumed. *)
LEMMA ContentBody ==
  ASSUME RecvInv, BodyInv, ContentReceived
  PROVE  BodyInv'
<1>1. PICK k \in Takes(rq.method, size, rq.length - rq.received) :
       \/ /\ k = 0
          /\ pc' = "exit"
          /\ refused' = (size > 0)
          /\ UNCHANGED <<rq, buf, taken, given, log, astray, idle>>
       \/ /\ k > 0 /\ k <= Len(buf)
          /\ Consume(k)
          /\ rq' = AfterBody(k)
          /\ given' = given \o SubSeq(buf, 1, k)
          /\ log' = IF rq'.state # "SENDING" THEN log
                    ELSE Append(log, [req |-> rq.req, body |-> given'])
          /\ astray' = (astray \/ (rq.method = "AUTH" /\ rq.received + k > rq.length))
          /\ refused' = FALSE /\ idle' = FALSE
          /\ pc' = IF rq'.state = "SENDING" \/ chain = <<>> THEN "exit" ELSE "load"
       \/ /\ k > Len(buf)
          /\ pc' = "undefined"
          /\ UNCHANGED <<rq, buf, taken, given, log, astray, refused, idle>>
  BY DEF ContentReceived
<1>2. /\ stream' = stream /\ pc = "body" /\ rq \in Requests /\ taken \in Nat /\ DataInv
      /\ rq.state \in {"BODY", "CHUNK"} /\ rq.result = 0
      /\ log \in Seq([req : Nat, body : Seq(Nat)]) /\ given \in Seq(Nat)
      /\ Len(stream) \in Nat /\ Len(buf) \in Nat /\ size \in Nat
  <2>1. pc = "body" /\ stream' = stream
    BY DEF ContentReceived, net
  <2>2. rq \in Requests /\ taken \in Nat /\ DataInv /\ log \in Seq([req : Nat, body : Seq(Nat)])
        /\ size \in Nat /\ given \in Seq(Nat)
    BY TypesSplit, Lengths, RecvAssumption DEF RecvInv, ControlTypes, Histories, Locals
  <2>3. rq.state \in {"BODY", "CHUNK"} /\ rq.result = 0
    BY <2>1, <2>2 DEF BodyInv, Control, Requests, Results
  <2>4. QED
    BY <2>1, <2>2, <2>3, Lengths, StreamTokens
<1>a. CASE UNCHANGED <<rq, taken, given, log, astray>> /\ pc' \in {"exit", "undefined"}
  <2>1. Point' = Point
    BY <1>2, <1>a DEF Point
  <2>2. Control'
    BY <1>2, <1>a DEF Control
  <2>3. QED
    BY <1>2, <1>a, <2>1, <2>2, QuietBody
<1>b. CASE /\ k > 0 /\ k <= Len(buf)
           /\ Consume(k)
           /\ rq' = AfterBody(k)
           /\ given' = given \o SubSeq(buf, 1, k)
           /\ log' = IF rq'.state # "SENDING" THEN log
                     ELSE Append(log, [req |-> rq.req, body |-> given'])
           /\ astray' = (astray \/ (rq.method = "AUTH" /\ rq.received + k > rq.length))
           /\ pc' = IF rq'.state = "SENDING" \/ chain = <<>> THEN "exit" ELSE "load"
  <2>1. /\ rq.received \in Nat /\ rq.length \in Nat /\ rq.length - rq.received \in Int
        /\ k \in 1..Len(buf) /\ taken' = taken + k /\ rq.method \in Methods \cup {"none"}
    <3>1. rq.received \in Nat /\ rq.length \in Nat /\ rq.method \in Methods \cup {"none"}
      BY <1>2 DEF Requests
    <3>2. k \in Int
      BY <1>2, <3>1, TakesRange
    <3>3. QED
      BY <1>2, <1>b, <3>1, <3>2 DEF Consume
  <2>2. /\ rq'.result = 0 /\ rq'.method = rq.method /\ rq'.req = rq.req
        /\ rq'.state \in {rq.state, "CHUNK_LEN", "SENDING"}
    BY <1>2, <1>b, <2>1 DEF AfterBody, Requests
  <2>3. Control'
    <3>1. pc' = "exit" \/ (pc' = "load" /\ rq'.state # "SENDING")
      BY <1>b
    <3>2. QED
      BY <1>2, <2>2, <3>1 DEF Control
  <2>4. CASE astray'
    BY <2>3, <2>4, ExactLogNext DEF BodyInv
  <2>5. CASE ~astray'
    <3>1. ~astray /\ ~(rq.method = "AUTH" /\ rq.received + k > rq.length)
      BY <1>b, <2>5
    <3>2. PICK f, h, d \in 0..Len(stream) :
            /\ f > 0 /\ rq.method # "none" /\ rq.req = stream[f].req
            /\ InBody(h, d)
            /\ Framed(stream, f, h, d) /\ Older(f - 1)
      <4>1. Within
        BY <1>2, <3>1 DEF BodyInv, Between, Answering
      <4>2. QED
        BY <1>2, <4>1, WhereWithin
    <3>3. /\ rq.state = "BODY" /\ ~rq.chunked /\ rq.length = d /\ rq.received < d
          /\ taken = h + rq.received /\ Len(given) = rq.received
          /\ h \in Nat /\ d \in Nat /\ f \in 1..Len(stream)
      BY <1>2, <3>2 DEF InBody
    <3>b. /\ Follows(given, h)
          /\ \A i \in (h + 1)..(h + d) : stream[i].t = "b"
      BY <3>2 DEF InBody
    <3>4. rq.received + k <= d
      <4>1. CASE rq.method = "AUTH"
        BY <2>1, <3>1, <3>3, <4>1
      <4>2. CASE rq.method # "AUTH"
        <5>1. k <= rq.length - rq.received
          BY <1>2, <1>b, <2>1, <4>2, TakesOpen
        <5>2. QED
          BY <2>1, <3>3, <5>1
      <4>3. QED
        BY <4>1, <4>2
    <3>5. PICK n \in Nat : n = rq.received + k
      BY <2>1
    <3>6. given' \in Seq(Nat) /\ Len(given') = n /\ Follows(given', h) /\ n <= d /\ taken' = h + n
      <4>1. n <= d /\ taken' = h + n
        BY <2>1, <3>3, <3>4, <3>5
      <4>2. PICK g : g = given \o SubSeq(buf, 1, k)
        OBVIOUS
      <4>3. taken = h + Len(given) /\ n = Len(given) + k
        BY <3>3, <3>5
      <4>4. g \in Seq(Nat) /\ Len(g) = Len(given) + k /\ Follows(g, h)
        BY <1>2, <2>1, <3>3, <3>b, <4>2, <4>3, GivenGrows
      <4>5. QED
        BY <1>b, <4>1, <4>2, <4>3, <4>4
    <3>7. CASE n < d
      <4>1. rq' = [rq EXCEPT !.received = n]
        BY <1>b, <3>3, <3>5, <3>7 DEF AfterBody
      <4>2. /\ rq'.state = "BODY" /\ rq'.received = n /\ ~rq'.chunked /\ rq'.length = d
            /\ rq'.method = rq.method /\ rq'.req = rq.req
        BY <1>2, <3>3, <4>1 DEF Requests
      <4>3. log' = log
        BY <1>b, <4>2
      <4>4. InBody(h, d)' /\ Older(f - 1)'
        BY <1>2, <3>2, <3>b, <3>6, <3>7, <4>2, <4>3 DEF InBody, Older
      <4>5. Within'
        BY <1>2, <3>2, <4>2, <4>4 DEF Within
      <4>6. BodiesAreExact'
        BY <1>2, <2>5, <3>1, <4>3, LogKept DEF BodyInv
      <4>7. QED
        BY <2>3, <4>5, <4>6 DEF BodyInv
    <3>8. CASE ~(n < d)
      <4>1. n = d
        BY <3>3, <3>6, <3>8
      <4>2. rq' = [rq EXCEPT !.state = "SENDING"]
        BY <1>b, <3>3, <3>5, <3>8 DEF AfterBody
      <4>3. rq'.state = "SENDING"
        BY <1>2, <4>2 DEF Requests
      <4>4. log' = Append(log, [req |-> rq.req, body |-> given'])
        BY <1>b, <4>3
      <4>5. BodiesAreExact /\ taken' = h + d /\ Len(given') = d
        BY <3>6, <4>1 DEF BodyInv
      <4>6. PICK b \in Seq(Nat) : b = given'
        BY <3>6
      <4>7. /\ log' = Append(log, [req |-> rq.req, body |-> b])
            /\ Len(b) = d /\ Follows(b, h)
        BY <3>6, <4>4, <4>5, <4>6
      <4>8. Answering' /\ BodiesAreExact'
        <5>1. /\ DataInv /\ BodiesAreExact /\ ~astray /\ Framed(stream, f, h, d) /\ Older(f - 1)
              /\ log \in Seq([req : Nat, body : Seq(Nat)]) /\ rq.req = stream[f].req
              /\ stream' = stream /\ taken' = h + d /\ rq'.state = "SENDING"
              /\ f \in 1..Len(stream)
          BY <1>2, <3>1, <3>2, <3>3, <4>3, <4>5
        <5>2. \A i \in (h + 1)..(h + d) : stream[i].t = "b"
          BY <3>b
        <5>3. QED
          BY <4>7, <5>1, <5>2, AnswerBegins
      <4>9. QED
        BY <2>3, <4>8 DEF BodyInv
    <3>9. QED
      BY <3>7, <3>8
  <2>6. QED
    BY <2>4, <2>5
<1>c. QED
  BY <1>1, <1>a, <1>b

(* A new connection is between two requests. *)
LEMMA BodyInit == Init => BodyInv
<1> SUFFICES ASSUME Init PROVE BodyInv
  OBVIOUS
<1>1. /\ taken = 0 /\ pc = "wait" /\ rq = NoRequest /\ given = <<>> /\ log = <<>>
      /\ Len(log) = 0
  BY EmptySeq DEF Init
<1>2. /\ rq.state = "IDLE" /\ rq.method = "none" /\ ~rq.chunked /\ rq.length = 0
      /\ rq.received = 0 /\ rq.result = 0
  BY <1>1 DEF NoRequest
<1>3. Control
  BY <1>1, <1>2 DEF Control
<1>4. BodiesAreExact
  BY <1>1 DEF BodiesAreExact
<1>5. Between
  BY <1>1, <1>2 DEF Between, Point, Boundary, Older
<1>6. QED
  BY <1>3, <1>4, <1>5 DEF BodyInv

(* Every step preserves the invariant. *)
LEMMA BodyStep == RecvInv /\ BodyInv /\ [Next]_vars => BodyInv'
<1> SUFFICES ASSUME RecvInv, BodyInv, [Next]_vars PROVE BodyInv'
  OBVIOUS
<1>1. CASE Next
  BY <1>1, CallbackBody, RequestEndBody, LoadBody, ParseLineBody, LinesDoneBody, ShiftBody,
     HeadersBody, ChunkBody, ContentBody, ReturnBody
     DEF Next, Callback, HttpRequestProc
<1>2. CASE UNCHANGED vars
  <2>1. UNCHANGED <<stream, taken, pc, pos, rq, given, log, astray>>
    BY <1>2 DEF vars, net, history
  <2>2. Point' = Point /\ Control'
    BY <2>1 DEF Point, Control, BodyInv
  <2>3. QED
    BY <2>1, <2>2, QuietBody
<1>3. QED
  BY <1>1, <1>2

(***************************************************************************)
(* BodiesAreExact for every stream of requests, every way to cut it into   *)
(* segments and pbufs, and every size of the buffer: HttpRequestProc finds *)
(* the ends of headers and bodies and gives each request its own body.     *)
(***************************************************************************)
THEOREM BodiesStayExact == Spec => []BodiesAreExact
<1>1. Spec => []BodyInv
  BY BodyInit, BodyStep, RecvInvariant, PTL DEF Spec
<1>2. BodyInv => BodiesAreExact
  BY DEF BodyInv
<1>3. QED
  BY <1>1, <1>2, PTL

=============================================================================
