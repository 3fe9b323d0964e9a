--------------------------- MODULE NicQueueProofs ---------------------------
(***************************************************************************)
(* Theorems about NicQueue and about SsdpTimer, which is composed with it, *)
(* for every size of the mailbox and of the list of frames and for any     *)
(* number of frames.                                                       *)
(***************************************************************************)
EXTENDS SsdpTimer, FiniteSetTheorems, TLAPS

-----------------------------------------------------------------------------
(***************************************************************************)
(* The ring, as arithmetic.                                                *)
(***************************************************************************)

(* Going round the ring stays in it. *)
LEMMA NextIndexType == \A i \in Index : NextIndex(i) \in Index
BY QueueAssumption DEF Index, NextIndex

(* The ring never holds MAX_QUEUE_ENTRIES messages: one entry stays free. *)
LEMMA CountBound ==
  \A i, j \in Index : Count(i, j) \in 0..(MAX_QUEUE_ENTRIES - 1)
BY QueueAssumption DEF Index, Count

(* A post to a ring that is not full adds one message. *)
LEMMA PostCounts ==
  \A t, h \in Index : NextIndex(h) # t => Count(t, NextIndex(h)) = Count(t, h) + 1
BY QueueAssumption DEF Index, Count, NextIndex

(* A fetch from a ring that is not empty takes one message. *)
LEMMA FetchCounts ==
  \A t, h \in Index : Count(t, h) > 0 => Count(NextIndex(t), h) = Count(t, h) - 1
BY QueueAssumption DEF Index, Count, NextIndex

-----------------------------------------------------------------------------

(* A frame that main has captured and not yet announced. *)
Unannounced == IF main = "capture" THEN 0 ELSE 1

(* At most one notification per frame can be lost. *)
LossBound == lost + Unannounced <= captured

TypeInv == TypeOK /\ LossBound

(* TypeOK needs LossBound, for the number of the frame that is appended. *)
LEMMA TypeInit == Init => TypeInv
<1> SUFFICES ASSUME Init PROVE TypeInv
  OBVIOUS
<1>1. head \in Index /\ tail \in Index /\ ring \in [Index -> Messages]
  BY QueueAssumption DEF Init, Index, Messages, NULL
<1>2. dma \in Seq(1..MAX_PACKETS) /\ Len(dma) <= MAX_DMA_QUEUE
  BY QueueAssumption DEF Init
<1> QED
  BY <1>1, <1>2, QueueAssumption
  DEF Init, TypeInv, TypeOK, LossBound, Unannounced, Messages, NULL, Free

(* What a message does to a mailbox that is not full, however it is posted. *)
Puts(m) ==
  /\ ~IsFull
  /\ ring' = [ring EXCEPT ![head] = m]
  /\ head' = NextIndex(head)
  /\ sem' = IF Releasable THEN sem + 1 ELSE sem
  /\ tail' = tail

LEMMA TryPostPuts ==
  ASSUME NEW m, sys_mbox_trypost(m)
  PROVE  Puts(m) /\ UNCHANGED <<dmaLock, critSec>>
BY DEF sys_mbox_trypost, Puts, locks

(* The effect of a post on the types of the mailbox. *)
LEMMA PostType ==
  ASSUME TypeOK, NEW m \in Messages, Puts(m)
  PROVE  /\ ring' \in [Index -> Messages] /\ head' \in Index /\ tail' \in Index
         /\ sem' \in 0..MAX_QUEUE_ENTRIES
<1>1. head' \in Index
  BY NextIndexType DEF TypeOK, Puts
<1>2. ring' \in [Index -> Messages] /\ tail' \in Index
  BY DEF TypeOK, Puts
<1>3. sem' \in 0..MAX_QUEUE_ENTRIES
  BY QueueAssumption DEF TypeOK, Puts, Releasable
<1> QED
  BY <1>1, <1>2, <1>3

(* Every step keeps the types. *)
LEMMA TypeStep == TypeInv /\ [Next]_vars => TypeInv'
<1> SUFFICES ASSUME TypeInv, [Next]_vars PROVE TypeInv'
  OBVIOUS
<1> USE QueueAssumption
<1>1. CASE UNCHANGED vars
  BY <1>1 DEF TypeInv, TypeOK, LossBound, Unannounced, vars, locks, mbox, history
<1>2. CASE Capture
  BY <1>2 DEF Capture, TypeInv, TypeOK, LossBound, Unannounced, locks, mbox
<1>3. CASE LockQueue
  BY <1>3 DEF LockQueue, TypeInv, TypeOK, LossBound, Unannounced, mbox, history, Free
<1>4. CASE DMA_push
  <2>1. captured \in 1..MAX_PACKETS
    BY <1>4 DEF DMA_push, TypeInv, TypeOK, LossBound, Unannounced
  <2>2. dma' \in Seq(1..MAX_PACKETS) /\ Len(dma') <= MAX_DMA_QUEUE
    <3>1. CASE Len(dma) < MAX_DMA_QUEUE
      <4>1. dma' = Append(dma, captured)
        BY <1>4, <3>1 DEF DMA_push
      <4>2. dma \in Seq(1..MAX_PACKETS)
        BY DEF TypeInv, TypeOK
      <4>3. dma' \in Seq(1..MAX_PACKETS) /\ Len(dma') = Len(dma) + 1 /\ Len(dma) \in Nat
        BY <2>1, <4>1, <4>2
      <4> QED
        BY <3>1, <4>3
    <3>2. CASE ~(Len(dma) < MAX_DMA_QUEUE)
      BY <1>4, <3>2 DEF DMA_push, TypeInv, TypeOK
    <3> QED
      BY <3>1, <3>2
  <2> QED
    BY <1>4, <2>2 DEF DMA_push, TypeInv, TypeOK, LossBound, Unannounced, mbox, history, Free
<1>5. CASE NotifyFromEthISR
  <2>1. lost' \in 0..captured' /\ LossBound'
    <3>1. lost' = lost \/ lost' = lost + 1
      BY <1>5 DEF NotifyFromEthISR
    <3>2. lost + 1 <= captured /\ lost \in Nat /\ captured \in Nat
      BY <1>5 DEF NotifyFromEthISR, TypeInv, TypeOK, LossBound, Unannounced
    <3>3. captured' = captured /\ Unannounced' = 0
      BY <1>5 DEF NotifyFromEthISR, Unannounced
    <3>4. lost' \in 0..captured /\ lost' + 0 <= captured
      BY <3>1, <3>2
    <3> QED
      BY <3>3, <3>4 DEF LossBound
  <2>2. /\ ring' \in [Index -> Messages] /\ head' \in Index /\ tail' \in Index
        /\ sem' \in 0..MAX_QUEUE_ENTRIES
        /\ UNCHANGED <<dmaLock, critSec>>
    <3>1. CASE sys_mbox_trypost(ETHNET_INPUT)
      BY <3>1, TryPostPuts, PostType DEF TypeInv, ETHNET_INPUT, Messages
    <3>2. CASE PostFails
      BY <3>2 DEF PostFails, TypeInv, TypeOK, mbox, locks
    <3> QED
      BY <1>5, <3>1, <3>2 DEF NotifyFromEthISR
  <2> QED
    BY <1>5, <2>1, <2>2 DEF NotifyFromEthISR, TypeInv, TypeOK
<1>6. CASE CreateSemaphore
  BY <1>6 DEF CreateSemaphore, TypeInv, TypeOK, LossBound, Unannounced, locks, history
<1>7. CASE ClearRing
  <2>1. ring' \in [Index -> Messages] /\ head' \in Index /\ tail' \in Index
    BY <1>7 DEF ClearRing, Index, Messages, NULL
  <2> QED
    BY <1>7, <2>1 DEF ClearRing, TypeInv, TypeOK, LossBound, Unannounced, locks, history
<1>8. CASE WaitSemaphore
  BY <1>8 DEF WaitSemaphore, TypeInv, TypeOK, LossBound, Unannounced, locks, history
<1>9. CASE sys_arch_mbox_fetch
  <2>1. tail' \in Index /\ msg' \in Messages
    BY <1>9, NextIndexType DEF sys_arch_mbox_fetch, TypeInv, TypeOK
  <2> QED
    BY <1>9, <2>1 DEF sys_arch_mbox_fetch, TypeInv, TypeOK, LossBound, Unannounced, locks, history
<1>10. CASE HandlePacket
  BY <1>10 DEF HandlePacket, TypeInv, TypeOK, LossBound, Unannounced, locks, mbox,
               Messages, ETHNET_INPUT
<1>11. CASE ethernetif_input
  BY <1>11 DEF ethernetif_input, TypeInv, TypeOK, LossBound, Unannounced, mbox, history, Free
<1>12. CASE low_level_input
  <2>1. CASE dma = <<>>
    BY <1>12, <2>1 DEF low_level_input, TypeInv, TypeOK, LossBound, Unannounced, mbox,
                       history, Free, Messages, NULL
  <2>2. CASE dma # <<>>
    <3>1. Head(dma) \in Messages
      BY <2>2 DEF TypeInv, TypeOK, Messages
    <3>2. Tail(dma) \in Seq(1..MAX_PACKETS) /\ Len(Tail(dma)) <= MAX_DMA_QUEUE
      BY <2>2 DEF TypeInv, TypeOK
    <3> QED
      BY <1>12, <2>2, <3>1, <3>2 DEF low_level_input, TypeInv, TypeOK, LossBound,
                                     Unannounced, mbox, history, Free
  <2> QED
    BY <2>1, <2>2
<1>13. CASE tcpip_inpkt
  <2>1. /\ ring' \in [Index -> Messages] /\ head' \in Index /\ tail' \in Index
        /\ sem' \in 0..MAX_QUEUE_ENTRIES
        /\ UNCHANGED <<dmaLock, critSec>>
    <3>1. CASE sys_mbox_trypost(packet)
      BY <3>1, TryPostPuts, PostType DEF TypeInv, TypeOK
    <3>2. CASE UNCHANGED <<mbox, locks>>
      BY <3>2 DEF TypeInv, TypeOK, mbox, locks
    <3> QED
      BY <1>13, <3>1, <3>2 DEF tcpip_inpkt
  <2> QED
    BY <1>13, <2>1 DEF tcpip_inpkt, TypeInv, TypeOK, LossBound, Unannounced, history
<1> QED
  BY <1>1, <1>2, <1>3, <1>4, <1>5, <1>6, <1>7, <1>8, <1>9, <1>10, <1>11, <1>12, <1>13
  DEF Next, MainThread, AppThread

(* The types, for every behaviour of NicQueue. *)
THEOREM QueueTypeCorrect == Spec => []TypeOK
<1>1. TypeInv => TypeOK
  BY DEF TypeInv
<1> QED
  BY <1>1, TypeInit, TypeStep, PTL DEF Spec

-----------------------------------------------------------------------------
(***************************************************************************)
(* The semaphore.                                                          *)
(***************************************************************************)

(* No frame is announced between the two halves of sys_mbox_new. *)
QuietStart == "created" \notin PostPhases

(* AppThread fetches nothing, and nothing can be fetched, before it is ready. *)
BeforeReady == phase # "ready" => sem = 0 /\ app = "init"

SemInv == TypeInv /\ BeforeReady /\ SemaphoreCounts

(* What a post does to the count, once the mailbox is there. *)
LEMMA PostKeepsCount ==
  ASSUME TypeOK, SemaphoreCounts, phase = "ready", phase' = phase,
         Permit' = Permit, NEW m, Puts(m)
  PROVE  SemaphoreCounts'
<1>1. Posted' = Posted + 1
  BY PostCounts DEF TypeOK, Puts, IsFull, Posted
<1>2. Posted \in 0..(MAX_QUEUE_ENTRIES - 1) /\ Posted' \in 0..(MAX_QUEUE_ENTRIES - 1)
  <2>1. head' \in Index /\ tail' \in Index
    BY NextIndexType DEF TypeOK, Puts
  <2> QED
    BY <2>1, CountBound DEF TypeOK, Posted
<1>3. Permit \in 0..1
  BY DEF Permit
<1>4. sem' = sem + 1
  BY <1>1, <1>2, <1>3, QueueAssumption
  DEF SemaphoreCounts, Puts, Releasable, TypeOK
<1> QED
  BY <1>1, <1>2, <1>3, <1>4, QueueAssumption DEF SemaphoreCounts, TypeOK

(* Steps that touch neither mailbox nor the place where AppThread fetches. *)
LEMMA SameCount ==
  ASSUME SemInv, UNCHANGED <<phase, head, tail, sem>>, Permit' = Permit,
         app' = "init" <=> app = "init"
  PROVE  BeforeReady' /\ SemaphoreCounts'
BY DEF SemInv, BeforeReady, SemaphoreCounts, Posted

(* Every step keeps semaphore and ring in agreement. *)
LEMMA SemStep ==
  ASSUME QuietStart PROVE SemInv /\ [Next]_vars => SemInv'
<1> SUFFICES ASSUME SemInv, [Next]_vars PROVE BeforeReady' /\ SemaphoreCounts'
  BY TypeStep DEF SemInv
<1> USE QueueAssumption
<1>1. CASE UNCHANGED vars
  BY <1>1, SameCount DEF vars, mbox, Permit
<1>2. CASE Capture \/ LockQueue \/ DMA_push
  BY <1>2, SameCount DEF Capture, LockQueue, DMA_push, mbox, Permit
<1>3. CASE NotifyFromEthISR
  <2>1. phase # "created" /\ UNCHANGED <<phase, app>> /\ Permit' = Permit
    BY <1>3 DEF NotifyFromEthISR, QuietStart, Permit
  <2>2. CASE sys_mbox_trypost(ETHNET_INPUT) /\ phase = "ready"
    BY <2>1, <2>2, TryPostPuts, PostKeepsCount DEF SemInv, TypeInv, BeforeReady
  <2>3. CASE sys_mbox_trypost(ETHNET_INPUT) /\ phase = "down"
    BY <2>1, <2>3 DEF SemInv, BeforeReady, SemaphoreCounts, sys_mbox_trypost, Releasable
  <2>4. CASE PostFails
    BY <2>1, <2>4, SameCount DEF PostFails, mbox
  <2> QED
    BY <1>3, <2>1, <2>2, <2>3, <2>4 DEF NotifyFromEthISR, SemInv, TypeInv, TypeOK
<1>4. CASE CreateSemaphore
  BY <1>4 DEF CreateSemaphore, SemInv, BeforeReady, SemaphoreCounts
<1>5. CASE ClearRing
  BY <1>5 DEF ClearRing, SemInv, BeforeReady, SemaphoreCounts, Posted, Count, Permit
<1>6. CASE WaitSemaphore
  BY <1>6 DEF WaitSemaphore, SemInv, TypeInv, TypeOK, BeforeReady, SemaphoreCounts,
              Posted, Permit
<1>7. CASE sys_arch_mbox_fetch
  <2>1. phase = "ready" /\ Posted = sem + 1
    BY <1>7 DEF sys_arch_mbox_fetch, SemInv, BeforeReady, SemaphoreCounts, Permit
  <2>2. Posted' = Posted - 1
    BY <1>7, <2>1, FetchCounts DEF sys_arch_mbox_fetch, SemInv, TypeInv, TypeOK, Posted
  <2> QED
    BY <1>7, <2>1, <2>2 DEF sys_arch_mbox_fetch, SemInv, TypeInv, TypeOK, BeforeReady,
                            SemaphoreCounts, Permit
<1>8. CASE HandlePacket \/ ethernetif_input \/ low_level_input
  BY <1>8, SameCount DEF HandlePacket, ethernetif_input, low_level_input, mbox, Permit
<1>9. CASE tcpip_inpkt
  <2>1. phase = "ready" /\ phase' = phase /\ Permit' = Permit /\ app' = "inloop"
    BY <1>9 DEF tcpip_inpkt, SemInv, BeforeReady, Permit
  <2>2. CASE sys_mbox_trypost(packet)
    BY <2>1, <2>2, TryPostPuts, PostKeepsCount DEF SemInv, TypeInv, BeforeReady
  <2>3. CASE UNCHANGED <<mbox, locks>>
    BY <1>9, <2>1, <2>3, SameCount DEF tcpip_inpkt, mbox
  <2> QED
    BY <1>9, <2>2, <2>3 DEF tcpip_inpkt
<1> QED
  BY <1>1, <1>2, <1>3, <1>4, <1>5, <1>6, <1>7, <1>8, <1>9 DEF Next, MainThread, AppThread

(***************************************************************************)
(* The semaphore counts the messages of the mailbox, whatever its size,    *)
(* unless a frame is announced while sys_mbox_new is at work.              *)
(***************************************************************************)
THEOREM SemaphoreIsExact ==
  ASSUME QuietStart PROVE Spec => []SemaphoreCounts
<1>1. Init => SemInv
  BY TypeInit DEF Init, SemInv, BeforeReady, SemaphoreCounts
<1>2. SemInv => SemaphoreCounts
  BY DEF SemInv
<1> QED
  BY <1>1, <1>2, SemStep, PTL DEF Spec

-----------------------------------------------------------------------------
(***************************************************************************)
(* The order of the frames.                                                *)
(***************************************************************************)

(* A post makes the entry at head the last one in the ring. *)
LEMMA PostPlace ==
  \A t, h, i \in Index :
    NextIndex(h) # t =>
      /\ Count(t, i) < Count(t, NextIndex(h)) <=> Count(t, i) < Count(t, h) \/ i = h
      /\ ~(Count(t, h) < Count(t, h))
BY QueueAssumption DEF Index, Count, NextIndex

(* A fetch takes the entry at tail out, and moves the others up by one. *)
LEMMA FetchPlace ==
  \A t, h, i \in Index :
    Count(t, h) > 0 =>
      /\ Count(NextIndex(t), i) < Count(NextIndex(t), h) <=> Count(t, i) < Count(t, h) /\ i # t
      /\ i # t => Count(NextIndex(t), i) = Count(t, i) - 1 /\ Count(t, t) < Count(t, i)
      /\ Count(t, t) < Count(t, h)
BY QueueAssumption DEF Index, Count, NextIndex

(* The frames numbered from here on are not yet in g_dmaQueue. *)
Horizon == IF main \in {"push", "append"} THEN captured ELSE captured + 1

(* Frame f was captured before the frames that are in g_dmaQueue or to come. *)
Before(f) == f < Horizon /\ \A k \in 1..Len(dma) : f < dma[k]

DmaOrder ==
  /\ \A k \in 1..Len(dma) : dma[k] < Horizon
  /\ \A k, l \in 1..Len(dma) : k < l => dma[k] < dma[l]

(* Entry i holds a frame that is to be fetched. *)
Frame(i) == InRing(i) /\ ring[i] > 0

RingOrder ==
  /\ \A i \in Index : Frame(i) => last < ring[i] /\ Before(ring[i])
  /\ \A i, j \in Index :
       Frame(i) /\ Frame(j) /\ Count(tail, i) < Count(tail, j) => ring[i] < ring[j]

(* The frame that AppThread popped is later than those in the ring ... *)
InputOrder ==
  app = "input" =>
    /\ last < packet /\ Before(packet)
    /\ \A i \in Index : Frame(i) => ring[i] < packet

(* ... and the one it fetched is earlier. *)
HandleOrder ==
  app = "handle" /\ msg > 0 =>
    /\ last < msg /\ Before(msg)
    /\ \A i \in Index : Frame(i) => msg < ring[i]

(***************************************************************************)
(* On their way from the network card to ethernet_input the frames are in  *)
(* one order: the last one handed over, the one fetched, the ring, the one *)
(* popped, g_dmaQueue, and those to come.                                  *)
(***************************************************************************)
OrderInv ==
  /\ SemInv
  /\ Before(last) /\ DmaOrder /\ RingOrder /\ InputOrder /\ HandleOrder

(* The numbers that are compared. *)
LEMMA OrderTypes ==
  ASSUME TypeOK
  PROVE  /\ Len(dma) \in Nat /\ \A k \in 1..Len(dma) : dma[k] \in 1..MAX_PACKETS
         /\ captured \in Int /\ last \in Int /\ msg \in Int /\ packet \in Int
         /\ \A i \in Index : ring[i] \in Int
         /\ Horizon \in Int
<1>1. captured \in Int /\ last \in Int /\ msg \in Int /\ packet \in Int
  BY QueueAssumption DEF TypeOK, Messages
<1>2. \A i \in Index : ring[i] \in Int
  BY QueueAssumption DEF TypeOK, Messages
<1>3. Len(dma) \in Nat /\ \A k \in 1..Len(dma) : dma[k] \in 1..MAX_PACKETS
  <2> DEFINE S == 1..MAX_PACKETS
  <2>1. dma \in Seq(S)
    BY DEF TypeOK
  <2> HIDE DEF S
  <2>2. Len(dma) \in Nat /\ \A k \in 1..Len(dma) : dma[k] \in S
    BY <2>1
  <2> QED
    BY <2>2 DEF S
<1>4. Horizon \in Int
  BY <1>1 DEF Horizon
<1> QED
  BY <1>1, <1>2, <1>3, <1>4

(* What has left g_dmaQueue stays before what is in it. *)
LEMMA BeforeStep ==
  ASSUME TypeInv, [Next]_vars
  PROVE  \A f \in Int : Before(f) => Before(f)'
<1> SUFFICES ASSUME NEW f \in Int, Before(f) PROVE Before(f)'
  OBVIOUS
<1>t. /\ Len(dma) \in Nat /\ \A k \in 1..Len(dma) : dma[k] \in 1..MAX_PACKETS
      /\ captured \in Int /\ dma \in Seq(1..MAX_PACKETS)
  BY OrderTypes DEF TypeInv, TypeOK
<1>1. CASE dma' = dma /\ Horizon' = Horizon
  BY <1>1 DEF Before
<1>2. CASE Capture
  <2>1. dma' = dma /\ Horizon' = Horizon
    BY <1>2 DEF Capture, Horizon
  <2> QED
    BY <1>1, <2>1
<1>3. CASE DMA_push
  <2>1. Horizon = captured /\ Horizon' = captured + 1
    BY <1>3 DEF DMA_push, history, Horizon
  <2>2. CASE dma' = dma
    BY <1>t, <2>1, <2>2 DEF Before
  <2>3. CASE dma' = Append(dma, captured)
    <3>1. /\ Len(dma') = Len(dma) + 1
          /\ \A k \in 1..Len(dma) : dma'[k] = dma[k]
          /\ dma'[Len(dma) + 1] = captured
      BY <1>t, <2>3
    <3>2. ASSUME NEW k \in 1..Len(dma') PROVE f < dma'[k]
      <4>1. k \in 1..Len(dma) \/ k = Len(dma) + 1
        BY <1>t, <3>1
      <4> QED
        BY <2>1, <3>1, <4>1 DEF Before
    <3> QED
      BY <1>t, <2>1, <3>2 DEF Before
  <2> QED
    BY <1>3, <2>2, <2>3 DEF DMA_push
<1>4. CASE low_level_input
  <2>1. Horizon' = Horizon
    BY <1>4 DEF low_level_input, history, Horizon
  <2>2. CASE dma # <<>>
    <3>1. dma' = Tail(dma)
      BY <1>4, <2>2 DEF low_level_input
    <3>2. Len(dma') = Len(dma) - 1 /\ \A k \in 1..Len(dma') : k + 1 \in 1..Len(dma) /\ dma'[k] = dma[k + 1]
      BY <1>t, <2>2, <3>1
    <3> QED
      BY <2>1, <3>2 DEF Before
  <2> QED
    BY <1>1, <1>4, <2>1, <2>2 DEF low_level_input
<1>5. CASE LockQueue \/ NotifyFromEthISR
  <2>1. dma' = dma /\ Horizon' = Horizon
    BY <1>5 DEF LockQueue, NotifyFromEthISR, history, Horizon
  <2> QED
    BY <1>1, <2>1
<1>6. CASE \/ CreateSemaphore \/ ClearRing \/ WaitSemaphore \/ sys_arch_mbox_fetch
           \/ HandlePacket \/ ethernetif_input \/ tcpip_inpkt \/ UNCHANGED vars
  <2>1. dma' = dma /\ main' = main /\ captured' = captured
    BY <1>6 DEF CreateSemaphore, ClearRing, WaitSemaphore, sys_arch_mbox_fetch,
                HandlePacket, ethernetif_input, tcpip_inpkt, vars, history
  <2> QED
    BY <1>1, <2>1 DEF Horizon
<1> QED
  BY <1>2, <1>3, <1>4, <1>5, <1>6 DEF Next, MainThread, AppThread

(* g_dmaQueue is in order. *)
LEMMA DmaOrderStep ==
  ASSUME TypeInv, DmaOrder, [Next]_vars
  PROVE  DmaOrder'
<1>t. /\ Len(dma) \in Nat /\ \A k \in 1..Len(dma) : dma[k] \in 1..MAX_PACKETS
      /\ captured \in Int /\ dma \in Seq(1..MAX_PACKETS)
  BY OrderTypes DEF TypeInv, TypeOK
<1>1. CASE dma' = dma /\ Horizon' = Horizon
  BY <1>1 DEF DmaOrder
<1>2. CASE Capture
  <2>1. dma' = dma /\ Horizon' = Horizon
    BY <1>2 DEF Capture, Horizon
  <2> QED
    BY <1>1, <2>1
<1>3. CASE DMA_push
  <2>1. Horizon = captured /\ Horizon' = captured + 1
    BY <1>3 DEF DMA_push, history, Horizon
  <2>2. CASE dma' = dma
    <3>1. \A k \in 1..Len(dma) : dma[k] < captured + 1
      BY <1>t, <2>1 DEF DmaOrder
    <3> QED
      BY <2>1, <2>2, <3>1 DEF DmaOrder
  <2>3. CASE dma' = Append(dma, captured)
    <3>1. /\ Len(dma') = Len(dma) + 1
          /\ \A k \in 1..Len(dma) : dma'[k] = dma[k]
          /\ dma'[Len(dma) + 1] = captured
      BY <1>t, <2>3
    <3>2. \A k \in 1..Len(dma') : k \in 1..Len(dma) \/ k = Len(dma) + 1
      BY <1>t, <3>1
    <3>3. \A k \in 1..Len(dma') : dma'[k] < Horizon'
      BY <1>t, <2>1, <3>1, <3>2 DEF DmaOrder
    <3>4. ASSUME NEW k \in 1..Len(dma'), NEW l \in 1..Len(dma'), k < l
          PROVE  dma'[k] < dma'[l]
      <4>1. k \in 1..Len(dma)
        BY <1>t, <3>1, <3>4
      <4>2. CASE l \in 1..Len(dma)
        BY <3>1, <3>4, <4>1, <4>2 DEF DmaOrder
      <4>3. CASE l = Len(dma) + 1
        BY <2>1, <3>1, <4>1, <4>3 DEF DmaOrder
      <4> QED
        BY <3>2, <4>2, <4>3
    <3> QED
      BY <3>3, <3>4 DEF DmaOrder
  <2> QED
    BY <1>3, <2>2, <2>3 DEF DMA_push
<1>4. CASE low_level_input
  <2>1. Horizon' = Horizon
    BY <1>4 DEF low_level_input, history, Horizon
  <2>2. CASE dma # <<>>
    <3>1. dma' = Tail(dma)
      BY <1>4, <2>2 DEF low_level_input
    <3>2. /\ Len(dma') = Len(dma) - 1
          /\ \A k \in 1..Len(dma') : k + 1 \in 1..Len(dma) /\ dma'[k] = dma[k + 1]
      BY <1>t, <2>2, <3>1
    <3>3. \A k \in 1..Len(dma') : dma'[k] < Horizon'
      BY <2>1, <3>2 DEF DmaOrder
    <3>4. ASSUME NEW k \in 1..Len(dma'), NEW l \in 1..Len(dma'), k < l
          PROVE  dma'[k] < dma'[l]
      <4>1. k + 1 < l + 1
        BY <3>4
      <4> QED
        BY <3>2, <4>1 DEF DmaOrder
    <3> QED
      BY <3>3, <3>4 DEF DmaOrder
  <2> QED
    BY <1>1, <1>4, <2>1, <2>2 DEF low_level_input
<1>5. CASE LockQueue \/ NotifyFromEthISR
  <2>1. dma' = dma /\ Horizon' = Horizon
    BY <1>5 DEF LockQueue, NotifyFromEthISR, history, Horizon
  <2> QED
    BY <1>1, <2>1
<1>6. CASE \/ CreateSemaphore \/ ClearRing \/ WaitSemaphore \/ sys_arch_mbox_fetch
           \/ HandlePacket \/ ethernetif_input \/ tcpip_inpkt \/ UNCHANGED vars
  <2>1. dma' = dma /\ main' = main /\ captured' = captured
    BY <1>6 DEF CreateSemaphore, ClearRing, WaitSemaphore, sys_arch_mbox_fetch,
                HandlePacket, ethernetif_input, tcpip_inpkt, vars, history
  <2> QED
    BY <1>1, <2>1 DEF Horizon
<1> QED
  BY <1>2, <1>3, <1>4, <1>5, <1>6 DEF Next, MainThread, AppThread

(* The entries that a post, and that a fetch, leave to be fetched. *)
LEMMA PostFrames ==
  ASSUME TypeOK, NEW m, Puts(m)
  PROVE  /\ tail' = tail
         /\ ring'[head] = m /\ \A i \in Index : i # head => ring'[i] = ring[i]
         /\ \A i \in Index : InRing(i)' <=> InRing(i) \/ i = head
         /\ ~InRing(head)
         /\ \A i \in Index : InRing(i) => Count(tail, i) < Count(tail, head)
<1>1. head \in Index /\ tail \in Index /\ NextIndex(head) # tail
      /\ head' = NextIndex(head) /\ tail' = tail
  BY DEF TypeOK, Puts, IsFull
<1>2. ring'[head] = m /\ \A i \in Index : i # head => ring'[i] = ring[i]
  BY <1>1 DEF TypeOK, Puts
<1>3. \A i \in Index : InRing(i)' <=> InRing(i) \/ i = head
  BY <1>1, PostPlace DEF InRing, Posted
<1>4. ~InRing(head)
  BY <1>1, PostPlace DEF InRing, Posted
<1> QED
  BY <1>1, <1>2, <1>3, <1>4 DEF InRing, Posted

LEMMA FetchFrames ==
  ASSUME TypeOK, SemInv, sys_arch_mbox_fetch
  PROVE  /\ ring' = ring /\ InRing(tail)
         /\ \A i \in Index : InRing(i)' <=> InRing(i) /\ i # tail
         /\ \A i \in Index : i # tail => /\ Count(tail', i) = Count(tail, i) - 1
                                         /\ Count(tail, tail) < Count(tail, i)
<1>1. head \in Index /\ tail \in Index /\ tail' = NextIndex(tail) /\ head' = head /\ ring' = ring
  BY DEF TypeOK, sys_arch_mbox_fetch
<1>2. Count(tail, head) > 0
  <2>1. phase = "ready" /\ Posted = sem + 1 /\ sem \in Nat
    BY DEF sys_arch_mbox_fetch, SemInv, BeforeReady, SemaphoreCounts, Permit, TypeOK
  <2> QED
    BY <2>1 DEF Posted
<1>3. \A i \in Index : InRing(i)' <=> InRing(i) /\ i # tail
  BY <1>1, <1>2, FetchPlace DEF InRing, Posted
<1>4. InRing(tail)
  BY <1>1, <1>2, FetchPlace DEF InRing, Posted
<1> QED
  BY <1>1, <1>2, <1>3, <1>4, FetchPlace

(* Steps that hand nothing over and leave the mailbox alone. *)
LEMMA RingKept ==
  ASSUME TypeOK, RingOrder, UNCHANGED <<ring, head, tail, last>>,
         \A f \in Int : Before(f) => Before(f)'
  PROVE  RingOrder' /\ \A i \in Index : Frame(i)' <=> Frame(i)
<1>1. \A i \in Index : Frame(i)' <=> Frame(i)
  BY DEF Frame, InRing, Posted
<1>2. \A i \in Index : ring[i] \in Int
  BY OrderTypes
<1>3. \A i \in Index : Frame(i)' => last' < ring'[i] /\ Before(ring[i])'
  BY <1>1, <1>2 DEF RingOrder
<1>4. \A i, j \in Index :
        Frame(i)' /\ Frame(j)' /\ Count(tail', i) < Count(tail', j) => ring'[i] < ring'[j]
  BY <1>1 DEF RingOrder
<1> QED
  BY <1>1, <1>3, <1>4 DEF RingOrder

(* A post of a message that is no frame, or of the frame that was popped. *)
LEMMA PostKeepsOrder ==
  ASSUME TypeOK, RingOrder, \A f \in Int : Before(f) => Before(f)', last' = last,
         NEW m \in Int, sys_mbox_trypost(m),
         m > 0 => /\ last < m /\ Before(m)
                  /\ \A i \in Index : Frame(i) => ring[i] < m
  PROVE  /\ RingOrder'
         /\ \A i \in Index :
              Frame(i)' => \/ Frame(i) /\ ring'[i] = ring[i]
                           \/ m > 0 /\ ring'[i] = m
<1>t. (\A i \in Index : ring[i] \in Int) /\ head \in Index
  BY OrderTypes DEF TypeOK
<1>p. /\ tail' = tail
      /\ ring'[head] = m /\ \A i \in Index : i # head => ring'[i] = ring[i]
      /\ \A i \in Index : InRing(i)' <=> InRing(i) \/ i = head
      /\ ~InRing(head)
      /\ \A i \in Index : InRing(i) => Count(tail, i) < Count(tail, head)
  BY TryPostPuts, PostFrames
<1>1. ASSUME NEW i \in Index, Frame(i)'
      PROVE  \/ i # head /\ Frame(i) /\ ring'[i] = ring[i]
             \/ i = head /\ m > 0 /\ ring'[i] = m
  <2>1. InRing(i)' /\ ring'[i] > 0
    BY <1>1 DEF Frame
  <2>2. InRing(i) \/ i = head
    BY <1>p, <2>1
  <2> QED
    BY <1>p, <2>1, <2>2 DEF Frame
<1>2. \A i \in Index : Frame(i)' => last' < ring'[i] /\ Before(ring[i])'
  BY <1>t, <1>1 DEF RingOrder, Before
<1>3. ASSUME NEW i \in Index, NEW j \in Index, Frame(i)', Frame(j)',
             Count(tail', i) < Count(tail', j)
      PROVE  ring'[i] < ring'[j]
  <2>1. CASE i # head /\ j # head
    BY <1>p, <1>1, <1>3, <2>1 DEF RingOrder
  <2>2. CASE i # head /\ j = head
    BY <1>1, <1>3, <2>2
  <2>3. CASE i = head
    <3>1. tail \in Index /\ tail' = tail
      BY <1>p DEF TypeOK
    <3>2. Count(tail, i) \in Int /\ Count(tail, j) \in Int
      BY <3>1, CountBound
    <3>3. j # head
      BY <1>3, <2>3, <3>1, <3>2
    <3>4. Count(tail, j) < Count(tail, head)
      BY <1>p, <1>1, <1>3, <3>3 DEF Frame
    <3> QED
      BY <1>3, <2>3, <3>1, <3>2, <3>4
  <2> QED
    BY <2>1, <2>2, <2>3
<1> QED
  BY <1>1, <1>2, <1>3 DEF RingOrder

Moves == RingOrder /\ InputOrder /\ HandleOrder /\ Before(last)

(* Steps in which no frame moves beyond g_dmaQueue. *)
LEMMA MovesKept ==
  ASSUME TypeOK, Moves, UNCHANGED <<ring, head, tail, last>>,
         \A f \in Int : Before(f) => Before(f)',
         app' = "input" => app = "input" /\ packet' = packet,
         app' = "handle" /\ msg' > 0 => app = "handle" /\ msg' = msg
  PROVE  Moves'
<1>t. last \in Int /\ msg \in Int /\ packet \in Int /\ \A i \in Index : ring[i] \in Int
  BY OrderTypes
<1>1. RingOrder' /\ \A i \in Index : Frame(i)' <=> Frame(i)
  BY RingKept DEF Moves
<1>2. Before(last)'
  BY <1>t DEF Moves, Before
<1>3. InputOrder'
  BY <1>t, <1>1 DEF Moves, InputOrder, Before
<1>4. HandleOrder'
  BY <1>t, <1>1 DEF Moves, HandleOrder, Before
<1> QED
  BY <1>1, <1>2, <1>3, <1>4 DEF Moves

(* Every step keeps the frames in order. *)
LEMMA OrderStep ==
  ASSUME QuietStart PROVE OrderInv /\ [Next]_vars => OrderInv'
<1> SUFFICES ASSUME OrderInv, [Next]_vars PROVE Moves'
  BY SemStep, DmaOrderStep DEF OrderInv, Moves, SemInv
<1>m. Moves /\ TypeOK /\ SemInv
  BY DEF OrderInv, Moves, SemInv, TypeInv
<1>b. \A f \in Int : Before(f) => Before(f)'
  BY BeforeStep DEF OrderInv, SemInv
<1>t. /\ last \in Int /\ msg \in Int /\ packet \in Int
      /\ \A i \in Index : ring[i] \in Int
      /\ tail \in Index
  BY <1>m, OrderTypes DEF TypeOK
<1>1. CASE UNCHANGED vars \/ Capture \/ LockQueue \/ DMA_push \/ CreateSemaphore
  BY <1>1, <1>m, <1>b, MovesKept
  DEF vars, Capture, LockQueue, DMA_push, CreateSemaphore, mbox, history
<1>2. CASE WaitSemaphore \/ ethernetif_input
  BY <1>2, <1>m, <1>b, MovesKept DEF WaitSemaphore, ethernetif_input, mbox, history
<1>3. CASE NotifyFromEthISR
  <2>u. UNCHANGED <<app, msg, packet, last>>
    BY <1>3 DEF NotifyFromEthISR
  <2>1. CASE sys_mbox_trypost(ETHNET_INPUT)
    <3>0. sys_mbox_trypost(0)
      BY <2>1 DEF ETHNET_INPUT
    <3>1. /\ RingOrder'
          /\ \A i \in Index : Frame(i)' => Frame(i) /\ ring'[i] = ring[i]
      BY <1>m, <1>b, <2>u, <3>0, PostKeepsOrder DEF Moves
    <3>2. Before(last)' /\ InputOrder' /\ HandleOrder'
      BY <1>m, <1>b, <1>t, <2>u, <3>1 DEF Moves, InputOrder, HandleOrder, Before
    <3> QED
      BY <3>1, <3>2 DEF Moves
  <2>2. CASE PostFails
    BY <1>m, <1>b, <2>u, <2>2, MovesKept DEF PostFails, mbox
  <2> QED
    BY <1>3, <2>1, <2>2 DEF NotifyFromEthISR
<1>4. CASE ClearRing
  <2>1. app' = "inloop" /\ last' = last
    BY <1>4 DEF ClearRing, history
  <2>2. \A i \in Index : ring'[i] = -1
    BY <1>4 DEF ClearRing, NULL
  <2>3. \A i \in Index : ~Frame(i)'
    BY <2>2 DEF Frame
  <2>4. Before(last)'
    BY <1>m, <1>b, <1>t, <2>1 DEF Moves, Before
  <2> QED
    BY <2>1, <2>3, <2>4 DEF Moves, RingOrder, InputOrder, HandleOrder
<1>5. CASE sys_arch_mbox_fetch
  <2>p. /\ ring' = ring /\ InRing(tail)
        /\ \A i \in Index : InRing(i)' <=> InRing(i) /\ i # tail
        /\ \A i \in Index : i # tail => /\ Count(tail', i) = Count(tail, i) - 1
                                        /\ Count(tail, tail) < Count(tail, i)
    BY <1>5, <1>m, FetchFrames
  <2>u. last' = last /\ msg' = ring[tail] /\ app' # "input"
    BY <1>5 DEF sys_arch_mbox_fetch, history
  <2>1. ASSUME NEW i \in Index, Frame(i)'
        PROVE  Frame(i) /\ i # tail
    BY <2>1, <2>p DEF Frame
  <2>2. RingOrder'
    <3>1. \A i \in Index : Frame(i)' => last' < ring'[i] /\ Before(ring[i])'
      BY <1>m, <1>b, <1>t, <2>p, <2>u, <2>1 DEF Moves, RingOrder, Before
    <3>2. ASSUME NEW i \in Index, NEW j \in Index, Frame(i)', Frame(j)',
                 Count(tail', i) < Count(tail', j)
          PROVE  ring'[i] < ring'[j]
      <4>1. Frame(i) /\ Frame(j) /\ i # tail /\ j # tail
        BY <2>1, <3>2
      <4>2. Count(tail, i) \in Int /\ Count(tail, j) \in Int
        BY <1>t, CountBound
      <4>3. Count(tail, i) < Count(tail, j)
        BY <2>p, <3>2, <4>1, <4>2
      <4> QED
        BY <1>m, <2>p, <4>1, <4>3 DEF Moves, RingOrder
    <3> QED
      BY <3>1, <3>2 DEF RingOrder
  <2>3. HandleOrder'
    <3> SUFFICES ASSUME msg' > 0
                 PROVE  /\ last' < msg' /\ Before(msg)'
                        /\ \A i \in Index : Frame(i)' => msg' < ring'[i]
      BY DEF HandleOrder
    <3>1. Frame(tail)
      BY <2>p, <2>u DEF Frame
    <3>2. last < ring[tail] /\ Before(ring[tail])
      BY <1>m, <1>t, <3>1 DEF Moves, RingOrder
    <3>3. last' < msg' /\ Before(msg)'
      BY <1>b, <1>t, <2>u, <3>2 DEF Before
    <3>4. \A i \in Index : Frame(i)' => msg' < ring'[i]
      BY <1>m, <1>t, <2>p, <2>u, <2>1, <3>1 DEF Moves, RingOrder
    <3> QED
      BY <3>3, <3>4
  <2>4. Before(last)'
    BY <1>m, <1>b, <1>t, <2>u DEF Moves, Before
  <2> QED
    BY <2>u, <2>2, <2>3, <2>4 DEF Moves, InputOrder
<1>6. CASE HandlePacket
  <2>1. /\ last' = msg /\ msg > 0 /\ app = "handle" /\ app' = "inloop"
        /\ UNCHANGED <<ring, head, tail>>
    BY <1>6 DEF HandlePacket, mbox, ETHNET_INPUT
  <2>2. \A i \in Index : Frame(i)' <=> Frame(i)
    BY <2>1 DEF Frame, InRing, Posted
  <2>3. /\ Before(msg)
        /\ \A i \in Index : Frame(i) => msg < ring[i]
    BY <1>m, <2>1 DEF Moves, HandleOrder
  <2>4. Before(last)'
    BY <1>b, <1>t, <2>1, <2>3 DEF Before
  <2>5. \A i \in Index : Frame(i)' => last' < ring'[i] /\ Before(ring[i])'
    BY <1>m, <1>b, <1>t, <2>1, <2>2, <2>3 DEF Moves, RingOrder, Before
  <2>6. \A i, j \in Index :
          Frame(i)' /\ Frame(j)' /\ Count(tail', i) < Count(tail', j) => ring'[i] < ring'[j]
    BY <1>m, <2>1, <2>2 DEF Moves, RingOrder
  <2> QED
    BY <2>1, <2>4, <2>5, <2>6 DEF Moves, RingOrder, InputOrder, HandleOrder
<1>7. CASE low_level_input
  <2>u. UNCHANGED <<ring, head, tail, last>>
    BY <1>7 DEF low_level_input, mbox, history
  <2>1. CASE dma = <<>>
    BY <1>7, <1>m, <1>b, <2>u, <2>1, MovesKept DEF low_level_input
  <2>2. CASE dma # <<>>
    <3>1. app' = "input" /\ packet' = Head(dma) /\ dma' = Tail(dma)
      BY <1>7, <2>2 DEF low_level_input
    <3>2. dma \in Seq(1..MAX_PACKETS)
      BY <1>m DEF TypeOK
    <3>3. /\ Len(dma) \in Nat /\ Len(dma) > 0 /\ packet' = dma[1] /\ Len(dma') = Len(dma) - 1
          /\ \A k \in 1..Len(dma') : dma'[k] = dma[k + 1]
      BY <2>2, <3>1, <3>2
    <3>4. 1 \in 1..Len(dma) /\ \A k \in 1..Len(dma') : k + 1 \in 1..Len(dma) /\ 1 < k + 1
      BY <3>3
    <3>5. RingOrder' /\ \A i \in Index : Frame(i)' <=> Frame(i)
      BY <1>m, <1>b, <2>u, RingKept DEF Moves
    <3>6. Before(last)'
      BY <1>m, <1>b, <1>t, <2>u DEF Moves, Before
    <3>7. Before(packet)'
      <4>1. Horizon' = Horizon
        BY <1>7 DEF low_level_input, history, Horizon
      <4>2. packet' < Horizon'
        BY <3>3, <3>4, <4>1 DEF OrderInv, DmaOrder
      <4>3. \A k \in 1..Len(dma') : packet' < dma'[k]
        BY <3>3, <3>4 DEF OrderInv, DmaOrder
      <4> QED
        BY <4>2, <4>3 DEF Before
    <3>8. last' < packet' /\ \A i \in Index : Frame(i)' => ring'[i] < packet'
      BY <1>m, <2>u, <3>3, <3>4, <3>5 DEF Moves, RingOrder, Before
    <3> QED
      BY <3>1, <3>5, <3>6, <3>7, <3>8 DEF Moves, InputOrder, HandleOrder
  <2> QED
    BY <2>1, <2>2
<1>8. CASE tcpip_inpkt
  <2>u. app = "input" /\ app' = "inloop" /\ UNCHANGED <<msg, packet, last>>
    BY <1>8 DEF tcpip_inpkt, history
  <2>1. CASE sys_mbox_trypost(packet)
    <3>1. /\ last < packet /\ Before(packet)
          /\ \A i \in Index : Frame(i) => ring[i] < packet
      BY <1>m, <2>u DEF Moves, InputOrder
    <3>2. RingOrder'
      BY <1>m, <1>b, <1>t, <2>u, <2>1, <3>1, PostKeepsOrder DEF Moves
    <3>3. Before(last)'
      BY <1>m, <1>b, <1>t, <2>u DEF Moves, Before
    <3> QED
      BY <2>u, <3>2, <3>3 DEF Moves, InputOrder, HandleOrder
  <2>2. CASE UNCHANGED <<mbox, locks>>
    BY <1>m, <1>b, <2>u, <2>2, MovesKept DEF mbox
  <2> QED
    BY <1>8, <2>1, <2>2 DEF tcpip_inpkt
<1> QED
  BY <1>1, <1>2, <1>3, <1>4, <1>5, <1>6, <1>7, <1>8 DEF Next, MainThread, AppThread

LEMMA OrderInit == Init => OrderInv
<1> SUFFICES ASSUME Init PROVE OrderInv
  OBVIOUS
<1>1. SemInv
  BY TypeInit DEF Init, SemInv, BeforeReady, SemaphoreCounts
<1>2. \A i \in Index : ~Frame(i)
  BY DEF Init, Frame, NULL
<1>3. Len(dma) = 0 /\ last = 0 /\ captured = 0 /\ main = "capture" /\ app = "init"
  BY DEF Init
<1>4. Before(last) /\ DmaOrder
  BY <1>3 DEF Before, DmaOrder, Horizon
<1> QED
  BY <1>1, <1>2, <1>3, <1>4 DEF OrderInv, RingOrder, InputOrder, HandleOrder

(***************************************************************************)
(* ethernet_input gets the frames in the order of their capture and each at*)
(* most once, for every size of the two queues and wherever frames are     *)
(* dropped, unless a frame is announced while sys_mbox_new is at work.     *)
(***************************************************************************)
THEOREM FramesStayInOrder ==
  ASSUME QuietStart PROVE Spec => InOrder
<1>1. OrderInv /\ [Next]_vars => [last' # last => last' > last]_vars
  <2> SUFFICES ASSUME OrderInv, Next, last' # last PROVE last' > last
    BY DEF vars, history
  <2>1. CASE HandlePacket
    <3>1. last' = msg /\ app = "handle" /\ msg > 0
      BY <2>1 DEF HandlePacket, ETHNET_INPUT
    <3>2. last < msg /\ last \in Int /\ msg \in Int
      BY <3>1, OrderTypes DEF OrderInv, HandleOrder, SemInv, TypeInv
    <3> QED
      BY <3>1, <3>2
  <2>2. CASE ~HandlePacket
    BY <2>2 DEF Next, MainThread, AppThread, Capture, LockQueue, DMA_push, NotifyFromEthISR,
       CreateSemaphore, ClearRing, WaitSemaphore, sys_arch_mbox_fetch, ethernetif_input,
       low_level_input, tcpip_inpkt, history
  <2> QED
    BY <2>1, <2>2
<1> QED
  BY <1>1, OrderInit, OrderStep, PTL DEF Spec, InOrder

-----------------------------------------------------------------------------
(***************************************************************************)
(* The notifications.                                                      *)
(***************************************************************************)

(* The entries with message m that are to be fetched. *)
Having(m) == {i \in Index : InRing(i) /\ ring[i] = m}

Number(m) == Cardinality(Having(m))

(* AppThread has fetched message m and not yet handled it. *)
Holding(m) == IF app = "handle" /\ msg = m THEN 1 ELSE 0

(* What was posted before the mailbox was ready is counted as lost. *)
AnnouncedEarly == phase # "ready" => Len(dma) <= Coming + lost

NoteInv == SemInv /\ NoneForgotten /\ AnnouncedEarly

(* Messages can be counted: there are finitely many entries. *)
LEMMA HavingFinite ==
  ASSUME NEW m
  PROVE  /\ IsFiniteSet(Having(m)) /\ Number(m) \in Nat
         /\ Number(m)' \in Nat
<1>1. IsFiniteSet(Index)
  <2>1. 0 \in Int /\ MAX_QUEUE_ENTRIES - 1 \in Int
    BY QueueAssumption
  <2> QED
    BY <2>1, FS_Interval DEF Index
<1>2. \A S \in SUBSET Index : IsFiniteSet(S) /\ Cardinality(S) \in Nat
  BY <1>1, FS_Subset, FS_CardinalityType
<1>3. Having(m) \in SUBSET Index /\ Having(m)' \in SUBSET Index
  BY DEF Having
<1> QED
  BY <1>2, <1>3 DEF Number

(* Steps that leave the ring alone. *)
LEMMA SameRing ==
  ASSUME NEW m, UNCHANGED <<ring, head, tail>>
  PROVE  Number(m)' = Number(m)
BY DEF Number, Having, InRing, Posted

(* A post of message m adds one of them, and none of another kind. *)
LEMMA PostAdds ==
  ASSUME TypeOK, NEW x, Puts(x), NEW m
  PROVE  Number(m)' = IF x = m THEN Number(m) + 1 ELSE Number(m)
<1>p. /\ ring'[head] = x /\ \A i \in Index : i # head => ring'[i] = ring[i]
      /\ \A i \in Index : InRing(i)' <=> InRing(i) \/ i = head
      /\ ~InRing(head) /\ head \in Index
  BY PostFrames DEF TypeOK
<1>1. ASSUME NEW i \in Index
      PROVE  i \in Having(m)' <=> i \in Having(m) \/ (i = head /\ x = m)
  <2>1. i \in Having(m)' <=> InRing(i)' /\ ring'[i] = m
    BY DEF Having
  <2>2. i \in Having(m) <=> InRing(i) /\ ring[i] = m
    BY DEF Having
  <2>3. CASE i = head
    BY <1>p, <2>1, <2>2, <2>3
  <2>4. CASE i # head
    BY <1>p, <2>1, <2>2, <2>4
  <2> QED
    BY <2>3, <2>4
<1>2. Having(m) \subseteq Index /\ Having(m)' \subseteq Index /\ head \notin Having(m)
  BY <1>p DEF Having
<1>3. CASE x = m
  <2>1. Having(m)' = Having(m) \cup {head}
    BY <1>p, <1>1, <1>2, <1>3
  <2>2. Cardinality(Having(m) \cup {head}) = Cardinality(Having(m)) + 1
    BY <1>2, HavingFinite, FS_AddElement
  <2> QED
    BY <1>3, <2>1, <2>2 DEF Number
<1>4. CASE x # m
  <2>1. Having(m)' = Having(m)
    BY <1>1, <1>2, <1>4
  <2> QED
    BY <1>4, <2>1 DEF Number
<1> QED
  BY <1>3, <1>4

(* A fetch takes at most the message that it returns. *)
LEMMA FetchTakes ==
  ASSUME SemInv, sys_arch_mbox_fetch, NEW m \in Int, m # NULL
  PROVE  Number(m)' + Holding(m)' = Number(m) /\ Holding(m) = 0
<1>p. /\ ring' = ring /\ InRing(tail) /\ tail \in Index
      /\ \A i \in Index : InRing(i)' <=> InRing(i) /\ i # tail
  BY FetchFrames DEF SemInv, TypeInv, TypeOK
<1>1. ASSUME NEW i \in Index PROVE i \in Having(m)' <=> i \in Having(m) /\ i # tail
  <2>1. i \in Having(m)' <=> InRing(i)' /\ ring'[i] = m
    BY DEF Having
  <2>2. i \in Having(m) <=> InRing(i) /\ ring[i] = m
    BY DEF Having
  <2> QED
    BY <1>p, <2>1, <2>2
<1>2. Having(m) \subseteq Index /\ Having(m)' \subseteq Index
  BY DEF Having
<1>3. Having(m)' = Having(m) \ {tail}
  BY <1>1, <1>2
<1>4. /\ app = "fetch" /\ msg' = ring[tail]
      /\ app' = IF ring[tail] = NULL THEN "inloop" ELSE "handle"
  BY DEF sys_arch_mbox_fetch
<1>5. Holding(m) = 0
  BY <1>4 DEF Holding
<1>6. CASE ring[tail] = m
  <2>1. tail \in Having(m)
    BY <1>p, <1>6 DEF Having
  <2>2. Cardinality(Having(m) \ {tail}) = Cardinality(Having(m)) - 1
    BY <2>1, HavingFinite, FS_RemoveElement
  <2>3. Holding(m)' = 1
    BY <1>4, <1>6 DEF Holding
  <2>4. Number(m)' = Number(m) - 1 /\ Number(m) \in Nat
    BY <1>3, <2>2, HavingFinite DEF Number
  <2> QED
    BY <1>5, <2>3, <2>4
<1>7. CASE ring[tail] # m
  <2>1. Having(m)' = Having(m)
    BY <1>3, <1>7 DEF Having
  <2>2. Holding(m)' = 0
    BY <1>4, <1>7 DEF Holding
  <2>3. Number(m)' = Number(m) /\ Number(m) \in Nat
    BY <2>1, HavingFinite DEF Number
  <2> QED
    BY <1>5, <2>2, <2>3
<1> QED
  BY <1>6, <1>7

(* Pending, in these terms. *)
LEMMA PendingIsNumber ==
  Pending = Number(ETHNET_INPUT) /\ Pending' = Number(ETHNET_INPUT)'
BY DEF Pending, Number, Having

(* The numbers that are added up. *)
LEMMA NoteTypes ==
  ASSUME TypeOK
  PROVE  /\ Len(dma) \in Nat /\ Pending \in Nat /\ InHand \in 0..1 /\ Coming \in 0..1
         /\ lost \in Nat
<1>1. Len(dma) \in Nat /\ Pending \in Nat
  BY OrderTypes, HavingFinite, PendingIsNumber
<1>2. InHand \in 0..1 /\ Coming \in 0..1
  BY DEF InHand, Coming
<1>3. lost \in Nat
  BY DEF TypeOK
<1> QED
  BY <1>1, <1>2, <1>3

(* Steps that leave the queues and the notifications alone. *)
LEMMA NotesKept ==
  ASSUME NoneForgotten, AnnouncedEarly, phase' = phase, dma' = dma,
         UNCHANGED <<ring, head, tail, lost>>, InHand' = InHand, Coming' = Coming
  PROVE  NoneForgotten' /\ AnnouncedEarly'
<1>1. Pending' = Pending
  BY SameRing, PendingIsNumber
<1> QED
  BY <1>1 DEF NoneForgotten, AnnouncedEarly

(* Every step keeps a notification for each frame. *)
LEMMA NoteStep ==
  ASSUME QuietStart PROVE NoteInv /\ [Next]_vars => NoteInv'
<1> SUFFICES ASSUME NoteInv, [Next]_vars PROVE NoneForgotten' /\ AnnouncedEarly'
  BY SemStep DEF NoteInv
<1>m. TypeOK /\ SemInv /\ NoneForgotten /\ AnnouncedEarly
  BY DEF NoteInv, SemInv, TypeInv
<1>t. /\ Len(dma) \in Nat /\ Pending \in Nat /\ InHand \in 0..1 /\ Coming \in 0..1
      /\ lost \in Nat
  BY <1>m, NoteTypes
<1>r. app \in {"fetch", "handle", "pop", "input"} => phase = "ready"
  BY <1>m DEF SemInv, BeforeReady
<1>1. CASE UNCHANGED vars \/ Capture \/ LockQueue
  <2>1. /\ phase' = phase /\ dma' = dma /\ UNCHANGED <<ring, head, tail, lost>>
        /\ InHand' = InHand
    BY <1>1 DEF vars, Capture, LockQueue, mbox, history, InHand
  <2>2. Coming' = Coming
    BY <1>1 DEF vars, Capture, LockQueue, Coming
  <2> QED
    BY <1>m, <2>1, <2>2, NotesKept
<1>2. CASE DMA_push
  <2>1. Coming = 0 /\ Coming' = 1
    BY <1>2 DEF DMA_push, Coming
  <2>2. phase' = phase /\ lost' = lost /\ InHand' = InHand
    BY <1>2 DEF DMA_push, history, InHand
  <2>3. Pending' = Pending
    BY <1>2, SameRing, PendingIsNumber DEF DMA_push, mbox
  <2>4. Len(dma') \in {Len(dma), Len(dma) + 1}
    <3>1. dma \in Seq(1..MAX_PACKETS)
      BY <1>m DEF TypeOK
    <3>2. dma' = dma \/ dma' = Append(dma, captured)
      BY <1>2 DEF DMA_push
    <3> QED
      BY <3>1, <3>2
  <2> QED
    BY <1>m, <1>t, <2>1, <2>2, <2>3, <2>4 DEF NoneForgotten, AnnouncedEarly
<1>3. CASE NotifyFromEthISR
  <2>1. /\ Coming = 1 /\ Coming' = 0 /\ phase' = phase /\ dma' = dma /\ InHand' = InHand
    BY <1>3 DEF NotifyFromEthISR, Coming, InHand
  <2>2. Pending' \in Nat
    BY HavingFinite, PendingIsNumber
  <2>3. CASE phase = "ready" /\ sys_mbox_trypost(ETHNET_INPUT) /\ lost' = lost
    <3>1. Pending' = Pending + 1
      BY <1>m, <2>3, TryPostPuts, PostAdds, PendingIsNumber
    <3> QED
      BY <1>m, <1>t, <2>1, <2>3, <3>1 DEF NoneForgotten, AnnouncedEarly
  <2>4. CASE phase # "ready" /\ lost' = lost + 1
    BY <1>m, <1>t, <2>1, <2>4 DEF NoneForgotten, AnnouncedEarly
  <2>5. CASE phase = "ready" /\ PostFails /\ lost' = lost + 1
    <3>2. Pending' = Pending
      BY <2>5, SameRing, PendingIsNumber DEF PostFails, mbox
    <3> QED
      BY <1>m, <1>t, <2>1, <2>5, <3>2 DEF NoneForgotten, AnnouncedEarly
  <2> QED
    BY <1>3, <2>3, <2>4, <2>5 DEF NotifyFromEthISR
<1>4. CASE CreateSemaphore
  <2>1. phase = "down" /\ phase' = "created" /\ dma' = dma /\ Coming' = Coming /\ lost' = lost
    BY <1>4 DEF CreateSemaphore, history, Coming
  <2> QED
    BY <1>m, <2>1 DEF NoneForgotten, AnnouncedEarly
<1>5. CASE ClearRing
  <2>1. /\ phase = "created" /\ phase' = "ready" /\ dma' = dma /\ Coming' = Coming
        /\ lost' = lost
    BY <1>5 DEF ClearRing, history, Coming
  <2>2. InHand' \in Nat /\ Pending' \in Nat
    BY HavingFinite, PendingIsNumber DEF InHand
  <2>3. Len(dma) <= Coming + lost
    BY <1>m, <2>1 DEF AnnouncedEarly
  <2> QED
    BY <1>t, <2>1, <2>2, <2>3 DEF NoneForgotten, AnnouncedEarly
<1>6. CASE WaitSemaphore \/ HandlePacket \/ ethernetif_input
  <2>1. /\ phase' = phase /\ dma' = dma /\ UNCHANGED <<ring, head, tail, lost>>
        /\ Coming' = Coming
    BY <1>6 DEF WaitSemaphore, HandlePacket, ethernetif_input, mbox, history, Coming
  <2>2. InHand' = InHand
    <3>1. CASE WaitSemaphore
      BY <3>1 DEF WaitSemaphore, InHand
    <3>2. CASE HandlePacket
      <4>1. app = "handle" /\ msg # 0 /\ app' = "inloop"
        BY <1>m, <3>2 DEF HandlePacket, ETHNET_INPUT
      <4> QED
        BY <4>1 DEF InHand, ETHNET_INPUT
    <3>3. CASE ethernetif_input
      BY <3>3 DEF ethernetif_input, InHand
    <3> QED
      BY <1>6, <3>1, <3>2, <3>3
  <2> QED
    BY <1>m, <2>1, <2>2, NotesKept
<1>7. CASE sys_arch_mbox_fetch
  <2>1. /\ phase' = phase /\ phase = "ready" /\ dma' = dma /\ Coming' = Coming /\ lost' = lost
    BY <1>7, <1>r DEF sys_arch_mbox_fetch, history, Coming
  <2>2. Pending' + InHand' = Pending + InHand
    <3>1. 0 \in Int /\ 0 # -1
      OBVIOUS
    <3>2. Pending' + Holding(ETHNET_INPUT)' = Pending
      BY <1>7, <1>m, <3>1, FetchTakes, PendingIsNumber DEF ETHNET_INPUT, NULL
    <3>3. InHand = 0 /\ InHand' = Holding(ETHNET_INPUT)'
      BY <1>7 DEF sys_arch_mbox_fetch, InHand, Holding
    <3> QED
      BY <1>t, <3>2, <3>3
  <2> QED
    BY <1>m, <2>1, <2>2 DEF NoneForgotten, AnnouncedEarly
<1>8. CASE low_level_input
  <2>1. /\ phase' = phase /\ phase = "ready" /\ Coming' = Coming /\ lost' = lost
        /\ InHand = 1 /\ InHand' = 0
    BY <1>8, <1>r DEF low_level_input, history, Coming, InHand
  <2>2. Pending' = Pending
    BY <1>8, SameRing, PendingIsNumber DEF low_level_input, mbox
  <2>3. CASE dma = <<>>
    <3>1. Len(dma') = 0
      BY <1>8, <2>3 DEF low_level_input
    <3> QED
      BY <1>t, <2>1, <2>2, <3>1 DEF NoneForgotten, AnnouncedEarly
  <2>4. CASE dma # <<>>
    <3>1. dma \in Seq(1..MAX_PACKETS) /\ dma' = Tail(dma)
      BY <1>8, <1>m, <2>4 DEF low_level_input, TypeOK
    <3>2. Len(dma') = Len(dma) - 1
      BY <2>4, <3>1
    <3> QED
      BY <1>m, <1>t, <2>1, <2>2, <3>2 DEF NoneForgotten, AnnouncedEarly
  <2> QED
    BY <2>3, <2>4
<1>9. CASE tcpip_inpkt
  <2>1. /\ phase' = phase /\ phase = "ready" /\ dma' = dma /\ Coming' = Coming /\ lost' = lost
        /\ InHand = 0 /\ InHand' = 0
    BY <1>9, <1>r DEF tcpip_inpkt, history, Coming, InHand
  <2>2. Pending' >= Pending /\ Pending' \in Nat
    <3>1. CASE sys_mbox_trypost(packet)
      BY <1>m, <1>t, <3>1, TryPostPuts, PostAdds, PendingIsNumber
    <3>2. CASE UNCHANGED <<mbox, locks>>
      BY <1>t, <3>2, SameRing, PendingIsNumber DEF mbox
    <3> QED
      BY <1>9, <3>1, <3>2 DEF tcpip_inpkt
  <2> QED
    BY <1>m, <1>t, <2>1, <2>2 DEF NoneForgotten, AnnouncedEarly
<1> QED
  BY <1>1, <1>2, <1>3, <1>4, <1>5, <1>6, <1>7, <1>8, <1>9 DEF Next, MainThread, AppThread

(***************************************************************************)
(* For each frame in g_dmaQueue a notification is on its way, or was lost, *)
(* for every size of the queues: no post between the two halves of a fetch *)
(* and no frame that is posted to the same ring makes AppThread miss one.  *)
(***************************************************************************)
THEOREM FramesStayAnnounced ==
  ASSUME QuietStart PROVE Spec => []NoneForgotten
<1>1. Init => NoteInv
  <2> SUFFICES ASSUME Init PROVE NoteInv
    OBVIOUS
  <2>1. SemInv
    BY TypeInit DEF Init, SemInv, BeforeReady, SemaphoreCounts
  <2>2. phase = "down" /\ Len(dma) = 0 /\ Coming = 0 /\ lost = 0
    BY DEF Init, Coming
  <2> QED
    BY <2>1, <2>2 DEF NoteInv, NoneForgotten, AnnouncedEarly
<1>2. NoteInv => NoneForgotten
  BY DEF NoteInv
<1> QED
  BY <1>1, <1>2, NoteStep, PTL DEF Spec

-----------------------------------------------------------------------------
(***************************************************************************)
(* The advertising timer.  As long as no message is posted to a full ring, *)
(* sys_mbox_post does to the mailbox what sys_mbox_trypost does, so that   *)
(* the proof rests on that of NicQueue.                                    *)
(***************************************************************************)

Armed == IF armed THEN 1 ELSE 0

(* The timer and the request for it take turns, from ssdpInit on. *)
Turns ==
  Number(TIMEOUT) + Holding(TIMEOUT) + Armed = IF started /\ ~nomem THEN 1 ELSE 0

(* ssdpInit is called when AppThread is in its loop, and asks first. *)
StartsReady == (started => phase = "ready") /\ (nomem => started)

(* No frame looks like a request for a timer. *)
FramesAreFrames == packet # TIMEOUT

SsdpTypes == started \in BOOLEAN /\ armed \in BOOLEAN /\ overrun \in BOOLEAN /\ nomem \in BOOLEAN

TimerOK == SemInv /\ StartsReady /\ FramesAreFrames /\ Turns

TimerInv == SsdpTypes /\ (~overrun => TimerOK)

(* The numbers that are added up. *)
LEMMA TurnTypes ==
  /\ Number(TIMEOUT) \in Nat /\ Holding(TIMEOUT) \in 0..1 /\ Armed \in 0..1
  /\ Number(TIMEOUT)' \in Nat /\ Holding(TIMEOUT)' \in 0..1 /\ Armed' \in 0..1
<1>1. Number(TIMEOUT) \in Nat /\ Number(TIMEOUT)' \in Nat
  BY HavingFinite
<1>2. Holding(TIMEOUT) \in 0..1 /\ Holding(TIMEOUT)' \in 0..1
  BY DEF Holding
<1>3. Armed \in 0..1 /\ Armed' \in 0..1
  BY DEF Armed
<1> QED
  BY <1>1, <1>2, <1>3

(* A step of NicQueue moves requests for a timer, and makes or loses none. *)
LEMMA QueueKeepsRequests ==
  ASSUME TimerOK, [Next]_vars, UNCHANGED ssdp
  PROVE  Turns' /\ StartsReady' /\ FramesAreFrames'
<1>m. TypeOK /\ SemInv /\ Turns /\ FramesAreFrames /\ StartsReady
  BY DEF TimerOK, SemInv, TypeInv
<1>u. UNCHANGED <<started, armed, nomem>> /\ Armed' = Armed
  BY DEF ssdp, Armed
<1>k. ASSUME Number(TIMEOUT)' + Holding(TIMEOUT)' = Number(TIMEOUT) + Holding(TIMEOUT)
      PROVE  Turns'
  BY <1>k, <1>m, <1>u, TurnTypes DEF Turns
<1>s. ASSUME UNCHANGED <<ring, head, tail>>, Holding(TIMEOUT)' = Holding(TIMEOUT) PROVE Turns'
  <2>1. Number(TIMEOUT)' = Number(TIMEOUT)
    BY <1>s, SameRing
  <2> QED
    BY <1>s, <1>k, <2>1
<1>1. CASE UNCHANGED vars \/ Capture \/ LockQueue \/ DMA_push \/ CreateSemaphore
  <2>1. UNCHANGED <<ring, head, tail, app, msg, packet>>
    BY <1>1 DEF vars, Capture, LockQueue, DMA_push, CreateSemaphore, mbox
  <2>2. Turns'
    BY <1>s, <2>1 DEF Holding
  <2>3. phase' = phase \/ phase = "down"
    BY <1>1 DEF vars, Capture, LockQueue, DMA_push, CreateSemaphore
  <2> QED
    BY <1>m, <1>u, <2>1, <2>2, <2>3 DEF StartsReady, FramesAreFrames
<1>2. CASE NotifyFromEthISR
  <2>1. UNCHANGED <<phase, app, msg, packet>>
    BY <1>2 DEF NotifyFromEthISR
  <2>2. Holding(TIMEOUT)' = Holding(TIMEOUT)
    BY <2>1 DEF Holding
  <2>3. CASE sys_mbox_trypost(ETHNET_INPUT)
    <3>1. ETHNET_INPUT # TIMEOUT
      BY DEF ETHNET_INPUT, TIMEOUT
    <3>2. Number(TIMEOUT)' = Number(TIMEOUT)
      BY <1>m, <2>3, <3>1, TryPostPuts, PostAdds
    <3>3. Turns'
      BY <1>k, <2>2, <3>2
    <3> QED
      BY <1>m, <1>u, <2>1, <3>3 DEF StartsReady, FramesAreFrames
  <2>4. CASE PostFails
    <3>1. Turns'
      BY <1>s, <2>2, <2>4 DEF PostFails, mbox
    <3> QED
      BY <1>m, <1>u, <2>1, <3>1 DEF StartsReady, FramesAreFrames
  <2> QED
    BY <1>2, <2>3, <2>4 DEF NotifyFromEthISR
<1>3. CASE ClearRing
  <2>1. ~started
    BY <1>3, <1>m DEF ClearRing, StartsReady
  <2>2. Armed = 0
    BY <1>m, <2>1, TurnTypes DEF Turns
  <2>3. \A i \in Index : ring'[i] = -1
    BY <1>3 DEF ClearRing, NULL
  <2>4. Having(TIMEOUT)' = {}
    BY <2>3 DEF Having, TIMEOUT
  <2>5. Number(TIMEOUT)' = 0
    BY <2>4, FS_EmptySet DEF Number
  <2>6. Holding(TIMEOUT)' = 0
    BY <1>3 DEF ClearRing, Holding
  <2>7. Turns'
    BY <1>u, <2>1, <2>2, <2>5, <2>6 DEF Turns
  <2> QED
    BY <1>3, <1>m, <1>u, <2>1, <2>7 DEF ClearRing, StartsReady, FramesAreFrames
<1>4. CASE WaitSemaphore
  <2>1. Turns'
    BY <1>4, <1>s DEF WaitSemaphore, Holding
  <2> QED
    BY <1>4, <1>m, <1>u, <2>1 DEF WaitSemaphore, StartsReady, FramesAreFrames
<1>5. CASE sys_arch_mbox_fetch
  <2>1. TIMEOUT \in Int /\ TIMEOUT # NULL
    BY DEF TIMEOUT, NULL
  <2>2. Number(TIMEOUT)' + Holding(TIMEOUT)' = Number(TIMEOUT) /\ Holding(TIMEOUT) = 0
    BY <1>5, <1>m, <2>1, FetchTakes
  <2>3. Turns'
    BY <1>k, <2>2, TurnTypes
  <2> QED
    BY <1>5, <1>m, <1>u, <2>3 DEF sys_arch_mbox_fetch, StartsReady, FramesAreFrames
<1>6. CASE HandlePacket \/ ethernetif_input
  <2>1. msg # TIMEOUT
    BY <1>6, <1>m DEF HandlePacket, ethernetif_input, ETHNET_INPUT, TIMEOUT
  <2>2. Holding(TIMEOUT) = 0 /\ Holding(TIMEOUT)' = 0
    BY <1>6, <2>1 DEF HandlePacket, ethernetif_input, Holding
  <2>3. Turns'
    BY <1>6, <1>s, <2>2 DEF HandlePacket, ethernetif_input, mbox
  <2> QED
    BY <1>6, <1>m, <1>u, <2>3 DEF HandlePacket, ethernetif_input, StartsReady, FramesAreFrames
<1>7. CASE low_level_input
  <2>1. Holding(TIMEOUT) = 0 /\ Holding(TIMEOUT)' = 0
    BY <1>7 DEF low_level_input, Holding
  <2>2. Turns'
    BY <1>7, <1>s, <2>1 DEF low_level_input, mbox
  <2>3. packet' # TIMEOUT
    <3>1. CASE dma = <<>>
      BY <1>7, <3>1 DEF low_level_input, NULL, TIMEOUT
    <3>2. CASE dma # <<>>
      <4> DEFINE S == 1..MAX_PACKETS
      <4>1. packet' = Head(dma) /\ dma \in Seq(S)
        BY <1>7, <1>m, <3>2 DEF low_level_input, TypeOK
      <4> HIDE DEF S
      <4>2. packet' \in S
        BY <3>2, <4>1
      <4> QED
        BY <4>2, QueueAssumption DEF S, TIMEOUT
    <3> QED
      BY <3>1, <3>2
  <2> QED
    BY <1>7, <1>m, <1>u, <2>2, <2>3 DEF low_level_input, StartsReady, FramesAreFrames
<1>8. CASE tcpip_inpkt
  <2>1. Holding(TIMEOUT) = 0 /\ Holding(TIMEOUT)' = 0
    BY <1>8 DEF tcpip_inpkt, Holding
  <2>2. Turns'
    <3>1. CASE sys_mbox_trypost(packet)
      <4>1. Number(TIMEOUT)' = Number(TIMEOUT)
        BY <1>m, <3>1, TryPostPuts, PostAdds DEF FramesAreFrames
      <4> QED
        BY <1>k, <2>1, <4>1
    <3>2. CASE UNCHANGED <<mbox, locks>>
      BY <1>s, <2>1, <3>2 DEF mbox
    <3> QED
      BY <1>8, <3>1, <3>2 DEF tcpip_inpkt
  <2> QED
    BY <1>8, <1>m, <1>u, <2>2 DEF tcpip_inpkt, StartsReady, FramesAreFrames
<1> QED
  BY <1>1, <1>2, <1>3, <1>4, <1>5, <1>6, <1>7, <1>8 DEF Next, MainThread, AppThread

(* A request for a timer, posted to a ring that is not full or not posted. *)
LEMMA TimeoutRequested ==
  ASSUME TimerOK, tcpip_timeout, ~overrun', overrun \in BOOLEAN
  PROVE  /\ SemInv' /\ FramesAreFrames'
         /\ phase = "ready" /\ phase' = "ready"
         /\ Holding(TIMEOUT) = 0 /\ Holding(TIMEOUT)' = 0
         /\ \/ Number(TIMEOUT)' = Number(TIMEOUT) + 1 /\ nomem' = nomem
            \/ Number(TIMEOUT)' = Number(TIMEOUT) /\ nomem' = TRUE
<1>m. TypeOK /\ LossBound /\ SemInv /\ FramesAreFrames /\ BeforeReady /\ SemaphoreCounts
  BY DEF TimerOK, SemInv, TypeInv
<1>u. /\ UNCHANGED <<phase, main, app, msg, packet, dma, dmaLock, critSec>>
      /\ UNCHANGED <<captured, lost, last>> /\ app = "inloop"
  BY DEF tcpip_timeout, locks, history
<1>r. phase = "ready" /\ Permit' = Permit
  BY <1>m, <1>u DEF BeforeReady, Permit
<1>h. Holding(TIMEOUT) = 0 /\ Holding(TIMEOUT)' = 0
  BY <1>u DEF Holding
<1>b. BeforeReady' /\ FramesAreFrames' /\ LossBound'
  BY <1>m, <1>u, <1>r DEF BeforeReady, FramesAreFrames, LossBound, Unannounced
<1>1. CASE sys_mbox_post(TIMEOUT) /\ overrun' = (overrun \/ IsFull) /\ UNCHANGED nomem
  <2>1. Puts(TIMEOUT)
    BY <1>1 DEF sys_mbox_post, Puts
  <2>2. TIMEOUT \in Messages
    BY QueueAssumption DEF TIMEOUT, Messages
  <2>3. /\ ring' \in [Index -> Messages] /\ head' \in Index /\ tail' \in Index
        /\ sem' \in 0..MAX_QUEUE_ENTRIES
    BY <1>m, <2>1, <2>2, PostType
  <2>4. TypeOK'
    BY <1>m, <1>u, <2>3 DEF TypeOK
  <2>5. SemaphoreCounts'
    BY <1>m, <1>u, <1>r, <2>1, PostKeepsCount
  <2>6. Number(TIMEOUT)' = Number(TIMEOUT) + 1
    BY <1>m, <2>1, PostAdds
  <2> QED
    BY <1>1, <1>u, <1>r, <1>h, <1>b, <2>4, <2>5, <2>6 DEF SemInv, TypeInv
<1>2. CASE nomem' = TRUE /\ UNCHANGED <<mbox, overrun>>
  <2>1. UNCHANGED <<ring, head, tail, sem>>
    BY <1>2 DEF mbox
  <2>2. TypeOK'
    BY <1>m, <1>u, <2>1 DEF TypeOK
  <2>3. SemaphoreCounts'
    BY <1>m, <1>u, <1>r, <2>1 DEF SemaphoreCounts, Posted
  <2>4. Number(TIMEOUT)' = Number(TIMEOUT)
    BY <2>1, SameRing
  <2> QED
    BY <1>2, <1>u, <1>r, <1>h, <1>b, <2>2, <2>3, <2>4 DEF SemInv, TypeInv
<1> QED
  BY <1>1, <1>2 DEF tcpip_timeout

(* Every step lets the timer and its request take turns. *)
LEMMA TimerStep ==
  ASSUME QuietStart PROVE TimerInv /\ [SsdpNext]_ssdpVars => TimerInv'
<1> SUFFICES ASSUME TimerInv, [SsdpNext]_ssdpVars PROVE TimerInv'
  OBVIOUS
<1>t. SsdpTypes'
  BY DEF TimerInv, SsdpTypes, SsdpNext, ssdp, ssdpVars, ssdpInit, ssdp_advertise,
         HandleTimeout, tcpip_timeout
<1>m. overrun => overrun'
  BY DEF TimerInv, SsdpTypes, SsdpNext, ssdp, ssdpVars, ssdpInit, ssdp_advertise,
         HandleTimeout, tcpip_timeout
<1> SUFFICES ASSUME ~overrun' PROVE TimerOK'
  BY <1>t DEF TimerInv
<1>o. ~overrun /\ TimerOK /\ overrun \in BOOLEAN
  BY <1>m DEF TimerInv, SsdpTypes
<1>k. SemInv /\ Turns
  BY <1>o DEF TimerOK
<1>1. CASE [Next]_vars /\ UNCHANGED ssdp
  <2>1. SemInv'
    BY <1>1, <1>k, SemStep
  <2> QED
    BY <1>1, <1>o, <2>1, QueueKeepsRequests DEF TimerOK
<1>2. CASE ssdpInit
  <2>1. ~started /\ started' = TRUE /\ armed' = armed /\ tcpip_timeout
    BY <1>2 DEF ssdpInit
  <2>2. Number(TIMEOUT) = 0 /\ Armed = 0
    BY <1>k, <2>1, TurnTypes DEF Turns
  <2>3. /\ SemInv' /\ FramesAreFrames' /\ phase' = "ready" /\ Holding(TIMEOUT)' = 0
        /\ \/ Number(TIMEOUT)' = Number(TIMEOUT) + 1 /\ nomem' = nomem
           \/ Number(TIMEOUT)' = Number(TIMEOUT) /\ nomem' = TRUE
    BY <1>o, <2>1, TimeoutRequested
  <2>4. Armed' = 0
    BY <2>1, <2>2 DEF Armed
  <2>5. nomem \in BOOLEAN /\ ~nomem
    BY <1>o, <2>1 DEF TimerInv, SsdpTypes, TimerOK, StartsReady
  <2>6. Turns'
    BY <2>1, <2>2, <2>3, <2>4, <2>5 DEF Turns
  <2> QED
    BY <2>1, <2>3, <2>6 DEF TimerOK, StartsReady
<1>3. CASE ssdp_advertise
  <2>1. armed /\ armed' = FALSE /\ started' = started /\ tcpip_timeout
    BY <1>3 DEF ssdp_advertise
  <2>2. Armed = 1 /\ Armed' = 0
    BY <2>1 DEF Armed
  <2>3. Number(TIMEOUT) = 0 /\ started /\ ~nomem
    BY <1>k, <2>2, TurnTypes DEF Turns
  <2>4. /\ SemInv' /\ FramesAreFrames' /\ phase' = "ready" /\ Holding(TIMEOUT)' = 0
        /\ \/ Number(TIMEOUT)' = Number(TIMEOUT) + 1 /\ nomem' = nomem
           \/ Number(TIMEOUT)' = Number(TIMEOUT) /\ nomem' = TRUE
    BY <1>o, <2>1, TimeoutRequested
  <2>5. Turns'
    BY <2>1, <2>2, <2>3, <2>4 DEF Turns
  <2> QED
    BY <2>1, <2>3, <2>4, <2>5 DEF TimerOK, StartsReady
<1>4. CASE HandleTimeout
  <2>1. /\ app = "handle" /\ msg = TIMEOUT /\ armed' = TRUE /\ app' = "inloop"
        /\ UNCHANGED <<phase, main, msg, packet, dma, dmaLock, critSec>>
        /\ UNCHANGED <<ring, head, tail, sem, captured, lost, last>>
        /\ UNCHANGED <<started, nomem>>
    BY <1>4 DEF HandleTimeout, mbox, locks, history
  <2>2. SemInv'
    <3>1. TypeInv'
      BY <1>k, <2>1 DEF SemInv, TypeInv, TypeOK, LossBound, Unannounced
    <3>2. Permit' = Permit
      BY <2>1 DEF Permit
    <3>3. BeforeReady' /\ SemaphoreCounts'
      BY <1>k, <2>1, <3>2, SameCount
    <3> QED
      BY <3>1, <3>3 DEF SemInv
  <2>3. Holding(TIMEOUT) = 1 /\ Holding(TIMEOUT)' = 0 /\ Armed' = 1
    BY <2>1 DEF Holding, Armed
  <2>4. Number(TIMEOUT)' = Number(TIMEOUT)
    BY <2>1, SameRing
  <2>5. Number(TIMEOUT) = 0 /\ Armed = 0 /\ started /\ ~nomem
    BY <1>k, <2>3, TurnTypes DEF Turns
  <2>6. Turns'
    BY <2>1, <2>3, <2>4, <2>5 DEF Turns
  <2> QED
    BY <1>o, <2>1, <2>2, <2>6 DEF TimerOK, StartsReady, FramesAreFrames
<1> QED
  BY <1>1, <1>2, <1>3, <1>4 DEF SsdpNext, ssdpVars

(***************************************************************************)
(* From ssdpInit on there is either the timer or one request for it, for   *)
(* every size of the mailbox, until a request meets a full ring or has no  *)
(* memory: frames that come meanwhile neither add one nor lose one.        *)
(***************************************************************************)
THEOREM OneTimerAlways ==
  ASSUME QuietStart PROVE SsdpSpec => []OneTimer
<1>1. SsdpInit => TimerInv
  <2> SUFFICES ASSUME SsdpInit PROVE TimerInv
    OBVIOUS
  <2>1. Init /\ started = FALSE /\ armed = FALSE /\ overrun = FALSE /\ nomem = FALSE
    BY DEF SsdpInit
  <2>2. SemInv
    BY <2>1, TypeInit DEF Init, SemInv, BeforeReady, SemaphoreCounts
  <2>3. Number(TIMEOUT) = 0
    <3>1. Having(TIMEOUT) = {}
      BY <2>1 DEF Init, Having, TIMEOUT, NULL
    <3> QED
      BY <3>1, FS_EmptySet DEF Number
  <2>4. Holding(TIMEOUT) = 0 /\ Armed = 0
    BY <2>1 DEF Init, Holding, Armed
  <2>5. FramesAreFrames
    BY <2>1 DEF Init, FramesAreFrames, NULL, TIMEOUT
  <2>6. Turns
    BY <2>1, <2>3, <2>4 DEF Turns
  <2> QED
    BY <2>1, <2>2, <2>5, <2>6 DEF TimerInv, SsdpTypes, TimerOK, StartsReady
<1>2. TimerInv => OneTimer
  <2> SUFFICES ASSUME TimerInv, started, ~overrun
               PROVE  /\ SemaphoreCounts
                      /\ Requested + Armed = IF nomem THEN 0 ELSE 1
    BY DEF OneTimer, Armed
  <2>1. SemaphoreCounts /\ Turns
    BY DEF TimerInv, TimerOK, SemInv
  <2>2. Requested = Number(TIMEOUT) + Holding(TIMEOUT)
    BY DEF Requested, Number, Having, Holding
  <2> QED
    BY <2>1, <2>2 DEF Turns
<1> QED
  BY <1>1, <1>2, TimerStep, PTL DEF SsdpSpec

=============================================================================
