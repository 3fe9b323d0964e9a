------------------------------ MODULE NicQueue ------------------------------
(***************************************************************************)
(* How received frames reach lwIP.  The main thread captures them, appends *)
(* them to the list g_dmaQueue (DMA_push, straight-httpd.c) and posts a    *)
(* notification to tcpip_mbox (NotifyFromEthISR, lwip_api.c).  AppThread   *)
(* fetches the notification (tcpip_inloop), pops one frame (DMA_pop, called*)
(* by ethernetif_input), and posts it to the same mailbox as a packet      *)
(* message, which a later fetch hands to ethernet_input.                   *)
(*                                                                         *)
(* The mailbox (arch/sys_arch.c) is a ring of MAX_QUEUE_ENTRIES pointers   *)
(* and a semaphore.  Two locks are involved: the mutex g_dmaQLock and the  *)
(* critical section of SYS_ARCH_PROTECT, and AppThread takes the one while *)
(* it holds the other.  A body in which no other lock is taken is one step.*)
(***************************************************************************)
EXTENDS Integers, Sequences, FiniteSets

CONSTANTS
  MAX_QUEUE_ENTRIES,  \* entries of the ring
  MAX_DMA_QUEUE,      \* limit of g_qLength
  PostPhases,         \* the phases of LwipInit in which main may post
  MAX_PACKETS         \* bound: the frames captured

ASSUME QueueAssumption ==
  /\ MAX_QUEUE_ENTRIES \in Nat \ {0, 1}
  /\ MAX_DMA_QUEUE \in Nat
  /\ PostPhases \subseteq {"down", "created", "ready"}
  /\ MAX_PACKETS \in Nat

VARIABLES
  phase,     \* of sys_mbox_new: "down", "created" (the semaphore), "ready"
  main,      \* where the main thread is
  app,       \* where AppThread is
  msg,       \* the message AppThread fetched last
  packet,    \* the frame AppThread popped last, or NULL
  dma,       \* g_dmaQueue, the frames in it, numbered as captured
  dmaLock,   \* owner of g_dmaQLock
  critSec,   \* owner of the critical section
  ring,      \* q_mem of tcpip_mbox
  head,      \* where the next message is posted
  tail,      \* where the next message is fetched
  sem,       \* the count of the semaphore
  captured,  \* history: frames captured so far
  lost,      \* history: notifications that cannot be fetched
  last       \* history: the frame handed to ethernet_input last

mbox == <<ring, head, tail, sem>>
locks == <<dmaLock, critSec>>
history == <<captured, lost, last>>
vars == <<phase, main, app, msg, packet, dma, locks, mbox, history>>

Index == 0..(MAX_QUEUE_ENTRIES - 1)

(* A message: NULL, ETHNET_INPUT, the number of the frame it carries, or   *)
(* -2 for a message of another type: here nobody posts one (see SsdpTimer).*)
NULL == -1
ETHNET_INPUT == 0
Messages == -2..MAX_PACKETS

Free == "free"

(* head and tail go around the ring. *)
NextIndex(i) == IF i + 1 >= MAX_QUEUE_ENTRIES THEN 0 ELSE i + 1

(* Before LwipInit tcpip_mbox is a zeroed global. *)
Init ==
  /\ phase = "down"
  /\ main = "capture" /\ app = "init"
  /\ msg = NULL /\ packet = NULL
  /\ dma = <<>>
  /\ dmaLock = Free /\ critSec = Free
  /\ ring = [i \in Index |-> NULL] /\ head = 0 /\ tail = 0 /\ sem = 0
  /\ captured = 0 /\ lost = 0 /\ last = 0

-----------------------------------------------------------------------------
(***************************************************************************)
(* The mailbox.                                                            *)
(***************************************************************************)

(* Mutant: the test for a full ring is forgotten. *)
IsFull_Never == FALSE

IsFull == NextIndex(head) = tail

(* ReleaseSemaphore fails without a semaphore, and at its maximum. *)
Releasable == phase # "down" /\ sem < MAX_QUEUE_ENTRIES

(* Mutant: the semaphore is released only when AppThread may be waiting. *)
sys_mbox_trypost_WhenEmpty(m) ==
  /\ critSec = Free
  /\ ~IsFull
  /\ ring' = [ring EXCEPT ![head] = m]
  /\ head' = NextIndex(head)
  /\ sem' = IF Releasable /\ head = tail THEN sem + 1 ELSE sem
  /\ UNCHANGED <<tail, locks>>

(***************************************************************************)
(* The body of sys_mbox_trypost, in the critical section.                  *)
(***************************************************************************)
sys_mbox_trypost(m) ==
  /\ critSec = Free
  /\ ~IsFull
  /\ ring' = [ring EXCEPT ![head] = m]
  /\ head' = NextIndex(head)
  /\ sem' = IF Releasable THEN sem + 1 ELSE sem
  /\ UNCHANGED <<tail, locks>>

(* It returns ERR_MEM: one entry is never used. *)
PostFails ==
  /\ critSec = Free
  /\ IsFull
  /\ UNCHANGED <<mbox, locks>>

(* sys_mbox_new begins: CreateSemaphore. *)
CreateSemaphore ==
  /\ phase = "down"
  /\ phase' = "created"
  /\ sem' = 0
  /\ UNCHANGED <<main, app, msg, packet, dma, locks, ring, head, tail, history>>

(* ... and goes on, without a lock, to clear the ring. *)
ClearRing ==
  /\ phase = "created"
  /\ phase' = "ready" /\ app' = "inloop"
  /\ ring' = [i \in Index |-> NULL] /\ head' = 0 /\ tail' = 0
  /\ UNCHANGED <<main, msg, packet, dma, locks, sem, history>>

-----------------------------------------------------------------------------
(***************************************************************************)
(* The main thread.                                                        *)
(***************************************************************************)

(* pcap_next_ex returns a frame. *)
Capture ==
  /\ main = "capture"
  /\ captured < MAX_PACKETS
  /\ captured' = captured + 1
  /\ main' = "push"
  /\ UNCHANGED <<phase, app, msg, packet, dma, locks, mbox, lost, last>>

(* DMA_push waits for g_dmaQLock. *)
LockQueue ==
  /\ main = "push"
  /\ dmaLock = Free
  /\ dmaLock' = "main" /\ main' = "append"
  /\ UNCHANGED <<phase, app, msg, packet, dma, critSec, mbox, history>>

(* Mutant: the new frame becomes the head of the list. *)
DMA_push_AtHead ==
  /\ main = "append"
  /\ dma' = IF Len(dma) < MAX_DMA_QUEUE THEN <<captured>> \o dma ELSE dma
  /\ dmaLock' = Free /\ main' = "notify"
  /\ UNCHANGED <<phase, app, msg, packet, critSec, mbox, history>>

(* Mutant: only the first frame of a burst is announced. *)
DMA_push_First ==
  /\ main = "append"
  /\ dma' = IF Len(dma) < MAX_DMA_QUEUE THEN Append(dma, captured) ELSE dma
  /\ dmaLock' = Free
  /\ main' = IF dma = <<>> THEN "notify" ELSE "capture"
  /\ UNCHANGED <<phase, app, msg, packet, critSec, mbox, history>>

(* DMA_push appends the frame, or drops it, and notifies in both cases. *)
DMA_push ==
  /\ main = "append"
  /\ dma' = IF Len(dma) < MAX_DMA_QUEUE THEN Append(dma, captured) ELSE dma
  /\ dmaLock' = Free /\ main' = "notify"
  /\ UNCHANGED <<phase, app, msg, packet, critSec, mbox, history>>

(* NotifyFromEthISR ignores the result of the post. *)
NotifyFromEthISR ==
  /\ main = "notify"
  /\ phase \in PostPhases
  /\ \/ /\ sys_mbox_trypost(ETHNET_INPUT)
        /\ lost' = IF phase = "ready" THEN lost ELSE lost + 1
     \/ /\ PostFails
        /\ lost' = lost + 1
  /\ main' = "capture"
  /\ UNCHANGED <<phase, app, msg, packet, dma, captured, last>>

-----------------------------------------------------------------------------
(***************************************************************************)
(* AppThread.                                                              *)
(***************************************************************************)

(* sys_arch_mbox_fetch: the wait for the semaphore succeeds ... *)
WaitSemaphore ==
  /\ app = "inloop"
  /\ sem > 0
  /\ sem' = sem - 1 /\ app' = "fetch"
  /\ UNCHANGED <<phase, main, msg, packet, dma, locks, ring, head, tail, history>>

(* ... and the message is taken in the critical section. *)
sys_arch_mbox_fetch ==
  /\ app = "fetch"
  /\ critSec = Free
  /\ msg' = ring[tail]
  /\ tail' = NextIndex(tail)
  /\ app' = IF ring[tail] = NULL THEN "inloop" ELSE "handle"
  /\ UNCHANGED <<phase, main, packet, dma, locks, ring, head, sem, history>>

(* tcpip_thread_handle_msg, TCPIP_MSG_INPKT: ethernet_input is called. *)
HandlePacket ==
  /\ app = "handle" /\ msg > ETHNET_INPUT
  /\ last' = msg
  /\ app' = "inloop"
  /\ UNCHANGED <<phase, main, msg, packet, dma, locks, mbox, captured, lost>>

(* tcpip_thread_handle_msg, ETHNET_INPUT: ethernetif_input protects itself. *)
ethernetif_input ==
  /\ app = "handle" /\ msg = ETHNET_INPUT
  /\ critSec = Free
  /\ critSec' = "app" /\ app' = "pop"
  /\ UNCHANGED <<phase, main, msg, packet, dma, dmaLock, mbox, history>>

(* low_level_input with DMA_pop: one frame, or none, per notification. *)
low_level_input ==
  /\ app = "pop"
  /\ dmaLock = Free
  /\ critSec' = Free
  /\ IF dma = <<>>
     THEN packet' = NULL /\ app' = "inloop" /\ UNCHANGED dma
     ELSE packet' = Head(dma) /\ dma' = Tail(dma) /\ app' = "input"
  /\ UNCHANGED <<phase, main, msg, dmaLock, mbox, history>>

(* tcpip_inpkt posts the frame; it is dropped if memory or the ring is full. *)
tcpip_inpkt ==
  /\ app = "input"
  /\ \/ sys_mbox_trypost(packet)
     \/ UNCHANGED <<mbox, locks>>
  /\ app' = "inloop"
  /\ UNCHANGED <<phase, main, msg, packet, dma, history>>

MainThread == LockQueue \/ DMA_push \/ NotifyFromEthISR

AppThread ==
  \/ CreateSemaphore
  \/ ClearRing
  \/ WaitSemaphore
  \/ sys_arch_mbox_fetch
  \/ HandlePacket
  \/ ethernetif_input
  \/ low_level_input
  \/ tcpip_inpkt

Next == Capture \/ MainThread \/ AppThread

(* Both threads run; frames need not arrive. *)
Fairness == WF_vars(MainThread) /\ WF_vars(AppThread)

Spec == Init /\ [][Next]_vars
FairSpec == Spec /\ Fairness

-----------------------------------------------------------------------------

Count(i, j) == IF j >= i THEN j - i ELSE j - i + MAX_QUEUE_ENTRIES

(* The messages in the ring. *)
Posted == Count(tail, head)

InRing(i) == Count(tail, i) < Posted

(* The variables keep their types. *)
TypeOK ==
  /\ phase \in {"down", "created", "ready"}
  /\ main \in {"capture", "push", "append", "notify"}
  /\ app \in {"init", "inloop", "fetch", "handle", "pop", "input"}
  /\ msg \in Messages /\ packet \in Messages
  /\ dma \in Seq(1..MAX_PACKETS) /\ Len(dma) <= MAX_DMA_QUEUE
  /\ dmaLock \in {Free, "main"} /\ critSec \in {Free, "app"}
  /\ ring \in [Index -> Messages] /\ head \in Index /\ tail \in Index
  /\ sem \in 0..MAX_QUEUE_ENTRIES
  /\ captured \in 0..MAX_PACKETS /\ lost \in 0..captured
  /\ last \in 0..MAX_PACKETS

(* AppThread took a permit of the semaphore and not yet its message. *)
Permit == IF app = "fetch" THEN 1 ELSE 0

(***************************************************************************)
(* The semaphore counts the messages of the ring, although posts come      *)
(* between the two halves of a fetch: AppThread never fetches from an      *)
(* empty ring, never waits while there is a message, and the limit of the  *)
(* semaphore is never reached.                                             *)
(***************************************************************************)
SemaphoreCounts == phase = "ready" => Posted = sem + Permit

(* The notifications in the ring, with AppThread, and with the main thread. *)
Pending == Cardinality({i \in Index : InRing(i) /\ ring[i] = ETHNET_INPUT})
InHand == IF app = "pop" \/ (app = "handle" /\ msg = ETHNET_INPUT) THEN 1 ELSE 0
Coming == IF main = "notify" THEN 1 ELSE 0

(***************************************************************************)
(* No frame is forgotten in g_dmaQueue: for each there is a notification   *)
(* in the ring, in the hands of one of the threads, or one that was lost.  *)
(* Notifications of frames that were dropped may come on top.              *)
(***************************************************************************)
NoneForgotten ==
  phase = "ready" => Len(dma) <= Pending + InHand + Coming + lost

(***************************************************************************)
(* Frames reach ethernet_input in the order in which they were captured,   *)
(* each at most once, although they pass two queues and may be dropped at  *)
(* four places.                                                            *)
(***************************************************************************)
InOrder == [][last' # last => last' > last]_vars

(***************************************************************************)
(* "send event to lwip thread": as long as no notification is lost, the    *)
(* frames that wait in g_dmaQueue are all popped in the end.               *)
(***************************************************************************)
BacklogDrains == lost = 0 /\ dma # <<>> ~> dma = <<>> \/ lost > 0

(***************************************************************************)
(* "may fail if full": sys_mbox_trypost does not fail forever.  A mailbox  *)
(* that takes no message is one that AppThread is about to empty.          *)
(***************************************************************************)
FullMailboxDrains == phase = "ready" /\ IsFull ~> ~IsFull

=============================================================================
