----------------------------- MODULE SsdpTimer ------------------------------
(***************************************************************************)
(* The advertisements of ssdp/ssdp.c on top of NicQueue.  A timer of lwIP  *)
(* fires once, so ssdp_advertise asks for the next one: tcpip_timeout()    *)
(* posts a message to tcpip_mbox, and AppThread, which posted it, also has *)
(* to fetch it to start the timer.  The post is sys_mbox_post, which does  *)
(* not look whether the ring is full.                                      *)
(***************************************************************************)
EXTENDS NicQueue

VARIABLES
  started,   \* ssdpInit was called
  armed,     \* ssdp_advertise is in the list of timeouts
  overrun,   \* history: a message was posted to a full ring
  nomem      \* history: there was no memory for a message

ssdp == <<started, armed, overrun, nomem>>
ssdpVars == <<vars, ssdp>>

(* A message of type TCPIP_MSG_TIMEOUT. *)
TIMEOUT == -2

SsdpInit == Init /\ started = FALSE /\ armed = FALSE /\ overrun = FALSE /\ nomem = FALSE

(* Mutant: nobody is told of the message. *)
sys_mbox_post_Silent(m) ==
  /\ ring' = [ring EXCEPT ![head] = m]
  /\ head' = NextIndex(head)
  /\ UNCHANGED <<tail, sem>>

(* sys_mbox_post: without the test of sys_mbox_trypost. *)
sys_mbox_post(m) ==
  /\ ring' = [ring EXCEPT ![head] = m]
  /\ head' = NextIndex(head)
  /\ sem' = IF Releasable THEN sem + 1 ELSE sem
  /\ UNCHANGED tail

(* tcpip_timeout(60 * 1000UL, ssdp_advertise, ...) by AppThread. *)
tcpip_timeout ==
  /\ app = "inloop" /\ critSec = Free
  /\ \/ /\ sys_mbox_post(TIMEOUT)
        /\ overrun' = (overrun \/ IsFull)
        /\ UNCHANGED nomem
     \/ /\ nomem' = TRUE                   \* ERR_MEM, which nobody looks at
        /\ UNCHANGED <<mbox, overrun>>
  /\ UNCHANGED <<phase, main, app, msg, packet, dma, locks, history>>

(* The device has its address: AppThread calls ssdpInit. *)
ssdpInit ==
  /\ ~started
  /\ started' = TRUE
  /\ tcpip_timeout
  /\ UNCHANGED armed

(* Mutant: the timer is taken for a periodic one. *)
ssdp_advertise_Periodic ==
  /\ armed
  /\ tcpip_timeout
  /\ UNCHANGED <<started, armed>>

(* sys_check_timeouts removes the timer and calls ssdp_advertise. *)
ssdp_advertise ==
  /\ armed
  /\ armed' = FALSE
  /\ tcpip_timeout
  /\ UNCHANGED started

(* tcpip_thread_handle_msg, TCPIP_MSG_TIMEOUT: sys_timeout. *)
HandleTimeout ==
  /\ app = "handle" /\ msg = TIMEOUT
  /\ armed' = TRUE
  /\ app' = "inloop"
  /\ UNCHANGED <<phase, main, msg, packet, dma, locks, mbox, history, started, overrun, nomem>>

SsdpNext ==
  \/ Next /\ UNCHANGED ssdp
  \/ ssdpInit
  \/ ssdp_advertise
  \/ HandleTimeout

SsdpSpec == SsdpInit /\ [][SsdpNext]_ssdpVars

(***************************************************************************)
(* Both threads run; tcpip_inloop looks at the timers whenever it is       *)
(* called, before it waits for a message.                                  *)
(***************************************************************************)
SsdpFairSpec ==
  /\ SsdpSpec
  /\ WF_ssdpVars(MainThread /\ UNCHANGED ssdp)
  /\ WF_ssdpVars(AppThread /\ UNCHANGED ssdp)
  /\ WF_ssdpVars(HandleTimeout)
  /\ SF_ssdpVars(ssdp_advertise)

-----------------------------------------------------------------------------

(* The requests for a timer that are on their way. *)
Requested ==
  Cardinality({i \in Index : InRing(i) /\ ring[i] = TIMEOUT})
    + IF app = "handle" /\ msg = TIMEOUT THEN 1 ELSE 0

(***************************************************************************)
(* The timer and the request for it take turns: there is always exactly    *)
(* one of them, and the semaphore still counts the messages, unless        *)
(* ssdp_advertise ever met a full ring.  Once there was no memory for a    *)
(* request there is neither, for good.                                     *)
(***************************************************************************)
OneTimer ==
  started /\ ~overrun =>
    /\ SemaphoreCounts
    /\ Requested + (IF armed THEN 1 ELSE 0) = IF nomem THEN 0 ELSE 1

(***************************************************************************)
(* Advertisements go on for ever: the timer is armed and fires again and   *)
(* again, however many frames fill the mailbox, unless a request for it    *)
(* was posted to a full ring or had no memory.                             *)
(***************************************************************************)
AdvertisingGoesOn ==
  \A b \in BOOLEAN : started ~> (armed = b \/ overrun \/ nomem)

=============================================================================
