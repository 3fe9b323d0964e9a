----------------------------- MODULE AppThread ------------------------------
(***************************************************************************)
(* The life of AppThread (straight-httpd.c), which runs everything: it     *)
(* waits for an address, serves until g_ipIsReady is 0 again, and ends.    *)
(* Both loops call tcpip_inloop (lwip_api.c), which runs timers and        *)
(* handles one message, and sweep the sessions only when that had nothing  *)
(* to do.                                                                  *)
(*                                                                         *)
(* What the handlers change of this is the configuration (port_device.c):  *)
(* a form is edited in one g_TempConfig that all connections share, and    *)
(* applied to g_WorkConfig; a DHCP lease is written to g_WorkConfig.       *)
(***************************************************************************)
EXTENDS Naturals, FiniteSets

CONSTANTS
  Conns,      \* the connections on which /app/form.shtml is used
  Addresses,  \* what the fields of an address may be; 0 is one of them
  Others,     \* what the other settings may be; 0 is one of them
  PostedBy,   \* bound: the fields that the form of a connection sends
  MAX_MBOX,   \* bound: messages in the mailbox
  None        \* no value

(***************************************************************************)
(* DHCP is DEV_DHCP; IP stands for DEV_IP, DEV_GATEWAY and DEV_SUBNET,     *)
(* which a lease also changes; VAR for the settings only forms change.     *)
(***************************************************************************)
Fields == {"DHCP", "IP", "VAR"}

Values(f) == CASE f = "DHCP" -> {0, 1} [] f = "IP" -> Addresses [] f = "VAR" -> Others

ASSUME AppAssumption ==
  /\ 0 \in Addresses /\ 0 \in Others
  /\ \A f \in Fields : None \notin Values(f)
  /\ PostedBy \in [Conns -> SUBSET Fields]
  /\ MAX_MBOX \in Nat

VARIABLES
  loop,       \* "wait" for an address, "serve", "ended"
  at,         \* where the loop is: "top", "timers", "fetch", "message", "sweep"
  mbox,       \* the number of messages in tcpip_mbox
  dhcp,       \* the DHCP client of lwIP runs
  ready,      \* g_ipIsReady
  work, temp, \* g_WorkConfig and g_TempConfig
  posted,     \* history: what the form of a connection has set so far
  disturbed,  \* history: fields of g_TempConfig that others changed, see below
  asked       \* history: a form asked for a restart and no lease came since

config == <<work, temp, posted, disturbed>>
appVars == <<loop, at, mbox, dhcp, ready, config, asked>>

Nothing == [f \in Fields |-> None]

(* InitDevInfo and LwipInit; dhcp_start may fail, then OnDhcpFinished. *)
AppInit ==
  /\ loop = "wait" /\ at = "top" /\ mbox = 0
  /\ dhcp \in BOOLEAN /\ ready = ~dhcp
  /\ work = [f \in Fields |-> IF f = "DHCP" THEN 1 ELSE 0]
  /\ temp = work
  /\ posted = [c \in Conns |-> Nothing]
  /\ disturbed = [c \in Conns |-> {}]
  /\ asked = FALSE

-----------------------------------------------------------------------------
(***************************************************************************)
(* Handlers, which timers and messages call.                               *)
(***************************************************************************)

InHandler == at \in {"timers", "message"}
Served == InHandler /\ loop = "serve"

(* What the form of c has set so far. *)
Posted(c) == {f \in Fields : posted[c][f] # None}

(* OnDhcpFinished: the client got an address, or renewed it. *)
OnDhcpFinished ==
  /\ InHandler /\ dhcp
  /\ \E a \in Addresses : work' = [work EXCEPT !["IP"] = a]
  /\ ready' = TRUE /\ asked' = FALSE
  /\ disturbed' = [c \in Conns |-> disturbed[c] \cup ({"IP"} \ Posted(c))]
  /\ UNCHANGED <<loop, at, mbox, dhcp, temp, posted>>

(* Mutant: the form shows the running configuration, but edits an old one. *)
LoadConfig4Edit_Not == temp' = temp

LoadConfig4Edit == temp' = work

(* GET of the form: what others have set so far is gone. *)
FormGet(c) ==
  /\ Served
  /\ Posted(c) = {}
  /\ LoadConfig4Edit
  /\ disturbed' = [d \in Conns |-> Posted(d)]
  /\ UNCHANGED <<loop, at, mbox, dhcp, ready, work, posted, asked>>

(* TAG_Setter: a field of a POST is complete. *)
TAG_Setter(c, f) ==
  /\ Served
  /\ f \in PostedBy[c] /\ posted[c][f] = None
  /\ \E v \in Values(f) :
       /\ temp' = [temp EXCEPT ![f] = v]
       /\ posted' = [posted EXCEPT ![c][f] = v]
  /\ disturbed' = [d \in Conns |-> IF d = c THEN disturbed[d] \ {f}
                                            ELSE disturbed[d] \cup {f}]
  /\ UNCHANGED <<loop, at, mbox, dhcp, ready, work, asked>>

AppyConfig == work' = temp

(* The POST is complete: the configuration is applied. *)
FormPosted(c) ==
  /\ Served
  /\ AppyConfig
  /\ \/ /\ work["DHCP"] # temp["DHCP"]
        /\ ready' = FALSE /\ asked' = TRUE
     \/ /\ work["DHCP"] = temp["DHCP"]
        /\ UNCHANGED <<ready, asked>>
  /\ posted' = [posted EXCEPT ![c] = Nothing]
  /\ disturbed' = [d \in Conns |-> IF d = c THEN {} ELSE disturbed[d] \cap Posted(d)]
  /\ UNCHANGED <<loop, at, mbox, dhcp, temp>>

(* The connection of a POST is closed before the form is complete. *)
FormAborted(c) ==
  /\ Served
  /\ Posted(c) # {}
  /\ posted' = [posted EXCEPT ![c] = Nothing]
  /\ disturbed' = [disturbed EXCEPT ![c] = @ \cup Posted(c)]
  /\ UNCHANGED <<loop, at, mbox, dhcp, ready, work, temp, asked>>

-----------------------------------------------------------------------------
(***************************************************************************)
(* The loops.                                                              *)
(***************************************************************************)

(* Mutant: the address is not looked at once the services run. *)
Leaves_Never == loop = "wait" /\ ready

(* The condition of the loop ends it. *)
Leaves == (loop = "wait" /\ ready) \/ (loop = "serve" /\ ~ready)

(***************************************************************************)
(* From the wait to the service (ssdpInit, HttpdInit), and from there to   *)
(* the end: HttpdStop, tcp_kill_all, and, as nothing between them sets     *)
(* g_ipIsReady, LwipStop, which stops the DHCP client.                     *)
(***************************************************************************)
LeaveLoop ==
  /\ at = "top" /\ Leaves
  /\ \/ loop = "wait" /\ loop' = "serve" /\ UNCHANGED <<at, dhcp>>
     \/ loop = "serve" /\ loop' = "ended" /\ at' = "ended" /\ dhcp' = FALSE
  /\ UNCHANGED <<mbox, ready, config, asked>>

(* tcpip_inloop begins. *)
EnterInloop ==
  /\ at = "top" /\ ~Leaves
  /\ at' = "timers"
  /\ UNCHANGED <<loop, mbox, dhcp, ready, config, asked>>

(* After the timers, one is due already: tcpip_inloop returns 1. *)
TimersDue ==
  /\ at = "timers"
  /\ at' = "top"
  /\ UNCHANGED <<loop, mbox, dhcp, ready, config, asked>>

(* No timer is due. *)
TimersDone ==
  /\ at = "timers"
  /\ at' = "fetch"
  /\ UNCHANGED <<loop, mbox, dhcp, ready, config, asked>>

(* Mutant: sessions are checked only while there is no address. *)
AfterSilence_Waiting == IF loop = "wait" THEN "sweep" ELSE "top"

(* tcpip_inloop returned 0. *)
AfterSilence == "sweep"

(* sys_arch_mbox_fetch: a message, or none until the next timer is due. *)
Fetch ==
  /\ at = "fetch"
  /\ \/ mbox > 0 /\ mbox' = mbox - 1 /\ at' = "message"
     \/ mbox = 0 /\ mbox' = 0 /\ at' = AfterSilence
  /\ UNCHANGED <<loop, dhcp, ready, config, asked>>

(* The message is handled: tcpip_inloop returns 1. *)
MessageDone ==
  /\ at = "message"
  /\ at' = "top"
  /\ UNCHANGED <<loop, mbox, dhcp, ready, config, asked>>

(* SessionCheck *)
SessionCheck ==
  /\ at = "sweep"
  /\ at' = "top"
  /\ UNCHANGED <<loop, mbox, dhcp, ready, config, asked>>

(* The main thread posts a message. *)
Arrive ==
  /\ loop # "ended" /\ mbox < MAX_MBOX
  /\ mbox' = mbox + 1
  /\ UNCHANGED <<loop, at, dhcp, ready, config, asked>>

Handler ==
  \/ OnDhcpFinished
  \/ \E c \in Conns : FormGet(c) \/ FormPosted(c) \/ FormAborted(c)
  \/ \E c \in Conns, f \in Fields : TAG_Setter(c, f)

Loop ==
  LeaveLoop \/ EnterInloop \/ TimersDone \/ Fetch \/ MessageDone \/ SessionCheck

AppNext == Handler \/ Loop \/ TimersDue \/ Arrive

AppSpec == AppInit /\ [][AppNext]_appVars

(* AppThread runs; handlers return; timers do not take all the time. *)
AppFairSpec == AppSpec /\ WF_appVars(Loop) /\ SF_appVars(TimersDone)

-----------------------------------------------------------------------------

(* Types. *)
AppTypeOK ==
  /\ loop \in {"wait", "serve", "ended"}
  /\ at \in {"top", "timers", "fetch", "message", "sweep", "ended"}
  /\ mbox \in 0..MAX_MBOX
  /\ dhcp \in BOOLEAN /\ ready \in BOOLEAN /\ asked \in BOOLEAN
  /\ \A f \in Fields : work[f] \in Values(f) /\ temp[f] \in Values(f)
  /\ posted \in [Conns -> [Fields -> Addresses \cup Others \cup {0, 1, None}]]
  /\ disturbed \in [Conns -> SUBSET Fields]

(***************************************************************************)
(* A form that is applied changes what it posted, and nothing else, except *)
(* where its copy of the configuration was disturbed: another connection   *)
(* set the field, or loaded the form in between, or left the field behind  *)
(* in a form that it did not complete; or a lease came since the copy was  *)
(* made (and is undone).                                                   *)
(***************************************************************************)
FormsAreIsolated ==
  [][\A c \in Conns : FormPosted(c) =>
       \A f \in Fields \ disturbed[c] :
         work'[f] = IF f \in Posted(c) THEN posted[c][f] ELSE work[f]]_appVars

(***************************************************************************)
(* "lwip stack will restart": a change of DEV_DHCP is not forgotten.  The  *)
(* services stop, and with them AppThread, unless a lease sets g_ipIsReady *)
(* before the loop has looked at it.                                       *)
(***************************************************************************)
ChangeEndsService == asked ~> (loop = "ended" \/ ~asked)

(***************************************************************************)
(* Sessions are checked again and again, in both loops, provided that the  *)
(* network is silent in the end: steady traffic postpones every check.     *)
(***************************************************************************)
SweepsGoOn == <>[](mbox = 0) => []<>(at = "sweep" \/ loop = "ended")

=============================================================================
