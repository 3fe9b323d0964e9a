---------------------------- MODULE HttpContexts ----------------------------
(***************************************************************************)
(* What the connection table of httpd/http_core.c promises: how the TCP    *)
(* control blocks of lwIP and the MAX_CONNECTIONS request contexts are     *)
(* bound to each other.  HttpCore implements this specification.           *)
(*                                                                         *)
(* The binding is kept twice: altcp_arg() of a pcb is the context that     *)
(* every callback of the pcb works on, and _pcb of a context is the pcb    *)
(* that it writes to, acknowledges and closes.                             *)
(***************************************************************************)
EXTENDS Integers

CONSTANTS
  MAX_CONNECTIONS,  \* contexts in g_httpContext
  Pcbs,             \* the pcbs that lwIP can hand to OnHttpAccept
  NULL

VARIABLES
  pcb,    \* of each pcb: "free", "open", or "closing" after a failed altcp_close
  arg,    \* altcp_arg of each pcb: a context, or NULL
  ctxPcb  \* _pcb of each context: a pcb, or NULL

binding == <<pcb, arg, ctxPcb>>

Contexts == 1..MAX_CONNECTIONS

Init ==
  /\ pcb = [p \in Pcbs |-> "free"]
  /\ arg = [p \in Pcbs |-> NULL]
  /\ ctxPcb = [c \in Contexts |-> NULL]

(* OnHttpAccept with GetHttpContext: the first context without a pcb. *)
Accept(p, c) ==
  /\ pcb[p] = "free"
  /\ ctxPcb[c] = NULL
  /\ \A d \in Contexts : d < c => ctxPcb[d] # NULL
  /\ pcb' = [pcb EXCEPT ![p] = "open"]
  /\ arg' = [arg EXCEPT ![p] = c]
  /\ ctxPcb' = [ctxPcb EXCEPT ![c] = p]

(***************************************************************************)
(* CloseHttpContext: the context is free again in any case; if altcp_close *)
(* fails the pcb lives on, without a context, and polls.                   *)
(***************************************************************************)
Close(c) ==
  /\ ctxPcb[c] # NULL
  /\ \E status \in {"free", "closing"} : pcb' = [pcb EXCEPT ![ctxPcb[c]] = status]
  /\ arg' = [arg EXCEPT ![ctxPcb[c]] = NULL]
  /\ ctxPcb' = [ctxPcb EXCEPT ![c] = NULL]

(* lwIP freed the pcb (RST, or out of resources) and calls OnHttpError. *)
Error(p) ==
  /\ pcb[p] # "free"
  /\ pcb' = [pcb EXCEPT ![p] = "free"]
  /\ arg' = [arg EXCEPT ![p] = NULL]
  /\ ctxPcb' = [c \in Contexts |-> IF c = arg[p] THEN NULL ELSE ctxPcb[c]]

(* OnHttpPoll of a pcb without a context: closed now, or else aborted. *)
RetryClose(p) ==
  /\ pcb[p] = "closing"
  /\ pcb' = [pcb EXCEPT ![p] = "free"]
  /\ UNCHANGED <<arg, ctxPcb>>

Next ==
  \/ \E p \in Pcbs, c \in Contexts : Accept(p, c)
  \/ \E c \in Contexts : Close(c)
  \/ \E p \in Pcbs : Error(p)
  \/ \E p \in Pcbs : RetryClose(p)

Spec == Init /\ [][Next]_binding

-----------------------------------------------------------------------------

(* The types of the binding. *)
TypeOK ==
  /\ pcb \in [Pcbs -> {"free", "open", "closing"}]
  /\ arg \in [Pcbs -> Contexts \cup {NULL}]
  /\ ctxPcb \in [Contexts -> Pcbs \cup {NULL}]

(***************************************************************************)
(* The two halves of the binding agree: a callback of a pcb finds the      *)
(* context that owns the pcb, and none other's; a context never writes to  *)
(* or closes a pcb that lwIP freed or that is no longer its own.           *)
(***************************************************************************)
BindingsAgree ==
  /\ \A p \in Pcbs : pcb[p] = "open" => arg[p] # NULL /\ ctxPcb[arg[p]] = p
  /\ \A p \in Pcbs : pcb[p] # "open" => arg[p] = NULL
  /\ \A c \in Contexts : ctxPcb[c] # NULL => pcb[ctxPcb[c]] = "open" /\ arg[ctxPcb[c]] = c

=============================================================================
