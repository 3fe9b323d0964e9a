------------------------------ MODULE HttpSend ------------------------------
(***************************************************************************)
(* How one connection pumps its responses into TCP: HttpResponseProc and   *)
(* sendBuffered (httpd/http_core.c), CGI_LoadContentToSend                 *)
(* (httpd/http_cgi.c) and the plain-file half of WEB_ReadContent           *)
(* (httpd/http_web.c), driven by the callbacks OnHttpReceive, OnHttpSent   *)
(* and OnHttpPoll.                                                         *)
(*                                                                         *)
(* Three buffers sit in a row: the file, _sendBuffer of the context and    *)
(* the send buffer of TCP, which the peer's acknowledgements empty.  Sizes *)
(* are counted in abstract units of a few bytes.  The callbacks run to     *)
(* completion on the AppThread, so each one is an action.                  *)
(***************************************************************************)
EXTENDS Integers

CONSTANTS
  SND_BUF,        \* what altcp_sndbuf() returns when everything is acknowledged
  SEND_BUF_SIZE,  \* MAX_SEND_BUF_SIZE, the size of _sendBuffer
  RESERVE,        \* the end of _sendBuffer that content never fills
  HEADER,         \* size of a response header
  FileSizes,      \* sizes of the files served
  TIMEOUT,        \* TO_RECV and TO_SENT, in clock ticks
  WriteFails,     \* outcomes of altcp_write(): {FALSE}, or BOOLEAN if it may fail
  PROMPT_PEER,    \* TRUE: the peer acknowledges data before the timeout
  MAX_RESPONSES   \* bound: responses per connection

ASSUME SendAssumption ==
  /\ SND_BUF \in Nat \ {0}
  /\ SEND_BUF_SIZE \in Nat
  /\ RESERVE \in Nat
  /\ HEADER \in Nat \ {0}
  /\ HEADER + RESERVE <= SEND_BUF_SIZE
  /\ FileSizes \subseteq Nat
  /\ TIMEOUT \in Nat
  /\ WriteFails \subseteq BOOLEAN
  /\ PROMPT_PEER \in BOOLEAN
  /\ MAX_RESPONSES \in Nat

(***************************************************************************)
(* What a request asks for, as far as sending tells them apart:            *)
(*  file         result 200, the handler reads a file;                     *)
(*  nobody       result 200, the handler has no ReadContent (upload);      *)
(*  redirect     result -307, the short body is part of the header;        *)
(*  notModified  result -304;                                              *)
(*  error        a result from -400 down to -499.                          *)
(***************************************************************************)
Kinds == {"file", "nobody", "redirect", "notModified", "error"}

VARIABLES
  state,        \* _state; "CLOSED" once CloseHttpContext was called
  kind,         \* the kind of the current, or else of the last, request
  keepalive,    \* _keepalive of that request
  peerClosing,  \* _peer_closing
  total,        \* _dwTotal, the size of the file
  index,        \* _dwOperIndex, how much of it was read
  stage,        \* _dwOperStage: "MORE" until it is STAGE_END
  bytesLeft,    \* _bytesLeft, the content of _sendBuffer
  total2Send,   \* _total2Send, given to TCP
  totalSent,    \* _totalSent, acknowledged
  age,          \* ticks since the stamp that IsContextTimeout looks at
  unacked,      \* the content of TCP's send buffer
  responses,    \* history: responses begun
  outcome,      \* history: how the current response ended
  cancelled     \* history: OnCancel was called for it

request == <<kind, keepalive, total>>
progress == <<index, stage, bytesLeft, total2Send, totalSent>>
vars == <<state, request, peerClosing, progress, age, unacked, responses,
          outcome, cancelled>>

Outcomes == {"pending", "allSent", "ended", "failed", "timeout"}

AtEnd == stage = "END"

Responding == state \in {"SENDING_HEADER", "SENDING_BODY"}

Least(a, b) == IF a < b THEN a ELSE b

(***************************************************************************)
(* A callback: which one, how much the peer acknowledged, whether the peer *)
(* closed its side, and whether altcp_write fails should it be called.     *)
(***************************************************************************)
Receive(fail) == [caller |-> "RECV", acked |-> 0, fin |-> FALSE, fail |-> fail]
Fin(fail) == [caller |-> "RECV", acked |-> 0, fin |-> TRUE, fail |-> fail]
Poll(fail) == [caller |-> "POLL", acked |-> 0, fin |-> FALSE, fail |-> fail]
Sent(n, fail) == [caller |-> "SENT", acked |-> n, fin |-> FALSE, fail |-> fail]

(* TCP's send buffer when the callback begins. *)
InFlight(e) == unacked - e.acked

-----------------------------------------------------------------------------

(* OnHttpAccept: a fresh context for a fresh connection. *)
Init ==
  /\ state = "IDLE" /\ kind = "file" /\ keepalive = FALSE /\ total = 0
  /\ peerClosing = FALSE
  /\ index = 0 /\ stage = "MORE"
  /\ bytesLeft = 0 /\ total2Send = 0 /\ totalSent = 0
  /\ age = 0 /\ unacked = 0
  /\ responses = 0 /\ outcome = "ended" /\ cancelled = FALSE

(* memset(&ctxResponse, 0, ...) of ResetHttpContext and FreeHttpContext. *)
ClearResponse ==
  /\ index' = 0 /\ stage' = "MORE"
  /\ bytesLeft' = 0 /\ total2Send' = 0 /\ totalSent' = 0 /\ age' = 0

CloseHttpContext ==
  /\ state' = "CLOSED"
  /\ peerClosing' = FALSE
  /\ ClearResponse

ResetHttpContext ==
  /\ state' = "IDLE"
  /\ UNCHANGED peerClosing
  /\ ClearResponse

(***************************************************************************)
(* HTTP_STATE_REQUEST_END, at the end of HttpRequestProc: the context is   *)
(* reset for the next request, or closed.  Both clear _result, so that the *)
(* callback finds no reason to cancel.                                     *)
(***************************************************************************)
RequestEnd(e, how, keep) ==
  /\ outcome' = how
  /\ IF keep /\ ~(peerClosing \/ e.fin) THEN ResetHttpContext ELSE CloseHttpContext

(* A callback cancels a response of kind k that goes on with a bad _result. *)
Cancels(e, k) == \/ k = "error"
                 \/ k \in {"notModified", "redirect"} /\ e.caller # "RECV"

(* The response goes on after this callback, in state s. *)
GoOn(e, s) ==
  /\ state' = s
  /\ peerClosing' = (peerClosing \/ e.fin)
  /\ cancelled' = (cancelled \/ Cancels(e, kind))
  /\ totalSent' = totalSent + e.acked
  /\ UNCHANGED outcome

(* Mutant: altcp_sndbuf() is not asked. *)
sendBuffered_NoLimit(pending, u) == pending

(***************************************************************************)
(* How much of the pending content sendBuffered gives to TCP when u units  *)
(* are unacknowledged: its loop ends when one of the buffers is used up.   *)
(***************************************************************************)
sendBuffered(pending, u) == Least(pending, SND_BUF - u)

(* altcp_write() can only fail if it is called. *)
SendFails(e, pending, u) == e.fail /\ sendBuffered(pending, u) > 0

(* _tLastSent is set by a write. *)
Send(pending, u) ==
  LET m == sendBuffered(pending, u) IN
  /\ bytesLeft' = pending - m
  /\ total2Send' = total2Send + m
  /\ unacked' = u + m
  /\ age' = IF m > 0 THEN 0 ELSE age

-----------------------------------------------------------------------------

(* Mutant: the remaining content is only flushed when TCP has room for all. *)
MustFlush_Room(u) == bytesLeft > 0 /\ AtEnd /\ bytesLeft <= SND_BUF - u

(* Mutant: STAGE_END is not tested. *)
MustFlush_NotAtEnd(u) == bytesLeft > 0 /\ bytesLeft >= SND_BUF - u

(* "send the remaining", the first test of HttpResponseProc. *)
MustFlush(u) == bytesLeft > 0 /\ (AtEnd \/ bytesLeft >= SND_BUF - u)

SendRemaining(e) ==
  LET u == InFlight(e) IN
  IF SendFails(e, bytesLeft, u)
  THEN /\ RequestEnd(e, "failed", keepalive)
       /\ unacked' = u
       /\ UNCHANGED cancelled
  ELSE /\ Send(bytesLeft, u)
       /\ GoOn(e, state)
       /\ UNCHANGED <<index, stage>>

(* How much of the file ReadContent adds to _sendBuffer. *)
Readable == Least(total - index, SEND_BUF_SIZE - bytesLeft - RESERVE)

(* Mutant: new content overwrites what the last write left behind. *)
Loaded_Overwrites == Readable

(* The content of _sendBuffer after ReadContent. *)
Loaded == bytesLeft + Readable

(* "the last chunk was already sent out" *)
AllAcked(e) == AtEnd /\ e.caller = "SENT" /\ totalSent + e.acked >= total2Send

(* The handler has nothing to read, or nothing left. *)
NoContent == kind # "file" \/ (~AtEnd /\ index = total)

(* CGI_LoadContentToSend ends the response. *)
BodyEnds(e) ==
  /\ AllAcked(e) \/ NoContent
  /\ RequestEnd(e, IF AllAcked(e) THEN "allSent" ELSE "ended", keepalive)
  /\ unacked' = InFlight(e)
  /\ UNCHANGED cancelled

(* CGI_LoadContentToSend: everything was read, the last ack is missing. *)
BodyWaits(e) ==
  /\ kind = "file" /\ AtEnd /\ ~AllAcked(e)
  /\ GoOn(e, "SENDING_BODY")
  /\ unacked' = InFlight(e)
  /\ UNCHANGED <<index, stage, bytesLeft, total2Send, age>>

(* CGI_LoadContentToSend reads on, and sendBuffered passes on what it got. *)
(* LWIP_fread never reports an error (it tests an unsigned size >= 0).     *)
BodyReads(e) ==
  LET u == InFlight(e) IN
  /\ kind = "file" /\ ~AtEnd /\ index < total
  /\ IF Readable > 0 /\ SendFails(e, Loaded, u)
     THEN /\ RequestEnd(e, "failed", keepalive)
          /\ unacked' = u
          /\ UNCHANGED cancelled
     ELSE /\ index' = index + Readable
          /\ stage' = IF index + Readable >= total THEN "END" ELSE "MORE"
          /\ GoOn(e, "SENDING_BODY")
          /\ \/ Readable > 0 /\ Send(Loaded, u)
             \/ /\ Readable <= 0              \* "pending without data"
                /\ unacked' = u
                /\ UNCHANGED <<bytesLeft, total2Send, age>>

SendBody(e) == BodyEnds(e) \/ BodyWaits(e) \/ BodyReads(e)

(* Only an acknowledgement takes the response from the header to the body. *)
AfterHeader(e) ==
  \/ /\ e.caller = "SENT" /\ kind \in {"notModified", "error", "redirect"}
     /\ RequestEnd(e, "ended", keepalive)
     /\ unacked' = InFlight(e)
     /\ UNCHANGED cancelled
  \/ /\ e.caller = "SENT" /\ kind \in {"file", "nobody"}
     /\ SendBody(e)
  \/ /\ e.caller # "SENT"
     /\ GoOn(e, state)
     /\ UNCHANGED <<index, stage, bytesLeft, total2Send, age, unacked>>

(* HttpResponseProc, once the header was built. *)
HttpResponseProc(e) ==
  /\ Responding
  /\ \/ MustFlush(InFlight(e)) /\ SendRemaining(e)
     \/ ~MustFlush(InFlight(e)) /\ state = "SENDING_HEADER" /\ AfterHeader(e)
     \/ ~MustFlush(InFlight(e)) /\ state = "SENDING_BODY" /\ SendBody(e)
  /\ UNCHANGED <<request, responses>>

(***************************************************************************)
(* The callback finds a complete request in the receive buffers, and       *)
(* HttpResponseProc builds the header and writes it.  A redirect has no    *)
(* content to load and is over at once, acknowledged or not.               *)
(***************************************************************************)
NewRequest(e, k, size, keep) ==
  LET u == InFlight(e)
      failed == SendFails(e, HEADER, u)
      m == IF failed THEN 0 ELSE sendBuffered(HEADER, u)
  IN
  /\ state = "IDLE"
  /\ responses < MAX_RESPONSES
  /\ responses' = responses + 1
  /\ kind' = k /\ keepalive' = keep /\ total' = size
  /\ unacked' = u + m
  /\ IF failed \/ k = "redirect"
     THEN /\ RequestEnd(e, IF failed THEN "failed" ELSE "ended", keep)
          /\ cancelled' = FALSE
     ELSE /\ state' = "SENDING_HEADER"
          /\ index' = 0 /\ stage' = "MORE"
          /\ bytesLeft' = HEADER - m
          /\ total2Send' = m
          /\ totalSent' = 0
          /\ age' = 0
          /\ outcome' = "pending"
          /\ cancelled' = Cancels(e, k)
          /\ UNCHANGED peerClosing

(* No complete request is there: only a late acknowledgement is noted. *)
NoRequest(e) ==
  /\ state = "IDLE"
  /\ totalSent' = totalSent + e.acked
  /\ unacked' = InFlight(e)
  /\ age' = IF e.caller = "RECV" THEN 0 ELSE age
  /\ UNCHANGED <<state, request, peerClosing, index, stage, bytesLeft,
                 total2Send, responses, outcome, cancelled>>

HttpRequestProc(e) ==
  \/ HttpResponseProc(e)
  \/ \E k \in Kinds, size \in FileSizes, keep \in BOOLEAN : NewRequest(e, k, size, keep)
  \/ NoRequest(e)

-----------------------------------------------------------------------------

OnHttpReceive == \E fail \in WriteFails : HttpRequestProc(Receive(fail))

(* The peer closed its side, which lwIP reports once. *)
OnHttpReceiveFin ==
  /\ ~peerClosing
  /\ \/ /\ state = "IDLE"
        /\ CloseHttpContext
        /\ UNCHANGED <<request, unacked, responses, outcome, cancelled>>
     \/ \E fail \in WriteFails : HttpResponseProc(Fin(fail))

(* After CloseHttpContext TCP goes on emptying its buffer, unobserved. *)
OnHttpSent ==
  \E n \in 1..unacked :
    \/ \E fail \in WriteFails : HttpRequestProc(Sent(n, fail))
    \/ /\ state = "CLOSED"
       /\ unacked' = unacked - n
       /\ UNCHANGED <<state, request, peerClosing, progress, age, responses,
                      outcome, cancelled>>

(* IsContextTimeout *)
TimedOut == age > TIMEOUT

OnHttpPoll ==
  \/ /\ TimedOut /\ state # "CLOSED"
     /\ CloseHttpContext
     /\ outcome' = IF Responding THEN "timeout" ELSE outcome
     /\ cancelled' = (cancelled \/ Responding)
     /\ UNCHANGED <<request, unacked, responses>>
  \/ /\ ~TimedOut
     /\ \E fail \in WriteFails : HttpRequestProc(Poll(fail))

(* Time passes.  A prompt peer acknowledges before the timeout is reached. *)
Tick ==
  /\ state # "CLOSED"
  /\ age <= TIMEOUT
  /\ PROMPT_PEER /\ Responding /\ unacked > 0 => age < TIMEOUT
  /\ age' = age + 1
  /\ UNCHANGED <<state, request, peerClosing, progress, unacked, responses,
                 outcome, cancelled>>

Next ==
  \/ OnHttpReceive
  \/ OnHttpReceiveFin
  \/ OnHttpSent
  \/ OnHttpPoll
  \/ Tick

(***************************************************************************)
(* TCP's timer calls OnHttpPoll again and again, and a peer that is there  *)
(* acknowledges in the end all that was sent.                              *)
(***************************************************************************)
Fairness == WF_vars(OnHttpPoll) /\ WF_vars(OnHttpSent)

Spec == Init /\ [][Next]_vars
FairSpec == Spec /\ Fairness

-----------------------------------------------------------------------------

(* The variables keep their types. *)
TypeOK ==
  /\ state \in {"IDLE", "SENDING_HEADER", "SENDING_BODY", "CLOSED"}
  /\ kind \in Kinds
  /\ keepalive \in BOOLEAN /\ peerClosing \in BOOLEAN
  /\ total \in FileSizes \cup {0}
  /\ index \in 0..total
  /\ stage \in {"MORE", "END"}
  /\ bytesLeft \in Nat /\ total2Send \in Nat /\ totalSent \in Nat
  /\ age \in 0..(TIMEOUT + 1)
  /\ unacked \in Nat
  /\ responses \in 0..MAX_RESPONSES
  /\ outcome \in Outcomes
  /\ cancelled \in BOOLEAN

(***************************************************************************)
(* _sendBuffer is never overrun, and TCP is never given more than          *)
(* altcp_sndbuf() allows, however reads, partial writes and partial        *)
(* acknowledgements alternate.                                             *)
(***************************************************************************)
BuffersHold ==
  /\ bytesLeft <= SEND_BUF_SIZE - RESERVE
  /\ unacked <= SND_BUF

(***************************************************************************)
(* Nothing is lost or sent twice between the file and TCP: what was given  *)
(* to TCP and what waits in _sendBuffer is the header and the part of the  *)
(* file that was read.                                                     *)
(***************************************************************************)
NothingLost == Responding => total2Send + bytesLeft = HEADER + index

(***************************************************************************)
(* A response that is not over has something in flight, so that the next   *)
(* acknowledgement calls OnHttpSent and drives it on: no wake-up is lost   *)
(* between a full _sendBuffer and a full TCP buffer.                       *)
(***************************************************************************)
AlwaysDriven == Responding => unacked > 0

(***************************************************************************)
(* A response with a file that ends well, whether the connection is kept   *)
(* or closed, was given to TCP completely: OnAllSent never comes while a   *)
(* part of the file still waits in _sendBuffer, and the next response      *)
(* never follows a truncated one.                                          *)
(***************************************************************************)
EndsWhole ==
  [][Responding /\ kind = "file" /\ total > 0
       /\ outcome' # outcome /\ outcome' \in {"allSent", "ended"}
     => total2Send = HEADER + total]_vars

(***************************************************************************)
(* "All files could be downloaded": to a peer that acknowledges in time,   *)
(* every response is sent to its end, unless a write fails.                *)
(***************************************************************************)
ResponseCompletes == outcome = "pending" ~> outcome \in {"allSent", "ended", "failed"}

=============================================================================
