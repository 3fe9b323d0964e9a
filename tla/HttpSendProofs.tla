--------------------------- MODULE HttpSendProofs ---------------------------
(***************************************************************************)
(* What HttpSend guarantees for every size of the buffers, the header and  *)
(* the files, for every order of callbacks and every partial               *)
(* acknowledgement.                                                        *)
(***************************************************************************)
EXTENDS HttpSend, TLAPS

(* The callbacks that can happen in a state. *)
Event == [caller : {"RECV", "POLL", "SENT"}, acked : Nat, fin : BOOLEAN, fail : BOOLEAN]

Legal(e) == e \in Event /\ e.acked <= unacked /\ (e.caller # "SENT" => e.acked = 0)

(***************************************************************************)
(* What the acknowledgement counters and the read position mean: at least  *)
(* the unacknowledged part of this response is in flight (an earlier       *)
(* response may add to it), and STAGE_END means that the file was read.    *)
(***************************************************************************)
Accounting ==
  Responding =>
    /\ total2Send - totalSent <= unacked
    /\ stage = "END" => index = total
    /\ state = "SENDING_HEADER" => stage # "END" /\ index = 0
    /\ state = "SENDING_BODY" => kind = "file" /\ (stage = "END" \/ index < total)

SendInv == TypeOK /\ BuffersHold /\ NothingLost /\ Accounting

(* What sendBuffered passes on fits, and something is in flight afterwards. *)
LEMMA SendBufferedFits ==
  ASSUME NEW pending \in Nat, NEW u \in 0..SND_BUF
  PROVE  /\ sendBuffered(pending, u) \in 0..pending
         /\ u + sendBuffered(pending, u) <= SND_BUF
         /\ pending > 0 => u + sendBuffered(pending, u) > 0
BY SendAssumption DEF sendBuffered, Least

(* An acknowledgement never covers more than is in flight. *)
LEMMA InFlightRange ==
  ASSUME SendInv, NEW e, Legal(e)
  PROVE  /\ InFlight(e) \in 0..SND_BUF
         /\ InFlight(e) = unacked - e.acked
         /\ e.acked \in Nat /\ e.fin \in BOOLEAN /\ e.fail \in BOOLEAN
BY SendAssumption DEF SendInv, TypeOK, BuffersHold, Legal, Event, InFlight

(* A fresh connection satisfies the invariant. *)
LEMMA SendInvInit == Init => SendInv
<1> SUFFICES ASSUME Init PROVE SendInv
  OBVIOUS
<1> USE SendAssumption DEF Init
<1>0. keepalive \in BOOLEAN /\ peerClosing \in BOOLEAN /\ cancelled \in BOOLEAN
  BY Zenon
<1>1. TypeOK
  BY <1>0 DEF TypeOK, Kinds, Outcomes
<1>2. BuffersHold
  BY DEF BuffersHold
<1>3. NothingLost /\ Accounting
  BY DEF NothingLost, Accounting, Responding
<1>4. QED
  BY <1>1, <1>2, <1>3 DEF SendInv

(* Ending a response, by reset or close, re-establishes the invariant. *)
LEMMA EndKeepsInv ==
  ASSUME SendInv, NEW e, NEW how \in Outcomes, NEW keep,
         RequestEnd(e, how, keep),
         kind' \in Kinds, keepalive' \in BOOLEAN, total' \in FileSizes \cup {0},
         unacked' \in 0..SND_BUF, responses' \in 0..MAX_RESPONSES, cancelled' \in BOOLEAN
  PROVE  SendInv' /\ ~Responding'
<1> USE SendAssumption DEF AtEnd
<1>1. /\ state' \in {"IDLE", "CLOSED"}
      /\ peerClosing' \in BOOLEAN
      /\ outcome' \in Outcomes
      /\ index' = 0 /\ stage' = "MORE" /\ bytesLeft' = 0
      /\ total2Send' = 0 /\ totalSent' = 0 /\ age' = 0
  BY DEF RequestEnd, ResetHttpContext, CloseHttpContext, ClearResponse, SendInv, TypeOK
<1>2. total' \in Nat
  OBVIOUS
<1>3. TypeOK'
  BY <1>1, <1>2 DEF TypeOK
<1>4. BuffersHold'
  BY <1>1 DEF BuffersHold
<1>5. NothingLost' /\ Accounting' /\ ~Responding'
  BY <1>1 DEF NothingLost, Accounting, Responding
<1>6. QED
  BY <1>3, <1>4, <1>5 DEF SendInv

(***************************************************************************)
(* A response that goes on, with the given pending content sent, keeps the *)
(* invariant, and has something in flight.                                 *)
(***************************************************************************)
LEMMA SendKeepsInv ==
  ASSUME SendInv, Responding, NEW e, Legal(e), NEW pending \in Nat \ {0},
         NEW s \in {"SENDING_HEADER", "SENDING_BODY"},
         GoOn(e, s), Send(pending, InFlight(e)),
         UNCHANGED <<request, responses>>,
         pending <= SEND_BUF_SIZE - RESERVE,
         total2Send + pending = HEADER + index',
         index' \in 0..total, stage' \in {"MORE", "END"},
         stage' = "END" => index' = total,
         s = "SENDING_HEADER" => stage' # "END" /\ index' = 0,
         s = "SENDING_BODY" => kind = "file" /\ (stage' = "END" \/ index' < total)
  PROVE  SendInv' /\ unacked' > 0
<1> USE SendAssumption DEF AtEnd
<1> DEFINE u == InFlight(e)
           m == sendBuffered(pending, u)
<1>1. u \in 0..SND_BUF /\ u = unacked - e.acked /\ e.acked \in Nat /\ e.fin \in BOOLEAN
  BY InFlightRange
<1>2. m \in 0..pending /\ u + m <= SND_BUF /\ u + m > 0
  BY <1>1, SendBufferedFits
<1> HIDE DEF m
<1>3. /\ bytesLeft' = pending - m /\ total2Send' = total2Send + m
      /\ unacked' = u + m /\ age' = IF m > 0 THEN 0 ELSE age
  BY DEF Send, m
<1> HIDE DEF u
<1>4. /\ state' = s /\ peerClosing' \in BOOLEAN /\ cancelled' \in BOOLEAN
      /\ totalSent' = totalSent + e.acked /\ outcome' = outcome
      /\ kind' = kind /\ keepalive' = keepalive /\ total' = total /\ responses' = responses
  BY <1>1 DEF GoOn, SendInv, TypeOK, request
<1>5. TypeOK'
  BY <1>1, <1>2, <1>3, <1>4 DEF SendInv, TypeOK
<1>6. BuffersHold'
  BY <1>1, <1>2, <1>3 DEF BuffersHold
<1>7. NothingLost'
  <2>1. total2Send \in Nat /\ HEADER \in Nat /\ index' \in Int /\ m \in Int
    BY <1>2 DEF SendInv, TypeOK
  <2>2. \A a, b, c \in Int : (a + c) + (b - c) = a + b
    OBVIOUS
  <2>3. total2Send' + bytesLeft' = total2Send + pending
    BY <2>1, <2>2, <1>3
  <2>4. QED
    BY <2>3 DEF NothingLost
<1>8. Accounting'
  <2>1. total2Send - totalSent <= unacked
    BY DEF SendInv, Accounting
  <2>2. total2Send' - totalSent' <= unacked'
    BY <2>1, <1>1, <1>2, <1>3, <1>4 DEF SendInv, TypeOK
  <2>3. QED
    BY <2>2, <1>4 DEF Accounting
<1>9. QED
  BY <1>1, <1>2, <1>3, <1>5, <1>6, <1>7, <1>8 DEF SendInv

(* TCP has room for what _sendBuffer can hold: true of TLS, not of plain TCP. *)
SmallWindow == SND_BUF + RESERVE <= SEND_BUF_SIZE

(***************************************************************************)
(* One callback while a response is being sent: the invariant is kept, and *)
(* a response that goes on has something in flight if it had before and    *)
(* TCP's buffer is the smaller one.                                        *)
(***************************************************************************)
LEMMA ResponseProcKeepsInv ==
  ASSUME SendInv, NEW e, Legal(e), HttpResponseProc(e)
  PROVE  SendInv' /\ (SmallWindow /\ AlwaysDriven => AlwaysDriven')
<1> USE SendAssumption DEF AtEnd
<1> DEFINE u == InFlight(e)
<1>0. /\ Responding
      /\ u \in 0..SND_BUF /\ u = unacked - e.acked /\ e.acked \in Nat
      /\ e.fin \in BOOLEAN /\ e.fail \in BOOLEAN
      /\ UNCHANGED <<request, responses>>
  BY InFlightRange DEF HttpResponseProc
<1> HIDE DEF u
<1>1. /\ kind \in Kinds /\ keepalive \in BOOLEAN /\ total \in FileSizes \cup {0}
      /\ total \in Nat /\ index \in 0..total /\ stage \in {"MORE", "END"}
      /\ bytesLeft \in Nat /\ total2Send \in Nat /\ totalSent \in Nat /\ unacked \in Nat
      /\ responses \in 0..MAX_RESPONSES /\ cancelled \in BOOLEAN
      /\ bytesLeft <= SEND_BUF_SIZE - RESERVE
      /\ total2Send + bytesLeft = HEADER + index
      /\ kind' = kind /\ keepalive' = keepalive /\ total' = total /\ responses' = responses
  BY <1>0 DEF SendInv, TypeOK, BuffersHold, NothingLost, request
<1>2. ASSUME NEW how \in Outcomes, RequestEnd(e, how, keepalive), unacked' = u,
             UNCHANGED cancelled
      PROVE  SendInv' /\ AlwaysDriven'
  BY <1>0, <1>1, <1>2, EndKeepsInv DEF AlwaysDriven
<1>3. CASE MustFlush(u) /\ SendRemaining(e)
  <2>1. CASE SendFails(e, bytesLeft, u)
    BY <2>1, <1>2, <1>3 DEF SendRemaining, Outcomes, u
  <2>2. CASE ~SendFails(e, bytesLeft, u)
    <3>1. Send(bytesLeft, u) /\ GoOn(e, state) /\ index' = index /\ stage' = stage
      BY <2>2, <1>3 DEF SendRemaining, u
    <3>2. bytesLeft \in Nat \ {0}
      BY <1>1, <1>3 DEF MustFlush
    <3>3. /\ state \in {"SENDING_HEADER", "SENDING_BODY"}
          /\ stage = "END" => index = total
          /\ state = "SENDING_HEADER" => stage # "END" /\ index = 0
          /\ state = "SENDING_BODY" => kind = "file" /\ (stage = "END" \/ index < total)
      BY <1>0 DEF SendInv, Accounting, Responding
    <3>4. SendInv' /\ unacked' > 0
      BY <3>1, <3>2, <3>3, <1>0, <1>1, SendKeepsInv DEF u
    <3>5. QED
      BY <3>4 DEF AlwaysDriven
  <2>3. QED
    BY <2>1, <2>2
<1>4. ASSUME ~MustFlush(u), SendBody(e), kind \in {"file", "nobody"},
             e.caller = "SENT" \/ state = "SENDING_BODY"
      PROVE  SendInv' /\ (SmallWindow /\ AlwaysDriven => AlwaysDriven')
  <2>1. CASE BodyEnds(e)
    BY <2>1, <1>2 DEF BodyEnds, Outcomes, u
  <2>2. CASE BodyWaits(e)
    <3>1. /\ state' = "SENDING_BODY" /\ peerClosing' \in BOOLEAN /\ cancelled' \in BOOLEAN
          /\ totalSent' = totalSent + e.acked /\ outcome' = outcome /\ unacked' = u
          /\ index' = index /\ stage' = stage /\ bytesLeft' = bytesLeft
          /\ total2Send' = total2Send /\ age' = age
          /\ kind = "file" /\ stage = "END" /\ ~AllAcked(e)
      BY <2>2, <1>0, <1>1 DEF BodyWaits, GoOn, SendInv, TypeOK, u
    <3>2. index = total /\ total2Send - totalSent <= unacked
      BY <3>1, <1>0 DEF SendInv, Accounting
    <3>3. TypeOK'
      BY <3>1, <1>0, <1>1 DEF SendInv, TypeOK
    <3>4. BuffersHold' /\ NothingLost'
      BY <3>1, <1>0, <1>1 DEF BuffersHold, NothingLost
    <3>5. total2Send' - totalSent' <= unacked'
      BY <3>1, <3>2, <1>0, <1>1
    <3>6. Accounting'
      BY <3>1, <3>2, <3>5, <1>1 DEF Accounting
    <3>7. ASSUME AlwaysDriven PROVE AlwaysDriven'
      <4>1. CASE e.caller = "SENT"
        <5>1. ~(totalSent + e.acked >= total2Send)
          BY <4>1, <3>1 DEF AllAcked
        <5>2. unacked' > 0
          BY <5>1, <3>1, <3>2, <1>0, <1>1
        <5>3. QED
          BY <5>2 DEF AlwaysDriven
      <4>2. CASE e.caller # "SENT"
        BY <4>2, <3>1, <3>7, <1>0, <1>1 DEF Legal, AlwaysDriven
      <4>3. QED
        BY <4>1, <4>2
    <3>8. QED
      BY <3>3, <3>4, <3>6, <3>7 DEF SendInv
  <2>3. CASE BodyReads(e)
    <3> DEFINE room == SEND_BUF_SIZE - bytesLeft - RESERVE
    <3>1. /\ kind = "file" /\ stage # "END" /\ index < total
          /\ room \in Nat
          /\ Readable \in Nat /\ Readable <= total - index /\ Readable <= room
          /\ Readable = total - index \/ Readable = room
          /\ Loaded = bytesLeft + Readable
      BY <2>3, <1>1 DEF BodyReads, Readable, Least, Loaded
    <3>2. CASE Readable > 0 /\ SendFails(e, Loaded, u)
      BY <2>3, <3>2, <1>2 DEF BodyReads, Outcomes, u
    <3>3. CASE ~(Readable > 0 /\ SendFails(e, Loaded, u))
      <4>1. /\ index' = index + Readable /\ GoOn(e, "SENDING_BODY")
            /\ stage' = IF index + Readable >= total THEN "END" ELSE "MORE"
            /\ \/ Readable > 0 /\ Send(Loaded, u)
               \/ /\ Readable <= 0 /\ unacked' = u
                  /\ UNCHANGED <<bytesLeft, total2Send, age>>
        BY <2>3, <3>3 DEF BodyReads, u
      <4>2. /\ index' \in 0..total /\ stage' \in {"MORE", "END"}
            /\ stage' = "END" => index' = total
            /\ stage' = "END" \/ index' < total
        <5>1. stage' = IF index' >= total THEN "END" ELSE "MORE"
          BY <4>1
        <5>2. index' \in 0..total
          BY <4>1, <3>1, <1>1
        <5>3. QED
          BY <5>1, <5>2, <1>1
      <4>3. CASE Readable > 0
        <5>1. Send(Loaded, u)
          BY <4>1, <4>3, <3>1
        <5>2. /\ Loaded \in Nat \ {0} /\ Loaded <= SEND_BUF_SIZE - RESERVE
              /\ total2Send + Loaded = HEADER + index'
          BY <4>1, <4>3, <3>1, <1>1
        <5>3. SendInv' /\ unacked' > 0
          BY <5>1, <5>2, <4>1, <4>2, <3>1, <1>0, <1>1, SendKeepsInv DEF u
        <5>4. QED
          BY <5>3 DEF AlwaysDriven
      <4>4. CASE ~(Readable > 0)
        <5>1. /\ Readable = 0 /\ unacked' = u /\ bytesLeft' = bytesLeft
              /\ total2Send' = total2Send /\ age' = age /\ index' = index
          BY <4>1, <4>4, <3>1, <1>1
        <5>2. /\ state' = "SENDING_BODY" /\ peerClosing' \in BOOLEAN /\ cancelled' \in BOOLEAN
              /\ totalSent' = totalSent + e.acked /\ outcome' = outcome
          BY <4>1, <1>0, <1>1 DEF GoOn, SendInv, TypeOK
        <5>3. TypeOK'
          BY <5>1, <5>2, <4>2, <1>0, <1>1 DEF SendInv, TypeOK
        <5>4. BuffersHold' /\ NothingLost'
          BY <5>1, <1>0, <1>1 DEF BuffersHold, NothingLost
        <5>5. total2Send - totalSent <= unacked
          BY <1>0 DEF SendInv, Accounting
        <5>6. total2Send' - totalSent' <= unacked'
          BY <5>5, <5>1, <5>2, <1>0, <1>1
        <5>7. Accounting'
          BY <5>2, <5>6, <4>2, <3>1, <1>1 DEF Accounting
        <5>8. ~SmallWindow
          <6>1. bytesLeft = SEND_BUF_SIZE - RESERVE
            BY <5>1, <3>1, <1>1
          <6>2. bytesLeft < SND_BUF - u
            <7>1. bytesLeft > 0
              BY <6>1
            <7>2. ~(bytesLeft >= SND_BUF - u)
              BY <7>1, <1>4 DEF MustFlush
            <7>3. QED
              BY <7>2, <1>0, <1>1
          <6>3. QED
            BY <6>1, <6>2, <1>0 DEF SmallWindow
        <5>9. QED
          BY <5>3, <5>4, <5>7, <5>8 DEF SendInv
      <4>5. QED
        BY <4>3, <4>4
    <3>4. QED
      BY <3>2, <3>3
  <2>4. QED
    BY <1>4, <2>1, <2>2, <2>3 DEF SendBody
<1>5. CASE ~MustFlush(u) /\ state = "SENDING_HEADER" /\ AfterHeader(e)
  <2>1. CASE e.caller = "SENT" /\ kind \notin {"file", "nobody"}
    <3>1. RequestEnd(e, "ended", keepalive) /\ unacked' = u /\ UNCHANGED cancelled
      BY <1>5, <2>1 DEF AfterHeader, u
    <3>2. QED
      BY <3>1, <1>2 DEF Outcomes
  <2>2. CASE e.caller = "SENT" /\ kind \in {"file", "nobody"}
    BY <1>4, <1>5, <2>2 DEF AfterHeader
  <2>3. CASE e.caller # "SENT"
    <3>1. /\ state' = state /\ peerClosing' \in BOOLEAN /\ cancelled' \in BOOLEAN
          /\ totalSent' = totalSent + e.acked /\ outcome' = outcome /\ unacked' = unacked
          /\ index' = index /\ stage' = stage /\ bytesLeft' = bytesLeft
          /\ total2Send' = total2Send /\ age' = age
      BY <1>5, <2>3, <1>0, <1>1 DEF AfterHeader, GoOn, SendInv, TypeOK
    <3>2. e.acked = 0
      BY <2>3 DEF Legal
    <3>3. TypeOK'
      BY <3>1, <3>2, <1>0, <1>1 DEF SendInv, TypeOK
    <3>4. BuffersHold' /\ NothingLost' /\ (AlwaysDriven => AlwaysDriven')
      BY <3>1, <1>0, <1>1 DEF SendInv, BuffersHold, NothingLost, AlwaysDriven, Responding
    <3>5. Accounting'
      BY <3>1, <3>2, <1>0, <1>1 DEF SendInv, Accounting, Responding
    <3>6. QED
      BY <3>3, <3>4, <3>5 DEF SendInv
  <2>4. QED
    BY <2>1, <2>2, <2>3
<1>6. CASE ~MustFlush(u) /\ state = "SENDING_BODY" /\ SendBody(e)
  <2>1. kind = "file"
    BY <1>6, <1>0 DEF SendInv, Accounting
  <2>2. QED
    BY <2>1, <1>4, <1>6
<1>7. QED
  BY <1>3, <1>5, <1>6 DEF HttpResponseProc, u

(* The callback that completes a request keeps the invariant. *)
LEMMA NewRequestKeepsInv ==
  ASSUME SendInv, NEW e, Legal(e),
         NEW k \in Kinds, NEW size \in FileSizes, NEW keep \in BOOLEAN,
         NewRequest(e, k, size, keep)
  PROVE  SendInv' /\ AlwaysDriven'
<1> USE SendAssumption DEF AtEnd
<1> DEFINE u == InFlight(e)
           failed == SendFails(e, HEADER, u)
           m == IF failed THEN 0 ELSE sendBuffered(HEADER, u)
<1>1. u \in 0..SND_BUF
  BY InFlightRange
<1>2. m \in 0..HEADER /\ u + m \in 0..SND_BUF /\ (~failed => u + m > 0)
  <2>1. CASE failed
    <3>1. m = 0
      BY <2>1
    <3>2. QED
      BY <1>1, <2>1, <3>1
  <2>2. CASE ~failed
    <3>1. m = sendBuffered(HEADER, u)
      BY <2>2
    <3> HIDE DEF m, u, failed
    <3>2. QED
      BY <1>1, <3>1 DEF sendBuffered, Least
  <2>3. QED
    BY <2>1, <2>2
<1>3. /\ kind' = k /\ keepalive' = keep /\ total' = size /\ unacked' = u + m
      /\ responses' = responses + 1 /\ responses < MAX_RESPONSES
  BY DEF NewRequest
<1>4. responses' \in 0..MAX_RESPONSES /\ size \in Nat
  BY <1>3 DEF SendInv, TypeOK
<1>5. CASE failed \/ k = "redirect"
  <2>1. /\ RequestEnd(e, IF failed THEN "failed" ELSE "ended", keep)
        /\ cancelled' = FALSE
    BY <1>5 DEF NewRequest
  <2>2. (IF failed THEN "failed" ELSE "ended") \in Outcomes
    BY DEF Outcomes
  <2>3. cancelled' \in BOOLEAN
    BY <2>1, Zenon
  <2>4. QED
    BY <1>2, <1>3, <1>4, <2>1, <2>2, <2>3, EndKeepsInv DEF AlwaysDriven
<1>6. CASE ~(failed \/ k = "redirect")
  <2>1. /\ state' = "SENDING_HEADER" /\ index' = 0 /\ stage' = "MORE"
        /\ bytesLeft' = HEADER - m /\ total2Send' = m /\ totalSent' = 0
        /\ age' = 0 /\ outcome' = "pending" /\ cancelled' = Cancels(e, k)
        /\ peerClosing' = peerClosing
    BY <1>6 DEF NewRequest
  <2>2. cancelled' \in BOOLEAN
    BY <2>1 DEF Cancels
  <2> HIDE DEF m, u, failed
  <2>3. TypeOK'
    BY <1>1, <1>2, <1>3, <1>4, <2>1, <2>2 DEF SendInv, TypeOK, Outcomes
  <2>4. BuffersHold' /\ NothingLost' /\ Accounting' /\ AlwaysDriven'
    BY <1>1, <1>2, <1>3, <1>6, <2>1
       DEF BuffersHold, NothingLost, Accounting, AlwaysDriven
  <2>5. QED
    BY <2>3, <2>4 DEF SendInv
<1>7. QED
  BY <1>5, <1>6

(* HttpRequestProc, called by the three callbacks. *)
LEMMA RequestProcKeepsInv ==
  ASSUME SendInv, NEW e, Legal(e), HttpRequestProc(e)
  PROVE  SendInv' /\ (SmallWindow /\ AlwaysDriven => AlwaysDriven')
<1> USE SendAssumption
<1>1. CASE HttpResponseProc(e)
  BY <1>1, ResponseProcKeepsInv
<1>2. CASE \E k \in Kinds, size \in FileSizes, keep \in BOOLEAN : NewRequest(e, k, size, keep)
  BY <1>2, NewRequestKeepsInv
<1>3. CASE NoRequest(e)
  <2>1. InFlight(e) \in 0..SND_BUF /\ e.acked \in Nat
    BY InFlightRange
  <2>2. /\ state = "IDLE" /\ state' = state
        /\ totalSent' = totalSent + e.acked /\ unacked' = InFlight(e)
        /\ age' \in {0, age}
        /\ UNCHANGED <<request, peerClosing, index, stage, bytesLeft, total2Send,
                       responses, outcome, cancelled>>
    BY <1>3 DEF NoRequest
  <2>3. TypeOK'
    BY <2>1, <2>2 DEF SendInv, TypeOK, request
  <2>4. BuffersHold' /\ NothingLost' /\ Accounting' /\ AlwaysDriven'
    BY <2>1, <2>2 DEF SendInv, BuffersHold, NothingLost, Accounting, AlwaysDriven, Responding
  <2>5. QED
    BY <2>3, <2>4 DEF SendInv
<1>4. QED
  BY <1>1, <1>2, <1>3 DEF HttpRequestProc

(* Closing the context, for a timeout or because the idle peer closed. *)
LEMMA CloseKeepsInv ==
  ASSUME SendInv, CloseHttpContext, outcome' \in Outcomes, cancelled' \in BOOLEAN,
         UNCHANGED <<request, unacked, responses>>
  PROVE  SendInv' /\ AlwaysDriven'
<1> USE SendAssumption
<1>1. /\ state' = "CLOSED" /\ peerClosing' \in BOOLEAN
      /\ index' = 0 /\ stage' = "MORE" /\ bytesLeft' = 0
      /\ total2Send' = 0 /\ totalSent' = 0 /\ age' = 0
  BY DEF CloseHttpContext, ClearResponse
<1>2. total \in Nat
  BY DEF SendInv, TypeOK
<1>3. TypeOK'
  BY <1>1, <1>2 DEF SendInv, TypeOK, request
<1>4. BuffersHold' /\ NothingLost' /\ Accounting' /\ AlwaysDriven'
  BY <1>1 DEF SendInv, BuffersHold, NothingLost, Accounting, AlwaysDriven, Responding
<1>5. QED
  BY <1>3, <1>4 DEF SendInv

(* The four callbacks are legal events. *)
LEMMA EventsAreLegal ==
  ASSUME NEW fail \in WriteFails, SendInv
  PROVE  /\ Legal(Receive(fail)) /\ Legal(Fin(fail)) /\ Legal(Poll(fail))
         /\ \A n \in 1..unacked : Legal(Sent(n, fail))
BY SendAssumption DEF Legal, Event, Receive, Fin, Poll, Sent, SendInv, TypeOK

(* Every step of the pump keeps the invariant. *)
LEMMA SendInvStep ==
  SendInv /\ [Next]_vars => SendInv' /\ (SmallWindow /\ AlwaysDriven => AlwaysDriven')
<1> SUFFICES ASSUME SendInv, [Next]_vars
             PROVE  SendInv' /\ (SmallWindow /\ AlwaysDriven => AlwaysDriven')
  OBVIOUS
<1> USE SendAssumption
<1>1. CASE OnHttpReceive
  BY <1>1, RequestProcKeepsInv, EventsAreLegal DEF OnHttpReceive
<1>2. CASE OnHttpReceiveFin
  <2>1. CASE CloseHttpContext /\ UNCHANGED <<request, unacked, responses, outcome, cancelled>>
    BY <2>1, CloseKeepsInv DEF SendInv, TypeOK
  <2>2. CASE \E fail \in WriteFails : HttpResponseProc(Fin(fail))
    BY <2>2, ResponseProcKeepsInv, EventsAreLegal
  <2>3. QED
    BY <1>2, <2>1, <2>2 DEF OnHttpReceiveFin
<1>3. CASE OnHttpSent
  <2> PICK n \in 1..unacked :
        \/ \E fail \in WriteFails : HttpRequestProc(Sent(n, fail))
        \/ /\ state = "CLOSED"
           /\ unacked' = unacked - n
           /\ UNCHANGED <<state, request, peerClosing, progress, age, responses,
                          outcome, cancelled>>
    BY <1>3 DEF OnHttpSent
  <2>1. CASE \E fail \in WriteFails : HttpRequestProc(Sent(n, fail))
    BY <2>1, RequestProcKeepsInv, EventsAreLegal
  <2>2. CASE /\ state = "CLOSED"
             /\ unacked' = unacked - n
             /\ UNCHANGED <<state, request, peerClosing, progress, age, responses,
                            outcome, cancelled>>
    <3>1. TypeOK'
      BY <2>2 DEF SendInv, TypeOK, request, progress
    <3>2. BuffersHold' /\ NothingLost' /\ Accounting' /\ AlwaysDriven'
      BY <2>2 DEF SendInv, TypeOK, BuffersHold, NothingLost, Accounting, AlwaysDriven,
                  Responding, request, progress
    <3>3. QED
      BY <3>1, <3>2 DEF SendInv
  <2>3. QED
    BY <2>1, <2>2
<1>4. CASE OnHttpPoll
  <2>1. CASE TimedOut
    <3>1. /\ CloseHttpContext
          /\ outcome' \in Outcomes /\ cancelled' \in BOOLEAN
          /\ UNCHANGED <<request, unacked, responses>>
      BY <1>4, <2>1 DEF OnHttpPoll, SendInv, TypeOK, Outcomes
    <3>2. QED
      BY <3>1, CloseKeepsInv
  <2>2. CASE ~TimedOut
    BY <1>4, <2>2, RequestProcKeepsInv, EventsAreLegal DEF OnHttpPoll
  <2>3. QED
    BY <2>1, <2>2
<1>5. CASE Tick
  <2>1. TypeOK'
    BY <1>5 DEF Tick, SendInv, TypeOK, request, progress
  <2>2. BuffersHold' /\ NothingLost' /\ Accounting' /\ (AlwaysDriven => AlwaysDriven')
    BY <1>5 DEF Tick, SendInv, BuffersHold, NothingLost, Accounting, AlwaysDriven,
                Responding, request, progress
  <2>3. QED
    BY <2>1, <2>2 DEF SendInv
<1>6. CASE UNCHANGED vars
  <2>1. TypeOK'
    BY <1>6 DEF vars, SendInv, TypeOK, request, progress
  <2>2. BuffersHold' /\ NothingLost' /\ Accounting' /\ (AlwaysDriven => AlwaysDriven')
    BY <1>6 DEF vars, SendInv, BuffersHold, NothingLost, Accounting, AlwaysDriven,
                Responding, request, progress
  <2>3. QED
    BY <2>1, <2>2 DEF SendInv
<1>7. QED
  BY <1>1, <1>2, <1>3, <1>4, <1>5, <1>6 DEF Next

(* The response pump keeps its types. *)
THEOREM SendTypeCorrect == Spec => []TypeOK
<1>1. SendInv => TypeOK
  BY DEF SendInv
<1>2. QED
  BY <1>1, SendInvInit, SendInvStep, PTL DEF Spec

(***************************************************************************)
(* For all buffer sizes: _sendBuffer is never overrun, TCP is never given  *)
(* more than it has room for.                                              *)
(***************************************************************************)
THEOREM BuffersAlwaysHold == Spec => []BuffersHold
<1>1. SendInv => BuffersHold
  BY DEF SendInv
<1>2. QED
  BY <1>1, SendInvInit, SendInvStep, PTL DEF Spec

(***************************************************************************)
(* For all buffer and file sizes: between the file and TCP nothing is lost *)
(* and nothing is sent twice.                                              *)
(***************************************************************************)
THEOREM NothingIsLost == Spec => []NothingLost
<1>1. SendInv => NothingLost
  BY DEF SendInv
<1>2. QED
  BY <1>1, SendInvInit, SendInvStep, PTL DEF Spec

(***************************************************************************)
(* If TCP's send buffer is not larger than the usable part of _sendBuffer, *)
(* no response ever waits without anything in flight.  The assumption is   *)
(* needed: without it TLC finds a response that stalls.                    *)
(***************************************************************************)
THEOREM ResponsesAreDriven ==
  ASSUME SmallWindow
  PROVE  Spec => []AlwaysDriven
<1>1. Init => AlwaysDriven
  BY DEF Init, AlwaysDriven, Responding
<1>2. QED
  BY <1>1, SendInvInit, SendInvStep, PTL DEF Spec

(* Only CGI_LoadContentToSend at STAGE_END ends a response with a file well. *)
LEMMA EndsWholeStep ==
  ASSUME SendInv, [Next]_vars, Responding, kind = "file", total > 0,
         outcome' # outcome, outcome' \in {"allSent", "ended"}
  PROVE  total2Send = HEADER + total
<1> USE SendAssumption
<1>1. PICK e : Legal(e) /\ HttpResponseProc(e)
  <2>1. ~(state = "IDLE" \/ state = "CLOSED")
    BY DEF Responding
  <2>2. ~Tick /\ ~UNCHANGED vars
    BY DEF Tick, vars
  <2>3. \A e : HttpRequestProc(e) => HttpResponseProc(e)
    BY <2>1 DEF HttpRequestProc, NewRequest, NoRequest
  <2>4. ~(outcome' = IF Responding THEN "timeout" ELSE outcome)
    OBVIOUS
  <2>5. CASE OnHttpReceive
    BY <2>5, <2>3, EventsAreLegal DEF OnHttpReceive
  <2>6. CASE OnHttpReceiveFin
    BY <2>6, <2>1, EventsAreLegal DEF OnHttpReceiveFin
  <2>7. CASE OnHttpSent
    BY <2>7, <2>1, <2>3, EventsAreLegal DEF OnHttpSent
  <2>8. CASE OnHttpPoll
    BY <2>8, <2>3, <2>4, EventsAreLegal DEF OnHttpPoll
  <2>9. QED
    BY <2>2, <2>5, <2>6, <2>7, <2>8 DEF Next
<1>2. ~SendRemaining(e)
  BY DEF SendRemaining, RequestEnd, GoOn
<1>3. ~MustFlush(InFlight(e)) /\ SendBody(e)
  BY <1>1, <1>2 DEF HttpResponseProc, AfterHeader, GoOn
<1>4. BodyEnds(e)
  BY <1>3 DEF SendBody, BodyWaits, BodyReads, GoOn, RequestEnd
<1>5. ~NoContent
  BY DEF NoContent, AtEnd, SendInv, Accounting, TypeOK, Responding
<1>6. AtEnd
  BY <1>4, <1>5 DEF BodyEnds, AllAcked
<1>7. bytesLeft = 0 /\ index = total
  BY <1>3, <1>6 DEF MustFlush, AtEnd, SendInv, Accounting, TypeOK
<1>8. QED
  BY <1>7 DEF SendInv, NothingLost, TypeOK

(***************************************************************************)
(* For all buffer and file sizes: a response with a file that ends well    *)
(* was given to TCP completely.                                            *)
(***************************************************************************)
THEOREM ResponsesEndWhole == Spec => EndsWhole
<1>1. SendInv /\ [Next]_vars =>
        [Responding /\ kind = "file" /\ total > 0
           /\ outcome' # outcome /\ outcome' \in {"allSent", "ended"}
         => total2Send = HEADER + total]_vars
  BY EndsWholeStep
<1>2. QED
  BY <1>1, SendInvInit, SendInvStep, PTL DEF Spec, EndsWhole

=============================================================================
