------------------------------ MODULE HttpRecv ------------------------------
(***************************************************************************)
(* The way of the received bytes of one connection (httpd/http_core.c):    *)
(* OnHttpReceive puts a segment into http_request_buffer or, if it does    *)
(* not fit, onto the chain of pbufs _reqBufList; HttpRequestProc moves the *)
(* chain into the buffer, parses header lines, chunk lengths and bodies,   *)
(* and shifts out what was consumed; altcp_recved() reopens the window.    *)
(*                                                                         *)
(* The bytes are positions of the stream that the client sends, so that    *)
(* order and loss can be seen; what is at a position is a token: a line    *)
(* end is two (CR and LF), all else of a line or a body one or more.  The  *)
(* parsing loop is cut into steps (pc), but no callback interrupts it.     *)
(***************************************************************************)
EXTENDS Integers, Sequences, FiniteSetsExt

CONSTANTS
  MAX_REQ_BUF_SIZE, \* max_level, the size of http_request_buffer
  TCP_WND,          \* the receive window of lwIP
  TCP_MSS,          \* the longest segment
  Streams           \* bound: what the client sends, sequences of tokens

(***************************************************************************)
(* A token: the number of its request in the stream, what it is, and a     *)
(* number: the length told by LENGTH, or by the hexadecimal text of SIZE,  *)
(* of at most two digits.  Of a body "b" is the content.  A request line   *)
(* names what handles the request:                                         *)
(*  GET     a page;            UPLOAD  a POST to upload.cgi;               *)
(*  FORM    a POST to a form;  AUTH    a POST to the login;                *)
(*  EARLY   a POST that is redirected as soon as its header is complete;   *)
(*  REFUSED a POST that nobody takes, answered with -500.                  *)
(***************************************************************************)
Methods == {"GET", "UPLOAD", "FORM", "AUTH", "EARLY", "REFUSED"}

Tokens ==
  [req : Nat, n : Nat,
   t : Methods \cup {"CR", "LF", "LENGTH", "KEEP", "CHUNKED", "SIZE", "x", "b"}]

ASSUME RecvAssumption ==
  /\ MAX_REQ_BUF_SIZE \in Nat /\ MAX_REQ_BUF_SIZE >= 2
  /\ TCP_WND \in Nat /\ TCP_MSS \in Nat
  /\ \A s \in Streams : s \in Seq(Tokens)

ASSUME SizeAssumption ==
  \A s \in Streams : \A i \in 1..Len(s) : s[i].t = "SIZE" => s[i].n < 256

(* A line of s ends with byte p; a line that begins with t begins at i. *)
EndsLine(s, p) == s[p - 1].t = "CR" /\ s[p].t = "LF"
Begins(s, i, t) == EndsLine(s, i - 1) /\ s[i].t = t

(***************************************************************************)
(* A request of s whose header is at f..h, followed by d bytes.  Only the  *)
(* last line of the header is empty; unless the content is chunked, it has *)
(* the length that is told in the header.                                  *)
(***************************************************************************)
Framed(s, f, h, d) ==
  /\ f + 2 < h /\ h + d <= Len(s)
  /\ \A i \in 1..Len(s) :
       /\ i < f => s[i].req < s[f].req
       /\ i \in f..(h + d) => s[i].req = s[f].req
       /\ i > h + d => s[i].req > s[f].req
  /\ \A i \in f..h : s[i].t # "b"
  /\ EndsLine(s, h - 2) /\ EndsLine(s, h)
  /\ \A p \in (f + 1)..(h - 3) : ~(EndsLine(s, p) /\ EndsLine(s, p + 2))
  /\ \A i \in (f + 2)..h : Begins(s, i, "LENGTH") => s[i].n = d
  /\ \/ \E i \in (f + 2)..h : Begins(s, i, "CHUNKED")
     \/ /\ \A i \in (h + 1)..(h + d) : s[i].t = "b"
        /\ d > 0 => \E i \in (f + 2)..h : Begins(s, i, "LENGTH")

(* What begins like a request is one, and the requests are numbered. *)
ASSUME StreamAssumption ==
  \A s \in Streams : \A f \in 1..Len(s) :
    s[f].t \in Methods /\ (\A i \in 1..(f - 1) : s[i].req < s[f].req) =>
      \E h, d \in 0..Len(s) : Framed(s, f, h, d)

VARIABLES
  stream,  \* what the client sends
  sent,    \* how much of it arrived
  wnd,     \* the receive window that TCP offers
  buf,     \* http_request_buffer, up to request_length
  chain,   \* the bytes of _reqBufList, from its first pbuf on
  cuts,    \* where the pbufs of the chain end
  off,     \* _bufOffset
  pc,      \* where HttpRequestProc is; "wait" between two callbacks
  size,    \* its local variable size
  pos,     \* its local variable nLinePos
  rq,      \* the request, below
  fin,     \* _peer_closing
  idle,    \* a poll passed since something arrived or was consumed
  refused, \* history: the handler took nothing of what it was offered
  taken,   \* history: how much of the stream left the buffer
  given,   \* history: what the handler got of this request
  log,     \* history: the requests that were received completely
  astray,  \* history: the server left the structure of the stream
  why      \* history: why the connection was closed

net == <<stream, sent>>
window == <<wnd, chain, cuts, off>>
history == <<given, log, astray, refused>>
vars == <<net, window, buf, pc, size, pos, rq, fin, idle, taken, history, why>>

(* A context after ResetHttpContext. *)
NoRequest ==
  [state |-> "IDLE", method |-> "none", req |-> 0, keep |-> FALSE,
   chunked |-> FALSE, length |-> 0, received |-> 0, result |-> 0]

Init ==
  /\ stream \in Streams
  /\ sent = 0
  /\ wnd = TCP_WND
  /\ buf = <<>> /\ chain = <<>> /\ cuts = {} /\ off = 0
  /\ pc = "wait" /\ size = 0 /\ pos = 0
  /\ rq = NoRequest
  /\ fin = FALSE /\ idle = FALSE
  /\ taken = 0 /\ given = <<>> /\ log = <<>> /\ astray = FALSE /\ refused = FALSE
  /\ why = "open"

-----------------------------------------------------------------------------

Drop(s, n) == SubSeq(s, n + 1, Len(s))

(* The token at index i of the buffer. *)
At(i) == stream[buf[i]]

Receiving == rq.state # "SENDING"

(* HttpRequestProc is called; the response is left to "wait". *)
Proceed == pc' = IF Receiving THEN "load" ELSE "wait"

(* CloseHttpContext: the chain is freed with the context. *)
Close(reason) ==
  /\ pc' = "closed" /\ why' = reason
  /\ UNCHANGED <<net, window, buf, size, pos, rq, fin, idle, taken, history>>

(* Whether a segment of n bytes is copied at once. *)
Fits(n) == chain = <<>> /\ n <= MAX_REQ_BUF_SIZE - Len(buf)

(* A segment p, in pbufs that end at ends. *)
Enqueue(p, ends) ==
  IF Fits(Len(p))
  THEN buf' = buf \o p /\ UNCHANGED window          \* recved at once
  ELSE /\ chain' = chain \o p                        \* pbuf_cat
       /\ cuts' = cuts \cup {Len(chain) + e : e \in ends}
       /\ wnd' = wnd - Len(p)
       /\ UNCHANGED <<buf, off>>

(* OnHttpReceive with data: a segment within the window. *)
OnHttpReceive ==
  /\ pc = "wait" /\ ~fin
  /\ \E n \in 1..TCP_MSS :
       /\ n <= wnd /\ n <= Len(stream) - sent
       /\ sent' = sent + n
       /\ \E ends \in SUBSET (1..n) :
            n \in ends /\ Enqueue([i \in 1..n |-> sent + i], ends)
  /\ Proceed
  /\ idle' = FALSE
  /\ UNCHANGED <<stream, size, pos, rq, fin, taken, history, why>>

(* OnHttpReceive without data: the peer closed its side. *)
OnHttpReceiveFin ==
  /\ pc = "wait" /\ ~fin
  /\ \/ rq.state = "IDLE" /\ Close("fin")
     \/ /\ rq.state # "IDLE"
        /\ fin' = TRUE
        /\ Proceed
        /\ idle' = FALSE
        /\ UNCHANGED <<net, window, buf, size, pos, rq, taken, history, why>>

(* OnHttpPoll while a request is received: HttpRequestProc tries again. *)
OnHttpPoll ==
  /\ pc = "wait" /\ Receiving
  /\ pc' = "load"
  /\ idle' = TRUE
  /\ UNCHANGED <<net, window, buf, size, pos, rq, fin, taken, history, why>>

(* OnHttpPoll after TO_RECV, in which other polls took place. *)
Timeout ==
  /\ pc = "wait" /\ Receiving /\ idle
  /\ Close(IF wnd = 0 THEN "stalled" ELSE "silent")

(* The response was sent (HttpSend): HTTP_STATE_REQUEST_END. *)
RequestEnd ==
  /\ pc = "wait" /\ ~Receiving
  /\ \/ (fin \/ ~rq.keep) /\ Close("done")
     \/ /\ ~fin /\ rq.keep                           \* ResetHttpContext
        /\ rq' = NoRequest
        /\ given' = <<>>
        /\ idle' = FALSE
        /\ UNCHANGED <<net, window, buf, pc, size, pos, fin, taken, log, astray, refused, why>>

-----------------------------------------------------------------------------
(***************************************************************************)
(* The loop of HttpRequestProc.                                            *)
(***************************************************************************)

(* Mutant: the leading pbufs are freed, but not acknowledged. *)
Freed_Unacked(f) == wnd' = wnd

(* Mutant: the bytes of the chain are acknowledged twice. *)
Freed_Twice(f) == wnd' = wnd + 2 * f

(* f bytes of the chain are freed and acknowledged. *)
Freed(f) == wnd' = wnd + f

(* Mutant: the offset into the chain is forgotten. *)
Loaded_FromStart(n) == SubSeq(chain, 1, n)

(* pbuf_copy_partial of n bytes at _bufOffset. *)
Loaded(n) == SubSeq(chain, off + 1, off + n)

(* As much of the chain as fits; pbufs that were copied are freed. *)
Load ==
  LET n == Min({MAX_REQ_BUF_SIZE - Len(buf), Len(chain) - off})
      f == Max({0} \cup {c \in cuts : c <= off + n})
  IN
  /\ pc = "load"
  /\ buf' = buf \o Loaded(n)
  /\ chain' = Drop(chain, f)
  /\ cuts' = {c - f : c \in {d \in cuts : d > f}}
  /\ off' = off + n - f
  /\ Freed(f)
  /\ size' = Len(buf')
  /\ pos' = 0
  /\ \/ size' = 0 /\ pc' = "exit" /\ rq' = rq
     \/ /\ size' > 0 /\ rq.state \in {"IDLE", "HEADER"}
        /\ pc' = "lines"
        /\ rq' = [rq EXCEPT !.state = "HEADER"]
     \/ size' > 0 /\ rq.state = "CHUNK_LEN" /\ pc' = "chunk" /\ rq' = rq
     \/ size' > 0 /\ rq.state \in {"BODY", "CHUNK"} /\ pc' = "body" /\ rq' = rq
  /\ UNCHANGED <<net, fin, idle, taken, history, why>>

(* Where lines end, from the one at pos on. *)
LineEnds == {i \in (pos + 1)..(Len(buf) - 1) : At(i).t = "CR" /\ At(i + 1).t = "LF"}

(* What a header line that begins with token w says. *)
HeaderLine(w) ==
  CASE w.t = "LENGTH"  -> [rq EXCEPT !.length = w.n, !.received = 0]
    [] w.t = "KEEP"    -> [rq EXCEPT !.keep = TRUE]
    [] w.t = "CHUNKED" -> [rq EXCEPT !.chunked = TRUE]
    [] OTHER           -> rq                         \* ignored

(* The next line: the first names the method, an empty one ends the header. *)
ParseLine ==
  LET e == Min(LineEnds)
      w == At(pos + 1)
  IN
  /\ pc = "lines" /\ LineEnds # {}
  /\ \/ /\ e = pos + 1
        /\ rq' = [rq EXCEPT !.state = "HEADER_DONE",
                            !.result = IF rq.method = "none" THEN -500 ELSE @]
        /\ pos' = e + 1 /\ pc' = "shift"
     \/ /\ e > pos + 1 /\ rq.method = "none" /\ w.t \in Methods
        /\ rq' = [rq EXCEPT !.method = w.t, !.req = w.req]
        /\ pos' = e + 1 /\ pc' = pc
     \/ /\ e > pos + 1 /\ rq.method = "none" /\ w.t \notin Methods
        /\ rq' = [rq EXCEPT !.result = -500]
        /\ pos' = pos /\ pc' = "shift"
     \/ /\ e > pos + 1 /\ rq.method # "none"
        /\ rq' = HeaderLine(w)
        /\ pos' = e + 1 /\ pc' = pc
  /\ UNCHANGED <<net, window, buf, size, fin, idle, taken, history, why>>

(* No further line in the buffer. *)
LinesDone ==
  /\ pc = "lines" /\ LineEnds = {}
  /\ pc' = "shift"
  /\ UNCHANGED <<net, window, buf, size, pos, rq, fin, idle, taken, history, why>>

(* n bytes leave the buffer. *)
Consume(n) ==
  /\ buf' = Drop(buf, n)
  /\ taken' = taken + n

(* A line that fills the buffer loses its first half. *)
Truncates == pos = 0 /\ Len(buf) >= MAX_REQ_BUF_SIZE

(* Mutant: the size of the buffer still counts the header. *)
SizeAfter_Stale(n) == Len(buf)

(* What the handler may look at after n bytes were shifted out. *)
SizeAfter(n) == Len(buf) - n

(* The parsed lines are shifted out of the buffer. *)
Shift ==
  LET n == IF Truncates THEN Len(buf) \div 2 ELSE pos
  IN
  /\ pc = "shift"
  /\ Consume(n)
  /\ size' = SizeAfter(n)
  /\ astray' = (astray \/ Truncates)
  /\ pc' = CASE rq.result < 0 -> "exit"
             [] rq.result = 0 /\ rq.state = "HEADER_DONE" -> "header"
             [] OTHER -> IF chain # <<>> THEN "load" ELSE "exit"
  /\ UNCHANGED <<net, window, pos, rq, fin, idle, given, log, refused, why>>

HasBody(r) == r.chunked \/ r.length > 0

(* The header is complete: CGI_HeadersReceived, and what comes next. *)
HeadersReceived ==
  /\ pc = "header"
  /\ \/ /\ rq.method \in {"EARLY", "REFUSED"}
        /\ rq' = [rq EXCEPT !.state = "SENDING",
                            !.result = IF rq.method = "EARLY" THEN -307 ELSE -500]
        /\ astray' = (astray \/ HasBody(rq))
        /\ pc' = "exit" /\ log' = log
     \/ /\ rq.method \notin {"EARLY", "REFUSED"} /\ HasBody(rq)
        /\ rq' = [rq EXCEPT !.state = IF rq.chunked THEN "CHUNK_LEN" ELSE "BODY"]
        /\ pc' = IF rq.chunked THEN "chunk" ELSE "body"
        /\ astray' = (astray \/ rq.chunked)
        /\ log' = log
     \/ /\ rq.method \notin {"EARLY", "REFUSED"} /\ ~HasBody(rq)
        /\ rq' = [rq EXCEPT !.state = "SENDING"]
        /\ pc' = "exit"
        /\ log' = Append(log, [req |-> rq.req, body |-> <<>>])
        /\ UNCHANGED astray
  /\ UNCHANGED <<net, window, buf, size, pos, fin, idle, taken, given, refused, why>>

(* Where the length of a chunk may end: at a CR or before a LF. *)
SizeEnds == {i \in 1..(Len(buf) - 1) : At(i).t = "CR" \/ At(i + 1).t = "LF"}

(* What atol() makes of the text of n: it reads decimal digits only. *)
Atol(n) ==
  LET hi == n \div 16
      lo == n % 16
  IN  CASE hi = 0              -> IF lo < 10 THEN lo ELSE 0
        [] hi \in 1..9         -> IF lo < 10 THEN 10 * hi + lo ELSE hi
        [] OTHER               -> 0

(* The length of a chunk; size still counts the bytes shifted out here. *)
ChunkLength ==
  LET e == Min(SizeEnds)
      n == IF e > 1 /\ At(1).t = "SIZE" THEN Atol(At(1).n) ELSE 0
  IN
  /\ pc = "chunk"
  /\ \/ /\ size > 2 /\ SizeEnds # {}
        /\ rq' = [rq EXCEPT !.state = "CHUNK", !.length = n + 2, !.received = 0]
        /\ Consume(e + 1)
        /\ pc' = "body" /\ refused' = refused
     \/ /\ ~(size > 2 /\ SizeEnds # {})
        /\ pc' = "exit" /\ refused' = TRUE
        /\ UNCHANGED <<rq, buf, taken>>
  /\ UNCHANGED <<net, window, size, pos, fin, idle, given, log, astray, why>>

(* Mutant: the end of the body is not looked at. *)
Takes_All(m, offered, open) == IF m = "GET" THEN {0} ELSE {0, offered}

(***************************************************************************)
(* What OnContentReceived of the handler of m may take of the offered      *)
(* bytes when open bytes of the body are to come: WEB_fwrite may fail, the *)
(* form takes what its buffer has room for, the login takes everything,    *)
(* and a page has no OnContentReceived.                                    *)
(***************************************************************************)
Takes(m, offered, open) ==
  CASE m = "UPLOAD" -> {0, Min({offered, open})}
    [] m = "FORM"   -> 0..Min({offered, open})
    [] m = "AUTH"   -> {offered}
    [] OTHER        -> {0}

(* The request after k bytes of its body were consumed. *)
AfterBody(k) ==
  IF rq.received + k < rq.length THEN [rq EXCEPT !.received = @ + k]
  ELSE IF rq.chunked /\ rq.length # 2
       THEN [rq EXCEPT !.state = "CHUNK_LEN", !.length = 0, !.received = 0]
       ELSE [rq EXCEPT !.state = "SENDING"]

(* CGI_ContentReceived, and what it consumed is shifted out. *)
ContentReceived ==
  /\ pc = "body"
  /\ \E k \in Takes(rq.method, size, rq.length - rq.received) :
       \/ /\ k = 0
          /\ pc' = "exit"
          /\ refused' = (size > 0)
          /\ UNCHANGED <<rq, buf, taken, given, log, astray, idle>>
       \/ /\ k > 0 /\ k <= Len(buf)
          /\ Consume(k)
          /\ rq' = AfterBody(k)
          /\ given' = given \o SubSeq(buf, 1, k)
          /\ log' = IF rq'.state # "SENDING" THEN log
                    ELSE Append(log, [req |-> rq.req, body |-> given'])
          /\ astray' = (astray \/ (rq.method = "AUTH" /\ rq.received + k > rq.length))
          /\ refused' = FALSE /\ idle' = FALSE
          /\ pc' = IF rq'.state = "SENDING" \/ chain = <<>> THEN "exit" ELSE "load"
       \/ /\ k > Len(buf)                           \* request_length < 0
          /\ pc' = "undefined"
          /\ UNCHANGED <<rq, buf, taken, given, log, astray, refused, idle>>
  /\ UNCHANGED <<net, window, size, pos, fin, why>>

(* HttpRequestProc returns to the callback. *)
Return ==
  /\ pc = "exit"
  /\ \/ rq.result <= -500 /\ Close("bad")
     \/ rq.result > -500 /\ Receiving /\ fin /\ Close("fin")
     \/ /\ rq.result > -500 /\ ~(Receiving /\ fin)
        /\ pc' = "wait"
        /\ UNCHANGED <<net, window, buf, size, pos, rq, fin, idle, taken, history, why>>

-----------------------------------------------------------------------------

Callback == OnHttpReceive \/ OnHttpReceiveFin \/ OnHttpPoll \/ Timeout \/ RequestEnd

HttpRequestProc ==
  Load \/ ParseLine \/ LinesDone \/ Shift \/ HeadersReceived \/ ChunkLength
    \/ ContentReceived \/ Return

Next == Callback \/ HttpRequestProc

Spec == Init /\ [][Next]_vars

(* The loop runs on; TCP polls; TO_RECV passes; the client reads answers. *)
Fairness ==
  /\ WF_vars(HttpRequestProc)
  /\ SF_vars(OnHttpPoll) /\ SF_vars(Timeout)
  /\ WF_vars(RequestEnd)

FairSpec == Spec /\ Fairness

-----------------------------------------------------------------------------

RequestStates == {"IDLE", "HEADER", "HEADER_DONE", "BODY", "CHUNK_LEN", "CHUNK", "SENDING"}

(* Types; the buffer holds max_level bytes, the window is never negative. *)
TypeOK ==
  /\ stream \in Streams /\ sent \in 0..Len(stream)
  /\ wnd \in 0..TCP_WND
  /\ buf \in Seq(Nat) /\ Len(buf) <= MAX_REQ_BUF_SIZE
  /\ chain \in Seq(Nat) /\ cuts \subseteq 1..Len(chain)
  /\ off \in Nat
  /\ pc \in {"wait", "load", "lines", "shift", "header", "chunk", "body", "exit",
             "closed", "undefined"}
  /\ size \in 0..MAX_REQ_BUF_SIZE /\ pos \in 0..MAX_REQ_BUF_SIZE
  /\ rq \in [state : RequestStates, method : Methods \cup {"none"}, req : Nat,
             keep : BOOLEAN, chunked : BOOLEAN, length : Nat, received : Nat,
             result : {0, -307, -500}]
  /\ fin \in BOOLEAN /\ idle \in BOOLEAN /\ astray \in BOOLEAN /\ refused \in BOOLEAN
  /\ taken \in Nat /\ given \in Seq(Nat)
  /\ log \in Seq([req : Nat, body : Seq(Nat)])
  /\ why \in {"open", "fin", "silent", "stalled", "done", "bad"}

(* The data that waits, in the order in which it will be parsed. *)
Waiting == buf \o Drop(chain, off)

(***************************************************************************)
(* However the stream is cut into segments and pbufs, whatever waits in    *)
(* the chain and whenever lines and bodies are shifted out: the buffer and *)
(* the chain hold exactly the bytes that arrived and were not consumed, in *)
(* their order.                                                            *)
(***************************************************************************)
BytesInOrder == Waiting = [i \in 1..(sent - taken) |-> taken + i]

(***************************************************************************)
(* The receive window lacks exactly the bytes of the chain: each byte is   *)
(* acknowledged with altcp_recved() once, and the chain has a pbuf that    *)
(* was not read to its end whenever it is not empty.                       *)
(***************************************************************************)
WindowIsWhole ==
  /\ wnd + Len(chain) = TCP_WND
  /\ chain # <<>> => Len(chain) \in cuts /\ \A c \in cuts : off < c

(* The window of TCP and the progress of the parser, as flow control. *)
Flow == INSTANCE FlowControl
          WITH Window <- TCP_WND, Store <- MAX_REQ_BUF_SIZE,
               granted <- sent + wnd, arrived <- sent, taken <- taken

(***************************************************************************)
(* Buffer, chain, offset and acknowledgements together implement the flow  *)
(* control of FlowControl: the window never shrinks, what is granted can   *)
(* always be stored, and nothing is parsed before it arrived.              *)
(***************************************************************************)
FlowIsControlled == Flow!Spec

(* The content of request k of the stream. *)
BodyOf(k) == {i \in 1..Len(stream) : stream[i].req = k /\ stream[i].t = "b"}

(***************************************************************************)
(* A request gets its own body, all of it and in order, however the stream *)
(* is cut and whatever is pipelined, unless the server went astray: after  *)
(* an answer that leaves a body unread, a login that took what followed    *)
(* it, a line longer than the buffer, or a chunked request.                *)
(***************************************************************************)
BodiesAreExact ==
  ~astray =>
    \A j \in 1..Len(log) :
      LET body == log[j].body
      IN  /\ {body[i] : i \in 1..Len(body)} = BodyOf(log[j].req)
          /\ \A i \in 1..(Len(body) - 1) : body[i] < body[i + 1]
          /\ \A k \in 1..(j - 1) : log[k].req < log[j].req

(* Only a chunked request can make request_length negative. *)
OnlyChunksOverdraw == pc = "undefined" => rq.chunked

(***************************************************************************)
(* A client that waits for the window is never forgotten: the window opens *)
(* again, and if instead the connection times out then because the handler *)
(* took nothing, never because everyone waited for everyone.               *)
(***************************************************************************)
WindowReopens ==
  (wnd = 0) ~> \/ wnd > 0 \/ pc = "undefined"
               \/ pc = "closed" /\ (why = "stalled" => refused)

=============================================================================
