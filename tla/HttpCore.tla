------------------------------ MODULE HttpCore ------------------------------
(***************************************************************************)
(* The life of connections, requests and files in httpd/http_core.c: the   *)
(* callbacks OnHttpAccept, OnHttpReceive, OnHttpPoll, OnHttpSent and       *)
(* OnHttpError of several connections, interleaved, with the handlers of   *)
(* cgi_web.c, cgi_upload.c and cgi_files.c and the table of open files and *)
(* searches of http_fs.c.                                                  *)
(*                                                                         *)
(* A request arrives in units: a part of its header, its complete header,  *)
(* a part of its body, the last part of its body.  At most one unit waits  *)
(* in the receive buffers of a context (a pipelined request, or a body     *)
(* that the handler does not take).  How much of a response each callback  *)
(* moves is the subject of HttpSend; here a callback moves some of it.     *)
(* The callbacks run on the AppThread, so each is one action.              *)
(***************************************************************************)
EXTENDS Integers

CONSTANTS
  MAX_CONNECTIONS,  \* contexts in g_httpContext
  Pcbs,             \* the pcbs of lwIP
  MAX_FILES,        \* slots of g_FileOpened
  NULL,
  Requests,         \* bound: the requests sent, <<kind, keep-alive>> pairs
  MAX_EVENTS        \* bound: what the peers do, connections and segments

ASSUME CoreAssumption ==
  /\ MAX_CONNECTIONS \in Nat /\ MAX_FILES \in Nat /\ MAX_EVENTS \in Nat
  /\ NULL \notin Pcbs
  /\ NULL \notin Nat

VARIABLES
  pcb,     \* of each pcb: "free", "open", or "closing" after a failed altcp_close
  arg,     \* altcp_arg of each pcb
  ctxPcb,  \* _pcb of each context
  req,     \* the rest of each context
  files,   \* g_FileOpened, and which requests closed a handle again
  upload,  \* history: what became of the last upload of each context
  stored,  \* history: some upload was stored
  events   \* what the peers did so far

binding == <<pcb, arg, ctxPcb>>
vars == <<binding, req, files, upload, stored, events>>

Contexts == 1..MAX_CONNECTIONS
Slots == 1..MAX_FILES

(***************************************************************************)
(* What is requested, as far as the control flow tells requests apart:     *)
(*  page      a file read by WEB_ReadContent;                              *)
(*  cached    a page that was not modified, answered with 304;             *)
(*  missing   answered with 404;                                           *)
(*  redirect  answered with 307, at once;                                  *)
(*  list      the list of a folder, files.cgi: a search is read;           *)
(*  upload    a POST to upload.cgi;                                        *)
(*  refused   a POST that nobody takes, or no method: result -500.          *)
(***************************************************************************)
Kinds == {"page", "cached", "missing", "redirect", "list", "upload", "refused"}

ASSUME RequestsAssumption == Requests \subseteq Kinds \X BOOLEAN

Part == [type |-> "part", kind |-> "none", keep |-> FALSE]
Header(k, keep) == [type |-> "head", kind |-> k, keep |-> keep]
Body == [type |-> "body", kind |-> "none", keep |-> FALSE]
Last == [type |-> "last", kind |-> "none", keep |-> FALSE]

HeaderUnits == {Part} \cup {Header(q[1], q[2]) : q \in Requests}
BodyUnits == {Body, Last}

(* A slot of g_FileOpened that is taken: by which context, for what. *)
Holders == [by : Contexts, kind : Kinds]

ASSUME NullAssumption == NULL \notin HeaderUnits \cup BodyUnits \cup Holders

(* A context between two requests. *)
Idle(fin, inbox) ==
  [state |-> "IDLE", kind |-> "none",
   keep |-> FALSE,    \* _keepalive
   fin |-> fin,       \* _peer_closing
   fp |-> NULL,       \* ctxSSI->_fp
   file |-> NULL,     \* _fileHandle
   inbox |-> inbox,   \* the unit in the receive buffers, or NULL
   stale |-> FALSE,   \* IsContextTimeout
   room |-> FALSE]    \* TCP takes more before the next acknowledgement

Receiving(r) == r.state \in {"IDLE", "HEADER_RECEIVING", "BODY_RECEIVING"}

Bound(c) == ctxPcb[c] # NULL

-----------------------------------------------------------------------------

(* SetupHttpContext and WEB_fs_init. *)
Init ==
  /\ pcb = [p \in Pcbs |-> "free"]
  /\ arg = [p \in Pcbs |-> NULL]
  /\ ctxPcb = [c \in Contexts |-> NULL]
  /\ req = [c \in Contexts |-> Idle(FALSE, NULL)]
  /\ files = [slot |-> [s \in Slots |-> NULL], again |-> {}]
  /\ upload = [c \in Contexts |-> "none"]
  /\ stored = FALSE
  /\ events = 0

PeerActs == events < MAX_EVENTS /\ events' = events + 1

(* Mutant: whether the slot is free is not tested. *)
Opens_Any(f, s) == s = 1

(* WEB_fopen and WEB_firstdir take the first free slot of table f. *)
Opens(f, s) == f.slot[s] = NULL /\ \A t \in Slots : t < s => f.slot[t] # NULL

Full(f) == \A s \in Slots : f.slot[s] # NULL

(* Slot s is context c's, for a request of kind k. *)
Taken(f, s, c, k) == [f EXCEPT !.slot[s] = [by |-> c, kind |-> k]]

(***************************************************************************)
(* WEB_fclose and WEB_closedir free a slot, whoever uses it.  A context c  *)
(* that closes a handle which is closed, or another's by now, is recorded  *)
(* with the kind k of its request.                                         *)
(***************************************************************************)
Close(f, h, c, k) ==
  IF h = NULL THEN f
  ELSE [slot |-> [f.slot EXCEPT ![h] = NULL],
        again |-> IF f.slot[h] # NULL /\ f.slot[h].by = c THEN f.again ELSE f.again \cup {k}]

-----------------------------------------------------------------------------
(***************************************************************************)
(* How a callback ends.  r is the context at that point, f the file table. *)
(***************************************************************************)

(* The callback returns, and the context goes on. *)
GoOn(c, r, f) ==
  /\ req' = [req EXCEPT ![c] = r]
  /\ files' = f
  /\ UNCHANGED binding

(* Mutant: the file is forgotten, not closed, between two requests. *)
ResetHttpContext_Leaks(c, r, f) ==
  /\ req' = [req EXCEPT ![c] = Idle(r.fin, r.inbox)]
  /\ files' = f
  /\ UNCHANGED binding

(* Closes _fileHandle; _fp goes with the memset of ctxResponse. *)
ResetHttpContext(c, r, f) ==
  /\ req' = [req EXCEPT ![c] = Idle(r.fin, r.inbox)]
  /\ files' = Close(f, r.file, c, r.kind)
  /\ UNCHANGED binding

(* CGI_Finish: WEB_Finished closes _fp; the list of a folder has no OnFinished. *)
CGI_Finish(c, r, f) == IF r.kind = "list" THEN f ELSE Close(f, r.fp, c, r.kind)

(* CGI_Finish, then _fileHandle is closed; _peer_closing stays. *)
FreeHttpContext(c, r, f) ==
  /\ req' = [req EXCEPT ![c] = Idle(r.fin, NULL)]
  /\ files' = Close(CGI_Finish(c, r, f), r.file, c, r.kind)
  /\ ctxPcb' = [ctxPcb EXCEPT ![c] = NULL]

(* Mutant: a pcb that could not be closed goes on calling the context. *)
CloseHttpContext_KeepsArg(c, r, f) ==
  \/ /\ arg' = [arg EXCEPT ![ctxPcb[c]] = NULL]
     /\ pcb' = [pcb EXCEPT ![ctxPcb[c]] = "free"]
     /\ FreeHttpContext(c, [r EXCEPT !.fin = FALSE], f)
  \/ /\ arg' = arg
     /\ pcb' = [pcb EXCEPT ![ctxPcb[c]] = "closing"]
     /\ FreeHttpContext(c, r, f)

(* The pcb loses its context even if altcp_close() fails. *)
CloseHttpContext(c, r, f) ==
  /\ arg' = [arg EXCEPT ![ctxPcb[c]] = NULL]
  /\ \/ /\ pcb' = [pcb EXCEPT ![ctxPcb[c]] = "free"]
        /\ FreeHttpContext(c, [r EXCEPT !.fin = FALSE], f)
     \/ /\ pcb' = [pcb EXCEPT ![ctxPcb[c]] = "closing"]
        /\ FreeHttpContext(c, r, f)

(* HTTP_STATE_REQUEST_END, at the end of HttpRequestProc. *)
RequestEnd(c, r, f) ==
  IF r.keep /\ ~r.fin THEN ResetHttpContext(c, r, f) ELSE CloseHttpContext(c, r, f)

(* Mutant: the handler is not told. *)
CGI_Cancel_Silent(c) == UNCHANGED upload

(* OnCancel of the handler. *)
CGI_Cancel(c) ==
  upload' = [upload EXCEPT ![c] = IF @ = "receiving" THEN "cancelled" ELSE @]

(* Mutant: OnCancel closes the file of the upload that it gives up. *)
Abort_Closes(c, r, f) ==
  /\ CGI_Cancel(c)
  /\ CloseHttpContext(c, r, Close(f, r.file, c, r.kind))
  /\ UNCHANGED stored

(* _result <= -500 in a callback. *)
Abort(c, r, f) ==
  /\ CGI_Cancel(c)
  /\ CloseHttpContext(c, r, f)
  /\ UNCHANGED stored

-----------------------------------------------------------------------------
(***************************************************************************)
(* Receiving a request.                                                    *)
(***************************************************************************)

(* The request is incomplete: fatal if the peer closed its side. *)
Waits(c, r, f) ==
  IF r.fin THEN Abort(c, r, f)
  ELSE GoOn(c, r, f) /\ UNCHANGED <<upload, stored>>

(* HttpResponseProc builds and writes the header, or altcp_write fails. *)
Respond(c, r, f) ==
  \/ \E room \in BOOLEAN :
       GoOn(c, [r EXCEPT !.state = "SENDING_HEADER", !.stale = FALSE, !.room = room], f)
  \/ RequestEnd(c, r, f)

(* WEB_RequestReceived; _fileHandle is not set when 304 is returned. *)
OpenPage(c, r) ==
  \/ \E s \in Slots :
       /\ Opens(files, s)
       /\ Respond(c, [r EXCEPT !.fp = s, !.file = IF r.kind = "page" THEN s ELSE NULL],
                  Taken(files, s, c, r.kind))
  \/ Full(files) /\ Respond(c, [r EXCEPT !.kind = "missing"], files)

(* Upload_OnHeadersReceived: Upload_Start opens the file or refuses. *)
StartUpload(c, r) ==
  \/ \E s \in Slots :
       /\ Opens(files, s)
       /\ GoOn(c, [r EXCEPT !.state = "BODY_RECEIVING", !.file = s],
               Taken(files, s, c, r.kind))
       /\ upload' = [upload EXCEPT ![c] = "receiving"]
       /\ UNCHANGED stored
  \/ Full(files) /\ Abort(c, r, files)

(* The header is complete: r knows its kind.  Files_OnRequestReceived       *)
(* opens a search, if there is a slot, and closes it at once.              *)
HeadersReceived(c, r) ==
  \/ /\ \/ r.kind \in {"page", "cached"} /\ OpenPage(c, r)
        \/ r.kind \in {"missing", "list"} /\ Respond(c, r, files)
        \/ r.kind = "redirect" /\ RequestEnd(c, r, files)
     /\ UNCHANGED <<upload, stored>>
  \/ r.kind = "upload" /\ StartUpload(c, r)
  \/ r.kind = "refused" /\ Abort(c, r, files)

(* Upload_AllReceived closes the file; _fileHandle keeps its value. *)
AllReceived(c, r) ==
  /\ Respond(c, r, Close(files, r.file, c, r.kind))
  /\ upload' = [upload EXCEPT ![c] = "stored"]
  /\ stored' = TRUE

(* The parsing loop of HttpRequestProc, on the unit in the buffers of r. *)
Parse(c, r) ==
  LET u == r.inbox
      taken == [r EXCEPT !.inbox = NULL, !.stale = FALSE]
  IN
  \/ u = NULL /\ Waits(c, r, files)
  \/ u = Part /\ Waits(c, [taken EXCEPT !.state = "HEADER_RECEIVING"], files)
  \/ /\ u \in HeaderUnits \ {Part}
     /\ HeadersReceived(c, [taken EXCEPT !.kind = u.kind, !.keep = u.keep])
  \/ u = Body /\ Waits(c, taken, files)
  \/ u = Last /\ AllReceived(c, taken)
  \/ u \in BodyUnits /\ Waits(c, r, files)          \* WEB_fwrite failed

-----------------------------------------------------------------------------
(***************************************************************************)
(* Sending the response.                                                   *)
(***************************************************************************)

(* Nothing can be written now. *)
Pauses(c, r) == GoOn(c, r, files)

(***************************************************************************)
(* Files_ReadOneFileInfo at stage 0, in a pair of context and table: the   *)
(* search begins, or else the whole list was read, or no slot was free.    *)
(***************************************************************************)
FirstRead(c, r, f) ==
  {<<r, f>>} \cup {<<[r EXCEPT !.fp = s], Taken(f, s, c, r.kind)>> : s \in {t \in Slots : Opens(f, t)}}

(***************************************************************************)
(* What a callback in the middle of a body does to the files before it     *)
(* writes.  A page is only read.  A search goes on, and WEB_readdir marks  *)
(* its slot as taken, whoever has it; or it ends and is closed.            *)
(***************************************************************************)
NextRead(c, r, f) ==
  {<<r, f>>} \cup
    IF r.kind # "list" \/ r.fp = NULL THEN {}
    ELSE LET g == Taken(f, r.fp, c, r.kind)
         IN  {<<r, g>>, <<[r EXCEPT !.fp = NULL], Close(g, r.fp, c, r.kind)>>}

(* More is written, if TCP has room; only an acknowledgement makes room. *)
Writes(c, r, caller) ==
  \E x \in NextRead(c, r, files) :
    \/ /\ caller = "SENT"
       /\ \E room \in BOOLEAN : GoOn(c, [x[1] EXCEPT !.stale = FALSE, !.room = room], x[2])
    \/ /\ caller # "SENT" /\ r.room
       /\ GoOn(c, [x[1] EXCEPT !.stale = FALSE, !.room = FALSE], x[2])

(* altcp_write() failed, or no entry of a list fits into the buffer. *)
WriteFails(c, r, caller) ==
  /\ caller = "SENT" \/ r.room
  /\ \E x \in NextRead(c, r, files) : RequestEnd(c, x[1], x[2])

(* The header was acknowledged: the body follows, if there is one. *)
AfterHeader(c, r) ==
  \/ /\ r.kind \in {"page", "list"}
     /\ \E x \in IF r.kind = "list" THEN FirstRead(c, r, files) ELSE {<<r, files>>} :
          \/ \E room \in BOOLEAN :
               GoOn(c, [x[1] EXCEPT !.state = "SENDING_BODY", !.stale = FALSE, !.room = room], x[2])
          \/ RequestEnd(c, x[1], x[2])
  \/ r.kind # "list" /\ RequestEnd(c, r, files)   \* 304, 404, an upload, or an empty file

(***************************************************************************)
(* The body was acknowledged: WEB_AllSent closes the file first.  A list   *)
(* has no OnAllSent; its search was closed when it ended.                  *)
(***************************************************************************)
AllSent(c, r) ==
  /\ r.kind = "list" => r.fp = NULL
  /\ RequestEnd(c, [r EXCEPT !.fp = NULL], Close(files, r.fp, c, r.kind))

(* HttpResponseProc, once the header was built. *)
HttpResponseProc(c, r, caller) ==
  \/ /\ \/ Pauses(c, r)
        \/ Writes(c, r, caller)
        \/ r.state = "SENDING_HEADER" /\ caller = "SENT" /\ AfterHeader(c, r)
        \/ r.state = "SENDING_BODY" /\ caller = "SENT" /\ AllSent(c, r)
        \/ WriteFails(c, r, caller)
     /\ UNCHANGED <<upload, stored>>
  \/ /\ r.kind = "page" /\ files.slot[r.fp] = NULL   \* WEB_fread() failed
     /\ r.state = "SENDING_BODY" \/ caller = "SENT"
     /\ Abort(c, r, files)

HttpRequestProc(c, r, caller) ==
  IF Receiving(r) THEN Parse(c, r) ELSE HttpResponseProc(c, r, caller)

-----------------------------------------------------------------------------

(* OnHttpAccept with GetHttpContext: the first context without a pcb. *)
OnHttpAccept(p) ==
  /\ PeerActs
  /\ pcb[p] = "free"
  /\ \E c \in Contexts :
       /\ ~Bound(c) /\ \A d \in Contexts : d < c => Bound(d)
       /\ pcb' = [pcb EXCEPT ![p] = "open"]
       /\ arg' = [arg EXCEPT ![p] = c]
       /\ ctxPcb' = [ctxPcb EXCEPT ![c] = p]
       /\ req' = [req EXCEPT ![c] = Idle(FALSE, NULL)]
       /\ upload' = [upload EXCEPT ![c] = "none"]
       /\ UNCHANGED <<files, stored>>

(* A received segment refreshes the receive timeout, not the send timeout. *)
Heard(r) == [r EXCEPT !.stale = @ /\ ~Receiving(r)]

(* OnHttpReceive with data. *)
OnHttpReceive(p) ==
  LET c == arg[p]
      r == req[c]
  IN
  /\ PeerActs
  /\ c # NULL
  /\ r.inbox = NULL /\ ~r.fin
  /\ \E u \in IF r.state = "BODY_RECEIVING" THEN BodyUnits ELSE HeaderUnits :
       HttpRequestProc(c, Heard([r EXCEPT !.inbox = u]), "RECV")

(* OnHttpReceive without data: the peer closed its side. *)
OnHttpReceiveFin(p) ==
  LET c == arg[p]
      r == req[c]
  IN
  /\ PeerActs
  /\ c # NULL
  /\ ~r.fin
  /\ \/ /\ r.state = "IDLE"
        /\ CloseHttpContext(c, r, files)
        /\ UNCHANGED <<upload, stored>>
     \/ /\ r.state # "IDLE"
        /\ HttpRequestProc(c, Heard([r EXCEPT !.fin = TRUE]), "RECV")

(* OnHttpSent: a late acknowledgement may meet the next request. *)
OnHttpSent(p) ==
  /\ PeerActs
  /\ arg[p] # NULL
  /\ HttpRequestProc(arg[p], req[arg[p]], "SENT")

(* Mutant: only the receive timeout is looked at. *)
IsContextTimeout_NoSend(r) == r.stale /\ Receiving(r)

IsContextTimeout(r) == r.stale

(* OnHttpPoll.  A pcb without a context is closed, or else aborted. *)
OnHttpPoll(p) ==
  /\ \/ /\ arg[p] # NULL /\ IsContextTimeout(req[arg[p]])
        /\ Abort(arg[p], req[arg[p]], files)
     \/ /\ arg[p] # NULL /\ ~IsContextTimeout(req[arg[p]])
        /\ HttpRequestProc(arg[p], req[arg[p]], "POLL")
     \/ /\ arg[p] = NULL /\ pcb[p] = "closing"
        /\ pcb' = [pcb EXCEPT ![p] = "free"]
        /\ UNCHANGED <<arg, ctxPcb, req, files, upload, stored>>
  /\ UNCHANGED events

(* OnHttpError: lwIP already freed the pcb. *)
OnHttpError(p) ==
  /\ PeerActs
  /\ pcb[p] # "free"
  /\ pcb' = [pcb EXCEPT ![p] = "free"]
  /\ arg' = [arg EXCEPT ![p] = NULL]
  /\ \/ /\ arg[p] # NULL
        /\ CGI_Cancel(arg[p])
        /\ FreeHttpContext(arg[p], req[arg[p]], files)
     \/ /\ arg[p] = NULL
        /\ UNCHANGED <<ctxPcb, req, files, upload>>
  /\ UNCHANGED stored

(* TO_RECV or TO_SENT passed since the last stamp. *)
TimePasses(c) ==
  /\ Bound(c) /\ ~req[c].stale
  /\ req' = [req EXCEPT ![c].stale = TRUE]
  /\ UNCHANGED <<binding, files, upload, stored, events>>

Next ==
  \/ \E p \in Pcbs : OnHttpAccept(p)
  \/ \E p \in Pcbs : OnHttpReceive(p)
  \/ \E p \in Pcbs : OnHttpReceiveFin(p)
  \/ \E p \in Pcbs : OnHttpSent(p)
  \/ \E p \in Pcbs : OnHttpPoll(p)
  \/ \E p \in Pcbs : OnHttpError(p)
  \/ \E c \in Contexts : TimePasses(c)

(* TCP's slow timer polls every pcb, and time passes. *)
Fairness ==
  /\ \A p \in Pcbs : WF_vars(OnHttpPoll(p))
  /\ \A c \in Contexts : WF_vars(TimePasses(c))

Spec == Init /\ [][Next]_vars
FairSpec == Spec /\ Fairness

-----------------------------------------------------------------------------

States == {"IDLE", "HEADER_RECEIVING", "BODY_RECEIVING", "SENDING_HEADER", "SENDING_BODY"}

Context ==
  [state : States, kind : Kinds \cup {"none"}, keep : BOOLEAN, fin : BOOLEAN,
   fp : Slots \cup {NULL}, file : Slots \cup {NULL},
   inbox : HeaderUnits \cup BodyUnits \cup {NULL}, stale : BOOLEAN, room : BOOLEAN]

(* The variables keep their types; a free context holds nothing. *)
TypeOK ==
  /\ pcb \in [Pcbs -> {"free", "open", "closing"}]
  /\ arg \in [Pcbs -> Contexts \cup {NULL}]
  /\ ctxPcb \in [Contexts -> Pcbs \cup {NULL}]
  /\ req \in [Contexts -> Context]
  /\ \A c \in Contexts : ~Bound(c) => req[c] = Idle(req[c].fin, NULL)
  /\ files \in [slot : [Slots -> Holders \cup {NULL}], again : SUBSET Kinds]
  /\ upload \in [Contexts -> {"none", "receiving", "stored", "cancelled"}]
  /\ stored \in BOOLEAN
  /\ events \in 0..MAX_EVENTS

(* The connection table that HttpCore implements. *)
Table == INSTANCE HttpContexts

(***************************************************************************)
(* Accepting, closing (also when altcp_close fails), errors and retries of *)
(* all connections together implement the connection table of              *)
(* HttpContexts: no callback ever works on another connection's context.   *)
(***************************************************************************)
TableImplemented == Table!Spec

(***************************************************************************)
(* A callback of a pcb finds the context that owns the pcb, and a context  *)
(* never writes to or closes a pcb that lwIP freed or that was given away, *)
(* however closes, failed closes, errors and new connections alternate.    *)
(***************************************************************************)
BindingsAgree == Table!BindingsAgree

(* The handles that a context works with: all, but that of a stored upload. *)
UsedHandles(r) ==
  IF r.kind = "upload" /\ ~Receiving(r) THEN {} ELSE {r.fp, r.file} \ {NULL}

(***************************************************************************)
(* "All files could be downloaded" and uploaded: while a context reads or  *)
(* writes a file or reads a folder, its handle stays open and the slot its *)
(* own, whatever the other connections do.                                 *)
(***************************************************************************)
FilesStayOpen ==
  \A c \in Contexts : \A h \in UsedHandles(req[c]) :
    files.slot[h] = [by |-> c, kind |-> req[c].kind]

(***************************************************************************)
(* Only the end of an upload can break FilesStayOpen.  Pages are closed    *)
(* twice as well, by WEB_AllSent or WEB_Finished and again with            *)
(* _fileHandle, but no other callback comes between the two closes: until  *)
(* the first upload is stored nobody loses a file, also not to uploads     *)
(* that are under way, aborted or refused.                                 *)
(***************************************************************************)
OnlyUploadsLoseFiles == ~stored => FilesStayOpen

(***************************************************************************)
(* Until an upload is stored, only pages close a handle that is no longer  *)
(* theirs (their own, in the callback that closed it first).  Answers of   *)
(* 304, lists and uploads that are refused, cancelled or cut off close     *)
(* what they opened at most once.                                          *)
(***************************************************************************)
OnlyPagesCloseTwice == ~stored => files.again \subseteq {"page"}

(* The context that opened slot s no longer knows it: it stays open for ever. *)
Leaked(s) ==
  LET o == files.slot[s]
  IN  o # NULL /\ s \notin {req[o.by].fp, req[o.by].file}

(***************************************************************************)
(* "===> close file": a slot that nobody will close was opened for an      *)
(* answer of 304 or for the list of a folder.  Pages and uploads close     *)
(* what they opened, however the request ends (success, timeout, error,    *)
(* FIN, RST, refusal) and whatever the other connections close.            *)
(***************************************************************************)
OnlyListsAnd304Leak ==
  \A s \in Slots : Leaked(s) => files.slot[s].kind \in {"cached", "list"}

(***************************************************************************)
(* An upload that was begun is stored or cancelled: however the connection *)
(* ends, OnCancel is called before the context is used again.              *)
(***************************************************************************)
UploadsAreSettled ==
  \A c \in Contexts : upload[c] = "receiving" <=> req[c].state = "BODY_RECEIVING"

(***************************************************************************)
(* The peers do only so much and then fall silent: in the end every        *)
(* context and every pcb is free, also those whose first close failed.     *)
(***************************************************************************)
SilentPeersAreDropped == <>[](\A p \in Pcbs : pcb[p] = "free")

=============================================================================
