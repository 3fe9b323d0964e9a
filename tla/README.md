# A TLA+ model of straight-httpd

straight-httpd is a web server for small devices: lwIP and Mbed TLS below, an
HTTP/1.1 server with sessions, uploads, downloads and server side includes
above, and a Windows simulator in place of the network card.  This directory
holds TLA+ modules of the server's own code, the TLC configurations that check
them on small instances, and TLAPS proofs of what holds for all sizes.
`PROJECT.json` lists components, runs, mutants, the source lines behind every
definition, findings, hazards and theorems.

Paths are relative to the repository: `httpd/` is
`src/straight-httpd/straight-httpd/httpd/`, `port/` is `src/lwip-port/win32/`.

## 1. Inventory

Two threads run.  The *main thread* captures frames and queues them.
*AppThread* does everything else: lwIP's timers and input, and from there all
callbacks of the web server.  A callback of the server runs to completion, so
it is one atomic action; what is concurrent is the order of callbacks of
several connections, the peers' behaviour, and the two threads around the
frame queue.

| Component | State | Operations | Hard behaviour |
|---|---|---|---|
| Frame queue and mailbox (`straight-httpd.c`, `port/lwip_api.c`, `port/arch/sys_arch.c`, `port/netif/ethernetif.c`) | list `g_dmaQueue`, ring `q_mem` with `head`, `tail` and semaphore, two locks | `DMA_push`, `NotifyFromEthISR`, `sys_mbox_new/trypost/fetch`, `ethernetif_input`, `tcpip_inpkt` | two threads, two locks, lost notifications, start-up |
| Connections and requests (`httpd/http_core.c`) | `g_httpContext[]`: pcb, state, receive buffers, response, file | `OnHttpAccept/Receive/Sent/Poll/Error`, reset, close | order of callbacks, FIN, RST, timeouts, failing close, reuse |
| Response pump (`http_core.c`, `http_cgi.c`, `http_web.c`) | `_sendBuffer`, `_bytesLeft`, `_total2Send`, `_totalSent`, `_dwOperIndex`, `_dwOperStage` | `HttpResponseProc`, `sendBuffered`, `CGI_LoadContentToSend`, `WEB_ReadContent` | partial writes and acknowledgements, lost wake-ups, write failures |
| Sessions (`httpd/http_session.c`) | `g_httpSessions[]`, `_session` of every context | create, kill, find, stamp, sweep | stale pointers, 32-bit and 64-bit ticks |
| Open files (`httpd/http_fs.c`, `http_web.c`) | `g_FileOpened[]` | open, read, close | handles shared by request, response and upload |
| Upload (`cgi/cgi_upload.c`) | `_fileHandle` | start, body, end, cancel | ends of all kinds, in the middle of a body |
| Receive buffers (`httpd/http_core.c`) | `http_request_buffer`, pbuf chain, `_bufOffset`, TCP's window | enqueue, load, parse, shift, `altcp_recved` | arbitrary cuts, pipelining, a full window, long lines, chunked requests |
| Posted forms (`http_web.c`, `utils.c`) | `_sendBuffer` as a receive buffer, `_bytesLeft` | append, `ExtractFormData`, `URLDecode` | fields across segments, old bytes behind new ones |
| SSI pages (`http_web.c`, `cgi/cgi_ssi.c`, `http_cgi.c`) | `_cache`, `_ssiState`, `_tagName`, `_dwOperStage` | fill, scan, replace, frame a chunk | marks across reads, reads that give nothing, hardly any space |
| File list (`cgi/cgi_files.c`) | search `_fp`, `_dwOperStage`, `_dwTotal` | first, next, end | a search that spans many callbacks, an early end |
| AppThread (`straight-httpd.c`, `port/lwip_api.c`) | `g_ipIsReady`, listeners | `tcpip_inloop`, sweep, start, stop | restart, starvation by traffic |
| Settings (`port/arch/port_device.c`, `cgi/cgi_form.c`) | `g_WorkConfig`, `g_TempConfig` | load, set, apply, lease | one edit buffer for all connections |
| SSDP (`ssdp/ssdp.c`) | one timer | advertise, answer | the timer is re-armed through the mailbox |
| Login (`cgi/cgi_auth.c`) | the session of the context | login, logout | a body taken without regard to its length |
| CGI dispatch (`httpd/http_cgi.c`) | handler list, `_options` | set handler, authorise, redirect | refused requests with a body |
| Ranges, default page, SSDP description, NetBIOS, utilities | none | text | |
| lwIP, Mbed TLS, pcap | vendored | | environment of the models |

Correctness, in one line each: frames are delivered in order and none is
forgotten; a callback only touches the connection it was called for; a
response arrives whole and is driven on until it ends; a session lives exactly
as long as it is used; files are closed once, by their owner; every connection
of a silent peer is freed; an upload is stored or cancelled; received bytes
reach their request once and in order, and the window lacks exactly the bytes
that wait; a form sets what it posted; a page arrives with its tags replaced,
a list with all its entries; settings change as one form says; the services
run, sweep sessions and advertise for ever.

## 2. Modules

| Module | Models | Used by |
|---|---|---|
| `HttpSession` | session table and session pointers | `MCHttpSession`, `HttpSessionProofs` |
| `HttpSend` | one connection's responses, with sizes | `MCHttpSend`, `HttpSendProofs` |
| `HttpContexts` | abstract: how pcbs and contexts are bound | refined by `HttpCore` |
| `HttpCore` | several connections: contexts, requests, files, uploads | `MCHttpCore`, `HttpCoreProofs` |
| `FlowControl` | abstract: what a receiver promises to a TCP sender | refined by `HttpRecv` |
| `HttpRecv` | one connection's received bytes, from segment to request | `MCHttpRecv`, `HttpRecvProofs` |
| `FormData` | the parser of posted forms, on the memory it works in | `MCFormData`, `FormDataProofs` |
| `ChunkedPage` | pages with tags, and their chunks | `MCChunkedPage`, `ChunkedPageProofs` |
| `FileList` | the list of a folder, and its chunks in two buffers | `MCFileList`, `FileListProofs` |
| `AppThread` | the loops of AppThread and the settings | `MCAppThread`, `FormDataProofs` |
| `NicQueue` | main thread and AppThread around frame list and mailbox | `MCNicQueue`, `NicQueueProofs`, `SsdpTimer` |
| `SsdpTimer` | the timer of the advertisements, composed with `NicQueue` | `MCSsdpTimer`, `NicQueueProofs` |

**HttpSession.**  `sessions` is `g_httpSessions`; a slot is free when its token
is empty.  `held` is `_session` of each context, which nothing clears when a
session dies.  One action per function of `http_session.c`, plus
`HeadersReceived` (the lookup by cookie in `http_core.c`).  `tick` is the
64-bit tick; stamps are taken modulo `TICK_MODULUS` (2^32 in the code).
`heard`, `acked` and `checkedAt` are history variables with the true times.

**HttpSend.**  The variables are the fields of `RESPONSE_CONTEXT` that govern
sending, TCP's buffer (`unacked`), and history (`outcome`, `cancelled`).  The
actions are the callbacks; each passes a record that says which callback it
is, how much was acknowledged, whether the peer closed its side and whether
`altcp_write` would fail.  Sizes are in units of a few bytes; `SND_BUF` is what
`altcp_sndbuf` returns with nothing in flight, `SEND_BUF_SIZE` the size of
`_sendBuffer`, `RESERVE` the two bytes that are never filled.  An `error`,
`redirect` or `notModified` response carries its body, if any, in the header.

**HttpCore.**  `pcb`, `arg` and `ctxPcb` are lwIP's pcbs, their `altcp_arg` and
`_pcb` of each context; `req` holds the rest of a context.  A request arrives
in units (part of a header, header, part of a body, last part); at most one
unit waits in the receive buffers.  How much a callback sends is chosen freely
(`HttpSend` has the numbers).  `files.slot` is `g_FileOpened`, the table of open
files and searches of `http_fs.c`; an entry names the context that took it and
the kind of its request, which the code does not know.  `files.again` records
the kinds of requests that closed a handle which was closed before, or another's
by then.  A page is closed twice as a rule: by `WEB_AllSent` or `WEB_Finished`
through `_fp`, and by `ResetHttpContext` or `FreeHttpContext` through
`_fileHandle`, in one callback.  A stored upload is closed at the end of its body
and again when its context is reset, callbacks later.  The list of a folder takes
a slot too, over many callbacks, and gives it back only when it comes to its end.
The table is that of the build without `LOCAL_FILE_SYSTEM`.  In the build with
it, the slots are streams and search handles of the system, and `MAX_FILES` is
their limit.  C leaves undefined what `fclose()` of a closed stream does; what
the model takes for it, that the stream is found free or is closed under whoever
got it next, is what a table of reusable streams does.  A read of a slot
that was closed fails, and the response is aborted (`HttpResponseProc`).
The pages of the form handler, which has no `OnFinished`, are closed once when
the connection breaks; they are counted as pages.
A connection beyond `MAX_CONNECTIONS` is closed by `OnHttpAccept` itself and
leaves no trace.  A pcb whose close failed has no callbacks but the poll; lwIP
may free it without telling (`OnHttpError` with no context).

**HttpRecv.**  A byte is its position in the stream of the client; what is at a
position is a token (a word of a header line, CR, LF, a byte of a body), so
that header lines have lengths and can be cut anywhere.  `buf` is
`http_request_buffer`, `chain` the bytes of `_reqBufList`, `cuts` the ends of
its pbufs, `off` is `_bufOffset`.  The loop of `HttpRequestProc` is cut into
steps by `pc`, as it parses in several passes; no callback interrupts it.  The
length of a chunk is sent as hexadecimal text and read by `atol()` (`Atol`).  Of
the header lines `Content-Length`, `Connection` and `Transfer-Encoding` are told
apart.  The handler of a request decides how much of an offered body it takes
(`Takes`).  `request_length < 0`, which a chunked request can reach, is the
state `"undefined"`.  Two details are left to `HttpSend` and `HttpCore`:
sending, and what OnCancel does.

**FormData.**  A byte of `_sendBuffer` is the position in the body it came
from, so that stale bytes can be told from new ones; `strstr()` and `strlen()`
run to the next NUL as in C, and `URLDecode` leaves behind what the code leaves
behind.  `memcpy()` of overlapping bytes (`http_web.c:108`) is taken for
`memmove()`, as in the C library used.  An escaped ampersand that stays in the buffer can end a
later field and make `_bytesLeft` negative (`"undefined"`).  `+` is an ordinary
character, as `URLDecode` leaves it alone.  `IsKilling` is false: the function
that would set `_killing` is commented out.

**ChunkedPage.**  The marks `<!--#` and `-->` are shortened to two characters.
How much space a call finds is chosen from `Rooms`, none included, since a part
of an earlier chunk may still wait in the buffer (`FileList` has the numbers).
A name that runs past `_tagName`, whose size nothing tests, ends the model in
`"undefined"`.  A read gives what it is asked for, here and in `HttpSend`:
`LWIP_fread` compares an unsigned size with 0 and so never reports an error, and
a file that `fopen_s` has opened for reading cannot be opened for writing.

**FileList.**  Sizes in units, as in `HttpSend`; the text is a sequence of
tokens.  `Lost` stands for a failing write, a timeout and a reset: all of them
reach `CGI_Cancel` or `CGI_Finish`, for which this handler has no function.

**AppThread.**  `at` follows `tcpip_inloop`; handlers run in `"timers"` and
`"message"`.  `temp` and `work` are `g_TempConfig` and `g_WorkConfig`, with
three fields: DHCP, an address, and another setting.  `posted` and `disturbed`
record, for each connection, what its form set and which fields others have
touched in the shared edit buffer since.

**NicQueue.**  Locks are taken explicitly where another lock is waited for
inside them; a body that holds its lock alone is one step.  `phase` follows
`sys_mbox_new`, which AppThread executes while the main thread may already run.
A failed allocation drops the frame, before (nothing happens) or after the
queue (`tcpip_inpkt`).

**SsdpTimer** extends `NicQueue` with the one timer that uses the mailbox:
`tcpip_timeout` posts a message with `sys_mbox_post`, which does not test for a
full ring, and AppThread, which posted it, has to fetch it.  The message is
allocated from the heap (`MEMP_MEM_MALLOC`), which may fail.

## 3. Runs

| Run | Instance | Shows |
|---|---|---|
| `session` | 2 slots, 2 contexts, timeout 1, 5 ticks | freed slots stay zero under late callbacks; stamps are true; a sweep frees the idle sessions and no others |
| `send` | TCP buffer 4, response buffer 5, files of 0, 3 and 10 units, 3 responses, failing writes | buffers hold, nothing is lost, responses end whole, are always driven and complete |
| `send_stall` | equal buffers | **violation**: a download stops for good between a full `_sendBuffer` and an empty TCP buffer |
| `core` | 2 contexts, 2 pcbs, 2 file slots, pages, 304, lists, uploads, redirects, refusals, 6 events by the peers | the binding refines the table; a file is lost only to a stored upload, handles are closed again only by pages until then, leaks come only from 304 and lists; uploads are settled; silent peers are dropped |
| `recv` | buffer 4, window 8, segments of up to 4, 15 streams | bytes stay in order, the window is whole and reopens, flow control is implemented, bodies reach their requests, only chunked requests overdraw the buffer |
| `form` | buffer 12 with 2 reserved, 119 forms | fields reach their setters in order, exactly except for the two known tails, and forms that fit complete |
| `page` | cache and name 6, space 0, 3 or 5, 621 pages | tags are replaced except in the last cache, chunks are framed, bodies end except for an empty last read, a value without space and a name without end |
| `files` | both buffers 9, all folders of up to 6 entries | a completed list is whole; a search stays open exactly when a list broke off |
| `app` | 2 connections with different forms, 2 addresses, 2 values, 1 message | forms are isolated except for named disturbances; a change ends the service; sweeps go on when traffic stops |
| `nic` | ring of 3, list of 3, 7 frames | semaphore and ring agree, no frame is forgotten unless its notification was lost, order is kept, the backlog and a full mailbox drain |
| `nic_startup` | posts during `sys_mbox_new` | **violation**: the mailbox is empty and full at once, for ever |
| `ssdp` | ring of 3, 4 frames | there is one timer or one request for it; advertisements go on unless a post met a full ring or had no memory |

Several properties name the exact exceptions to a promise of the
documentation: `SweepTakesIdle` (sessions never answered), `NeverExpiresEarly`
(no wrap of the tick), `OnlyUploadsLoseFiles`, `OnlyPagesCloseTwice`,
`OnlyListsAnd304Leak`, `OnlyChunksOverdraw`, `FieldsAreExact`, `PageIsSubstituted`, `ChunksAreFramed`,
`SearchesAreClosed`, `AdvertisingGoesOn`.  The property holds, so there is no
other exception within the bounds, and the exception is a finding of
`PROJECT.json`.  `ChangeEndsService` states what the code does against what it
says: `port_device.c:281-282` announces that the stack will restart, but the
loop ends for good.

**Bounds.**  They are named in the modules (`MAX_TICK`, `MAX_RESPONSES`,
`MAX_EVENTS`, `MAX_PACKETS`, `Requests`).  Two contexts and two slots are the
least with which one connection can disturb another; three responses allow an
acknowledgement of the first to arrive in the third; the file of 10 units
needs several fills of both buffers; six events of the peers are two accepts and four segments,
enough for an upload to end beside a download or a list; seven frames overflow both
queues.  In `recv` no request fits into the buffer, a segment can hold the end
of one request and the start of the next, and a full chain closes the window;
the streams cover each kind of request, each kind of body (chunks whose length
`atol()` reads rightly, as 0 and as too small among them) and each way to go
astray (a line that does not fit, a body that nobody reads, a login that reads
too much).  In `form` the shortest forms fit into one segment and the longest
does not fit into the buffer; in `page` one tag is longer than the cache and
one is not, false marks appear at each place of it, and a last tag may lack its
end, have half of one, or have a name that is too long; in `files` a list takes
up to six chunks and can starve.  In `app` one form posts DHCP and a setting,
the other an address and the same setting, so that they meet in one field and
not in the others.  Four frames and a ring of two let a timer request meet a
full ring.  Where a property is proved (section 4), the bounds of its run play
no role.

`CHECK_DEADLOCK FALSE` is set where the environment may simply stop: the peers
have done what the bound allows, or no more frames arrive.

**Fairness.**  `HttpSend`: `OnHttpPoll` (TCP's timer calls it every two
seconds) and `OnHttpSent` (a peer that is there acknowledges in the end; with
`PROMPT_PEER` before the timeout).  `HttpCore`: `OnHttpPoll` and the passing of
time; nothing is assumed of the peers.  `NicQueue`: both threads are scheduled;
the arrival of frames is not fair.  Locks need no strong fairness, for the
number of frames is bounded.  `HttpRecv`: `HttpRequestProc` returns, TCP polls
and the receive timeout passes (both strongly fair, as a client that keeps
sending interrupts them again and again, while TCP's timer runs on), and a
response ends (`HttpSend`); nothing is assumed of the client.  `FormData`: the
client sends its form.  `ChunkedPage`: a call returns, TCP polls, the client
acknowledges.  `AppThread`: the thread runs, and the timers leave time for
messages (strong fairness of `TimersDone`: a handler sets timers in the
future); messages and handlers are not fair.  `SsdpTimer`: both threads run,
and a timer that is armed again and again fires, for `tcpip_inloop` looks at
the timers each time before it waits.

## 4. Proofs

| Module | Theorems |
|---|---|
| `HttpSessionProofs` | `TypeCorrect`, `DeadSessionsStayDead`, `StampsTellTheTruth`; with `NoWrap` (the clock stays below 2^32): `NobodyIsThrownOutEarly`, `SweepsAreComplete` |
| `HttpSendProofs` | `SendTypeCorrect`, `BuffersAlwaysHold`, `NothingIsLost`, `ResponsesEndWhole`; with `SmallWindow` (`SND_BUF + RESERVE <= SEND_BUF_SIZE`): `ResponsesAreDriven` |
| `HttpCoreProofs` | `BindingsAlwaysAgree`, `CoreImplementsTable` (refinement of `HttpContexts`), `CoreTypeCorrect`, `FilesAreKept`, `OthersCloseOnce`, `SlotsAreClosed`, `UploadsStaySettled` |
| `HttpRecvProofs` | `RecvTypeCorrect`, `BytesStayInOrder`, `WindowStaysWhole`, `PlainBodiesNeverOverdraw`, `BodiesStayExact`, `RecvImplementsFlowControl` (refinement of `FlowControl`) |
| `FileListProofs` | `ListingsAreWhole`, `SearchesStayClosed` |
| `ChunkedPageProofs` | `PageTypeCorrect`, `ChunksStayFramed`, `PagesAreSubstituted` |
| `FormDataProofs` | `FormTypeCorrect`, `FieldsStayInOrder`, `FieldsStayExact`; about `AppThread`, to which the fields go: `AppTypeCorrect`, `FormsStayIsolated` |
| `NicQueueProofs` | `QueueTypeCorrect`; with `QuietStart` (no post inside `sys_mbox_new`): `SemaphoreIsExact`, `FramesStayInOrder`, `FramesStayAnnounced`, and `OneTimerAlways` of `SsdpTimer` |

With these, every invariant that a run checks is a theorem, and so is every
action property and every refinement.

Apart from `NoWrap`, `SmallWindow` and `QuietStart`, which the theorems name,
the proofs use only the assumptions on constants that the modules state beside
them: the sizes are natural numbers, the folders, forms and streams are what
the modules say they are, and `NULL` is no unit of a request
(`NullAssumption`).  A form (`IsForm`) is what a client sends: fields with an
equals sign, separated by ampersands, whose escapes are complete.  A page is any
text; only the space that a value leaves free (`SLACK`, 50 in the code) must
not be zero.  `StreamAssumption` of `HttpRecv` is used by
`BodiesStayExact` alone.  It is about the client and not about the server: what
begins like a request is one, that is, its header has one empty line, which is
its last, and a body that is not chunked has the length told in the header.
The other theorems about `HttpRecv` hold for every stream.

*Sessions.*  `SafetyInv` is the conjunction of the zeroed free slots and the
true stamps.  Neither needs the other to be preserved, but a sweep can only be
judged with both: `ElapsedIsTrue` shows that, without a wrap, what
`SessionCheck` computes is the true idle time to within the one tick by which
the stamp of tick 0 is moved.

*Sending.*  `SendInv` adds to the three properties the accounting of the
current response: what was given to TCP is at least what is still in flight,
and `STAGE_END` means that the whole file was read.  `AlwaysDriven` is not
inductive alone: that the pump always leaves something in flight follows from
`BuffersHold` and the flushing condition, which is where `SmallWindow` comes
in.  TLS connections satisfy it (the TLS layer reports less than
`TCP_SND_BUF`); plain HTTP, with both buffers of 1600 bytes, does not, and
`send_stall` is the counterexample.

*Connections.*  `BindingInv` says that both halves of the binding agree.  Every
way in which a callback can end leaves the binding alone or takes one step of
`HttpContexts` (`EndEffect`, `ParseEffect`, `ResponseEffect`), so the
refinement mapping is the identity on the binding.

*Files and uploads.*  That no file is lost and none is left open are two sides
of one fact, `Owns`: a context that refers to a slot opened it, and a slot
that is taken is referred to by the context that took it (`NoLeaks`, which lets
304 answers and lists go).  It is kept per
context (`Shape` says which fields go together), since what one context does
to its own slots leaves the others alone (`Outcome`).  Three details make it
delicate.  `AllSent` closes before the context is reset, so a context passes
through states in which it refers to a slot that is closed already: `Closable`
allows that to pages alone, which is `OnlyPagesCloseTwice`.  A stored upload
breaks the first half of `Owns` for good, which is why that half is conditional,
but not the second: whoever closes a slot that is another's leaves it free, not
leaked, and a search that takes it back is a list's.  And a free context must
hold nothing (`FreeIsIdle`), or the next accept would inherit a file.

*Receiving.*  `RecvInv` joins, beside the types, `Content` (the buffer and the
part of the chain behind `off` are consecutive pieces of the stream, and the
next byte to arrive follows them), `Chain` (the window lacks the length of the
chain, and `off` lies in it) and `Parser` (how `pos` and `size` relate to the
buffer at each `pc`, and that only a chunked request is in the states of
one).  Every action does one of four things to
the data: receives, copies from the chain into the buffer, consumes a prefix
of the buffer, or lets it rest (`DataStep`); the first part is proved once per
effect and not once per action.  The refinement follows from the same four
effects.

*Bodies.*  `BodyInv` says where in the stream the parser is while nothing went
astray: between two requests (`Between`), in the header f..h or behind it or in
the body of d bytes (`Within`), or answering a request that it read to its end
(`Answering`).  `Point` is the position, which `pos` has a part in while lines
are read.  In a header, `Told` says that the length and the encoding are known
as far as the lines were read; in a body, `given` consists of the bytes behind
h.  The step that needs most is `ParseLine`: the first line end that is found
in the buffer is the first one of the stream behind `Point` (`LineFound`), so
the parser ends a header where the stream does, and not at a line end that was
cut by a segment.  `Older` (the requests that were logged lie in front)
keeps the log in the order of the stream.  A chunked request, an answer that
leaves a body unread, a line longer than the buffer and a login that takes
more than its body end the claim, as in `BodiesAreExact` itself.

*Lists.*  `Partial(t, n, m)` says that the text `t` names the visible entries
among the first `n` entries of the folder, `m` of them, each once and in
order, with its marks.  It holds between two chunks, wherever a chunk was cut;
when the search is at its end it is the whole list.  `Endings` relates the
open search to the stage and to the way in which the response ended.

*Pages.*  `PageInv` relates the page to what the client has of it, at each step
of the loop.  `Where` says which characters of the page the cache holds and
what may be left in it when the file is at its end; `Framing` what a call knows
about the chunk it is going to make; `Tag` that the name read so far is that of
a tag which began at `Start` and whose end was not passed.  `Produced` is the
claim itself in a form that every step keeps: what was produced, followed by
what the reference makes of the rest of the page, is the page with its tags
replaced.  A step unfolds the reference once: a character of text, or a whole
tag at its end.  Only there `Tag` is needed, for the end that the scanner finds
must be the first one.  That half an end mark is sent when a page ends in the
middle of a tag came out of this proof; the reference has it as `Unclosed`,
and `MCPages` such pages.

*Forms.*  For all forms, `Types` holds: pointers and writes stay in the part of
`_sendBuffer` that is not reserved, so each string has its NUL.  That needs
what `URLDecode` does to the length of a string, for a write of the decoded one
must not go beyond the old one.  The rest is `FormInv`, for forms without escaped
ampersands.  `Buffer`: the part that was not parsed, from `From` to `left`, is a
piece of the body, and no ampersand is anywhere else in the buffer, although
old bytes are; so `strstr()` cannot find a stale one.  `Clean`: until a field is
parsed early there are no old bytes.  `AtField`: the unparsed part begins with a
field, and the calls so far are as many as the fields before it.  `Exact`:
each call got what `URLDecode` makes of its field or, for a last value behind
which old bytes may be, something that begins with it.  `Complete`: at the end
all fields were set.  An equals sign among old bytes does no harm because every
field has its own before them, which is what `IsForm` is for.

*Induction over data.*  `DecodedUpTo`, `SubstitutedFrom` and `BodyUpTo` are
recursive functions on an interval.  That they exist, and what their values
are, is proved from the least number for which it would fail
(`NatLessThanWellFounded`, `WFMin`; lemma `UpTo`), which takes a set and not an
operator as its parameter.

*Settings.*  `CopyInv`: a field of `g_TempConfig` that nobody else has touched
since a connection began to post has the value posted or else the running one.

*Refinements.*  `HttpCore` implements `HttpContexts`, and `HttpRecv`
implements `FlowControl` with `granted <- sent + wnd`.  Both are checked by
runs and proved.  The second one says that the window never shrinks, and all that
it grants has its place in the chain or the buffer.

*Mailbox.*  `LossBound` (a lost notification belongs to a captured frame) makes
the types inductive.  `SemInv` says that the number of messages in the ring is
the semaphore's count plus the permit that AppThread holds between the two
halves of a fetch; four lemmas of arithmetic modulo the ring's size carry it.

*Order of frames.*  `OrderInv` puts all places of a frame into one line: the
last one handled, the one fetched, those in the ring, the one popped, those in
`g_dmaQueue`, those to come.  Each action moves one frame to the next place.
It needs `SemInv`: a fetch from an empty ring would take a stale message.

*Notifications.*  `NoneForgotten` compares numbers: frames in the list against
messages under way and lost.  The ring holds frames as well as notifications,
so the messages of one kind are counted as a set of positions, whose
cardinality changes by one with each post and fetch.  `AnnouncedEarly` covers
the time before the mailbox is ready, when the ring counts for nothing and a
notification is lost.

*Timer.*  `SsdpTimer` posts with `sys_mbox_post`, which never tests for a full
ring.  On a ring that has room it does what `sys_mbox_trypost` does (`Puts`),
so `SemInv` survives until the first overrun; `Turns` says
that timer, request and handler take turns.  After an overrun nothing is
claimed, as in `OneTimer` itself.

Only model-checked are the liveness properties (`BacklogDrains`,
`FullMailboxDrains`, `AdvertisingGoesOn`, `ResponseCompletes`,
`SilentPeersAreDropped`, `WindowReopens`, `FormCompletes`, `BodyEnds`,
`ChangeEndsService`, `SweepsGoOn`): liveness under fairness is out of the
prover's reach.

## 5. What is not modelled

- *lwIP, Mbed TLS, pcap*: vendored, and more than 95 of 100 lines of the repository.  The
  models take from them what the server relies on: callbacks and their order,
  windows, buffer space, acknowledgements, allocation failures, polls.  Models
  of TCP or TLS themselves would be models of other projects.
- *The image builder and `fs_data.c`*: a build tool and its output.
- *Range arithmetic*, the look-up of handlers and files, authorisation and the
  HTTPS redirect: pure functions of one request; the models keep their outcomes
  (which kind of request it is).
- *The texts*: headers, XML of the SSDP description, M-SEARCH answers, dates,
  content types, log.
- *ssdpDown and HttpdStop* beyond the fact that AppThread runs them once, at
  its end; whether `tcp_kill_all` calls back into freed contexts is a question
  about lwIP.
- *Critical sections before `sys_init`* (`straight-httpd.c:350`): undefined
  behaviour of the operating system.
- *The bytes of a chunk's frame*: 12 are reserved and up to 17 used
  (`http_cgi.c:359`).

## 6. What is left

1. The liveness properties for all sizes, with a prover that handles fairness
   and `ENABLED`.
2. `FormData` with escaped ampersands: the types are proved for them, and
   that `_bytesLeft` can be wrong then is known; which fields are set wrongly is
   not stated.
3. The reads of the C library on a negative length (`http_web.c:409`) and a
   negative offset, which end the models in `"undefined"`.
