------------------------------ MODULE FileList ------------------------------
(***************************************************************************)
(* The list of a folder, /api/files.cgi (httpd/cgi/cgi_files.c).  A search *)
(* of the file system stays open while TCP takes the list piece by piece:  *)
(* each time that HttpResponseProc (http_core.c) finds room it calls       *)
(* CGI_LoadContentToSend (http_cgi.c), which calls Files_ReadOneFileInfo   *)
(* for as many entries as fit and frames them as a chunk.                  *)
(*                                                                         *)
(* Sizes are counted in units; the text of the list is a sequence of       *)
(* tokens.  The loop over the entries is cut into steps (pc), but no       *)
(* callback interrupts it.                                                 *)
(***************************************************************************)
EXTENDS Integers, Sequences, FiniteSetsExt

CONSTANTS
  SEND_BUF,  \* sizeof(_sendBuffer)
  SND_BUF,   \* altcp_sndbuf() with nothing in flight
  FRAME,     \* what is kept free for the frame of a chunk, 12 in the code
  SLACK,     \* what is kept free for an entry, 200 in the code
  Folders    \* bound: the folders

(***************************************************************************)
(* A folder is the sequence of the sizes of its entries; size 0 stands for *)
(* one that is not listed ("." and, in the root, "..").                    *)
(***************************************************************************)
ASSUME ListAssumption ==
  /\ SEND_BUF \in Nat /\ SND_BUF \in Nat \ {0} /\ FRAME \in Nat /\ SLACK \in Nat
  /\ SEND_BUF > FRAME + SLACK
  /\ \A d \in Folders : d \in Seq(0..SLACK)

VARIABLES
  folder,     \* what is listed
  next,       \* the entries that the search gave so far
  search,     \* the search (_fp) is open
  stage,      \* _dwOperStage: "first" (0), "more", "END"
  listed,     \* _dwTotal: the entries listed so far
  out,        \* outputCount of this call
  bytesLeft,  \* _bytesLeft: what waits in _sendBuffer
  unacked,    \* what is in flight
  pc,         \* "wait" for a callback, "read", "send", "closed"
  text,       \* history: the list, as far as it was produced
  why         \* history: how it ended

call == <<next, search, stage, listed, out, text>>
vars == <<folder, call, bytesLeft, unacked, pc, why>>

(* The header of the response is acknowledged. *)
Init ==
  /\ folder \in Folders
  /\ next = 0 /\ search = FALSE /\ stage = "first" /\ listed = 0 /\ out = 0
  /\ bytesLeft = 0 /\ unacked = 0
  /\ pc = "wait"
  /\ text = <<>> /\ why = "open"

-----------------------------------------------------------------------------
(***************************************************************************)
(* HttpResponseProc, with n bytes more acknowledged.                       *)
(***************************************************************************)

(* sendBuffered: as much of left as TCP takes when u is in flight. *)
sendBuffered(left, u) ==
  LET n == Min({left, SND_BUF - u})
  IN  bytesLeft' = left - n /\ unacked' = u + n

MustFlush(u) == bytesLeft > 0 /\ (stage = "END" \/ bytesLeft >= SND_BUF - u)

(* The rest of the list, or of a full buffer. *)
SendRemaining(u) ==
  /\ MustFlush(u)
  /\ sendBuffered(bytesLeft, u)
  /\ UNCHANGED <<call, pc, why>>

(* The last chunk is acknowledged: the response is over. *)
AllSent(u) ==
  /\ ~MustFlush(u) /\ stage = "END" /\ u = 0
  /\ unacked' = u
  /\ pc' = "closed" /\ why' = "sent"
  /\ UNCHANGED <<call, bytesLeft>>

(* The last chunk is under way. *)
LastInFlight(u) ==
  /\ ~MustFlush(u) /\ stage = "END"
  /\ unacked' = u
  /\ UNCHANGED <<call, bytesLeft, pc, why>>

(* Files_ReadOneFileInfo is called. *)
StartReading(u) ==
  /\ ~MustFlush(u) /\ stage # "END"
  /\ unacked' = u
  /\ out' = 0 /\ pc' = "read"
  /\ UNCHANGED <<next, search, stage, listed, text, bytesLeft, why>>

OnHttpSent ==
  /\ pc = "wait"
  /\ \E n \in 1..unacked :
       LET u == unacked - n
       IN  SendRemaining(u) \/ AllSent(u) \/ (LastInFlight(u) /\ u > 0) \/ StartReading(u)
  /\ UNCHANGED folder

(* The header was acknowledged, or TCP polls. *)
OnHttpPoll ==
  /\ pc = "wait"
  /\ SendRemaining(unacked) \/ LastInFlight(unacked) \/ StartReading(unacked)
  /\ UNCHANGED folder

(* A write failed, the send timeout passed or the peer reset: the context  *)
(* is reset or freed.  The handler has no OnCancel and no OnFinished.      *)
Lost ==
  /\ pc \in {"wait", "send"}
  /\ pc' = "closed" /\ why' = "lost"
  /\ UNCHANGED <<folder, call, bytesLeft, unacked>>

-----------------------------------------------------------------------------
(***************************************************************************)
(* Files_ReadOneFileInfo                                                   *)
(***************************************************************************)

(* There is room for another entry in this call. *)
Room == out < SEND_BUF - bytesLeft - FRAME - SLACK

(* Mutant: the array is opened by the first entry of the search. *)
Separator_ByEntry == IF stage = "first" THEN "[" ELSE ","

(* The array is opened by the first entry that is listed. *)
Separator == IF listed = 0 THEN "[" ELSE ","

(* Entry i is listed, or passed over. *)
List(i) ==
  \/ /\ folder[i] = 0
     /\ UNCHANGED <<out, text, listed>>
  \/ /\ folder[i] > 0
     /\ out' = out + folder[i]
     /\ text' = text \o <<Separator, i>>
     /\ listed' = listed + 1

(* The list ends with token t, of size 1. *)
EndOfList(t) ==
  /\ out' = out + 1
  /\ text' = Append(text, t)
  /\ stage' = "END" /\ pc' = "send"
  /\ UNCHANGED <<listed, next>>

(* The search is opened and gives the first entry; without one there is    *)
(* no such folder, and an empty list.                                      *)
WEB_firstdir ==
  /\ pc = "read" /\ Room /\ stage = "first"
  /\ \/ folder = <<>> /\ EndOfList("[]") /\ UNCHANGED search
     \/ /\ folder # <<>>
        /\ search' = TRUE
        /\ next' = 1 /\ List(1)
        /\ stage' = "more" /\ UNCHANGED pc
  /\ UNCHANGED <<folder, bytesLeft, unacked, why>>

(* The next entry. *)
WEB_readdir ==
  /\ pc = "read" /\ Room /\ stage = "more" /\ next < Len(folder)
  /\ next' = next + 1 /\ List(next + 1)
  /\ UNCHANGED <<folder, search, stage, bytesLeft, unacked, pc, why>>

(* Mutant: the search is left to the call after the end, which never comes. *)
WEB_closedir_Late == search' = search

WEB_closedir == search' = FALSE

(* No more entries. *)
ReadEnds ==
  /\ pc = "read" /\ Room /\ stage = "more" /\ next = Len(folder)
  /\ WEB_closedir
  /\ EndOfList("]")
  /\ UNCHANGED <<folder, bytesLeft, unacked, why>>

(***************************************************************************)
(* No more room.  A call that had none from the start returns -1, which    *)
(* HttpResponseProc takes for the end of the response; what waits in the   *)
(* buffer is thrown away.                                                  *)
(***************************************************************************)
NoRoom ==
  /\ pc = "read" /\ ~Room
  /\ \/ out > 0 /\ pc' = "send" /\ UNCHANGED why
     \/ out = 0 /\ pc' = "closed" /\ why' = "starved"
  /\ UNCHANGED <<folder, call, bytesLeft, unacked>>

(* The chunk is framed and goes out. *)
SendChunk ==
  /\ pc = "send"
  /\ sendBuffered(bytesLeft + out + FRAME, unacked)
  /\ pc' = "wait"
  /\ UNCHANGED <<folder, call, why>>

Read == WEB_firstdir \/ WEB_readdir \/ ReadEnds \/ NoRoom \/ SendChunk

Next == OnHttpSent \/ OnHttpPoll \/ Lost \/ Read

Spec == Init /\ [][Next]_vars

-----------------------------------------------------------------------------

(* The entries to be listed. *)
Visible == {i \in 1..Len(folder) : folder[i] > 0}

(* t is the list as a client expects it: each entry once, and in order. *)
IsListing(t) ==
  LET n == Len(t) \div 2
  IN  /\ Len(t) = 2 * n + 1 /\ t[2 * n + 1] = "]"
      /\ \A k \in 1..n : t[2 * k - 1] = IF k = 1 THEN "[" ELSE ","
      /\ \A k \in 2..n : t[2 * (k - 1)] < t[2 * k]
      /\ {t[2 * k] : k \in 1..n} = Visible

(***************************************************************************)
(* A response that ends well brought the whole list to the client: every   *)
(* entry once, in order and separated, however the list falls into chunks  *)
(* and whatever waited in the buffer when the next part was read.  The     *)
(* array of a folder with nothing to list is closed without being opened.  *)
(***************************************************************************)
ListingIsWhole ==
  why = "sent" =>
    /\ bytesLeft = 0
    /\ IF folder = <<>> THEN text = <<"[]">> ELSE IsListing(text)

(***************************************************************************)
(* Nobody but the listing itself closes its search: it is closed as soon   *)
(* as the list is complete, stays open for good exactly if the response    *)
(* broke off before that, and breaks off by itself only when more waits in *)
(* the buffer than leaves room for an entry.                               *)
(***************************************************************************)
SearchesAreClosed ==
  /\ search <=> stage = "more"
  /\ pc = "closed" /\ search =>
       why = "lost" \/ (why = "starved" /\ bytesLeft >= SEND_BUF - FRAME - SLACK)

=============================================================================
