---------------------------- MODULE ChunkedPage -----------------------------
(***************************************************************************)
(* The body of a page with server side includes.  WEB_ReadContent          *)
(* (http_web.c) reads the page through a small cache, copies text to the   *)
(* send buffer and replaces tags by values; CGI_LoadContentToSend          *)
(* (http_cgi.c) frames what it gets as a chunk.  It is called whenever     *)
(* data was acknowledged or TCP polls, and the state in between is kept in *)
(* the context.                                                            *)
(*                                                                         *)
(* A tag is "<" "!", a name and "-" ">": the marks "<!--#" and "-->" of    *)
(* the code, shortened to two characters each.  The loop is cut into steps *)
(* (pc), but no callback interrupts it.                                    *)
(***************************************************************************)
EXTENDS Integers, Sequences, FiniteSetsExt

CONSTANTS
  CACHE,   \* sizeof(_cache), MAX_TAG_LEN
  NAME,    \* sizeof(_tagName), 64 as well
  SLACK,   \* what a value leaves free in the buffer, 50 in the code
  Rooms,   \* bound: the space that the send buffer may have, even none
  Pages    \* bound: the pages

Chars == {"t", "<", "!", "n", "u", "-", ">"}
TagStart == <<"<", "!">>
TagEnd == <<"-", ">">>

ASSUME PageAssumption ==
  /\ CACHE \in Nat /\ CACHE >= 2 /\ NAME \in Nat \ {0}
  /\ SLACK \in Nat \ {0} /\ Rooms \subseteq Int
  /\ \A p \in Pages : p \in Seq(Chars)

VARIABLES
  page,      \* the file
  index,     \* _dwOperIndex: how much of it was read
  cache,     \* _cache, up to _cacheOffset
  ssiState,  \* 1 searching a start (0 becomes 1 before it is used), 2 searching an end
  tagName,   \* _tagName
  stage,     \* _dwOperStage: "first" (0), "more", "END"
  room,      \* maxSize of this call
  out,       \* what this call produced
  pc,        \* "idle", "fill", "scan", "frame", "end", "undefined"
  unacked,   \* something that was sent is not acknowledged
  bare,      \* szCRLF is empty in this call
  wire,      \* history: the chunks that were sent
  cut        \* history: a value was cut for want of room

file == <<page, index>>
ssi == <<cache, ssiState, tagName>>
vars == <<file, ssi, stage, room, out, pc, unacked, bare, wire, cut>>

(* WEB_RequestReceived has opened the page, the header is acknowledged. *)
Init ==
  /\ page \in Pages /\ index = 0
  /\ cache = <<>> /\ ssiState = 1 /\ tagName = <<>>
  /\ stage = "first"
  /\ room = 0 /\ out = <<>> /\ pc = "idle" /\ bare = TRUE
  /\ unacked = FALSE
  /\ wire = <<>> /\ cut = FALSE

Drop(s, n) == SubSeq(s, n + 1, Len(s))

AllRead == index >= Len(page)

-----------------------------------------------------------------------------
(***************************************************************************)
(* CGI_LoadContentToSend                                                   *)
(***************************************************************************)

(* No CRLF belongs before the chunk. *)
IsFirst == stage = "first" /\ index = 0

(* WEB_ReadContent is called; after the end of the file, it gives what the *)
(* cache still holds, as it is.                                            *)
Load ==
  /\ stage # "END"
  /\ room' \in Rooms
  /\ bare' = IsFirst
  /\ \/ /\ AllRead /\ cache # <<>>
        /\ out' = cache /\ cache' = <<>>
        /\ stage' = "END" /\ pc' = "frame"
     \/ /\ AllRead /\ cache = <<>>                    \* an empty file
        /\ stage' = "END" /\ pc' = "end"
        /\ UNCHANGED <<out, cache>>
     \/ /\ ~AllRead
        /\ out' = <<>> /\ pc' = "fill"
        /\ UNCHANGED <<cache, stage>>
  /\ UNCHANGED <<file, ssiState, tagName, wire, cut>>

(* OnHttpSent: all is acknowledged; after the last chunk, that is the end. *)
OnHttpSent ==
  /\ pc = "idle" /\ unacked
  /\ unacked' = FALSE
  /\ \/ Load
     \/ /\ stage = "END" /\ pc' = "end"
        /\ UNCHANGED <<file, ssi, stage, room, out, bare, wire, cut>>

(* Mutant: a poll goes on only while something is in flight. *)
OnHttpPoll_InFlight == pc = "idle" /\ unacked /\ Load /\ UNCHANGED unacked

(* OnHttpPoll: after the last chunk it does nothing. *)
OnHttpPoll == pc = "idle" /\ Load /\ UNCHANGED unacked

(* Mutant: the last chunk is recognised by the index. *)
IsLast_ByIndex == AllRead

(* The chunk that ends the body follows this one at once. *)
IsLast == stage = "END"

(* What was read becomes a chunk, unless it is nothing. *)
Frame ==
  /\ pc = "frame"
  /\ pc' = "idle"
  /\ \/ /\ out # <<>>
        /\ wire' = Append(wire, [crlf |-> ~bare, data |-> out, last |-> IsLast,
                                 room |-> room])
        /\ unacked' = TRUE
     \/ out = <<>> /\ UNCHANGED <<wire, unacked>>
  /\ UNCHANGED <<file, ssi, stage, room, out, bare, cut>>

-----------------------------------------------------------------------------
(***************************************************************************)
(* The loop of WEB_ReadContent; consumed bytes leave the cache at once.    *)
(***************************************************************************)

(* The loop ends; the file is finished if nothing of it waits in the cache. *)
Done(rest) ==
  /\ pc' = "frame"
  /\ stage' = IF AllRead /\ rest = <<>> THEN "END" ELSE "more"

(* The cache is filled, or the loop ends at the end of the file.  A read   *)
(* gives what it is asked for: LWIP_fread never reports an error, and      *)
(* fopen_s lets nobody shorten a file that is being read.                  *)
Fill ==
  LET n == Min({Len(page) - index, CACHE - Len(cache)})
  IN
  /\ pc = "fill"
  /\ \/ /\ ~AllRead
        /\ cache' = cache \o SubSeq(page, index + 1, index + n)
        /\ index' = index + n
        /\ pc' = "scan" /\ UNCHANGED stage
     \/ AllRead /\ Done(cache) /\ UNCHANGED <<cache, index>>
  /\ UNCHANGED <<page, ssiState, tagName, room, out, unacked, bare, wire, cut>>

(* Mutant: a mark that the end of the cache cuts is not waited for. *)
Incomplete_Never(mark) == FALSE

(* The cache begins with the first character of mark and is too short. *)
Incomplete(mark) == cache # <<>> /\ cache[1] = mark[1] /\ Len(cache) < Len(mark)

(* The cache begins with mark. *)
Found(mark) == Len(cache) >= Len(mark) /\ SubSeq(cache, 1, Len(mark)) = mark

(* The cache is empty, or ends within a mark: the next part is needed. *)
NeedMore ==
  /\ pc = "scan"
  /\ cache = <<>> \/ Incomplete(IF ssiState = 2 THEN TagEnd ELSE TagStart)
  /\ pc' = "fill"
  /\ UNCHANGED <<file, ssi, stage, room, out, unacked, bare, wire, cut>>

Scanning ==
  /\ pc = "scan" /\ cache # <<>>
  /\ ~Incomplete(IF ssiState = 2 THEN TagEnd ELSE TagStart)

(* A character of text; a full buffer is sent. *)
CopyText ==
  /\ Scanning /\ ssiState = 1 /\ ~Found(TagStart)
  /\ out' = Append(out, cache[1])
  /\ cache' = Drop(cache, 1)
  /\ IF Len(out') >= room THEN Done(cache') ELSE UNCHANGED <<pc, stage>>
  /\ UNCHANGED <<file, ssiState, tagName, room, unacked, bare, wire, cut>>

(* The start of a tag: what precedes it is sent first. *)
TagFound ==
  /\ Scanning /\ ssiState = 1 /\ Found(TagStart)
  /\ cache' = Drop(cache, Len(TagStart))
  /\ ssiState' = 2
  /\ Done(cache')
  /\ UNCHANGED <<file, tagName, room, out, unacked, bare, wire, cut>>

(* A character of the name, and the NUL behind it, which nothing keeps     *)
(* within _tagName.                                                        *)
CopyName ==
  /\ Scanning /\ ssiState = 2 /\ ~Found(TagEnd)
  /\ tagName' = Append(tagName, cache[1])
  /\ cache' = Drop(cache, 1)
  /\ pc' = IF Len(tagName') < NAME THEN pc ELSE "undefined"
  /\ UNCHANGED <<file, ssiState, stage, room, out, unacked, bare, wire, cut>>

(* The value of a tag; an unknown tag has none. *)
Value(name) == IF name = <<"n">> THEN <<"v", "w">> ELSE <<>>

(* The name is cleared for the next tag. *)
NextName == <<>>

(***************************************************************************)
(* ReplaceTag at the end of a tag: as much of the value as there is room   *)
(* for.  With less than SLACK, strncpy() is called with a negative length. *)
(***************************************************************************)
ReplaceTag ==
  LET v == Value(tagName)
      n == IF v = <<>> THEN 0 ELSE Min({Len(v), room - Len(out) - SLACK})
  IN
  /\ Scanning /\ ssiState = 2 /\ Found(TagEnd)
  /\ out' = out \o SubSeq(v, 1, n)
  /\ cut' = (cut \/ n < Len(v))
  /\ pc' = IF n < 0 THEN "undefined" ELSE pc
  /\ cache' = Drop(cache, Len(TagEnd))
  /\ ssiState' = 1
  /\ tagName' = NextName
  /\ UNCHANGED <<file, stage, room, unacked, bare, wire>>

Read == Fill \/ NeedMore \/ CopyText \/ TagFound \/ CopyName \/ ReplaceTag \/ Frame

Next == OnHttpSent \/ OnHttpPoll \/ Read

Spec == Init /\ [][Next]_vars

(* A call returns; TCP polls; the client acknowledges what it gets. *)
FairSpec == Spec /\ WF_vars(Read) /\ WF_vars(OnHttpPoll) /\ WF_vars(OnHttpSent)

-----------------------------------------------------------------------------
(***************************************************************************)
(* The reference: the page with its tags replaced.                         *)
(***************************************************************************)

(* A tag begins or ends with the characters i and i + 1 of the page p. *)
TagStartsAt(p, i) == i < Len(p) /\ p[i] = TagStart[1] /\ p[i + 1] = TagStart[2]
TagEndsAt(p, i) == i < Len(p) /\ p[i] = TagEnd[1] /\ p[i + 1] = TagEnd[2]

(* The ends that a tag at i can have; it has the first of them. *)
EndsOf(p, i) == {j \in (i + 2)..Len(p) : TagEndsAt(p, j)}

(* What is sent of a tag that is not closed: half a mark at the end. *)
Unclosed(p, i) ==
  IF i + 2 <= Len(p) /\ p[Len(p)] = TagEnd[1] THEN <<TagEnd[1]>> ELSE <<>>

(* What becomes of the page p from each of its characters on. *)
SubstitutedFrom(p) ==
  LET sub[i \in 1..(Len(p) + 1)] ==
        IF i > Len(p) THEN <<>>
        ELSE IF ~TagStartsAt(p, i) THEN <<p[i]>> \o sub[i + 1]
        ELSE IF EndsOf(p, i) = {} THEN Unclosed(p, i)
        ELSE LET e == Min(EndsOf(p, i))
             IN  Value(SubSeq(p, i + 2, e - 1)) \o sub[e + 2]
  IN  sub

Substituted(p) == SubstitutedFrom(p)[1]

(* What a client puts together of the chunks w, up to each of them. *)
BodyUpTo(w) ==
  LET data[n \in 0..Len(w)] == IF n = 0 THEN <<>> ELSE data[n - 1] \o w[n].data
  IN  data

Body(w) == BodyUpTo(w)[Len(w)]

(* A tag that begins so late that the cache holds the rest of the page. *)
LateTag == \E i \in 1..(Len(page) - 1) :
             TagStartsAt(page, i) /\ i + CACHE > Len(page)

(* A tag that goes on for NAME characters without an end. *)
LongTag == \E i \in 1..(Len(page) - 1 - NAME) :
             TagStartsAt(page, i) /\ \A j \in EndsOf(page, i) : j >= i + 2 + NAME

Text == Chars \cup {"v", "w"}

(* Types.  The cache never overflows. *)
TypeOK ==
  /\ page \in Pages /\ index \in 0..Len(page)
  /\ cache \in Seq(Chars) /\ Len(cache) <= CACHE
  /\ ssiState \in {1, 2} /\ tagName \in Seq(Chars)
  /\ stage \in {"first", "more", "END"}
  /\ room \in Rooms \cup {0} /\ out \in Seq(Text)
  /\ pc \in {"idle", "fill", "scan", "frame", "end", "undefined"}
  /\ unacked \in BOOLEAN /\ bare \in BOOLEAN /\ cut \in BOOLEAN
  /\ wire \in Seq([crlf : BOOLEAN, data : Seq(Text), last : BOOLEAN, room : Int])

(***************************************************************************)
(* However the page falls into caches, and whatever room the buffer has at *)
(* each call: the client gets the page with every tag replaced, although a *)
(* mark may be cut by the end of the cache.  Only a tag in the last part   *)
(* of the page, which is given out as it is, or one whose value is cut     *)
(* spoils it.                                                              *)
(***************************************************************************)
PageIsSubstituted ==
  pc = "end" /\ ~LateTag /\ ~cut => Body(wire) = Substituted(page)

(* The first call finds a tag, or a part of a mark, and nothing to send. *)
FirstIsEmpty ==
  \/ page = SubSeq(TagStart, 1, 1)
  \/ Len(page) >= 2 /\ SubSeq(page, 1, 2) = TagStart

(***************************************************************************)
(* The chunks make a body (RFC 7230, 4.1): none but the first lacks the    *)
(* CRLF of its predecessor, and none but the last, which never misses it,  *)
(* is followed by the terminator.  Exceptions are a page that begins with  *)
(* a tag, as its first read gives nothing, and one whose last read gives   *)
(* nothing.  A chunk keeps to the space that its call was given, if it was *)
(* given any; only the rest of the cache, in the last one, may exceed it.  *)
(***************************************************************************)
ChunksAreFramed ==
  /\ \A i \in 1..Len(wire) :
       /\ wire[i].crlf = (i > 1) \/ FirstIsEmpty
       /\ wire[i].last => i = Len(wire)
       /\ Len(wire[i].data) <= Max({wire[i].room, 1}) \/ wire[i].last
  /\ pc = "end" /\ out # <<>> => wire[Len(wire)].last

(* The last call gave nothing: no terminator is sent, nobody goes on. *)
Stuck == pc = "idle" /\ stage = "END" /\ ~unacked

(***************************************************************************)
(* The body comes to its end, although a call may give nothing and only a  *)
(* poll goes on then, unless nothing was left for the last call, a tag     *)
(* ended when there was hardly any space, or its name is too long.         *)
(***************************************************************************)
BodyEnds == <>(\/ pc = "end" \/ Stuck
               \/ pc = "undefined" /\ (room < SLACK \/ LongTag))

=============================================================================
