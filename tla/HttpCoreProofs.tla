--------------------------- MODULE HttpCoreProofs ---------------------------
(***************************************************************************)
(* HttpCore implements the connection table of HttpContexts, for every     *)
(* number of contexts, pcbs and files: whatever a callback does besides,   *)
(* it leaves the binding alone or takes one step of the table.             *)
(***************************************************************************)
EXTENDS HttpCore, TLAPS

(* The part of TypeOK that is about the binding. *)
BindingType ==
  /\ pcb \in [Pcbs -> {"free", "open", "closing"}]
  /\ arg \in [Pcbs -> Contexts \cup {NULL}]
  /\ ctxPcb \in [Contexts -> Pcbs \cup {NULL}]

(* The inductive invariant: both halves of the binding agree. *)
BindingInv == BindingType /\ BindingsAgree

(* NULL is neither a context nor a pcb. *)
LEMMA NullIsNoContext == NULL \notin Contexts /\ NULL \notin Pcbs
BY CoreAssumption DEF Contexts

(* At the start nothing is bound. *)
LEMMA BindingInit == Init => BindingInv
BY NullIsNoContext DEF Init, BindingInv, BindingType, BindingsAgree, Table!BindingsAgree, Table!Contexts, Contexts

(* A step of the connection table keeps the binding consistent. *)
LEMMA TableStep ==
  ASSUME BindingInv, [Table!Next]_(Table!binding)
  PROVE  BindingInv'
<1> USE NullIsNoContext DEF Contexts, Table!Contexts, BindingInv, BindingType,
        BindingsAgree, Table!BindingsAgree
<1>1. ASSUME NEW p \in Pcbs, NEW c \in Contexts, Table!Accept(p, c) PROVE BindingInv'
  BY <1>1 DEF Table!Accept
<1>2. ASSUME NEW c \in Contexts, Table!Close(c) PROVE BindingInv'
  BY <1>2 DEF Table!Close
<1>3. ASSUME NEW p \in Pcbs, Table!Error(p) PROVE BindingInv'
  BY <1>3 DEF Table!Error
<1>4. ASSUME NEW p \in Pcbs, Table!RetryClose(p) PROVE BindingInv'
  BY <1>4 DEF Table!RetryClose
<1>5. ASSUME UNCHANGED Table!binding PROVE BindingInv'
  BY <1>5 DEF Table!binding
<1>6. QED
  BY <1>1, <1>2, <1>3, <1>4, <1>5 DEF Table!Next

(* What a callback on context c may do to the binding. *)
Effect(c) == UNCHANGED binding \/ Table!Close(c)

(* How callbacks end, for any intermediate context r and file table f. *)
LEMMA EndEffect ==
  ASSUME NEW c, ctxPcb[c] # NULL, NEW r, NEW f
  PROVE  /\ GoOn(c, r, f) => Effect(c)
         /\ CloseHttpContext(c, r, f) => Effect(c)
         /\ RequestEnd(c, r, f) => Effect(c)
         /\ Abort(c, r, f) => Effect(c)
         /\ Waits(c, r, f) => Effect(c)
         /\ Respond(c, r, f) => Effect(c)
<1>1. GoOn(c, r, f) => Effect(c)
  BY DEF GoOn, Effect
<1>2. CloseHttpContext(c, r, f) => Effect(c)
  BY DEF CloseHttpContext, FreeHttpContext, Effect, Table!Close
<1>3. RequestEnd(c, r, f) => Effect(c)
  BY <1>2 DEF RequestEnd, ResetHttpContext, Effect
<1>4. Abort(c, r, f) => Effect(c)
  BY <1>2 DEF Abort
<1>5. Waits(c, r, f) => Effect(c)
  BY <1>1, <1>4 DEF Waits
<1>6. Respond(c, r, f) => Effect(c)
  <2>1. ASSUME NEW r2, GoOn(c, r2, f) PROVE Effect(c)
    BY <2>1 DEF GoOn, Effect
  <2>2. QED
    BY <2>1, <1>3 DEF Respond
<1>7. QED
  BY <1>1, <1>2, <1>3, <1>4, <1>5, <1>6

(* Parsing a unit of a request. *)
LEMMA ParseEffect ==
  ASSUME NEW c, ctxPcb[c] # NULL, NEW r, Parse(c, r)
  PROVE  Effect(c)
<1>1. ASSUME NEW q, HeadersReceived(c, q) PROVE Effect(c)
  <2>1. CASE OpenPage(c, q)
    BY <2>1, EndEffect DEF OpenPage
  <2>2. CASE StartUpload(c, q)
    BY <2>2, EndEffect DEF StartUpload
  <2>3. QED
    BY <1>1, <2>1, <2>2, EndEffect DEF HeadersReceived
<1>2. ASSUME NEW q, AllReceived(c, q) PROVE Effect(c)
  BY <1>2, EndEffect DEF AllReceived
<1>3. QED
  BY <1>1, <1>2, EndEffect DEF Parse

(* Sending a part of a response. *)
LEMMA ResponseEffect ==
  ASSUME NEW c, ctxPcb[c] # NULL, NEW r, NEW caller, HttpResponseProc(c, r, caller)
  PROVE  Effect(c)
<1>1. CASE Pauses(c, r)
  BY <1>1, EndEffect DEF Pauses
<1>2. CASE Writes(c, r, caller)
  BY <1>2, EndEffect DEF Writes
<1>3. CASE AfterHeader(c, r)
  BY <1>3, EndEffect DEF AfterHeader
<1>4. CASE AllSent(c, r)
  BY <1>4, EndEffect DEF AllSent
<1>5. CASE WriteFails(c, r, caller) \/ Abort(c, r, files)
  BY <1>5, EndEffect DEF WriteFails
<1>6. QED
  BY <1>1, <1>2, <1>3, <1>4, <1>5 DEF HttpResponseProc

(* What a callback may do to the binding: nothing, or close its context. *)
LEMMA RequestProcEffect ==
  ASSUME NEW c, ctxPcb[c] # NULL, NEW r, NEW caller, HttpRequestProc(c, r, caller)
  PROVE  Effect(c)
BY ParseEffect, ResponseEffect DEF HttpRequestProc

(* The context that a callback works on is bound. *)
LEMMA CallbackContext ==
  ASSUME BindingInv, NEW p \in Pcbs, arg[p] # NULL
  PROVE  arg[p] \in Contexts /\ ctxPcb[arg[p]] = p /\ ctxPcb[arg[p]] # NULL /\ pcb[p] = "open"
BY NullIsNoContext DEF BindingInv, BindingType, BindingsAgree, Table!BindingsAgree

(* Every step of HttpCore is a step of the table, or leaves it alone. *)
LEMMA Simulation ==
  ASSUME BindingInv, [Next]_vars
  PROVE  [Table!Next]_(Table!binding)
<1> USE DEF Contexts, Table!Contexts
<1>0. ASSUME NEW c \in Contexts, Effect(c) PROVE [Table!Next]_(Table!binding)
  BY <1>0 DEF Effect, Table!Next, Table!binding, binding
<1>1. ASSUME NEW p \in Pcbs, OnHttpAccept(p) PROVE Table!Next
  BY <1>1 DEF OnHttpAccept, Table!Next, Table!Accept, Bound
<1>2. ASSUME NEW p \in Pcbs, OnHttpReceive(p) PROVE [Table!Next]_(Table!binding)
  <2>1. arg[p] # NULL
    BY <1>2 DEF OnHttpReceive
  <2>2. Effect(arg[p])
    BY <1>2, <2>1, CallbackContext, RequestProcEffect DEF OnHttpReceive
  <2>3. QED
    BY <2>1, <2>2, <1>0, CallbackContext
<1>3. ASSUME NEW p \in Pcbs, OnHttpReceiveFin(p) PROVE [Table!Next]_(Table!binding)
  <2>1. arg[p] # NULL
    BY <1>3 DEF OnHttpReceiveFin
  <2>2. Effect(arg[p])
    BY <1>3, <2>1, CallbackContext, RequestProcEffect, EndEffect DEF OnHttpReceiveFin
  <2>3. QED
    BY <2>1, <2>2, <1>0, CallbackContext
<1>4. ASSUME NEW p \in Pcbs, OnHttpSent(p) PROVE [Table!Next]_(Table!binding)
  <2>1. arg[p] # NULL
    BY <1>4 DEF OnHttpSent
  <2>2. Effect(arg[p])
    BY <1>4, <2>1, CallbackContext, RequestProcEffect DEF OnHttpSent
  <2>3. QED
    BY <2>1, <2>2, <1>0, CallbackContext
<1>5. ASSUME NEW p \in Pcbs, OnHttpPoll(p) PROVE [Table!Next]_(Table!binding)
  <2>1. CASE arg[p] # NULL
    <3>1. Effect(arg[p])
      BY <1>5, <2>1, CallbackContext, RequestProcEffect, EndEffect DEF OnHttpPoll
    <3>2. QED
      BY <2>1, <3>1, <1>0, CallbackContext
  <2>2. CASE arg[p] = NULL
    <3>1. Table!RetryClose(p)
      BY <1>5, <2>2 DEF OnHttpPoll, Table!RetryClose
    <3>2. QED
      BY <3>1 DEF Table!Next
  <2>3. QED
    BY <2>1, <2>2
<1>6. ASSUME NEW p \in Pcbs, OnHttpError(p) PROVE Table!Next
  <2>1. ctxPcb' = [c \in Contexts |-> IF c = arg[p] THEN NULL ELSE ctxPcb[c]]
    <3>1. CASE arg[p] # NULL
      BY <1>6, <3>1, CallbackContext DEF OnHttpError, FreeHttpContext, BindingInv, BindingType
    <3>2. CASE arg[p] = NULL
      BY <1>6, <3>2, NullIsNoContext DEF OnHttpError, BindingInv, BindingType
    <3>3. QED
      BY <3>1, <3>2
  <2>2. Table!Error(p)
    BY <1>6, <2>1 DEF OnHttpError, Table!Error
  <2>3. QED
    BY <2>2 DEF Table!Next
<1>7. ASSUME NEW c \in Contexts, TimePasses(c) PROVE UNCHANGED Table!binding
  BY <1>7 DEF TimePasses, binding, Table!binding
<1>8. CASE UNCHANGED vars
  BY <1>8 DEF vars, binding, Table!binding
<1>9. QED
  BY <1>1, <1>2, <1>3, <1>4, <1>5, <1>6, <1>7, <1>8 DEF Next

(* Every step keeps the binding consistent. *)
LEMMA BindingStep == BindingInv /\ [Next]_vars => BindingInv'
BY Simulation, TableStep

(***************************************************************************)
(* For any number of connections: a callback finds the context that owns   *)
(* its pcb, and no context touches a pcb that is not its own.              *)
(***************************************************************************)
THEOREM BindingsAlwaysAgree == Spec => []BindingsAgree
<1>1. BindingInv => BindingsAgree
  BY DEF BindingInv
<1>2. QED
  BY <1>1, BindingInit, BindingStep, PTL DEF Spec

(***************************************************************************)
(* HttpCore implements the connection table: initial states map to initial *)
(* states, and every callback to a step of the table or to none.           *)
(***************************************************************************)
THEOREM CoreImplementsTable == Spec => TableImplemented
<1>1. Init => Table!Init
  BY DEF Init, Table!Init, Contexts, Table!Contexts
<1>2. BindingInv /\ [Next]_vars => [Table!Next]_(Table!binding)
  BY Simulation
<1>3. QED
  BY <1>1, <1>2, BindingInit, BindingStep, PTL DEF Spec, TableImplemented, Table!Spec

-----------------------------------------------------------------------------
(***************************************************************************)
(* Files and uploads.                                                      *)
(***************************************************************************)

Uploads == {"none", "receiving", "stored", "cancelled"}

FileTable == [slot : [Slots -> Holders \cup {NULL}], again : SUBSET Kinds]

(* Slot s of table f was opened by context c. *)
OpenedBy(f, s, c) == f.slot[s] # NULL /\ f.slot[s].by = c

(* Which requests keep which handles. *)
Handles(r) ==
  /\ r.file # NULL => r.kind \in {"page", "upload"}
  /\ r.fp # NULL => r.kind \in {"page", "cached", "list"}

(* What c opened for a page or an upload is its _fileHandle. *)
NoLeaks(c, r, f) ==
  \A s \in Slots :
    OpenedBy(f, s, c) /\ f.slot[s].kind \notin {"cached", "list"} => s = r.file

(***************************************************************************)
(* What context c, with the rest r, holds in file table f.  st says        *)
(* whether an upload was stored, after which handles and slots disagree.   *)
(***************************************************************************)
Owns(c, r, f, st) ==
  /\ ~st => \A s \in Slots :
              s \in {r.fp, r.file} => f.slot[s] = [by |-> c, kind |-> r.kind]
  /\ NoLeaks(c, r, f)

(* The handles, and the unit that waits, in each state of a context. *)
Shape(r) ==
  /\ Handles(r)
  /\ r.state \in {"IDLE", "HEADER_RECEIVING"} => r.fp = NULL /\ r.file = NULL
  /\ r.state = "BODY_RECEIVING" => r.fp = NULL /\ r.file \in Slots
  /\ r.state = "BODY_RECEIVING" => r.inbox \in BodyUnits \cup {NULL}
  /\ r.state # "BODY_RECEIVING" => r.inbox \in HeaderUnits \cup {NULL}

(* The part of TypeOK that is not about the binding. *)
CoreTypes ==
  /\ req \in [Contexts -> Context]
  /\ files \in FileTable
  /\ upload \in [Contexts -> Uploads]
  /\ stored \in BOOLEAN
  /\ events \in 0..MAX_EVENTS

(* A free context holds nothing. *)
FreeIsIdle == \A c \in Contexts : ~Bound(c) => req[c] = Idle(req[c].fin, NULL)

ContextsSound ==
  \A c \in Contexts : Shape(req[c]) /\ Owns(c, req[c], files, stored)

CoreInv ==
  /\ BindingInv /\ CoreTypes /\ FreeIsIdle /\ ContextsSound /\ UploadsAreSettled
  /\ OnlyPagesCloseTwice

(***************************************************************************)
(* What a callback on c may make of the file table: it gives other         *)
(* contexts no slot and, unless an upload was stored, takes none from them *)
(* and closes nothing twice but a page.                                    *)
(***************************************************************************)
TableFor(c, f, st) ==
  /\ f \in FileTable
  /\ \A d \in Contexts, s \in Slots :
       d # c => /\ OpenedBy(f, s, d) => f.slot[s] = files.slot[s]
                /\ ~st /\ OpenedBy(files, s, d) => f.slot[s] = files.slot[s]
  /\ ~st => f.again \subseteq {"page"}

(* The flag only rises. *)
Flags == stored' \in BOOLEAN /\ (stored => stored')

(* As Owns, but the file of a page may be closed already. *)
Closable(c, r, f, st) ==
  /\ Handles(r)
  /\ NoLeaks(c, r, f)
  /\ ~st => \A s \in Slots :
              s \in {r.fp, r.file} => \/ f.slot[s] = [by |-> c, kind |-> r.kind]
                                      \/ r.kind = "page" /\ f.slot[s] = NULL

(* The point at which a callback on c ends, with the context r and table f. *)
Ready(c, r, f) ==
  /\ r \in Context
  /\ Closable(c, r, f, stored')
  /\ TableFor(c, f, stored')
  /\ Flags

(* What a callback on c leaves behind. *)
Outcome(c) ==
  \E r \in Context, u \in Uploads :
    /\ req' = [req EXCEPT ![c] = r]
    /\ upload' = [upload EXCEPT ![c] = u]
    /\ u = "receiving" <=> r.state = "BODY_RECEIVING"
    /\ Shape(r)
    /\ Owns(c, r, files', stored')
    /\ TableFor(c, files', stored')
    /\ Flags
    /\ ctxPcb'[c] = NULL => r = Idle(r.fin, NULL)
    /\ \A d \in Contexts : d # c => ctxPcb'[d] = ctxPcb[d]

(* NULL is no slot and no holder of one. *)
LEMMA NullIsNoSlot == NULL \notin Slots /\ NULL \notin Holders
BY CoreAssumption, NullAssumption DEF Slots

(* An idle context. *)
LEMMA IdleFields ==
  ASSUME NEW x \in BOOLEAN, NEW y \in HeaderUnits \cup BodyUnits \cup {NULL}
  PROVE  /\ Idle(x, y) \in Context
         /\ Idle(x, y).state = "IDLE" /\ Idle(x, y).fp = NULL /\ Idle(x, y).file = NULL
         /\ Idle(x, y).inbox = y /\ Idle(x, y).fin = x
         /\ y \in HeaderUnits \cup {NULL} => Shape(Idle(x, y))
<1>1. Idle(x, y) \in Context
  BY DEF Idle, Context, States, Kinds
<1>2. /\ Idle(x, y).state = "IDLE" /\ Idle(x, y).fp = NULL /\ Idle(x, y).file = NULL
      /\ Idle(x, y).inbox = y /\ Idle(x, y).fin = x
  BY DEF Idle
<1> QED
  BY <1>1, <1>2 DEF Shape, Handles

(* Taking a slot changes that slot only. *)
LEMMA TakenFields ==
  ASSUME NEW f \in FileTable, NEW s \in Slots, NEW c \in Contexts, NEW k \in Kinds
  PROVE  /\ Taken(f, s, c, k) \in FileTable
         /\ Taken(f, s, c, k).slot[s] = [by |-> c, kind |-> k]
         /\ \A t \in Slots : t # s => Taken(f, s, c, k).slot[t] = f.slot[t]
         /\ Taken(f, s, c, k).again = f.again
<1>1. [by |-> c, kind |-> k] \in Holders
  BY DEF Holders
<1> QED
  BY <1>1 DEF Taken, FileTable

(* Closing a handle frees that slot, and is recorded if it was not c's. *)
LEMMA CloseFields ==
  ASSUME NEW f \in FileTable, NEW h \in Slots, NEW c \in Contexts, NEW k \in Kinds
  PROVE  /\ Close(f, h, c, k) \in FileTable
         /\ Close(f, h, c, k).slot[h] = NULL
         /\ \A t \in Slots : t # h => Close(f, h, c, k).slot[t] = f.slot[t]
         /\ Close(f, h, c, k).again =
              IF OpenedBy(f, h, c) THEN f.again ELSE f.again \cup {k}
<1>1. h # NULL
  BY NullIsNoSlot
<1>2. Close(f, h, c, k) =
        [slot |-> [f.slot EXCEPT ![h] = NULL],
         again |-> IF OpenedBy(f, h, c) THEN f.again ELSE f.again \cup {k}]
  BY <1>1 DEF Close, OpenedBy
<1>3. f.slot \in [Slots -> Holders \cup {NULL}] /\ f.again \in SUBSET Kinds
  BY DEF FileTable
<1> HIDE DEF OpenedBy
<1>4. (IF OpenedBy(f, h, c) THEN f.again ELSE f.again \cup {k}) \in SUBSET Kinds
  BY <1>3
<1>5. [f.slot EXCEPT ![h] = NULL] \in [Slots -> Holders \cup {NULL}]
  BY <1>3
<1> QED
  BY <1>2, <1>3, <1>4, <1>5 DEF FileTable

LEMMA CloseNull ==
  ASSUME NEW f, NEW c, NEW k
  PROVE  Close(f, NULL, c, k) = f
BY DEF Close

(* A callback on c keeps the invariant of all contexts. *)
LEMMA OutcomeSound ==
  ASSUME CoreInv, BindingInv', NEW c \in Contexts, Outcome(c), events' \in 0..MAX_EVENTS
  PROVE  CoreInv'
<1> PICK r \in Context, u \in Uploads :
       /\ req' = [req EXCEPT ![c] = r]
       /\ upload' = [upload EXCEPT ![c] = u]
       /\ u = "receiving" <=> r.state = "BODY_RECEIVING"
       /\ Shape(r)
       /\ Owns(c, r, files', stored')
       /\ TableFor(c, files', stored')
       /\ Flags
       /\ ctxPcb'[c] = NULL => r = Idle(r.fin, NULL)
       /\ \A d \in Contexts : d # c => ctxPcb'[d] = ctxPcb[d]
  BY DEF Outcome
<1>1. /\ req'[c] = r /\ upload'[c] = u
      /\ \A d \in Contexts : d # c => req'[d] = req[d] /\ upload'[d] = upload[d]
  BY DEF CoreInv, CoreTypes
<1>2. CoreTypes'
  <2>1. req' \in [Contexts -> Context] /\ upload' \in [Contexts -> Uploads]
    BY DEF CoreInv, CoreTypes
  <2> QED
    BY <2>1 DEF CoreTypes, TableFor, Flags
<1>3. FreeIsIdle'
  BY <1>1 DEF CoreInv, FreeIsIdle, Bound
<1>4. UploadsAreSettled'
  BY <1>1 DEF CoreInv, UploadsAreSettled
<1>5. ASSUME NEW d \in Contexts PROVE Shape(req'[d]) /\ Owns(d, req'[d], files', stored')
  <2>1. CASE d = c
    BY <1>1, <2>1
  <2>2. CASE d # c
    <3>1. req'[d] = req[d] /\ Shape(req[d]) /\ Owns(d, req[d], files, stored)
      BY <1>1, <2>2 DEF CoreInv, ContextsSound
    <3>2. \A s \in Slots :
            /\ OpenedBy(files', s, d) => files'.slot[s] = files.slot[s]
            /\ ~stored' /\ OpenedBy(files, s, d) => files'.slot[s] = files.slot[s]
      BY <2>2 DEF TableFor
    <3>3. ~stored' => ~stored
      BY DEF Flags
    <3>4. NoLeaks(d, req[d], files')
      BY <3>1, <3>2 DEF Owns, NoLeaks, OpenedBy
    <3>5. ASSUME ~stored', NEW s \in Slots, s \in {req[d].fp, req[d].file}
          PROVE  files'.slot[s] = [by |-> d, kind |-> req[d].kind]
      <4>1. files.slot[s] = [by |-> d, kind |-> req[d].kind]
        BY <3>1, <3>3, <3>5 DEF Owns
      <4>2. req[d].kind \in Kinds
        BY <3>1, <3>5, NullIsNoSlot DEF Shape, Handles, Kinds
      <4>3. [by |-> d, kind |-> req[d].kind] \in Holders
        BY <4>2 DEF Holders
      <4>4. OpenedBy(files, s, d)
        BY <4>1, <4>3, NullIsNoSlot DEF OpenedBy
      <4> QED
        BY <3>2, <3>5, <4>1, <4>4
    <3>6. Owns(d, req[d], files', stored')
      BY <3>4, <3>5 DEF Owns
    <3> QED
      BY <3>1, <3>6
  <2> QED
    BY <2>1, <2>2
<1>6. ContextsSound'
  BY <1>5 DEF ContextsSound
<1>7. OnlyPagesCloseTwice'
  BY DEF TableFor, OnlyPagesCloseTwice
<1> QED
  BY <1>2, <1>3, <1>4, <1>6, <1>7 DEF CoreInv

(* What c holds, it can close. *)
LEMMA OwnsClosable ==
  ASSUME NEW c, NEW r, NEW f, NEW st, Handles(r), Owns(c, r, f, st)
  PROVE  Closable(c, r, f, st)
BY DEF Owns, Closable

(***************************************************************************)
(* A context c closes a handle that, until an upload was stored, is open   *)
(* for it, or is a page's that it closed before.                           *)
(***************************************************************************)
MayClose(c, r, f, st, h) ==
  /\ r \in Context
  /\ h # NULL => h \in Slots /\ r.kind \in Kinds
  /\ ~st /\ h # NULL =>
       \/ f.slot[h] = [by |-> c, kind |-> r.kind]
       \/ r.kind = "page" /\ f.slot[h] = NULL

LEMMA CloseTable ==
  ASSUME NEW c \in Contexts, NEW r, NEW f, NEW st, NEW h, MayClose(c, r, f, st, h),
         TableFor(c, f, st)
  PROVE  /\ TableFor(c, Close(f, h, c, r.kind), st)
         /\ h # NULL => Close(f, h, c, r.kind).slot[h] = NULL
         /\ \A t \in Slots : t # h => Close(f, h, c, r.kind).slot[t] = f.slot[t]
<1>1. CASE h = NULL
  BY <1>1, CloseNull
<1>2. CASE h # NULL
  <2> DEFINE g == Close(f, h, c, r.kind)
  <2>0. h \in Slots /\ r.kind \in Kinds /\ f \in FileTable
    BY <1>2 DEF MayClose, TableFor
  <2>1. /\ g \in FileTable /\ g.slot[h] = NULL
        /\ \A t \in Slots : t # h => g.slot[t] = f.slot[t]
        /\ g.again = IF OpenedBy(f, h, c) THEN f.again ELSE f.again \cup {r.kind}
    <3> HIDE DEF g
    <3>1. PICK k \in Kinds : k = r.kind
      BY <2>0
    <3>2. /\ Close(f, h, c, k) \in FileTable /\ Close(f, h, c, k).slot[h] = NULL
          /\ \A t \in Slots : t # h => Close(f, h, c, k).slot[t] = f.slot[t]
          /\ Close(f, h, c, k).again =
               IF OpenedBy(f, h, c) THEN f.again ELSE f.again \cup {k}
      BY <2>0, CloseFields
    <3> QED
      BY <3>1, <3>2 DEF g
  <2> HIDE DEF g
  <2>2. ~st => f.slot[h] = [by |-> c, kind |-> r.kind] \/ (r.kind = "page" /\ f.slot[h] = NULL)
    BY <1>2 DEF MayClose
  <2>3. ASSUME f.slot[h] = [by |-> c, kind |-> r.kind] PROVE OpenedBy(f, h, c)
    <3>1. [by |-> c, kind |-> r.kind] \in Holders
      BY <2>0 DEF Holders
    <3> QED
      BY <2>3, <3>1, NullIsNoSlot DEF OpenedBy
  <2>4. ~st => g.again \subseteq {"page"}
    <3>1. ASSUME ~st PROVE g.again \subseteq {"page"}
      <4>1. f.again \subseteq {"page"}
        BY <3>1 DEF TableFor
      <4>2. CASE OpenedBy(f, h, c)
        BY <2>1, <4>1, <4>2
      <4>3. CASE ~OpenedBy(f, h, c)
        <5>1. r.kind = "page"
          BY <2>2, <2>3, <3>1, <4>3
        <5> QED
          BY <2>1, <4>1, <4>3, <5>1
      <4> QED
        BY <4>2, <4>3
    <3> QED
      BY <3>1
  <2>5. ASSUME NEW d \in Contexts, NEW s \in Slots, d # c
        PROVE  /\ OpenedBy(g, s, d) => g.slot[s] = files.slot[s]
               /\ ~st /\ OpenedBy(files, s, d) => g.slot[s] = files.slot[s]
    <3>1. CASE s # h
      <4>1. g.slot[s] = f.slot[s]
        BY <2>1, <3>1
      <4>2. /\ OpenedBy(f, s, d) => f.slot[s] = files.slot[s]
            /\ ~st /\ OpenedBy(files, s, d) => f.slot[s] = files.slot[s]
        BY <2>5 DEF TableFor
      <4>3. OpenedBy(g, s, d) => OpenedBy(f, s, d)
        BY <4>1 DEF OpenedBy
      <4> QED
        BY <4>1, <4>2, <4>3
    <3>2. CASE s = h
      <4>1. ~OpenedBy(g, s, d)
        BY <2>1, <3>2 DEF OpenedBy
      <4>2. ASSUME ~st, OpenedBy(files, s, d) PROVE FALSE
        <5>1. f.slot[s] = files.slot[s]
          BY <2>5, <4>2 DEF TableFor
        <5>2. f.slot[s] # NULL /\ f.slot[s].by = d
          BY <4>2, <5>1 DEF OpenedBy
        <5> QED
          BY <2>2, <2>5, <3>2, <4>2, <5>2
      <4> QED
        BY <4>1, <4>2
    <3> QED
      BY <3>1, <3>2
  <2> QED
    BY <1>2, <2>1, <2>4, <2>5 DEF TableFor, g
<1> QED
  BY <1>1, <1>2

(* Closing _fileHandle, as ResetHttpContext does, leaves an idle context sound. *)
LEMMA ResetCloses ==
  ASSUME NEW c \in Contexts, NEW r \in Context, NEW f, NEW st,
         Closable(c, r, f, st), TableFor(c, f, st), NEW q, q.fp = NULL, q.file = NULL
  PROVE  /\ Owns(c, q, Close(f, r.file, c, r.kind), st)
         /\ TableFor(c, Close(f, r.file, c, r.kind), st)
<1> DEFINE g == Close(f, r.file, c, r.kind)
<1>1. MayClose(c, r, f, st, r.file)
  <2>1. r.file \in Slots \cup {NULL}
    BY DEF Context
  <2>2. r.file # NULL => r.kind \in Kinds
    BY DEF Closable, Handles, Kinds
  <2> QED
    BY <2>1, <2>2 DEF MayClose, Closable
<1>2. /\ TableFor(c, g, st)
      /\ r.file # NULL => g.slot[r.file] = NULL
      /\ \A t \in Slots : t # r.file => g.slot[t] = f.slot[t]
  BY <1>1, CloseTable
<1> HIDE DEF g
<1>3. NoLeaks(c, q, g)
  <2> SUFFICES ASSUME NEW s \in Slots, OpenedBy(g, s, c), g.slot[s].kind \notin {"cached", "list"}
               PROVE  FALSE
    BY DEF NoLeaks
  <2>1. s # r.file
    BY <1>2, NullIsNoSlot DEF OpenedBy
  <2>2. g.slot[s] = f.slot[s] /\ OpenedBy(f, s, c)
    BY <1>2, <2>1 DEF OpenedBy
  <2> QED
    BY <2>1, <2>2 DEF Closable, NoLeaks
<1>4. Owns(c, q, g, st)
  BY <1>3, NullIsNoSlot DEF Owns
<1> QED
  BY <1>2, <1>4 DEF g

(* Closing _fp, or forgetting it, leaves a context that can still be closed. *)
LEMMA FpCloses ==
  ASSUME NEW c \in Contexts, NEW r \in Context, NEW f, NEW st,
         Closable(c, r, f, st), TableFor(c, f, st),
         NEW g, g = f \/ g = Close(f, r.fp, c, r.kind)
  PROVE  /\ [r EXCEPT !.fp = NULL] \in Context
         /\ Closable(c, [r EXCEPT !.fp = NULL], g, st)
         /\ TableFor(c, g, st)
<1> DEFINE q == [r EXCEPT !.fp = NULL]
<1>q. q \in Context /\ q.fp = NULL /\ q.file = r.file /\ q.kind = r.kind
  BY DEF Context
<1> HIDE DEF q
<1>h. Handles(q)
  BY <1>q DEF Closable, Handles
<1>s. r.fp \in Slots \cup {NULL} /\ r.file \in Slots \cup {NULL}
  BY DEF Context
<1>1. CASE g = f
  <2>1. NoLeaks(c, q, g)
    BY <1>1, <1>q DEF Closable, NoLeaks
  <2>2. Closable(c, q, g, st)
    BY <1>1, <1>q, <1>h, <2>1, NullIsNoSlot DEF Closable
  <2> QED
    BY <1>1, <1>q, <2>2 DEF q
<1>2. CASE g = Close(f, r.fp, c, r.kind) /\ r.fp # NULL
  <2>1. MayClose(c, r, f, st, r.fp)
    <3>1. r.kind \in Kinds
      BY <1>2 DEF Closable, Handles, Kinds
    <3> QED
      BY <1>s, <3>1 DEF MayClose, Closable
  <2>2. /\ TableFor(c, g, st)
        /\ g.slot[r.fp] = NULL
        /\ \A t \in Slots : t # r.fp => g.slot[t] = f.slot[t]
    BY <1>2, <2>1, CloseTable
  <2>3. NoLeaks(c, q, g)
    <3> SUFFICES ASSUME NEW s \in Slots, OpenedBy(g, s, c), g.slot[s].kind \notin {"cached", "list"}
                 PROVE  s = r.file
      BY <1>q DEF NoLeaks
    <3>1. s # r.fp
      BY <2>2 DEF OpenedBy
    <3>2. g.slot[s] = f.slot[s] /\ OpenedBy(f, s, c)
      BY <2>2, <3>1 DEF OpenedBy
    <3> QED
      BY <3>2 DEF Closable, NoLeaks
  <2>4. ASSUME ~st, NEW s \in Slots, s \in {q.fp, q.file}
        PROVE  g.slot[s] = [by |-> c, kind |-> q.kind] \/ (q.kind = "page" /\ g.slot[s] = NULL)
    <3>1. s = r.file
      BY <1>q, <2>4, NullIsNoSlot
    <3>2. CASE s = r.fp
      <4>1. r.kind = "page"
        BY <1>2, <3>1, <3>2, NullIsNoSlot DEF Closable, Handles
      <4> QED
        BY <1>q, <2>2, <3>2, <4>1
    <3>3. CASE s # r.fp
      <4>1. g.slot[s] = f.slot[s]
        BY <2>2, <3>3
      <4>2. f.slot[s] = [by |-> c, kind |-> r.kind] \/ (r.kind = "page" /\ f.slot[s] = NULL)
        BY <2>4, <3>1 DEF Closable
      <4> QED
        BY <1>q, <4>1, <4>2
    <3> QED
      BY <3>2, <3>3
  <2>5. Closable(c, q, g, st)
    BY <1>h, <2>3, <2>4 DEF Closable
  <2> QED
    BY <1>q, <2>2, <2>5 DEF q
<1> QED
  BY <1>1, <1>2, CloseNull

(* Closing all that c holds, as FreeHttpContext does, leaves an idle context sound. *)
LEMMA FreeCloses ==
  ASSUME NEW c \in Contexts, NEW r \in Context, NEW f, NEW st,
         Closable(c, r, f, st), TableFor(c, f, st), NEW q, q.fp = NULL, q.file = NULL
  PROVE  /\ Owns(c, q, Close(CGI_Finish(c, r, f), r.file, c, r.kind), st)
         /\ TableFor(c, Close(CGI_Finish(c, r, f), r.file, c, r.kind), st)
<1> DEFINE g == CGI_Finish(c, r, f)
           p == [r EXCEPT !.fp = NULL]
<1>1. g = f \/ g = Close(f, r.fp, c, r.kind)
  BY DEF CGI_Finish
<1>2. p.file = r.file /\ p.kind = r.kind
  BY DEF Context
<1> HIDE DEF g
<1>3. p \in Context /\ Closable(c, p, g, st) /\ TableFor(c, g, st)
  BY <1>1, FpCloses
<1> HIDE DEF p
<1>4. /\ Owns(c, q, Close(g, p.file, c, p.kind), st)
      /\ TableFor(c, Close(g, p.file, c, p.kind), st)
  BY <1>3, ResetCloses
<1> QED
  BY <1>2, <1>4 DEF g

(* The upload that context c leaves behind. *)
LEMMA UploadKept ==
  ASSUME CoreInv, NEW c \in Contexts
  PROVE  /\ upload[c] \in Uploads
         /\ UNCHANGED upload => upload' = [upload EXCEPT ![c] = upload[c]]
         /\ CGI_Cancel(c) => \E u \in Uploads : u # "receiving" /\ upload' = [upload EXCEPT ![c] = u]
<1>1. upload \in [Contexts -> Uploads]
  BY DEF CoreInv, CoreTypes
<1>2. CGI_Cancel(c) => \E u \in Uploads : u # "receiving" /\ upload' = [upload EXCEPT ![c] = u]
  <2> DEFINE u == IF upload[c] = "receiving" THEN "cancelled" ELSE upload[c]
  <2>1. u \in Uploads /\ u # "receiving"
    BY <1>1 DEF Uploads
  <2>2. CGI_Cancel(c) => upload' = [upload EXCEPT ![c] = u]
    BY DEF CGI_Cancel
  <2> QED
    BY <2>1, <2>2
<1> QED
  BY <1>1, <1>2

(* The callback returns. *)
LEMMA GoOnOutcome ==
  ASSUME CoreInv, NEW c \in Contexts, ctxPcb[c] # NULL, NEW r, NEW f, Ready(c, r, f),
         Owns(c, r, f, stored'), Shape(r), NEW u \in Uploads, upload' = [upload EXCEPT ![c] = u],
         u = "receiving" <=> r.state = "BODY_RECEIVING",
         GoOn(c, r, f)
  PROVE  Outcome(c)
<1>1. req' = [req EXCEPT ![c] = r] /\ files' = f /\ ctxPcb' = ctxPcb
  BY DEF GoOn, binding
<1> QED
  BY <1>1 DEF Outcome, Ready

(* The context is closed. *)
LEMMA CloseOutcome ==
  ASSUME CoreInv, NEW c \in Contexts, ctxPcb[c] # NULL, NEW r, NEW f, Ready(c, r, f),
         NEW u \in Uploads, upload' = [upload EXCEPT ![c] = u], u # "receiving",
         NEW x \in BOOLEAN, FreeHttpContext(c, [r EXCEPT !.fin = x], f)
  PROVE  Outcome(c)
<1> DEFINE q == [r EXCEPT !.fin = x]
<1>1. q \in Context /\ q.fp = r.fp /\ q.file = r.file /\ q.fin = x /\ q.kind = r.kind
  BY DEF Ready, Context
<1>2. /\ req' = [req EXCEPT ![c] = Idle(x, NULL)]
      /\ files' = Close(CGI_Finish(c, q, f), q.file, c, q.kind)
      /\ ctxPcb' = [ctxPcb EXCEPT ![c] = NULL]
  BY <1>1 DEF FreeHttpContext
<1> HIDE DEF q
<1>3. /\ Idle(x, NULL) \in Context
      /\ Idle(x, NULL).state = "IDLE" /\ Idle(x, NULL).fp = NULL /\ Idle(x, NULL).file = NULL
      /\ Idle(x, NULL).fin = x /\ Shape(Idle(x, NULL))
  BY IdleFields
<1>4. /\ Owns(c, Idle(x, NULL), files', stored')
      /\ TableFor(c, files', stored')
      /\ Flags
  <2>1. Flags
    BY DEF Ready
  <2>2. Closable(c, q, f, stored') /\ TableFor(c, f, stored')
    BY <1>1 DEF Ready, Closable, Handles, NoLeaks
  <2> QED
    BY <1>1, <1>2, <1>3, <2>1, <2>2, FreeCloses
<1>5. \A d \in Contexts : d # c => ctxPcb'[d] = ctxPcb[d]
  BY <1>2 DEF CoreInv, BindingInv, BindingType
<1>6. Idle(x, NULL) = Idle(Idle(x, NULL).fin, NULL)
  BY <1>3
<1> QED
  BY <1>2, <1>3, <1>4, <1>5, <1>6 DEF Outcome

(* CloseHttpContext, whether altcp_close succeeds or not. *)
LEMMA CloseHttpContextOutcome ==
  ASSUME CoreInv, NEW c \in Contexts, ctxPcb[c] # NULL, NEW r, NEW f, Ready(c, r, f),
         NEW u \in Uploads, upload' = [upload EXCEPT ![c] = u], u # "receiving",
         CloseHttpContext(c, r, f)
  PROVE  Outcome(c)
<1>1. r.fin \in BOOLEAN /\ [r EXCEPT !.fin = r.fin] = r
  BY DEF Ready, Context
<1>2. CASE FreeHttpContext(c, [r EXCEPT !.fin = FALSE], f)
  BY <1>2, CloseOutcome
<1>3. CASE FreeHttpContext(c, r, f)
  <2>1. FreeHttpContext(c, [r EXCEPT !.fin = r.fin], f)
    BY <1>1, <1>3
  <2> QED
    BY <1>1, <2>1, CloseOutcome
<1> QED
  BY <1>2, <1>3 DEF CloseHttpContext

(* A request ends: its context is reset, or closed. *)
LEMMA RequestEndOutcome ==
  ASSUME CoreInv, NEW c \in Contexts, ctxPcb[c] # NULL, NEW r, NEW f, Ready(c, r, f),
         r.inbox \in HeaderUnits \cup {NULL},
         NEW u \in Uploads, upload' = [upload EXCEPT ![c] = u], u # "receiving",
         RequestEnd(c, r, f)
  PROVE  Outcome(c)
<1>1. CASE CloseHttpContext(c, r, f)
  BY <1>1, CloseHttpContextOutcome
<1>2. CASE ResetHttpContext(c, r, f)
  <2> DEFINE q == Idle(r.fin, r.inbox)
  <2>1. req' = [req EXCEPT ![c] = q] /\ files' = Close(f, r.file, c, r.kind) /\ ctxPcb' = ctxPcb
    BY <1>2 DEF ResetHttpContext, binding
  <2>2. q \in Context /\ q.state = "IDLE" /\ q.fp = NULL /\ q.file = NULL /\ Shape(q)
    <3>1. r.fin \in BOOLEAN
      BY DEF Ready, Context
    <3> QED
      BY <3>1, IdleFields
  <2> HIDE DEF q
  <2>3. /\ Owns(c, q, files', stored')
        /\ TableFor(c, files', stored')
        /\ Flags
    <3>1. Flags
      BY DEF Ready
    <3>2. r \in Context /\ Closable(c, r, f, stored') /\ TableFor(c, f, stored')
      BY DEF Ready
    <3> QED
      BY <2>1, <2>2, <3>1, <3>2, ResetCloses
  <2> QED
    BY <2>1, <2>2, <2>3 DEF Outcome
<1> QED
  BY <1>1, <1>2 DEF RequestEnd

(* A request is given up: the handler is told, the context is closed. *)
LEMMA AbortOutcome ==
  ASSUME CoreInv, NEW c \in Contexts, ctxPcb[c] # NULL, NEW r, NEW f, Ready(c, r, f),
         Abort(c, r, f)
  PROVE  Outcome(c)
<1>1. PICK u \in Uploads : u # "receiving" /\ upload' = [upload EXCEPT ![c] = u]
  BY UploadKept DEF Abort
<1> QED
  BY <1>1, CloseHttpContextOutcome DEF Abort

-----------------------------------------------------------------------------
(***************************************************************************)
(* The callbacks.  Each starts with its context as it is, up to the unit   *)
(* that waits, the peer's FIN and the timeout.                             *)
(***************************************************************************)

Started(c, r) ==
  /\ r \in Context /\ Shape(r)
  /\ r.state = req[c].state /\ r.kind = req[c].kind
  /\ r.fp = req[c].fp /\ r.file = req[c].file

(* Steps that leave the history alone. *)
LEMMA SameFlags ==
  ASSUME CoreInv, UNCHANGED stored
  PROVE  Flags
BY DEF CoreInv, CoreTypes, Flags

(* A context with the handles of c, for the same request or without any. *)
SameRequest(c, r) ==
  /\ r \in Context
  /\ r.fp = req[c].fp /\ r.file = req[c].file
  /\ r.kind = req[c].kind \/ (r.fp = NULL /\ r.file = NULL)

(* Such a context holds what c holds. *)
LEMMA SameHandles ==
  ASSUME CoreInv, NEW c \in Contexts, NEW r, SameRequest(c, r), Flags
  PROVE  Handles(r) /\ Ready(c, r, files) /\ Owns(c, r, files, stored')
<1>0. Shape(req[c]) /\ Owns(c, req[c], files, stored)
  BY DEF CoreInv, ContextsSound
<1>1. Handles(r)
  BY <1>0 DEF Shape, Handles, SameRequest
<1>2. NoLeaks(c, r, files)
  BY <1>0 DEF Owns, NoLeaks, SameRequest
<1>3. Owns(c, r, files, stored')
  BY <1>0, <1>2, NullIsNoSlot DEF Owns, Flags, SameRequest
<1>4. TableFor(c, files, stored')
  BY DEF CoreInv, CoreTypes, TableFor, OnlyPagesCloseTwice, Flags
<1> QED
  BY <1>1, <1>3, <1>4, OwnsClosable DEF Ready, SameRequest

(* A context goes on, with the files and the upload it has. *)
LEMMA PlainGoOn ==
  ASSUME CoreInv, NEW c \in Contexts, ctxPcb[c] # NULL, NEW r, SameRequest(c, r), Shape(r),
         r.state = "BODY_RECEIVING" <=> req[c].state = "BODY_RECEIVING",
         GoOn(c, r, files), UNCHANGED <<upload, stored>>
  PROVE  Outcome(c)
<1>1. Flags
  BY SameFlags
<1>2. Ready(c, r, files) /\ Owns(c, r, files, stored')
  BY <1>1, SameHandles
<1>3. upload[c] \in Uploads /\ upload' = [upload EXCEPT ![c] = upload[c]]
  BY UploadKept
<1>4. upload[c] = "receiving" <=> r.state = "BODY_RECEIVING"
  BY DEF CoreInv, UploadsAreSettled
<1> QED
  BY <1>2, <1>3, <1>4, GoOnOutcome

(* A request with the handles of c is given up. *)
LEMMA PlainAbort ==
  ASSUME CoreInv, NEW c \in Contexts, ctxPcb[c] # NULL, NEW r, SameRequest(c, r),
         Abort(c, r, files)
  PROVE  Outcome(c)
<1>1. Flags
  BY SameFlags DEF Abort
<1> QED
  BY <1>1, SameHandles, AbortOutcome

LEMMA WaitsOutcome ==
  ASSUME CoreInv, NEW c \in Contexts, ctxPcb[c] # NULL, NEW r, SameRequest(c, r), Shape(r),
         r.state = "BODY_RECEIVING" <=> req[c].state = "BODY_RECEIVING",
         Waits(c, r, files)
  PROVE  Outcome(c)
<1>1. CASE r.fin
  BY <1>1, PlainAbort DEF Waits
<1>2. CASE ~r.fin
  BY <1>2, PlainGoOn DEF Waits
<1> QED
  BY <1>1, <1>2

(* The response begins, for a request that is no upload any more. *)
LEMMA RespondOutcome ==
  ASSUME CoreInv, NEW c \in Contexts, ctxPcb[c] # NULL, NEW r, NEW f, Ready(c, r, f),
         Owns(c, r, f, stored'),
         r.inbox \in HeaderUnits \cup {NULL},
         NEW u \in Uploads, upload' = [upload EXCEPT ![c] = u], u # "receiving",
         Respond(c, r, f)
  PROVE  Outcome(c)
<1>1. CASE RequestEnd(c, r, f)
  BY <1>1, RequestEndOutcome
<1>2. ASSUME NEW room \in BOOLEAN,
             GoOn(c, [r EXCEPT !.state = "SENDING_HEADER", !.stale = FALSE, !.room = room], f)
      PROVE  Outcome(c)
  <2> DEFINE q == [r EXCEPT !.state = "SENDING_HEADER", !.stale = FALSE, !.room = room]
  <2>1. r \in Context
    BY DEF Ready
  <2>2. /\ q \in Context /\ q.state = "SENDING_HEADER" /\ q.kind = r.kind
        /\ q.fp = r.fp /\ q.file = r.file /\ q.inbox = r.inbox
    BY <2>1 DEF Context, States
  <2>g. GoOn(c, q, f)
    BY <1>2
  <2> HIDE DEF q
  <2>3. Shape(q)
    BY <2>2 DEF Shape, Handles, Ready, Closable
  <2>4. Ready(c, q, f) /\ Owns(c, q, f, stored')
    BY <2>2 DEF Ready, Owns, Closable, Handles, NoLeaks
  <2> QED
    BY <2>g, <2>2, <2>3, <2>4, GoOnOutcome
<1> QED
  BY <1>1, <1>2 DEF Respond

(* WEB_fopen and WEB_firstdir give c a slot that nobody has. *)
LEMMA OpensSound ==
  ASSUME CoreInv, NEW c \in Contexts, NEW s \in Slots, files.slot[s] = NULL, Flags,
         req[c].file = NULL,
         NEW r \in Context, Handles(r), r.kind \in Kinds,
         r.fp \in {NULL, s}, r.file \in {NULL, s},
         r.kind \in {"cached", "list"} \/ r.file = s
  PROVE  /\ Ready(c, r, Taken(files, s, c, r.kind))
         /\ Owns(c, r, Taken(files, s, c, r.kind), stored')
<1> DEFINE f == Taken(files, s, c, r.kind)
<1>n. NULL \notin Slots /\ NULL \notin Holders
  BY NullIsNoSlot
<1>1. /\ f \in FileTable /\ f.slot[s] = [by |-> c, kind |-> r.kind]
      /\ \A t \in Slots : t # s => f.slot[t] = files.slot[t]
      /\ f.again = files.again
  BY TakenFields DEF CoreInv, CoreTypes
<1> HIDE DEF f
<1>2. TableFor(c, f, stored')
  <2>1. ASSUME NEW d \in Contexts, NEW t \in Slots, d # c
        PROVE  /\ OpenedBy(f, t, d) => f.slot[t] = files.slot[t]
               /\ OpenedBy(files, t, d) => f.slot[t] = files.slot[t]
    <3>1. CASE t = s
      BY <1>1, <2>1, <3>1 DEF OpenedBy
    <3> QED
      BY <1>1, <3>1
  <2>2. ~stored' => f.again \subseteq {"page"}
    BY <1>1 DEF CoreInv, OnlyPagesCloseTwice, Flags
  <2> QED
    BY <1>1, <2>1, <2>2 DEF TableFor
<1>3. NoLeaks(c, r, f)
  <2> SUFFICES ASSUME NEW t \in Slots, OpenedBy(f, t, c), f.slot[t].kind \notin {"cached", "list"}
               PROVE  t = r.file
    BY DEF NoLeaks
  <2>1. CASE t = s
    BY <1>1, <2>1
  <2>2. CASE t # s
    <3>1. OpenedBy(files, t, c) /\ files.slot[t].kind \notin {"cached", "list"}
      BY <1>1, <2>2 DEF OpenedBy
    <3>2. t = req[c].file
      BY <3>1 DEF CoreInv, ContextsSound, Owns, NoLeaks
    <3> QED
      BY <1>n, <3>2
  <2> QED
    BY <2>1, <2>2
<1>4. Owns(c, r, f, stored')
  BY <1>n, <1>1, <1>3 DEF Owns
<1> QED
  BY <1>2, <1>4, OwnsClosable DEF Ready, f

(* The header is complete. *)
LEMMA HeadersOutcome ==
  ASSUME CoreInv, NEW c \in Contexts, ctxPcb[c] # NULL, NEW r \in Context,
         req[c].fp = NULL, req[c].file = NULL, req[c].state # "BODY_RECEIVING",
         r.fp = NULL, r.file = NULL, r.inbox = NULL, HeadersReceived(c, r)
  PROVE  Outcome(c)
<1>u. /\ upload[c] \in Uploads /\ upload[c] # "receiving"
      /\ UNCHANGED upload => upload' = [upload EXCEPT ![c] = upload[c]]
  BY UploadKept DEF CoreInv, UploadsAreSettled
<1>f. UNCHANGED stored => Flags
  BY SameFlags
<1>s. SameRequest(c, r)
  BY DEF SameRequest
<1>1. CASE r.kind \in {"page", "cached"} /\ OpenPage(c, r) /\ UNCHANGED <<upload, stored>>
  <2>1. ASSUME NEW s \in Slots, Opens(files, s),
               Respond(c, [r EXCEPT !.fp = s, !.file = IF r.kind = "page" THEN s ELSE NULL],
                       Taken(files, s, c, r.kind))
        PROVE  Outcome(c)
    <3> DEFINE q == [r EXCEPT !.fp = s, !.file = IF r.kind = "page" THEN s ELSE NULL]
               f == Taken(files, s, c, q.kind)
    <3>1. Flags /\ files.slot[s] = NULL
      BY <1>1, <1>f, <2>1 DEF Opens
    <3>2. /\ q \in Context /\ q.fp = s /\ (q.file = IF r.kind = "page" THEN s ELSE NULL)
          /\ q.kind = r.kind /\ q.inbox = NULL
      BY DEF Context
    <3>g. Respond(c, q, f)
      BY <2>1, <3>2
    <3> HIDE DEF q
    <3>3. Handles(q) /\ q.kind \in Kinds /\ (q.kind \in {"cached", "list"} \/ q.file = s)
      BY <1>1, <3>2 DEF Handles, Kinds
    <3>4. Ready(c, q, f) /\ Owns(c, q, f, stored')
      BY <2>1, <3>1, <3>2, <3>3, OpensSound
    <3> HIDE DEF f
    <3> QED
      BY <1>u, <1>1, <3>g, <3>2, <3>4, RespondOutcome
  <2>2. ASSUME Respond(c, [r EXCEPT !.kind = "missing"], files)
        PROVE  Outcome(c)
    <3> DEFINE q == [r EXCEPT !.kind = "missing"]
    <3>1. /\ q \in Context /\ q.fp = NULL /\ q.file = NULL /\ q.kind = "missing"
          /\ q.inbox = NULL
      BY DEF Context, Kinds
    <3>g. Respond(c, q, files)
      BY <2>2
    <3> HIDE DEF q
    <3>2. Ready(c, q, files) /\ Owns(c, q, files, stored')
      BY <1>f, <1>1, <3>1, SameHandles DEF SameRequest
    <3> QED
      BY <1>u, <1>1, <3>g, <3>1, <3>2, RespondOutcome
  <2> QED
    BY <1>1, <2>1, <2>2 DEF OpenPage
<1>2. CASE Respond(c, r, files) /\ UNCHANGED <<upload, stored>>
  <2>1. Ready(c, r, files) /\ Owns(c, r, files, stored')
    BY <1>f, <1>2, <1>s, SameHandles
  <2> QED
    BY <1>u, <1>2, <2>1, RespondOutcome
<1>3. CASE r.kind = "redirect" /\ RequestEnd(c, r, files) /\ UNCHANGED <<upload, stored>>
  <2>1. Ready(c, r, files)
    BY <1>f, <1>3, <1>s, SameHandles
  <2> QED
    BY <1>u, <1>3, <2>1, RequestEndOutcome
<1>4. CASE r.kind = "upload" /\ StartUpload(c, r)
  <2>1. ASSUME NEW s \in Slots, Opens(files, s),
               GoOn(c, [r EXCEPT !.state = "BODY_RECEIVING", !.file = s],
                    Taken(files, s, c, r.kind)),
               upload' = [upload EXCEPT ![c] = "receiving"], UNCHANGED stored
        PROVE  Outcome(c)
    <3> DEFINE q == [r EXCEPT !.state = "BODY_RECEIVING", !.file = s]
               f == Taken(files, s, c, q.kind)
    <3>1. /\ q \in Context /\ q.fp = NULL /\ q.file = s /\ q.state = "BODY_RECEIVING"
          /\ q.inbox = NULL /\ q.kind = r.kind
      BY DEF Context, States
    <3>g. GoOn(c, q, f)
      BY <2>1, <3>1
    <3> HIDE DEF q
    <3>2. Handles(q) /\ q.kind \in Kinds
      BY <1>4, <3>1 DEF Handles, Kinds
    <3>3. Ready(c, q, f) /\ Owns(c, q, f, stored')
      BY <1>f, <2>1, <3>1, <3>2, OpensSound DEF Opens
    <3> HIDE DEF f
    <3>4. Shape(q)
      BY <3>1, <3>2 DEF Shape
    <3>5. "receiving" \in Uploads
      BY DEF Uploads
    <3> QED
      BY <2>1, <3>g, <3>1, <3>3, <3>4, <3>5, GoOnOutcome
  <2>2. CASE Abort(c, r, files)
    BY <2>2, <1>s, PlainAbort
  <2> QED
    BY <1>4, <2>1, <2>2 DEF StartUpload
<1>5. CASE Abort(c, r, files)
  BY <1>5, <1>s, PlainAbort
<1> QED
  BY <1>1, <1>2, <1>3, <1>4, <1>5 DEF HeadersReceived

(* The upload is complete: its slot is free, its handle is kept. *)
LEMMA AllReceivedOutcome ==
  ASSUME CoreInv, NEW c \in Contexts, ctxPcb[c] # NULL, NEW r, SameRequest(c, r),
         r.file \in Slots, r.inbox = NULL, AllReceived(c, r)
  PROVE  Outcome(c)
<1> DEFINE f == Close(files, r.file, c, r.kind)
<1>1. Flags /\ stored' = TRUE
  BY DEF CoreInv, CoreTypes, Flags, AllReceived
<1>2. /\ Handles(r) /\ Owns(c, r, files, stored') /\ TableFor(c, files, stored')
      /\ Closable(c, r, files, stored')
  BY <1>1, SameHandles DEF Ready
<1>3. MayClose(c, r, files, stored', r.file)
  BY <1>1, <1>2, NullIsNoSlot DEF MayClose, SameRequest, Handles, Kinds
<1>4. /\ TableFor(c, f, stored')
      /\ r.file # NULL => f.slot[r.file] = NULL
      /\ \A t \in Slots : t # r.file => f.slot[t] = files.slot[t]
  BY <1>2, <1>3, CloseTable
<1>g. Respond(c, r, f) /\ upload' = [upload EXCEPT ![c] = "stored"]
  BY DEF AllReceived
<1> HIDE DEF f
<1>5. NoLeaks(c, r, f)
  BY <1>2, <1>4 DEF Owns, NoLeaks, OpenedBy
<1>6. Owns(c, r, f, stored')
  BY <1>1, <1>5 DEF Owns
<1>7. Ready(c, r, f)
  BY <1>1, <1>2, <1>4, <1>6, OwnsClosable DEF Ready, SameRequest
<1>8. "stored" \in Uploads
  BY DEF Uploads
<1> QED
  BY <1>g, <1>6, <1>7, <1>8, RespondOutcome

(* The units are told apart. *)
LEMMA UnitsDiffer ==
  /\ \A u \in BodyUnits : u \notin HeaderUnits /\ u # NULL
  /\ \A u \in HeaderUnits : u # NULL
  /\ \A u \in HeaderUnits \ {Part} : u.kind \in Kinds /\ u.keep \in BOOLEAN
  /\ Part \in HeaderUnits /\ Body \in BodyUnits /\ Last \in BodyUnits
<1>1. \A u \in HeaderUnits : u.type \in {"part", "head"}
  BY DEF HeaderUnits, Part, Header
<1>2. \A u \in BodyUnits : u.type \in {"body", "last"}
  BY DEF BodyUnits, Body, Last
<1>3. \A u \in HeaderUnits \ {Part} : u.kind \in Kinds /\ u.keep \in BOOLEAN
  <2> SUFFICES ASSUME NEW q \in Requests
               PROVE  Header(q[1], q[2]).kind \in Kinds /\ Header(q[1], q[2]).keep \in BOOLEAN
    BY DEF HeaderUnits
  <2>1. q[1] \in Kinds /\ q[2] \in BOOLEAN
    BY RequestsAssumption
  <2> QED
    BY <2>1 DEF Header
<1>4. Part \in HeaderUnits /\ Body \in BodyUnits /\ Last \in BodyUnits
  BY DEF HeaderUnits, BodyUnits
<1> QED
  BY <1>1, <1>2, <1>3, <1>4, NullAssumption

(* The parsing loop. *)
LEMMA ParseOutcome ==
  ASSUME CoreInv, NEW c \in Contexts, ctxPcb[c] # NULL, NEW r, Started(c, r), Receiving(r),
         Parse(c, r)
  PROVE  Outcome(c)
<1> DEFINE u == r.inbox
           taken == [r EXCEPT !.inbox = NULL, !.stale = FALSE]
<1>s. /\ r \in Context /\ Shape(r) /\ SameRequest(c, r)
      /\ r.state = req[c].state /\ r.kind = req[c].kind
      /\ r.fp = req[c].fp /\ r.file = req[c].file
  BY DEF Started, SameRequest
<1>t. /\ taken \in Context /\ taken.state = r.state /\ taken.fp = r.fp /\ taken.file = r.file
      /\ taken.inbox = NULL /\ taken.kind = r.kind
  BY <1>s DEF Context
<1>i. /\ u \in HeaderUnits => r.state \in {"IDLE", "HEADER_RECEIVING"}
      /\ u \in BodyUnits => r.state = "BODY_RECEIVING"
  BY <1>s, UnitsDiffer DEF Shape, Receiving
<1>p. \/ u = NULL /\ Waits(c, r, files)
      \/ u = Part /\ Waits(c, [taken EXCEPT !.state = "HEADER_RECEIVING"], files)
      \/ /\ u \in HeaderUnits \ {Part}
         /\ HeadersReceived(c, [taken EXCEPT !.kind = u.kind, !.keep = u.keep])
      \/ u = Body /\ Waits(c, taken, files)
      \/ u = Last /\ AllReceived(c, taken)
      \/ u \in BodyUnits /\ Waits(c, r, files)
  BY DEF Parse
<1> HIDE DEF u, taken
<1>1. CASE Waits(c, r, files)
  BY <1>1, <1>s, WaitsOutcome
<1>2. CASE u = Part /\ Waits(c, [taken EXCEPT !.state = "HEADER_RECEIVING"], files)
  <2> DEFINE q == [taken EXCEPT !.state = "HEADER_RECEIVING"]
  <2>1. /\ q \in Context /\ q.state = "HEADER_RECEIVING" /\ q.fp = taken.fp
        /\ q.file = taken.file /\ q.inbox = NULL /\ q.kind = taken.kind
    BY <1>t DEF Context, States
  <2>2. r.state \in {"IDLE", "HEADER_RECEIVING"}
    BY <1>2, <1>i, UnitsDiffer
  <2>g. Waits(c, q, files)
    BY <1>2
  <2> HIDE DEF q
  <2>3. Shape(q) /\ SameRequest(c, q)
    BY <1>s, <1>t, <2>1, <2>2 DEF Shape, Handles, SameRequest
  <2> QED
    BY <1>s, <1>t, <2>g, <2>1, <2>2, <2>3, WaitsOutcome
<1>3. CASE /\ u \in HeaderUnits \ {Part}
           /\ HeadersReceived(c, [taken EXCEPT !.kind = u.kind, !.keep = u.keep])
  <2> DEFINE q == [taken EXCEPT !.kind = u.kind, !.keep = u.keep]
  <2>1. u.kind \in Kinds /\ u.keep \in BOOLEAN
    BY <1>3, UnitsDiffer
  <2>2. q \in Context /\ q.fp = taken.fp /\ q.file = taken.file /\ q.inbox = NULL
    BY <1>t, <2>1 DEF Context
  <2>3. r.state \in {"IDLE", "HEADER_RECEIVING"} /\ r.fp = NULL /\ r.file = NULL
    BY <1>3, <1>i, <1>s DEF Shape
  <2>g. HeadersReceived(c, q)
    BY <1>3
  <2> HIDE DEF q
  <2> QED
    BY <1>s, <1>t, <2>g, <2>2, <2>3, HeadersOutcome
<1>4. CASE Waits(c, taken, files)
  <2>1. Shape(taken) /\ SameRequest(c, taken)
    BY <1>s, <1>t DEF Shape, Handles, SameRequest
  <2> QED
    BY <1>4, <1>s, <1>t, <2>1, WaitsOutcome
<1>5. CASE u = Last /\ AllReceived(c, taken)
  <2>1. r.state = "BODY_RECEIVING" /\ r.file \in Slots
    BY <1>5, <1>i, <1>s, UnitsDiffer DEF Shape
  <2>2. SameRequest(c, taken)
    BY <1>s, <1>t DEF SameRequest
  <2> QED
    BY <1>5, <1>s, <1>t, <2>1, <2>2, AllReceivedOutcome
<1> QED
  BY <1>p, <1>1, <1>2, <1>3, <1>4, <1>5

(***************************************************************************)
(* A read of the body leaves context x[1] and table x[2]: the search of a  *)
(* list may have begun, gone on or ended.                                  *)
(***************************************************************************)
AfterRead(c, r, x) ==
  /\ Ready(c, x[1], x[2]) /\ Owns(c, x[1], x[2], stored')
  /\ x[1].inbox = r.inbox /\ x[1].state = r.state

(* The search of a list begins. *)
LEMMA FirstReadSound ==
  ASSUME CoreInv, NEW c \in Contexts, NEW r, SameRequest(c, r), r.kind = "list",
         r.kind = req[c].kind, Flags, NEW x \in FirstRead(c, r, files)
  PROVE  AfterRead(c, r, x)
<1>h. Handles(r) /\ Ready(c, r, files) /\ Owns(c, r, files, stored')
  BY SameHandles
<1>1. CASE x = <<r, files>>
  BY <1>1, <1>h DEF AfterRead
<1>2. CASE x # <<r, files>>
  <2>1. PICK s \in Slots : /\ Opens(files, s)
                           /\ x = <<[r EXCEPT !.fp = s], Taken(files, s, c, r.kind)>>
    BY <1>2 DEF FirstRead
  <2> DEFINE q == [r EXCEPT !.fp = s]
             f == Taken(files, s, c, q.kind)
  <2>2. /\ q \in Context /\ q.fp = s /\ q.file = r.file /\ q.kind = r.kind
        /\ q.inbox = r.inbox /\ q.state = r.state
    BY DEF Context, SameRequest
  <2>3. x[1] = q /\ x[2] = f
    BY <2>1, <2>2
  <2> HIDE DEF q
  <2>4. r.file = NULL /\ req[c].file = NULL
    BY <1>h DEF Handles, SameRequest
  <2>5. Handles(q) /\ q.kind \in Kinds
    BY <2>2, <2>4 DEF Handles, Kinds
  <2>6. Ready(c, q, f) /\ Owns(c, q, f, stored')
    BY <2>1, <2>2, <2>4, <2>5, OpensSound DEF Opens
  <2> HIDE DEF f
  <2> QED
    BY <2>2, <2>3, <2>6 DEF AfterRead
<1> QED
  BY <1>1, <1>2

(* The search of a list goes on, or ends. *)
LEMMA NextReadSound ==
  ASSUME CoreInv, NEW c \in Contexts, NEW r, SameRequest(c, r), r.kind = req[c].kind,
         Flags, NEW x \in NextRead(c, r, files)
  PROVE  AfterRead(c, r, x)
<1>h. Handles(r) /\ Ready(c, r, files) /\ Owns(c, r, files, stored')
  BY SameHandles
<1>1. CASE x = <<r, files>>
  BY <1>1, <1>h DEF AfterRead
<1>2. CASE x # <<r, files>>
  <2> DEFINE g == Taken(files, r.fp, c, r.kind)
             q == [r EXCEPT !.fp = NULL]
  <2>1. /\ r.kind = "list" /\ r.fp # NULL
        /\ x = <<r, g>> \/ x = <<q, Close(g, r.fp, c, r.kind)>>
    BY <1>2 DEF NextRead
  <2>2. r \in Context /\ r.fp \in Slots /\ r.kind \in Kinds /\ r.file = NULL
    BY <1>h, <2>1 DEF SameRequest, Context, Handles, Kinds
  <2>3. /\ g \in FileTable /\ g.slot[r.fp] = [by |-> c, kind |-> r.kind]
        /\ \A t \in Slots : t # r.fp => g.slot[t] = files.slot[t]
        /\ g.again = files.again
    BY <2>2, TakenFields DEF CoreInv, CoreTypes
  <2>q. /\ q \in Context /\ q.fp = NULL /\ q.file = r.file /\ q.kind = r.kind
        /\ q.inbox = r.inbox /\ q.state = r.state
    BY <2>2 DEF Context
  <2> HIDE DEF g
  <2>4. TableFor(c, g, stored')
    <3>1. ~stored' => files.slot[r.fp] = [by |-> c, kind |-> r.kind]
      BY <1>h, <2>2 DEF Owns
    <3>2. ASSUME NEW d \in Contexts, NEW t \in Slots, d # c
          PROVE  /\ OpenedBy(g, t, d) => g.slot[t] = files.slot[t]
                 /\ ~stored' /\ OpenedBy(files, t, d) => g.slot[t] = files.slot[t]
      <4>1. CASE t = r.fp
        BY <2>3, <3>1, <3>2, <4>1 DEF OpenedBy
      <4> QED
        BY <2>3, <4>1
    <3>3. ~stored' => g.again \subseteq {"page"}
      BY <2>3 DEF CoreInv, OnlyPagesCloseTwice, Flags
    <3> QED
      BY <2>3, <3>2, <3>3 DEF TableFor
  <2>5. NoLeaks(c, r, g)
    <3> SUFFICES ASSUME NEW t \in Slots, OpenedBy(g, t, c), g.slot[t].kind \notin {"cached", "list"}
                 PROVE  t = r.file
      BY DEF NoLeaks
    <3>1. t # r.fp
      BY <2>1, <2>3
    <3>2. OpenedBy(files, t, c) /\ files.slot[t].kind \notin {"cached", "list"}
      BY <2>3, <3>1 DEF OpenedBy
    <3> QED
      BY <1>h, <3>2 DEF Owns, NoLeaks
  <2>6. Owns(c, r, g, stored')
    BY <2>2, <2>3, <2>5, NullIsNoSlot DEF Owns
  <2>7. Closable(c, r, g, stored')
    BY <1>h, <2>6, OwnsClosable
  <2>8. CASE x = <<r, g>>
    BY <2>2, <2>4, <2>6, <2>7, <2>8 DEF AfterRead, Ready
  <2>9. CASE x = <<q, Close(g, r.fp, c, r.kind)>>
    <3> DEFINE f == Close(g, r.fp, c, r.kind)
    <3>1. Closable(c, q, f, stored') /\ TableFor(c, f, stored')
      BY <2>2, <2>4, <2>7, FpCloses
    <3>2. x[1] = q /\ x[2] = f
      BY <2>9
    <3> HIDE DEF q, f
    <3>3. Owns(c, q, f, stored')
      BY <2>2, <2>q, <3>1, NullIsNoSlot DEF Owns, Closable
    <3> QED
      BY <2>q, <3>1, <3>2, <3>3 DEF AfterRead, Ready
  <2> QED
    BY <2>1, <2>8, <2>9
<1> QED
  BY <1>1, <1>2

(* A response goes on, ends or fails. *)
LEMMA ResponseOutcome ==
  ASSUME CoreInv, NEW c \in Contexts, ctxPcb[c] # NULL, NEW r, Started(c, r), ~Receiving(r),
         NEW caller, HttpResponseProc(c, r, caller)
  PROVE  Outcome(c)
<1>s. /\ r \in Context /\ Shape(r) /\ SameRequest(c, r)
      /\ r.state = req[c].state /\ r.kind = req[c].kind
  BY DEF Started, SameRequest
<1>r. r.state \in {"SENDING_HEADER", "SENDING_BODY"} /\ r.inbox \in HeaderUnits \cup {NULL}
  BY <1>s DEF Receiving, Shape, Context, States
<1>u. /\ upload[c] \in Uploads /\ upload[c] # "receiving"
      /\ UNCHANGED upload => upload' = [upload EXCEPT ![c] = upload[c]]
  BY <1>s, <1>r, UploadKept DEF CoreInv, UploadsAreSettled
<1>f. UNCHANGED stored => Flags
  BY SameFlags
<1>0. UNCHANGED stored => AfterRead(c, r, <<r, files>>)
  BY <1>f, <1>s, SameHandles DEF AfterRead
<1>n. ASSUME UNCHANGED stored, NEW x \in NextRead(c, r, files) PROVE AfterRead(c, r, x)
  BY <1>f, <1>n, <1>s, NextReadSound
<1>g. ASSUME UNCHANGED <<upload, stored>>, NEW x, AfterRead(c, r, x),
             NEW q \in Context, q.fp = x[1].fp, q.file = x[1].file, q.inbox = x[1].inbox,
             q.kind = x[1].kind, q.state \in {r.state, "SENDING_BODY"},
             GoOn(c, q, x[2])
      PROVE  Outcome(c)
  <2>1. Handles(q)
    BY <1>g DEF AfterRead, Ready, Closable, Handles
  <2>2. Shape(q)
    BY <1>g, <1>r, <2>1 DEF Shape, AfterRead
  <2>3. Ready(c, q, x[2]) /\ Owns(c, q, x[2], stored')
    BY <1>g, <2>1 DEF AfterRead, Ready, Closable, Owns, NoLeaks
  <2>4. q.state # "BODY_RECEIVING"
    BY <1>g, <1>r
  <2> QED
    BY <1>g, <1>u, <2>2, <2>3, <2>4, GoOnOutcome
<1>w. ASSUME UNCHANGED <<upload, stored>>, NEW x, AfterRead(c, r, x), NEW b \in BOOLEAN,
             GoOn(c, [x[1] EXCEPT !.stale = FALSE, !.room = b], x[2])
      PROVE  Outcome(c)
  <2> DEFINE q == [x[1] EXCEPT !.stale = FALSE, !.room = b]
  <2>1. /\ q \in Context /\ q.fp = x[1].fp /\ q.file = x[1].file /\ q.inbox = x[1].inbox
        /\ q.kind = x[1].kind /\ q.state = x[1].state
    BY <1>w DEF AfterRead, Ready, Context
  <2>2. GoOn(c, q, x[2]) /\ x[1].state = r.state
    BY <1>w DEF AfterRead
  <2> HIDE DEF q
  <2> QED
    BY <1>w, <1>g, <2>1, <2>2
<1>b. ASSUME UNCHANGED <<upload, stored>>, NEW x, AfterRead(c, r, x), NEW b \in BOOLEAN,
             GoOn(c, [x[1] EXCEPT !.state = "SENDING_BODY", !.stale = FALSE, !.room = b], x[2])
      PROVE  Outcome(c)
  <2> DEFINE q == [x[1] EXCEPT !.state = "SENDING_BODY", !.stale = FALSE, !.room = b]
  <2>1. /\ q \in Context /\ q.fp = x[1].fp /\ q.file = x[1].file /\ q.inbox = x[1].inbox
        /\ q.kind = x[1].kind /\ q.state = "SENDING_BODY"
    BY <1>b DEF AfterRead, Ready, Context, States
  <2>2. GoOn(c, q, x[2])
    BY <1>b
  <2> HIDE DEF q
  <2> QED
    BY <1>b, <1>g, <2>1, <2>2
<1>e. ASSUME UNCHANGED <<upload, stored>>, NEW x, AfterRead(c, r, x), RequestEnd(c, x[1], x[2])
      PROVE  Outcome(c)
  BY <1>e, <1>r, <1>u, RequestEndOutcome DEF AfterRead
<1>1. CASE Pauses(c, r) /\ UNCHANGED <<upload, stored>>
  <2>1. AfterRead(c, r, <<r, files>>) /\ GoOn(c, r, <<r, files>>[2]) /\ <<r, files>>[1] = r
    BY <1>1, <1>0 DEF Pauses
  <2> QED
    BY <1>1, <1>s, <1>g, <2>1
<1>2. CASE Writes(c, r, caller) /\ UNCHANGED <<upload, stored>>
  <2>1. PICK x \in NextRead(c, r, files), b \in BOOLEAN :
          GoOn(c, [x[1] EXCEPT !.stale = FALSE, !.room = b], x[2])
    BY <1>2 DEF Writes
  <2> QED
    BY <1>2, <1>n, <1>w, <2>1
<1>3. CASE AfterHeader(c, r) /\ UNCHANGED <<upload, stored>>
  <2>1. CASE RequestEnd(c, r, files)
    <3>1. /\ AfterRead(c, r, <<r, files>>)
          /\ RequestEnd(c, <<r, files>>[1], <<r, files>>[2])
      BY <1>3, <1>0, <2>1
    <3> QED
      BY <1>3, <1>e, <3>1
  <2>2. ASSUME NEW x \in (IF r.kind = "list" THEN FirstRead(c, r, files) ELSE {<<r, files>>})
        PROVE  AfterRead(c, r, x)
    <3>1. CASE r.kind = "list"
      BY <1>3, <1>f, <1>s, <2>2, <3>1, FirstReadSound
    <3>2. CASE r.kind # "list"
      BY <1>3, <1>0, <2>2, <3>2
    <3> QED
      BY <3>1, <3>2
  <2>3. ASSUME NEW x, AfterRead(c, r, x),
               \/ \E b \in BOOLEAN :
                    GoOn(c, [x[1] EXCEPT !.state = "SENDING_BODY", !.stale = FALSE, !.room = b], x[2])
               \/ RequestEnd(c, x[1], x[2])
        PROVE  Outcome(c)
    BY <1>3, <1>b, <1>e, <2>3
  <2> QED
    BY <1>3, <2>1, <2>2, <2>3 DEF AfterHeader
<1>4. CASE AllSent(c, r) /\ UNCHANGED <<upload, stored>>
  <2> DEFINE q == [r EXCEPT !.fp = NULL]
             f == Close(files, r.fp, c, r.kind)
  <2>1. q.inbox = r.inbox
    BY <1>s DEF Context
  <2>2. Closable(c, r, files, stored') /\ TableFor(c, files, stored') /\ Flags
    BY <1>4, <1>0 DEF AfterRead, Ready
  <2>3. q \in Context /\ Closable(c, q, f, stored') /\ TableFor(c, f, stored')
    BY <1>s, <2>2, FpCloses
  <2>g. RequestEnd(c, q, f)
    BY <1>4 DEF AllSent
  <2> HIDE DEF q, f
  <2>4. Ready(c, q, f)
    BY <2>2, <2>3 DEF Ready
  <2> QED
    BY <1>4, <1>r, <1>u, <2>g, <2>1, <2>4, RequestEndOutcome
<1>5. CASE WriteFails(c, r, caller) /\ UNCHANGED <<upload, stored>>
  <2>1. PICK x \in NextRead(c, r, files) : RequestEnd(c, x[1], x[2])
    BY <1>5 DEF WriteFails
  <2> QED
    BY <1>5, <1>n, <1>e, <2>1
<1>6. CASE Abort(c, r, files)
  BY <1>6, <1>s, PlainAbort
<1> QED
  BY <1>1, <1>2, <1>3, <1>4, <1>5, <1>6 DEF HttpResponseProc

LEMMA RequestProcOutcome ==
  ASSUME CoreInv, NEW c \in Contexts, ctxPcb[c] # NULL, NEW r, Started(c, r),
         NEW caller, HttpRequestProc(c, r, caller)
  PROVE  Outcome(c)
BY ParseOutcome, ResponseOutcome DEF HttpRequestProc

(* A callback finds its context in order. *)
LEMMA CallbackStarts ==
  ASSUME CoreInv, NEW c \in Contexts
  PROVE  Started(c, req[c])
BY DEF CoreInv, CoreTypes, ContextsSound, Started

(* What the peers did is counted up to the bound. *)
LEMMA EventsType ==
  ASSUME CoreInv, PeerActs \/ UNCHANGED events
  PROVE  events' \in 0..MAX_EVENTS
BY CoreAssumption DEF CoreInv, CoreTypes, PeerActs

(* A step that changes nothing but the binding of a pcb without a context. *)
LEMMA RestUnchanged ==
  ASSUME CoreInv, BindingInv', UNCHANGED <<ctxPcb, req, files, upload, stored>>,
         events' \in 0..MAX_EVENTS
  PROVE  CoreInv'
<1>1. CoreTypes'
  BY DEF CoreInv, CoreTypes
<1>2. FreeIsIdle' /\ UploadsAreSettled'
  BY DEF CoreInv, FreeIsIdle, Bound, UploadsAreSettled
<1>3. ContextsSound' /\ OnlyPagesCloseTwice'
  BY DEF CoreInv, ContextsSound, OnlyPagesCloseTwice
<1> QED
  BY <1>1, <1>2, <1>3 DEF CoreInv

(* Every step keeps the contexts, the file table and the uploads in order. *)
LEMMA CoreStep == CoreInv /\ [Next]_vars => CoreInv'
<1> SUFFICES ASSUME CoreInv, [Next]_vars PROVE CoreInv'
  OBVIOUS
<1>b. BindingInv /\ BindingInv'
  BY BindingStep DEF CoreInv
<1>c. ASSUME NEW p \in Pcbs, arg[p] # NULL
      PROVE  /\ arg[p] \in Contexts /\ ctxPcb[arg[p]] # NULL
             /\ Started(arg[p], req[arg[p]]) /\ req[arg[p]] \in Context
             /\ SameRequest(arg[p], req[arg[p]])
  BY <1>b, <1>c, CallbackContext, CallbackStarts DEF Started, SameRequest
<1>1. ASSUME NEW p \in Pcbs, OnHttpAccept(p) PROVE CoreInv'
  <2>1. PICK c \in Contexts :
          /\ ~Bound(c)
          /\ ctxPcb' = [ctxPcb EXCEPT ![c] = p]
          /\ req' = [req EXCEPT ![c] = Idle(FALSE, NULL)]
          /\ upload' = [upload EXCEPT ![c] = "none"]
          /\ UNCHANGED <<files, stored>>
    BY <1>1 DEF OnHttpAccept
  <2>2. /\ Idle(FALSE, NULL) \in Context /\ Shape(Idle(FALSE, NULL))
        /\ Idle(FALSE, NULL).state = "IDLE"
        /\ Idle(FALSE, NULL).fp = NULL /\ Idle(FALSE, NULL).file = NULL
    BY IdleFields
  <2>3. req[c].fp = NULL /\ req[c].file = NULL
    <3>1. req[c] \in Context /\ req[c] = Idle(req[c].fin, NULL)
      BY <2>1 DEF CoreInv, CoreTypes, FreeIsIdle
    <3>2. req[c].fin \in BOOLEAN
      BY <3>1 DEF Context
    <3>3. Idle(req[c].fin, NULL).fp = NULL /\ Idle(req[c].fin, NULL).file = NULL
      BY <3>2, IdleFields
    <3> QED
      BY <3>1, <3>3
  <2>4. Owns(c, Idle(FALSE, NULL), files', stored') /\ TableFor(c, files', stored')
        /\ Flags
    BY <2>1, <2>2, <2>3, SameFlags, SameHandles DEF Ready, SameRequest
  <2>5. ctxPcb'[c] # NULL /\ \A d \in Contexts : d # c => ctxPcb'[d] = ctxPcb[d]
    BY <1>b, <2>1, NullIsNoContext DEF BindingInv, BindingType
  <2>6. "none" \in Uploads /\ "none" # "receiving"
    BY DEF Uploads
  <2>7. Outcome(c)
    BY <2>1, <2>2, <2>4, <2>5, <2>6 DEF Outcome
  <2> QED
    BY <1>1, <1>b, <2>7, OutcomeSound, EventsType DEF OnHttpAccept
<1>2. ASSUME NEW p \in Pcbs, OnHttpReceive(p) PROVE CoreInv'
  <2> DEFINE c == arg[p]
             r == req[c]
  <2>1. PICK u \in IF r.state = "BODY_RECEIVING" THEN BodyUnits ELSE HeaderUnits :
          HttpRequestProc(c, Heard([r EXCEPT !.inbox = u]), "RECV")
    BY <1>2 DEF OnHttpReceive
  <2>2. c \in Contexts /\ ctxPcb[c] # NULL /\ Started(c, r) /\ r \in Context
    BY <1>2, <1>c DEF OnHttpReceive
  <2> HIDE DEF c, r
  <2> DEFINE q == [r EXCEPT !.inbox = u]
             h == Heard(q)
  <2>3. /\ q \in Context /\ q.state = r.state /\ q.fp = r.fp /\ q.file = r.file
        /\ q.kind = r.kind /\ q.inbox = u
    BY <2>1, <2>2 DEF Context
  <2>g. HttpRequestProc(c, h, "RECV")
    BY <2>1
  <2> HIDE DEF q
  <2>4. /\ h \in Context /\ h.state = r.state /\ h.fp = r.fp /\ h.file = r.file
        /\ h.kind = r.kind /\ h.inbox = u
    BY <2>3 DEF Heard, Context
  <2> HIDE DEF h
  <2>5. Started(c, h)
    BY <2>1, <2>2, <2>4 DEF Started, Shape, Handles
  <2>6. Outcome(c)
    BY <2>2, <2>5, <2>g, RequestProcOutcome
  <2> QED
    BY <1>2, <1>b, <2>2, <2>6, OutcomeSound, EventsType DEF OnHttpReceive
<1>3. ASSUME NEW p \in Pcbs, OnHttpReceiveFin(p) PROVE CoreInv'
  <2> DEFINE c == arg[p]
             r == req[c]
  <2>1. /\ c \in Contexts /\ ctxPcb[c] # NULL /\ Started(c, r) /\ r \in Context
        /\ SameRequest(c, r)
    BY <1>3, <1>c DEF OnHttpReceiveFin
  <2>2. \/ /\ r.state = "IDLE"
           /\ CloseHttpContext(c, r, files)
           /\ UNCHANGED <<upload, stored>>
        \/ HttpRequestProc(c, Heard([r EXCEPT !.fin = TRUE]), "RECV")
    BY <1>3 DEF OnHttpReceiveFin
  <2>e. r = req[c]
    OBVIOUS
  <2> HIDE DEF c, r
  <2>3. CASE /\ r.state = "IDLE"
             /\ CloseHttpContext(c, r, files)
             /\ UNCHANGED <<upload, stored>>
    <3>1. /\ upload[c] \in Uploads /\ upload[c] # "receiving"
          /\ upload' = [upload EXCEPT ![c] = upload[c]]
      BY <2>1, <2>e, <2>3, UploadKept DEF CoreInv, UploadsAreSettled
    <3>2. Ready(c, r, files)
      BY <2>1, <2>e, <2>3, SameFlags, SameHandles
    <3> QED
      BY <1>3, <1>b, <2>1, <2>3, <3>1, <3>2, CloseHttpContextOutcome, OutcomeSound, EventsType
      DEF OnHttpReceiveFin
  <2>4. CASE HttpRequestProc(c, Heard([r EXCEPT !.fin = TRUE]), "RECV")
    <3> DEFINE q == [r EXCEPT !.fin = TRUE]
               h == Heard(q)
    <3>1. /\ q \in Context /\ q.state = r.state /\ q.fp = r.fp /\ q.file = r.file
          /\ q.kind = r.kind /\ q.inbox = r.inbox
      BY <2>1 DEF Context
    <3>g. HttpRequestProc(c, h, "RECV")
      BY <2>4
    <3> HIDE DEF q
    <3>2. /\ h \in Context /\ h.state = r.state /\ h.fp = r.fp /\ h.file = r.file
          /\ h.kind = r.kind /\ h.inbox = r.inbox
      BY <3>1 DEF Heard, Context
    <3> HIDE DEF h
    <3>3. Started(c, h)
      BY <2>1, <3>2 DEF Started, Shape, Handles
    <3>4. Outcome(c)
      BY <2>1, <3>3, <3>g, RequestProcOutcome
    <3> QED
      BY <1>3, <1>b, <2>1, <3>4, OutcomeSound, EventsType DEF OnHttpReceiveFin
  <2> QED
    BY <2>2, <2>3, <2>4
<1>4. ASSUME NEW p \in Pcbs, OnHttpSent(p) PROVE CoreInv'
  <2>1. /\ arg[p] # NULL /\ HttpRequestProc(arg[p], req[arg[p]], "SENT")
        /\ events' \in 0..MAX_EVENTS
    BY <1>4, EventsType DEF OnHttpSent
  <2>2. Outcome(arg[p])
    BY <1>c, <2>1, RequestProcOutcome
  <2> QED
    BY <1>b, <1>c, <2>1, <2>2, OutcomeSound
<1>5. ASSUME NEW p \in Pcbs, OnHttpPoll(p) PROVE CoreInv'
  <2>e. events' \in 0..MAX_EVENTS
    BY <1>5, EventsType DEF OnHttpPoll
  <2>1. CASE arg[p] # NULL /\ Abort(arg[p], req[arg[p]], files)
    <3>1. Outcome(arg[p])
      BY <1>c, <2>1, PlainAbort
    <3> QED
      BY <1>b, <1>c, <2>e, <2>1, <3>1, OutcomeSound
  <2>2. CASE arg[p] # NULL /\ HttpRequestProc(arg[p], req[arg[p]], "POLL")
    <3>1. Outcome(arg[p])
      BY <1>c, <2>2, RequestProcOutcome
    <3> QED
      BY <1>b, <1>c, <2>e, <2>2, <3>1, OutcomeSound
  <2>3. CASE UNCHANGED <<arg, ctxPcb, req, files, upload, stored>>
    BY <1>b, <2>e, <2>3, RestUnchanged
  <2> QED
    BY <1>5, <2>1, <2>2, <2>3 DEF OnHttpPoll
<1>6. ASSUME NEW p \in Pcbs, OnHttpError(p) PROVE CoreInv'
  <2>e. events' \in 0..MAX_EVENTS /\ UNCHANGED stored /\ Flags
    BY <1>6, EventsType, SameFlags DEF OnHttpError
  <2>1. CASE arg[p] = NULL
    BY <1>6, <1>b, <2>e, <2>1, RestUnchanged DEF OnHttpError
  <2>2. CASE arg[p] # NULL
    <3> DEFINE c == arg[p]
               r == req[c]
    <3>1. c \in Contexts /\ ctxPcb[c] # NULL /\ r \in Context /\ SameRequest(c, r)
      BY <1>c, <2>2
    <3>2. CGI_Cancel(c) /\ FreeHttpContext(c, r, files)
      BY <1>6, <2>2 DEF OnHttpError
    <3>3. r.fin \in BOOLEAN /\ [r EXCEPT !.fin = r.fin] = r
      BY <3>1 DEF Context
    <3>4. FreeHttpContext(c, [r EXCEPT !.fin = r.fin], files)
      BY <3>2, <3>3
    <3>5. Ready(c, r, files)
      BY <2>e, <3>1, SameHandles
    <3>6. PICK u \in Uploads : u # "receiving" /\ upload' = [upload EXCEPT ![c] = u]
      BY <3>1, <3>2, UploadKept
    <3> HIDE DEF c, r
    <3>7. Outcome(c)
      BY <3>1, <3>3, <3>4, <3>5, <3>6, CloseOutcome
    <3> QED
      BY <1>b, <2>e, <3>1, <3>7, OutcomeSound
  <2> QED
    BY <2>1, <2>2
<1>7. ASSUME NEW c \in Contexts, TimePasses(c) PROVE CoreInv'
  <2> DEFINE q == [req[c] EXCEPT !.stale = TRUE]
  <2>1. /\ ctxPcb[c] # NULL /\ req' = [req EXCEPT ![c] = q] /\ UNCHANGED binding
        /\ files' = files /\ UNCHANGED <<upload, stored, events>>
    BY <1>7 DEF TimePasses, Bound
  <2>2. req[c] \in Context /\ Shape(req[c])
    BY DEF CoreInv, CoreTypes, ContextsSound
  <2>3. /\ q \in Context /\ q.state = req[c].state /\ q.fp = req[c].fp /\ q.file = req[c].file
        /\ q.kind = req[c].kind /\ q.inbox = req[c].inbox
    BY <2>2 DEF Context
  <2> HIDE DEF q
  <2>4. Shape(q) /\ SameRequest(c, q)
    BY <2>2, <2>3 DEF Shape, Handles, SameRequest
  <2>5. GoOn(c, q, files)
    BY <2>1 DEF GoOn
  <2>6. Outcome(c)
    BY <2>1, <2>3, <2>4, <2>5, PlainGoOn
  <2> QED
    BY <1>b, <2>1, <2>6, OutcomeSound, EventsType
<1>8. CASE UNCHANGED vars
  <2>1. events' \in 0..MAX_EVENTS /\ UNCHANGED <<ctxPcb, req, files, upload, stored>>
    BY <1>8, EventsType DEF vars, binding
  <2> QED
    BY <1>b, <2>1, RestUnchanged
<1> QED
  BY <1>1, <1>2, <1>3, <1>4, <1>5, <1>6, <1>7, <1>8 DEF Next

LEMMA CoreInit == Init => CoreInv
<1> SUFFICES ASSUME Init PROVE CoreInv
  OBVIOUS
<1>i. /\ Idle(FALSE, NULL) \in Context /\ Shape(Idle(FALSE, NULL))
      /\ Idle(FALSE, NULL).state = "IDLE" /\ Idle(FALSE, NULL).fin = FALSE
      /\ Idle(FALSE, NULL).fp = NULL /\ Idle(FALSE, NULL).file = NULL
  BY IdleFields
<1>1. BindingInv
  BY BindingInit
<1>2. /\ \A c \in Contexts : req[c] = Idle(FALSE, NULL) /\ upload[c] = "none"
      /\ \A s \in Slots : files.slot[s] = NULL
      /\ files.again = {}
  BY DEF Init
<1>3. CoreTypes
  <2>1. req \in [Contexts -> Context]
    BY <1>i DEF Init
  <2>2. files \in FileTable /\ upload \in [Contexts -> Uploads] /\ stored \in BOOLEAN
    BY DEF Init, Uploads, FileTable
  <2>3. events \in 0..MAX_EVENTS
    BY CoreAssumption DEF Init
  <2> QED
    BY <2>1, <2>2, <2>3 DEF CoreTypes
<1>4. FreeIsIdle /\ UploadsAreSettled
  BY <1>i, <1>2 DEF FreeIsIdle, UploadsAreSettled
<1>5. ContextsSound
  <2> SUFFICES ASSUME NEW c \in Contexts PROVE Shape(req[c]) /\ Owns(c, req[c], files, stored)
    BY DEF ContextsSound
  <2>1. Shape(req[c]) /\ req[c].fp = NULL /\ req[c].file = NULL
    BY <1>i, <1>2
  <2>2. NoLeaks(c, req[c], files)
    BY <1>2 DEF NoLeaks, OpenedBy
  <2> QED
    BY <2>1, <2>2, NullIsNoSlot DEF Owns
<1>6. OnlyPagesCloseTwice
  BY <1>2 DEF OnlyPagesCloseTwice
<1> QED
  BY <1>1, <1>3, <1>4, <1>5, <1>6 DEF CoreInv

(* The types, for every number of contexts, pcbs and files. *)
THEOREM CoreTypeCorrect == Spec => []TypeOK
<1>1. CoreInv => TypeOK
  BY DEF CoreInv, CoreTypes, FreeIsIdle, BindingInv, BindingType, Uploads, FileTable, TypeOK
<1> QED
  BY <1>1, CoreInit, CoreStep, PTL DEF Spec

(***************************************************************************)
(* Until an upload is stored no context loses the file or the search that  *)
(* it works with, whatever the other connections open, close, abort or     *)
(* time out, and although every page is closed twice.                      *)
(***************************************************************************)
THEOREM FilesAreKept == Spec => []OnlyUploadsLoseFiles
<1>1. CoreInv => OnlyUploadsLoseFiles
  <2> SUFFICES ASSUME CoreInv, ~stored, NEW c \in Contexts, NEW h \in UsedHandles(req[c])
               PROVE  files.slot[h] = [by |-> c, kind |-> req[c].kind]
    BY DEF OnlyUploadsLoseFiles, FilesStayOpen
  <2>1. h \in {req[c].fp, req[c].file} /\ h # NULL
    BY DEF UsedHandles
  <2>2. h \in Slots
    BY <2>1 DEF CoreInv, CoreTypes, Context
  <2> QED
    BY <2>1, <2>2 DEF CoreInv, ContextsSound, Owns
<1> QED
  BY <1>1, CoreInit, CoreStep, PTL DEF Spec

(***************************************************************************)
(* Until an upload is stored no request but one for a page closes a handle *)
(* that it closed before, or that is another's, however it ends.           *)
(***************************************************************************)
THEOREM OthersCloseOnce == Spec => []OnlyPagesCloseTwice
<1>1. CoreInv => OnlyPagesCloseTwice
  BY DEF CoreInv
<1> QED
  BY <1>1, CoreInit, CoreStep, PTL DEF Spec

(***************************************************************************)
(* A slot that the context which opened it no longer knows was opened for  *)
(* an answer of 304 or for the list of a folder: every end of a page and   *)
(* of an upload closes what was opened, also after other connections       *)
(* closed the slot and took it.                                            *)
(***************************************************************************)
THEOREM SlotsAreClosed == Spec => []OnlyListsAnd304Leak
<1>1. CoreInv => OnlyListsAnd304Leak
  <2> SUFFICES ASSUME CoreInv, NEW s \in Slots, Leaked(s),
                      files.slot[s].kind \notin {"cached", "list"}
               PROVE  FALSE
    BY DEF OnlyListsAnd304Leak
  <2>1. /\ files.slot[s] # NULL
        /\ s \notin {req[files.slot[s].by].fp, req[files.slot[s].by].file}
    BY DEF Leaked
  <2>2. files.slot[s].by \in Contexts
    BY <2>1 DEF CoreInv, CoreTypes, FileTable, Holders
  <2>3. OpenedBy(files, s, files.slot[s].by)
    BY <2>1 DEF OpenedBy
  <2>4. NoLeaks(files.slot[s].by, req[files.slot[s].by], files)
    BY <2>2 DEF CoreInv, ContextsSound, Owns
  <2> QED
    BY <2>1, <2>3, <2>4 DEF NoLeaks
<1> QED
  BY <1>1, CoreInit, CoreStep, PTL DEF Spec

(***************************************************************************)
(* A context receives a body exactly while its upload is under way: every  *)
(* way in which a connection can end settles the upload first.             *)
(***************************************************************************)
THEOREM UploadsStaySettled == Spec => []UploadsAreSettled
<1>1. CoreInv => UploadsAreSettled
  BY DEF CoreInv
<1> QED
  BY <1>1, CoreInit, CoreStep, PTL DEF Spec

=============================================================================
