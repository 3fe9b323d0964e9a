---------------------------- MODULE HttpSession ----------------------------
(***************************************************************************)
(* The login sessions of the web server (httpd/http_session.c) and the     *)
(* pointers the request contexts keep to them (REQUEST_CONTEXT._session).  *)
(*                                                                         *)
(* A session is a slot of the fixed array g_httpSessions.  A slot is free  *)
(* when its token is the empty string.  The token is the 32-bit tick of    *)
(* the login, printed; two ticks are kept per session: when a request of   *)
(* it was last received and when a response of it was last acknowledged.   *)
(* SessionCheck, called by the idle loop of AppThread, frees the sessions  *)
(* that were idle for too long.                                            *)
(*                                                                         *)
(* All calls happen on the AppThread, so every function is one action.     *)
(* Ticks are milliseconds: the code stamps sessions with the 32-bit        *)
(* LWIP_GetTickCount() and checks them against the 64-bit GetTickCount64().*)
(***************************************************************************)
EXTENDS Integers

CONSTANTS
  MAX_SESSIONS,     \* slots of g_httpSessions
  Contexts,         \* the request contexts, holders of session pointers
  Hosts,            \* remote IP addresses, none of them 0
  SESSION_TIMEOUT,  \* GetSessionTimeout(); 0 switches the timeout off
  TICK_MODULUS,     \* 2^32: LWIP_GetTickCount() wraps around here
  MAX_TICK          \* bound: the clock stops here

ASSUME SessionAssumption ==
  /\ MAX_SESSIONS \in Nat
  /\ Hosts \subseteq Nat \ {0}
  /\ SESSION_TIMEOUT \in Nat
  /\ TICK_MODULUS \in Nat \ {0, 1}
  /\ MAX_TICK \in Nat

VARIABLES
  tick,      \* GetTickCount64()
  sessions,  \* g_httpSessions
  held,      \* _session of each context: a slot, or NULL
  heard,     \* history: the true tick of the last login or SessionReceived
  acked,     \* history: the true tick of the last SessionSent, -1 for none
  checkedAt  \* history: the tick of the last SessionCheck, -1 for none

vars == <<tick, sessions, held, heard, acked, checkedAt>>

Slots == 1..MAX_SESSIONS
NULL == 0
NoToken == -1
Tokens == 0..(TICK_MODULUS - 1)

(* What memset(session, 0, sizeof(SESSION)) leaves. *)
Zeroed == [token |-> NoToken, loginIP |-> 0, lastReceived |-> 0, lastSent |-> 0]

(* LWIP_GetTickCount(): the tick, truncated to 32 bits. *)
LWIP_GetTickCount == tick % TICK_MODULUS

(* Mutant: the "== 0" test after taking the tick is forgotten. *)
Stamp_KeepsZero(t) == t % TICK_MODULUS

(* The stamp of now: a tick of 0 is stored as 1, for 0 means "never". *)
Stamp(t) == IF t % TICK_MODULUS = 0 THEN 1 ELSE t % TICK_MODULUS

Live(s) == sessions[s].token # NoToken

-----------------------------------------------------------------------------

(* SetupSession, before the AppThread serves anything. *)
Init ==
  /\ tick = 0
  /\ sessions = [s \in Slots |-> Zeroed]
  /\ held = [c \in Contexts |-> NULL]
  /\ heard = [s \in Slots |-> -1]
  /\ acked = [s \in Slots |-> -1]
  /\ checkedAt = -1

(* Time passes while the AppThread waits. *)
Tick ==
  /\ tick < MAX_TICK
  /\ tick' = tick + 1
  /\ UNCHANGED <<sessions, held, heard, acked, checkedAt>>

(* The first slot whose token is empty. *)
FirstFree(s) == ~Live(s) /\ \A r \in Slots : r < s => Live(r)

(* SessionCreate takes slot s, and AuthCheck stores it in the context. *)
SessionCreateAt(c, ip, s) ==
  /\ FirstFree(s)
  /\ sessions' = [sessions EXCEPT ![s] =
                    [token |-> LWIP_GetTickCount, loginIP |-> ip,
                     lastReceived |-> Stamp(tick), lastSent |-> 0]]
  /\ held' = [held EXCEPT ![c] = s]
  /\ heard' = [heard EXCEPT ![s] = tick]
  /\ acked' = [acked EXCEPT ![s] = -1]
  /\ UNCHANGED <<tick, checkedAt>>

(***************************************************************************)
(* A successful login.  (OnHttpReceive ends with SessionReceived at the    *)
(* same tick.)  With no free slot the context is left with NULL.           *)
(***************************************************************************)
SessionCreate(c, ip) ==
  \/ \E s \in Slots : SessionCreateAt(c, ip, s)
  \/ /\ \A s \in Slots : Live(s)
     /\ held' = [held EXCEPT ![c] = NULL]
     /\ UNCHANGED <<tick, sessions, heard, acked, checkedAt>>

(***************************************************************************)
(* The headers of a request are complete: the context points to the first  *)
(* slot whose token occurs in the cookie.  A cookie is the set of tokens   *)
(* that occur in it.                                                       *)
(***************************************************************************)
Matches(s, cookie) == Live(s) /\ sessions[s].token \in cookie

(* What GetSession(cookie) may return: a slot, or NULL. *)
GetSession(s, cookie) ==
  \/ /\ s \in Slots
     /\ Matches(s, cookie)
     /\ \A r \in Slots : r < s => ~Matches(r, cookie)
  \/ /\ s = NULL
     /\ \A r \in Slots : ~Matches(r, cookie)

HeadersReceived(c, cookie) ==
  /\ \E s \in Slots \cup {NULL} :
       /\ GetSession(s, cookie)
       /\ held' = [held EXCEPT ![c] = s]
  /\ UNCHANGED <<tick, sessions, heard, acked, checkedAt>>

(* Mutant: only the pointer is tested, not the token behind it. *)
Holds_Dangling(c) == held[c] # NULL

(* session != NULL and session->_token[0] != 0: otherwise nothing happens. *)
Holds(c) == held[c] # NULL /\ Live(held[c])

(* The logout page: SessionKill(context->_session). The pointer stays. *)
SessionKill(c) ==
  /\ Holds(c)
  /\ sessions' = [sessions EXCEPT ![held[c]] = Zeroed]
  /\ heard' = [heard EXCEPT ![held[c]] = -1]
  /\ acked' = [acked EXCEPT ![held[c]] = -1]
  /\ UNCHANGED <<tick, held, checkedAt>>

(* OnHttpReceive, unless the request is the page's session check. *)
SessionReceived(c) ==
  /\ Holds(c)
  /\ sessions' = [sessions EXCEPT ![held[c]].lastReceived = Stamp(tick)]
  /\ heard' = [heard EXCEPT ![held[c]] = tick]
  /\ UNCHANGED <<tick, held, acked, checkedAt>>

(* OnHttpSent, unless the request is the page's session check. *)
SessionSent(c) ==
  /\ Holds(c)
  /\ sessions' = [sessions EXCEPT ![held[c]].lastSent = Stamp(tick)]
  /\ acked' = [acked EXCEPT ![held[c]] = tick]
  /\ UNCHANGED <<tick, held, heard, checkedAt>>

(* The time since a stamp, as SessionCheck computes it from a 64-bit tick. *)
Elapsed(stamp) ==
  LET now == IF tick = 0 THEN 1 ELSE tick
  IN  IF stamp = 0 THEN 0
      ELSE IF now >= stamp THEN now - stamp
      ELSE now + (TICK_MODULUS - 1 - stamp)

(* Mutant: the larger of the two elapsed times decides. *)
TimedOut_Larger(s) ==
  /\ Live(s)
  /\ SESSION_TIMEOUT > 0
  /\ \/ Elapsed(sessions[s].lastSent) > SESSION_TIMEOUT
     \/ Elapsed(sessions[s].lastReceived) > SESSION_TIMEOUT

(* Mutant: the loop breaks, instead of continuing, at a free slot. *)
TimedOut_Break(s) ==
  /\ \A r \in 1..s : Live(r)
  /\ SESSION_TIMEOUT > 0
  /\ Elapsed(sessions[s].lastSent) > SESSION_TIMEOUT
  /\ Elapsed(sessions[s].lastReceived) > SESSION_TIMEOUT

(* sendElapsed and recvElapsed: the smaller one decides. *)
TimedOut(s) ==
  /\ Live(s)
  /\ SESSION_TIMEOUT > 0
  /\ Elapsed(sessions[s].lastSent) > SESSION_TIMEOUT
  /\ Elapsed(sessions[s].lastReceived) > SESSION_TIMEOUT

(* The idle loop of AppThread. *)
SessionCheck ==
  /\ sessions' = [s \in Slots |-> IF TimedOut(s) THEN Zeroed ELSE sessions[s]]
  /\ heard' = [s \in Slots |-> IF TimedOut(s) THEN -1 ELSE heard[s]]
  /\ acked' = [s \in Slots |-> IF TimedOut(s) THEN -1 ELSE acked[s]]
  /\ checkedAt' = tick
  /\ UNCHANGED <<tick, held>>

Next ==
  \/ Tick
  \/ \E c \in Contexts, ip \in Hosts : SessionCreate(c, ip)
  \/ \E c \in Contexts, t \in Tokens : HeadersReceived(c, {t})
  \/ \E c \in Contexts : HeadersReceived(c, {})
  \/ \E c \in Contexts : SessionKill(c)
  \/ \E c \in Contexts : SessionReceived(c)
  \/ \E c \in Contexts : SessionSent(c)
  \/ SessionCheck

Spec == Init /\ [][Next]_vars

-----------------------------------------------------------------------------

Session == [token : Tokens \cup {NoToken}, loginIP : Hosts \cup {0},
            lastReceived : Tokens, lastSent : Tokens]

(* The variables keep their types; history ticks lie in the past. *)
TypeOK ==
  /\ tick \in 0..MAX_TICK
  /\ sessions \in [Slots -> Session]
  /\ held \in [Contexts -> Slots \cup {NULL}]
  /\ heard \in [Slots -> -1..MAX_TICK]
  /\ acked \in [Slots -> -1..MAX_TICK]
  /\ checkedAt \in -1..tick

(***************************************************************************)
(* A slot that is free is all zero, however it was freed and whatever late *)
(* callbacks of contexts that still point to it did afterwards: the        *)
(* "token set" tests of SessionReceived and SessionSent keep a dead session*)
(* from being stamped again.                                               *)
(***************************************************************************)
FreeSlotsAreZeroed == \A s \in Slots : ~Live(s) => sessions[s] = Zeroed

(* What a stamp taken at tick t should read. *)
StampOf(stamp, t) ==
  IF t % TICK_MODULUS = 0 THEN stamp = 1 ELSE stamp = t % TICK_MODULUS

(***************************************************************************)
(* The stamps of a live session tell the truth: lastReceived is the tick   *)
(* at which the owner was last heard, and lastSent the one at which it was *)
(* last answered, but for the width of the counter and the detour around   *)
(* 0.  lastReceived is never the "never" value 0, which would switch the   *)
(* timeout of the session off.                                             *)
(***************************************************************************)
StampsAreTrue ==
  \A s \in Slots : Live(s) =>
    /\ heard[s] \in 0..tick
    /\ acked[s] \in -1..tick
    /\ StampOf(sessions[s].lastReceived, heard[s])
    /\ IF acked[s] = -1 THEN sessions[s].lastSent = 0
       ELSE StampOf(sessions[s].lastSent, acked[s])

(* A step frees the session of slot s. *)
Killed(s) == Live(s) /\ ~(Live(s))'

(***************************************************************************)
(* SessionCheck never throws a user out early: a session it frees was both *)
(* unheard and unanswered for longer than the timeout.  (Logout frees too, *)
(* at a point where the pointer of the logging-out context says so.)       *)
(***************************************************************************)
NeverExpiresEarly ==
  [][\A s \in Slots : Killed(s) /\ SessionCheck =>
       /\ tick - heard[s] > SESSION_TIMEOUT
       /\ tick - acked[s] > SESSION_TIMEOUT]_vars

(* Within the timeout of a moment; the stamp of tick 0 is 1, hence the 1. *)
Recent(t, moment) == moment - t <= SESSION_TIMEOUT + 1

(***************************************************************************)
(* SessionCheck leaves no idle session behind, once one response of the    *)
(* session has been acknowledged: what is live now was heard or answered   *)
(* within the timeout before the last sweep, or after it.                  *)
(***************************************************************************)
SweepTakesIdle ==
  SESSION_TIMEOUT > 0 =>
    \A s \in Slots : Live(s) /\ acked[s] # -1 =>
      Recent(heard[s], checkedAt) \/ Recent(acked[s], checkedAt)

=============================================================================
