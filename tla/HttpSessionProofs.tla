-------------------------- MODULE HttpSessionProofs --------------------------
(***************************************************************************)
(* What HttpSession guarantees for every number of slots, contexts and     *)
(* hosts, every timeout and every width of the tick counter.               *)
(***************************************************************************)
EXTENDS HttpSession, TLAPS

(* A tick is truncated into the range of the counter, and a stamp avoids 0. *)
LEMMA StampRange ==
  ASSUME NEW t \in Nat
  PROVE  /\ t % TICK_MODULUS \in Tokens
         /\ Stamp(t) \in Tokens
         /\ StampOf(Stamp(t), t)
BY SessionAssumption DEF Tokens, Stamp, StampOf

(* Before the counter wraps around, truncation changes nothing. *)
LEMMA NoWrapStamp ==
  ASSUME NEW t \in Nat, t < TICK_MODULUS
  PROVE  t % TICK_MODULUS = t
BY SessionAssumption

(* The record SessionCreate writes, and the one a free slot holds, are sessions. *)
LEMMA SessionRecords ==
  ASSUME NEW ip \in Hosts, TypeOK
  PROVE  /\ Zeroed \in Session
         /\ [token |-> LWIP_GetTickCount, loginIP |-> ip,
             lastReceived |-> Stamp(tick), lastSent |-> 0] \in Session
         /\ LWIP_GetTickCount # NoToken
<1>1. tick \in Nat
  BY SessionAssumption DEF TypeOK
<1>2. tick % TICK_MODULUS \in Tokens /\ Stamp(tick) \in Tokens
  BY <1>1, StampRange
<1>3. 0 \in Tokens /\ NoToken \notin Tokens
  BY SessionAssumption DEF Tokens, NoToken
<1>4. QED
  BY <1>2, <1>3 DEF Session, Zeroed, LWIP_GetTickCount

(***************************************************************************)
(* Type correctness: whatever the peers send and whenever the idle loop    *)
(* runs, the session table, the contexts' pointers into it and the stamps  *)
(* stay in range.  In particular GetSession and SessionCreate never yield  *)
(* a slot outside the array.                                               *)
(***************************************************************************)
THEOREM TypeCorrect == Spec => []TypeOK
<1>1. Init => TypeOK
  BY SessionAssumption DEF Init, TypeOK, Session, Zeroed, Slots, Tokens, NULL, NoToken
<1>2. TypeOK /\ [Next]_vars => TypeOK'
  <2> SUFFICES ASSUME TypeOK, [Next]_vars
               PROVE  TypeOK'
    OBVIOUS
  <2> USE SessionAssumption
  <2>0. tick \in Nat /\ Stamp(tick) \in Tokens /\ 0 \in Tokens
    BY StampRange DEF TypeOK, Tokens
  <2>1. CASE Tick
    BY <2>1 DEF Tick, TypeOK
  <2>2. ASSUME NEW c \in Contexts, NEW ip \in Hosts, SessionCreate(c, ip)
        PROVE  TypeOK'
    <3>1. CASE \A s \in Slots : Live(s)
      <4>1. held' = [held EXCEPT ![c] = NULL] /\ UNCHANGED <<tick, sessions, heard, acked, checkedAt>>
        BY <2>2, <3>1 DEF SessionCreate, SessionCreateAt, FirstFree
      <4>2. QED
        BY <4>1 DEF TypeOK
    <3>2. ASSUME NEW s \in Slots, SessionCreateAt(c, ip, s)
          PROVE  TypeOK'
      <4>1. sessions' \in [Slots -> Session]
        BY <3>2, SessionRecords DEF SessionCreateAt, TypeOK
      <4>2. /\ held' \in [Contexts -> Slots \cup {NULL}]
            /\ UNCHANGED <<tick, checkedAt>>
        BY <3>2 DEF SessionCreateAt, TypeOK
      <4>3. /\ heard' \in [Slots -> -1..MAX_TICK]
            /\ acked' \in [Slots -> -1..MAX_TICK]
        BY <3>2 DEF SessionCreateAt, TypeOK
      <4>4. QED
        BY <4>1, <4>2, <4>3 DEF TypeOK
    <3>3. QED
      BY <2>2, <3>1, <3>2 DEF SessionCreate
  <2>3. ASSUME NEW c \in Contexts, NEW cookie, HeadersReceived(c, cookie)
        PROVE  TypeOK'
    BY <2>3 DEF HeadersReceived, TypeOK
  <2>4. ASSUME NEW c \in Contexts, SessionKill(c)
        PROVE  TypeOK'
    <3>1. Zeroed \in Session
      BY <2>0 DEF Session, Zeroed
    <3>2. /\ sessions' \in [Slots -> Session]
          /\ UNCHANGED <<tick, held, checkedAt>>
      BY <3>1, <2>4 DEF SessionKill, TypeOK
    <3>3. -1 \in -1..MAX_TICK
      OBVIOUS
    <3>4. heard' \in [Slots -> -1..MAX_TICK]
      BY <2>4, <3>3 DEF SessionKill, TypeOK
    <3>5. acked' \in [Slots -> -1..MAX_TICK]
      BY <2>4, <3>3 DEF SessionKill, TypeOK
    <3>6. QED
      BY <3>2, <3>4, <3>5 DEF TypeOK
  <2>5. ASSUME NEW c \in Contexts, SessionReceived(c)
        PROVE  TypeOK'
    <3>1. held[c] \in Slots
      BY <2>5 DEF SessionReceived, Holds, TypeOK
    <3>2. sessions' \in [Slots -> Session]
      BY <3>1, <2>0, <2>5 DEF SessionReceived, TypeOK, Session
    <3>3. QED
      BY <3>1, <3>2, <2>5 DEF SessionReceived, TypeOK
  <2>6. ASSUME NEW c \in Contexts, SessionSent(c)
        PROVE  TypeOK'
    <3>1. held[c] \in Slots
      BY <2>6 DEF SessionSent, Holds, TypeOK
    <3>2. sessions' \in [Slots -> Session]
      BY <3>1, <2>0, <2>6 DEF SessionSent, TypeOK, Session
    <3>3. QED
      BY <3>1, <3>2, <2>6 DEF SessionSent, TypeOK
  <2>7. CASE SessionCheck
    <3>1. Zeroed \in Session
      BY <2>0 DEF Session, Zeroed
    <3>2. QED
      BY <3>1, <2>7 DEF SessionCheck, TypeOK
  <2>8. CASE UNCHANGED vars
    BY <2>8 DEF vars, TypeOK
  <2>9. QED
    BY <2>1, <2>2, <2>3, <2>4, <2>5, <2>6, <2>7, <2>8 DEF Next
<1>3. QED BY <1>1, <1>2, PTL DEF Spec

-----------------------------------------------------------------------------

(* The two invariants that make the stamps of the table trustworthy. *)
SafetyInv == TypeOK /\ FreeSlotsAreZeroed /\ StampsAreTrue

(* At the start no slot is live. *)
LEMMA SafetyInit == Init => SafetyInv
BY SessionAssumption
   DEF Init, SafetyInv, TypeOK, FreeSlotsAreZeroed, StampsAreTrue, Live,
       Session, Zeroed, Slots, Tokens, NULL, NoToken

(* Every step keeps the stamps true and the free slots zeroed. *)
LEMMA SafetyStep == TypeOK' /\ SafetyInv /\ [Next]_vars => SafetyInv'
<1> SUFFICES ASSUME TypeOK', SafetyInv, [Next]_vars
             PROVE  FreeSlotsAreZeroed' /\ StampsAreTrue'
  BY DEF SafetyInv
<1> USE SessionAssumption DEF SafetyInv
<1>0. tick \in Nat /\ StampOf(Stamp(tick), tick)
  BY StampRange DEF TypeOK
<1>1. CASE Tick
  <2>1. \A s \in Slots : heard[s] \in -1..MAX_TICK /\ acked[s] \in -1..MAX_TICK
    BY DEF TypeOK
  <2>2. QED
    BY <1>0, <1>1, <2>1 DEF Tick, FreeSlotsAreZeroed, StampsAreTrue, StampOf, Live
<1>2. ASSUME NEW c \in Contexts, NEW ip \in Hosts, NEW s \in Slots, SessionCreateAt(c, ip, s)
      PROVE  FreeSlotsAreZeroed' /\ StampsAreTrue'
  <2> DEFINE new == [token |-> LWIP_GetTickCount, loginIP |-> ip,
                     lastReceived |-> Stamp(tick), lastSent |-> 0]
  <2>1. LWIP_GetTickCount # NoToken
    BY SessionRecords
  <2>2. /\ tick' = tick
        /\ sessions'[s] = new /\ heard'[s] = tick /\ acked'[s] = -1
        /\ \A r \in Slots : r # s => /\ sessions'[r] = sessions[r]
                                    /\ heard'[r] = heard[r]
                                    /\ acked'[r] = acked[r]
    BY <1>2 DEF SessionCreateAt, TypeOK
  <2>3. FreeSlotsAreZeroed'
    BY <2>1, <2>2 DEF FreeSlotsAreZeroed, Live
  <2>4. QED
    BY <1>0, <2>1, <2>2, <2>3 DEF StampsAreTrue, StampOf, Live
<1>3. ASSUME UNCHANGED <<tick, sessions, heard, acked>>
      PROVE  FreeSlotsAreZeroed' /\ StampsAreTrue'
  BY <1>3 DEF FreeSlotsAreZeroed, StampsAreTrue, StampOf, Live
<1>4. ASSUME NEW c \in Contexts, SessionKill(c)
      PROVE  FreeSlotsAreZeroed' /\ StampsAreTrue'
  <2>1. held[c] \in Slots
    BY <1>4 DEF SessionKill, Holds, TypeOK
  <2>2. /\ tick' = tick
        /\ sessions'[held[c]] = Zeroed
        /\ \A r \in Slots : r # held[c] => /\ sessions'[r] = sessions[r]
                                          /\ heard'[r] = heard[r]
                                          /\ acked'[r] = acked[r]
    BY <1>4, <2>1 DEF SessionKill, TypeOK
  <2>3. QED
    BY <2>1, <2>2 DEF FreeSlotsAreZeroed, StampsAreTrue, StampOf, Live, Zeroed
<1>5. ASSUME NEW c \in Contexts, SessionReceived(c)
      PROVE  FreeSlotsAreZeroed' /\ StampsAreTrue'
  <2>1. held[c] \in Slots /\ Live(held[c])
    BY <1>5 DEF SessionReceived, Holds, TypeOK
  <2>2. /\ tick' = tick /\ acked' = acked
        /\ heard'[held[c]] = tick
        /\ sessions'[held[c]].token = sessions[held[c]].token
        /\ sessions'[held[c]].lastSent = sessions[held[c]].lastSent
        /\ sessions'[held[c]].lastReceived = Stamp(tick)
        /\ \A r \in Slots : r # held[c] => /\ sessions'[r] = sessions[r]
                                          /\ heard'[r] = heard[r]
    BY <1>5, <2>1 DEF SessionReceived, TypeOK, Session
  <2>3. QED
    BY <1>0, <2>1, <2>2 DEF FreeSlotsAreZeroed, StampsAreTrue, StampOf, Live
<1>6. ASSUME NEW c \in Contexts, SessionSent(c)
      PROVE  FreeSlotsAreZeroed' /\ StampsAreTrue'
  <2>1. held[c] \in Slots /\ Live(held[c])
    BY <1>6 DEF SessionSent, Holds, TypeOK
  <2>2. /\ tick' = tick /\ heard' = heard
        /\ acked'[held[c]] = tick
        /\ sessions'[held[c]].token = sessions[held[c]].token
        /\ sessions'[held[c]].lastReceived = sessions[held[c]].lastReceived
        /\ sessions'[held[c]].lastSent = Stamp(tick)
        /\ \A r \in Slots : r # held[c] => /\ sessions'[r] = sessions[r]
                                          /\ acked'[r] = acked[r]
    BY <1>6, <2>1 DEF SessionSent, TypeOK, Session
  <2>3. QED
    BY <1>0, <2>1, <2>2 DEF FreeSlotsAreZeroed, StampsAreTrue, StampOf, Live
<1>7. CASE SessionCheck
  <2>1. /\ tick' = tick
        /\ \A s \in Slots : \/ sessions'[s] = Zeroed
                            \/ /\ sessions'[s] = sessions[s]
                               /\ heard'[s] = heard[s]
                               /\ acked'[s] = acked[s]
    BY <1>7 DEF SessionCheck
  <2>2. QED
    BY <2>1 DEF FreeSlotsAreZeroed, StampsAreTrue, StampOf, Live, Zeroed
<1>8. QED
  BY <1>1, <1>2, <1>3, <1>4, <1>5, <1>6, <1>7
     DEF Next, SessionCreate, HeadersReceived, vars

(***************************************************************************)
(* No callback of a context that still points to a dead session brings     *)
(* data back into the freed slot, for any interleaving of contexts,        *)
(* logouts and sweeps.                                                     *)
(***************************************************************************)
THEOREM DeadSessionsStayDead == Spec => []FreeSlotsAreZeroed
<1>1. SafetyInv => FreeSlotsAreZeroed
  BY DEF SafetyInv
<1>2. QED
  BY <1>1, SafetyInit, SafetyStep, TypeCorrect, PTL DEF Spec

(***************************************************************************)
(* The stamps that SessionCheck judges a session by are those of its last  *)
(* request and its last acknowledged response, also across wrap-arounds of *)
(* the 32-bit counter and at the tick 0 that means "never".                *)
(***************************************************************************)
THEOREM StampsTellTheTruth == Spec => []StampsAreTrue
<1>1. SafetyInv => StampsAreTrue
  BY DEF SafetyInv
<1>2. QED
  BY <1>1, SafetyInit, SafetyStep, TypeCorrect, PTL DEF Spec

-----------------------------------------------------------------------------

(* The tick counter does not wrap around while the program runs. *)
NoWrap == MAX_TICK < TICK_MODULUS

(* Without a wrap-around, SessionCheck computes the true idle time, to one tick. *)
LEMMA ElapsedIsTrue ==
  ASSUME NoWrap, TypeOK, NEW t \in 0..tick, NEW stamp, StampOf(stamp, t)
  PROVE  Elapsed(stamp) \in {tick - t - 1, tick - t}
<1>1. tick \in Nat /\ t \in Nat /\ t < TICK_MODULUS /\ t <= tick
  BY SessionAssumption DEF NoWrap, TypeOK
<1>2. t % TICK_MODULUS = t
  BY <1>1, NoWrapStamp
<1>3. IF t = 0 THEN stamp = 1 ELSE stamp = t
  BY <1>2 DEF StampOf
<1>4. QED
  BY <1>1, <1>3, SessionAssumption DEF Elapsed

(***************************************************************************)
(* As long as the tick counter does not wrap around, no sweep throws a     *)
(* user out before the session was both unheard and unanswered for longer  *)
(* than the timeout.                                                       *)
(***************************************************************************)
THEOREM NobodyIsThrownOutEarly ==
  ASSUME NoWrap
  PROVE  Spec => NeverExpiresEarly
<1>1. ASSUME SafetyInv, SessionCheck, NEW s \in Slots, Killed(s)
      PROVE  tick - heard[s] > SESSION_TIMEOUT /\ tick - acked[s] > SESSION_TIMEOUT
  <2>1. Live(s) /\ TimedOut(s)
    BY <1>1 DEF SafetyInv, TypeOK, SessionCheck, Killed, Live
  <2>2. /\ heard[s] \in 0..tick
        /\ acked[s] \in -1..tick
        /\ StampOf(sessions[s].lastReceived, heard[s])
        /\ acked[s] # -1 => StampOf(sessions[s].lastSent, acked[s])
        /\ acked[s] = -1 => sessions[s].lastSent = 0
    BY <2>1, <1>1 DEF SafetyInv, StampsAreTrue
  <2>3. tick \in Nat /\ SESSION_TIMEOUT \in Nat
    BY <1>1, SessionAssumption DEF SafetyInv, TypeOK
  <2>4. tick - heard[s] > SESSION_TIMEOUT
    <3>1. Elapsed(sessions[s].lastReceived) \in {tick - heard[s] - 1, tick - heard[s]}
      BY <1>1, <2>2, ElapsedIsTrue DEF SafetyInv
    <3>2. QED
      BY <3>1, <2>1, <2>2, <2>3 DEF TimedOut
  <2>5. acked[s] # -1
    BY <2>1, <2>2, <2>3 DEF TimedOut, Elapsed
  <2>6. tick - acked[s] > SESSION_TIMEOUT
    <3>1. acked[s] \in 0..tick
      BY <2>2, <2>3, <2>5
    <3>2. Elapsed(sessions[s].lastSent) \in {tick - acked[s] - 1, tick - acked[s]}
      BY <1>1, <2>2, <2>5, <3>1, ElapsedIsTrue DEF SafetyInv
    <3>3. QED
      BY <3>1, <3>2, <2>1, <2>3 DEF TimedOut
  <2>7. QED
    BY <2>4, <2>6
<1>2. SafetyInv /\ [Next]_vars =>
        [\A s \in Slots : Killed(s) /\ SessionCheck =>
           /\ tick - heard[s] > SESSION_TIMEOUT
           /\ tick - acked[s] > SESSION_TIMEOUT]_vars
  BY <1>1
<1>3. QED
  BY <1>2, SafetyInit, SafetyStep, TypeCorrect, PTL DEF Spec, NeverExpiresEarly

(***************************************************************************)
(* As long as the tick counter does not wrap around, a sweep leaves no     *)
(* idle session behind that was answered once.                             *)
(***************************************************************************)
THEOREM SweepsAreComplete ==
  ASSUME NoWrap
  PROVE  Spec => []SweepTakesIdle
<1>1. Init => SweepTakesIdle
  BY SessionAssumption DEF Init, SweepTakesIdle, Live, Zeroed, Slots
<1>2. TypeOK' /\ SafetyInv /\ SweepTakesIdle /\ [Next]_vars => SweepTakesIdle'
  <2> SUFFICES ASSUME TypeOK', SafetyInv, SweepTakesIdle, [Next]_vars,
                      SESSION_TIMEOUT > 0,
                      NEW s \in Slots, Live(s)', acked'[s] # -1
               PROVE  (Recent(heard[s], checkedAt) \/ Recent(acked[s], checkedAt))'
    BY DEF SweepTakesIdle
  <2>0. /\ tick \in Nat /\ SESSION_TIMEOUT \in Nat /\ checkedAt \in -1..tick
        /\ checkedAt \in Int
    BY SessionAssumption DEF SafetyInv, TypeOK
  <2>1. CASE SessionCheck
    <3>1. /\ Live(s) /\ ~TimedOut(s) /\ checkedAt' = tick
          /\ heard'[s] = heard[s] /\ acked'[s] = acked[s]
      BY <2>1 DEF SessionCheck, Live, Zeroed
    <3>2. /\ heard[s] \in 0..tick /\ acked[s] \in 0..tick
          /\ StampOf(sessions[s].lastReceived, heard[s])
          /\ StampOf(sessions[s].lastSent, acked[s])
      BY <3>1, <2>0 DEF SafetyInv, StampsAreTrue
    <3>3. Elapsed(sessions[s].lastReceived) \in {tick - heard[s] - 1, tick - heard[s]}
      BY <3>2, ElapsedIsTrue DEF SafetyInv
    <3>4. Elapsed(sessions[s].lastSent) \in {tick - acked[s] - 1, tick - acked[s]}
      BY <3>2, ElapsedIsTrue DEF SafetyInv
    <3>5. QED
      BY <3>1, <3>2, <3>3, <3>4, <2>0 DEF TimedOut, Recent
  <2>2. CASE ~SessionCheck
    <3>1. checkedAt' = checkedAt
      BY <2>2 DEF Next, Tick, SessionCreate, SessionCreateAt, HeadersReceived,
                  SessionKill, SessionReceived, SessionSent, vars
    <3>2. \/ heard'[s] = tick
          \/ acked'[s] = tick
          \/ Live(s) /\ heard'[s] = heard[s] /\ acked'[s] = acked[s]
      <4>1. CASE \E c \in Contexts, ip \in Hosts : SessionCreate(c, ip)
        BY <4>1 DEF SessionCreate, SessionCreateAt, SafetyInv, TypeOK, Live
      <4>2. CASE \E c \in Contexts : SessionKill(c)
        BY <4>2 DEF SessionKill, Holds, SafetyInv, TypeOK, Live, Zeroed
      <4>3. CASE \E c \in Contexts : SessionReceived(c)
        BY <4>3 DEF SessionReceived, Holds, SafetyInv, TypeOK, Live
      <4>4. CASE \E c \in Contexts : SessionSent(c)
        BY <4>4 DEF SessionSent, Holds, SafetyInv, TypeOK, Live
      <4>5. CASE UNCHANGED <<sessions, heard, acked>>
        BY <4>5 DEF Live
      <4>6. QED
        BY <2>2, <4>1, <4>2, <4>3, <4>4, <4>5 DEF Next, Tick, HeadersReceived, vars
    <3>3. QED
      BY <3>1, <3>2, <2>0 DEF SweepTakesIdle, Recent
  <2>3. QED
    BY <2>1, <2>2
<1>3. QED
  BY <1>1, <1>2, SafetyInit, SafetyStep, TypeCorrect, PTL DEF Spec

=============================================================================
