---------------------------- MODULE Daedalus_proofs ----------------------------
(***************************************************************************)
(* Proofs about Daedalus: the types, the sockets, the escalation and the   *)
(* last login, for any number of logins and events.                        *)
(***************************************************************************)
EXTENDS Daedalus, TLAPS

Cycles == [pc : {"idle", "connect", "auth", "rotate"}, good : BOOLEAN,
           session : 0..MaxSessions, fresh : BOOLEAN]
ReplyKinds == {"ok", "rejected", "malformed", "incomplete", "transport"}

\* A cycle that has looked at the connection found it closed, and nobody else
\* opens it: what makes a socket of the cycle the only one there is.
OneConnector == cycle.pc # "idle" => lan # "open"

\* The invariant that the socket count needs.  TypeOK is part of it: the count
\* goes down only where it is one.
SocketInv == TypeOK /\ OneConnector /\ NoSocketLeftBehind

-----------------------------------------------------------------------------
(* What the pieces of a cycle give back.                                   *)

LEMMA IdleType == Idle \in Cycles /\ Idle.pc = "idle"
  BY DaedalusAssumption DEF Idle, Cycles

\* The end of a cycle, whichever it is, leaves entry and dialog in their ranges.
LEMMA EndTypes ==
  ASSUME TypeOK, NEW how, End(how)
  PROVE  /\ phase' \in {"setup", "loaded", "rejected"}
         /\ prompt' \in {"none", "open", "given", "setup"}
         /\ outcome' = how /\ cycle' = Idle
  BY DEF End, TypeOK

\* Every reply is one of the five kinds.
LEMMA ReplyTypes ==
  ASSUME NEW reply, reply \in Replies
  PROVE  reply \in ReplyKinds
  BY DEF Replies, ReplyKinds

\* However it escalates, the cycle is over or goes on to Gigya, and the outcome
\* is one of the two that ask for the password, or the one there was.
LEMMA EscalateResult ==
  ASSUME TypeOK, cycle.pc = "auth", Escalate
  PROVE  /\ cycle' \in Cycles
         /\ cycle'.pc \in {"idle", "rotate"}
         /\ cycle'.pc = "rotate" => ~cycle'.fresh
         /\ outcome' \in {"rejected", "missing", outcome}
         /\ phase' \in {"setup", "loaded", "rejected"}
         /\ prompt' \in {"none", "open", "given", "setup"}
  <1>1. CASE cycle.fresh
    BY <1>1, IdleType, EndTypes DEF Escalate
  <1>2. CASE ~cycle.fresh /\ entry.session = 0
    BY <1>2, IdleType, EndTypes DEF Escalate
  <1>3. CASE ~cycle.fresh /\ entry.session # 0
    <2>1. cycle' = [cycle EXCEPT !.pc = "rotate", !.session = entry.session] /\ UNCHANGED ended
      BY <1>3 DEF Escalate
    <2>2. cycle \in Cycles /\ entry.session \in 0..MaxSessions
      BY DEF TypeOK, Cycles
    <2>3. QED
      BY <1>3, <2>1, <2>2 DEF Cycles, ended, TypeOK
  <1>4. QED
    BY <1>1, <1>2, <1>3

-----------------------------------------------------------------------------
(* Types and sockets, which need each other.                               *)

\* Every step keeps the types and the socket count.
LEMMA StepKeepsSockets == SocketInv /\ [Next]_vars => SocketInv'
  <1> SUFFICES ASSUME SocketInv, [Next]_vars PROVE SocketInv'
    OBVIOUS
  <1>types. TypeOK
    BY DEF SocketInv
  <1>cycle. cycle \in Cycles /\ (cycle.pc = "rotate" => ~cycle.fresh)
    BY <1>types DEF TypeOK, Cycles
  <1>one. OneConnector /\ NoSocketLeftBehind
    BY DEF SocketInv
  <1> USE DaedalusAssumption DEF world, ended
  <1>1. CASE JwtExpires
    <2>1. cycle' \in Cycles /\ cycle'.pc = cycle.pc /\ cycle'.fresh = cycle.fresh
      BY <1>1, <1>cycle DEF JwtExpires, Cycles
    <2>2. TypeOK'
      <3>1. entry' \in [session : 0..MaxSessions, good : BOOLEAN]
        BY <1>1, <1>types DEF JwtExpires, TypeOK
      <3>2. events' \in 0..MaxEvents
        BY <1>1, <1>types DEF JwtExpires, Event, TypeOK
      <3>3. QED
        BY <1>1, <1>cycle, <1>types, <2>1, <3>1, <3>2 DEF JwtExpires, Event, TypeOK, Cycles
    <2>3. QED
      BY <1>1, <1>one, <2>1, <2>2 DEF SocketInv, OneConnector, NoSocketLeftBehind, JwtExpires
  <1>2. CASE SessionRevoked
    <2>1. revoked' \subseteq 1..MaxSessions
      <3>1. entry.session \in 0..MaxSessions /\ entry.session # 0
        BY <1>2, <1>types DEF SessionRevoked, TypeOK
      <3>2. entry.session \in 1..MaxSessions
        BY <3>1
      <3>3. revoked' = revoked \cup {entry.session} /\ revoked \subseteq 1..MaxSessions
        BY <1>2, <1>types DEF SessionRevoked, TypeOK
      <3>4. QED
        BY <3>2, <3>3
    <2>2. events' \in 0..MaxEvents
      BY <1>2, <1>types DEF SessionRevoked, Event, TypeOK
    <2>3. TypeOK'
      BY <1>2, <1>types, <2>1, <2>2 DEF SessionRevoked, Event, TypeOK
    <2>4. QED
      BY <1>2, <1>one, <2>3
      DEF SocketInv, OneConnector, NoSocketLeftBehind, SessionRevoked
  <1>3. CASE NetworkChanges
    BY <1>3, <1>one, <1>types
    DEF SocketInv, OneConnector, NoSocketLeftBehind, NetworkChanges, Event, TypeOK
  <1>4. CASE ConnectionDrops
    <2>1. cycle.pc = "idle" /\ sockets = 1
      BY <1>4, <1>one, <1>cycle DEF ConnectionDrops, OneConnector, NoSocketLeftBehind, Cycles
    <2>2. TypeOK'
      BY <1>4, <2>1, <1>types DEF ConnectionDrops, Event, TypeOK
    <2>3. QED
      BY <1>4, <2>1, <2>2
      DEF SocketInv, OneConnector, NoSocketLeftBehind, ConnectionDrops
  <1>5. CASE BeginCycle
    <2>1. CASE lan = "open"
      BY <1>5, <2>1, <1>one, <1>types, IdleType, EndTypes
      DEF BeginCycle, SocketInv, OneConnector, NoSocketLeftBehind, TypeOK, Cycles
    <2>2. CASE lan # "open"
      <3>1. cycle' \in Cycles /\ cycle'.pc = "connect"
        BY <1>5, <2>2, <1>types, IdleType DEF BeginCycle, Cycles, TypeOK
      <3>2. TypeOK'
        BY <1>5, <2>2, <3>1, <1>types DEF BeginCycle, TypeOK, Cycles
      <3>3. QED
        BY <1>5, <2>2, <3>1, <3>2, <1>one
        DEF BeginCycle, SocketInv, OneConnector, NoSocketLeftBehind
    <2>3. QED
      BY <2>1, <2>2
  <1>6. CASE Connect
    <2>1. cycle' \in Cycles /\ cycle'.pc = "auth"
      BY <1>6, <1>cycle DEF Connect, Cycles
    <2>2. TypeOK'
      BY <1>6, <2>1, <1>types DEF Connect, TypeOK, Cycles
    <2>3. QED
      BY <1>6, <2>1, <2>2, <1>one, <1>types
      DEF Connect, SocketInv, OneConnector, NoSocketLeftBehind, TypeOK
  <1>7. CASE ConnectFails
    BY <1>7, <1>one, <1>types, IdleType, EndTypes
    DEF ConnectFails, SocketInv, OneConnector, NoSocketLeftBehind, TypeOK, Cycles
  <1>8. ASSUME NEW reply \in ReplyKinds, Answer(reply) PROVE SocketInv'
    <2>1. lan # "open" /\ sockets = 1 /\ cycle.pc = "auth"
      BY <1>8, <1>one DEF Answer, OneConnector, NoSocketLeftBehind
    <2>2. /\ cycle' \in Cycles /\ cycle'.pc \in {"idle", "rotate"}
          /\ cycle'.pc = "rotate" => ~cycle'.fresh
          /\ outcome' \in {"ok", "failed", "rejected", "missing", outcome}
          /\ phase' \in {"setup", "loaded", "rejected"}
          /\ prompt' \in {"none", "open", "given", "setup"}
          /\ reply = "ok" => cycle'.pc = "idle"
      <3>1. CASE IsAuthError(reply)
        <4>1. Escalate /\ reply # "ok"
          BY <1>8, <3>1 DEF Answer, IsAuthError
        <4>2. QED
          BY <4>1, <2>1, <1>types, EscalateResult
      <3>2. CASE ~IsAuthError(reply)
        BY <1>8, <3>2, <1>types, IdleType, EndTypes DEF Answer
      <3>3. QED
        BY <3>1, <3>2
    <2>3. /\ lan' = (IF reply = "ok" THEN "open" ELSE lan)
          /\ sockets' = (IF reply = "ok" THEN 1 ELSE 0)
      BY <1>8, <2>1 DEF Answer, SocketsAfter
    <2>4. TypeOK'
      BY <1>8, <2>2, <2>3, <1>types DEF Answer, TypeOK, Cycles, ReplyKinds
    <2>5. QED
      BY <2>1, <2>2, <2>3, <2>4 DEF SocketInv, OneConnector, NoSocketLeftBehind
  <1>9. ASSUME NEW accepted \in BOOLEAN, Rotate(accepted) PROVE SocketInv'
    <2>1. cycle' \in Cycles /\ cycle'.pc = "connect"
      BY <1>9, <1>cycle DEF Rotate, Cycles
    <2>2. entry' \in [session : 0..MaxSessions, good : BOOLEAN]
      BY <1>9, <1>types DEF Rotate, Renewed, TypeOK
    <2>3. TypeOK'
      BY <1>9, <2>1, <2>2, <1>types DEF Rotate, TypeOK, Cycles
    <2>4. QED
      BY <1>9, <2>1, <2>3, <1>one
      DEF Rotate, SocketInv, OneConnector, NoSocketLeftBehind
  <1>10. CASE RotateRefused
    BY <1>10, <1>one, <1>types, IdleType, EndTypes
    DEF RotateRefused, SocketInv, OneConnector, NoSocketLeftBehind, TypeOK, Cycles
  <1>11. CASE RotateFails
    BY <1>11, <1>one, <1>types, IdleType, EndTypes
    DEF RotateFails, SocketInv, OneConnector, NoSocketLeftBehind, TypeOK, Cycles
  <1>12. CASE PasswordGiven
    BY <1>12, <1>one, <1>types
    DEF PasswordGiven, SocketInv, OneConnector, NoSocketLeftBehind, TypeOK
  <1>13. CASE Reload
    <2>1. TypeOK'
      BY <1>13, <1>types, IdleType DEF Reload, TypeOK, Cycles
    <2>2. QED
      BY <1>13, <2>1, IdleType DEF Reload, SocketInv, OneConnector, NoSocketLeftBehind
  <1>14. CASE UNCHANGED vars
    BY <1>14, <1>one, <1>types
    DEF vars, SocketInv, OneConnector, NoSocketLeftBehind, TypeOK
  <1>15. QED
    BY <1>1, <1>2, <1>3, <1>4, <1>5, <1>6, <1>7, <1>8, <1>9, <1>10, <1>11, <1>12,
       <1>13, <1>14
    DEF Next, CycleStep, ReplyKinds

LEMMA SocketInvHolds == Spec => []SocketInv
  <1>1. Init => SocketInv
    <2> SUFFICES ASSUME Init PROVE SocketInv
      OBVIOUS
    <2>1. newest \in 0..MaxSessions /\ 0 \in 0..MaxEvents
      BY DaedalusAssumption DEF Init
    <2>2. entry \in [session : 0..MaxSessions, good : BOOLEAN]
      BY <2>1 DEF Init
    <2>3. TypeOK
      BY <2>1, <2>2, IdleType DEF Init, TypeOK, Cycles
    <2>4. QED
      BY <2>3, IdleType DEF Init, SocketInv, OneConnector, NoSocketLeftBehind
  <1>2. QED
    BY <1>1, StepKeepsSockets, PTL DEF Spec

\* Every variable of the coordinator stays in its range, and a cycle renews the
\* JWT once at most.
THEOREM TypesHold == Spec => []TypeOK
  BY SocketInvHolds, PTL DEF SocketInv

\* No way a handshake can end leaves its WebSocket open (api.py: connect_lan).
THEOREM SocketsAccountedFor == Spec => []NoSocketLeftBehind
  BY SocketInvHolds, PTL DEF SocketInv

-----------------------------------------------------------------------------
(* Escalation.                                                             *)

\* A step that leaves the last answer, the outcome and the place in the cycle
\* alone escalates nothing.
LEMMA SameEscalation ==
  ASSUME EscalationNeedsAnswer, cycle'.pc = cycle.pc \/ cycle'.pc # "rotate",
         UNCHANGED <<heard, outcome>>
  PROVE  EscalationNeedsAnswer'
  BY DEF EscalationNeedsAnswer, AsksForPassword, Asks

\* The end of a cycle that does not ask for the password is no escalation.
LEMMA EndWithoutAsking ==
  ASSUME NEW how \in {"ok", "failed"}, End(how)
  PROVE  EscalationNeedsAnswer'
  BY IdleType DEF End, EscalationNeedsAnswer, AsksForPassword, Asks

\* Gigya and the user are asked only after an object that is not OK has come back on
\* the last AUTH frame (coordinator.py: DaedalusAuthError against every other error).
THEOREM EscalatesOnlyOnAnswer == Spec => []EscalationNeedsAnswer
  <1>1. Init => EscalationNeedsAnswer
    BY IdleType DEF Init, EscalationNeedsAnswer, AsksForPassword, Asks
  <1>2. TypeOK /\ EscalationNeedsAnswer /\ [Next]_vars => EscalationNeedsAnswer'
    <2> SUFFICES ASSUME TypeOK, EscalationNeedsAnswer, [Next]_vars
                 PROVE  EscalationNeedsAnswer'
      OBVIOUS
    <2> USE DEF ended
    <2>cycle. cycle \in Cycles
      BY DEF TypeOK, Cycles
    <2>1. CASE JwtExpires
      <3>1. cycle'.pc = cycle.pc
        BY <2>1, <2>cycle DEF JwtExpires, Cycles
      <3>2. QED
        BY <2>1, <3>1, SameEscalation DEF JwtExpires, Event
    <2>2. CASE SessionRevoked
      BY <2>2, SameEscalation DEF SessionRevoked, Event
    <2>3. CASE NetworkChanges
      BY <2>3, SameEscalation DEF NetworkChanges, Event
    <2>4. CASE ConnectionDrops
      BY <2>4, SameEscalation DEF ConnectionDrops, Event
    <2>5. CASE BeginCycle
      <3>1. CASE lan = "open"
        BY <2>5, <3>1, EndWithoutAsking DEF BeginCycle
      <3>2. CASE lan # "open"
        <4>1. cycle'.pc = "connect"
          BY <2>5, <3>2 DEF BeginCycle, Idle
        <4>2. QED
          BY <2>5, <3>2, <4>1, SameEscalation DEF BeginCycle
      <3>3. QED
        BY <3>1, <3>2
    <2>6. CASE Connect
      <3>1. cycle'.pc = "auth"
        BY <2>6, <2>cycle DEF Connect, Cycles
      <3>2. QED
        BY <2>6, <3>1, SameEscalation DEF Connect
    <2>7. CASE ConnectFails
      BY <2>7, EndWithoutAsking DEF ConnectFails
    <2>8. ASSUME NEW reply \in ReplyKinds, Answer(reply)
          PROVE  EscalationNeedsAnswer'
      <3>1. CASE IsAuthError(reply)
        BY <2>8, <3>1 DEF Answer, IsAuthError, EscalationNeedsAnswer
      <3>2. CASE ~IsAuthError(reply)
        <4>1. End("ok") \/ End("failed")
          BY <2>8, <3>2 DEF Answer
        <4>2. QED
          BY <4>1, EndWithoutAsking
      <3>3. QED
        BY <3>1, <3>2
    <2>9. ASSUME NEW accepted \in BOOLEAN, Rotate(accepted)
          PROVE  EscalationNeedsAnswer'
      <3>1. cycle'.pc = "connect"
        BY <2>9, <2>cycle DEF Rotate, Cycles
      <3>2. QED
        BY <2>9, <3>1, SameEscalation DEF Rotate
    <2>10. CASE RotateRefused
      BY <2>10 DEF RotateRefused, EscalationNeedsAnswer
    <2>11. CASE RotateFails
      BY <2>11, EndWithoutAsking DEF RotateFails
    <2>12. CASE PasswordGiven
      BY <2>12, SameEscalation DEF PasswordGiven
    <2>13. CASE Reload
      BY <2>13, IdleType DEF Reload, EscalationNeedsAnswer, AsksForPassword, Asks
    <2>14. CASE UNCHANGED vars
      BY <2>14, SameEscalation DEF vars
    <2>15. QED
      BY <2>1, <2>2, <2>3, <2>4, <2>5, <2>6, <2>7, <2>8, <2>9, <2>10, <2>11, <2>12,
         <2>13, <2>14
      DEF Next, CycleStep, ReplyKinds
  <1>3. QED
    BY <1>1, <1>2, TypesHold, PTL DEF Spec

-----------------------------------------------------------------------------
(* The last login.                                                         *)

\* The session token of the last login stays in the entry, whichever cycle was
\* in flight when it came (coordinator.py: _ensure_connected stores only the JWT).
THEOREM LastLoginKept == Spec => []LoginKept
  <1>1. Init => LoginKept
    BY DEF Init, LoginKept
  <1>2. TypeOK /\ LoginKept /\ [Next]_vars => LoginKept'
    <2> SUFFICES ASSUME TypeOK, LoginKept, [Next]_vars PROVE LoginKept'
      OBVIOUS
    <2>1. entry \in [session : 0..MaxSessions, good : BOOLEAN]
      BY DEF TypeOK
    <2>2. CASE JwtExpires
      BY <2>1, <2>2 DEF JwtExpires, Event, LoginKept
    <2>3. ASSUME NEW accepted \in BOOLEAN, Rotate(accepted) PROVE LoginKept'
      BY <2>1, <2>3 DEF Rotate, Renewed, LoginKept
    <2>4. CASE PasswordGiven
      BY <2>4 DEF PasswordGiven, LoginKept
    <2>5. ASSUME NEW reply \in ReplyKinds, Answer(reply) PROVE LoginKept'
      BY <2>5 DEF Answer, LoginKept
    <2>6. ASSUME UNCHANGED <<entry, newest>> PROVE LoginKept'
      BY <2>6 DEF LoginKept
    <2>7. QED
      BY <2>2, <2>3, <2>4, <2>5, <2>6
      DEF Next, CycleStep, ReplyKinds, SessionRevoked, NetworkChanges, ConnectionDrops, Event,
          BeginCycle, Connect, ConnectFails, RotateRefused, RotateFails, Reload, vars
  <1>3. QED
    BY <1>1, <1>2, TypesHold, PTL DEF Spec

=============================================================================
