-------------------------- MODULE CloudClient_proofs --------------------------
(***************************************************************************)
(* Proofs about the two halves of the cloud client, class DeLonghiApi.     *)
(* CloudAuth, for any number of threads, attempts and troubles: the types, *)
(* that one thread at a time exchanges the token, that a token is never    *)
(* replaced by an older one, and that a read survives one trouble.         *)
(* SendCommand and Brewing, for any number of commands and attempts: that  *)
(* the whole way of a command is one of send_command, and what a machine   *)
(* and a user are told.  The halves share the class and RETRY_COUNT, which *)
(* CloudAuth calls Attempts, and no state.  Of a press: that it brews what *)
(* was pressed, and that the bytes of its command say so.                  *)
(***************************************************************************)
EXTENDS CloudAuth, Brewing, WellFoundedInduction, SequenceTheorems, FiniteSetTheorems, TLAPS

-----------------------------------------------------------------------------
(* Types.                                                                  *)

CallTypeOK ==
  /\ kind \in [Threads -> {"read", "command"}]
  /\ pc \in [Threads -> PcState]
  /\ attempt \in [Threads -> 1 .. Attempts]
  /\ held \in [Threads -> Nat]
  /\ granted \in [Threads -> Nat]

TokenTypeOK ==
  /\ token \in Nat
  /\ fresh \in BOOLEAN
  /\ tokenLock \in Threads \cup {0}
  /\ lastReauth \in Nat /\ lastWrite \in Nat

CloudTypeOK ==
  /\ issued \in Nat
  /\ live \subseteq Nat
  /\ now \in Nat

FaultTypeOK == revocations \in Nat /\ expiries \in Nat /\ faults \in Nat

Types == CallTypeOK /\ TokenTypeOK /\ CloudTypeOK /\ FaultTypeOK

\* A step that leaves the calls, the token, the cloud or the count of the troubles
\* alone keeps their types.
LEMMA SameCalls == ASSUME CallTypeOK, UNCHANGED callVars PROVE CallTypeOK'
  BY DEF CallTypeOK, callVars

LEMMA SameToken == ASSUME TokenTypeOK, UNCHANGED tokenVars PROVE TokenTypeOK'
  BY DEF TokenTypeOK, tokenVars

LEMMA SameCloud == ASSUME CloudTypeOK, UNCHANGED <<cloudVars, now>> PROVE CloudTypeOK'
  BY DEF CloudTypeOK, cloudVars

LEMMA SameFaults == ASSUME FaultTypeOK, UNCHANGED faultVars PROVE FaultTypeOK'
  BY DEF FaultTypeOK, faultVars

LEMMA FaultTypes == ASSUME FaultTypeOK, Fault PROVE FaultTypeOK'
  BY DEF FaultTypeOK, Fault

\* A thread that goes on stands where a thread can stand.
LEMMA GotoTypes ==
  ASSUME CallTypeOK, NEW t \in Threads, NEW where \in PcState, Goto(t, where),
         UNCHANGED <<kind, attempt, held, granted>>
  PROVE  CallTypeOK'
  BY DEF CallTypeOK, Goto

\* An attempt that fails is followed by another, if one is left.
LEMMA AttemptTypes ==
  ASSUME CallTypeOK, NEW t \in Threads, AttemptFails(t), UNCHANGED <<kind, held, granted>>
  PROVE  CallTypeOK'
  <1>1. CASE attempt[t] < Attempts
    BY <1>1, CloudAuthAssumption DEF CallTypeOK, AttemptFails, Goto, PcState
  <1>2. CASE ~(attempt[t] < Attempts)
    BY <1>2 DEF CallTypeOK, AttemptFails, Goto, PcState, Ended
  <1>3. QED
    BY <1>1, <1>2

\* One step of one thread keeps the types.
LEMMA StepTypes == ASSUME Types, NEW t \in Threads, Begin(t) \/ Step(t) PROVE Types'
  <1> USE DEF Types
  <1> USE SameToken, SameCloud, SameFaults, FaultTypes
  <1>1. CASE Begin(t) \/ TokenFresh(t)
    BY <1>1, GotoTypes DEF Begin, TokenFresh, PcState
  <1>2. CASE TokenStale(t)
    BY <1>2, GotoTypes DEF TokenStale, Acquire, TokenTypeOK, PcState, InLock
  <1>3. CASE Recheck(t)
    <2>1. CallTypeOK'
      BY <1>3, GotoTypes DEF Recheck, PcState, InLock
    <2>2. QED
      BY <1>3, <2>1 DEF Recheck, Unlock, TokenTypeOK
  <1>4. CASE ReadToken(t)
    BY <1>4 DEF ReadToken, Goto, CallTypeOK, TokenTypeOK, PcState
  <1>5. CASE Answered(t)
    BY <1>5, GotoTypes DEF Answered, PcState, Ended
  <1>6. CASE RequestFails(t)
    BY <1>6, AttemptTypes DEF RequestFails
  <1>7. CASE Unauthorized(t)
    <2>1. CASE kind[t] = "read"
      BY <1>7, <2>1, GotoTypes DEF Unauthorized, PcState
    <2>2. CASE kind[t] # "read"
      BY <1>7, <2>2, AttemptTypes DEF Unauthorized
    <2>3. QED
      BY <2>1, <2>2
  <1>8. CASE Dedup(t)
    BY <1>8, AttemptTypes DEF Dedup
  <1>9. CASE Reauthenticate(t)
    BY <1>9, GotoTypes DEF Reauthenticate, Acquire, TokenTypeOK, PcState, InLock
  <1>10. CASE CloudIssues(t)
    <2>1. Issued(pc[t]) \in PcState
      BY <1>10 DEF CloudIssues, Exchanging, Issued, PcState, InLock
    <2>2. issued + 1 \in Nat
      BY DEF CloudTypeOK
    <2>3. QED
      BY <1>10, <2>1, <2>2 DEF CloudIssues, Goto, CallTypeOK, CloudTypeOK
  <1>11. CASE StoreToken(t)
    <2>1. CallTypeOK'
      <3>1. CASE pc[t] = "reauthed"
        BY <1>11, <3>1, AttemptTypes DEF StoreToken
      <3>2. CASE pc[t] # "reauthed"
        BY <1>11, <3>2, GotoTypes DEF StoreToken, PcState
      <3>3. QED
        BY <3>1, <3>2
    <2>2. TokenTypeOK'
      BY <1>11 DEF StoreToken, Unlock, CallTypeOK, TokenTypeOK, CloudTypeOK
    <2>3. QED
      BY <1>11, <2>1, <2>2 DEF StoreToken
  <1>12. CASE RefreshFails(t)
    BY <1>12, GotoTypes DEF RefreshFails, PcState, InLock
  <1>13. CASE AuthDenied(t)
    <2>1. CallTypeOK'
      BY <1>13, GotoTypes DEF AuthDenied, PcState, Ended
    <2>2. QED
      BY <1>13, <2>1 DEF AuthDenied, Unlock, TokenTypeOK
  <1>14. CASE AuthUnreachable(t)
    <2>1. CallTypeOK'
      <3>1. CASE pc[t] \in {"auth", "authed"}
        BY <1>14, <3>1, AttemptTypes DEF AuthUnreachable
      <3>2. CASE pc[t] \notin {"auth", "authed"}
        BY <1>14, <3>2, GotoTypes DEF AuthUnreachable, PcState, Ended
      <3>3. QED
        BY <3>1, <3>2
    <2>2. QED
      BY <1>14, <2>1 DEF AuthUnreachable, Unlock, TokenTypeOK
  <1>15. QED
    BY <1>1, <1>2, <1>3, <1>4, <1>5, <1>6, <1>7, <1>8, <1>9, <1>10, <1>11, <1>12, <1>13, <1>14
    DEF Step

\* For every value of the constants every variable stays in its range.
THEOREM TypesHold == Spec => []TypeOK
  <1>1. Init => Types
    BY CloudAuthAssumption
    DEF Init, Types, CallTypeOK, TokenTypeOK, CloudTypeOK, FaultTypeOK, PcState
  <1>2. Types /\ [Next]_vars => Types'
    <2> SUFFICES ASSUME Types, [Next]_vars PROVE Types'
      OBVIOUS
    <2> USE DEF Types
    <2>1. CASE Tick
      BY <2>1, SameCalls, SameToken, SameFaults DEF Tick, cloudVars, CloudTypeOK
    <2>2. CASE Revoke
      BY <2>2, SameCalls, SameToken DEF Revoke, CloudTypeOK, FaultTypeOK
    <2>3. CASE Expire
      <3>1. TokenTypeOK'
        BY <2>3 DEF Expire, TokenTypeOK
      <3>2. FaultTypeOK'
        BY <2>3 DEF Expire, FaultTypeOK
      <3>3. QED
        BY <2>3, <3>1, <3>2, SameCalls, SameCloud DEF Expire
    <2>4. CASE UNCHANGED vars
      BY <2>4, SameCalls, SameToken, SameCloud, SameFaults DEF vars
    <2>5. QED
      BY <2>1, <2>2, <2>3, <2>4, StepTypes DEF Next
  <1>3. Types => TypeOK
    BY DEF Types, CallTypeOK, TokenTypeOK, CloudTypeOK, FaultTypeOK, TypeOK
  <1>4. QED
    BY <1>1, <1>2, <1>3, PTL DEF Spec

-----------------------------------------------------------------------------
(* The token.                                                              *)

\* Who exchanges the token, or has one to write, holds the lock.
ExchangeIsLocked == \A t \in Threads : pc[t] \in InLock => tokenLock = t

\* What there is to write is newer than what there is.
Answers == {"refreshed", "authed", "reauthed"}
AnswerIsNewer ==
  /\ token <= issued
  /\ \A t \in Threads : pc[t] \in Answers => granted[t] > token /\ granted[t] <= issued

TokenInv == ExchangeIsLocked /\ AnswerIsNewer

\* A thread that leaves the lock, or stays outside, without touching the token.
LEMMA OutsideStep ==
  ASSUME TypeOK, TokenInv, NEW t \in Threads,
         \A u \in Threads \ {t} : pc'[u] = pc[u],
         pc'[t] \notin InLock, UNCHANGED <<token, issued, granted>>,
         tokenLock' = tokenLock \/ (tokenLock = t /\ tokenLock' = 0)
  PROVE  TokenInv'
  <1>1. \A u \in Threads \ {t} : pc[u] \in InLock => tokenLock' = u
    BY DEF TokenInv, ExchangeIsLocked
  <1>2. ExchangeIsLocked'
    BY <1>1 DEF ExchangeIsLocked
  <1>3. AnswerIsNewer'
    BY DEF TokenInv, AnswerIsNewer, Answers, InLock
  <1>4. QED
    BY <1>2, <1>3 DEF TokenInv

\* A thread that enters the lock, or goes on in it, without touching the token.
LEMMA InsideStep ==
  ASSUME TypeOK, TokenInv, NEW t \in Threads,
         \A u \in Threads \ {t} : pc'[u] = pc[u],
         pc'[t] \notin Answers, UNCHANGED <<token, issued, granted>>,
         tokenLock \in {0, t}, tokenLock' = t
  PROVE  TokenInv'
  <1>1. \A u \in Threads \ {t} : pc[u] \notin InLock
    BY CloudAuthAssumption DEF TokenInv, ExchangeIsLocked
  <1>2. ExchangeIsLocked' /\ AnswerIsNewer'
    BY <1>1 DEF TokenInv, ExchangeIsLocked, AnswerIsNewer, Answers, InLock
  <1>3. QED
    BY <1>2 DEF TokenInv

\* Where a failed attempt leads to.
LEMMA AttemptPc ==
  ASSUME TypeOK, NEW t \in Threads, AttemptFails(t)
  PROVE  pc'[t] \notin InLock /\ \A u \in Threads \ {t} : pc'[u] = pc[u]
  BY DEF TypeOK, AttemptFails, Goto, InLock

LEMMA GotoPc ==
  ASSUME TypeOK, NEW t \in Threads, NEW where, Goto(t, where)
  PROVE  pc'[t] = where /\ \A u \in Threads \ {t} : pc'[u] = pc[u]
  BY DEF TypeOK, Goto

\* One step of one thread keeps TokenInv, and a new token is newer.
LEMMA TokenStep ==
  ASSUME TypeOK, TokenInv, NEW t \in Threads, Begin(t) \/ Step(t)
  PROVE  TokenInv' /\ token' >= token
  <1>0. token \in Nat /\ issued \in Nat /\ granted[t] \in Nat /\ t # 0
    BY CloudAuthAssumption DEF TypeOK
  <1>1. ASSUME pc[t] \in InLock PROVE tokenLock = t
    BY <1>1 DEF TokenInv, ExchangeIsLocked
  <1>2. CASE Begin(t) \/ TokenFresh(t) \/ ReadToken(t) \/ Answered(t)
    <2>1. pc'[t] \notin InLock /\ \A u \in Threads \ {t} : pc'[u] = pc[u]
      BY <1>2, GotoPc DEF Begin, TokenFresh, ReadToken, Answered, InLock
    <2>2. QED
      BY <1>0, <1>2, <2>1, OutsideStep
      DEF Begin, TokenFresh, ReadToken, Answered, tokenVars, cloudVars
  <1>3. CASE RequestFails(t) \/ Unauthorized(t) \/ Dedup(t)
    <2>1. pc'[t] \notin InLock /\ \A u \in Threads \ {t} : pc'[u] = pc[u]
      BY <1>3, GotoPc, AttemptPc DEF RequestFails, Unauthorized, Dedup, InLock
    <2>2. QED
      BY <1>0, <1>3, <2>1, OutsideStep DEF RequestFails, Unauthorized, Dedup, tokenVars, cloudVars
  <1>4. CASE TokenStale(t) \/ Reauthenticate(t)
    <2>1. pc'[t] \notin Answers /\ \A u \in Threads \ {t} : pc'[u] = pc[u]
      BY <1>4, GotoPc DEF TokenStale, Reauthenticate, Answers
    <2>2. QED
      BY <1>0, <1>4, <2>1, InsideStep DEF TokenStale, Reauthenticate, Acquire, cloudVars
  <1>5. CASE Recheck(t)
    <2>1. tokenLock = t /\ UNCHANGED <<token, issued, granted>>
      BY <1>1, <1>5 DEF Recheck, InLock, cloudVars
    <2>2. CASE fresh
      BY <1>0, <1>5, <2>1, <2>2, GotoPc, OutsideStep DEF Recheck, Unlock, InLock
    <2>3. CASE ~fresh
      BY <1>0, <1>5, <2>1, <2>3, GotoPc, InsideStep DEF Recheck, Answers
    <2>4. QED
      BY <2>2, <2>3
  <1>6. CASE RefreshFails(t)
    <2>1. tokenLock = t
      BY <1>1, <1>6 DEF RefreshFails, InLock
    <2>2. QED
      BY <1>0, <1>6, <2>1, GotoPc, InsideStep DEF RefreshFails, Answers, tokenVars, cloudVars
  <1>7. CASE AuthDenied(t) \/ AuthUnreachable(t)
    <2>1. tokenLock = t
      BY <1>1, <1>7 DEF AuthDenied, AuthUnreachable, InLock
    <2>2. pc'[t] \notin InLock /\ \A u \in Threads \ {t} : pc'[u] = pc[u]
      BY <1>7, GotoPc, AttemptPc DEF AuthDenied, AuthUnreachable, InLock
    <2>3. QED
      BY <1>0, <1>7, <2>1, <2>2, OutsideStep DEF AuthDenied, AuthUnreachable, Unlock, cloudVars
  <1>8. CASE CloudIssues(t)
    <2>1. tokenLock = t /\ UNCHANGED <<token, tokenLock>> /\ issued' = issued + 1
      BY <1>1, <1>8 DEF CloudIssues, Exchanging, InLock, tokenVars
    <2>2. \A u \in Threads : pc'[u] \in InLock => u = t
      BY <1>8, <2>1, GotoPc DEF CloudIssues, TokenInv, ExchangeIsLocked
    <2>3. granted'[t] = issued + 1
      BY <1>8 DEF CloudIssues, TypeOK
    <2>4. AnswerIsNewer'
      BY <1>0, <2>1, <2>2, <2>3 DEF TokenInv, AnswerIsNewer, Answers, InLock
    <2>5. QED
      BY <1>0, <2>1, <2>2, <2>4 DEF TokenInv, ExchangeIsLocked
  <1>9. CASE StoreToken(t)
    <2>1. tokenLock = t /\ tokenLock' = 0 /\ UNCHANGED <<issued, granted>> /\ token' = granted[t]
      BY <1>1, <1>9 DEF StoreToken, InLock, Unlock, cloudVars
    <2>2. token' > token /\ token' <= issued
      BY <1>9, <2>1 DEF StoreToken, TokenInv, AnswerIsNewer, Answers
    <2>3. pc'[t] \notin InLock /\ \A u \in Threads \ {t} : pc'[u] = pc[u]
      BY <1>9, GotoPc, AttemptPc DEF StoreToken, InLock
    <2>4. \A u \in Threads : pc'[u] \notin InLock
      BY <2>1, <2>3 DEF TokenInv, ExchangeIsLocked
    <2>5. QED
      BY <1>0, <2>1, <2>2, <2>4 DEF TokenInv, ExchangeIsLocked, AnswerIsNewer, Answers, InLock
  <1>10. QED
    BY <1>2, <1>3, <1>4, <1>5, <1>6, <1>7, <1>8, <1>9 DEF Step

\* The initial states satisfy TokenInv, and every step keeps it.
LEMMA TokenInit == Init => TokenInv
  BY DEF Init, TokenInv, ExchangeIsLocked, AnswerIsNewer, InLock, Answers

LEMMA TokenNext == TypeOK /\ TokenInv /\ [Next]_vars => TokenInv' /\ token' >= token
  <1> SUFFICES ASSUME TypeOK, TokenInv, [Next]_vars PROVE TokenInv' /\ token' >= token
    OBVIOUS
  <1>1. ASSUME UNCHANGED <<pc, granted, token, tokenLock, issued>>
        PROVE  TokenInv' /\ token' >= token
    BY <1>1 DEF TokenInv, ExchangeIsLocked, AnswerIsNewer, TypeOK
  <1>2. CASE Tick \/ Revoke \/ Expire \/ UNCHANGED vars
    BY <1>1, <1>2 DEF Tick, Revoke, Expire, vars, callVars, tokenVars, cloudVars
  <1>3. QED
    BY <1>2, TokenStep DEF Next

\* For every value of the constants: the client never falls back to an older token.
THEOREM TokenGrows == Spec => TokenNeverGoesBack
  BY TokenInit, TokenNext, TypesHold, PTL DEF Spec, TokenNeverGoesBack

\* For every value of the constants: one thread at a time exchanges the token or logs
\* in, under the token lock.
THEOREM ExchangesAreLocked == Spec => []ExchangeIsLocked
  <1>1. TokenInv => ExchangeIsLocked
    BY DEF TokenInv
  <1>2. QED
    BY <1>1, TokenInit, TokenNext, TypesHold, PTL DEF Spec

-----------------------------------------------------------------------------
(* One trouble.                                                            *)

\* The cloud forgets old tokens first: what it accepts is a newest part of what
\* it has issued, and all of it before the first revocation.
NewestLive ==
  /\ live \subseteq 1 .. issued
  /\ \A n \in live : \A m \in 1 .. issued : m >= n => m \in live
  /\ revocations = 0 => live = 1 .. issued

\* From a 401 to the end of the login it asks for.
LoggingIn == {"refused", "reauth", "reauthed"}

\* A login after a 401 comes after the one revocation, so what it obtains is good.
LoginHelps ==
  /\ token # 0
  /\ revocations = 0 => lastReauth = 0
  /\ lastReauth # 0 => token \in live
  /\ \A t \in Threads : pc[t] = "reauthed" => granted[t] \in live

\* The 401 of a command does not reach the branch that logs in.
OnlyReadsLogIn == \A t \in Threads : pc[t] \in LoggingIn => kind[t] = "read"

\* What a read has been through: a trouble costs it one attempt, and with the
\* revocation behind it, it goes on with a good token.
ReadSurvives(t) ==
  /\ pc[t] # "apiError"
  /\ attempt[t] <= 1 + revocations + faults
  /\ pc[t] = "request" => held[t] \in 1 .. issued
  /\ pc[t] \in LoggingIn => revocations = 1 /\ attempt[t] = 1
  /\ revocations = 1 /\ attempt[t] = 2
       => token \in live /\ (pc[t] = "request" => held[t] \in live)

Survival ==
  /\ NewestLive /\ LoginHelps /\ OnlyReadsLogIn
  /\ \A t \in Threads : kind[t] = "read" => ReadSurvives(t)

SurvivalInv == revocations + faults <= 1 => Survival

\* A call that a step does not touch survives it.
LEMMA OthersSurvive ==
  ASSUME TypeOK, TypeOK', NEW u \in Threads, ReadSurvives(u),
         pc'[u] = pc[u], attempt'[u] = attempt[u], held'[u] = held[u],
         revocations' = revocations, faults <= faults', issued <= issued',
         live \subseteq live', token \in live => token' \in live'
  PROVE  ReadSurvives(u)'
  <1>1. /\ issued \in Nat /\ issued' \in Nat /\ faults \in Nat /\ faults' \in Nat
        /\ revocations \in Nat /\ attempt[u] \in Nat
    BY CloudAuthAssumption DEF TypeOK
  <1>2. 1 .. issued \subseteq 1 .. issued'
    BY <1>1
  <1>3. attempt'[u] <= 1 + revocations' + faults'
    BY <1>1 DEF ReadSurvives
  <1>4. QED
    BY <1>2, <1>3 DEF ReadSurvives

\* A step that leaves the token and the cloud alone survives if its own call does.
LEMMA CalmStep ==
  ASSUME TypeOK, TypeOK', Survival, NEW t \in Threads,
         \A u \in Threads \ {t} : /\ pc'[u] = pc[u] /\ attempt'[u] = attempt[u]
                                  /\ held'[u] = held[u],
         UNCHANGED <<kind, granted, token, live, issued, lastReauth, revocations>>,
         faults <= faults', pc'[t] # "reauthed",
         pc'[t] \in LoggingIn => kind[t] = "read",
         kind[t] = "read" => ReadSurvives(t)'
  PROVE  Survival'
  <1>1. NewestLive'
    BY DEF Survival, NewestLive
  <1>2. LoginHelps'
    BY DEF Survival, LoginHelps
  <1>3. OnlyReadsLogIn'
    BY DEF Survival, OnlyReadsLogIn
  <1>4. \A u \in Threads \ {t} : kind[u] = "read" => ReadSurvives(u)'
    <2>1. issued <= issued'
      BY DEF TypeOK
    <2>2. QED
      BY <2>1, OthersSurvive DEF Survival
  <1>5. QED
    BY <1>1, <1>2, <1>3, <1>4 DEF Survival

\* What a failed attempt leaves.
LEMMA AttemptResult ==
  ASSUME TypeOK, NEW t \in Threads, AttemptFails(t)
  PROVE  /\ \A u \in Threads \ {t} : pc'[u] = pc[u] /\ attempt'[u] = attempt[u]
         /\ attempt[t] < Attempts => pc'[t] = "headers" /\ attempt'[t] = attempt[t] + 1
         /\ pc'[t] \in {"headers", "apiError"}
  <1>1. CASE attempt[t] < Attempts
    BY <1>1 DEF TypeOK, AttemptFails, Goto
  <1>2. CASE ~(attempt[t] < Attempts)
    BY <1>2 DEF TypeOK, AttemptFails, Goto
  <1>3. QED
    BY <1>1, <1>2

\* One step of one thread, with one trouble at most behind it.
LEMMA SurvivalStep ==
  ASSUME Attempts >= 2, TypeOK, TypeOK', TokenInv, Survival,
         revocations' + faults' <= 1, NEW t \in Threads, Begin(t) \/ Step(t)
  PROVE  Survival'
  <1>t. /\ revocations \in Nat /\ faults \in Nat /\ issued \in Nat /\ token \in Nat
        /\ Attempts \in Nat /\ attempt[t] \in Nat /\ attempt[t] >= 1
        /\ revocations' \in Nat /\ faults' \in Nat
    BY CloudAuthAssumption DEF TypeOK
  <1>r. kind[t] = "read" => ReadSurvives(t)
    BY DEF Survival
  <1>k. pc[t] \in LoggingIn => kind[t] = "read"
    BY DEF Survival, OnlyReadsLogIn
  <1>1. CASE Begin(t) \/ TokenFresh(t) \/ TokenStale(t) \/ RefreshFails(t)
    <2>1. pc'[t] \in {"headers", "read", "recheck", "auth"}
          /\ \A u \in Threads \ {t} : pc'[u] = pc[u]
      BY <1>1, GotoPc DEF Begin, TokenFresh, TokenStale, RefreshFails
    <2>2. UNCHANGED <<kind, attempt, held, granted, token, lastReauth, live, issued,
                      revocations, faults>>
      BY <1>1 DEF Begin, TokenFresh, TokenStale, RefreshFails, tokenVars, cloudVars, faultVars
    <2>3. kind[t] = "read" => ReadSurvives(t)'
      BY <1>r, <2>1, <2>2 DEF ReadSurvives, LoggingIn
    <2>4. QED
      BY <1>t, <2>1, <2>2, <2>3, CalmStep DEF LoggingIn
  <1>2. CASE Recheck(t)
    <2>1. pc'[t] \in {"read", "refresh"} /\ \A u \in Threads \ {t} : pc'[u] = pc[u]
      BY <1>2, GotoPc DEF Recheck
    <2>2. UNCHANGED <<kind, attempt, held, granted, token, lastReauth, live, issued,
                      revocations, faults>>
      BY <1>2 DEF Recheck, cloudVars, faultVars
    <2>3. kind[t] = "read" => ReadSurvives(t)'
      BY <1>r, <2>1, <2>2 DEF ReadSurvives, LoggingIn
    <2>4. QED
      BY <1>t, <2>1, <2>2, <2>3, CalmStep DEF LoggingIn
  <1>3. CASE ReadToken(t)
    <2>1. pc'[t] = "request" /\ held'[t] = token
          /\ \A u \in Threads \ {t} : pc'[u] = pc[u] /\ held'[u] = held[u]
      BY <1>3, GotoPc DEF ReadToken, TypeOK
    <2>2. UNCHANGED <<kind, attempt, granted, token, lastReauth, live, issued,
                      revocations, faults>>
      BY <1>3 DEF ReadToken, tokenVars, cloudVars, faultVars
    <2>3. token \in 1 .. issued
      BY <1>t DEF Survival, LoginHelps, TokenInv, AnswerIsNewer
    <2>4. kind[t] = "read" => ReadSurvives(t)'
      BY <1>r, <2>1, <2>2, <2>3 DEF ReadSurvives, LoggingIn
    <2>5. QED
      BY <1>t, <2>1, <2>2, <2>4, CalmStep DEF LoggingIn
  <1>4. CASE Answered(t)
    <2>1. pc'[t] \in {"done", "notFound"} /\ \A u \in Threads \ {t} : pc'[u] = pc[u]
      BY <1>4, GotoPc DEF Answered
    <2>2. UNCHANGED <<kind, attempt, held, granted, token, lastReauth, live, issued,
                      revocations, faults>>
      BY <1>4 DEF Answered, tokenVars, cloudVars, faultVars
    <2>3. kind[t] = "read" => ReadSurvives(t)'
      BY <1>r, <2>1, <2>2 DEF ReadSurvives, LoggingIn
    <2>4. QED
      BY <1>t, <2>1, <2>2, <2>3, CalmStep DEF LoggingIn
  <1>5. CASE RequestFails(t)
    <2>1. revocations = 0 /\ faults = 0 /\ faults' = 1 /\ revocations' = 0
      BY <1>t, <1>5 DEF RequestFails, Fault
    <2>2. UNCHANGED <<kind, held, granted, token, lastReauth, live, issued>>
      BY <1>5 DEF RequestFails, tokenVars, cloudVars
    <2>3. kind[t] = "read" => ReadSurvives(t)'
      <3> SUFFICES ASSUME kind[t] = "read" PROVE ReadSurvives(t)'
        OBVIOUS
      <3>1. attempt[t] = 1
        BY <1>t, <1>r, <2>1 DEF ReadSurvives
      <3>2. pc'[t] = "headers" /\ attempt'[t] = 2
        BY <1>5, <1>t, <3>1, AttemptResult DEF RequestFails
      <3>3. QED
        BY <2>1, <3>2 DEF ReadSurvives, LoggingIn
    <2>4. QED
      BY <1>5, <1>t, <2>1, <2>2, <2>3, AttemptResult, CalmStep DEF RequestFails, LoggingIn
  <1>6. CASE Unauthorized(t)
    <2>1. UNCHANGED <<kind, held, granted, token, lastReauth, live, issued, revocations, faults>>
      BY <1>6 DEF Unauthorized, tokenVars, cloudVars, faultVars
    <2>2. CASE kind[t] = "read"
      <3>1. pc'[t] = "refused" /\ attempt' = attempt /\ \A u \in Threads \ {t} : pc'[u] = pc[u]
        BY <1>6, <2>2, GotoPc DEF Unauthorized
      <3>2. pc[t] = "request" /\ held[t] \notin live
        BY <1>6 DEF Unauthorized
      <3>3. revocations # 0
        BY <1>r, <2>2, <3>2 DEF ReadSurvives, Survival, NewestLive
      <3>4. revocations = 1 /\ faults = 0
        BY <1>t, <2>1, <3>3
      <3>5. attempt[t] = 1
        BY <1>t, <1>r, <2>2, <3>2, <3>4 DEF ReadSurvives
      <3>6. ReadSurvives(t)'
        BY <2>1, <3>1, <3>4, <3>5 DEF ReadSurvives
      <3>7. QED
        BY <1>t, <2>1, <2>2, <3>1, <3>6, CalmStep
    <2>3. CASE kind[t] # "read"
      BY <1>6, <1>t, <2>1, <2>3, AttemptResult, CalmStep DEF Unauthorized, LoggingIn
    <2>4. QED
      BY <2>2, <2>3
  <1>7. CASE Dedup(t)
    <2>1. UNCHANGED <<kind, held, granted, token, lastReauth, live, issued, revocations, faults>>
      BY <1>7 DEF Dedup, tokenVars, cloudVars, faultVars
    <2>2. kind[t] = "read" /\ revocations = 1 /\ attempt[t] = 1
      BY <1>7, <1>r, <1>k DEF Dedup, ReadSurvives, LoggingIn
    <2>3. pc'[t] = "headers" /\ attempt'[t] = 2
      BY <1>7, <1>t, <2>2, AttemptResult DEF Dedup
    <2>4. token \in live
      BY <1>7 DEF Dedup, RecentlyReauthed, Survival, LoginHelps
    <2>5. ReadSurvives(t)'
      BY <1>t, <2>1, <2>2, <2>3, <2>4 DEF ReadSurvives, LoggingIn
    <2>6. QED
      BY <1>7, <1>t, <2>1, <2>3, <2>5, AttemptResult, CalmStep DEF Dedup, LoggingIn
  <1>8. CASE Reauthenticate(t)
    <2>1. pc[t] = "refused" /\ pc'[t] = "reauth" /\ \A u \in Threads \ {t} : pc'[u] = pc[u]
      BY <1>8, GotoPc DEF Reauthenticate
    <2>2. UNCHANGED <<kind, attempt, held, granted, token, lastReauth, live, issued,
                      revocations, faults>>
      BY <1>8 DEF Reauthenticate, cloudVars, faultVars
    <2>3. kind[t] = "read" /\ ReadSurvives(t)'
      BY <1>r, <1>k, <2>1, <2>2 DEF ReadSurvives, LoggingIn
    <2>4. QED
      BY <1>t, <2>1, <2>2, <2>3, CalmStep
  <1>9. CASE AuthDenied(t)
    <2>1. pc'[t] = "authError" /\ \A u \in Threads \ {t} : pc'[u] = pc[u]
      BY <1>9, GotoPc DEF AuthDenied
    <2>2. UNCHANGED <<kind, attempt, held, granted, token, lastReauth, live, issued, revocations>>
          /\ faults' = faults + 1
      BY <1>9 DEF AuthDenied, Fault, cloudVars
    <2>3. revocations = 0 /\ faults = 0
      BY <1>t, <2>2
    <2>4. kind[t] = "read" => ReadSurvives(t)'
      BY <1>r, <1>t, <2>1, <2>2, <2>3 DEF ReadSurvives, LoggingIn
    <2>5. QED
      BY <1>t, <2>1, <2>2, <2>4, CalmStep DEF LoggingIn
  <1>10. CASE AuthUnreachable(t)
    <2>1. UNCHANGED <<kind, held, granted, token, lastReauth, live, issued, revocations>>
          /\ faults' = faults + 1
      BY <1>10 DEF AuthUnreachable, Fault, cloudVars
    <2>2. revocations = 0 /\ faults = 0
      BY <1>t, <2>1
    <2>3. pc[t] \in {"auth", "authed"}
      BY <1>10, <1>r, <1>k, <2>2 DEF AuthUnreachable, ReadSurvives, LoggingIn
    <2>4. AttemptFails(t)
      BY <1>10, <2>3 DEF AuthUnreachable
    <2>5. kind[t] = "read" => ReadSurvives(t)'
      <3> SUFFICES ASSUME kind[t] = "read" PROVE ReadSurvives(t)'
        OBVIOUS
      <3>1. attempt[t] = 1
        BY <1>t, <1>r, <2>2 DEF ReadSurvives
      <3>2. pc'[t] = "headers" /\ attempt'[t] = 2
        BY <1>t, <2>4, <3>1, AttemptResult
      <3>3. QED
        BY <2>1, <2>2, <3>2 DEF ReadSurvives, LoggingIn
    <2>6. QED
      BY <1>t, <2>1, <2>4, <2>5, AttemptResult, CalmStep DEF LoggingIn
  <1>11. CASE CloudIssues(t)
    <2>1. /\ UNCHANGED <<kind, attempt, held, token, lastReauth, revocations, faults>>
          /\ issued' = issued + 1 /\ live' = live \cup {issued + 1}
      BY <1>11 DEF CloudIssues, tokenVars, faultVars
    <2>2. /\ granted'[t] = issued + 1 /\ \A u \in Threads \ {t} : granted'[u] = granted[u]
          /\ pc'[t] = Issued(pc[t]) /\ \A u \in Threads \ {t} : pc'[u] = pc[u]
      BY <1>11, GotoPc DEF CloudIssues, TypeOK
    <2>3. NewestLive'
      <3>1. live \subseteq 1 .. issued
        BY DEF Survival, NewestLive
      <3>2. live' \subseteq 1 .. issued'
        BY <1>t, <2>1, <3>1
      <3>3. \A n \in live' : \A m \in 1 .. issued' : m >= n => m \in live'
        BY <1>t, <2>1, <3>1 DEF Survival, NewestLive
      <3>4. revocations' = 0 => live' = 1 .. issued'
        BY <1>t, <2>1 DEF Survival, NewestLive
      <3>5. QED
        BY <3>2, <3>3, <3>4 DEF NewestLive
    <2>4. LoginHelps'
      BY <2>1, <2>2 DEF Survival, LoginHelps
    <2>5. pc'[t] \in LoggingIn => pc[t] = "reauth" /\ kind[t] = "read"
      BY <1>11, <1>k, <2>2 DEF CloudIssues, Exchanging, Issued, LoggingIn
    <2>6. OnlyReadsLogIn'
      BY <2>1, <2>2, <2>5 DEF Survival, OnlyReadsLogIn
    <2>7. kind[t] = "read" => ReadSurvives(t)'
      <3>1. pc'[t] \in {"refreshed", "authed", "reauthed"}
        BY <1>11, <2>2 DEF CloudIssues, Exchanging, Issued
      <3>2. QED
        BY <1>r, <2>1, <2>5, <3>1 DEF ReadSurvives, LoggingIn
    <2>8. \A u \in Threads \ {t} : kind[u] = "read" => ReadSurvives(u)'
      BY <1>t, <2>1, <2>2, OthersSurvive DEF Survival
    <2>9. QED
      BY <2>1, <2>3, <2>4, <2>6, <2>7, <2>8 DEF Survival
  <1>12. CASE StoreToken(t)
    <2>1. /\ UNCHANGED <<kind, held, granted, live, issued, revocations, faults>>
          /\ token' = granted[t]
      BY <1>12 DEF StoreToken, cloudVars, faultVars
    <2>2. token' \in 1 .. issued /\ token' > token
      BY <1>12, <1>t, <2>1 DEF StoreToken, TokenInv, AnswerIsNewer, Answers, TypeOK
    <2>3. token \in live => token' \in live'
      BY <1>t, <2>1, <2>2 DEF Survival, NewestLive
    <2>4. pc[t] = "reauthed"
            => kind[t] = "read" /\ revocations = 1 /\ attempt[t] = 1 /\ token' \in live'
      BY <1>r, <1>k, <2>1 DEF Survival, LoginHelps, ReadSurvives, LoggingIn
    <2>5. /\ \A u \in Threads \ {t} : pc'[u] = pc[u] /\ attempt'[u] = attempt[u]
          /\ pc[t] = "reauthed" => pc'[t] = "headers" /\ attempt'[t] = 2
          /\ pc[t] # "reauthed" => pc'[t] = "read" /\ attempt'[t] = attempt[t]
      <3>1. CASE pc[t] = "reauthed"
        BY <1>12, <1>t, <2>4, <3>1, AttemptResult DEF StoreToken
      <3>2. CASE pc[t] # "reauthed"
        BY <1>12, <3>2, GotoPc DEF StoreToken
      <3>3. QED
        BY <3>1, <3>2
    <2>6. NewestLive'
      BY <2>1 DEF Survival, NewestLive
    <2>7. LoginHelps'
      <3>1. lastReauth' = lastReauth \/ pc[t] = "reauthed"
        BY <1>12 DEF StoreToken
      <3>2. token' # 0
        BY <2>2
      <3>3. \A u \in Threads : pc'[u] = "reauthed" => granted'[u] \in live'
        BY <2>1, <2>5 DEF Survival, LoginHelps
      <3>4. QED
        BY <2>1, <2>3, <2>4, <3>1, <3>2, <3>3 DEF Survival, LoginHelps
    <2>8. OnlyReadsLogIn'
      BY <2>1, <2>5 DEF Survival, OnlyReadsLogIn, LoggingIn
    <2>9. kind[t] = "read" => ReadSurvives(t)'
      BY <1>r, <1>t, <2>1, <2>3, <2>4, <2>5 DEF ReadSurvives, LoggingIn
    <2>10. \A u \in Threads \ {t} : kind[u] = "read" => ReadSurvives(u)'
      BY <1>t, <2>1, <2>3, <2>5, OthersSurvive DEF Survival
    <2>11. QED
      BY <2>1, <2>6, <2>7, <2>8, <2>9, <2>10 DEF Survival
  <1>13. QED
    BY <1>1, <1>2, <1>3, <1>4, <1>5, <1>6, <1>7, <1>8, <1>9, <1>10, <1>11, <1>12 DEF Step

\* A first revocation finds no read on its second attempt, and no login.
LEMMA SurvivalRevoke ==
  ASSUME TypeOK, Survival, revocations' + faults' <= 1, Revoke
  PROVE  Survival'
  <1>t. revocations \in Nat /\ faults \in Nat
    BY DEF TypeOK
  <1>1. /\ UNCHANGED <<kind, pc, attempt, held, granted, token, lastReauth, issued, faults>>
        /\ live' = {} /\ revocations' = revocations + 1
    BY DEF Revoke, callVars, tokenVars
  <1>2. revocations = 0 /\ faults = 0 /\ revocations' = 1
    BY <1>t, <1>1
  <1>3. NewestLive'
    BY <1>1, <1>2 DEF NewestLive
  <1>4. \A t \in Threads : pc[t] \notin LoggingIn
    BY <1>2 DEF Survival, OnlyReadsLogIn, ReadSurvives
  <1>5. LoginHelps'
    BY <1>1, <1>2, <1>4 DEF Survival, LoginHelps, LoggingIn
  <1>6. OnlyReadsLogIn'
    BY <1>1 DEF Survival, OnlyReadsLogIn
  <1>7. \A t \in Threads : kind[t] = "read" => ReadSurvives(t)'
    <2> SUFFICES ASSUME NEW t \in Threads, kind[t] = "read" PROVE ReadSurvives(t)'
      OBVIOUS
    <2>1. attempt[t] = 1
      BY <1>2, CloudAuthAssumption DEF TypeOK, Survival, ReadSurvives
    <2>2. QED
      BY <1>1, <1>2, <1>4, <2>1 DEF Survival, ReadSurvives
  <1>8. QED
    BY <1>1, <1>3, <1>5, <1>6, <1>7 DEF Survival

\* A step that touches neither calls nor tokens.
LEMMA SurvivalStutter ==
  ASSUME Survival, UNCHANGED <<callVars, token, lastReauth, cloudVars, revocations, faults>>
  PROVE  Survival'
  BY DEF Survival, NewestLive, LoginHelps, OnlyReadsLogIn, ReadSurvives, callVars, cloudVars

\* Troubles only accumulate: what is at most one now was at most one before.
LEMMA FewerTroubles ==
  \A a, b, c, d \in Nat : a <= c /\ b <= d /\ c + d <= 1 => a + b <= 1
  OBVIOUS

\* A read that fails for want of an answer has met two troubles: one revoked token
\* or one failed exchange is made up for by its retries, in any interleaving of any
\* number of threads (api.py:125-240).
THEOREM OneTroubleSurvived ==
  ASSUME Attempts >= 2
  PROVE  Spec => []OneTroubleIsSurvived
  <1>1. Init => SurvivalInv
    BY CloudAuthAssumption
    DEF Init, SurvivalInv, Survival, NewestLive, LoginHelps, OnlyReadsLogIn, ReadSurvives, LoggingIn
  <1>2. TypeOK /\ TypeOK' /\ TokenInv /\ SurvivalInv /\ [Next]_vars => SurvivalInv'
    <2> SUFFICES ASSUME TypeOK, TypeOK', TokenInv, SurvivalInv, [Next]_vars,
                        revocations' + faults' <= 1
                 PROVE  Survival'
      BY DEF SurvivalInv
    <2>1. revocations <= revocations' /\ faults <= faults'
      BY DEF TypeOK, Next, Tick, Revoke, Expire, Begin, Step, TokenFresh, TokenStale, Recheck,
         ReadToken, Answered, RequestFails, Unauthorized, Dedup, Reauthenticate, CloudIssues,
         StoreToken, RefreshFails, AuthDenied, AuthUnreachable, Fault, faultVars, vars
    <2>2. revocations + faults <= 1
      <3>1. revocations \in Nat /\ faults \in Nat /\ revocations' \in Nat /\ faults' \in Nat
        BY DEF TypeOK
      <3>2. QED
        BY ONLY <3>1, <2>1, FewerTroubles, revocations' + faults' <= 1
    <2>3. Survival
      BY <2>2 DEF SurvivalInv
    <2>4. CASE Revoke
      BY <2>3, <2>4, SurvivalRevoke
    <2>5. CASE Tick \/ Expire \/ UNCHANGED vars
      BY <2>3, <2>5, SurvivalStutter DEF Tick, Expire, vars, tokenVars, faultVars
    <2>6. CASE \E t \in Threads : Begin(t) \/ Step(t)
      BY <2>3, <2>6, SurvivalStep
    <2>7. QED
      BY <2>4, <2>5, <2>6 DEF Next
  <1>3. TypeOK /\ SurvivalInv => OneTroubleIsSurvived
    <2> SUFFICES ASSUME TypeOK, SurvivalInv, NEW t \in Threads, kind[t] = "read",
                        pc[t] = "apiError", ~(revocations + faults >= 2)
                 PROVE  FALSE
      BY DEF OneTroubleIsSurvived
    <2>1. revocations + faults <= 1
      BY DEF TypeOK
    <2>2. QED
      BY <2>1 DEF SurvivalInv, Survival, ReadSurvives
  <1>4. QED
    BY <1>1, <1>2, <1>3, TypesHold, TokenInit, TokenNext, PTL DEF Spec

-----------------------------------------------------------------------------
(* Commands.                                                               *)

\* The shapes that a list holds.
Listed(l) == {l[i] : i \in 1 .. Len(l)}

\* The lists that an attempt works through, and what is left of them.
Lists == {<<>>, <<Signed>>, <<DataSigned>>, <<DataBare, DataSigned>>,
          <<Signed, DataBare, DataSigned>>}

LEMMA ListedNone == Listed(<<>>) = {}
  BY DEF Listed

LEMMA ListedOne == ASSUME NEW a PROVE Listed(<<a>>) = {a}
  BY DEF Listed

LEMMA ListedTwo == ASSUME NEW a, NEW b PROVE Listed(<<a, b>>) = {a, b}
  BY DEF Listed

LEMMA ListedThree == ASSUME NEW a, NEW b, NEW c PROVE Listed(<<a, b, c>>) = {a, b, c}
  BY DEF Listed

\* No two shapes are the same, and each is posted to its own property.
LEMMA ShapesDiffer ==
  /\ Signed # DataBare /\ Signed # DataSigned
  /\ DataBare # DataSigned
  /\ Signed[1] = "app_data_request"
  /\ DataBare[1] = "data_request" /\ DataSigned[1] = "data_request"
  BY DEF Signed, DataBare, DataSigned

\* A list holds its first shape once.
LEMMA ListsShrink ==
  ASSUME NEW l \in Lists, l # <<>>
  PROVE  /\ Tail(l) \in Lists
         /\ Head(l) \in Shape
         /\ Head(l) \notin Listed(Tail(l))
         /\ Listed(l) = Listed(Tail(l)) \cup {Head(l)}
  <1>1. CASE l = <<Signed>>
    <2>1. Tail(l) = <<>> /\ Head(l) = Signed
      BY <1>1
    <2>2. Listed(l) = {Signed} /\ Listed(Tail(l)) = {}
      BY <1>1, <2>1, ListedNone, ListedOne
    <2>3. QED
      BY <2>1, <2>2 DEF Lists, Shape
  <1>2. CASE l = <<DataSigned>>
    <2>1. Tail(l) = <<>> /\ Head(l) = DataSigned
      BY <1>2
    <2>2. Listed(l) = {DataSigned} /\ Listed(Tail(l)) = {}
      BY <1>2, <2>1, ListedNone, ListedOne
    <2>3. QED
      BY <2>1, <2>2 DEF Lists, Shape
  <1>3. CASE l = <<DataBare, DataSigned>>
    <2>1. Tail(l) = <<DataSigned>> /\ Head(l) = DataBare
      BY <1>3
    <2>2. Listed(l) = {DataBare, DataSigned}
      BY ONLY <1>3, ListedTwo
    <2>3. Listed(Tail(l)) = {DataSigned}
      BY ONLY <2>1, ListedOne
    <2>4. QED
      BY <2>1, <2>2, <2>3, ShapesDiffer DEF Lists, Shape
  <1>4. CASE l = <<Signed, DataBare, DataSigned>>
    <2>1. Tail(l) = <<DataBare, DataSigned>> /\ Head(l) = Signed
      BY <1>4
    <2>2. Listed(l) = {Signed, DataBare, DataSigned}
      BY ONLY <1>4, ListedThree
    <2>3. Listed(Tail(l)) = {DataBare, DataSigned}
      BY ONLY <2>1, ListedTwo
    <2>4. QED
      BY <2>1, <2>2, <2>3, ShapesDiffer DEF Lists, Shape
  <1>5. QED
    BY <1>1, <1>2, <1>3, <1>4 DEF Lists

\* The list of an attempt covers the property it goes by; without one, both.
LEMMA ListsCover ==
  ASSUME NEW p \in Property \cup {None}
  PROVE  /\ AttemptList(p) \in Lists
         /\ \A q \in Property :
              p \in {q, None} => \E s \in Listed(AttemptList(p)) : s[1] = q
  <1>1. CASE p = "data_request"
    <2>1. AttemptList(p) = <<DataBare, DataSigned>>
      BY <1>1 DEF AttemptList, None
    <2>2. AttemptList(p) \in Lists
      BY <2>1 DEF Lists
    <2>3. Listed(AttemptList(p)) = {DataBare, DataSigned}
      BY ONLY <2>1, ListedTwo
    <2>4. QED
      BY <1>1, <2>2, <2>3, ShapesDiffer DEF None
  <1>2. CASE p = "app_data_request"
    <2>1. AttemptList(p) = <<Signed>>
      BY <1>2 DEF AttemptList, None
    <2>2. AttemptList(p) \in Lists
      BY <2>1 DEF Lists
    <2>3. Listed(AttemptList(p)) = {Signed}
      BY ONLY <2>1, ListedOne
    <2>4. QED
      BY <1>2, <2>2, <2>3, ShapesDiffer DEF None
  <1>3. CASE p = None
    <2>1. AttemptList(p) = <<Signed, DataBare, DataSigned>>
      BY <1>3 DEF AttemptList, None
    <2>2. AttemptList(p) \in Lists
      BY <2>1 DEF Lists
    <2>3. Listed(AttemptList(p)) = {Signed, DataBare, DataSigned}
      BY ONLY <2>1, ListedThree
    <2>4. QED
      BY <1>3, <2>2, <2>3, ShapesDiffer DEF None, Property
  <1>4. QED
    BY <1>1, <1>2, <1>3 DEF Property

CallState ==
  [pc : {"new", "posting", "asleep", "true", "unsupported", "failed"},
   left : Lists, n : Nat, sentAny : BOOLEAN, lastError : BOOLEAN]

\* The thread of a command: its list is one of the above, and it is asleep only
\* where it may try again.
SendTypes ==
  /\ existing \subseteq Property
  /\ acts \in Shape
  /\ hint \in Property \cup {None}
  /\ cmdProperty \in Property \cup {None}
  /\ call \in [Call -> CallState]
  /\ \A c \in Call : /\ call[c].n <= RETRY_COUNT
                     /\ call[c].pc = "new" => call[c].n = 0
                     /\ call[c].pc = "asleep" => call[c].n < RETRY_COUNT
  /\ posts \in [Call -> SUBSET Shape]
  /\ relayed \in [Call -> Nat]
  /\ unheard \in [Call -> Nat]

\* A machine that was given a command more often than answers were lost has had one
\* accepted by the client: the call goes on for the same property only, and what
\* is left of the list is in shapes that the firmware does not act on.
SentOnce(c) ==
  \/ relayed[c] <= unheard[c]
  \/ /\ relayed[c] = unheard[c] + 1
     /\ call[c].sentAny
     /\ call[c].pc \in {"posting", "true"}
     /\ acts \notin Listed(call[c].left)

\* The property a command goes by is there, if any is.
Routed ==
  /\ hint \in existing \cup {None} \/ existing = {}
  /\ cmdProperty \in existing \cup {None} \/ existing = {}

\* An attempt that met nothing but 404 has a property of this machine still to try.
StillToTry(c) ==
  /\ call[c].pc = "posting" /\ ~call[c].sentAny /\ ~call[c].lastError /\ existing # {} =>
       \E s \in Listed(call[c].left) : s[1] \in existing
  /\ call[c].pc = "unsupported" => existing = {}

SendInv == SendTypes /\ Routed /\ \A c \in Call : SentOnce(c) /\ StillToTry(c)

\* What the other commands' threads leave of a command's own state.
LEMMA OthersKeep ==
  ASSUME SendInv, NEW c \in Call, NEW d \in Call, d # c,
         call'[d] = call[d], relayed'[d] = relayed[d], unheard'[d] = unheard[d],
         UNCHANGED <<existing, acts>>
  PROVE  SentOnce(d)' /\ StillToTry(d)'
  BY DEF SendInv, SentOnce, StillToTry

\* The frame of a step: what it must show for its own command alone.
LEMMA OneCommand ==
  ASSUME SendInv, NEW c \in Call, NEW l \in CallState, call' = [call EXCEPT ![c] = l],
         l.n <= RETRY_COUNT, l.pc = "new" => l.n = 0, l.pc = "asleep" => l.n < RETRY_COUNT,
         UNCHANGED machineVars,
         cmdProperty' \in Property \cup {None}, Routed',
         posts' \in [Call -> SUBSET Shape],
         relayed' \in [Call -> Nat], unheard' \in [Call -> Nat],
         \A d \in Call : d # c => relayed'[d] = relayed[d] /\ unheard'[d] = unheard[d],
         SentOnce(c)', StillToTry(c)'
  PROVE  SendInv'
  <1>1. /\ call' \in [Call -> CallState] /\ call'[c] = l
        /\ \A d \in Call : d # c => call'[d] = call[d]
    BY DEF SendInv, SendTypes
  <1>2. SendTypes'
    BY <1>1 DEF SendInv, SendTypes, machineVars
  <1>3. \A d \in Call : SentOnce(d)' /\ StillToTry(d)'
    BY <1>1, OthersKeep DEF machineVars
  <1>4. QED
    BY <1>2, <1>3 DEF SendInv

\* An attempt begins with the whole list; nothing was accepted before.
LEMMA BeginSends ==
  ASSUME SendInv, NEW c \in Call, BeginAttempt(c) PROVE SendInv'
  <1> DEFINE l == [pc |-> "posting", left |-> AttemptList(cmdProperty),
                   n |-> call[c].n + 1, sentAny |-> FALSE, lastError |-> FALSE]
  <1>1. /\ call' = [call EXCEPT ![c] = l]
        /\ UNCHANGED <<machineVars, cmdProperty, history>>
    BY DEF BeginAttempt
  <1>2. /\ call[c] \in CallState /\ call[c].n \in Nat /\ call[c].n + 1 <= RETRY_COUNT
        /\ relayed[c] \in Nat /\ unheard[c] \in Nat
    BY SendAssumption DEF SendInv, SendTypes, CallState, BeginAttempt
  <1>3. /\ AttemptList(cmdProperty) \in Lists
        /\ existing # {} => \E s \in Listed(AttemptList(cmdProperty)) : s[1] \in existing
    BY ListsCover DEF SendInv, SendTypes, Routed
  <1>4. /\ l \in CallState /\ l.pc = "posting" /\ l.n = call[c].n + 1
        /\ l.left = AttemptList(cmdProperty)
    BY <1>2, <1>3 DEF CallState
  <1>5. call'[c] = l
    BY <1>1, <1>2 DEF SendInv, SendTypes
  <1> HIDE DEF l
  <1>6. SentOnce(c)'
    BY <1>1, <1>2 DEF SendInv, SentOnce, BeginAttempt, history, machineVars
  <1>7. StillToTry(c)'
    BY <1>1, <1>3, <1>4, <1>5 DEF StillToTry, machineVars
  <1>8. Routed'
    BY <1>1 DEF SendInv, Routed, machineVars
  <1>9. QED
    BY <1>1, <1>2, <1>4, <1>6, <1>7, <1>8, OneCommand DEF SendInv, SendTypes, history

\* What a POST leaves of the list, whatever its answer.
LEMMA PostFacts ==
  ASSUME SendInv, NEW c \in Call, Posting(c)
  PROVE  /\ call[c] \in CallState /\ call[c].n \in Nat /\ call[c].n <= RETRY_COUNT
         /\ relayed[c] \in Nat /\ unheard[c] \in Nat
         /\ ShapesAfter(c) \in Lists
         /\ Shown(c) \in Shape
         /\ Shown(c) \notin Listed(ShapesAfter(c))
         /\ Listed(call[c].left) = Listed(ShapesAfter(c)) \cup {Shown(c)}
  <1>1. /\ call[c] \in CallState /\ call[c].left \in Lists /\ call[c].left # <<>>
        /\ call[c].n \in Nat /\ call[c].n <= RETRY_COUNT
        /\ relayed[c] \in Nat /\ unheard[c] \in Nat
    BY DEF SendInv, SendTypes, CallState, Posting
  <1>2. QED
    BY <1>1, ListsShrink DEF Shown, ShapesAfter

\* A relayed command counts once, and once more where its answer is lost.
LEMMA RelayCounts ==
  ASSUME SendInv, NEW c \in Call, NEW heard \in BOOLEAN, Relay(c, heard)
  PROVE  /\ relayed' \in [Call -> Nat] /\ unheard' \in [Call -> Nat]
         /\ \A d \in Call : d # c => relayed'[d] = relayed[d] /\ unheard'[d] = unheard[d]
         /\ Shown(c) = acts => /\ relayed'[c] = relayed[c] + 1
                               /\ unheard'[c] = unheard[c] + (IF heard THEN 0 ELSE 1)
         /\ Shown(c) # acts => relayed'[c] = relayed[c] /\ unheard'[c] = unheard[c]
  BY DEF SendInv, SendTypes, Relay

\* HTTP 201: the command counts as accepted from here on.
LEMMA AcceptedSends ==
  ASSUME SendInv, NEW c \in Call, Accepted(c) PROVE SendInv'
  <1> DEFINE l == [call[c] EXCEPT !.left = ShapesAfter(c), !.sentAny = TRUE,
                                  !.pc = IF ListedAgain(c) THEN @ ELSE "true"]
  <1>p. Posting(c) /\ call[c].pc = "posting"
    BY DEF Accepted, Posting
  <1>1. /\ call' = [call EXCEPT ![c] = l]
        /\ Relay(c, TRUE)
        /\ UNCHANGED <<machineVars, cmdProperty>>
    BY DEF Accepted, SendInv, SendTypes
  <1>2. /\ l \in CallState /\ l.n = call[c].n /\ l.left = ShapesAfter(c) /\ l.sentAny = TRUE
        /\ l.pc \in {"posting", "true"}
    BY <1>p, PostFacts DEF CallState
  <1>3. call'[c] = l
    BY <1>1 DEF SendInv, SendTypes
  <1>4. posts' \in [Call -> SUBSET Shape]
    BY <1>p, PostFacts DEF Accepted, SendInv, SendTypes
  <1> HIDE DEF l
  <1>5. SentOnce(c)'
    <2>1. SentOnce(c) /\ acts' = acts
      BY <1>1 DEF SendInv, machineVars
    <2>2. CASE Shown(c) = acts
      <3>1. relayed'[c] = relayed[c] + 1 /\ unheard'[c] = unheard[c]
        <4>1. unheard'[c] = unheard[c] + (IF TRUE THEN 0 ELSE 1) /\ relayed'[c] = relayed[c] + 1
          BY <1>1, <2>2, RelayCounts
        <4>2. QED
          BY <1>p, <4>1, PostFacts
      <3>2. relayed[c] <= unheard[c]
        BY <1>p, <2>1, <2>2, PostFacts DEF SentOnce
      <3>3. acts \notin Listed(l.left)
        BY <1>p, <1>2, <2>2, PostFacts
      <3>4. QED
        BY <1>p, <1>2, <1>3, <2>1, <3>1, <3>2, <3>3, PostFacts DEF SentOnce
    <2>3. CASE Shown(c) # acts
      <3>1. relayed'[c] = relayed[c] /\ unheard'[c] = unheard[c]
        BY <1>1, <2>3, RelayCounts
      <3>2. QED
        BY <1>p, <1>2, <1>3, <2>1, <3>1, PostFacts DEF SentOnce
    <2>4. QED
      BY <2>2, <2>3
  <1>6. StillToTry(c)'
    BY <1>2, <1>3 DEF StillToTry
  <1>7. Routed'
    BY <1>1 DEF SendInv, Routed, machineVars
  <1>8. QED
    BY <1>p, <1>1, <1>2, <1>4, <1>5, <1>6, <1>7, PostFacts, RelayCounts, OneCommand, ZenonT(60)
    DEF SendInv, SendTypes

\* HTTP 404: the shape's property is not there, so that what is left must cover
\* the one that is; and data_request is proved only where it is the only one left.
LEMMA NotFoundSends ==
  ASSUME SendInv, NEW c \in Call, NotFound(c) PROVE SendInv'
  <1> DEFINE l == [call[c] EXCEPT !.left = ShapesAfter(c)]
  <1>p. /\ Posting(c) /\ Shown(c)[1] \notin existing
        /\ call' = [call EXCEPT ![c] = l]
        /\ UNCHANGED <<machineVars, history>>
    BY DEF NotFound, SendInv, SendTypes
  <1>1. /\ l \in CallState /\ l.n = call[c].n /\ l.left = ShapesAfter(c)
        /\ l.sentAny = call[c].sentAny /\ l.lastError = call[c].lastError
        /\ l.pc = call[c].pc /\ l.pc = "posting"
    BY <1>p, PostFacts DEF CallState, Posting
  <1>2. call'[c] = l
    BY <1>p DEF SendInv, SendTypes
  <1> HIDE DEF l
  <1>3. cmdProperty' \in Property \cup {None} /\ Routed'
    <2>1. CASE Proves(Shown(c)[1])
      <3>1. cmdProperty' = "data_request" /\ Shown(c)[1] = "app_data_request"
        BY <2>1 DEF NotFound, Proves
      <3>2. existing \subseteq {"data_request"}
        BY <1>p, <3>1 DEF SendInv, SendTypes, Property
      <3>3. QED
        BY <1>p, <3>1, <3>2 DEF SendInv, Routed, Property, machineVars
    <2>2. CASE ~Proves(Shown(c)[1])
      BY <1>p, <2>2 DEF NotFound, SendInv, SendTypes, Routed, machineVars
    <2>3. QED
      BY <2>1, <2>2
  <1>4. SentOnce(c)'
    BY <1>p, <1>1, <1>2, PostFacts DEF SendInv, SentOnce, machineVars, history
  <1>5. StillToTry(c)'
    BY <1>p, <1>1, <1>2, PostFacts DEF SendInv, StillToTry, machineVars
  <1>6. QED
    BY <1>p, <1>1, <1>3, <1>4, <1>5, PostFacts, OneCommand
    DEF SendInv, SendTypes, history

\* A POST that fails leaves a mark: the attempt cannot end as unsupported.
LEMMA FailedSends ==
  ASSUME SendInv, NEW c \in Call, Posting(c),
         call' = [call EXCEPT ![c].left = ShapesAfter(c), ![c].lastError = TRUE],
         UNCHANGED <<machineVars, cmdProperty, posts>>,
         Relay(c, FALSE) \/ UNCHANGED <<relayed, unheard>>
  PROVE  SendInv'
  <1> DEFINE l == [call[c] EXCEPT !.left = ShapesAfter(c), !.lastError = TRUE]
  <1>1. /\ l \in CallState /\ l.n = call[c].n /\ l.left = ShapesAfter(c)
        /\ l.sentAny = call[c].sentAny /\ l.lastError = TRUE
        /\ l.pc = call[c].pc /\ l.pc = "posting"
    BY PostFacts DEF CallState, Posting
  <1>2. call' = [call EXCEPT ![c] = l] /\ call'[c] = l
    BY DEF SendInv, SendTypes
  <1> HIDE DEF l
  <1>3. /\ relayed' \in [Call -> Nat] /\ unheard' \in [Call -> Nat]
        /\ \A d \in Call : d # c => relayed'[d] = relayed[d] /\ unheard'[d] = unheard[d]
        /\ \/ relayed'[c] = relayed[c] /\ unheard'[c] = unheard[c]
           \/ /\ relayed'[c] = relayed[c] + 1 /\ unheard'[c] = unheard[c] + 1
              /\ Shown(c) = acts
    BY RelayCounts DEF SendInv, SendTypes
  <1>4. SentOnce(c)'
    BY <1>1, <1>2, <1>3, PostFacts DEF SendInv, SentOnce, machineVars
  <1>5. StillToTry(c)'
    BY <1>1, <1>2 DEF StillToTry
  <1>6. Routed'
    BY DEF SendInv, Routed, machineVars
  <1>7. QED
    BY <1>1, <1>2, <1>3, <1>4, <1>5, <1>6, PostFacts, OneCommand, ZenonT(60)
    DEF SendInv, SendTypes

\* The end of an attempt: it succeeded, is tried again, or has met 404 only.
LEMMA ConcludeSends ==
  ASSUME SendInv, NEW c \in Call, Conclude(c) PROVE SendInv'
  <1> DEFINE l == [call[c] EXCEPT !.pc = Outcome(c)]
  <1>p. /\ call[c].pc = "posting" /\ call[c].left = <<>>
        /\ call' = [call EXCEPT ![c] = l]
        /\ UNCHANGED <<machineVars, cmdProperty, history>>
    BY DEF Conclude, SendInv, SendTypes
  <1>1. /\ call[c] \in CallState /\ call[c].n \in Nat /\ call[c].n <= RETRY_COUNT
        /\ call[c].sentAny \in BOOLEAN /\ call[c].lastError \in BOOLEAN
        /\ relayed[c] \in Nat /\ unheard[c] \in Nat
    BY DEF SendInv, SendTypes, CallState
  <1>2. \/ call[c].sentAny /\ Outcome(c) = "true"
        \/ ~call[c].sentAny /\ call[c].lastError /\ TriesLeft(c) /\ Outcome(c) = "asleep"
        \/ ~call[c].sentAny /\ call[c].lastError /\ Outcome(c) = "failed"
        \/ ~call[c].sentAny /\ ~call[c].lastError /\ Outcome(c) = "unsupported"
    BY <1>1 DEF Outcome
  <1>3. /\ l \in CallState /\ l.n = call[c].n /\ l.left = <<>>
        /\ l.sentAny = call[c].sentAny /\ l.lastError = call[c].lastError
        /\ l.pc = Outcome(c)
    BY <1>p, <1>1, <1>2 DEF CallState
  <1>4. call'[c] = l
    BY <1>p DEF SendInv, SendTypes
  <1> HIDE DEF l
  <1>5. SentOnce(c)'
    BY <1>p, <1>1, <1>2, <1>3, <1>4, ListedNone
    DEF SendInv, SentOnce, machineVars, history
  <1>6. StillToTry(c)'
    BY <1>p, <1>1, <1>2, <1>3, <1>4, ListedNone DEF SendInv, StillToTry, machineVars
  <1>7. Routed'
    BY <1>p DEF SendInv, Routed, machineVars
  <1>8. l.pc # "new" /\ (l.pc = "asleep" => l.n < RETRY_COUNT)
    BY <1>2, <1>3 DEF TriesLeft
  <1>9. QED
    BY <1>p, <1>1, <1>3, <1>5, <1>6, <1>7, <1>8, OneCommand
    DEF SendInv, SendTypes, history

\* A step that touches no command and keeps the routing.
LEMMA RoutingSends ==
  ASSUME SendInv, UNCHANGED <<machineVars, call, history>>,
         cmdProperty' = cmdProperty \/ cmdProperty' = hint
  PROVE  SendInv'
  <1>1. SendTypes' /\ Routed'
    BY DEF SendInv, SendTypes, Routed, machineVars, history
  <1>2. \A c \in Call : SentOnce(c)' /\ StillToTry(c)'
    BY DEF SendInv, SentOnce, StillToTry, machineVars, history
  <1>3. QED
    BY <1>1, <1>2 DEF SendInv

\* Every step of send_command, of any command's thread, keeps all of this.
LEMMA SendHolds == SendSpec => []SendInv
  <1>1. SendInit => SendInv
    <2> SUFFICES ASSUME SendInit PROVE SendInv
      OBVIOUS
    <2>1. SendTypes
      BY SendAssumption DEF SendInit, SendTypes, CallState, Lists
    <2>2. Routed
      BY DEF SendInit, Routed
    <2>3. \A c \in Call : SentOnce(c) /\ StillToTry(c)
      <3>1. \A c \in Call : relayed[c] = 0 /\ unheard[c] = 0 /\ call[c].pc = "new"
        BY DEF SendInit
      <3>2. \A c \in Call : SentOnce(c)
        <4> SUFFICES ASSUME NEW c \in Call PROVE relayed[c] <= unheard[c]
          BY DEF SentOnce
        <4>1. relayed[c] = 0 /\ unheard[c] = 0
          BY <3>1
        <4>2. QED
          BY <4>1
      <3>3. \A c \in Call : StillToTry(c)
        BY <3>1 DEF StillToTry
      <3>4. QED
        BY <3>2, <3>3
    <2>4. QED
      BY <2>1, <2>2, <2>3 DEF SendInv
  <1>2. SendInv /\ [SendNext]_sendVars => SendInv'
    <2> SUFFICES ASSUME SendInv, [SendNext]_sendVars PROVE SendInv'
      OBVIOUS
    <2>1. CASE Backfill \/ UNCHANGED sendVars
      BY <2>1, RoutingSends DEF Backfill, sendVars
    <2>2. ASSUME NEW c \in Call, SendStep(c) PROVE SendInv'
      <3>1. CASE BeginAttempt(c)
        BY <3>1, BeginSends
      <3>2. CASE Accepted(c)
        BY <3>2, AcceptedSends
      <3>3. CASE NotFound(c)
        BY <3>3, NotFoundSends
      <3>4. CASE Refused(c)
        BY <3>4, FailedSends DEF Refused, history
      <3>5. CASE Conclude(c)
        BY <3>5, ConcludeSends
      <3>6. ASSUME NEW delivered \in BOOLEAN, Lost(c, delivered) PROVE SendInv'
        BY <3>6, FailedSends DEF Lost
      <3>7. QED
        BY <2>2, <3>1, <3>2, <3>3, <3>4, <3>5, <3>6 DEF SendStep
    <2>3. QED
      BY <2>1, <2>2 DEF SendNext
  <1>3. QED
    BY <1>1, <1>2, PTL DEF SendSpec

\* Types of send_command for every number of commands and attempts; no call works
\* through its list more than RETRY_COUNT times.
THEOREM SendTypesHold == SendSpec => []SendTypeOK
  <1>1. SendInv => SendTypeOK
    <2> SUFFICES ASSUME SendInv PROVE SendTypeOK
      OBVIOUS
    <2>1. CallState \subseteq Local
      <3>1. Lists \subseteq Seq(Shape)
        BY DEF Lists, Shape
      <3>2. QED
        BY <3>1 DEF CallState, Local
    <2>2. QED
      BY <2>1 DEF SendInv, SendTypes, SendTypeOK
  <1>2. QED
    BY <1>1, SendHolds, PTL

\* Preparing a command shares nothing with posting it: every run of the whole way
\* of a command (brew_beverage and the other callers of send_command) is one of
\* send_command.
THEOREM BrewingSends == BrewSpec => SendSpec
  <1>1. BrewInit => SendInit
    BY DEF BrewInit
  <1>2. [BrewNext]_brewVars => [SendNext]_sendVars
    <2>1. ASSUME NEW c \in Brews, Prepare(c) PROVE UNCHANGED sendVars
      BY <2>1 DEF Prepare, Press, GiveUp, Take, Decode,
                  Undecodable, Check, Ping, Custom, Plain, Try,
                  HandOver, Goes
    <2>2. ASSUME Send PROVE SendNext
      BY <2>2 DEF Send, SendNext
    <2>3. QED
      BY <2>1, <2>2 DEF BrewNext, brewVars
  <1>3. QED
    BY <1>1, <1>2, PTL DEF BrewSpec, SendSpec

\* One call of send_command never makes the machine act twice but for an answer that
\* was lost: neither the shapes posted side by side nor the retries repeat a command
\* that the client knew accepted (api.py, send_command).
THEOREM NoneSentTwice == BrewSpec => []DuplicatesArePaidFor
  <1>1. SendInv => DuplicatesArePaidFor
    <2> SUFFICES ASSUME SendInv, NEW c \in Call PROVE relayed[c] <= unheard[c] + 1
      BY DEF DuplicatesArePaidFor
    <2>1. relayed[c] \in Nat /\ unheard[c] \in Nat
      BY DEF SendInv, SendTypes
    <2>2. QED
      BY <2>1 DEF SendInv, SentOnce
  <1>2. QED
    BY <1>1, SendHolds, BrewingSends, PTL

\* A command is given up as unsupported only where the machine has neither command
\* property, whatever threads have concluded from a 404 of their own (api.py,
\* send_command and _cmd_property).
THEOREM UnsupportedIsUnsupported == BrewSpec => []UnsupportedIsTrue
  <1>1. SendInv => UnsupportedIsTrue
    BY DEF SendInv, StillToTry, UnsupportedIsTrue
  <1>2. QED
    BY <1>1, SendHolds, BrewingSends, PTL

-----------------------------------------------------------------------------
(* The recipe of a press.                                                  *)

\* Every set of places has a first one.
Earlier == {p \in Nat \X Nat : p[1] < p[2]}

LEMMA EarlierWellFounded == IsWellFoundedOn(Earlier, Nat)
  BY NatLessThanWellFounded DEF Earlier, OpToRel

LEMMA FirstIsFirst ==
  ASSUME NEW places \in SUBSET Nat, places # {}
  PROVE  First(places) \in places /\ \A j \in places : First(places) <= j
  <1>1. PICK i \in places : \A j \in places : <<j, i>> \notin Earlier
    BY EarlierWellFounded, WFMin
  <1>2. ASSUME NEW j \in places PROVE i <= j
    <2>1. ~(j < i)
      BY <1>1 DEF Earlier
    <2>2. QED
      BY <2>1
  <1>3. QED
    BY <1>2 DEF First

\* What a catalogue lists, whatever the machine.
LEMMA Listing ==
  ASSUME NEW s \in Catalogues
  PROVE  /\ DOMAIN s \subseteq Nat
         /\ \A i \in DOMAIN s :
              /\ s[i].style \in {"first", "last", "none"}
              /\ s[i].style # "none" => s[i].profile \in Profiles
              /\ s[i].style = "none" => s[i].profile = 0
              /\ IsPrefix(s[i].key, s[i].key)
  <1>1. PICK m \in {Eletta \cup CustomSlots, PrimaDonna \cup CustomSlots}, n \in 0 .. MaxProperties :
          s \in [1 .. n -> m]
    BY DEF Catalogues
  <1>2. \A p \in m :
          /\ p.style \in {"first", "last", "none"}
          /\ p.style # "none" => p.profile \in Profiles
          /\ p.style = "none" => p.profile = 0
          /\ p.key \in Keys \cup {<<"custom", "1">>}
    BY DEF Eletta, PrimaDonna, CustomSlots, Names
  <1>3. \A k \in Keys \cup {<<"custom", "1">>} : IsPrefix(k, k)
    BY DEF Keys, IsPrefix
  <1>4. DOMAIN s \subseteq Nat
    BY <1>1, BrewAssumption
  <1>5. QED
    BY <1>1, <1>2, <1>3, <1>4

\* A recipe of the beverage, filled in, is found whatever profile is selected.
LEMMA ListedIsFound ==
  ASSUME NEW s \in Catalogues, NEW key, NEW profile \in Profiles,
         NEW i \in DOMAIN s, Usable(s[i]), s[i].key = key
  PROVE  HasRecipe(s, profile, key)
  <1>1. CASE s[i].style \in {"first", "none"}
    BY <1>1 DEF HasRecipe, FallbackRecipes, Fallback
  <1>2. CASE s[i].style = "last"
    <2>1. s[i].profile \in 1 .. 5 /\ Named(s[i], s[i].profile, key)
      BY <1>2, Listing, BrewAssumption DEF Named
    <2>2. CASE s[i].profile = profile
      BY <2>1, <2>2 DEF HasRecipe, OwnRecipes, Own
    <2>3. CASE s[i].profile # profile
      BY <2>1, <2>3 DEF HasRecipe, FallbackRecipes, Fallback
    <2>4. QED
      BY <2>2, <2>3
  <1>3. QED
    BY <1>1, <1>2, Listing

\* The place of the recipe that is taken.
LEMMA TakenFrom ==
  ASSUME NEW s \in Catalogues, NEW key, NEW profile \in Profiles, HasRecipe(s, profile, key)
  PROVE  \E i \in DOMAIN s :
           /\ RecipeFor(s, profile, key) = s[i]
           /\ \/ i \in OwnRecipes(s, profile, key)
              \/ /\ OwnRecipes(s, profile, key) = {}
                 /\ i \in FallbackRecipes(s, profile, key)
  <1>1. /\ OwnRecipes(s, profile, key) \subseteq DOMAIN s
        /\ FallbackRecipes(s, profile, key) \subseteq DOMAIN s
        /\ DOMAIN s \subseteq Nat
    BY Listing DEF OwnRecipes, FallbackRecipes
  <1>2. CASE OwnRecipes(s, profile, key) # {}
    BY <1>1, <1>2, FirstIsFirst DEF RecipeFor
  <1>3. CASE OwnRecipes(s, profile, key) = {}
    BY <1>1, <1>3, FirstIsFirst DEF RecipeFor, HasRecipe
  <1>4. QED
    BY <1>2, <1>3

\* What is taken is of that beverage, unless the key begins another key; and of the
\* selected profile where that has one.
LEMMA TakenIsOfTheBeverage ==
  ASSUME NEW s \in Catalogues, NEW key, NEW profile \in Profiles, HasRecipe(s, profile, key),
         \A i \in DOMAIN s : IsPrefix(key, s[i].key) => s[i].key = key
  PROVE  /\ Usable(RecipeFor(s, profile, key))
         /\ RecipeFor(s, profile, key).key = key
         /\ (\E i \in DOMAIN s : Usable(s[i]) /\ s[i].key = key /\ s[i].profile = profile) =>
              RecipeFor(s, profile, key).profile = profile
  <1>1. PICK i \in DOMAIN s :
          /\ RecipeFor(s, profile, key) = s[i]
          /\ \/ i \in OwnRecipes(s, profile, key)
             \/ /\ OwnRecipes(s, profile, key) = {}
                /\ i \in FallbackRecipes(s, profile, key)
    BY TakenFrom
  <1>2. Usable(s[i]) /\ s[i].key = key
    BY <1>1 DEF OwnRecipes, FallbackRecipes, Own, Fallback, Named
  <1>3. ASSUME NEW j \in DOMAIN s, Usable(s[j]), s[j].key = key, s[j].profile = profile
        PROVE  s[i].profile = profile
    <2>1. s[j].style \in {"last", "first"} /\ IsPrefix(key, s[j].key)
      BY <1>3, Listing, BrewAssumption
    <2>2. j \in OwnRecipes(s, profile, key)
      BY <1>3, <2>1 DEF OwnRecipes, Own, Named
    <2>3. QED
      BY <1>1, <2>2 DEF OwnRecipes, Own, Named
  <1>4. QED
    BY <1>1, <1>2, <1>3

\* A press that is looked up: the key is one the machine offered, and what is found
\* is what the catalogue holds.
Looked(o) ==
  /\ o.catalogue \in Catalogues
  /\ o.profile \in Profiles
  /\ o.stage = "found" <=> HasRecipe(o.catalogue, o.profile, o.key)

LookupInv ==
  /\ DOMAIN order = Call
  /\ \A c \in Call : /\ "stage" \in DOMAIN order[c]
                     /\ order[c].stage \in {"found", "notFound"} => Looked(order[c])

\* A step of one command, to a record with a stage.
LEMMA OneGoes ==
  ASSUME LookupInv, NEW c \in Call, NEW to, Goes(c, to), "stage" \in DOMAIN to,
         to.stage \in {"found", "notFound"} => Looked(to)
  PROVE  LookupInv'
  BY DEF LookupInv, Goes

LEMMA LookupHolds == BrewSpec => []LookupInv
  <1>1. BrewInit => LookupInv
    BY DEF BrewInit, LookupInv
  <1>2. LookupInv /\ [BrewNext]_brewVars => LookupInv'
    <2> SUFFICES ASSUME LookupInv, [BrewNext]_brewVars PROVE LookupInv'
      OBVIOUS
    <2>1. CASE Send \/ UNCHANGED brewVars
      BY <2>1 DEF Send, brewVars, LookupInv
    <2>2. ASSUME NEW c \in Brews, Prepare(c) PROVE LookupInv'
      <3>0. c \in Call
        BY BrewAssumption
      <3>1. CASE Press(c)
        <4>1. PICK catalogue \in Catalogues : \E key \in Available(catalogue), profile \in Profiles :
                Goes(c, [stage |-> IF HasRecipe(catalogue, profile, key) THEN "found" ELSE "notFound",
                         catalogue |-> catalogue, key |-> key, profile |-> profile])
          BY <3>1 DEF Press
        <4>k. PICK key \in Available(catalogue), profile \in Profiles :
                Goes(c, [stage |-> IF HasRecipe(catalogue, profile, key) THEN "found" ELSE "notFound",
                         catalogue |-> catalogue, key |-> key, profile |-> profile])
          BY <4>1
        <4>2. Looked([stage |-> IF HasRecipe(catalogue, profile, key) THEN "found" ELSE "notFound",
                      catalogue |-> catalogue, key |-> key, profile |-> profile])
          BY DEF Looked
        <4>3. QED
          BY <3>0, <4>k, <4>2, OneGoes
      <3>2. CASE GiveUp(c) \/ Undecodable(c)
        BY <3>0, <3>2, OneGoes DEF GiveUp, Undecodable, Raised
      <3>3. CASE Take(c)
        BY <3>0, <3>3, OneGoes DEF Take
      <3>4. CASE Decode(c)
        BY <3>0, <3>4, OneGoes DEF Decode
      <3>5. CASE Check(c)
        BY <3>0, <3>5, OneGoes DEF Check, Raised
      <3>6. CASE Ping(c)
        <4>1. "stage" \in DOMAIN order[c]
          BY <3>0 DEF LookupInv
        <4>2. CASE Goes(c, [order[c] EXCEPT !.stage = "framed"])
          BY <3>0, <4>1, <4>2, OneGoes
        <4>3. CASE Goes(c, Raised)
          BY <3>0, <4>3, OneGoes DEF Raised
        <4>4. QED
          BY <3>6, <4>2, <4>3 DEF Ping
      <3>7. CASE Custom(c)
        BY <3>0, <3>7, OneGoes DEF Custom, Raised
      <3>8. CASE Plain(c)
        BY <3>0, <3>8, OneGoes DEF Plain, Try, Framed, Raised
      <3>9. CASE HandOver(c)
        BY <3>0, <3>9, OneGoes DEF HandOver
      <3>10. QED
        BY <2>2, <3>1, <3>2, <3>3, <3>4, <3>5, <3>6, <3>7, <3>8, <3>9 DEF Prepare
    <2>3. QED
      BY <2>1, <2>2 DEF BrewNext
  <1>3. QED
    BY <1>1, <1>2, PTL DEF BrewSpec

\* A brew button works for every profile as long as one recipe of its beverage is filled
\* in, and brews that beverage, with the selected profile's recipe where there is one:
\* for catalogues of any length, in any order (api.py, brew_beverage).
THEOREM PressedIsBrewed == BrewSpec => []RecipeIsTheBeverages
  <1>1. LookupInv => RecipeIsTheBeverages
    <2> SUFFICES ASSUME LookupInv PROVE RecipeIsTheBeverages
      OBVIOUS
    <2>1. ASSUME NEW c \in Call, order[c].stage = "notFound",
                 NEW i \in DOMAIN order[c].catalogue, Usable(order[c].catalogue[i]),
                 order[c].catalogue[i].key = order[c].key
          PROVE  FALSE
      BY <2>1, ListedIsFound DEF LookupInv, Looked
    <2>2. ASSUME NEW c \in Call, order[c].stage = "found",
                 \A i \in DOMAIN order[c].catalogue :
                   IsPrefix(order[c].key, order[c].catalogue[i].key) =>
                     order[c].catalogue[i].key = order[c].key
          PROVE  /\ Usable(Chosen(c))
                 /\ Chosen(c).key = order[c].key
                 /\ (\E i \in DOMAIN order[c].catalogue :
                       /\ Usable(order[c].catalogue[i])
                       /\ order[c].catalogue[i].key = order[c].key
                       /\ order[c].catalogue[i].profile = order[c].profile) =>
                      Chosen(c).profile = order[c].profile
      <3>1. /\ order[c].catalogue \in Catalogues /\ order[c].profile \in Profiles
            /\ HasRecipe(order[c].catalogue, order[c].profile, order[c].key)
        BY <2>2 DEF LookupInv, Looked
      <3>2. QED
        BY <2>2, <3>1, TakenIsOfTheBeverage DEF Chosen
    <2>3. QED
      BY <2>1, <2>2 DEF RecipeIsTheBeverages, Underway, ToSet
  <1>2. QED
    BY <1>1, LookupHolds, PTL

-----------------------------------------------------------------------------
(* Bytes, one after another.                                               *)

\* Induction over a set of numbers: the library's theorems take an operator.
LEMMA SetInduction ==
  ASSUME NEW S, 0 \in S, \A n \in Nat : n \in S => n + 1 \in S
  PROVE  Nat \subseteq S
  <1> DEFINE T == Nat \ S
  <1> SUFFICES ASSUME T # {} PROVE FALSE
    OBVIOUS
  <1>1. PICK x \in T : \A y \in T : <<y, x>> \notin Earlier
    BY EarlierWellFounded, WFMin
  <1>2. x - 1 \in Nat /\ x - 1 < x /\ x = (x - 1) + 1
    BY <1>1
  <1>3. x - 1 \in S
    BY <1>1, <1>2 DEF Earlier
  <1>4. QED
    BY <1>1, <1>2, <1>3

LEMMA Joined ==
  ASSUME NEW S, NEW a \in Seq(S), NEW b \in Seq(S)
  PROVE  /\ a \o b \in Seq(S) /\ Len(a \o b) = Len(a) + Len(b)
         /\ Len(a) \in Nat /\ Len(b) \in Nat
  BY ConcatProperties, LenProperties

\* b goes on where a ends.
Begins(a, b) == Len(a) <= Len(b) /\ \A k \in 1 .. Len(a) : b[k] = a[k]

LEMMA JoinedBegins ==
  ASSUME NEW S, NEW a \in Seq(S), NEW b \in Seq(S)
  PROVE  Begins(a, a \o b)
  <1>1. Len(a) \in Nat /\ Len(b) \in Nat /\ Len(a \o b) = Len(a) + Len(b)
    BY Joined
  <1>2. \A k \in 1 .. Len(a) : k \in 1 .. Len(a) + Len(b) /\ k <= Len(a)
    BY <1>1
  <1>3. \A k \in 1 .. Len(a) : (a \o b)[k] = a[k]
    BY <1>2, ConcatProperties
  <1>4. QED
    BY <1>1, <1>3 DEF Begins

LEMMA BeginsOn ==
  ASSUME NEW S, NEW a \in Seq(S), NEW b \in Seq(S), NEW c \in Seq(S),
         Begins(a, b), Begins(b, c)
  PROVE  Begins(a, c)
  <1>1. Len(a) \in Nat /\ Len(b) \in Nat /\ Len(c) \in Nat
    BY LenProperties
  <1>2. \A k \in 1 .. Len(a) : k \in 1 .. Len(b)
    BY <1>1 DEF Begins
  <1>3. QED
    BY <1>1, <1>2 DEF Begins

\* What stands between the bytes before it and the ones behind.
LEMMA Middle ==
  ASSUME NEW S, NEW a \in Seq(S), NEW b \in Seq(S), NEW c \in Seq(S)
  PROVE  SubSeq((a \o b) \o c, Len(a) + 1, Len(a) + Len(b)) = b
  <1> DEFINE ab == a \o b
             all == ab \o c
             part == SubSeq(all, Len(a) + 1, Len(a) + Len(b))
  <1>1. /\ Len(a) \in Nat /\ Len(b) \in Nat /\ Len(c) \in Nat
        /\ ab \in Seq(S) /\ Len(ab) = Len(a) + Len(b)
    BY Joined
  <1>2. \A k \in 1 .. Len(b) : ab[Len(a) + k] = b[k]
    <2> SUFFICES ASSUME NEW k \in 1 .. Len(b) PROVE ab[Len(a) + k] = b[k]
      OBVIOUS
    <2>1. Len(a) + k \in 1 .. Len(a) + Len(b) /\ ~(Len(a) + k <= Len(a)) /\ (Len(a) + k) - Len(a) = k
      BY <1>1
    <2>2. QED
      BY <2>1, ConcatProperties
  <1> HIDE DEF ab
  <1>3. \A k \in 1 .. Len(ab) : all[k] = ab[k]
    BY <1>1, JoinedBegins DEF Begins
  <1> HIDE DEF all
  <1>4. \A k \in 1 .. Len(b) : all[Len(a) + k] = b[k]
    <2> SUFFICES ASSUME NEW k \in 1 .. Len(b) PROVE all[Len(a) + k] = b[k]
      OBVIOUS
    <2>1. Len(a) + k \in 1 .. Len(ab)
      BY <1>1
    <2>2. QED
      BY <1>2, <1>3, <2>1
  <1> DEFINE from == Len(a) + 1
             to == Len(a) + Len(b)
  <1>5. from \in Int /\ to \in Int /\ to - from + 1 = Len(b) /\ (from <= to \/ Len(b) = 0)
    BY <1>1
  <1>6. \A k \in from .. to : all[k] \in S
    <2> SUFFICES ASSUME NEW k \in from .. to PROVE all[k] \in S
      OBVIOUS
    <2>1. k - Len(a) \in 1 .. Len(b) /\ Len(a) + (k - Len(a)) = k
      BY <1>1
    <2>2. all[k] = b[k - Len(a)]
      BY <1>4, <2>1
    <2>3. QED
      BY <2>1, <2>2, ElementOfSeq
  <1>7. \A k \in 1 .. Len(b) : from + k - 1 = Len(a) + k
    BY <1>1
  <1> HIDE DEF from, to
  <1>8. /\ SubSeq(all, from, to) \in Seq(S)
        /\ Len(SubSeq(all, from, to)) = IF from <= to THEN to - from + 1 ELSE 0
        /\ \A k \in 1 .. to - from + 1 : SubSeq(all, from, to)[k] = all[from + k - 1]
    BY <1>5, <1>6, SubSeqProperties
  <1>9. Len(SubSeq(all, from, to)) = Len(b)
    BY <1>5, <1>8
  <1>10. \A k \in 1 .. Len(b) : SubSeq(all, from, to)[k] = b[k]
    BY <1>4, <1>5, <1>7, <1>8
  <1>11. SubSeq(all, from, to) = b
    BY <1>8, <1>9, <1>10, SeqEqual
  <1>12. QED
    BY <1>11 DEF from, to, all, ab

\* Parts put one after another, as FlattenSeq does it.
Join(s, f, i) == IF i = 1 THEN s[i] ELSE f[i - 1] \o s[i]

LEMMA JoinExists ==
  ASSUME NEW s, NEW n \in Nat
  PROVE  \E f : f = [i \in 1 .. n |-> Join(s, f, i)]
  <1> DEFINE S == {m \in Nat : \E g : g = [i \in 1 .. m |-> Join(s, g, i)]}
  <1>1. 0 \in S
    <2>1. \A g : [i \in 1 .. 0 |-> Join(s, g, i)] = [i \in {} |-> 0]
      OBVIOUS
    <2>2. QED
      BY <2>1
  <1>2. ASSUME NEW m \in Nat, m \in S PROVE m + 1 \in S
    <2> SUFFICES \E g : g = [i \in 1 .. m + 1 |-> Join(s, g, i)]
      OBVIOUS
    <2>1. PICK g : g = [i \in 1 .. m |-> Join(s, g, i)]
      BY <1>2
    <2> DEFINE h == [i \in 1 .. m + 1 |-> Join(s, g, i)]
    <2>2. \A i \in 1 .. m : h[i] = g[i]
      <3>1. \A i \in 1 .. m : g[i] = Join(s, g, i)
        BY <2>1
      <3>2. \A i \in 1 .. m : i \in 1 .. m + 1
        OBVIOUS
      <3>3. QED
        BY <3>1, <3>2
    <2>3. ASSUME NEW i \in 1 .. m + 1 PROVE Join(s, g, i) = Join(s, h, i)
      <3>1. i # 1 => i - 1 \in 1 .. m
        OBVIOUS
      <3>2. i # 1 => h[i - 1] = g[i - 1]
        BY <2>2, <3>1
      <3> HIDE DEF h
      <3>3. QED
        BY <3>2 DEF Join
    <2>4. h = [i \in 1 .. m + 1 |-> Join(s, h, i)]
      BY <2>3
    <2>5. QED
      BY <2>4
  <1>3. n \in S
    <2> HIDE DEF S
    <2>1. QED
      BY <1>1, <1>2, SetInduction
  <1>4. QED
    BY <1>3

\* F[m] is what the first m parts come to.
Steps(F, s, n) ==
  /\ F[0] = <<>>
  /\ F[n] = FlattenSeq(s)
  /\ \A m \in 0 .. n - 1 : F[m + 1] = F[m] \o s[m + 1]

LEMMA FlattenSteps ==
  ASSUME NEW S, NEW n \in Nat, NEW s \in [1 .. n -> Seq(S)]
  PROVE  \E F \in [0 .. n -> Seq(S)] : Steps(F, s, n)
  <1> DEFINE f == CHOOSE f : f = [i \in 1 .. n |-> Join(s, f, i)]
             F == [m \in 0 .. n |-> IF m = 0 THEN <<>> ELSE f[m]]
             T == {m \in Nat : m <= n => F[m] \in Seq(S)}
  <1>1. s \in Seq(Seq(S)) /\ Len(s) = n
    BY SeqDef
  <1>e. <<>> \in Seq(S) /\ Len(<<>>) = 0
    BY EmptySeq
  <1>2. f = [i \in 1 .. n |-> Join(s, f, i)]
    BY JoinExists
  <1>3. FlattenSeq(s) = IF n = 0 THEN s ELSE f[n]
    BY <1>1 DEF FlattenSeq, Join
  <1>4. n = 0 => s = <<>>
    BY <1>1, EmptySeq
  <1> HIDE DEF f
  <1>5. \A i \in 1 .. n : f[i] = Join(s, f, i)
    BY <1>2
  <1>6. F[0] = <<>> /\ F[n] = FlattenSeq(s)
    BY <1>3, <1>4
  <1>7. ASSUME NEW m \in 0 .. n - 1 PROVE F[m + 1] = F[m] \o s[m + 1]
    <2>1. m + 1 \in 1 .. n /\ m + 1 # 0 /\ (m + 1) - 1 = m /\ (m + 1 = 1 <=> m = 0) /\ m \in 0 .. n /\ m + 1 \in 0 .. n
      OBVIOUS
    <2>2. F[m + 1] = f[m + 1] /\ s[m + 1] \in Seq(S)
      BY <2>1
    <2>3. f[m + 1] = Join(s, f, m + 1)
      BY <1>5, <2>1
    <2>4. CASE m = 0
      <3>1. F[m + 1] = s[m + 1] /\ F[m] = <<>>
        BY <2>1, <2>2, <2>3, <2>4 DEF Join
      <3>2. <<>> \o s[m + 1] = s[m + 1]
        BY <2>2, ConcatEmptySeq
      <3>3. QED
        BY <3>1, <3>2
    <2>5. CASE m # 0
      <3>1. F[m] = f[m]
        BY <2>1, <2>5
      <3>2. QED
        BY <2>1, <2>2, <2>3, <2>5, <3>1 DEF Join
    <2>6. QED
      BY <2>4, <2>5
  <1>8. ASSUME NEW m \in Nat, m \in T PROVE m + 1 \in T
    <2> SUFFICES ASSUME m + 1 <= n PROVE F[m + 1] \in Seq(S)
      OBVIOUS
    <2>1. m \in 0 .. n - 1 /\ m + 1 \in 1 .. n
      OBVIOUS
    <2>2. F[m] \in Seq(S) /\ s[m + 1] \in Seq(S)
      BY <1>8, <2>1
    <2>3. F[m + 1] = F[m] \o s[m + 1]
      BY <1>7, <2>1
    <2> HIDE DEF F
    <2>4. QED
      BY <2>2, <2>3, ConcatProperties
  <1>9. 0 \in T
    BY <1>e
  <1>10. \A m \in 0 .. n : F[m] \in Seq(S)
    <2> HIDE DEF T
    <2>1. Nat \subseteq T
      BY <1>8, <1>9, SetInduction
    <2>2. ASSUME NEW m \in 0 .. n PROVE F[m] \in Seq(S)
      <3>1. m \in T /\ m <= n
        BY <2>1
      <3> HIDE DEF F
      <3>2. QED
        BY <3>1 DEF T
    <2>3. QED
      BY <2>2
  <1>11. F \in [0 .. n -> Seq(S)]
    BY <1>10
  <1> HIDE DEF F
  <1>12. QED
    BY <1>6, <1>7, <1>11 DEF Steps

-----------------------------------------------------------------------------
(* The walk over the params of a recipe or of a frame.                     *)

\* A param has the length that its id says.
Shaped == {p \in Seq(Int) : Len(p) = IF p[1] \in BigParams THEN 3 ELSE 2}

\* The walk moves on, and not beyond the end.
LEMMA WalkMoves ==
  ASSUME NEW raw \in Seq(Int), NEW i \in 1 .. Len(raw) + 1, ~Ends(raw, i)
  PROVE  i + Width(raw, i) \in i + 1 .. Len(raw) + 1
  <1>1. Len(raw) \in Nat
    BY LenProperties
  <1>2. i \in 1 .. Len(raw) /\ Width(raw, i) # 0
    BY <1>1 DEF Ends
  <1>3. \/ Width(raw, i) = 3 /\ i + 2 <= Len(raw)
        \/ Width(raw, i) = 2 /\ i + 1 <= Len(raw)
    BY <1>2 DEF Width
  <1>4. QED
    BY <1>1, <1>2, <1>3

Walk(raw, f, i) == IF Ends(raw, i) THEN <<>> ELSE <<ParamAt(raw, i)>> \o f[i + Width(raw, i)]

LEMMA WalkExists ==
  ASSUME NEW raw \in Seq(Int)
  PROVE  \E f : f = [i \in 1 .. Len(raw) + 1 |-> Walk(raw, f, i)]
  <1> DEFINE L == Len(raw)
  <1> DEFINE S == {m \in Nat : m <= L => \E g : g = [i \in L + 1 - m .. L + 1 |-> Walk(raw, g, i)]}
  <1>1. L \in Nat
    BY LenProperties
  <1>2. 0 \in S
    <2> DEFINE g == [i \in L + 1 - 0 .. L + 1 |-> <<>>]
    <2>1. \A i \in L + 1 - 0 .. L + 1 : Walk(raw, g, i) = <<>>
      BY <1>1 DEF Walk, Ends
    <2>2. g = [i \in L + 1 - 0 .. L + 1 |-> Walk(raw, g, i)]
      BY <2>1
    <2>3. QED
      BY <2>2
  <1>3. ASSUME NEW m \in Nat, m \in S PROVE m + 1 \in S
    <2> SUFFICES ASSUME m + 1 <= L
                 PROVE  \E g : g = [i \in L + 1 - (m + 1) .. L + 1 |-> Walk(raw, g, i)]
      OBVIOUS
    <2>1. PICK g : g = [i \in L + 1 - m .. L + 1 |-> Walk(raw, g, i)]
      BY <1>1, <1>3
    <2> DEFINE h == [i \in L + 1 - (m + 1) .. L + 1 |-> Walk(raw, g, i)]
    <2>2. \A i \in L + 1 - m .. L + 1 : h[i] = g[i]
      <3>1. \A i \in L + 1 - m .. L + 1 : g[i] = Walk(raw, g, i)
        BY <2>1
      <3>2. \A i \in L + 1 - m .. L + 1 : i \in L + 1 - (m + 1) .. L + 1
        BY <1>1
      <3>3. QED
        BY <3>1, <3>2
    <2>3. ASSUME NEW i \in L + 1 - (m + 1) .. L + 1
          PROVE  Walk(raw, g, i) = Walk(raw, h, i)
      <3>1. CASE Ends(raw, i)
        BY <3>1 DEF Walk
      <3>2. CASE ~Ends(raw, i)
        <4>1. i \in 1 .. L + 1
          BY <1>1
        <4>2. i + Width(raw, i) \in i + 1 .. L + 1
          BY <3>2, <4>1, WalkMoves
        <4>3. i + Width(raw, i) \in L + 1 - m .. L + 1
          BY <1>1, <4>1, <4>2
        <4>4. h[i + Width(raw, i)] = g[i + Width(raw, i)]
          BY <2>2, <4>3
        <4> HIDE DEF h
        <4>5. QED
          BY <4>4, <3>2 DEF Walk
      <3>3. QED
        BY <3>1, <3>2
    <2>4. h = [i \in L + 1 - (m + 1) .. L + 1 |-> Walk(raw, h, i)]
      BY <2>3
    <2>5. QED
      BY <2>4
  <1>4. L \in S
    <2> HIDE DEF S
    <2>1. Nat \subseteq S
      BY <1>2, <1>3, SetInduction
    <2>2. QED
      BY <1>1, <2>1
  <1>5. L + 1 - L = 1
    BY <1>1
  <1>6. QED
    BY <1>1, <1>4, <1>5

LEMMA ParsedWalks ==
  ASSUME NEW raw \in Seq(Int)
  PROVE  \E f : Parsed(raw) = f[1] /\ \A i \in 1 .. Len(raw) + 1 : f[i] = Walk(raw, f, i)
  <1> DEFINE f == CHOOSE f : f = [i \in 1 .. Len(raw) + 1 |-> Walk(raw, f, i)]
  <1>1. f = [i \in 1 .. Len(raw) + 1 |-> Walk(raw, f, i)]
    BY WalkExists
  <1>2. Parsed(raw) = f[1]
    BY DEF Parsed, Walk
  <1> HIDE DEF f
  <1>3. \A i \in 1 .. Len(raw) + 1 : f[i] = Walk(raw, f, i)
    BY <1>1
  <1>4. QED
    BY <1>2, <1>3

\* Where a param was written, the walk finds it.
LEMMA ParamThere ==
  ASSUME NEW raw \in Seq(Int), NEW a \in Seq(Int), NEW p \in Shaped, Begins(a \o p, raw),
         NEW i, i = Len(a) + 1
  PROVE  /\ i \in 1 .. Len(raw) /\ ~Ends(raw, i)
         /\ ParamAt(raw, i) = p
         /\ i + Width(raw, i) = Len(a \o p) + 1
  <1> DEFINE la == Len(a)
             lp == Len(p)
             lr == Len(raw)
  <1>1. p \in Seq(Int) /\ lp = IF p[1] \in BigParams THEN 3 ELSE 2
    BY DEF Shaped
  <1>2. lr \in Nat /\ la \in Nat /\ a \o p \in Seq(Int) /\ Len(a \o p) = la + lp
    BY <1>1, Joined, LenProperties
  <1>3. /\ la + lp <= lr
        /\ \A k \in 1 .. la + lp : raw[k] = (a \o p)[k]
    BY <1>2 DEF Begins
  <1>4. \A k \in 1 .. la + lp : (a \o p)[k] = IF k <= la THEN a[k] ELSE p[k - la]
    BY <1>1, ConcatProperties
  <1>5. i = la + 1
    OBVIOUS
  <1> HIDE DEF la, lp, lr
  <1>6. lp \in Nat /\ (lp = 2 \/ lp = 3)
    BY <1>1
  <1>7. \A k \in 1 .. lp : raw[la + k] = p[k]
    <2> SUFFICES ASSUME NEW k \in 1 .. lp PROVE raw[la + k] = p[k]
      OBVIOUS
    <2>1. la + k \in 1 .. la + lp /\ ~(la + k <= la) /\ (la + k) - la = k
      BY <1>2, <1>6
    <2>2. QED
      BY <1>3, <1>4, <2>1
  <1>8. raw[i] = p[1]
    <2>1. 1 \in 1 .. lp
      BY <1>6
    <2>2. QED
      BY <1>5, <1>7, <2>1
  <1>9. Width(raw, i) = lp
    <2>1. CASE p[1] \in BigParams
      <3>1. lp = 3 /\ i + 2 <= lr
        BY <1>1, <1>2, <1>3, <1>5, <2>1
      <3>2. QED
        BY <1>8, <2>1, <3>1 DEF Width, lr
    <2>2. CASE p[1] \notin BigParams
      <3>1. lp = 2 /\ i + 1 <= lr
        BY <1>1, <1>2, <1>3, <1>5, <2>2
      <3>2. QED
        BY <1>8, <2>2, <3>1 DEF Width, lr
    <2>3. QED
      BY <2>1, <2>2
  <1>10. i \in 1 .. lr /\ i <= lr /\ i + lp = (la + lp) + 1
    BY <1>2, <1>3, <1>5, <1>6
  <1>11. ~Ends(raw, i)
    <2>1. ~(i > lr) /\ lp # 0
      BY <1>2, <1>6, <1>10
    <2>2. QED
      BY <1>9, <2>1 DEF Ends, lr
  <1>12. ParamAt(raw, i) = p
    <2> DEFINE to == i + lp - 1
               part == SubSeq(raw, i, to)
    <2>1. i \in Int /\ to \in Int /\ i <= to /\ to - i + 1 = lp /\ to <= lr
      BY <1>2, <1>3, <1>5, <1>6
    <2>2. ASSUME NEW k \in 1 .. lp PROVE i + k - 1 = la + k
      <3>1. k \in Int /\ la \in Int
        BY <1>2
      <3>2. (la + 1) + k - 1 = la + k
        BY <3>1
      <3>3. QED
        BY <1>5, <3>2
    <2>3. \A k \in i .. to : raw[k] \in Int
      <3>1. \A k \in i .. to : k \in 1 .. Len(raw)
        BY <1>2, <1>10, <2>1 DEF lr
      <3>2. QED
        BY <3>1, ElementOfSeq
    <2>4. ParamAt(raw, i) = part
      BY <1>9 DEF ParamAt
    <2> HIDE DEF to
    <2>5. /\ part \in Seq(Int) /\ Len(part) = to - i + 1
          /\ \A k \in 1 .. to - i + 1 : part[k] = raw[i + k - 1]
      BY <2>1, <2>3, SubSeqProperties
    <2> HIDE DEF part
    <2>6. \A k \in 1 .. lp : part[k] = p[k]
      BY <1>7, <2>1, <2>2, <2>5
    <2>7. Len(part) = Len(p) /\ \A k \in 1 .. Len(part) : part[k] = p[k]
      BY <2>1, <2>5, <2>6 DEF lp
    <2>8. QED
      BY <1>1, <2>4, <2>5, <2>7, SeqEqual
  <1>13. i + Width(raw, i) = Len(a \o p) + 1
    BY <1>2, <1>9, <1>10
  <1>14. QED
    BY <1>10, <1>11, <1>12, <1>13 DEF lr

\* The walk finds the params that were put together, whatever the values of their
\* bytes, and not the byte that is left when they are cut off.
LEMMA ParseJoined ==
  ASSUME NEW n \in Nat, NEW q \in [1 .. n -> Shaped], NEW stray \in Seq(Int), Len(stray) <= 1
  PROVE  Parsed(FlattenSeq(q) \o stray) = q
  <1> DEFINE flat == FlattenSeq(q)
             raw == flat \o stray
  <1>1. q \in [1 .. n -> Seq(Int)]
    BY DEF Shaped
  <1>2. PICK F \in [0 .. n -> Seq(Int)] : Steps(F, q, n)
    BY <1>1, FlattenSteps
  <1>3. flat \in Seq(Int) /\ F[n] = flat
    BY <1>2 DEF Steps
  <1> HIDE DEF flat
  <1>4. /\ raw \in Seq(Int) /\ Len(raw) = Len(flat) + Len(stray)
        /\ Len(flat) \in Nat /\ Len(stray) \in Nat /\ Begins(flat, raw)
    BY <1>3, Joined, JoinedBegins
  <1> HIDE DEF raw
  <1>5. \A m \in 0 .. n - 1 : F[m + 1] = F[m] \o q[m + 1]
    BY <1>2 DEF Steps
  <1>6. \A m \in 0 .. n : Begins(F[m], raw)
    <2> DEFINE T == {k \in Nat : k <= n => Begins(F[n - k], raw)}
    <2>1. 0 \in T
      <3>1. F[n - 0] = flat
        BY <1>3
      <3>2. QED
        BY <1>4, <3>1
    <2>2. ASSUME NEW k \in Nat, k \in T PROVE k + 1 \in T
      <3> SUFFICES ASSUME k + 1 <= n PROVE Begins(F[n - (k + 1)], raw)
        OBVIOUS
      <3> DEFINE m == n - (k + 1)
      <3>1. m \in 0 .. n - 1 /\ n - k = m + 1 /\ m + 1 \in 0 .. n /\ m \in 0 .. n /\ m + 1 \in 1 .. n
        OBVIOUS
      <3>2. Begins(F[m + 1], raw)
        BY <2>2, <3>1
      <3> HIDE DEF m
      <3>3. F[m] \in Seq(Int) /\ F[m + 1] \in Seq(Int) /\ q[m + 1] \in Seq(Int)
        BY <1>1, <3>1
      <3>4. Begins(F[m], F[m + 1])
        BY <1>5, <3>1, <3>3, JoinedBegins
      <3>5. Begins(F[m], raw)
        BY <1>4, <3>2, <3>3, <3>4, BeginsOn
      <3>6. QED
        BY <3>5 DEF m
    <2> HIDE DEF T
    <2>3. Nat \subseteq T
      BY <2>1, <2>2, SetInduction
    <2>4. ASSUME NEW m \in 0 .. n PROVE Begins(F[m], raw)
      <3>1. n - m \in Nat /\ n - m <= n /\ n - (n - m) = m
        OBVIOUS
      <3>2. QED
        BY <2>3, <3>1 DEF T
    <2>5. QED
      BY <2>4
  <1>7. PICK f : Parsed(raw) = f[1] /\ \A i \in 1 .. Len(raw) + 1 : f[i] = Walk(raw, f, i)
    BY <1>4, ParsedWalks
  <1>8. ASSUME NEW m \in 0 .. n - 1
        PROVE  f[Len(F[m]) + 1] = <<q[m + 1]>> \o f[Len(F[m + 1]) + 1]
    <2> DEFINE a == F[m]
               p == q[m + 1]
               i == Len(a) + 1
    <2>1. m \in 0 .. n /\ m + 1 \in 0 .. n /\ m + 1 \in 1 .. n
      OBVIOUS
    <2>2. a \in Seq(Int) /\ p \in Shaped /\ F[m + 1] = a \o p /\ Begins(a \o p, raw)
      BY <1>5, <1>6, <2>1
    <2> HIDE DEF a, p
    <2>i. i = Len(a) + 1
      OBVIOUS
    <2> HIDE DEF i
    <2>3. /\ i \in 1 .. Len(raw) /\ ~Ends(raw, i) /\ ParamAt(raw, i) = p
          /\ i + Width(raw, i) = Len(a \o p) + 1
      BY <1>4, <2>2, <2>i, ParamThere
    <2>4. i \in 1 .. Len(raw) + 1
      BY <1>4, <2>3
    <2>5. f[i] = Walk(raw, f, i)
      BY <1>7, <2>4
    <2>6. f[i] = <<p>> \o f[Len(a \o p) + 1]
      BY <2>3, <2>5 DEF Walk
    <2>7. QED
      BY <2>2, <2>6 DEF i, a, p
  <1>9. f[Len(F[n]) + 1] = <<>>
    <2> DEFINE i == Len(flat) + 1
    <2>1. i \in 1 .. Len(raw) + 1 /\ ~(i + 2 <= Len(raw)) /\ ~(i + 1 <= Len(raw))
      BY <1>4
    <2> HIDE DEF i
    <2>2. Width(raw, i) = 0
      BY <2>1 DEF Width
    <2>3. f[i] = <<>>
      BY <1>7, <2>1, <2>2 DEF Walk, Ends
    <2>4. QED
      BY <1>3, <2>3 DEF i
  <1>q. q \in Seq(Shaped) /\ Len(q) = n
    BY SeqDef
  <1>10. \A m \in 0 .. n : f[Len(F[m]) + 1] = SubSeq(q, m + 1, n)
    <2> DEFINE T == {k \in Nat : k <= n => f[Len(F[n - k]) + 1] = SubSeq(q, (n - k) + 1, n)}
    <2>1. 0 \in T
      <3>1. n - 0 = n /\ n + 1 \in Int /\ n \in Int /\ n < n + 1
        OBVIOUS
      <3>2. SubSeq(q, n + 1, n) = <<>>
        BY <3>1, SubSeqEmpty
      <3>3. QED
        BY <1>9, <3>1, <3>2
    <2>2. ASSUME NEW k \in Nat, k \in T PROVE k + 1 \in T
      <3> SUFFICES ASSUME k + 1 <= n
                   PROVE  f[Len(F[n - (k + 1)]) + 1] = SubSeq(q, (n - (k + 1)) + 1, n)
        BY SMTT(30)
      <3> DEFINE m == n - (k + 1)
      <3>1. m \in 0 .. n - 1 /\ n - k = m + 1 /\ m + 1 \in 1 .. n /\ n \in m + 1 .. n
        <4>1. k \in Nat /\ n \in Nat /\ k + 1 <= n
          BY <2>2
        <4>2. m \in Int /\ 0 <= m /\ m <= n - 1 /\ n - k = m + 1
          BY ONLY <4>1
        <4> HIDE DEF m
        <4>3. QED
          BY <4>1, <4>2
      <3>2. f[Len(F[m + 1]) + 1] = SubSeq(q, (m + 1) + 1, n)
        BY <2>2, <3>1, SMTT(30)
      <3> HIDE DEF m
      <3>3. f[Len(F[m]) + 1] = <<q[m + 1]>> \o SubSeq(q, (m + 1) + 1, n)
        BY <1>8, <3>1, <3>2
      <3>4. SubSeq(q, m + 1, n) = <<q[m + 1]>> \o SubSeq(q, (m + 1) + 1, n)
        BY <1>q, <3>1, SubSeqRecursiveFirst
      <3>5. f[Len(F[m]) + 1] = SubSeq(q, m + 1, n)
        BY <3>3, <3>4
      <3>6. QED
        BY <3>5 DEF m
    <2> HIDE DEF T
    <2>3. Nat \subseteq T
      BY <2>1, <2>2, SetInduction
    <2>4. ASSUME NEW m \in 0 .. n PROVE f[Len(F[m]) + 1] = SubSeq(q, m + 1, n)
      <3>1. n - m \in Nat /\ n - m <= n /\ n - (n - m) = m
        OBVIOUS
      <3>2. QED
        BY <2>3, <3>1 DEF T
    <2>5. QED
      BY <2>4
  <1>11. f[1] = SubSeq(q, 1, n)
    <2>1. Len(F[0]) + 1 = 1 /\ 0 + 1 = 1 /\ 0 \in 0 .. n
      BY <1>2, EmptySeq DEF Steps
    <2>2. QED
      BY <1>10, <2>1
  <1>12. SubSeq(q, 1, n) = q
    BY <1>q, SubSeqFull
  <1>13. QED
    BY <1>7, <1>11, <1>12 DEF raw, flat

\* One part more at the end.
LEMMA FlattenMore ==
  ASSUME NEW S, NEW n \in Nat, NEW s \in [1 .. n -> Seq(S)], NEW t \in [1 .. n + 1 -> Seq(S)],
         \A i \in 1 .. n : t[i] = s[i]
  PROVE  /\ FlattenSeq(t) = FlattenSeq(s) \o t[n + 1]
         /\ FlattenSeq(s) \in Seq(S)
  <1>1. PICK F \in [0 .. n -> Seq(S)] : Steps(F, s, n)
    BY FlattenSteps
  <1>2. n + 1 \in Nat
    OBVIOUS
  <1>3. PICK G \in [0 .. n + 1 -> Seq(S)] : Steps(G, t, n + 1)
    BY <1>2, FlattenSteps
  <1> DEFINE T == {m \in Nat : m <= n => G[m] = F[m]}
  <1>4. 0 \in T
    BY <1>1, <1>3 DEF Steps
  <1>5. ASSUME NEW m \in Nat, m \in T PROVE m + 1 \in T
    <2> SUFFICES ASSUME m + 1 <= n PROVE G[m + 1] = F[m + 1]
      OBVIOUS
    <2>1. m \in 0 .. n - 1 /\ m \in 0 .. (n + 1) - 1 /\ m + 1 \in 1 .. n
      OBVIOUS
    <2>2. F[m + 1] = F[m] \o s[m + 1] /\ G[m + 1] = G[m] \o t[m + 1]
      BY <1>1, <1>3, <2>1 DEF Steps
    <2>3. G[m] = F[m] /\ t[m + 1] = s[m + 1]
      BY <1>5, <2>1
    <2>4. QED
      BY <2>2, <2>3
  <1>6. n \in T
    <2> HIDE DEF T
    <2>1. QED
      BY <1>4, <1>5, SetInduction
  <1>7. G[n] = F[n]
    BY <1>6
  <1>8. n \in 0 .. (n + 1) - 1
    OBVIOUS
  <1>9. G[n + 1] = G[n] \o t[n + 1]
    BY <1>3, <1>8 DEF Steps
  <1>10. QED
    BY <1>1, <1>3, <1>7, <1>9 DEF Steps

\* Bytes that are params, the ones in T.
Written(bytes, T) ==
  \E n \in Nat : \E q \in [1 .. n -> Shaped] :
    FlattenSeq(q) = bytes /\ T = {q[i] : i \in 1 .. n}

LEMMA NothingWritten == Written(<<>>, {})
  <1> DEFINE q == [i \in 1 .. 0 |-> <<>>]
  <1>1. q \in [1 .. 0 -> Shaped] /\ {q[i] : i \in 1 .. 0} = {}
    OBVIOUS
  <1>2. q \in [1 .. 0 -> Seq(Int)] /\ 0 \in Nat
    OBVIOUS
  <1>3. PICK F \in [0 .. 0 -> Seq(Int)] : Steps(F, q, 0)
    BY <1>2, FlattenSteps
  <1>4. FlattenSeq(q) = <<>>
    BY <1>3 DEF Steps
  <1> HIDE DEF q
  <1>5. QED
    BY <1>1, <1>2, <1>4 DEF Written

LEMMA MoreWritten ==
  ASSUME NEW bytes, NEW T, Written(bytes, T), NEW p \in Shaped
  PROVE  Written(bytes \o p, T \cup {p})
  <1>1. PICK n \in Nat : \E q \in [1 .. n -> Shaped] :
          FlattenSeq(q) = bytes /\ T = {q[i] : i \in 1 .. n}
    BY DEF Written
  <1>2. PICK q \in [1 .. n -> Shaped] : FlattenSeq(q) = bytes /\ T = {q[i] : i \in 1 .. n}
    BY <1>1
  <1> DEFINE t == [i \in 1 .. n + 1 |-> IF i <= n THEN q[i] ELSE p]
  <1>3. t \in [1 .. n + 1 -> Shaped] /\ (\A i \in 1 .. n : t[i] = q[i]) /\ t[n + 1] = p
    OBVIOUS
  <1>4. \A i \in 1 .. n + 1 : i \in 1 .. n \/ i = n + 1
    OBVIOUS
  <1>5. {t[i] : i \in 1 .. n + 1} = T \cup {p}
    <2> HIDE DEF t
    <2>1. n + 1 \in 1 .. n + 1 /\ \A i \in 1 .. n : i \in 1 .. n + 1
      OBVIOUS
    <2>2. QED
      BY <1>2, <1>3, <1>4, <2>1
  <1> HIDE DEF t
  <1>6. q \in [1 .. n -> Seq(Int)] /\ t \in [1 .. n + 1 -> Seq(Int)]
    BY <1>3 DEF Shaped
  <1>7. FlattenSeq(t) = bytes \o p
    <2>1. FlattenSeq(t) = FlattenSeq(q) \o t[n + 1]
      BY <1>3, <1>6, FlattenMore
    <2>2. QED
      BY <1>2, <1>3, <2>1
  <1>8. n + 1 \in Nat
    OBVIOUS
  <1>9. QED
    BY <1>3, <1>5, <1>7, <1>8 DEF Written

LEMMA ReadBack ==
  ASSUME NEW bytes, NEW T, Written(bytes, T)
  PROVE  bytes \in Seq(Int) /\ ToSet(Parsed(bytes)) = T
  <1>1. PICK n \in Nat : \E q \in [1 .. n -> Shaped] :
          FlattenSeq(q) = bytes /\ T = {q[i] : i \in 1 .. n}
    BY DEF Written
  <1>2. PICK q \in [1 .. n -> Shaped] : FlattenSeq(q) = bytes /\ T = {q[i] : i \in 1 .. n}
    BY <1>1
  <1>3. q \in [1 .. n -> Seq(Int)]
    BY DEF Shaped
  <1>4. PICK F \in [0 .. n -> Seq(Int)] : Steps(F, q, n)
    BY <1>3, FlattenSteps
  <1>5. bytes \in Seq(Int)
    BY <1>2, <1>4 DEF Steps
  <1>6. <<>> \in Seq(Int) /\ Len(<<>>) <= 1 /\ bytes \o <<>> = bytes
    BY <1>5, EmptySeq, ConcatEmptySeq
  <1>7. Parsed(bytes) = q
    BY <1>2, <1>6, ParseJoined
  <1>8. QED
    BY <1>2, <1>5, <1>7 DEF ToSet

\* The params that are left when the ones with certain ids are not carried over.
CarriedParts(q, n, excluded) == [i \in 1 .. n |-> IF q[i][1] \in excluded THEN <<>> ELSE q[i]]

LEMMA CarriedWritten ==
  ASSUME NEW n \in Nat, NEW q \in [1 .. n -> Shaped], NEW excluded
  PROVE  Written(FlattenSeq(CarriedParts(q, n, excluded)),
                 {q[i] : i \in {j \in 1 .. n : q[j][1] \notin excluded}})
  <1> DEFINE s == CarriedParts(q, n, excluded)
             Left(m) == {q[i] : i \in {j \in 1 .. m : q[j][1] \notin excluded}}
  <1>1. \A i \in 1 .. n : s[i] = IF q[i][1] \in excluded THEN <<>> ELSE q[i]
    BY DEF CarriedParts
  <1>2. s \in [1 .. n -> Seq(Int)]
    <2>1. <<>> \in Seq(Int) /\ \A i \in 1 .. n : q[i] \in Seq(Int)
      BY EmptySeq DEF Shaped
    <2>2. QED
      BY <2>1 DEF CarriedParts
  <1> HIDE DEF s
  <1>3. PICK F \in [0 .. n -> Seq(Int)] : Steps(F, s, n)
    BY <1>2, FlattenSteps
  <1> DEFINE T == {m \in Nat : m <= n => Written(F[m], Left(m))}
  <1>4. 0 \in T
    <2>1. Left(0) = {} /\ F[0] = <<>>
      BY <1>3 DEF Steps
    <2> HIDE DEF Left
    <2>2. QED
      BY <2>1, NothingWritten
  <1>5. ASSUME NEW m \in Nat, m \in T PROVE m + 1 \in T
    <2> SUFFICES ASSUME m + 1 <= n PROVE Written(F[m + 1], Left(m + 1))
      OBVIOUS
    <2>1. m \in 0 .. n - 1 /\ m + 1 \in 1 .. n /\ m \in 0 .. n
      OBVIOUS
    <2>2. F[m + 1] = F[m] \o s[m + 1] /\ Written(F[m], Left(m)) /\ F[m] \in Seq(Int)
      <3>1. F[m + 1] = F[m] \o s[m + 1]
        BY <1>3, <2>1 DEF Steps
      <3>2. F[m] \in Seq(Int)
        BY <2>1
      <3>3. m <= n
        BY <2>1
      <3> HIDE DEF Left
      <3>4. Written(F[m], Left(m))
        BY <1>5, <3>3
      <3>5. QED
        BY <3>1, <3>2, <3>4
    <2>3. \A j \in 1 .. m + 1 : j \in 1 .. m \/ j = m + 1
      OBVIOUS
    <2>4. \A j \in 1 .. m : j \in 1 .. m + 1
      OBVIOUS
    <2>5. m + 1 \in 1 .. m + 1
      OBVIOUS
    <2>6. CASE q[m + 1][1] \in excluded
      <3>1. Left(m + 1) = Left(m)
        BY <2>3, <2>4, <2>6
      <3>2. F[m + 1] = F[m]
        BY <1>1, <2>1, <2>2, <2>6, ConcatEmptySeq
      <3> HIDE DEF Left
      <3>3. QED
        BY <2>2, <3>1, <3>2
    <2>7. CASE q[m + 1][1] \notin excluded
      <3>1. Left(m + 1) = Left(m) \cup {q[m + 1]}
        BY <2>3, <2>4, <2>5, <2>7
      <3>2. F[m + 1] = F[m] \o q[m + 1] /\ q[m + 1] \in Shaped
        BY <1>1, <2>1, <2>2, <2>7
      <3> HIDE DEF Left
      <3>3. QED
        BY <2>2, <3>1, <3>2, MoreWritten
    <2>8. QED
      BY <2>6, <2>7
  <1>6. n \in T
    <2> HIDE DEF T
    <2>1. QED
      BY <1>4, <1>5, SetInduction
  <1>7. Written(F[n], Left(n))
    <2> HIDE DEF Left
    <2>1. QED
      BY <1>6
  <1>8. F[n] = FlattenSeq(s)
    BY <1>3 DEF Steps
  <1>9. QED
    BY <1>7, <1>8 DEF s

\* Parts of three bytes at most make no more than three bytes each.
LEMMA FlattenedBytes ==
  ASSUME NEW S, NEW n \in Nat, NEW s \in [1 .. n -> Seq(S)], \A i \in 1 .. n : Len(s[i]) <= 3
  PROVE  FlattenSeq(s) \in Seq(S) /\ Len(FlattenSeq(s)) <= 3 * n
  <1>1. PICK F \in [0 .. n -> Seq(S)] : Steps(F, s, n)
    BY FlattenSteps
  <1> DEFINE T == {m \in Nat : m <= n => Len(F[m]) <= 3 * m}
  <1>2. 0 \in T
    <2>1. Len(F[0]) = 0
      BY <1>1, EmptySeq DEF Steps
    <2>2. QED
      BY <2>1
  <1>3. ASSUME NEW m \in Nat, m \in T PROVE m + 1 \in T
    <2> SUFFICES ASSUME m + 1 <= n PROVE Len(F[m + 1]) <= 3 * (m + 1)
      OBVIOUS
    <2>1. m \in 0 .. n - 1 /\ m + 1 \in 1 .. n /\ m \in 0 .. n
      OBVIOUS
    <2> DEFINE a == F[m]
               b == s[m + 1]
    <2>2. a \in Seq(S) /\ b \in Seq(S) /\ Len(b) <= 3
      BY <2>1
    <2>3. F[m + 1] = a \o b
      BY <1>1, <2>1 DEF Steps
    <2>4. Len(a) <= 3 * m
      BY <1>3, <2>1
    <2> HIDE DEF a, b
    <2>5. Len(F[m + 1]) = Len(a) + Len(b) /\ Len(a) \in Nat /\ Len(b) \in Nat
      BY <2>2, <2>3, Joined
    <2>6. QED
      BY <2>2, <2>4, <2>5
  <1>4. n \in T
    <2> HIDE DEF T
    <2>1. QED
      BY <1>2, <1>3, SetInduction
  <1>5. QED
    BY <1>1, <1>4 DEF Steps

-----------------------------------------------------------------------------
(* The commands.                                                           *)

Byte == 0 .. 255

AtMost(T, k) == IsFiniteSet(T) /\ Cardinality(T) <= k

LEMMA OneMore ==
  ASSUME NEW T, NEW x, NEW k \in Nat, NEW l, l = k + 1, AtMost(T, k)
  PROVE  AtMost(T \cup {x}, l)
  <1>1. Cardinality(T) \in Nat
    BY FS_CardinalityType DEF AtMost
  <1>2. /\ IsFiniteSet(T \cup {x})
        /\ Cardinality(T \cup {x}) = IF x \in T THEN Cardinality(T) ELSE Cardinality(T) + 1
    BY FS_AddElement DEF AtMost
  <1>3. QED
    BY <1>1, <1>2 DEF AtMost

LEMMA SevenAtMost ==
  ASSUME NEW a, NEW b, NEW c, NEW d, NEW e, NEW f, NEW g
  PROVE  AtMost({a, b, c, d, e, f, g}, 7)
  <1>n. /\ 0 \in Nat /\ 1 \in Nat /\ 2 \in Nat /\ 3 \in Nat /\ 4 \in Nat /\ 5 \in Nat /\ 6 \in Nat
        /\ 1 = 0 + 1 /\ 2 = 1 + 1 /\ 3 = 2 + 1 /\ 4 = 3 + 1 /\ 5 = 4 + 1 /\ 6 = 5 + 1 /\ 7 = 6 + 1
    OBVIOUS
  <1>0. AtMost({}, 0)
    BY FS_EmptySet DEF AtMost
  <1>1. AtMost({} \cup {a}, 1)
    BY <1>n, <1>0, OneMore, Zenon
  <1>2. AtMost({a} \cup {b}, 2)
    <2>1. {} \cup {a} = {a}
      OBVIOUS
    <2>2. AtMost({a}, 1)
      BY <1>1, <2>1
    <2>3. QED
      BY ONLY <1>n, <2>2, OneMore, Zenon
  <1>3. AtMost({a, b} \cup {c}, 3)
    <2>1. {a} \cup {b} = {a, b}
      OBVIOUS
    <2>2. AtMost({a, b}, 2)
      BY <1>2, <2>1
    <2>3. QED
      BY ONLY <1>n, <2>2, OneMore, Zenon
  <1>4. AtMost({a, b, c} \cup {d}, 4)
    <2>1. {a, b} \cup {c} = {a, b, c}
      OBVIOUS
    <2>2. AtMost({a, b, c}, 3)
      BY <1>3, <2>1
    <2>3. QED
      BY ONLY <1>n, <2>2, OneMore, Zenon
  <1>5. AtMost({a, b, c, d} \cup {e}, 5)
    <2>1. {a, b, c} \cup {d} = {a, b, c, d}
      OBVIOUS
    <2>2. AtMost({a, b, c, d}, 4)
      BY <1>4, <2>1
    <2>3. QED
      BY ONLY <1>n, <2>2, OneMore, Zenon
  <1>6. AtMost({a, b, c, d, e} \cup {f}, 6)
    <2>1. {a, b, c, d} \cup {e} = {a, b, c, d, e}
      OBVIOUS
    <2>2. AtMost({a, b, c, d, e}, 5)
      BY <1>5, <2>1
    <2>3. QED
      BY ONLY <1>n, <2>2, OneMore, Zenon
  <1>7. AtMost({a, b, c, d, e, f} \cup {g}, 7)
    <2>1. {a, b, c, d, e} \cup {f} = {a, b, c, d, e, f}
      OBVIOUS
    <2>2. AtMost({a, b, c, d, e, f}, 6)
      BY <1>6, <2>1
    <2>3. QED
      BY ONLY <1>n, <2>2, OneMore, Zenon
  <1>8. {a, b, c, d, e, f} \cup {g} = {a, b, c, d, e, f, g}
    OBVIOUS
  <1>9. QED
    BY <1>7, <1>8

\* A recipe has seven params at most, each at most once.
LEMMA SevenParams ==
  ASSUME NEW n \in Nat, NEW s \in [1 .. n -> Params], \A i, j \in DOMAIN s : i # j => s[i] # s[j]
  PROVE  n <= 7
  <1>1. s \in Injection(1 .. n, Params)
    BY DEF Injection, IsInjective
  <1>2. IsFiniteSet(Params) /\ Cardinality(Params) <= 7
    BY SevenAtMost DEF Params, AtMost
  <1>3. Cardinality(1 .. n) <= Cardinality(Params) /\ Cardinality(1 .. n) = n
    BY <1>1, <1>2, FS_Injection, FS_Interval
  <1>4. Cardinality(Params) \in Nat
    BY <1>2, FS_CardinalityType
  <1>5. QED
    BY <1>2, <1>3, <1>4

LEMMA SmallByte ==
  ASSUME NEW l \in Nat, l <= 41
  PROVE  l + 4 \in Byte /\ l + 8 \in Byte /\ 9 + l \in Byte
  BY DEF Byte

\* The i-th of the bytes is v.
At(frame, i, v) == i \in 1 .. Len(frame) /\ frame[i] = v

LEMMA StillAt ==
  ASSUME NEW S, NEW a \in Seq(S), NEW b \in Seq(S), NEW i, NEW v, At(a, i, v)
  PROVE  At(a \o b, i, v)
  <1>1. /\ Len(a) \in Nat /\ Len(b) \in Nat /\ Len(a \o b) = Len(a) + Len(b)
        /\ i \in 1 .. Len(a) /\ a[i] = v
    BY Joined DEF At
  <1>2. (a \o b)[i] = a[i]
    BY <1>1, JoinedBegins DEF Begins
  <1>3. i \in 1 .. Len(a) + Len(b)
    BY <1>1
  <1>4. QED
    BY <1>1, <1>2, <1>3 DEF At

LEMMA TwoBytes ==
  ASSUME NEW a \in Byte, NEW b \in Byte
  PROVE  <<a, b>> \in Seq(Byte) /\ Len(<<a, b>>) = 2
  OBVIOUS

LEMMA ThreeBytes ==
  ASSUME NEW a \in Byte, NEW b \in Byte, NEW c \in Byte
  PROVE  <<a, b, c>> \in Seq(Byte) /\ Len(<<a, b, c>>) = 3
  OBVIOUS

LEMMA SixBytes ==
  ASSUME NEW S, NEW a \in S, NEW b \in S, NEW c \in S, NEW d \in S, NEW e \in S, NEW f \in S
  PROVE  /\ <<a, b, c, d, e, f>> \in Seq(S) /\ Len(<<a, b, c, d, e, f>>) = 6
         /\ At(<<a, b, c, d, e, f>>, 1, a) /\ At(<<a, b, c, d, e, f>>, 2, b)
         /\ At(<<a, b, c, d, e, f>>, 6, f)
  BY DEF At

LEMMA CrcBytes == Crc \in Seq(Byte) /\ Crc \in Seq(Int) /\ Len(Crc) = 2
  BY DEF Crc, Byte

\* A frame begins with 13 and its length less one.
Headed(frame) == At(frame, 1, 13) /\ At(frame, 2, Len(frame) - 1)

\* Whatever params are sent, the length is theirs.
LEMMA BrewFrameHeaded ==
  ASSUME NEW S, S \subseteq Int, Byte \subseteq S,
         NEW beverage \in S, NEW params \in Seq(S), NEW profile \in Int,
         Len(params) + 8 \in S, profile * 4 + 2 \in S
  PROVE  /\ Headed(BrewFrame(beverage, params, profile))
         /\ BrewFrame(beverage, params, profile) \in Seq(S)
  <1> DEFINE n == 6 + Len(params) + 1 + 2 - 1
             last == profile * 4 + 2
             head == <<13, n, 131, 240, beverage, 3>>
             tail == <<last>>
             withParams == head \o params
             withTail == withParams \o tail
             frame == withTail \o Crc
  <1>1. Len(params) \in Nat /\ n = Len(params) + 8
    BY LenProperties
  <1>2. n \in S /\ 13 \in S /\ 131 \in S /\ 240 \in S /\ 3 \in S
    BY <1>1 DEF Byte
  <1>3. BrewFrame(beverage, params, profile) = frame
    BY DEF BrewFrame
  <1>4. tail \in Seq(S) /\ Len(tail) = 1
    <2> HIDE DEF last
    <2>1. last \in S
      BY DEF last
    <2>2. QED
      BY <2>1
  <1>5. Crc \in Seq(S) /\ Len(Crc) = 2
    BY CrcBytes, SeqMonotonic
  <1> HIDE DEF n
  <1>6. head \in Seq(S) /\ Len(head) = 6 /\ At(head, 1, 13) /\ At(head, 2, n)
    BY <1>2, SixBytes, SMTT(30)
  <1> HIDE DEF head, tail
  <1>7. /\ withParams \in Seq(S) /\ Len(withParams) = Len(head) + Len(params)
        /\ At(withParams, 1, 13) /\ At(withParams, 2, n)
    BY <1>6, Joined, StillAt
  <1> HIDE DEF withParams
  <1>8. /\ withTail \in Seq(S) /\ Len(withTail) = Len(withParams) + Len(tail)
        /\ At(withTail, 1, 13) /\ At(withTail, 2, n)
    BY <1>4, <1>7, Joined, StillAt
  <1> HIDE DEF withTail
  <1>9. /\ frame \in Seq(S) /\ Len(frame) = Len(withTail) + Len(Crc)
        /\ At(frame, 1, 13) /\ At(frame, 2, n)
    BY <1>5, <1>8, Joined, StillAt
  <1> HIDE DEF frame
  <1>10. n = Len(frame) - 1
    BY <1>1, <1>4, <1>5, <1>6, <1>7, <1>8, <1>9
  <1>11. QED
    BY <1>3, <1>9, <1>10 DEF Headed

\* What the machine reads as the params of such a frame is what was put there.
Holds(frame, params, profile) ==
  /\ BodyOf(frame) = params
  /\ SubSeq(frame, 7, Len(frame) - 2) = params \o <<profile * 4 + 2>>

LEMMA BrewFrameBody ==
  ASSUME NEW S, S \subseteq Int, Byte \subseteq S,
         NEW beverage \in S, NEW params \in Seq(S), NEW profile \in Int,
         Len(params) + 8 \in S, profile * 4 + 2 \in S
  PROVE  Holds(BrewFrame(beverage, params, profile), params, profile)
  <1> DEFINE n == 6 + Len(params) + 1 + 2 - 1
             last == profile * 4 + 2
             head == <<13, n, 131, 240, beverage, 3>>
             tail == <<last>>
             frame == ((head \o params) \o tail) \o Crc
  <1>1. Len(params) \in Nat /\ n = Len(params) + 8
    BY LenProperties
  <1>2. BrewFrame(beverage, params, profile) = frame
    BY DEF BrewFrame
  <1>3. tail \in Seq(S) /\ Len(tail) = 1
    <2> HIDE DEF last
    <2>1. last \in S
      BY DEF last
    <2>2. QED
      BY <2>1
  <1>4. tail = <<profile * 4 + 2>>
    OBVIOUS
  <1>5. n \in S /\ 13 \in S /\ 131 \in S /\ 240 \in S /\ 3 \in S
    BY <1>1 DEF Byte
  <1> HIDE DEF n
  <1>6. head \in Seq(S) /\ Len(head) = 6
    BY <1>5, SixBytes
  <1>7. Crc \in Seq(S) /\ Len(Crc) = 2
    BY CrcBytes, SeqMonotonic
  <1> HIDE DEF head, tail
  <1> DEFINE start == head \o params
             end == params \o tail
  <1>8. start \in Seq(S) /\ Len(start) = Len(head) + Len(params)
    BY <1>6, Joined
  <1>9. end \in Seq(S) /\ Len(end) = Len(params) + Len(tail)
    BY <1>3, Joined
  <1>10. tail \o Crc \in Seq(S)
    BY <1>3, <1>7, Joined
  <1>11. frame = start \o (tail \o Crc) /\ frame = (head \o end) \o Crc
    <2>1. head \in Seq(S) /\ params \in Seq(S) /\ tail \in Seq(S) /\ Crc \in Seq(S)
      BY <1>3, <1>6, <1>7
    <2>2. (head \o params) \o tail = head \o (params \o tail)
      BY ONLY <2>1, ConcatAssociative, SMTT(30)
    <2>3. start \in Seq(S)
      BY <1>8
    <2> HIDE DEF start
    <2>4. (start \o tail) \o Crc = start \o (tail \o Crc)
      BY ONLY <2>1, <2>3, ConcatAssociative, SMTT(30)
    <2>5. QED
      BY <2>2, <2>4 DEF start
  <1>12. Len(frame) = 9 + Len(params)
    <2> DEFINE most == start \o tail
    <2> HIDE DEF start
    <2>1. most \in Seq(S) /\ Len(most) = Len(start) + Len(tail)
      BY <1>3, <1>8, Joined
    <2>2. frame = most \o Crc
      BY DEF start
    <2> HIDE DEF most
    <2>3. Len(most \o Crc) = Len(most) + Len(Crc)
      BY <1>7, <2>1, Joined
    <2>4. QED
      BY <1>1, <1>3, <1>6, <1>7, <1>8, <2>1, <2>2, <2>3
  <1>13. SubSeq(start \o (tail \o Crc), Len(head) + 1, Len(head) + Len(params)) = params
    BY <1>6, <1>10, Middle
  <1> HIDE DEF end
  <1>14. SubSeq((head \o end) \o Crc, Len(head) + 1, Len(head) + Len(end)) = end
    BY <1>6, <1>7, <1>9, Middle
  <1> HIDE DEF frame, start
  <1>15. /\ Len(head) + 1 = 7 /\ Len(head) + Len(params) = Len(frame) - 3
         /\ Len(head) + Len(end) = Len(frame) - 2
    BY <1>1, <1>3, <1>6, <1>9, <1>12
  <1>16. BodyOf(frame) = params
    BY <1>11, <1>13, <1>15 DEF BodyOf
  <1>17. SubSeq(frame, 7, Len(frame) - 2) = end
    BY <1>11, <1>14, <1>15
  <1>18. QED
    BY <1>2, <1>4, <1>16, <1>17 DEF end, Holds

WellFormed(frame) == Headed(frame) /\ AreBytes(frame)

LEMMA SeqAreBytes ==
  ASSUME NEW frame \in Seq(Byte)
  PROVE  AreBytes(frame)
  BY ElementOfSeq DEF AreBytes, Byte

LEMMA ProfileBytes ==
  ASSUME NEW profile, ValidProfile(profile)
  PROVE  profile \in Byte /\ profile \in Int /\ profile * 4 + 2 \in Byte
  BY DEF Byte, ValidProfile

LEMMA TrailerBytes ==
  ASSUME NEW iced, NEW coldBrew
  PROVE  Trailer(iced, coldBrew) \in Seq(Byte) /\ Len(Trailer(iced, coldBrew)) <= 8
  <1> DEFINE mid == IF iced THEN <<31, 0>> ELSE IF coldBrew THEN <<31, 3, 38, 1>> ELSE <<>>
             start == <<27, 1>>
             end == <<39, 1>>
  <1>1. {0, 1, 27, 31, 39} \subseteq Byte
    BY DEF Byte
  <1>2. start \in Seq(Byte) /\ Len(start) = 2 /\ end \in Seq(Byte) /\ Len(end) = 2
    BY <1>1, TwoBytes
  <1>3. mid \in Seq(Byte) /\ Len(mid) <= 4
    <2>1. <<31, 0>> \in Seq(Byte) /\ Len(<<31, 0>>) = 2
      BY <1>1, TwoBytes
    <2>2. <<31, 3, 38, 1>> \in Seq(Byte) /\ Len(<<31, 3, 38, 1>>) = 4
      BY DEF Byte
    <2>3. <<>> \in Seq(Byte) /\ Len(<<>>) = 0
      BY EmptySeq
    <2>4. QED
      BY <2>1, <2>2, <2>3
  <1>4. Trailer(iced, coldBrew) = (start \o mid) \o end
    BY DEF Trailer
  <1> HIDE DEF mid, start, end
  <1> DEFINE a == start \o mid
  <1>5. a \in Seq(Byte) /\ Len(a) = Len(start) + Len(mid) /\ Len(mid) \in Nat
    BY <1>2, <1>3, Joined
  <1> HIDE DEF a
  <1>6. a \o end \in Seq(Byte) /\ Len(a \o end) = Len(a) + Len(end)
    BY <1>2, <1>5, Joined
  <1>7. Len(a \o end) <= 8
    BY <1>2, <1>3, <1>5, <1>6
  <1>8. QED
    BY <1>4, <1>6, <1>7 DEF a

LEMMA ParamBytes == \A p \in Params : p \in Seq(Byte) /\ Len(p) <= 3
  <1>1. /\ 0 \in Byte /\ 1 \in Byte /\ 2 \in Byte /\ 9 \in Byte /\ 15 \in Byte
        /\ 25 \in Byte /\ 27 \in Byte /\ 28 \in Byte /\ 150 \in Byte
    BY DEF Byte
  <1>2. <<1, 0, 28>> \in Seq(Byte) /\ Len(<<1, 0, 28>>) = 3
    BY <1>1, ThreeBytes
  <1>3. <<9, 1, 25>> \in Seq(Byte) /\ Len(<<9, 1, 25>>) = 3
    BY <1>1, ThreeBytes
  <1>4. <<15, 0, 150>> \in Seq(Byte) /\ Len(<<15, 0, 150>>) = 3
    BY <1>1, ThreeBytes
  <1>5. <<28, 2>> \in Seq(Byte) /\ Len(<<28, 2>>) = 2
    BY <1>1, TwoBytes
  <1>6. <<2, 9>> \in Seq(Byte) /\ Len(<<2, 9>>) = 2
    BY <1>1, TwoBytes
  <1>7. <<25, 1>> \in Seq(Byte) /\ Len(<<25, 1>>) = 2
    BY <1>1, TwoBytes
  <1>8. <<27, 1>> \in Seq(Byte) /\ Len(<<27, 1>>) = 2
    BY <1>1, TwoBytes
  <1> DEFINE Short(p) == p \in Seq(Byte) /\ Len(p) <= 3
  <1>9. /\ Short(<<1, 0, 28>>) /\ Short(<<9, 1, 25>>) /\ Short(<<15, 0, 150>>)
        /\ Short(<<28, 2>>) /\ Short(<<2, 9>>) /\ Short(<<25, 1>>) /\ Short(<<27, 1>>)
    BY <1>2, <1>3, <1>4, <1>5, <1>6, <1>7, <1>8
  <1> HIDE DEF Short
  <1>10. \A p \in Params : Short(p)
    BY <1>9, Zenon DEF Params
  <1>11. QED
    BY <1>10 DEF Short

LEMMA ShapedTwo ==
  ASSUME NEW a \in Int, a \notin BigParams, NEW b \in Int
  PROVE  <<a, b>> \in Shaped
  <1>1. <<a, b>> \in Seq(Int) /\ Len(<<a, b>>) = 2 /\ <<a, b>>[1] = a
    OBVIOUS
  <1>2. QED
    BY <1>1 DEF Shaped

LEMMA ShapedThree ==
  ASSUME NEW a \in BigParams, NEW b \in Int, NEW c \in Int
  PROVE  <<a, b, c>> \in Shaped
  <1>1. a \in Int
    BY DEF BigParams
  <1>2. <<a, b, c>> \in Seq(Int) /\ Len(<<a, b, c>>) = 3 /\ <<a, b, c>>[1] = a
    BY <1>1
  <1>3. QED
    BY <1>2 DEF Shaped

LEMMA ParamsShaped == Params \subseteq Shaped
  <1>1. /\ 1 \in BigParams /\ 9 \in BigParams /\ 15 \in BigParams
        /\ 28 \notin BigParams /\ 2 \notin BigParams /\ 25 \notin BigParams /\ 27 \notin BigParams
    BY DEF BigParams
  <1>2. <<1, 0, 28>> \in Shaped /\ <<9, 1, 25>> \in Shaped /\ <<15, 0, 150>> \in Shaped
    BY <1>1, ShapedThree
  <1>3. <<28, 2>> \in Shaped /\ <<2, 9>> \in Shaped /\ <<25, 1>> \in Shaped /\ <<27, 1>> \in Shaped
    BY <1>1, ShapedTwo
  <1>4. QED
    BY <1>2, <1>3, Zenon DEF Params

Strays == {<<>>, <<5>>, <<6>>}

LEMMA StrayBytes ==
  ASSUME NEW stray \in Strays
  PROVE  stray \in Seq(Int) /\ Len(stray) <= 1
  <1>1. <<>> \in Seq(Int) /\ Len(<<>>) = 0
    BY EmptySeq
  <1>2. <<5>> \in Seq(Int) /\ Len(<<5>>) = 1 /\ <<6>> \in Seq(Int) /\ Len(<<6>>) = 1
    OBVIOUS
  <1>3. CASE stray = <<>>
    BY <1>1, <1>3
  <1>4. CASE stray = <<5>>
    BY <1>2, <1>4
  <1>5. CASE stray = <<6>>
    BY <1>2, <1>5
  <1>6. QED
    BY <1>3, <1>4, <1>5, Zenon DEF Strays

\* The walk over what is stored, a recipe, cut off or not, or a command, finds the
\* params that it was made of.
LEMMA StoredParsed ==
  ASSUME NEW start \in Int, NEW params \in ParamLists, NEW stray \in Strays
  PROVE  /\ Stored(start, params, stray)[1] = start /\ Stored(start, params, stray)[6] = 7
         /\ Parsed(RawParams(Stored(start, params, stray))) = params
         /\ \E n \in Nat : n <= 7 /\ params \in [1 .. n -> Params]
  <1> DEFINE flat == FlattenSeq(params)
             bytes == flat \o stray
             len == 9 + Len(bytes)
             head == <<start, len, 166, 240, 1, 7>>
             a == head \o bytes
             r == a \o Crc
  <1>1. PICK n \in 0 .. MaxParams : params \in [1 .. n -> Params]
    BY DEF ParamLists
  <1>2. n \in Nat /\ n <= 7
    BY <1>1, BrewAssumption, SevenParams DEF ParamLists
  <1>3. params \in [1 .. n -> Shaped] /\ params \in [1 .. n -> Seq(Int)]
    BY <1>1, ParamsShaped DEF Shaped
  <1>4. Parsed(bytes) = params
    BY <1>2, <1>3, StrayBytes, ParseJoined
  <1>5. flat \in Seq(Int)
    <2>1. PICK F \in [0 .. n -> Seq(Int)] : Steps(F, params, n)
      BY <1>2, <1>3, FlattenSteps
    <2>2. QED
      BY <1>2, <2>1 DEF Steps
  <1>6. Stored(start, params, stray) = r
    BY DEF Stored
  <1> HIDE DEF flat
  <1>7. bytes \in Seq(Int) /\ Len(bytes) \in Nat
    BY <1>5, StrayBytes, ConcatProperties, LenProperties
  <1>l. len \in Int
    BY <1>7
  <1> HIDE DEF bytes, len
  <1>8. head \in Seq(Int) /\ Len(head) = 6 /\ At(head, 1, start) /\ At(head, 6, 7)
    <2>1. head \in Seq(Int) /\ Len(head) = 6 /\ head[1] = start /\ head[6] = 7
      BY <1>l
    <2> HIDE DEF head
    <2>2. QED
      BY <2>1 DEF At
  <1> HIDE DEF head
  <1>9. a \in Seq(Int) /\ Len(a) = Len(head) + Len(bytes) /\ At(a, 1, start) /\ At(a, 6, 7)
    <2>1. a \in Seq(Int) /\ Len(a) = Len(head) + Len(bytes)
      BY <1>7, <1>8, Joined
    <2>2. At(a, 1, start) /\ At(a, 6, 7)
      BY <1>7, <1>8, StillAt
    <2>3. QED
      BY <2>1, <2>2
  <1>10. SubSeq(r, Len(head) + 1, Len(head) + Len(bytes)) = bytes
    BY <1>7, <1>8, CrcBytes, Middle
  <1> HIDE DEF a
  <1>11. Len(r) = Len(a) + Len(Crc) /\ At(r, 1, start) /\ At(r, 6, 7)
    <2>1. Len(r) = Len(a) + Len(Crc)
      BY <1>9, CrcBytes, Joined
    <2>2. At(r, 1, start) /\ At(r, 6, 7)
      BY <1>9, CrcBytes, StillAt
    <2>3. QED
      BY <2>1, <2>2
  <1> HIDE DEF r
  <1>12. Len(head) + 1 = 7 /\ Len(head) + Len(bytes) = Len(r) - 2
    BY <1>7, <1>8, <1>9, <1>11, CrcBytes
  <1>13. RawParams(r) = bytes
    BY <1>10, <1>12 DEF RawParams
  <1>14. QED
    BY <1>1, <1>2, <1>4, <1>6, <1>11, <1>13 DEF At

\* What is made of it: the params in order, less the ones left out, and the trailer.
LEMMA BrewCommandIs ==
  ASSUME NEW params \in ParamLists, NEW stray \in Strays, NEW iced, NEW coldBrew, NEW profile
  PROVE  \E n \in Nat :
           /\ n <= 7 /\ params \in [1 .. n -> Params]
           /\ BrewCommand(Stored(208, params, stray), iced, coldBrew, profile)
                = BrewFrame(7, FlattenSeq(CarriedParts(params, n, Excluded(iced, coldBrew)))
                                 \o Trailer(iced, coldBrew), profile)
  <1> DEFINE r == Stored(208, params, stray)
             ex == Excluded(iced, coldBrew)
  <1>1. r[1] = 208 /\ r[6] = 7 /\ Parsed(RawParams(r)) = params
    BY StoredParsed
  <1>2. PICK n \in Nat : n <= 7 /\ params \in [1 .. n -> Params]
    BY StoredParsed
  <1> HIDE DEF r, ex
  <1>3. Kept(RawParams(r), ex) = FlattenSeq(CarriedParts(params, n, ex))
    BY <1>1, <1>2 DEF Kept, CarriedParts
  <1>4. BrewCommand(r, iced, coldBrew, profile)
          = BrewFrame(7, Kept(RawParams(r), ex) \o Trailer(iced, coldBrew), profile)
    BY <1>1 DEF BrewCommand, ex
  <1>5. QED
    BY <1>2, <1>3, <1>4 DEF r, ex

LEMMA CarriedBytes ==
  ASSUME NEW n \in Nat, n <= 7, NEW params \in [1 .. n -> Params], NEW excluded
  PROVE  /\ FlattenSeq(CarriedParts(params, n, excluded)) \in Seq(Byte)
         /\ Len(FlattenSeq(CarriedParts(params, n, excluded))) <= 21
  <1> DEFINE s == CarriedParts(params, n, excluded)
  <1>1. <<>> \in Seq(Byte) /\ Len(<<>>) = 0
    BY EmptySeq
  <1>2. \A i \in 1 .. n : params[i] \in Seq(Byte) /\ Len(params[i]) <= 3
    BY ParamBytes
  <1>3. ASSUME NEW i \in 1 .. n
        PROVE  (IF params[i][1] \in excluded THEN <<>> ELSE params[i]) \in Seq(Byte)
    BY <1>1, <1>2
  <1>4. s \in [1 .. n -> Seq(Byte)]
    BY <1>3 DEF CarriedParts
  <1>5. \A i \in 1 .. n : s[i] = IF params[i][1] \in excluded THEN <<>> ELSE params[i]
    BY DEF CarriedParts
  <1> HIDE DEF s
  <1>6. \A i \in 1 .. n : Len(s[i]) <= 3
    BY <1>1, <1>2, <1>5
  <1>7. FlattenSeq(s) \in Seq(Byte) /\ Len(FlattenSeq(s)) <= 3 * n
    BY <1>4, <1>6, FlattenedBytes
  <1> DEFINE l == Len(FlattenSeq(s))
  <1>8. l \in Nat /\ l <= 3 * n
    BY <1>7, LenProperties
  <1> HIDE DEF l
  <1>9. l <= 21
    BY <1>8
  <1>10. QED
    BY <1>7, <1>9 DEF l, s

LEMMA BrewWellFormed ==
  ASSUME NEW params \in ParamLists, NEW stray \in Strays, NEW profile \in Profiles,
         NEW iced, NEW coldBrew
  PROVE  WellFormed(BrewCommand(Stored(208, params, stray), iced, coldBrew, profile))
  <1> DEFINE trailer == Trailer(iced, coldBrew)
             ex == Excluded(iced, coldBrew)
             command == BrewCommand(Stored(208, params, stray), iced, coldBrew, profile)
  <1>1. PICK n \in Nat :
           /\ n <= 7 /\ params \in [1 .. n -> Params]
           /\ command = BrewFrame(7, FlattenSeq(CarriedParts(params, n, ex)) \o trailer, profile)
    BY BrewCommandIs
  <1> DEFINE kept == FlattenSeq(CarriedParts(params, n, ex))
             body == kept \o trailer
             frame == BrewFrame(7, body, profile)
  <1>2. kept \in Seq(Byte) /\ Len(kept) <= 21
    BY <1>1, CarriedBytes
  <1>3. trailer \in Seq(Byte) /\ Len(trailer) <= 8
    BY TrailerBytes
  <1>f. command = frame
    BY <1>1
  <1> HIDE DEF kept, trailer, command, frame
  <1>4. /\ body \in Seq(Byte) /\ Len(body) = Len(kept) + Len(trailer)
        /\ Len(kept) \in Nat /\ Len(trailer) \in Nat
    BY <1>2, <1>3, Joined
  <1> HIDE DEF body
  <1>5. Len(body) \in Nat /\ Len(body) <= 41
    BY <1>2, <1>3, <1>4
  <1>6. Len(body) + 8 \in Byte
    BY <1>5, SmallByte
  <1>7. profile \in Int /\ profile * 4 + 2 \in Byte
    BY BrewAssumption, ProfileBytes DEF ValidProfile
  <1>8. 7 \in Byte /\ Byte \subseteq Int
    BY DEF Byte
  <1>9. Headed(frame) /\ frame \in Seq(Byte)
    BY <1>4, <1>6, <1>7, <1>8, BrewFrameHeaded DEF frame
  <1>10. QED
    BY <1>f, <1>9, SeqAreBytes DEF WellFormed, command

LEMMA IntsAssociative ==
  ASSUME NEW a \in Seq(Int), NEW b \in Seq(Int), NEW c \in Seq(Int)
  PROVE  (a \o b) \o c = a \o (b \o c)
  BY ConcatAssociative

LEMMA WrittenJoined ==
  ASSUME NEW a, NEW T, Written(a, T), NEW b, NEW U, Written(b, U)
  PROVE  Written(a \o b, T \cup U)
  <1>1. PICK n \in Nat : \E q \in [1 .. n -> Shaped] :
          FlattenSeq(q) = b /\ U = {q[i] : i \in 1 .. n}
    BY DEF Written
  <1>2. PICK q \in [1 .. n -> Shaped] : FlattenSeq(q) = b /\ U = {q[i] : i \in 1 .. n}
    BY <1>1
  <1>3. q \in [1 .. n -> Seq(Int)]
    BY DEF Shaped
  <1>4. PICK F \in [0 .. n -> Seq(Int)] : Steps(F, q, n)
    BY <1>3, FlattenSteps
  <1>5. a \in Seq(Int)
    BY ReadBack
  <1> DEFINE So(m) == T \cup {q[i] : i \in 1 .. m}
             J == {m \in Nat : m <= n => Written(a \o F[m], So(m))}
  <1>6. 0 \in J
    <2>1. So(0) = T
      OBVIOUS
    <2>2. a \o F[0] = a
      BY <1>4, <1>5, ConcatEmptySeq DEF Steps
    <2> HIDE DEF So
    <2>3. QED
      BY <2>1, <2>2
  <1>7. ASSUME NEW m \in Nat, m \in J PROVE m + 1 \in J
    <2> SUFFICES ASSUME m + 1 <= n PROVE Written(a \o F[m + 1], So(m + 1))
      OBVIOUS
    <2> DEFINE f == F[m]
               p == q[m + 1]
    <2>1. m \in 0 .. n - 1 /\ m + 1 \in 1 .. n /\ m \in 0 .. n /\ m <= n
      OBVIOUS
    <2>2. F[m + 1] = f \o p
      BY <1>4, <2>1 DEF Steps
    <2>3. f \in Seq(Int) /\ p \in Shaped /\ p \in Seq(Int)
      BY <1>3, <2>1
    <2>4. So(m + 1) = So(m) \cup {p}
      <3>1. \A i \in 1 .. m + 1 : i \in 1 .. m \/ i = m + 1
        OBVIOUS
      <3>2. m + 1 \in 1 .. m + 1 /\ \A i \in 1 .. m : i \in 1 .. m + 1
        OBVIOUS
      <3>3. QED
        BY <3>1, <3>2
    <2> HIDE DEF So
    <2>5. Written(a \o f, So(m))
      BY <1>7, <2>1
    <2> HIDE DEF f, p
    <2>6. Written((a \o f) \o p, So(m) \cup {p})
      BY <2>3, <2>5, MoreWritten
    <2>7. (a \o f) \o p = a \o (f \o p)
      BY <1>5, <2>3, IntsAssociative
    <2>8. QED
      BY <2>2, <2>4, <2>6, <2>7
  <1>8. n \in J
    <2> HIDE DEF J
    <2>1. QED
      BY <1>6, <1>7, SetInduction
  <1>9. Written(a \o F[n], So(n))
    <2> HIDE DEF So
    <2>1. QED
      BY <1>8
  <1>10. So(n) = T \cup U /\ F[n] = b
    BY <1>2, <1>4 DEF Steps
  <1> HIDE DEF So
  <1>11. QED
    BY <1>9, <1>10

LEMMA OneWritten ==
  ASSUME NEW p \in Shaped
  PROVE  Written(p, {p})
  <1>1. Written(<<>> \o p, {} \cup {p})
    BY NothingWritten, MoreWritten
  <1>2. <<>> \o p = p
    BY ConcatEmptySeq DEF Shaped
  <1>3. {} \cup {p} = {p}
    OBVIOUS
  <1>4. QED
    BY <1>1, <1>2, <1>3

LEMMA TwoWritten ==
  ASSUME NEW a \in Int, NEW b \in Int, NEW c \in Int, NEW d \in Int,
         a \notin BigParams, c \notin BigParams
  PROVE  Written(<<a, b, c, d>>, {<<a, b>>, <<c, d>>})
  <1>1. Written(<<a, b>>, {<<a, b>>}) /\ Written(<<c, d>>, {<<c, d>>})
    BY ShapedTwo, OneWritten
  <1>2. Written(<<a, b>> \o <<c, d>>, {<<a, b>>} \cup {<<c, d>>})
    BY <1>1, WrittenJoined
  <1>3. <<a, b>> \o <<c, d>> = <<a, b, c, d>>
    <2> DEFINE S == Int
               x == <<a, b>>
               y == <<c, d>>
               z == <<a, b, c, d>>
    <2>1. x \in Seq(S) /\ Len(x) = 2 /\ x[1] = a /\ x[2] = b
      OBVIOUS
    <2>2. y \in Seq(S) /\ Len(y) = 2 /\ y[1] = c /\ y[2] = d
      OBVIOUS
    <2>3. z \in Seq(S) /\ Len(z) = 4 /\ z[1] = a /\ z[2] = b /\ z[3] = c /\ z[4] = d
      OBVIOUS
    <2> HIDE DEF S, x, y, z
    <2>4. /\ x \o y \in Seq(S) /\ Len(x \o y) = Len(x) + Len(y)
          /\ \A i \in 1 .. Len(x) + Len(y) : (x \o y)[i] = IF i <= Len(x) THEN x[i] ELSE y[i - Len(x)]
      BY <2>1, <2>2, ConcatProperties
    <2>5. \A i \in 1 .. 4 : (x \o y)[i] = IF i <= 2 THEN x[i] ELSE y[i - 2]
      BY <2>1, <2>2, <2>4
    <2>6. Len(x \o y) = 4
      BY <2>1, <2>2, <2>4
    <2>7. /\ (x \o y)[1] = a /\ (x \o y)[2] = b /\ (x \o y)[3] = c /\ (x \o y)[4] = d
      <3> DEFINE xy == x \o y
      <3>0. \A i \in 1 .. 4 : xy[i] = IF i <= 2 THEN x[i] ELSE y[i - 2]
        BY <2>5
      <3> HIDE DEF xy
      <3>a. xy[1] = x[1] /\ xy[2] = x[2]
        BY <3>0
      <3>b. xy[3] = y[3 - 2] /\ xy[4] = y[4 - 2]
        BY <3>0
      <3>1. (x \o y)[1] = x[1] /\ (x \o y)[2] = x[2]
        BY <3>a DEF xy
      <3>2. (x \o y)[3] = y[3 - 2] /\ (x \o y)[4] = y[4 - 2]
        BY <3>b DEF xy
      <3>3. 3 - 2 = 1 /\ 4 - 2 = 2
        OBVIOUS
      <3>4. QED
        BY <2>1, <2>2, <3>1, <3>2, <3>3
    <2>8. \A i \in 1 .. 4 : i = 1 \/ i = 2 \/ i = 3 \/ i = 4
      OBVIOUS
    <2>9. \A i \in 1 .. Len(x \o y) : (x \o y)[i] = z[i]
      BY <2>3, <2>6, <2>7, <2>8
    <2>10. x \o y = z
      BY <2>3, <2>4, <2>6, <2>9, SeqEqual
    <2>11. QED
      BY <2>10 DEF x, y, z
  <1>4. {<<a, b>>} \cup {<<c, d>>} = {<<a, b>>, <<c, d>>}
    OBVIOUS
  <1>5. QED
    BY <1>2, <1>3, <1>4

LEMMA SmallIds ==
  /\ 1 \in BigParams /\ 9 \in BigParams /\ 15 \in BigParams
  /\ \A id \in {2, 8, 11, 13, 25, 27, 28, 31, 38, 39} : id \notin BigParams
  BY DEF BigParams

\* The trailer is params too, and none of them is the accessory.
LEMMA TrailerWritten ==
  ASSUME NEW iced, NEW coldBrew
  PROVE  \E T : Written(Trailer(iced, coldBrew), T) /\ <<Accessorio, 2>> \notin T
  <1> DEFINE mid == IF iced THEN <<31, 0>> ELSE IF coldBrew THEN <<31, 3, 38, 1>> ELSE <<>>
             M == IF iced THEN {<<31, 0>>} ELSE IF coldBrew THEN {<<31, 3>>, <<38, 1>>} ELSE {}
  <1>1. Written(<<27, 1>>, {<<27, 1>>}) /\ Written(<<39, 1>>, {<<39, 1>>})
    BY SmallIds, ShapedTwo, OneWritten
  <1>2. Written(<<31, 0>>, {<<31, 0>>})
    BY SmallIds, ShapedTwo, OneWritten
  <1>3. Written(<<31, 3, 38, 1>>, {<<31, 3>>, <<38, 1>>})
    BY SmallIds, TwoWritten
  <1>4. Written(mid, M)
    BY <1>2, <1>3, NothingWritten
  <1>5. <<28, 2>> \notin M \cup {<<27, 1>>, <<39, 1>>}
    OBVIOUS
  <1>6. Trailer(iced, coldBrew) = (<<27, 1>> \o mid) \o <<39, 1>>
    BY DEF Trailer
  <1> HIDE DEF mid, M
  <1>7. Written((<<27, 1>> \o mid) \o <<39, 1>>, ({<<27, 1>>} \cup M) \cup {<<39, 1>>})
    BY <1>1, <1>4, WrittenJoined
  <1>8. <<Accessorio, 2>> \notin ({<<27, 1>>} \cup M) \cup {<<39, 1>>}
    BY <1>5 DEF Accessorio
  <1>9. QED
    BY <1>6, <1>7, <1>8

\* The params that are not left out.
Remaining(params, excluded) ==
  [n \in DOMAIN params |-> IF params[n][1] \notin excluded THEN params[n] ELSE <<>>]

\* A recipe's command holds the params in order, less the ones left out, and needs the
\* milk module only when the recipe does.
LEMMA BrewCommandRead ==
  ASSUME NEW params \in ParamLists, NEW stray \in Strays, NEW profile \in Profiles,
         NEW iced, NEW coldBrew
  PROVE  LET frame == BrewCommand(Stored(208, params, stray), iced, coldBrew, profile)
         IN  /\ SubSeq(frame, 7, Len(frame) - 2)
                  = (FlattenSeq(Remaining(params, Excluded(iced, coldBrew)))
                       \o Trailer(iced, coldBrew)) \o <<profile * 4 + 2>>
             /\ <<Accessorio, 2>> \in ReadParams(frame) =>
                  \E i \in DOMAIN params : params[i] = <<Accessorio, 2>>
  <1> DEFINE trailer == Trailer(iced, coldBrew)
             ex == Excluded(iced, coldBrew)
             left == Remaining(params, ex)
             frame == BrewCommand(Stored(208, params, stray), iced, coldBrew, profile)
  <1>1. PICK n \in Nat :
           /\ n <= 7 /\ params \in [1 .. n -> Params]
           /\ frame = BrewFrame(7, FlattenSeq(CarriedParts(params, n, ex)) \o trailer, profile)
    BY BrewCommandIs
  <1>2. left = CarriedParts(params, n, ex)
    BY <1>1 DEF CarriedParts, Remaining
  <1> DEFINE kept == FlattenSeq(CarriedParts(params, n, ex))
             body == kept \o trailer
             K == {params[i] : i \in {j \in 1 .. n : params[j][1] \notin ex}}
  <1>3. Written(kept, K)
    <2>1. params \in [1 .. n -> Shaped]
      BY <1>1, ParamsShaped
    <2>2. QED
      BY <2>1, CarriedWritten
  <1>4. PICK T : Written(trailer, T) /\ <<Accessorio, 2>> \notin T
    BY TrailerWritten
  <1>5. Written(body, K \cup T)
    BY <1>3, <1>4, WrittenJoined
  <1>6. body \in Seq(Int) /\ ToSet(Parsed(body)) = K \cup T
    BY <1>5, ReadBack
  <1>7. \A p \in K : \E i \in DOMAIN params : params[i] = p
    BY <1>1
  <1> HIDE DEF kept, K, frame, trailer, ex, left
  <1> DEFINE l == Len(body)
  <1>8. frame = BrewFrame(7, body, profile)
    BY <1>1 DEF kept
  <1> HIDE DEF body
  <1>9. profile \in Int /\ profile * 4 + 2 \in Int
    BY BrewAssumption
  <1>10. l \in Int /\ l + 8 \in Int
    BY <1>6, LenProperties
  <1>11. Byte \subseteq Int /\ 7 \in Int
    BY DEF Byte
  <1>12. BodyOf(frame) = body /\ SubSeq(frame, 7, Len(frame) - 2) = body \o <<profile * 4 + 2>>
    <2> DEFINE S == Int
               id == 7
    <2>1. /\ S \subseteq Int /\ Byte \subseteq S /\ id \in S /\ body \in Seq(S)
          /\ Len(body) + 8 \in S /\ profile * 4 + 2 \in S /\ profile \in Int
      BY <1>6, <1>9, <1>10, <1>11
    <2>2. frame = BrewFrame(id, body, profile)
      BY <1>8
    <2> HIDE DEF S, id
    <2>3. Holds(frame, body, profile)
      BY <2>1, <2>2, BrewFrameBody
    <2>4. QED
      BY <2>3 DEF Holds
  <1>13. <<Accessorio, 2>> \in ReadParams(frame) =>
           \E i \in DOMAIN params : params[i] = <<Accessorio, 2>>
    BY <1>4, <1>6, <1>7, <1>12 DEF ReadParams
  <1>14. body = FlattenSeq(left) \o trailer
    BY <1>2 DEF body, kept
  <1>15. QED
    BY <1>12, <1>13, <1>14 DEF frame, trailer, ex, left

\* What the check asks the monitor for is what the recipe holds.
LEMMA AccessoryFound ==
  ASSUME NEW start \in Int, NEW params \in ParamLists, NEW stray \in Strays,
         NEW i \in DOMAIN params, params[i] = <<Accessorio, 2>>
  PROVE  RequiredAccessory(RawParams(Stored(start, params, stray))) = 2
  <1> DEFINE found == {n \in DOMAIN params : params[n][1] = Accessorio}
  <1>1. Parsed(RawParams(Stored(start, params, stray))) = params
    BY StoredParsed
  <1>2. PICK n \in Nat : params \in [1 .. n -> Params]
    BY StoredParsed
  <1>3. i \in found /\ found \in SUBSET Nat
    BY <1>2
  <1>4. First(found) \in found
    BY <1>3, FirstIsFirst
  <1>5. \A p \in Params : p[1] = Accessorio => p[2] = 2
    BY DEF Params, Accessorio
  <1>6. params[First(found)][2] = 2
    BY <1>2, <1>4, <1>5
  <1>7. QED
    BY <1>1, <1>3, <1>6 DEF RequiredAccessory

\* What the machine reads in a stored command are the params it was stored with.
LEMMA StoredRead ==
  ASSUME NEW start \in Int, NEW params \in ParamLists
  PROVE  ReadParams(Stored(start, params, <<6>>)) = ToSet(params)
  <1> DEFINE flat == FlattenSeq(params)
             bytes == flat \o <<6>>
             len == 9 + Len(bytes)
             head == <<start, len, 166, 240, 1, 7>>
             end == <<6>>
             r == (head \o bytes) \o Crc
  <1>1. PICK n \in 0 .. MaxParams : params \in [1 .. n -> Params]
    BY DEF ParamLists
  <1>2. n \in Nat
    BY BrewAssumption
  <1>3. params \in [1 .. n -> Shaped] /\ params \in [1 .. n -> Seq(Int)]
    BY <1>1, ParamsShaped DEF Shaped
  <1>4. flat \in Seq(Int)
    <2>1. PICK F \in [0 .. n -> Seq(Int)] : Steps(F, params, n)
      BY <1>2, <1>3, FlattenSteps
    <2>2. QED
      BY <1>2, <2>1 DEF Steps
  <1>5. Parsed(flat) = params
    <2>1. <<>> \in Seq(Int) /\ Len(<<>>) <= 1
      BY EmptySeq
    <2>2. Parsed(flat \o <<>>) = params
      BY <1>2, <1>3, <2>1, ParseJoined
    <2>3. flat \o <<>> = flat
      BY <1>4, ConcatEmptySeq
    <2>4. QED
      BY <2>2, <2>3
  <1>6. Stored(start, params, <<6>>) = r
    BY DEF Stored
  <1>7. end \in Seq(Int) /\ Len(end) = 1
    OBVIOUS
  <1>8. bytes = flat \o end
    OBVIOUS
  <1> HIDE DEF flat, end
  <1>9. bytes \in Seq(Int) /\ Len(bytes) = Len(flat) + 1 /\ Len(flat) \in Nat
    BY <1>4, <1>7, <1>8, ConcatProperties, LenProperties
  <1> HIDE DEF bytes
  <1>10. head \in Seq(Int) /\ Len(head) = 6
    BY <1>9
  <1> HIDE DEF head
  <1>11. r = (head \o flat) \o (end \o Crc)
    <2>1. Crc \in Seq(Int)
      BY CrcBytes
    <2>2. head \o (flat \o end) = (head \o flat) \o end
      BY <1>4, <1>7, <1>10, IntsAssociative
    <2>3. head \o flat \in Seq(Int)
      BY <1>4, <1>10, ConcatProperties
    <2> DEFINE start2 == head \o flat
    <2> HIDE DEF start2
    <2>4. (start2 \o end) \o Crc = start2 \o (end \o Crc)
      BY <1>7, <2>1, <2>3, IntsAssociative DEF start2
    <2>5. QED
      BY <1>8, <2>2, <2>4 DEF start2
  <1>12. end \o Crc \in Seq(Int)
    BY <1>7, CrcBytes, ConcatProperties
  <1>13. SubSeq((head \o flat) \o (end \o Crc), Len(head) + 1, Len(head) + Len(flat)) = flat
    BY <1>4, <1>10, <1>12, Middle
  <1>14. Len(r) = 6 + Len(bytes) + 2
    <2> DEFINE a == head \o bytes
    <2>1. a \in Seq(Int) /\ Len(a) = Len(head) + Len(bytes)
      BY <1>9, <1>10, Joined
    <2> HIDE DEF a
    <2>2. Len(a \o Crc) = Len(a) + Len(Crc)
      BY <2>1, CrcBytes, Joined
    <2>3. QED
      BY <1>10, <2>1, <2>2, CrcBytes DEF a
  <1> HIDE DEF r
  <1>15. Len(head) + 1 = 7 /\ Len(head) + Len(flat) = Len(r) - 3
    BY <1>9, <1>10, <1>14
  <1>16. BodyOf(r) = flat
    BY <1>11, <1>13, <1>15 DEF BodyOf
  <1>17. QED
    BY <1>5, <1>6, <1>16 DEF ReadParams

-----------------------------------------------------------------------------
(* A custom brew: the quantities are cut to two bytes, the other numbers   *)
(* are what the service was called with.                                   *)

\* Two bytes hold an integer modulo 2^16.
LEMMA SixteenBits ==
  ASSUME NEW n \in Int
  PROVE  /\ (n \div 256) % 256 \in 0 .. 255 /\ n % 256 \in 0 .. 255
         /\ ((n \div 256) % 256) * 256 + (n % 256) = n % 65536
  OBVIOUS

\* The quantity as a param, if there is one.
Quantities(id, amount) == IF amount = <<>> THEN {} ELSE {Quantity(id, amount)}

LEMMA QuantityWritten ==
  ASSUME NEW id \in BigParams, NEW amount \in Amounts
  PROVE  /\ Written(Quantity(id, amount), Quantities(id, amount))
         /\ \A p \in Quantities(id, amount) : p[1] = id
         /\ {<<p[1], p[2] * 256 + p[3]>> : p \in Quantities(id, amount)} = Asks(id, amount)
  <1>1. CASE amount = <<>>
    <2>1. ToSet(amount) = {}
      BY <1>1 DEF ToSet
    <2>2. QED
      BY <1>1, <2>1, NothingWritten DEF Quantity, Quantities, Asks
  <1>2. CASE amount # <<>>
    <2>1. PICK n \in Int : amount = <<n>>
      BY <1>2, BrewAssumption DEF Amounts
    <2> DEFINE hi == (n \div 256) % 256
               lo == n % 256
    <2>2. hi \in Int /\ lo \in Int /\ hi * 256 + lo = n % 65536
      BY SixteenBits
    <2>3. Quantity(id, amount) = <<id, hi, lo>> /\ Quantities(id, amount) = {Quantity(id, amount)}
      BY <1>2, <2>1 DEF Quantity, Quantities
    <2>4. Asks(id, amount) = {<<id, n % 65536>>}
      <3>1. ToSet(amount) = {n}
        BY <2>1 DEF ToSet
      <3>2. QED
        BY <3>1 DEF Asks
    <2> HIDE DEF hi, lo
    <2>5. <<id, hi, lo>> \in Shaped
      BY <2>2, ShapedThree
    <2>6. Written(<<id, hi, lo>>, {<<id, hi, lo>>})
      BY <2>5, OneWritten
    <2>7. {<<p[1], p[2] * 256 + p[3]>> : p \in {<<id, hi, lo>>}} = {<<id, hi * 256 + lo>>}
      BY <2>2
    <2>8. QED
      BY <2>2, <2>3, <2>4, <2>6, <2>7
  <1>3. QED
    BY <1>1, <1>2

\* The params of a custom brew that are no quantities.
LEMMA CustomWritten ==
  ASSUME NEW asked \in Wishes
  PROVE  \E T : /\ Written(CustomParams(asked),
                           T \cup (Quantities(1, asked.coffee) \cup Quantities(15, asked.water)
                                     \cup Quantities(9, asked.milk)))
                /\ \A p \in T : p[1] \notin BigParams
                /\ <<Accessorio, 2>> \in T => BeverageAccessory(asked.beverage) = 2
  <1> DEFINE accessory == BeverageAccessory(asked.beverage)
             milk == IF accessory = 0 THEN <<>> ELSE <<Accessorio, accessory, 11, asked.froth>>
             grain == CASE asked.beverage = "espresso" -> <<8, 0>>
                        [] asked.beverage = "doppio" -> <<8, 1>>
                        [] OTHER -> <<>>
             fixed == <<27, 1, 2, asked.taste>>
             heat == IF asked.beverage = "tea" THEN <<13, asked.temperature>> ELSE <<>>
             end == <<39, 1>>
             M == IF accessory = 0 THEN {} ELSE {<<Accessorio, accessory>>, <<11, asked.froth>>}
             G == CASE asked.beverage = "espresso" -> {<<8, 0>>}
                    [] asked.beverage = "doppio" -> {<<8, 1>>}
                    [] OTHER -> {}
             X == {<<27, 1>>, <<2, asked.taste>>}
             H == IF asked.beverage = "tea" THEN {<<13, asked.temperature>>} ELSE {}
             E == {<<39, 1>>}
             C == Quantities(1, asked.coffee)
             W == Quantities(15, asked.water)
             Q == Quantities(9, asked.milk)
             T == (((M \cup G) \cup X) \cup H) \cup E
  <1>1. /\ asked.taste \in Int /\ asked.froth \in Int /\ asked.temperature \in Int
        /\ asked.coffee \in Amounts /\ asked.water \in Amounts /\ asked.milk \in Amounts
    BY DEF Wishes
  <1>2. accessory \in Int /\ Accessorio \in Int /\ Accessorio \notin BigParams
    BY DEF BeverageAccessory, Accessorio, BigParams
  <1>3. Written(milk, M)
    <2>1. Written(<<Accessorio, accessory, 11, asked.froth>>, {<<Accessorio, accessory>>, <<11, asked.froth>>})
      <3>1. 11 \in Int /\ 11 \notin BigParams
        BY SmallIds
      <3> HIDE DEF accessory
      <3>2. QED
        BY <1>1, <1>2, <3>1, TwoWritten
    <2>2. QED
      BY <2>1, NothingWritten
  <1>4. Written(grain, G)
    <2>1. Written(<<8, 0>>, {<<8, 0>>}) /\ Written(<<8, 1>>, {<<8, 1>>})
      BY SmallIds, ShapedTwo, OneWritten
    <2>2. QED
      BY <2>1, NothingWritten
  <1>5. Written(fixed, X)
    <2>1. 27 \in Int /\ 27 \notin BigParams /\ 2 \in Int /\ 2 \notin BigParams /\ 1 \in Int
      BY SmallIds
    <2>2. QED
      BY <1>1, <2>1, TwoWritten
  <1>6. Written(heat, H)
    <2>1. Written(<<13, asked.temperature>>, {<<13, asked.temperature>>})
      BY <1>1, SmallIds, ShapedTwo, OneWritten
    <2>2. QED
      BY <2>1, NothingWritten
  <1>7. Written(end, E)
    BY SmallIds, ShapedTwo, OneWritten
  <1>8. /\ Written(Quantity(1, asked.coffee), C) /\ Written(Quantity(15, asked.water), W)
        /\ Written(Quantity(9, asked.milk), Q)
    BY <1>1, SmallIds, QuantityWritten
  <1>9. \A p \in T : p[1] \in {Accessorio, 11, 8, 27, 2, 13, 39}
    OBVIOUS
  <1>10. \A id \in {Accessorio, 11, 8, 27, 2, 13, 39} : id \notin BigParams
    BY <1>2, SmallIds
  <1>11. <<Accessorio, 2>> \in T => accessory = 2
    BY DEF Accessorio
  <1>12. CustomParams(asked)
          = ((((((milk \o grain) \o Quantity(1, asked.coffee)) \o Quantity(15, asked.water))
               \o fixed) \o Quantity(9, asked.milk)) \o heat) \o end
    BY DEF CustomParams
  <1> HIDE DEF milk, grain, fixed, heat, end, M, G, X, H, E, C, W, Q, accessory
  <1>13. Written(CustomParams(asked), ((((((M \cup G) \cup C) \cup W) \cup X) \cup Q) \cup H) \cup E)
    <2> DEFINE coffee == Quantity(1, asked.coffee)
               water == Quantity(15, asked.water)
               foam == Quantity(9, asked.milk)
    <2>0. Written(coffee, C) /\ Written(water, W) /\ Written(foam, Q)
      BY <1>8
    <2> HIDE DEF coffee, water, foam
    <2>1. Written(milk \o grain, M \cup G)
      BY <1>3, <1>4, WrittenJoined
    <2>2. Written((milk \o grain) \o coffee, (M \cup G) \cup C)
      BY <2>0, <2>1, WrittenJoined
    <2>3. Written(((milk \o grain) \o coffee) \o water, ((M \cup G) \cup C) \cup W)
      BY <2>0, <2>2, WrittenJoined
    <2>4. Written((((milk \o grain) \o coffee) \o water) \o fixed, (((M \cup G) \cup C) \cup W) \cup X)
      BY <1>5, <2>3, WrittenJoined
    <2>5. Written(((((milk \o grain) \o coffee) \o water) \o fixed) \o foam,
                  ((((M \cup G) \cup C) \cup W) \cup X) \cup Q)
      BY <2>0, <2>4, WrittenJoined
    <2>6. Written((((((milk \o grain) \o coffee) \o water) \o fixed) \o foam) \o heat,
                  (((((M \cup G) \cup C) \cup W) \cup X) \cup Q) \cup H)
      BY <1>6, <2>5, WrittenJoined
    <2>7. Written(((((((milk \o grain) \o coffee) \o water) \o fixed) \o foam) \o heat) \o end,
                  ((((((M \cup G) \cup C) \cup W) \cup X) \cup Q) \cup H) \cup E)
      BY <1>7, <2>6, WrittenJoined
    <2>8. QED
      BY <1>12, <2>7 DEF coffee, water, foam
  <1>14. ((((((M \cup G) \cup C) \cup W) \cup X) \cup Q) \cup H) \cup E = T \cup (C \cup W \cup Q)
    OBVIOUS
  <1> HIDE DEF T
  <1>15. QED
    BY <1>9, <1>10, <1>11, <1>13, <1>14 DEF C, W, Q, accessory

\* Its frame, and what the machine reads there.
LEMMA CustomRead ==
  ASSUME NEW asked \in Wishes, asked.beverage # "mystery", ValidProfile(asked.profile)
  PROVE  LET frame == CustomCommand(asked)
         IN  /\ Headed(frame)
             /\ <<Accessorio, 2>> \in ReadParams(frame) => BeverageAccessory(asked.beverage) = 2
             /\ ReadQuantities(frame)
                  = Asks(1, asked.coffee) \cup Asks(15, asked.water) \cup Asks(9, asked.milk)
  <1> DEFINE params == CustomParams(asked)
             frame == CustomCommand(asked)
             C == Quantities(1, asked.coffee)
             W == Quantities(15, asked.water)
             Q == Quantities(9, asked.milk)
             Amount(p) == <<p[1], p[2] * 256 + p[3]>>
  <1>1. PICK T : /\ Written(params, T \cup (C \cup W \cup Q))
                 /\ \A p \in T : p[1] \notin BigParams
                 /\ <<Accessorio, 2>> \in T => BeverageAccessory(asked.beverage) = 2
    BY CustomWritten
  <1>2. params \in Seq(Int) /\ ToSet(Parsed(params)) = T \cup (C \cup W \cup Q)
    BY <1>1, ReadBack
  <1>3. BeverageId(asked.beverage) \in Int
    BY DEF Wishes, BeverageId
  <1>4. asked.profile \in Int /\ asked.profile * 4 + 2 \in Int
    BY DEF ValidProfile
  <1>5. frame = BrewFrame(BeverageId(asked.beverage), params, asked.profile)
    BY DEF CustomCommand
  <1> HIDE DEF params, frame
  <1>6. Len(params) \in Nat
    BY <1>2, LenProperties
  <1>7. Len(params) + 8 \in Int /\ Byte \subseteq Int
    BY <1>6 DEF Byte
  <1>8. Headed(frame) /\ BodyOf(frame) = params
    <2> DEFINE S == Int
               id == BeverageId(asked.beverage)
               profile == asked.profile
    <2>1. /\ S \subseteq Int /\ Byte \subseteq S /\ id \in S /\ params \in Seq(S)
          /\ Len(params) + 8 \in S /\ profile * 4 + 2 \in S /\ profile \in Int
      BY <1>2, <1>3, <1>4, <1>7
    <2>2. frame = BrewFrame(id, params, profile)
      BY <1>5
    <2> HIDE DEF S, id, profile
    <2>3. Headed(frame)
      BY <2>1, <2>2, BrewFrameHeaded
    <2>4. Holds(frame, params, profile)
      BY <2>1, <2>2, BrewFrameBody
    <2>5. QED
      BY <2>3, <2>4 DEF Holds
  <1>9. ReadParams(frame) = T \cup (C \cup W \cup Q)
    BY <1>2, <1>8 DEF ReadParams
  <1>10. /\ asked.coffee \in Amounts /\ asked.water \in Amounts /\ asked.milk \in Amounts
    BY DEF Wishes
  <1>11. /\ \A p \in C : p[1] = 1
         /\ \A p \in W : p[1] = 15
         /\ \A p \in Q : p[1] = 9
         /\ {Amount(p) : p \in C} = Asks(1, asked.coffee)
         /\ {Amount(p) : p \in W} = Asks(15, asked.water)
         /\ {Amount(p) : p \in Q} = Asks(9, asked.milk)
    BY <1>10, SmallIds, QuantityWritten
  <1> HIDE DEF C, W, Q, Amount
  <1>12. {q \in ReadParams(frame) : q[1] \in BigParams} = C \cup W \cup Q
    BY <1>1, <1>9, <1>11, SmallIds
  <1>13. <<Accessorio, 2>> \notin C \cup W \cup Q
    <2>1. <<Accessorio, 2>>[1] = 28
      BY DEF Accessorio
    <2>2. QED
      BY <1>11, <2>1
  <1>14. {Amount(p) : p \in C \cup W \cup Q}
           = {Amount(p) : p \in C} \cup {Amount(p) : p \in W} \cup {Amount(p) : p \in Q}
    OBVIOUS
  <1>15. <<Accessorio, 2>> \in ReadParams(frame) => BeverageAccessory(asked.beverage) = 2
    BY <1>1, <1>9, <1>13
  <1>16. {Amount(p) : p \in {q \in ReadParams(frame) : q[1] \in BigParams}}
           = Asks(1, asked.coffee) \cup Asks(15, asked.water) \cup Asks(9, asked.milk)
    BY <1>11, <1>12, <1>14
  <1>17. QED
    BY <1>8, <1>15, <1>16 DEF frame, Amount, ReadQuantities

\* Four bytes before the CRC, or three.
LEMMA ShortFrames ==
  ASSUME NEW a \in Byte, NEW b \in Byte
  PROVE  /\ WellFormed(<<13, 4, a>> \o Crc)
         /\ WellFormed(<<13, 5, a, b>> \o Crc)
  <1>1. 13 \in Byte /\ 4 \in Byte /\ 5 \in Byte
    BY DEF Byte
  <1>2. ASSUME NEW s \in Seq(Byte), At(s, 1, 13), At(s, 2, Len(s) + 1)
        PROVE  WellFormed(s \o Crc)
    <2>1. /\ s \o Crc \in Seq(Byte) /\ Len(s \o Crc) = Len(s) + Len(Crc)
          /\ Len(s) \in Nat /\ At(s \o Crc, 1, 13) /\ At(s \o Crc, 2, Len(s) + 1)
      BY <1>2, CrcBytes, Joined, StillAt
    <2>2. Len(s) + 1 = Len(s \o Crc) - 1
      BY <2>1, CrcBytes
    <2>3. QED
      BY <2>1, <2>2, SeqAreBytes DEF WellFormed, Headed
  <1>3. <<13, 4, a>> \in Seq(Byte) /\ At(<<13, 4, a>>, 1, 13) /\ At(<<13, 4, a>>, 2, Len(<<13, 4, a>>) + 1)
    BY <1>1 DEF At
  <1>4. /\ <<13, 5, a, b>> \in Seq(Byte) /\ At(<<13, 5, a, b>>, 1, 13)
        /\ At(<<13, 5, a, b>>, 2, Len(<<13, 5, a, b>>) + 1)
    BY <1>1 DEF At
  <1>5. QED
    BY <1>2, <1>3, <1>4

LEMMA BeanFrames ==
  ASSUME NEW s \in Byte
  PROVE  WellFormed(BeanSelectCommand(s)) /\ WellFormed(BeanReadCommand(s))
  <1>1. 185 \in Byte /\ 186 \in Byte
    BY DEF Byte
  <1>2. WellFormed(<<13, 5, 185, s>> \o Crc)
    BY <1>1, ShortFrames
  <1>3. WellFormed(<<13, 5, 186, s>> \o Crc)
    BY <1>1, ShortFrames
  <1>4. QED
    BY <1>2, <1>3 DEF BeanSelectCommand, BeanReadCommand

\* A bean system: the name is padded to a fixed length.
LEMMA BeanWellFormed ==
  ASSUME NEW bean \in Beans, ValidBean(bean)
  PROVE  WellFormed(BeanWriteCommand(bean))
  <1> DEFINE first == <<bean.slot>>
             name == bean.name
             pad == [i \in 1 .. BeanNameMax - Len(name) |-> 0]
             rest == <<bean.temperature, bean.intensity, bean.grinder, bean.flag1, bean.flag2>>
             start == first \o name
             padded == start \o pad
             payload == padded \o rest
  <1>1. /\ bean.slot \in Byte /\ bean.temperature \in Byte /\ bean.intensity \in Byte
        /\ bean.grinder \in Byte /\ bean.flag1 \in Byte /\ bean.flag2 \in Byte
    BY DEF ValidBean, ValidSlot, Byte
  <1>2. name \in Seq(Byte) /\ Len(name) <= 40
    <2>1. Len(name) <= 40
      BY DEF ValidBean, BeanNameMax
    <2>2. bean.name \in {<<>>, <<0, 65>>, [i \in 1 .. 42 |-> 0]}
      BY DEF Beans
    <2>3. 0 \in Byte /\ 65 \in Byte
      BY DEF Byte
    <2>4. <<>> \in Seq(Byte)
      BY EmptySeq
    <2>5. <<0, 65>> \in Seq(Byte)
      BY <2>3, TwoBytes
    <2>6. [i \in 1 .. 42 |-> 0] \in Seq(Byte)
      BY <2>3, SeqDef
    <2>7. QED
      BY <2>1, <2>2, <2>4, <2>5, <2>6, Zenon
  <1>3. first \in Seq(Byte) /\ Len(first) = 1
    BY <1>1
  <1>4. rest \in Seq(Byte) /\ Len(rest) = 5
    BY <1>1
  <1>5. BeanPayload(bean) = payload
    BY DEF BeanPayload
  <1> HIDE DEF first, rest, name
  <1>6. Len(name) \in Nat
    BY <1>2, LenProperties
  <1>7. pad \in Seq(Byte) /\ Len(pad) = 40 - Len(name)
    <2> DEFINE k == BeanNameMax - Len(name)
    <2>1. k \in Nat /\ k = 40 - Len(name)
      BY <1>2, <1>6 DEF BeanNameMax
    <2>2. 0 \in Byte
      BY DEF Byte
    <2> HIDE DEF k
    <2>3. [i \in 1 .. k |-> 0] \in Seq(Byte) /\ Len([i \in 1 .. k |-> 0]) = k
      BY <2>1, <2>2, SeqDef
    <2>4. QED
      BY <2>1, <2>3 DEF k
  <1> HIDE DEF pad
  <1>8. start \in Seq(Byte) /\ Len(start) = Len(first) + Len(name)
    BY <1>2, <1>3, Joined
  <1> HIDE DEF start
  <1>9. padded \in Seq(Byte) /\ Len(padded) = Len(start) + Len(pad)
    BY <1>7, <1>8, Joined
  <1> HIDE DEF padded
  <1>10. payload \in Seq(Byte) /\ Len(payload) = Len(padded) + Len(rest)
    BY <1>4, <1>9, Joined
  <1> HIDE DEF payload
  <1>11. Len(payload) = 46
    BY <1>3, <1>4, <1>6, <1>7, <1>8, <1>9, <1>10
  <1> DEFINE head == <<13, 50, 187>>
             a == head \o payload
             frame == a \o Crc
  <1>12. head \in Seq(Byte) /\ Len(head) = 3 /\ At(head, 1, 13) /\ At(head, 2, 50)
    <2>1. 13 \in Byte /\ 50 \in Byte /\ 187 \in Byte
      BY DEF Byte
    <2>2. QED
      BY <2>1 DEF At
  <1>13. BeanWriteCommand(bean) = frame
    BY <1>5, <1>11 DEF BeanWriteCommand
  <1> HIDE DEF head
  <1>14. a \in Seq(Byte) /\ Len(a) = Len(head) + Len(payload) /\ At(a, 1, 13) /\ At(a, 2, 50)
    BY <1>10, <1>12, Joined, StillAt
  <1> HIDE DEF a
  <1>15. /\ frame \in Seq(Byte) /\ Len(frame) = Len(a) + Len(Crc)
         /\ At(frame, 1, 13) /\ At(frame, 2, 50)
    BY <1>14, CrcBytes, Joined, StillAt
  <1> HIDE DEF frame
  <1>16. 50 = Len(frame) - 1
    BY <1>11, <1>12, <1>14, <1>15, CrcBytes
  <1>17. QED
    BY <1>13, <1>15, <1>16, SeqAreBytes DEF WellFormed, Headed

-----------------------------------------------------------------------------
(* Every command in preparation.                                           *)

\* The machine is not asked for milk against what the monitor says.
MilkIsThere(o) == <<Accessorio, 2>> \in ReadParams(o.frame) => o.accessory \in {NotKnown, 2}

CarriesRecipe(o) ==
  SubSeq(o.frame, 7, Len(o.frame) - 2) =
       FlattenSeq([n \in DOMAIN o.params |->
                     IF Sensible(o, o.params[n]) THEN o.params[n] ELSE <<>>])
         \o Trailer(o.iced, o.coldBrew) \o <<o.profile * 4 + 2>>

ReadsWish(o) ==
  ReadQuantities(o.frame)
    = Asks(1, o.asked.coffee) \cup Asks(15, o.asked.water) \cup Asks(9, o.asked.milk)

\* How far a command is, and what it is made of.
Prepared(o) ==
  /\ "stage" \in DOMAIN o
  /\ o.stage \in {"found", "notFound", "taken", "decoded"} => o.profile \in Profiles
  /\ o.stage = "decoded" =>
       /\ o.params \in ParamLists
       /\ \/ o.kind = "recipe" /\ \E stray \in Strays : o.recipe = Stored(208, o.params, stray)
          \/ o.kind = "command" /\ o.recipe = Stored(13, o.params, <<6>>)
  /\ o.stage \in {"checked", "framed"} =>
       "frame" \in DOMAIN o /\ (o.kind # "command" => WellFormed(o.frame))
  /\ o.stage = "checked" => /\ MilkIsThere(o)
                            /\ o.kind = "recipe" => CarriesRecipe(o)
                            /\ o.kind = "custom" => ReadsWish(o)

FrameInv == DOMAIN order = Call /\ \A c \in Call : Prepared(order[c])

LEMMA OnePrepared ==
  ASSUME FrameInv, NEW c \in Call, NEW to, Goes(c, to), Prepared(to)
  PROVE  FrameInv'
  BY DEF FrameInv, Goes

LEMMA FramesHold == BrewSpec => []FrameInv
  <1>r. Prepared(Raised)
    BY DEF Prepared, Raised
  <1>1. BrewInit => FrameInv
    BY DEF BrewInit, FrameInv, Prepared
  <1>2. FrameInv /\ [BrewNext]_brewVars => FrameInv'
    <2> SUFFICES ASSUME FrameInv, [BrewNext]_brewVars PROVE FrameInv'
      OBVIOUS
    <2>1. CASE Send \/ UNCHANGED brewVars
      BY <2>1 DEF Send, brewVars, FrameInv
    <2>2. ASSUME NEW c \in Brews, Prepare(c) PROVE FrameInv'
      <3>0. c \in Call /\ Prepared(order[c])
        BY BrewAssumption DEF FrameInv
      <3> DEFINE o == order[c]
      <3>1. CASE Press(c)
        <4>1. PICK catalogue \in Catalogues : \E key \in Available(catalogue), profile \in Profiles :
                Goes(c, [stage |-> IF HasRecipe(catalogue, profile, key) THEN "found" ELSE "notFound",
                         catalogue |-> catalogue, key |-> key, profile |-> profile])
          BY <3>1 DEF Press
        <4>2. PICK key \in Available(catalogue), profile \in Profiles :
                Goes(c, [stage |-> IF HasRecipe(catalogue, profile, key) THEN "found" ELSE "notFound",
                         catalogue |-> catalogue, key |-> key, profile |-> profile])
          BY <4>1
        <4>3. Prepared([stage |-> IF HasRecipe(catalogue, profile, key) THEN "found" ELSE "notFound",
                        catalogue |-> catalogue, key |-> key, profile |-> profile])
          BY DEF Prepared
        <4>4. QED
          BY <3>0, <4>2, <4>3, OnePrepared
      <3>2. CASE GiveUp(c) \/ Undecodable(c)
        BY <1>r, <3>0, <3>2, OnePrepared DEF GiveUp, Undecodable
      <3>3. CASE Take(c)
        <4> DEFINE to == [stage |-> "taken", profile |-> o.profile,
                          iced |-> IsIced(o.key), coldBrew |-> IsColdBrew(o.key)]
        <4>1. Goes(c, to) /\ o.stage = "found"
          BY <3>3 DEF Take
        <4>2. Prepared(to)
          BY <3>0, <4>1 DEF Prepared
        <4>3. QED
          BY <3>0, <4>1, <4>2, OnePrepared
      <3>4. CASE Decode(c)
        <4> DEFINE to(params, form) ==
                     [stage |-> "decoded", kind |-> form.kind, params |-> params,
                      recipe |-> Stored(form.start, params, form.stray),
                      profile |-> o.profile, iced |-> o.iced, coldBrew |-> o.coldBrew]
        <4>1. PICK params \in ParamLists, form \in Forms : Goes(c, to(params, form))
          BY <3>4 DEF Decode
        <4>2. o.stage = "taken"
          BY <3>4 DEF Decode
        <4>3. /\ form.kind = "recipe" => form.start = 208 /\ form.stray \in Strays
              /\ form.kind = "command" => form.start = 13 /\ form.stray = <<6>>
              /\ form.kind \in {"recipe", "command"}
          BY DEF Forms, Strays
        <4>4. /\ to(params, form).stage = "decoded" /\ to(params, form).kind = form.kind
              /\ to(params, form).params = params /\ to(params, form).profile = o.profile
              /\ to(params, form).recipe = Stored(form.start, params, form.stray)
              /\ "stage" \in DOMAIN to(params, form)
          OBVIOUS
        <4>5. Prepared(to(params, form))
          BY <3>0, <4>2, <4>3, <4>4 DEF Prepared
        <4>6. QED
          BY <3>0, <4>1, <4>5, OnePrepared
      <3>5. CASE Check(c)
        <4> DEFINE to(status) ==
                     [stage |-> "checked", kind |-> o.kind, params |-> o.params,
                      accessory |-> status.accessory,
                      iced |-> o.iced, coldBrew |-> o.coldBrew, profile |-> o.profile,
                      frame |-> BrewCommand(o.recipe, o.iced, o.coldBrew, o.profile)]
        <4>1. o.stage = "decoded"
          BY <3>5 DEF Check
        <4>2. PICK status \in Status :
                \/ Goes(c, Raised)
                \/ /\ MayBrew(status, RequiredAccessory(RawParams(o.recipe)))
                   /\ Goes(c, to(status))
          BY <3>5 DEF Check
        <4>3. /\ o.params \in ParamLists
              /\ \/ o.kind = "recipe" /\ \E stray \in Strays : o.recipe = Stored(208, o.params, stray)
                 \/ o.kind = "command" /\ o.recipe = Stored(13, o.params, <<6>>)
          BY <3>0, <4>1 DEF Prepared
        <4>4. o.profile \in Profiles
          BY <3>0, <4>1 DEF Prepared
        <4>a. ASSUME MayBrew(status, RequiredAccessory(RawParams(o.recipe))),
                     RequiredAccessory(RawParams(o.recipe)) = 2
              PROVE  status.accessory \in {NotKnown, 2}
          <5>1. status.accessory \in {NotKnown, 0, 1, 2}
            BY DEF Status
          <5>2. QED
            BY <4>a, <5>1 DEF MayBrew, NotKnown
        <4>5. CASE /\ MayBrew(status, RequiredAccessory(RawParams(o.recipe)))
                   /\ o.kind = "recipe"
          <5>s. PICK stray \in Strays : o.recipe = Stored(208, o.params, stray)
            BY <4>3, <4>5
          <5> DEFINE frame == BrewCommand(o.recipe, o.iced, o.coldBrew, o.profile)
                     made == to(status)
          <5>1. WellFormed(frame)
            BY <4>3, <4>4, <5>s, BrewWellFormed
          <5>2. /\ made.frame = frame /\ made.params = o.params /\ made.accessory = status.accessory
                /\ made.iced = o.iced /\ made.coldBrew = o.coldBrew /\ made.profile = o.profile
                /\ made.stage = "checked" /\ made.kind = "recipe"
                /\ "stage" \in DOMAIN made /\ "frame" \in DOMAIN made
            BY <4>5
          <5>3. /\ SubSeq(frame, 7, Len(frame) - 2)
                     = (FlattenSeq(Remaining(o.params, Excluded(o.iced, o.coldBrew)))
                          \o Trailer(o.iced, o.coldBrew)) \o <<o.profile * 4 + 2>>
                /\ <<Accessorio, 2>> \in ReadParams(frame) =>
                     \E n \in DOMAIN o.params : o.params[n] = <<Accessorio, 2>>
            <6> DEFINE params == o.params
                       iced == o.iced
                       coldBrew == o.coldBrew
                       profile == o.profile
            <6>1. params \in ParamLists /\ profile \in Profiles
              BY <4>3, <4>4
            <6>2. frame = BrewCommand(Stored(208, params, stray), iced, coldBrew, profile)
              BY <5>s
            <6> HIDE DEF params, iced, coldBrew, profile, frame
            <6>3. SubSeq(frame, 7, Len(frame) - 2)
                    = (FlattenSeq(Remaining(params, Excluded(iced, coldBrew)))
                         \o Trailer(iced, coldBrew)) \o <<profile * 4 + 2>>
              BY <6>1, <6>2, BrewCommandRead
            <6>4. <<Accessorio, 2>> \in ReadParams(frame) =>
                    \E n \in DOMAIN params : params[n] = <<Accessorio, 2>>
              BY <6>1, <6>2, BrewCommandRead
            <6>5. QED
              BY <6>3, <6>4 DEF params, iced, coldBrew, profile
          <5> HIDE DEF frame, made
          <5>4. CarriesRecipe(made)
            <6>1. SubSeq(frame, 7, Len(frame) - 2)
                    = FlattenSeq(Remaining(o.params, Excluded(o.iced, o.coldBrew)))
                        \o Trailer(o.iced, o.coldBrew) \o <<o.profile * 4 + 2>>
              BY <5>3
            <6>2. Remaining(o.params, Excluded(o.iced, o.coldBrew))
                    = [n \in DOMAIN made.params |->
                         IF Sensible(made, made.params[n]) THEN made.params[n] ELSE <<>>]
              BY <5>2 DEF Remaining, Sensible
            <6>3. QED
              BY <5>2, <6>1, <6>2 DEF CarriesRecipe
          <5>5. ASSUME <<Accessorio, 2>> \in ReadParams(frame)
                PROVE  status.accessory \in {NotKnown, 2}
            <6>1. RequiredAccessory(RawParams(o.recipe)) = 2
              BY <4>3, <5>s, <5>3, <5>5, AccessoryFound
            <6>2. QED
              BY <4>a, <4>5, <6>1
          <5>6. MilkIsThere(made)
            BY <5>2, <5>5 DEF MilkIsThere
          <5>7. Prepared(made)
            BY <5>1, <5>2, <5>4, <5>6 DEF Prepared
          <5>8. QED
            BY <1>r, <3>0, <4>2, <5>7, OnePrepared DEF made
        <4>6. CASE /\ MayBrew(status, RequiredAccessory(RawParams(o.recipe)))
                   /\ o.kind = "command"
          <5> DEFINE frame == BrewCommand(o.recipe, o.iced, o.coldBrew, o.profile)
                     made == to(status)
          <5>1. o.recipe = Stored(13, o.params, <<6>>)
            BY <4>3, <4>6
          <5>2. <<6>> \in Strays
            BY DEF Strays
          <5>3. o.recipe[1] = 13
            BY <4>3, <5>1, <5>2, StoredParsed
          <5>4. frame = o.recipe
            BY <5>3 DEF BrewCommand
          <5>5. /\ made.frame = frame /\ made.accessory = status.accessory
                /\ made.stage = "checked" /\ made.kind = "command"
                /\ "stage" \in DOMAIN made /\ "frame" \in DOMAIN made
            BY <4>6
          <5>6. ASSUME <<Accessorio, 2>> \in ReadParams(o.recipe)
                PROVE  status.accessory \in {NotKnown, 2}
            <6>1. <<Accessorio, 2>> \in ToSet(o.params)
              BY <4>3, <5>1, <5>6, StoredRead
            <6>2. PICK i \in DOMAIN o.params : o.params[i] = <<Accessorio, 2>>
              BY <6>1 DEF ToSet
            <6> DEFINE params == o.params
            <6> HIDE DEF params
            <6>3. RequiredAccessory(RawParams(Stored(13, params, <<6>>))) = 2
              <7>1. params \in ParamLists /\ i \in DOMAIN params /\ params[i] = <<Accessorio, 2>>
                BY <4>3, <6>2 DEF params
              <7>2. QED
                BY <5>2, <7>1, AccessoryFound
            <6>4. RequiredAccessory(RawParams(o.recipe)) = 2
              BY <5>1, <6>3 DEF params
            <6>5. QED
              BY <4>a, <4>6, <6>4
          <5> HIDE DEF frame, made
          <5>7. MilkIsThere(made)
            BY <5>4, <5>5, <5>6 DEF MilkIsThere
          <5>8. Prepared(made)
            BY <5>5, <5>7 DEF Prepared
          <5>9. QED
            BY <1>r, <3>0, <4>2, <5>8, OnePrepared DEF made
        <4>7. CASE ~MayBrew(status, RequiredAccessory(RawParams(o.recipe)))
          BY <1>r, <3>0, <4>2, <4>7, OnePrepared
        <4>8. QED
          BY <4>3, <4>5, <4>6, <4>7
      <3>6. CASE Ping(c)
        <4>1. o.stage = "checked"
          BY <3>6 DEF Ping
        <4>2. Prepared([o EXCEPT !.stage = "framed"])
          BY <3>0, <4>1 DEF Prepared
        <4>3. QED
          BY <1>r, <3>0, <3>6, <4>2, OnePrepared DEF Ping
      <3>7. CASE Custom(c)
        <4> DEFINE to(asked, status) ==
                     [stage |-> "checked", kind |-> "custom", asked |-> asked,
                      accessory |-> status.accessory, frame |-> CustomCommand(asked)]
        <4>1. PICK asked \in Wishes, status \in Status :
                \/ Goes(c, Raised)
                \/ /\ asked.beverage # "mystery" /\ ValidProfile(asked.profile)
                   /\ AreBytes(CustomCommand(asked))
                   /\ MayBrew(status, BeverageAccessory(asked.beverage))
                   /\ Goes(c, to(asked, status))
          BY <3>7, Zenon DEF Custom
        <4>2. CASE Goes(c, Raised)
          BY <1>r, <3>0, <4>2, OnePrepared
        <4>3. CASE ~Goes(c, Raised)
          <5> DEFINE frame == CustomCommand(asked)
                     made == to(asked, status)
          <5>1. /\ made.frame = frame /\ made.asked = asked /\ made.accessory = status.accessory
                /\ made.stage = "checked" /\ made.kind = "custom"
                /\ "stage" \in DOMAIN made /\ "frame" \in DOMAIN made
            OBVIOUS
          <5>2. /\ Headed(frame)
                /\ <<Accessorio, 2>> \in ReadParams(frame) => BeverageAccessory(asked.beverage) = 2
                /\ ReadQuantities(frame)
                     = Asks(1, asked.coffee) \cup Asks(15, asked.water) \cup Asks(9, asked.milk)
            BY <4>1, <4>3, CustomRead
          <5>3. WellFormed(frame)
            BY <4>1, <4>3, <5>2 DEF WellFormed
          <5> HIDE DEF frame, made
          <5>4. ReadsWish(made)
            BY <5>1, <5>2 DEF ReadsWish
          <5>5. ASSUME <<Accessorio, 2>> \in ReadParams(frame)
                PROVE  status.accessory \in {NotKnown, 2}
            <6>1. BeverageAccessory(asked.beverage) = 2
              BY <5>2, <5>5
            <6>2. status.accessory \in {NotKnown, 0, 1, 2}
              BY DEF Status
            <6>3. QED
              BY <4>1, <4>3, <6>1, <6>2 DEF MayBrew, NotKnown
          <5>6. MilkIsThere(made)
            BY <5>1, <5>5 DEF MilkIsThere
          <5>7. Prepared(made)
            BY <5>1, <5>3, <5>4, <5>6 DEF Prepared
          <5>8. QED
            BY <3>0, <4>1, <4>3, <5>7, OnePrepared DEF made
        <4>4. QED
          BY <4>2, <4>3
      <3>8. CASE Plain(c)
        <4>1. ASSUME NEW frame, WellFormed(frame) PROVE Prepared(Framed(frame))
          BY <4>1 DEF Prepared, Framed
        <4>2. ASSUME NEW frame, NEW valid, Try(c, valid, frame), valid => WellFormed(frame)
              PROVE  FrameInv'
          BY <1>r, <3>0, <4>1, <4>2, OnePrepared DEF Try
        <4>3. CASE Try(c, TRUE, CancelCommand)
          <5>1. WellFormed(CancelCommand)
            <6>1. 143 \in Byte
              BY DEF Byte
            <6>2. QED
              BY <6>1, ShortFrames DEF CancelCommand
          <5>2. QED
            BY <4>2, <4>3, <5>1
        <4>4. ASSUME NEW p \in Profiles \cup {0}, Try(c, ValidProfile(p), ProfileCommand(p))
              PROVE  FrameInv'
          <5>1. ValidProfile(p) => WellFormed(ProfileCommand(p))
            <6>1. 169 \in Byte
              BY DEF Byte
            <6>2. QED
              BY <6>1, ShortFrames, ProfileBytes DEF ProfileCommand
          <5>2. QED
            BY <4>2, <4>4, <5>1
        <4>5. ASSUME NEW s \in {1, 7, 8},
                     \/ Try(c, ValidSlot(s), BeanSelectCommand(s))
                     \/ Try(c, ValidSlot(s), BeanReadCommand(s))
              PROVE  FrameInv'
          <5>1. WellFormed(BeanSelectCommand(s)) /\ WellFormed(BeanReadCommand(s))
            <6>1. s \in Byte
              BY DEF Byte
            <6>2. QED
              BY <6>1, BeanFrames
          <5>2. QED
            BY <4>2, <4>5, <5>1
        <4>6. ASSUME NEW b \in Beans,
                     Goes(c, IF ValidBean(b) THEN Framed(BeanWriteCommand(b)) ELSE Raised)
              PROVE  FrameInv'
          <5>1. Prepared(IF ValidBean(b) THEN Framed(BeanWriteCommand(b)) ELSE Raised)
            BY <1>r, <4>1, BeanWellFormed
          <5>2. QED
            BY <3>0, <4>6, <5>1, OnePrepared
        <4>7. QED
          BY <3>8, <4>3, <4>4, <4>5, <4>6 DEF Plain
      <3>9. CASE HandOver(c)
        <4>1. Prepared([stage |-> "sent"])
          BY DEF Prepared
        <4>2. QED
          BY <3>0, <3>9, <4>1, OnePrepared DEF HandOver
      <3>10. QED
        BY <2>2, <3>1, <3>2, <3>3, <3>4, <3>5, <3>6, <3>7, <3>8, <3>9 DEF Prepare
    <2>3. QED
      BY <2>1, <2>2 DEF BrewNext
  <1>3. QED
    BY <1>1, <1>2, PTL DEF BrewSpec

\* Every frame that the client makes states its length and holds bytes only, for any
\* number of commands, whatever the service was called with (api.py, brew_beverage,
\* brew_custom, set_active_profile, select_bean_system, write_bean_system).
THEOREM FramesAreWellFormed == BrewSpec => []FramesWellFormed
  <1>1. FrameInv => FramesWellFormed
    BY DEF FrameInv, Prepared, FramesWellFormed, Underway, WellFormed, Headed, At
  <1>2. QED
    BY <1>1, FramesHold, PTL

\* The walk over the bytes of a recipe finds the params it was made of, for every choice
\* and order of them, whatever their values look like and also where it is cut off, and
\* the command carries them in order (api.py, _recipe_to_brew_command).
THEOREM RecipeIsCarried == BrewSpec => []CommandCarriesRecipe
  <1>1. FrameInv => CommandCarriesRecipe
    BY DEF FrameInv, Prepared, CommandCarriesRecipe, Underway, CarriesRecipe
  <1>2. QED
    BY <1>1, FramesHold, PTL

\* No command that needs the milk module is prepared while the monitor says that it is
\* not there: the accessory the check looks up is the one the machine will read
\* (api.py, _pre_brew_check, _get_recipe_accessory).
THEOREM MilkNeedsItsModule == BrewSpec => []NoMilkWithoutModule
  <1>1. FrameInv => NoMilkWithoutModule
    BY DEF FrameInv, Prepared, NoMilkWithoutModule, Underway, MilkIsThere
  <1>2. QED
    BY <1>1, FramesHold, PTL

\* The quantities that the machine reads out of a custom brew are the ones the service
\* was called with, modulo 2^16, for any integers at all (api.py, brew_custom).
THEOREM WishIsRead == BrewSpec => []MachineReadsWish
  <1>1. FrameInv => MachineReadsWish
    BY DEF FrameInv, Prepared, MachineReadsWish, Underway, ReadsWish
  <1>2. QED
    BY <1>1, FramesHold, PTL

=============================================================================
