------------------------------ MODULE CloudAuth ------------------------------
(***************************************************************************)
(* The token of the cloud client, custom_components/delonghi_coffee/api.py:*)
(* the executor threads that call the client share one access token, which *)
(* _ensure_token replaces before it expires and _retry replaces after a    *)
(* 401.  A thread runs one call: a "read" is one whose HTTP errors reach   *)
(* _retry as such (get_properties, get_property, get_devices); a "command" *)
(* is send_command, which turns every bad status into DeLonghiApiError.    *)
(*                                                                         *)
(* Tokens are numbered in the order the cloud issued them.  A thread that  *)
(* obtains one writes token and expiry under _token_lock; readers outside  *)
(* the lock see both writes or go and wait for the lock, so they are one.  *)
(***************************************************************************)
EXTENDS Naturals

CONSTANTS
  Threads,         \* executor threads, one call each
  Attempts,        \* RETRY_COUNT
  Window,          \* REAUTH_DEDUP_WINDOW
  MaxTime,         \* bound on the clock
  MaxRevocations,  \* bound on tokens the cloud revokes
  MaxExpiries,     \* bound on tokens reaching their refresh time
  MaxFaults        \* bound on failed exchanges with the cloud

ASSUME CloudAuthAssumption ==
  /\ 0 \notin Threads
  /\ Attempts \in Nat \ {0}
  /\ Window \in Nat
  /\ {MaxTime, MaxRevocations, MaxExpiries, MaxFaults} \subseteq Nat

VARIABLES
  kind,         \* kind[t]: "read" or "command"
  pc,           \* pc[t]: where the call stands
  attempt,      \* attempt[t]: the attempt under way
  held,         \* held[t]: the token its request carries
  granted,      \* granted[t]: the token the cloud has issued to it
  token,        \* self._ayla_token
  fresh,        \* time.time() < self._token_expires - 300
  tokenLock,    \* holder of self._token_lock, 0 for none
  lastReauth,   \* self._last_401_reauth_monotonic, 0 for None
  issued,       \* tokens the cloud has issued
  live,         \* tokens the cloud accepts
  now,          \* time.monotonic()
  lastWrite,    \* when the token was last replaced
  revocations, expiries, faults

callVars == <<kind, pc, attempt, held, granted>>
tokenVars == <<token, fresh, tokenLock, lastReauth, lastWrite>>
cloudVars == <<issued, live>>
faultVars == <<revocations, expiries, faults>>
vars == <<callVars, tokenVars, cloudVars, now, faultVars>>

InLock == {"recheck", "refresh", "refreshed", "auth", "authed", "reauth", "reauthed"}
Ended == {"done", "notFound", "apiError", "authError"}
PcState == {"idle", "headers", "read", "request", "refused"} \cup InLock \cup Ended

Init ==
  /\ kind \in [Threads -> {"read", "command"}]
  /\ pc = [t \in Threads |-> "idle"]
  /\ attempt = [t \in Threads |-> 1]
  /\ held = [t \in Threads |-> 0]
  /\ granted = [t \in Threads |-> 0]
  /\ token = 1      \* authenticate() at setup
  /\ fresh = TRUE
  /\ tokenLock = 0
  /\ lastReauth = 0
  /\ lastWrite = 1
  /\ issued = 1
  /\ live = {1}
  /\ now = 1
  /\ revocations = 0 /\ expiries = 0 /\ faults = 0

Goto(t, where) == pc' = [pc EXCEPT ![t] = where]

-----------------------------------------------------------------------------
(* The cloud and the clock.                                                *)

Tick ==
  /\ now < MaxTime
  /\ now' = now + 1
  /\ UNCHANGED <<callVars, tokenVars, cloudVars, faultVars>>

Revoke ==
  /\ revocations < MaxRevocations
  /\ live # {}
  /\ live' = {}
  /\ revocations' = revocations + 1
  /\ UNCHANGED <<callVars, tokenVars, issued, now, expiries, faults>>

Expire ==
  /\ expiries < MaxExpiries
  /\ fresh
  /\ fresh' = FALSE
  /\ expiries' = expiries + 1
  /\ UNCHANGED <<callVars, token, tokenLock, lastReauth, lastWrite, cloudVars, now,
                 revocations, faults>>

Fault ==
  /\ faults < MaxFaults
  /\ faults' = faults + 1
  /\ UNCHANGED <<revocations, expiries>>

-----------------------------------------------------------------------------
(* One attempt: _headers, the request, and what _retry makes of it.        *)

Begin(t) ==
  /\ pc[t] = "idle"
  /\ Goto(t, "headers")
  /\ UNCHANGED <<kind, attempt, held, granted, tokenVars, cloudVars, now, faultVars>>

\* The attempt is over without an answer: after the backoff, another or none.
AttemptFails(t) ==
  IF attempt[t] < Attempts
  THEN Goto(t, "headers") /\ attempt' = [attempt EXCEPT ![t] = @ + 1]
  ELSE Goto(t, "apiError") /\ UNCHANGED attempt

Acquire(t) == tokenLock = 0 /\ tokenLock' = t
Unlock == tokenLock' = 0

\* _ensure_token: the check without the lock, then the lock and a second check.
TokenFresh(t) ==
  /\ pc[t] = "headers"
  /\ fresh
  /\ Goto(t, "read")
  /\ UNCHANGED <<kind, attempt, held, granted, tokenVars, cloudVars, now, faultVars>>

TokenStale(t) ==
  /\ pc[t] = "headers"
  /\ ~fresh
  /\ Acquire(t)
  /\ Goto(t, "recheck")
  /\ UNCHANGED <<kind, attempt, held, granted, token, fresh, lastReauth, lastWrite,
                 cloudVars, now, faultVars>>

Recheck(t) ==
  /\ pc[t] = "recheck"
  /\ \/ fresh /\ Goto(t, "read") /\ Unlock
     \/ ~fresh /\ Goto(t, "refresh") /\ UNCHANGED tokenLock
  /\ UNCHANGED <<kind, attempt, held, granted, token, fresh, lastReauth, lastWrite,
                 cloudVars, now, faultVars>>

\* The header is built from the token as it is by then.
ReadToken(t) ==
  /\ pc[t] = "read"
  /\ held' = [held EXCEPT ![t] = token]
  /\ Goto(t, "request")
  /\ UNCHANGED <<kind, attempt, granted, tokenVars, cloudVars, now, faultVars>>

Answered(t) ==
  /\ pc[t] = "request"
  /\ held[t] \in live
  /\ Goto(t, "done") \/ Goto(t, "notFound")
  /\ UNCHANGED <<kind, attempt, held, granted, tokenVars, cloudVars, now, faultVars>>

\* A transport error or a bad status other than 401 and 404.
RequestFails(t) ==
  /\ pc[t] = "request"
  /\ AttemptFails(t)
  /\ Fault
  /\ UNCHANGED <<kind, held, granted, tokenVars, cloudVars, now>>

\* A 401.  send_command raises DeLonghiApiError for it, which _retry does not
\* take for one.
MutUnauthorized(t) ==
  /\ pc[t] = "request"
  /\ held[t] \notin live
  /\ AttemptFails(t)
  /\ UNCHANGED <<kind, held, granted, tokenVars, cloudVars, now, faultVars>>
Unauthorized(t) ==
  /\ pc[t] = "request"
  /\ held[t] \notin live
  /\ IF kind[t] = "read" THEN Goto(t, "refused") /\ UNCHANGED attempt
                         ELSE AttemptFails(t)
  /\ UNCHANGED <<kind, held, granted, tokenVars, cloudVars, now, faultVars>>

-----------------------------------------------------------------------------
(* The 401 branch of _retry, under the lock.                               *)

RecentlyReauthed == lastReauth # 0 /\ now - lastReauth < Window

Dedup(t) ==
  /\ pc[t] = "refused"
  /\ tokenLock = 0
  /\ RecentlyReauthed
  /\ AttemptFails(t)
  /\ UNCHANGED <<kind, held, granted, tokenVars, cloudVars, now, faultVars>>

MutReauthenticate(t) ==
  /\ pc[t] = "refused"
  /\ ~RecentlyReauthed
  /\ tokenLock' = t
  /\ Goto(t, "reauth")
  /\ UNCHANGED <<kind, attempt, held, granted, token, fresh, lastReauth, lastWrite,
                 cloudVars, now, faultVars>>
Reauthenticate(t) ==
  /\ pc[t] = "refused"
  /\ ~RecentlyReauthed
  /\ Acquire(t)
  /\ Goto(t, "reauth")
  /\ UNCHANGED <<kind, attempt, held, granted, token, fresh, lastReauth, lastWrite,
                 cloudVars, now, faultVars>>

-----------------------------------------------------------------------------
(* Exchanges that replace the token, all made while holding the lock.      *)

Exchanging == {"refresh", "auth", "reauth"}
Issued(where) == CASE where = "refresh" -> "refreshed"
                   [] where = "auth" -> "authed"
                   [] where = "reauth" -> "reauthed"

CloudIssues(t) ==
  /\ pc[t] \in Exchanging
  /\ issued' = issued + 1
  /\ live' = live \cup {issued + 1}
  /\ granted' = [granted EXCEPT ![t] = issued + 1]
  /\ Goto(t, Issued(pc[t]))
  /\ UNCHANGED <<kind, attempt, held, tokenVars, now, faultVars>>

\* The answer is written, the lock released; a 401 still costs its attempt.
StoreToken(t) ==
  /\ pc[t] \in {"refreshed", "authed", "reauthed"}
  /\ token' = granted[t]
  /\ fresh' = TRUE
  /\ lastWrite' = now
  /\ Unlock
  /\ IF pc[t] = "reauthed"
     THEN lastReauth' = now /\ AttemptFails(t)
     ELSE Goto(t, "read") /\ UNCHANGED <<lastReauth, attempt>>
  /\ UNCHANGED <<kind, held, granted, cloudVars, now, faultVars>>

\* The refresh token is refused or the exchange fails, perhaps after a token was
\* issued: log in again.
RefreshFails(t) ==
  /\ pc[t] \in {"refresh", "refreshed"}
  /\ Goto(t, "auth")
  /\ UNCHANGED <<kind, attempt, held, granted, tokenVars, cloudVars, now, faultVars>>

\* The login is rejected: DeLonghiAuthError, which _retry passes on.
MutAuthDenied(t) ==
  /\ pc[t] \in {"auth", "reauth"}
  /\ Fault
  /\ Goto(t, "authError")
  /\ UNCHANGED <<kind, attempt, held, granted, tokenVars, cloudVars, now>>
AuthDenied(t) ==
  /\ pc[t] \in {"auth", "reauth"}
  /\ Fault
  /\ Unlock
  /\ Goto(t, "authError")
  /\ UNCHANGED <<kind, attempt, held, granted, token, fresh, lastReauth, lastWrite,
                 cloudVars, now>>

\* The login gets no usable answer, perhaps after a token was issued:
\* DeLonghiApiError, one failed attempt from _headers, the end from the 401
\* branch.
AuthUnreachable(t) ==
  /\ pc[t] \in {"auth", "authed", "reauth", "reauthed"}
  /\ Fault
  /\ Unlock
  /\ IF pc[t] \in {"auth", "authed"} THEN AttemptFails(t)
     ELSE Goto(t, "apiError") /\ UNCHANGED attempt
  /\ UNCHANGED <<kind, held, granted, token, fresh, lastReauth, lastWrite, cloudVars,
                 now>>

-----------------------------------------------------------------------------

Step(t) ==
  \/ TokenFresh(t) \/ TokenStale(t) \/ Recheck(t) \/ ReadToken(t)
  \/ Answered(t) \/ RequestFails(t) \/ Unauthorized(t)
  \/ Dedup(t) \/ Reauthenticate(t)
  \/ CloudIssues(t) \/ StoreToken(t) \/ RefreshFails(t)
  \/ AuthDenied(t) \/ AuthUnreachable(t)

Next ==
  \/ Tick \/ Revoke \/ Expire
  \/ \E t \in Threads : Begin(t) \/ Step(t)

Spec == Init /\ [][Next]_vars

\* Threads run; a thread waiting for the lock gets it when it keeps being free.
FairSpec == Spec /\ \A t \in Threads : SF_vars(Step(t))

-----------------------------------------------------------------------------
(* Properties.                                                             *)

\* Every variable stays in its range (type invariant).
TypeOK ==
  /\ kind \in [Threads -> {"read", "command"}]
  /\ pc \in [Threads -> PcState]
  /\ attempt \in [Threads -> 1 .. Attempts]
  /\ held \in [Threads -> Nat]
  /\ granted \in [Threads -> Nat]
  /\ token \in Nat
  /\ fresh \in BOOLEAN
  /\ tokenLock \in Threads \cup {0}
  /\ lastReauth \in Nat /\ lastWrite \in Nat
  /\ issued \in Nat
  /\ live \subseteq Nat
  /\ now \in Nat
  /\ revocations \in Nat /\ expiries \in Nat /\ faults \in Nat

\* The client never falls back to an older token: an answer to an earlier
\* login cannot overwrite that to a later one (F-API-04, the token lock).
TokenNeverGoesBack == [][token' >= token]_vars

\* A read fails for want of an answer only after two troubles: one revoked
\* token, or one failed exchange, is always made up for by its retries.
OneTroubleIsSurvived ==
  \A t \in Threads : kind[t] = "read" /\ pc[t] = "apiError" => revocations + faults >= 2

\* The same of commands, which _retry promises alike: "401: re-authenticate then
\* retry".
CommandsSurviveToo ==
  \A t \in Threads : kind[t] = "command" /\ pc[t] = "apiError" => revocations + faults >= 2

\* A thread that waited for the lock while another refreshed the token does not
\* log in again: "skip it and just retry with the now-fresh token".
NoLoginOverFreshToken ==
  [][\A t \in Threads :
       pc[t] = "refused" /\ pc'[t] = "reauth" /\ now - lastWrite < Window
         => held[t] = token]_vars

\* Every call comes to an end: no path leaves the token lock held.
CallsEnd == \A t \in Threads : pc[t] = "headers" ~> pc[t] \in Ended

=============================================================================
