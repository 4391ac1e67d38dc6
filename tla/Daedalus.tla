------------------------------- MODULE Daedalus -------------------------------
(***************************************************************************)
(* The second integration, delonghi_daedalus: DaedalusCoordinator keeps a  *)
(* WebSocket to the machine open, renews the machine's JWT through Gigya   *)
(* when the machine rejects it, and asks the user for the password when    *)
(* that does not help.  One cycle of the coordinator runs at a time, under *)
(* its lock, and gives way at every await; the user's answer to the        *)
(* password prompt can come in between.  Home Assistant opens one prompt   *)
(* for an entry at a time, and asks for no refresh after one it opened.    *)
(*                                                                         *)
(* Session tokens are numbered, 0 for an entry without one.  Of a JWT it   *)
(* matters only whether the machine takes it.                              *)
(***************************************************************************)
EXTENDS Naturals

CONSTANTS
  MaxSessions,  \* bound on session tokens
  MaxEvents     \* bound on what happens to machine, network and tokens

ASSUME DaedalusAssumption == MaxSessions \in Nat \ {0} /\ MaxEvents \in Nat

VARIABLES
  entry,     \* session token and JWT of the config entry
  revoked,   \* the session tokens Gigya has revoked
  online,    \* the machine answers, and Gigya too
  cycle,     \* the cycle in flight: its local variables and its socket
  lan,       \* self._lan
  sockets,   \* WebSockets open
  heard,     \* what the machine last answered to an AUTH frame
  outcome,   \* how the last cycle ended
  phase,     \* the entry: in setup (its first cycle), loaded, or rejected in setup
  prompt,    \* the password dialog: open, its answer given and the entry to be
             \* reloaded, or waiting for the setup of that reload
  newest,    \* the session token of the last login
  events

vars == <<entry, revoked, online, cycle, lan, sockets, heard, outcome, phase, prompt,
          newest, events>>
world == <<revoked, online, events>>
ended == <<outcome, phase, prompt>>

Idle == [pc |-> "idle", good |-> FALSE, session |-> 0, fresh |-> FALSE]

Init ==
  /\ newest \in {0, 1}
  /\ entry = [session |-> newest, good |-> TRUE]
  /\ revoked = {}
  /\ online = TRUE
  /\ cycle = Idle
  /\ lan = "none"
  /\ sockets = 0
  /\ heard = "nothing"
  /\ outcome = "none"
  /\ phase = "setup"
  /\ prompt = "none"
  /\ events = 0

-----------------------------------------------------------------------------
(* Machine, network, Gigya.                                                *)

Event ==
  /\ events < MaxEvents
  /\ events' = events + 1
  /\ UNCHANGED <<heard, ended, newest>>

JwtExpires ==
  /\ entry' = [entry EXCEPT !.good = FALSE]
  /\ cycle' = [cycle EXCEPT !.good = FALSE]
  /\ Event
  /\ UNCHANGED <<revoked, online, lan, sockets>>

SessionRevoked ==
  /\ entry.session \notin revoked \cup {0}
  /\ revoked' = revoked \cup {entry.session}
  /\ Event
  /\ UNCHANGED <<entry, online, cycle, lan, sockets>>

NetworkChanges ==
  /\ online' = ~online
  /\ Event
  /\ UNCHANGED <<entry, revoked, cycle, lan, sockets>>

\* The machine closes the connection, or the heartbeat of the WebSocket does.
ConnectionDrops ==
  /\ lan = "open"
  /\ lan' = "closed"
  /\ sockets' = sockets - 1
  /\ Event
  /\ UNCHANGED <<entry, revoked, online, cycle>>

-----------------------------------------------------------------------------
(* The cycle: _async_update_data and _ensure_connected.                    *)

Asks(how) == how \in {"missing", "refused", "rejected"}
AsksForPassword == Asks(outcome)

\* ConfigEntryAuthFailed opens the prompt if there is none, and ends a setup for
\* good; after another failure a setup is tried again.  A dialog that waits for
\* this setup ends with it, whatever it came to.
End(how) ==
  /\ outcome' = how
  /\ cycle' = Idle
  /\ phase' = IF phase = "setup" /\ how = "ok" THEN "loaded"
              ELSE IF phase = "setup" /\ Asks(how) THEN "rejected" ELSE phase
  /\ prompt' = IF prompt = "setup" THEN "none"
               ELSE IF prompt = "none" /\ Asks(how) THEN "open" ELSE prompt

BeginCycle ==
  /\ cycle.pc = "idle"
  /\ phase # "rejected" /\ prompt # "given"
  /\ IF lan = "open" THEN End("ok")
     ELSE /\ cycle' = [Idle EXCEPT !.pc = "connect", !.good = entry.good]
          /\ UNCHANGED ended
  /\ UNCHANGED <<world, entry, lan, sockets, heard, newest>>

Connect ==
  /\ cycle.pc = "connect"
  /\ cycle' = [cycle EXCEPT !.pc = "auth"]
  /\ sockets' = sockets + 1
  /\ UNCHANGED <<world, entry, lan, heard, ended, newest>>

ConnectFails ==
  /\ cycle.pc = "connect"
  /\ ~online
  /\ End("failed")
  /\ UNCHANGED <<world, entry, lan, sockets, heard, newest>>

\* What can come back on an AUTH frame.  A machine that is starting up, or another
\* service on its port, may answer anything: no JSON object or one without a
\* ConnectionId ("malformed"), or an object without a Response ("incomplete").
Replies ==
  {IF cycle.good THEN "ok" ELSE "rejected"} \cup
  (IF online THEN {} ELSE {"malformed", "incomplete", "transport"})

\* Every way out but the good one closes the socket.
MutSocketsAfter(reply) == IF reply \in {"ok", "transport"} THEN sockets ELSE sockets - 1
SocketsAfter(reply) == IF reply = "ok" THEN sockets ELSE sockets - 1

\* What connect_lan reports as DaedalusAuthError: parse_auth_response takes an object
\* without a Response for one whose Response is not OK.
MutIsAuthError(reply) == reply \in {"rejected", "incomplete", "transport"}
IsAuthError(reply) == reply \in {"rejected", "incomplete"}

\* The first rejection has the JWT renewed; a fresh JWT rejected is for the user.
MutEscalate ==
  IF entry.session = 0 THEN End("missing")
  ELSE /\ cycle' = [cycle EXCEPT !.pc = "rotate", !.session = entry.session]
       /\ UNCHANGED ended
Escalate ==
  IF cycle.fresh THEN End("rejected")
  ELSE IF entry.session = 0 THEN End("missing")
  ELSE /\ cycle' = [cycle EXCEPT !.pc = "rotate", !.session = entry.session]
       /\ UNCHANGED ended

Answer(reply) ==
  /\ cycle.pc = "auth"
  /\ reply \in Replies
  /\ sockets' = SocketsAfter(reply)
  /\ heard' = reply
  /\ lan' = IF reply = "ok" THEN "open" ELSE lan
  /\ IF IsAuthError(reply) THEN Escalate
     ELSE End(IF reply = "ok" THEN "ok" ELSE "failed")
  /\ UNCHANGED <<world, entry, newest>>

\* The entry as it is now, with the fresh JWT.
MutRenewed(accepted) == [session |-> cycle.session, good |-> accepted]
Renewed(accepted) == [entry EXCEPT !.good = accepted]

\* getJWT: a fresh JWT, which the machine may still reject.
Rotate(accepted) ==
  /\ cycle.pc = "rotate"
  /\ cycle.session \notin revoked
  /\ entry' = Renewed(accepted)
  /\ cycle' = [cycle EXCEPT !.pc = "connect", !.good = accepted, !.fresh = TRUE]
  /\ UNCHANGED <<world, lan, sockets, heard, ended, newest>>

\* An errorCode in Gigya's answer, whatever the number: the session token is
\* revoked, or Gigya is out of order or rations its answers.
RotateRefused ==
  /\ cycle.pc = "rotate"
  /\ cycle.session \in revoked \/ ~online
  /\ End("refused")
  /\ UNCHANGED <<world, entry, lan, sockets, heard, newest>>

RotateFails ==
  /\ cycle.pc = "rotate"
  /\ ~online
  /\ End("failed")
  /\ UNCHANGED <<world, entry, lan, sockets, heard, newest>>

-----------------------------------------------------------------------------
(* The password prompt, and the reload it ends in.                         *)

\* async_step_reauth_confirm with the right password.  The dialog stays open
\* while cycles come and go.
PasswordGiven ==
  /\ prompt = "open"
  /\ newest < MaxSessions
  /\ newest' = newest + 1
  /\ entry' = [session |-> newest + 1, good |-> TRUE]
  /\ prompt' = "given"
  /\ UNCHANGED <<world, cycle, lan, sockets, heard, outcome, phase>>

\* async_shutdown closes the connection and the HTTP session with every socket
\* on it, a cycle in flight is cancelled, and a new coordinator is set up while
\* the dialog waits.
Reload ==
  /\ prompt = "given"
  /\ prompt' = "setup"
  /\ phase' = "setup"
  /\ cycle' = Idle
  /\ lan' = "none"
  /\ sockets' = 0
  /\ heard' = "nothing"
  /\ outcome' = "none"
  /\ UNCHANGED <<world, entry, newest>>

-----------------------------------------------------------------------------

CycleStep ==
  \/ BeginCycle \/ Connect \/ ConnectFails
  \/ \E reply \in {"ok", "rejected", "malformed", "incomplete", "transport"} : Answer(reply)
  \/ \E accepted \in BOOLEAN : Rotate(accepted)
  \/ RotateRefused \/ RotateFails

Next ==
  \/ JwtExpires \/ SessionRevoked \/ NetworkChanges \/ ConnectionDrops
  \/ CycleStep
  \/ PasswordGiven \/ Reload

Spec == Init /\ [][Next]_vars

\* A cycle starts every 30 seconds, but none is planned after one that asked for the
\* password; every await of a cycle has a timeout.
PlannedStep == CycleStep /\ (cycle.pc = "idle" => ~AsksForPassword)
FairSpec == Spec /\ WF_vars(PlannedStep) /\ WF_vars(Reload)

-----------------------------------------------------------------------------
(* Properties.                                                             *)

\* Types; and a cycle renews the JWT once.
TypeOK ==
  /\ entry \in [session : 0..MaxSessions, good : BOOLEAN]
  /\ revoked \subseteq 1..MaxSessions
  /\ online \in BOOLEAN
  /\ cycle \in [pc : {"idle", "connect", "auth", "rotate"}, good : BOOLEAN,
                session : 0..MaxSessions, fresh : BOOLEAN]
  /\ cycle.pc = "rotate" => ~cycle.fresh
  /\ lan \in {"none", "open", "closed"}
  /\ sockets \in Nat
  /\ heard \in {"nothing", "ok", "rejected", "malformed", "incomplete", "transport"}
  /\ outcome \in {"none", "ok", "failed", "missing", "refused", "rejected"}
  /\ phase \in {"setup", "loaded", "rejected"}
  /\ prompt \in {"none", "open", "given", "setup"}
  /\ newest \in 0..MaxSessions
  /\ events \in 0..MaxEvents

\* Every open WebSocket is the coordinator's connection or belongs to the cycle
\* in flight: none is left behind, whichever way a handshake ends.
NoSocketLeftBehind ==
  sockets = (IF lan = "open" THEN 1 ELSE 0) + (IF cycle.pc = "auth" THEN 1 ELSE 0)

\* Gigya is asked for a JWT, and the user for a password, only after something at the
\* machine's address has answered the last AUTH frame with an object that is not OK:
\* no timeout, reset or garbled frame does either (H-daedalus-2: no "unbounded Gigya
\* refresh storm" on a flaky link).
EscalationNeedsAnswer ==
  cycle.pc = "rotate" \/ AsksForPassword => heard \in {"rejected", "incomplete"}

\* Claim (connect_lan: a "garbled / incomplete reply" of "a rebooting machine or any
\* service on port 443" does not open "a reauth flow the user cannot act on"): it
\* takes a machine that has rejected the JWT.
EscalationNeedsRejection ==
  cycle.pc = "rotate" \/ AsksForPassword => heard = "rejected"

\* The session token of the last login stays in the entry, even when a cycle
\* that began before it stores the JWT it got with the old one.
LoginKept == entry.session = newest

\* If everything answers and the machine goes on rejecting the JWT, the user is
\* asked for the password in the end and the dialog stays; no cycle fails in
\* silence for ever.  Excepted is an entry that was rejected in the setup a dialog
\* waited for.
RejectionReachesUser ==
  <>[](online /\ lan # "open" /\ ~entry.good)
    => <>[](prompt = "open" \/ (phase = "rejected" /\ prompt = "none"))

\* Claim (_ensure_connected: "so the user is prompted for the password again instead
\* of failing silently every 30 s"): an entry that was rejected has its prompt.
RejectedIsPrompted == phase = "rejected" => prompt # "none"

\* Claim (CHANGELOG.md: "When the session token is revoked [...] the user is
\* asked for the password only at that point"): what Gigya refuses is asked of
\* the user only when the token is revoked.
PasswordOnlyWhenRevoked ==
  outcome = "refused" => entry.session \in revoked \/ prompt = "given"

=============================================================================
