------------------------------- MODULE Entries -------------------------------
(***************************************************************************)
(* The config entries of one account, one for each of its machines: the    *)
(* setup and unloading of an entry (__init__.py), the dialogs that add one *)
(* or ask for its password anew (config_flow.py), the services that the    *)
(* entries share, and the work that is in flight meanwhile: a poll cycle   *)
(* (Coordinator) or a service call (Brewing, Baseline) of the entry.       *)
(* Every function gives way where it waits for the executor, the LAN       *)
(* server or Home Assistant.                                               *)
(*                                                                         *)
(* External: Home Assistant sets up, unloads and reloads an entry one at a *)
(* time under its lock, retries a setup that was not ready, opens one      *)
(* password dialog at a time for an entry, and stops planning polls once   *)
(* its platforms are unloaded; a poll under way goes on.                   *)
(***************************************************************************)
EXTENDS Naturals, Sequences, SequencesExt

CONSTANTS
  Entry,        \* the entries there can be
  Watched,      \* the ones whose client, polls, calls and dialog are followed: these
                \* are an entry's own, and the other entries have no part in them
  Machine,      \* the coffee machines of the account
  Flow,         \* the dialogs that add an entry
  NoMachine,    \* of an entry that does not exist
  MaxChanges,   \* bound on changes of the account's password
  MaxFaults     \* bound on failures of the network and of unloading

ASSUME EntriesAssumption ==
  /\ Watched \subseteq Entry
  /\ NoMachine \notin Machine
  /\ {MaxChanges, MaxFaults} \subseteq Nat

VARIABLES
  machine,    \* entry.data["dsn"]
  stored,     \* whether entry.data[CONF_PASSWORD] is the account's
  phase,      \* where an entry is in its setup or unloading
  next,       \* what follows the unloading
  client,     \* its API client and coordinator: the session, the LAN server
  data,       \* the entries in hass.data[DOMAIN], in their order
  services,   \* whether the services are registered
  work,       \* the poll cycles and service calls in flight on the client
  disturbed,  \* whether there were any while the client was being closed
  reauth,     \* the password dialog of an entry
  flow,       \* the dialogs that add an entry: see Form
  changes, faults

setupVars == <<machine, stored, phase, next, client, data, services, work, disturbed>>
bounds == <<changes, faults>>
vars == <<setupVars, reauth, flow, bounds>>

NoClient == [session |-> FALSE, lan |-> FALSE, tried |-> FALSE]
Form == [pc |-> "form", valid |-> TRUE, found |-> {}]
AtRest == {"retry", "rejected", "loaded", "stuck"}
Phase ==
  AtRest \cup {"notLoaded", "again", "setup", "forward", "stopLan", "close", "platforms"}

Init ==
  /\ machine = [e \in Entry |-> NoMachine]
  /\ stored = [e \in Entry |-> TRUE]
  /\ phase = [e \in Entry |-> "notLoaded"]
  /\ next = [e \in Entry |-> "nothing"]
  /\ client = [e \in Entry |-> NoClient]
  /\ data = <<>>
  /\ services = FALSE
  /\ work = [e \in Entry |-> "none"]
  /\ disturbed = [e \in Entry |-> FALSE]
  /\ reauth = [e \in Entry |-> "none"]
  /\ flow = [f \in Flow |-> Form]
  /\ changes = 0
  /\ faults = 0

Exists(e) == machine[e] # NoMachine
Goes(e, to) == phase' = [phase EXCEPT ![e] = to]
Fault == faults < MaxFaults /\ faults' = faults + 1

-----------------------------------------------------------------------------
(* async_setup_entry.                                                      *)

Opened(e, tried, lan) ==
  IF e \in Watched THEN [session |-> TRUE, lan |-> lan, tried |-> tried] ELSE NoClient

\* A new API client.
StartSetup(e) ==
  /\ phase[e] \in {"again", "retry"}
  /\ Goes(e, "setup")
  /\ client' = [client EXCEPT ![e] = Opened(e, FALSE, FALSE)]
  /\ UNCHANGED <<machine, stored, next, data, services, work, disturbed, reauth, flow, bounds>>

MutAsk(e) == UNCHANGED reauth

\* ConfigEntryAuthFailed: Home Assistant asks for the password, unless it does.
Ask(e) ==
  reauth' = [reauth EXCEPT ![e] = IF @ = "none" /\ e \in Watched THEN "form" ELSE @]

\* By authenticate or by the first refresh. The client of a setup that fails is
\* dropped; nothing closes it.
SetupRejected(e) ==
  /\ phase[e] = "setup"
  /\ ~stored[e]
  /\ Goes(e, "rejected")
  /\ Ask(e)
  /\ client' = [client EXCEPT ![e] = NoClient]
  /\ UNCHANGED <<machine, stored, next, data, services, work, disturbed, flow, bounds>>

\* ConfigEntryNotReady, by either.
NotReady(e) ==
  /\ phase[e] = "setup"
  /\ Goes(e, "retry")
  /\ client' = [client EXCEPT ![e] = NoClient]
  /\ Fault
  /\ UNCHANGED <<machine, stored, next, data, services, work, disturbed, reauth, flow, changes>>

\* authenticate and the first refresh, which may start the LAN server, succeeded, the
\* device info was fetched or not, and the entry takes its place in hass.data.
FirstRefresh(e) ==
  /\ phase[e] = "setup"
  /\ stored[e]
  /\ \E tried, lan \in BOOLEAN :
       /\ lan => tried
       /\ client' = [client EXCEPT ![e] = Opened(e, tried, lan)]
  /\ data' = Append(data, e)
  /\ Goes(e, "forward")
  /\ UNCHANGED <<machine, stored, next, services, work, disturbed, reauth, flow, bounds>>

\* The platforms are set up, then _register_services.
Forwarded(e) ==
  /\ phase[e] = "forward"
  /\ Goes(e, "loaded")
  /\ services' = TRUE
  /\ UNCHANGED <<machine, stored, next, client, data, work, disturbed, reauth, flow, bounds>>

-----------------------------------------------------------------------------
(* async_unload_entry.                                                     *)

Unloaded(to) == IF to = "reload" THEN "again" ELSE "notLoaded"

\* An entry that is removed is no more.
Leaves(e, to) ==
  /\ machine' = [machine EXCEPT ![e] = IF to = "remove" THEN NoMachine ELSE @]
  /\ stored' = [stored EXCEPT ![e] = @ \/ to = "remove"]

StartUnload(e, to) ==
  /\ phase[e] = "loaded"
  /\ Goes(e, "stopLan")
  /\ next' = [next EXCEPT ![e] = to]
  /\ disturbed' = [disturbed EXCEPT ![e] = work[e] # "none"]
  /\ UNCHANGED <<machine, stored>>

\* The integration has no part in unloading an entry whose setup failed.
Skip(e, to) ==
  /\ phase[e] \in {"retry", "rejected"}
  /\ Goes(e, Unloaded(to))
  /\ Leaves(e, to)
  /\ UNCHANGED <<next, disturbed>>

\* Home Assistant reloads the entry, or removes it.
Unload(e, to) ==
  /\ StartUnload(e, to) \/ Skip(e, to)
  /\ UNCHANGED <<client, data, services, work, flow, bounds>>

UserReloads(e) == Unload(e, "reload") /\ UNCHANGED reauth

\* The dialog of the entry goes with it.
UserRemoves(e) ==
  /\ reauth[e] \in {"none", "form"}
  /\ Unload(e, "remove")
  /\ reauth' = [reauth EXCEPT ![e] = "none"]

MutStopLan(e) == UNCHANGED client
StopLan(e) == client' = [client EXCEPT ![e].lan = FALSE]

LanStopped(e) ==
  /\ phase[e] = "stopLan"
  /\ StopLan(e)
  /\ Goes(e, "close")
  /\ UNCHANGED <<machine, stored, next, data, services, work, disturbed, reauth, flow, bounds>>

ClientClosed(e) ==
  /\ phase[e] = "close"
  /\ client' = [client EXCEPT ![e].session = FALSE]
  /\ Goes(e, "platforms")
  /\ UNCHANGED <<machine, stored, next, data, services, work, disturbed, reauth, flow, bounds>>

Without(e) == RemoveAt(data, CHOOSE i \in DOMAIN data : data[i] = e)

MutOthersLoaded(e) == \E d \in Entry \ {e} : phase[d] = "loaded"
OthersLoaded(e) == Without(e) # <<>>

\* The platforms are unloaded; what is in flight goes on with the old client.
PlatformsUnloaded(e) ==
  /\ phase[e] = "platforms"
  /\ data' = Without(e)
  /\ services' = (services /\ OthersLoaded(e))
  /\ Goes(e, Unloaded(next[e]))
  /\ next' = [next EXCEPT ![e] = "nothing"]
  /\ client' = [client EXCEPT ![e] = NoClient]
  /\ work' = [work EXCEPT ![e] = "none"]
  /\ disturbed' = [disturbed EXCEPT ![e] = FALSE]
  /\ Leaves(e, next[e])
  /\ reauth' = [reauth EXCEPT ![e] = IF next[e] = "remove" THEN "none" ELSE @]
  /\ UNCHANGED <<flow, bounds>>

\* A platform does not unload: the entry keeps its place, with a closed client,
\* until Home Assistant is restarted.
PlatformStays(e) ==
  /\ phase[e] = "platforms"
  /\ Goes(e, "stuck")
  /\ next' = [next EXCEPT ![e] = "nothing"]
  /\ Fault
  /\ UNCHANGED <<machine, stored, client, data, services, work, disturbed, reauth, flow, changes>>

-----------------------------------------------------------------------------
(* Work in flight.                                                         *)

Running(e) == phase[e] \in {"loaded", "stopLan", "close", "platforms"}
Unloading(e) == phase[e] \in {"stopLan", "close", "platforms"}

Takes(e, kind) ==
  /\ e \in Watched
  /\ work[e] = "none"
  /\ work' = [work EXCEPT ![e] = kind]
  /\ disturbed' = [disturbed EXCEPT ![e] = @ \/ Unloading(e)]
  /\ client' = [client EXCEPT ![e].session = TRUE]
  /\ UNCHANGED <<machine, stored, phase, next, data, services, reauth, flow, bounds>>

\* Polls are planned until the platforms are unloaded.
StartCycle(e) == Running(e) /\ Takes(e, "cycle")

\* The cycle ends; a full refresh has tried to start the LAN server, once. With a
\* password that is no longer the account's it may end in ConfigEntryAuthFailed.
EndCycle(e) ==
  /\ work[e] = "cycle"
  /\ work' = [work EXCEPT ![e] = "none"]
  /\ \E lan \in BOOLEAN :
       client' = [client EXCEPT ![e].session = TRUE,
                                ![e].tried = TRUE,
                                ![e].lan = @ \/ (lan /\ ~client[e].tried)]
  /\ UNCHANGED reauth \/ (~stored[e] /\ Ask(e))
  /\ UNCHANGED <<machine, stored, phase, next, data, services, disturbed, flow, bounds>>

\* _resolve_target: the entry that the call names, or else the first.
Target(named) == IF named \in ToSet(data) THEN named ELSE Head(data)

\* A service call takes the client of its target to the executor.
ServiceCall(named) ==
  /\ services
  /\ data # <<>>
  /\ Takes(Target(named), "call")

EndCall(e) ==
  /\ work[e] = "call"
  /\ work' = [work EXCEPT ![e] = "none"]
  /\ client' = [client EXCEPT ![e].session = TRUE]
  /\ UNCHANGED <<machine, stored, phase, next, data, services, disturbed, reauth, flow, bounds>>

-----------------------------------------------------------------------------
(* The dialogs of config_flow.py.                                          *)

Step(f, to) == flow' = [flow EXCEPT ![f] = to]

\* async_step_user: the form is filled in, and with a wrong password shown again; the
\* client of the dialog is closed whichever way the step ends.
Submit(f) ==
  /\ flow[f].pc = "form"
  /\ Step(f, [Form EXCEPT !.pc = "login"])
  /\ UNCHANGED <<setupVars, reauth, bounds>>

\* An error shows the form again.
LoginFails(f) ==
  /\ flow[f].pc = "login"
  /\ \/ ~flow[f].valid /\ UNCHANGED faults
     \/ Fault
  /\ Step(f, Form)
  /\ UNCHANGED <<setupVars, reauth, changes>>

\* _abort_if_unique_id_configured.
MutConfigured(m) == \E e \in ToSet(data) : machine[e] = m
Configured(m) == \E e \in Entry : machine[e] = m

\* The entry that is created is set up at once.
Create(f, m) ==
  /\ \E e \in Entry : ~Exists(e)
  /\ LET e == CHOOSE d \in Entry : ~Exists(d) IN
       /\ machine' = [machine EXCEPT ![e] = m]
       /\ stored' = [stored EXCEPT ![e] = flow[f].valid]
       /\ Goes(e, "again")
  /\ UNCHANGED <<next, client, data, services, work, disturbed>>

\* Of a machine that is configured already, the dialog is aborted; in the first
\* step that is caught with the other exceptions and shown in the form.
Finish(f, m) ==
  /\ IF Configured(m) THEN UNCHANGED setupVars ELSE Create(f, m)
  /\ Step(f, Form)

\* The coffee machines that the account has at the moment.
LoggedIn(f) ==
  /\ flow[f].pc = "login"
  /\ flow[f].valid
  /\ \E found \in SUBSET Machine :
       \/ found = {} /\ Step(f, Form) /\ UNCHANGED setupVars
       \/ \E m \in Machine : found = {m} /\ Finish(f, m)
       \/ /\ \E m, n \in found : m # n
          /\ Step(f, [flow[f] EXCEPT !.pc = "pick", !.found = found])
          /\ UNCHANGED setupVars
  /\ UNCHANGED <<reauth, bounds>>

\* async_step_select_device.
Pick(f) ==
  /\ flow[f].pc = "pick"
  /\ \E m \in flow[f].found : Finish(f, m)
  /\ UNCHANGED <<reauth, bounds>>

Dialog(e, from, to) ==
  /\ reauth[e] = from
  /\ reauth' = [reauth EXCEPT ![e] = to]

\* async_step_reauth_confirm: the password is given, and authenticate called; with a
\* wrong one that comes back to the form.
Give(e) ==
  /\ Dialog(e, "form", "login")
  /\ UNCHANGED <<setupVars, flow, bounds>>

GivenFails(e) ==
  /\ Dialog(e, "login", "form")
  /\ Fault
  /\ UNCHANGED <<setupVars, flow, changes>>

GivenAccepted(e) ==
  /\ Dialog(e, "login", "reload")
  /\ stored' = [stored EXCEPT ![e] = TRUE]
  /\ UNCHANGED <<machine, phase, next, client, data, services, work, disturbed, flow, bounds>>

\* async_reload, which waits for the entry's lock; an entry that is stuck cannot be
\* reloaded, and the form says so.
ReauthReload(e) ==
  \/ Dialog(e, "reload", "reloading") /\ Unload(e, "reload")
  \/ /\ phase[e] = "stuck"
     /\ Dialog(e, "reload", "form")
     /\ UNCHANGED <<setupVars, flow, bounds>>

\* The reload is over, whatever it came to, and so is the dialog.
ReauthDone(e) ==
  /\ phase[e] \in AtRest
  /\ Dialog(e, "reloading", "none")
  /\ UNCHANGED <<setupVars, flow, bounds>>

\* The account's password is changed; one that is being checked is the old one.
PasswordChanged ==
  /\ changes < MaxChanges
  /\ changes' = changes + 1
  /\ stored' = [e \in Entry |-> ~Exists(e)]
  /\ flow' = [f \in Flow |-> [flow[f] EXCEPT !.valid = @ /\ flow[f].pc = "form"]]
  /\ reauth' = [e \in Entry |-> IF reauth[e] = "login" THEN "form" ELSE reauth[e]]
  /\ UNCHANGED <<machine, phase, next, client, data, services, work, disturbed, faults>>

-----------------------------------------------------------------------------

Setup(e) ==
  StartSetup(e) \/ SetupRejected(e) \/ FirstRefresh(e) \/ Forwarded(e)
Unloads(e) == LanStopped(e) \/ ClientClosed(e) \/ PlatformsUnloaded(e)
Reauth(e) == GivenAccepted(e) \/ ReauthDone(e)

Next ==
  \/ \E e \in Entry :
       \/ Setup(e) \/ NotReady(e)
       \/ Unloads(e) \/ PlatformStays(e) \/ UserReloads(e) \/ UserRemoves(e)
       \/ StartCycle(e) \/ EndCycle(e) \/ ServiceCall(e) \/ EndCall(e)
       \/ Give(e) \/ GivenFails(e) \/ Reauth(e) \/ ReauthReload(e)
  \/ \E f \in Flow : Submit(f) \/ LoginFails(f) \/ LoggedIn(f) \/ Pick(f)
  \/ PasswordChanged

Spec == Init /\ [][Next]_vars

\* Coroutines go on, a lock that is asked for is given in turn, and a user who is
\* shown the dialog again and again gives the right password in the end.
FairSpec ==
  /\ Spec
  /\ \A e \in Watched :
       /\ WF_vars(Setup(e)) /\ WF_vars(Unloads(e)) /\ WF_vars(Reauth(e))
       /\ SF_vars(Give(e)) /\ SF_vars(ReauthReload(e))

-----------------------------------------------------------------------------
(* Properties.                                                             *)

\* Every variable stays in its range (type invariant).
TypeOK ==
  /\ machine \in [Entry -> Machine \cup {NoMachine}]
  /\ stored \in [Entry -> BOOLEAN]
  /\ phase \in [Entry -> Phase]
  /\ next \in [Entry -> {"nothing", "reload", "remove"}]
  /\ client \in [Entry -> [session : BOOLEAN, lan : BOOLEAN, tried : BOOLEAN]]
  /\ data \in Seq(Entry)
  /\ services \in BOOLEAN
  /\ work \in [Entry -> {"none", "cycle", "call"}]
  /\ disturbed \in [Entry -> BOOLEAN]
  /\ reauth \in [Entry -> {"none", "form", "login", "reload", "reloading"}]
  /\ flow \in [Flow -> [pc : {"form", "login", "pick"}, valid : BOOLEAN,
                         found : SUBSET Machine]]
  /\ changes \in Nat /\ faults \in Nat

Registered(e) == phase[e] \in {"loaded", "stopLan", "close", "platforms", "stuck"}

\* The services are there as long as an entry that was set up is, and go with the
\* last one, however setups and unloads of several entries overlap.
ServicesMatchEntries ==
  /\ services => data # <<>>
  /\ \A e \in Entry : Registered(e) => services /\ e \in ToSet(data)

\* When an entry is done unloading, neither its session nor its LAN server is left
\* open, if no poll and no service call of it was under way meanwhile.
NothingLeftBehind ==
  \A e \in Entry :
    phase[e] = "platforms" /\ ~disturbed[e] => ~client[e].session /\ ~client[e].lan

\* No machine has two entries, whatever dialogs are open side by side and whether
\* or not the entry there is could be set up.
OneEntryPerMachine ==
  \A d, e \in Entry : d # e /\ Exists(d) => machine[d] # machine[e]

\* An entry whose password is refused, in its setup or in a poll, is working again
\* in the end, unless the user removes it or a platform of it cannot be unloaded.
RejectedRecovers ==
  \A e \in Watched :
    phase[e] = "rejected" \/ reauth[e] # "none" ~>
      (phase[e] = "loaded" /\ stored[e]) \/ phase[e] = "stuck" \/ ~Exists(e)

\* Claim (__init__.py: "reload must not leak sockets (audit M3)", "Stop LAN server
\* before cleaning up"): the same without the condition.
NothingLeftAtAll ==
  \A e \in Entry : phase[e] = "platforms" => ~client[e].session /\ ~client[e].lan

\* Claim (config_flow.py: "Handle reauth when credentials become invalid"): an entry
\* that was rejected has its dialog. With a second change of the password between
\* the login of the dialog and that of the reload it has none.
RejectedIsAsked == \A e \in Watched : phase[e] = "rejected" => reauth[e] # "none"

\* Claim (__init__.py: "Honors config_entry_id in call data when present"): a call
\* that names an entry is served by it. While that entry is being reloaded, it goes
\* to the first of the others.
NamedIsServed ==
  [][\A e \in Entry :
       ServiceCall(e) => \A d \in Entry : work'[d] = "call" /\ work[d] = "none" => d = e]_vars

=============================================================================
