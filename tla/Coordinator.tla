----------------------------- MODULE Coordinator -----------------------------
(***************************************************************************)
(* The polling cycle of DeLonghiCoordinator,                               *)
(* custom_components/delonghi_coffee/coordinator.py: one run of            *)
(* _async_update_data is cut where it awaits, and between two awaits the   *)
(* event loop may run a LAN callback, a service call or the unloading of   *)
(* the entry.  The base class of Home Assistant is external: it runs one   *)
(* cycle at a time, plans the next one update_interval after the end of    *)
(* the last, and plans afresh on async_set_updated_data.                   *)
(*                                                                         *)
(* A monitor frame is a number and the state it reports: the machine       *)
(* stamps its frames, so no two are equal.  Frame 0 is none.               *)
(***************************************************************************)
EXTENDS Naturals

CONSTANTS
  ScanInterval, ActiveInterval, FastInterval,  \* poll intervals
  FullInterval,      \* FULL_REFRESH_INTERVAL
  Keepalive,         \* MQTT_KEEPALIVE_INTERVAL
  StaleTimeout,      \* MONITOR_STALE_TIMEOUT
  FastWindow,        \* duration of a fast-poll window
  RetryMax,          \* CONTENTSTACK_RETRY_MAX
  CycleMax,          \* how long a cycle may take
  StartTimes,        \* time.monotonic() when the integration starts
  States,            \* machine states the frames of a run report
  Profiles,          \* profile numbers the monitor reports, 0 for none
  LanPossible,       \* the cloud says the machine has a LAN key
  MayUnload,         \* the entry may be unloaded
  MaxTime,           \* bound on the clock
  MaxFrames,         \* bound on monitor frames
  MaxPushes,         \* bound on LAN datapoints
  MaxRequests,       \* bound on fast-poll requests and profile selections
  MaxFaults          \* bound on failed exchanges

ASSUME CoordinatorAssumption ==
  /\ {ScanInterval, ActiveInterval, FastInterval} \subseteq Nat \ {0}
  /\ FastInterval <= ScanInterval /\ ActiveInterval <= ScanInterval
  /\ FastWindow \in Nat \ {0}
  /\ {FullInterval, Keepalive, StaleTimeout, RetryMax, CycleMax, MaxTime,
      MaxFrames, MaxPushes, MaxRequests, MaxFaults} \subseteq Nat
  /\ StartTimes \subseteq Nat /\ Profiles \subseteq Nat
  /\ {LanPossible, MayUnload} \subseteq BOOLEAN

VARIABLES
  now,              \* time.monotonic()
  phase,            \* of the config entry
  rejected,         \* a cycle ended in DeLonghiAuthError
  pc,               \* where the cycle awaits
  began,            \* its local now
  needFull,         \* its local need_full
  reading,          \* its local status
  nextDue,          \* when the next cycle is planned, Never if it is not
  requested,        \* a refresh has been requested
  success,          \* last_update_success
  interval,         \* update_interval
  fastUntil,        \* _fast_poll_until, 0 for None
  activePolling,
  lastFull, lastKeepalive, keepaliveFailures,
  lastRaw,          \* _last_monitor_raw
  lastChanged,      \* _monitor_last_changed
  shown,            \* data["machine_state"]
  selectedProfile,  \* 0 for None
  lanConfig, lanServer, lanActive, registrations,
  csLoaded, csFailures, csNextRetry,
  frame,            \* the monitor datapoint the cloud holds
  firstRead,        \* when the frame lastGood was first read
  lastGood,         \* the last frame a cycle published
  fullAt,           \* when a full refresh was last published
  lastPing,         \* when a ping was last tried
  chosen,           \* the profile the user selected last, 0 for none
  pushes, lastPush, \* LAN datapoints, and when the last one came
  requests,
  faults, lastFault \* failed exchanges, and when the last one was

cycleVars == <<pc, began, needFull, reading>>
planVars == <<nextDue, requested, success>>
intervalVars == <<interval, fastUntil, activePolling>>
refreshVars == <<lastFull, lastKeepalive, keepaliveFailures>>
monitorVars == <<lastRaw, lastChanged, shown, firstRead, lastGood, fullAt>>
lanVars == <<lanConfig, lanServer, lanActive, registrations>>
csVars == <<csLoaded, csFailures, csNextRetry>>
profileVars == <<selectedProfile, chosen>>
pushVars == <<pushes, lastPush>>
faultVars == <<faults, lastFault>>
countVars == <<pushVars, requests, faultVars>>
vars == <<now, phase, rejected, cycleVars, planVars, intervalVars, refreshVars,
          monitorVars, lanVars, csVars, profileVars, lastPing, frame, countVars>>

Never == MaxTime + ScanInterval + 1
NoReading == [n |-> 0, state |-> "Unknown", run |-> FALSE]
Busy == pc # "idle"

\* ACTIVE_MACHINE_STATES, as far as the frames of a run go.
IsTransient(state) == state \in {"Brewing", "Turning On"}

Init ==
  /\ now \in StartTimes
  /\ phase = "setup"
  /\ rejected = FALSE
  /\ pc = "idle"
  /\ began = now
  /\ needFull = FALSE
  /\ reading = NoReading
  /\ nextDue = now
  /\ requested = FALSE
  /\ success = TRUE
  /\ interval = ScanInterval
  /\ fastUntil = 0
  /\ activePolling = FALSE
  /\ lastFull = 0 /\ lastKeepalive = 0 /\ keepaliveFailures = 0
  /\ lastRaw = NoReading
  /\ lastChanged = now
  /\ shown = "none"
  /\ selectedProfile = 0
  /\ lanConfig = "none" /\ lanServer = FALSE /\ lanActive = FALSE
  /\ registrations = 0
  /\ csLoaded = FALSE /\ csFailures = 0 /\ csNextRetry = 0
  /\ frame \in [n : {1}, state : States]
  /\ firstRead = now
  /\ lastGood = 0
  /\ fullAt = now
  /\ lastPing = now
  /\ chosen = 0
  /\ pushes = 0 /\ requests = 0 /\ faults = 0
  /\ lastPush = now /\ lastFault = now

-----------------------------------------------------------------------------
(* The world: the clock, the machine, the fast-poll and LAN callbacks.     *)
(* After the last await of a cycle nothing comes between ("publish").      *)

LoopFree == pc # "publish"
Due == pc = "idle" /\ phase # "unloaded" /\ now >= nextDue

Tick ==
  /\ LoopFree
  /\ now < MaxTime
  /\ ~Due
  /\ Busy => now - began < CycleMax
  /\ now' = now + 1
  /\ UNCHANGED <<phase, rejected, cycleVars, planVars, intervalVars, refreshVars,
                 monitorVars, lanVars, csVars, profileVars, lastPing, frame, countVars>>

MonitorPushed(state) ==
  /\ frame.n < MaxFrames
  /\ frame' = [n |-> frame.n + 1, state |-> state]
  /\ UNCHANGED <<now, phase, rejected, cycleVars, planVars, intervalVars, refreshVars,
                 monitorVars, lanVars, csVars, profileVars, lastPing, countVars>>

Later(a, b) == IF a > b THEN a ELSE b

MutFastPoll ==
  /\ fastUntil' = Later(fastUntil, now + FastWindow)
  /\ interval' = FastInterval
  /\ UNCHANGED activePolling
FastPoll ==
  /\ fastUntil' = Later(fastUntil, now + FastWindow)
  /\ activePolling' = FALSE
  /\ interval' = FastInterval

Requests ==
  /\ LoopFree
  /\ phase = "loaded"
  /\ requests < MaxRequests
  /\ requests' = requests + 1
  /\ UNCHANGED <<pushVars, faultVars>>

\* async_refresh_after_command: a fast-poll window and a refresh at once.
RefreshAfterCommand ==
  /\ Requests
  /\ FastPoll
  /\ requested' = TRUE
  /\ UNCHANGED <<now, phase, rejected, cycleVars, nextDue, success, refreshVars,
                 monitorVars, lanVars, csVars, profileVars, lastPing, frame>>

\* The profile select entity, once the machine's cloud took the command.
SelectOption(pid) ==
  /\ Requests
  /\ selectedProfile' = pid
  /\ chosen' = pid
  /\ FastPoll
  /\ requested' = TRUE
  /\ UNCHANGED <<now, phase, rejected, cycleVars, nextDue, success, refreshVars,
                 monitorVars, lanVars, csVars, lastPing, frame>>

\* A datapoint on the LAN: async_set_updated_data plans the next cycle afresh,
\* drops a requested one and counts as a successful update.
OnLanProperty ==
  /\ LoopFree
  /\ phase = "loaded"
  /\ lanServer
  /\ pushes < MaxPushes
  /\ pushes' = pushes + 1
  /\ lastPush' = now
  /\ nextDue' = now + interval
  /\ requested' = FALSE
  /\ success' = TRUE
  /\ UNCHANGED <<now, phase, rejected, cycleVars, intervalVars, refreshVars, monitorVars,
                 lanVars, csVars, profileVars, lastPing, frame, requests, faultVars>>

-----------------------------------------------------------------------------
(* Top of the cycle, up to the read of the monitor property.               *)

FastExpired == fastUntil # 0 /\ now > fastUntil
FastAfter == IF FastExpired THEN 0 ELSE fastUntil
IntervalBase == IF FastExpired THEN ScanInterval ELSE interval

AdaptInterval ==
  /\ fastUntil' = FastAfter
  /\ \/ /\ IsTransient(shown) /\ ~activePolling /\ FastAfter = 0
        /\ activePolling' = TRUE
        /\ interval' = ActiveInterval
     \/ /\ ~IsTransient(shown) /\ activePolling
        /\ activePolling' = FALSE
        /\ interval' = IF FastAfter = 0 THEN ScanInterval ELSE IntervalBase
     \/ /\ IsTransient(shown) => activePolling \/ FastAfter # 0
        /\ IsTransient(shown) \/ ~activePolling
        /\ interval' = IntervalBase
        /\ UNCHANGED activePolling

NeedsFull == now - lastFull >= FullInterval

MutBeginCycle ==
  /\ pc = "idle"
  /\ phase \in {"setup", "loaded"}
  /\ now >= nextDue \/ requested
  /\ AdaptInterval
  /\ began' = now
  /\ needFull' = NeedsFull
  /\ lastFull' = IF NeedsFull THEN now ELSE lastFull
  /\ pc' = "status"
  /\ nextDue' = Never
  /\ requested' = FALSE
  /\ UNCHANGED <<now, phase, rejected, reading, success, lastKeepalive,
                 keepaliveFailures, monitorVars, lanVars, csVars, profileVars, lastPing,
                 frame, countVars>>
BeginCycle ==
  /\ pc = "idle"
  /\ phase \in {"setup", "loaded"}
  /\ now >= nextDue \/ requested
  /\ AdaptInterval
  /\ began' = now
  /\ needFull' = NeedsFull
  /\ pc' = "status"
  /\ nextDue' = Never
  /\ requested' = FALSE
  /\ UNCHANGED <<now, phase, rejected, reading, success, refreshVars, monitorVars, lanVars,
                 csVars, profileVars, lastPing, frame, countVars>>

NeedsKeepalive == began - lastKeepalive >= Keepalive

\* Where the cycle goes with its reading.
MutAfterStatus == IF needFull THEN "props"
                  ELSE IF NeedsKeepalive THEN "keepalive" ELSE "publish"
AfterStatus == IF needFull THEN "wake"
               ELSE IF NeedsKeepalive THEN "keepalive" ELSE "publish"

Fault == faults < MaxFaults /\ faults' = faults + 1 /\ lastFault' = now

MutSeedProfile(monitor) ==
  selectedProfile' = IF monitor > 0 THEN monitor ELSE selectedProfile
SeedProfile(monitor) ==
  selectedProfile' = IF selectedProfile = 0 THEN monitor ELSE selectedProfile

\* run: the cloud reports the machine's session alive (status RUN, not SYNC).
StatusRead(run, monitorProfile) ==
  /\ pc = "status"
  /\ reading' = [n |-> frame.n, state |-> frame.state, run |-> run]
  /\ SeedProfile(monitorProfile)
  /\ pc' = AfterStatus
  /\ UNCHANGED <<now, phase, rejected, began, needFull, planVars, intervalVars, refreshVars,
                 monitorVars, lanVars, csVars, chosen, lastPing, frame, countVars>>

\* get_status swallows the DeLonghiApiError that _retry makes of a transport
\* failure: the cycle goes on with defaults.
StatusSwallowed ==
  /\ pc = "status"
  /\ Fault
  /\ reading' = NoReading
  /\ pc' = AfterStatus
  /\ UNCHANGED <<now, phase, rejected, began, needFull, planVars, intervalVars, refreshVars,
                 monitorVars, lanVars, csVars, profileVars, lastPing, frame,
                 pushVars, requests>>

-----------------------------------------------------------------------------
(* Ends of a cycle.                                                        *)

\* The base class plans the next cycle, unless the entry is gone.
Planned == IF phase = "unloaded" THEN Never ELSE now + interval

\* UpdateFailed; in setup, ConfigEntryNotReady and a new coordinator later.
CycleFails(due) ==
  /\ pc' = "idle"
  /\ success' = FALSE
  /\ nextDue' = due
  /\ phase' = IF phase = "setup" THEN "failed" ELSE phase
  /\ reading' = NoReading
  /\ UNCHANGED <<now, began, needFull, requested, intervalVars,
                 monitorVars, csVars, profileVars, frame, pushVars, requests>>

\* DeLonghiAuthError where it is not caught: no further cycle is planned.
AuthFails ==
  /\ pc \in {"status", "props", "lanconfig"}
  /\ Fault
  /\ rejected' = TRUE
  /\ CycleFails(Never)
  /\ UNCHANGED <<refreshVars, lanVars, lastPing>>

\* get_properties out of retries.
PropsFail ==
  /\ pc = "props"
  /\ Fault
  /\ CycleFails(Planned)
  /\ UNCHANGED <<rejected, refreshVars, lanVars, lastPing>>

\* ping_connected has no _retry: its transport failures are RequestExceptions,
\* which only the last-resort guard of the cycle catches.
PingRaises ==
  /\ pc \in {"keepalive", "wake"}
  /\ Fault
  /\ lastPing' = now
  /\ CycleFails(Planned)
  /\ UNCHANGED <<rejected, refreshVars, lanVars>>

Unchanged == reading.n # 0 /\ reading.n = lastRaw.n
MutLastChangedAfter == IF reading.state = lastRaw.state THEN lastChanged ELSE now
LastChangedAfter == IF Unchanged THEN lastChanged ELSE now
\* stale_duration > timeout, where lastChanged may lie after the cycle's now.
TimedOut == began > LastChangedAfter + StaleTimeout

Overridden == TimedOut /\ reading.run /\ reading.state \notin {"Unknown", "Off"}

Publish ==
  /\ pc = "publish"
  /\ pc' = "idle"
  /\ lastRaw' = [reading EXCEPT !.run = FALSE]
  /\ reading' = NoReading
  /\ lastChanged' = LastChangedAfter
  /\ shown' = IF Overridden THEN "Off" ELSE reading.state
  /\ lastGood' = IF reading.n = 0 THEN lastGood ELSE reading.n
  /\ firstRead' = IF reading.n \in {0, lastGood} THEN firstRead ELSE now
  /\ fullAt' = IF needFull THEN now ELSE fullAt
  /\ success' = TRUE
  /\ nextDue' = Planned
  /\ phase' = IF phase = "setup" THEN "loaded" ELSE phase
  /\ UNCHANGED <<now, rejected, began, needFull, requested, intervalVars,
                 refreshVars, lanVars, csVars, profileVars, lastPing, frame, countVars>>

-----------------------------------------------------------------------------
(* Keepalive, and the full refresh: ping, properties, LAN, catalog.        *)

\* The ping, or request_monitor where the model has no ping property.
Pinged ==
  /\ pc \in {"keepalive", "wake"}
  /\ lastPing' = now
  /\ IF pc = "wake"
     THEN pc' = "props" /\ UNCHANGED <<lastKeepalive, keepaliveFailures>>
     ELSE pc' = "publish" /\ lastKeepalive' = began /\ keepaliveFailures' = 0
  /\ UNCHANGED <<now, phase, rejected, began, needFull, reading, planVars, intervalVars,
                 lastFull, monitorVars, lanVars, csVars, profileVars, frame, countVars>>

\* The cloud refuses: the keepalive counts it, the full refresh goes on.
PingRefused ==
  /\ pc \in {"keepalive", "wake"}
  /\ Fault
  /\ lastPing' = now
  /\ IF pc = "wake"
     THEN pc' = "props" /\ UNCHANGED keepaliveFailures
     ELSE pc' = "publish" /\ keepaliveFailures' = keepaliveFailures + 1
  /\ UNCHANGED <<now, phase, rejected, began, needFull, reading, planVars, intervalVars,
                 lastFull, lastKeepalive, monitorVars, lanVars, csVars, profileVars,
                 frame, pushVars, requests>>

CatalogDue == ~csLoaded /\ began >= csNextRetry

\* The end of the full refresh.
FullRefreshed ==
  /\ pc' = "publish"
  /\ lastFull' = began
  /\ lastKeepalive' = began
  /\ keepaliveFailures' = 0

\* Past the LAN: the catalog when it is due, else the end.
Onward == IF CatalogDue THEN pc' = "content" /\ UNCHANGED refreshVars ELSE FullRefreshed

PropsFetched ==
  /\ pc = "props"
  /\ IF lanConfig = "none" THEN pc' = "lanconfig" /\ UNCHANGED refreshVars ELSE Onward
  /\ UNCHANGED <<now, phase, rejected, began, needFull, reading, planVars, intervalVars,
                 monitorVars, lanVars, csVars, profileVars, lastPing, frame, countVars>>

\* get_lan_config: on failure too it returns a dictionary, one without a key,
\* which is kept and never fetched again.
LanConfigFetched(usable) ==
  /\ pc = "lanconfig"
  /\ usable => LanPossible
  /\ lanConfig' = IF usable THEN "on" ELSE "off"
  /\ IF usable THEN pc' = "lanstart" /\ UNCHANGED refreshVars ELSE Onward
  /\ UNCHANGED <<now, phase, rejected, began, needFull, reading, planVars, intervalVars,
                 monitorVars, lanServer, lanActive, registrations, csVars, profileVars,
                 lastPing, frame, countVars>>

\* server.start(): bound, or the failure is logged and nothing registered.
LanStarted(ok) ==
  /\ pc = "lanstart"
  /\ lanServer' = ok
  /\ IF ok THEN pc' = "register" /\ UNCHANGED <<refreshVars, faultVars>> ELSE Onward /\ Fault
  /\ UNCHANGED <<now, phase, rejected, began, needFull, reading, planVars, intervalVars,
                 monitorVars, lanConfig, lanActive, registrations, csVars, profileVars,
                 lastPing, frame, pushVars, requests>>

\* register_with_device.
LanRegistered(ok) ==
  /\ pc = "register"
  /\ lanActive' = ok
  /\ registrations' = registrations + 1
  /\ IF ok THEN UNCHANGED faultVars ELSE Fault
  /\ Onward
  /\ UNCHANGED <<now, phase, rejected, began, needFull, reading, planVars, intervalVars,
                 monitorVars, lanConfig, lanServer, csVars, profileVars, lastPing, frame,
                 pushVars, requests>>

Doubled(failures) == FullInterval * 2 ^ failures
MutBackoff(failures) == Doubled(failures)
Backoff(failures) == IF Doubled(failures) \in 0 .. RetryMax THEN Doubled(failures) ELSE RetryMax

ContentLoaded(ok) ==
  /\ pc = "content"
  /\ IF ok
     THEN csLoaded' = TRUE /\ csFailures' = 0 /\ csNextRetry' = 0 /\ UNCHANGED faultVars
     ELSE /\ Fault
          /\ csFailures' = csFailures + 1
          /\ csNextRetry' = now + Backoff(csFailures + 1)
          /\ UNCHANGED csLoaded
  /\ FullRefreshed
  /\ UNCHANGED <<now, phase, rejected, began, needFull, reading, planVars, intervalVars,
                 monitorVars, lanVars, profileVars, lastPing, frame, pushVars, requests>>

-----------------------------------------------------------------------------
(* async_unload_entry: async_stop_lan, then the base class shuts down; an  *)
(* executor call under way and the cycle that awaits it go on.             *)

Unload ==
  /\ MayUnload
  /\ LoopFree
  /\ phase = "loaded"
  /\ phase' = "unloaded"
  /\ lanServer' = FALSE
  /\ lanActive' = (lanActive /\ ~lanServer)
  /\ nextDue' = Never
  /\ requested' = FALSE
  /\ UNCHANGED <<now, rejected, cycleVars, success, intervalVars, refreshVars, monitorVars,
                 lanConfig, registrations, csVars, profileVars, lastPing, frame, countVars>>

-----------------------------------------------------------------------------

Answer ==
  \/ \E run \in BOOLEAN, p \in Profiles : StatusRead(run, p)
  \/ StatusSwallowed \/ AuthFails \/ PropsFail \/ PingRaises
  \/ Pinged \/ PingRefused \/ PropsFetched
  \/ \E ok \in BOOLEAN :
       LanConfigFetched(ok) \/ LanStarted(ok) \/ LanRegistered(ok) \/ ContentLoaded(ok)

Next ==
  \/ Tick
  \/ \E state \in States : MonitorPushed(state)
  \/ RefreshAfterCommand
  \/ \E pid \in Profiles \ {0} : SelectOption(pid)
  \/ OnLanProperty
  \/ BeginCycle \/ Answer \/ Publish
  \/ Unload

Spec == Init /\ [][Next]_vars

-----------------------------------------------------------------------------
(* Properties.                                                             *)

Stages == {"idle", "status", "keepalive", "wake", "props", "lanconfig", "lanstart",
           "register", "content", "publish"}
MachineStates == States \cup {"Off", "Unknown", "none"}
Reading == [n : Nat, state : MachineStates, run : BOOLEAN]

WorldOK ==
  /\ now \in Nat
  /\ phase \in {"setup", "loaded", "failed", "unloaded"}
  /\ rejected \in BOOLEAN
  /\ frame \in [n : Nat \ {0}, state : States]
  /\ lastPing \in Nat
CycleOK == pc \in Stages /\ began \in Nat /\ needFull \in BOOLEAN /\ reading \in Reading
PlanOK == nextDue \in Nat /\ {requested, success} \subseteq BOOLEAN
IntervalOK == interval \in Nat \ {0} /\ fastUntil \in Nat /\ activePolling \in BOOLEAN
RefreshOK == lastFull \in Nat /\ lastKeepalive \in Nat /\ keepaliveFailures \in Nat
MonitorOK ==
  /\ lastRaw \in Reading
  /\ shown \in MachineStates
  /\ lastChanged \in Nat /\ firstRead \in Nat /\ lastGood \in Nat /\ fullAt \in Nat
LanOK ==
  /\ lanConfig \in {"none", "off", "on"}
  /\ {lanServer, lanActive} \subseteq BOOLEAN
  /\ registrations \in Nat
CsOK == csLoaded \in BOOLEAN /\ csFailures \in Nat /\ csNextRetry \in 0 .. (now + RetryMax)
ProfileOK == {selectedProfile, chosen} \subseteq Profiles \cup {0}
CountOK ==
  /\ pushes \in Nat /\ requests \in Nat /\ faults \in Nat
  /\ lastPush \in Nat /\ lastFault \in Nat

\* Types; and the next try for the catalogue is never further off than its ceiling.
TypeOK ==
  /\ WorldOK /\ CycleOK /\ PlanOK /\ IntervalOK /\ RefreshOK
  /\ MonitorOK /\ LanOK /\ CsOK /\ ProfileOK /\ CountOK

\* update_interval is the one of the mode the coordinator is in, whatever the
\* order of fast-poll requests, expiries and state changes: a fast window has
\* the fast one, active polling the active one, and neither leaves it behind.
IntervalMatchesMode ==
  interval = IF fastUntil # 0 THEN FastInterval
             ELSE IF activePolling THEN ActiveInterval ELSE ScanInterval

\* The machine is pinged again before the cloud drops its session: within the
\* keepalive interval, a poll interval and the two cycles at its ends, failed cycles
\* and full refreshes included, as long as the login is good.  Only a datapoint on
\* the LAN puts that off, and then by one poll from the moment it came.
KeepaliveOnTime ==
  phase = "loaded" /\ ~rejected
    => now <= Later(lastPing + Keepalive + CycleMax, lastPush) + ScanInterval + CycleMax

\* What the keepalive says: "ping every 4 min to prevent cloud session expiry".
KeepaliveUnderPushes ==
  phase = "loaded" /\ ~rejected
    => now - lastPing <= Keepalive + ScanInterval + 2 * CycleMax

\* Counters and profiles are refreshed when they are due, and a full refresh that
\* failed on its way is due at once: the next poll after the last failed exchange, or
\* after the last datapoint on the LAN, is a full one.
FullRefreshOnTime ==
  phase = "loaded" /\ ~rejected
    => now <= Later(fullAt + FullInterval + CycleMax, Later(lastPush, lastFault))
                + ScanInterval + CycleMax

\* A profile the user selected is not overwritten by the monitor byte, not even
\* by a reading that was under way when it was selected (F-COORD-01).
SelectedProfileKept == chosen # 0 => selectedProfile = chosen

\* The machine is shown Off against its own report only when that very report
\* was first read longer ago than the stale timeout.
NoFalseOff ==
  [][pc = "publish" /\ pc' = "idle" /\ shown' = "Off" /\ reading.state # "Off"
       => reading.n = lastGood /\ began - firstRead > StaleTimeout]_vars

\* The converse of NoFalseOff: "With cloud=RUN we trust that an idle monitor =
\* idle machine".
FrozenStaysOff ==
  [][pc = "publish" /\ pc' = "idle" /\ reading.run /\ reading.n = lastGood
       /\ began - firstRead > StaleTimeout
     => shown' \in {"Off", "Unknown"}]_vars

\* What get_status says of transport failures: they "propagate so the coordinator
\* raises UpdateFailed and last_update_success reflects the cloud outage".
TransportFailureShows ==
  [][pc = "publish" /\ pc' = "idle" /\ reading.n = 0 => ~success']_vars

\* What the keepalive says of its failures: "we do not raise UpdateFailed".
KeepaliveNeverFails == [][pc = "keepalive" => success' = success]_vars

\* A registration that failed is tried again: LanError is raised "so the
\* coordinator can schedule a retry".
UnregisteredIsRetried ==
  [][pc = "props" /\ pc' \in {"content", "publish"} /\ lanServer => lanActive]_vars

\* No LAN server outlives the entry: "Stop LAN server before cleaning up".
NoOrphanServer == phase = "unloaded" /\ pc = "idle" => ~lanServer

=============================================================================
