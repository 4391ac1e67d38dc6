----------------------------- MODULE PowerSwitch -----------------------------
(***************************************************************************)
(* The power switch entity, custom_components/delonghi_coffee/switch.py,   *)
(* with the executor threads that post its commands to the cloud (the      *)
(* attempts of api._retry around send_command) and the LAN command queue.  *)
(*                                                                         *)
(* A call is a service call on the entity, numbered by arrival.  The event *)
(* loop runs one coroutine at a time between awaits; an executor job, once *)
(* started, runs to its end whether or not the task that awaits it has     *)
(* been cancelled.                                                         *)
(***************************************************************************)
EXTENDS Naturals, Sequences, FiniteSets

CONSTANTS
  Attempts,        \* RETRY_COUNT
  StaleThreshold,  \* POWER_STALE_THRESHOLD
  LanPossible,     \* the LAN server runs
  MayBeRemoved,    \* the entity may be removed while calls run
  MaxCalls,        \* bound on service calls
  MaxUpdates,      \* bound on coordinator updates
  MaxLanChanges    \* bound on changes of the LAN session's liveness

ASSUME PowerSwitchAssumption ==
  /\ Attempts \in Nat \ {0}
  /\ StaleThreshold \in Nat \ {0}
  /\ LanPossible \in BOOLEAN
  /\ MayBeRemoved \in BOOLEAN
  /\ {MaxCalls, MaxUpdates, MaxLanChanges} \subseteq Nat

Call == 1 .. MaxCalls
Command == {"on", "off"}
MachineState == {"Off", "Going to sleep", "Ready", "Unknown"}
SaysOn(state) == state \notin {"Off", "Going to sleep"}

VARIABLES
  kind,           \* kind[c]: which service call c is
  pc,             \* pc[c]: where its coroutine stands
  holder,         \* who holds self._cmd_lock, 0 for nobody
  waiters,        \* who waits for it, in order
  cancelTurnOn,   \* self._cancel_turn_on is set
  retry,          \* retry[c]: where the retry task call c started stands
  retryTask,      \* self._retry_task, as the call that started it
  jobs,           \* executor jobs posting a power command
  lanAlive,       \* server.is_session_alive
  lanQueue,       \* power commands queued for the LAN poll
  machineState,   \* coordinator.data["machine_state"]
  processed,      \* self._processed_data_obj is coordinator.data
  assumedOn, lastCommanded, staleCount, lastMonitor, cachedOn,
  removed,        \* the entity has been removed
  sent,           \* the power command whose sending began last
  sentOff,        \* the latest turn_off whose POWER_OFF was sent, 0 for none
  landed,         \* the power command that reached the machine last
  landedOff,      \* the latest turn_off whose POWER_OFF reached it
  doomed,         \* turn_on calls a turn_off found in their wake phase, and where in it
  updateCount, lanChanges

callVars == <<kind, pc, doomed>>
lockVars == <<holder, waiters>>
retryVars == <<retry, retryTask>>
sentVars == <<sent, sentOff>>
landedVars == <<landed, landedOff>>
pathVars == <<jobs, lanQueue, sentVars, landedVars>>
lanVars == <<lanAlive, lanChanges>>
stateVars == <<machineState, processed, assumedOn, lastCommanded, staleCount,
               lastMonitor, cachedOn, updateCount>>
vars == <<callVars, lockVars, cancelTurnOn, retryVars, pathVars, lanVars,
          stateVars, removed>>

Job == [owner : Call, byRetry : BOOLEAN, cmd : Command, left : 1 .. Attempts]
Message == [owner : Call, cmd : Command]
NoMessage == [owner |-> 0, cmd |-> "off"]

\* pc: "idle" before arrival; "ping", "wake", "sending", "post" in the lock.
Active == {"ping", "wake", "sending", "post"}
Ended == {"done", "ignored", "aborted", "failed", "wakeRaised", "postRaised"}
PcState == {"idle", "queued"} \cup Active \cup Ended
LiveRetry == {"sleep", "ping", "wake", "sending", "post"}
RetryState == {"none", "over", "cancelled"} \cup LiveRetry

Init ==
  /\ kind \in [Call -> Command]
  /\ pc = [c \in Call |-> "idle"]
  /\ holder = 0
  /\ waiters = <<>>
  /\ cancelTurnOn = FALSE
  /\ retry = [c \in Call |-> "none"]
  /\ retryTask = 0
  /\ jobs = {}
  /\ lanAlive = LanPossible
  /\ lanQueue = <<>>
  /\ machineState \in MachineState
  /\ processed = FALSE
  /\ assumedOn = FALSE
  /\ lastCommanded = "none"
  /\ staleCount = 0
  /\ lastMonitor = "none"
  /\ cachedOn = FALSE
  /\ removed = FALSE
  /\ sent = NoMessage
  /\ sentOff = 0
  /\ landed = NoMessage
  /\ landedOff = 0
  /\ doomed = {}
  /\ updateCount = 0
  /\ lanChanges = 0

-----------------------------------------------------------------------------
(* Sending a power command: over the LAN when its session is alive, else   *)
(* by an executor job.  next is where the sender goes on when the LAN took *)
(* it, and it waits in "sending" when a job did.                           *)

\* The latest turn_off among those counted so far and this command's call.
Latest(cmd, c, off) == IF cmd = "off" /\ c > off THEN c ELSE off

Send(c, byRetry, cmd) ==
  /\ sent' = [owner |-> c, cmd |-> cmd]
  /\ sentOff' = Latest(cmd, c, sentOff)
  /\ IF lanAlive
     THEN /\ lanQueue' = Append(lanQueue, [owner |-> c, cmd |-> cmd])
          /\ UNCHANGED jobs
     ELSE /\ jobs' = jobs \cup {[owner |-> c, byRetry |-> byRetry, cmd |-> cmd,
                                 left |-> Attempts]}
          /\ UNCHANGED lanQueue
  /\ UNCHANGED landedVars

AfterSend == IF lanAlive THEN "post" ELSE "sending"

\* Task.cancel() on self._retry_task; a job it awaits goes on without it.
MutKeepRetry == retry
CancelRetry ==
  [c \in Call |-> IF c = retryTask /\ retry[c] \in LiveRetry
                  THEN "cancelled" ELSE retry[c]]

-----------------------------------------------------------------------------
(* The lock.  release() unlocks and wakes the first waiter, which runs     *)
(* later; in between locked() is False, and a newcomer queues behind it.   *)

LockFree == holder = 0 /\ waiters = <<>>

Release == holder' = 0 /\ UNCHANGED waiters

MutEnter(c) ==
  \/ /\ kind[c] = "on"
     /\ pc' = [pc EXCEPT ![c] = "ping"]
     /\ UNCHANGED <<retryVars, pathVars>>
  \/ /\ kind[c] = "off"
     /\ pc' = [pc EXCEPT ![c] = AfterSend]
     /\ UNCHANGED retryVars
     /\ Send(c, FALSE, "off")
\* What a call does as soon as it holds the lock: turn_on starts its ping,
\* turn_off cancels the pending retry and sends.
Enter(c) ==
  \/ /\ kind[c] = "on"
     /\ pc' = [pc EXCEPT ![c] = "ping"]
     /\ UNCHANGED <<retryVars, pathVars>>
  \/ /\ kind[c] = "off"
     /\ pc' = [pc EXCEPT ![c] = AfterSend]
     /\ retry' = CancelRetry
     /\ UNCHANGED retryTask
     /\ Send(c, FALSE, "off")

Acquire(c) ==
  IF LockFree
  THEN holder' = c /\ UNCHANGED waiters /\ Enter(c)
  ELSE /\ waiters' = Append(waiters, c)
       /\ pc' = [pc EXCEPT ![c] = "queued"]
       /\ UNCHANGED <<holder, retryVars, pathVars>>

Wakeup ==
  /\ holder = 0
  /\ waiters # <<>>
  /\ holder' = Head(waiters)
  /\ waiters' = Tail(waiters)
  /\ Enter(Head(waiters))
  /\ UNCHANGED <<kind, doomed, cancelTurnOn, lanVars, stateVars, removed>>

-----------------------------------------------------------------------------
(* async_turn_on.                                                          *)

\* A service call reaches an entity that has written its state, and so read
\* is_on, once.
NextCall(c) ==
  /\ pc[c] = "idle" /\ \A d \in Call : d < c => pc[d] # "idle"
  /\ ~removed
  /\ processed \/ machineState = "Unknown"

MutTurnOn(c) ==
  /\ NextCall(c) /\ kind[c] = "on"
  /\ cancelTurnOn' = FALSE
  /\ IF holder # 0
     THEN /\ pc' = [pc EXCEPT ![c] = "ignored"]
          /\ UNCHANGED <<lockVars, retryVars, pathVars>>
     ELSE Acquire(c)
  /\ UNCHANGED <<kind, doomed, lanVars, stateVars, removed>>
TurnOn(c) ==
  /\ NextCall(c) /\ kind[c] = "on"
  /\ IF holder # 0
     THEN /\ pc' = [pc EXCEPT ![c] = "ignored"]
          /\ UNCHANGED <<lockVars, retryVars, pathVars, cancelTurnOn>>
     ELSE /\ cancelTurnOn' = FALSE
          /\ Acquire(c)
  /\ UNCHANGED <<kind, doomed, lanVars, stateVars, removed>>

Holding(c, where) == holder = c /\ pc[c] = where

End(c, how) == pc' = [pc EXCEPT ![c] = how] /\ Release

\* The wake ping (or the monitor request in its place) is over, a refusal by
\* the cloud included.  Event.wait() returns at once when the event is set already,
\* and turn_on ends without having waited.
WakePinged(c) ==
  /\ Holding(c, "ping")
  /\ \/ cancelTurnOn /\ End(c, "aborted")
     \/ ~cancelTurnOn /\ pc' = [pc EXCEPT ![c] = "wake"] /\ UNCHANGED lockVars
  /\ UNCHANGED <<kind, doomed, cancelTurnOn, retryVars, pathVars, lanVars, stateVars,
                 removed>>

\* ping_connected lets a transport failure through as it is, and the handler
\* catches only the two exceptions of the API client.
WakePingRaises(c) ==
  /\ Holding(c, "ping")
  /\ End(c, "wakeRaised")
  /\ UNCHANGED <<kind, doomed, cancelTurnOn, retryVars, pathVars, lanVars, stateVars,
                 removed>>

MutWakeAborted(c) ==
  /\ Holding(c, "wake")
  /\ cancelTurnOn
  /\ pc' = [pc EXCEPT ![c] = "aborted"]
  /\ UNCHANGED <<kind, doomed, cancelTurnOn, lockVars, retryVars, pathVars, lanVars,
                 stateVars, removed>>
WakeAborted(c) ==
  /\ Holding(c, "wake")
  /\ cancelTurnOn
  /\ End(c, "aborted")
  /\ UNCHANGED <<kind, doomed, cancelTurnOn, retryVars, pathVars, lanVars, stateVars,
                 removed>>

\* The delay is over.  The event may be set by now: wait_for raises TimeoutError
\* when its timer has fired before the event was set, and also when it fires before
\* the task that the event has woken runs again; nothing looks at the event after.
WakeElapsed(c) ==
  /\ Holding(c, "wake")
  /\ pc' = [pc EXCEPT ![c] = AfterSend]
  /\ Send(c, FALSE, "on")
  /\ UNCHANGED <<kind, doomed, lockVars, cancelTurnOn, retryVars, lanVars, stateVars,
                 removed>>

\* The flags a completed command sets, all in one stretch without an await.
Commanded(cmd) ==
  /\ assumedOn' = (cmd = "on")
  /\ lastCommanded' = cmd
  /\ staleCount' = 0
  /\ UNCHANGED <<machineState, processed, lastMonitor, cachedOn, updateCount>>

MutStackRetry(c) == [retry EXCEPT ![c] = "sleep"]
StartRetry(c) == [CancelRetry EXCEPT ![c] = "sleep"]

TurnOnDone(c) ==
  /\ Holding(c, "post")
  /\ kind[c] = "on"
  /\ Commanded("on")
  /\ retry' = StartRetry(c)
  /\ retryTask' = c
  /\ End(c, "done")
  /\ UNCHANGED <<kind, doomed, cancelTurnOn, pathVars, lanVars, removed>>

-----------------------------------------------------------------------------
(* async_turn_off.                                                         *)

InWakePhase == {c \in Call : kind[c] = "on" /\ holder = c /\ pc[c] \in {"ping", "wake"}}

TurnOff(c) ==
  /\ NextCall(c) /\ kind[c] = "off"
  /\ cancelTurnOn' = TRUE
  /\ Acquire(c)
  /\ doomed' = doomed \cup {<<d, pc[d]>> : d \in InWakePhase}
  /\ UNCHANGED <<kind, lanVars, stateVars, removed>>

TurnOffDone(c) ==
  /\ Holding(c, "post")
  /\ kind[c] = "off"
  /\ Commanded("off")
  /\ End(c, "done")
  /\ UNCHANGED <<kind, doomed, cancelTurnOn, retryVars, pathVars, lanVars, removed>>

\* In both, a transport failure of the ping after the command escapes: the
\* flags stay as they were although the command was sent.
PostPingRaises(c) ==
  /\ Holding(c, "post")
  /\ End(c, "postRaised")
  /\ UNCHANGED <<kind, doomed, cancelTurnOn, retryVars, pathVars, lanVars, stateVars,
                 removed>>

-----------------------------------------------------------------------------
(* Executor jobs: send_command under _retry.                               *)

\* How the end of job j reaches whoever still awaits it.
Resume(j, ok) ==
  IF j.byRetry
  THEN /\ retry' = IF retry[j.owner] = "sending"
                   THEN [retry EXCEPT ![j.owner] = IF ok THEN "post" ELSE "over"]
                   ELSE retry
       /\ UNCHANGED <<pc, lockVars>>
  ELSE /\ IF ok THEN pc' = [pc EXCEPT ![j.owner] = "post"] /\ UNCHANGED lockVars
                ELSE End(j.owner, "failed")
       /\ UNCHANGED retry

Land(m) ==
  /\ landed' = m
  /\ landedOff' = Latest(m.cmd, m.owner, landedOff)

JobSucceeds(j) ==
  /\ Land([owner |-> j.owner, cmd |-> j.cmd])
  /\ jobs' = jobs \ {j}
  /\ Resume(j, TRUE)
  /\ UNCHANGED <<kind, doomed, cancelTurnOn, retryTask, lanQueue, sentVars, lanVars,
                 stateVars, removed>>

AttemptsRemain(j) == j.left > 1

\* An attempt fails, whether or not the command got through before it did.
JobAttemptFails(j) ==
  /\ UNCHANGED landedVars \/ Land([owner |-> j.owner, cmd |-> j.cmd])
  /\ IF AttemptsRemain(j)
     THEN /\ jobs' = (jobs \ {j}) \cup {[j EXCEPT !.left = @ - 1]}
          /\ UNCHANGED <<pc, lockVars, retry>>
     ELSE /\ jobs' = jobs \ {j}
          /\ Resume(j, FALSE)
  /\ UNCHANGED <<kind, doomed, cancelTurnOn, retryTask, lanQueue, sentVars, lanVars,
                 stateVars, removed>>

-----------------------------------------------------------------------------
(* _retry_power_on, started by call c.                                     *)

\* Three minutes later: go on only if on is still what was last commanded
\* and the monitor has not shown the machine awake.
RetryDue(c) ==
  /\ retry[c] = "sleep"
  /\ retry' = [retry EXCEPT ![c] =
       IF lastCommanded = "on" /\ machineState \in {"Off", "Unknown", "Going to sleep"}
       THEN "ping" ELSE "over"]
  /\ UNCHANGED <<callVars, lockVars, cancelTurnOn, retryTask, pathVars, lanVars,
                 stateVars, removed>>

RetryPinged(c) ==
  /\ retry[c] \in {"ping", "post"}
  /\ \/ retry' = [retry EXCEPT ![c] = IF retry[c] = "ping" THEN "wake" ELSE "over"]
     \/ retry' = [retry EXCEPT ![c] = "over"]
  /\ UNCHANGED <<callVars, lockVars, cancelTurnOn, retryTask, pathVars, lanVars,
                 stateVars, removed>>

RetrySends(c) ==
  /\ retry[c] = "wake"
  /\ retry' = [retry EXCEPT ![c] = AfterSend]
  /\ Send(c, TRUE, "on")
  /\ UNCHANGED <<callVars, lockVars, cancelTurnOn, retryTask, lanVars, stateVars,
                 removed>>

-----------------------------------------------------------------------------
(* Coordinator updates and the staleness machine.                          *)

\* _reconcile_monitor_state for a machine state s.
Contradicted(s) == lastCommanded # "none" /\ SaysOn(s) # (lastCommanded = "on")
Confirmed(s) == lastCommanded # "none" /\ SaysOn(s) = (lastCommanded = "on")

StaleCountAfter(s) ==
  IF Contradicted(s) THEN (IF s = lastMonitor THEN staleCount + 1 ELSE 1)
  ELSE IF Confirmed(s) THEN 0 ELSE staleCount
LastCommandedAfter(s) == IF Confirmed(s) THEN "none" ELSE lastCommanded
Distrusted(s) == StaleCountAfter(s) >= StaleThreshold /\ LastCommandedAfter(s) # "none"
AssumedAfter(s) == IF LastCommandedAfter(s) = "none" THEN SaysOn(s) ELSE assumedOn

Reconcile(s) ==
  /\ processed' = TRUE
  /\ IF s = "Unknown"
     THEN cachedOn' = assumedOn
          /\ UNCHANGED <<staleCount, lastCommanded, lastMonitor, assumedOn>>
     ELSE /\ staleCount' = StaleCountAfter(s)
          /\ lastCommanded' = LastCommandedAfter(s)
          /\ lastMonitor' = s
          /\ assumedOn' = AssumedAfter(s)
          /\ cachedOn' = IF Distrusted(s) THEN assumedOn ELSE SaysOn(s)

\* Every update calls _handle_coordinator_update: a poll brings a state, a LAN
\* push and the first failed poll repeat the one that is there.
Update(s) ==
  /\ updateCount < MaxUpdates
  /\ ~removed
  /\ updateCount' = updateCount + 1
  /\ machineState' = s
  /\ Reconcile(s)
  /\ UNCHANGED <<callVars, lockVars, cancelTurnOn, retryVars, pathVars, lanVars, removed>>

\* is_on: a read advances nothing that the current data has advanced already.
NeedsReconcile == machineState # "Unknown" /\ ~processed

ReadIsOn ==
  /\ NeedsReconcile
  /\ Reconcile(machineState)
  /\ UNCHANGED <<callVars, lockVars, cancelTurnOn, retryVars, pathVars, lanVars, removed,
                 machineState, updateCount>>

\* async_will_remove_from_hass.
WillRemove ==
  /\ MayBeRemoved /\ ~removed
  /\ removed' = TRUE
  /\ retry' = CancelRetry
  /\ retryTask' = 0
  /\ UNCHANGED <<callVars, lockVars, cancelTurnOn, pathVars, lanVars, stateVars>>

-----------------------------------------------------------------------------
(* The LAN path, seen from the switch (LanLink has its inside).            *)

LanChanges ==
  /\ LanPossible
  /\ lanChanges < MaxLanChanges
  /\ lanChanges' = lanChanges + 1
  /\ lanAlive' = ~lanAlive
  /\ UNCHANGED <<callVars, lockVars, cancelTurnOn, retryVars, pathVars, stateVars, removed>>

LanDelivers ==
  /\ lanAlive
  /\ lanQueue # <<>>
  /\ lanQueue' = Tail(lanQueue)
  /\ UNCHANGED landedVars \/ Land(Head(lanQueue))
  /\ UNCHANGED <<callVars, lockVars, cancelTurnOn, retryVars, jobs, sentVars, lanVars,
                 stateVars, removed>>

-----------------------------------------------------------------------------

CallStep(c) ==
  \/ WakePinged(c) \/ WakePingRaises(c) \/ WakeAborted(c) \/ WakeElapsed(c)
  \/ TurnOnDone(c) \/ TurnOffDone(c) \/ PostPingRaises(c)

RetryStep(c) == RetryDue(c) \/ RetryPinged(c) \/ RetrySends(c)

JobStep == \E j \in jobs : JobSucceeds(j) \/ JobAttemptFails(j)

Next ==
  \/ \E c \in Call : TurnOn(c) \/ TurnOff(c) \/ CallStep(c) \/ RetryStep(c)
  \/ Wakeup
  \/ JobStep
  \/ \E s \in MachineState : Update(s)
  \/ ReadIsOn
  \/ WillRemove
  \/ LanChanges \/ LanDelivers

Spec == Init /\ [][Next]_vars

-----------------------------------------------------------------------------
(* Properties.                                                             *)

\* Every variable stays in its range (type invariant): the calls and their lock,
CallTypeOK ==
  /\ kind \in [Call -> Command]
  /\ pc \in [Call -> PcState]
  /\ doomed \subseteq Call \X {"ping", "wake"}
  /\ holder \in Call \cup {0}
  /\ waiters \in Seq(Call)
  /\ cancelTurnOn \in BOOLEAN

\* the retry tasks,
RetryTypeOK ==
  /\ retry \in [Call -> RetryState]
  /\ retryTask \in Call \cup {0}

\* the commands on their way to the machine,
PathTypeOK ==
  /\ jobs \subseteq Job
  /\ lanQueue \in Seq(Message)
  /\ sent \in Message \cup {NoMessage} /\ sentOff \in Call \cup {0}
  /\ landed \in Message \cup {NoMessage} /\ landedOff \in Call \cup {0}

\* and what the entity believes of the machine.
StateTypeOK ==
  /\ machineState \in MachineState
  /\ processed \in BOOLEAN
  /\ assumedOn \in BOOLEAN
  /\ lastCommanded \in Command \cup {"none"}
  /\ staleCount \in Nat
  /\ lastMonitor \in MachineState \cup {"none"}
  /\ cachedOn \in BOOLEAN
  /\ removed \in BOOLEAN
  /\ lanAlive \in BOOLEAN
  /\ updateCount \in Nat /\ lanChanges \in Nat

TypeOK == CallTypeOK /\ RetryTypeOK /\ PathTypeOK /\ StateTypeOK

\* Once a turn_off has started to send, neither an earlier turn_on nor the
\* retry of one starts to send POWER_ON (the incident of 2026-05-01 quoted in
\* _retry_power_on: the retry switched the machine back on).
NoOnSentAfterLaterOff == sent.cmd = "on" => sent.owner > sentOff

\* At most one retry task is pending or running, the one the entity can cancel
\* ("so we never have two retries racing against the machine").
OneRetry == \A c \in Call : retry[c] \in LiveRetry => c = retryTask

\* A turn_on that a turn_off found in its wake ping never sends POWER_ON, whatever
\* other calls come in before the ping is over: none of them takes the abort back
\* (async_turn_on clears the event only when it has found the lock free).
PingAbortHolds == sent.cmd = "on" => <<sent.owner, "ping">> \notin doomed

\* What async_turn_off says of the wake phase as a whole: a turn_off that finds a
\* turn_on "parked in its 15 s wake delay" sets the event "so the wake aborts and
\* POWER_ON is never sent" (H-logic-2).
AbortedWakeNeverSends ==
  sent.cmd = "on" => \A where \in {"ping", "wake"} : <<sent.owner, where>> \notin doomed

\* No path out of a call leaves the lock held, and no turn_off waits for it
\* without standing in the line that is woken when it is free: every service
\* call on the switch can go on.
LockIsReleased ==
  /\ holder # 0 => pc[holder] \in Active
  /\ \A c \in Call :
       /\ pc[c] \in Active => holder = c
       /\ pc[c] = "queued" <=> \E i \in 1 .. Len(waiters) : waiters[i] = c

\* Until the monitor confirms a command, the assumed state is what it commanded.
AssumedIsCommanded == lastCommanded # "none" => assumedOn = (lastCommanded = "on")

\* After a later turn_off has reached the machine, the POWER_ON of an earlier
\* turn_on or of its retry does not (the comment in async_turn_off on
\* cancelling the retry).
OffStands == landed.cmd = "on" => landed.owner > landedOff

\* A removed entity leaves no retry behind: the task is tracked "so it can be
\* cancelled on entity removal - otherwise it survives reloads as an orphan task".
NoOrphanRetry == removed => \A c \in Call : retry[c] \notin LiveRetry

=============================================================================
