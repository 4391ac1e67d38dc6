# TLA+ specifications of the De'Longhi integrations

The repository holds two Home Assistant integrations for De'Longhi coffee
machines. `custom_components/delonghi_coffee` drives machines through the Ayla
cloud and, on some models, over the LAN. `custom_components/delonghi_daedalus`
drives a newer family over a WebSocket on the LAN, with logins issued by Gigya.
This directory models the parts of both that keep state and race with
something, and the commands they put together; model-checks them with TLC; and
proves the LAN link, the power switch, the token, the sending of commands, the
choice of a recipe, the polling coordinator, the alarms, the baselines, the config
entries and the Daedalus connection with TLAPS.

Paths below are relative to `custom_components/delonghi_coffee/` unless they
start with `daedalus:`, which stands for `custom_components/delonghi_daedalus/`.

## 1. The system

### How it runs

Three kinds of actors touch the same objects:

* the **event loop** of Home Assistant: entities, coordinators, the LAN HTTP
  server. A coroutine runs alone between two awaits and can be overtaken at
  every await;
* **executor threads**: the cloud client (`api.py`) is blocking code built on
  `requests`; the loop hands it to threads. A thread that has started runs to
  its end, whether or not the task that awaits it has been cancelled;
* the **outside**: the cloud, the machine, the network, the user.

```
 switch, buttons, selects, services
      |  service calls                 +--------------------+
      v                                |  coffee machine    |
 PowerSwitch --- LAN queue ----------> |  polls for commands|
      |    \                           |  pushes datapoints |
      |     \ executor job             +--------------------+
      |      v                              ^          |
      |   api.py: _retry, token, send_command (cloud)  | key exchange, push
      |      ^                                         v
      |      | polls every 10/15/60 s             LAN server (lan.py)
      |      |                                         |
      +-- coordinator.py <---- async_set_updated_data -+
             |  data
             v
     alarm sensors, counter sensors (+ local baselines), switch, selects
```

### Components

| component | state | operations | what is hard | what makes it right |
|---|---|---|---|---|
| LAN server (`lan.py`) | session and its two IV chains, sequence number, command queue, last activity, highest `time_1` per peer | key exchange, command poll, datapoint push, enqueue, start, stop | lost and late messages, reboots of the machine, other peers, restarts | commands executed in order and at most once; no IV used twice; a lost datapoint costs one other at most; the machine is not locked out; the session does not go back |
| Power switch (`switch.py`) | command lock, abort flag, retry task, assumed state, staleness count | turn_on, turn_off, retry after 3 minutes, reconciliation with the monitor, removal | turn_off overtaking a turn_on in its wake phase, a cancelled task whose thread goes on, calls that fail half-way | no turn_on starts to send after a later turn_off has; one retry at most; the lock is handed on; the assumed state is the commanded one |
| Cloud authentication (`api.py`: `_retry`, `_ensure_token`, `authenticate`) | token, expiry, token lock, time of the last login after a 401 | proactive refresh, 401 handling, login | several threads seeing the same 401, a token that is replaced meanwhile | a token is never replaced by an older one; logins are spaced; one trouble is survived; no thread waits for ever |
| Command sending (`api.py`: `send_command`) | the command property the model uses | POST of one or two packet shapes to one or two properties, retries | partial success, lost answers, two threads that find out the property at once | a command reaches the machine twice only for a lost answer; "unsupported" is true |
| Polling coordinator (`coordinator.py`) | poll interval and fast window, clocks of full refresh and keepalive, staleness of the monitor, LAN start, catalogue backoff, selected profile | the cycle, fast-poll request, LAN datapoint, unload | a cycle in flight while a command, a datapoint or an unload comes in; failures at each await | keepalive and full refresh on time; the interval belongs to the mode; a machine is not shown off by mistake; a selected profile stays |
| Monitor alarms (`api.py`, `coordinator.py`, `binary_sensor.py`, `sensor.py`) | alarm word, bits seen, trust in the monitor | parsing, suppression, learning which inverted bits are driven, check before a brew | stale monitors, bits the firmware does not drive, order of observations | no alarm from a bit that means nothing; no alarm from a monitor that is not trusted |
| Local baselines (`local_baseline.py`, counter sensors) | dictionary, file, Store's pending write | load, set, clear, save, merge | overlapping saves and removals, restarts, counters that vanish | the file ends up as the dictionary; a total does not fall |
| Daedalus coordinator (`daedalus:coordinator.py`, `api.py`, `gigya_auth.py`) | entry's session token and JWT, connection | connect, AUTH, JWT rotation, escalation to the password prompt | telling a rejection from a flaky network; the prompt answered while a cycle is in flight | no socket left behind; escalation only after an answer of the machine, and always after a rejection that persists; the last login is kept |
| Brewing and recipes (`api.py`, `const.py`, `button.py`, services) | none but the call's own | list of beverages, choice of a recipe, check before a brew, frame of a brew, of a custom brew and of cancelling, ping | names searched by substring in the cloud's order; bytes without separators; numbers from a service that do not fit a byte; a status read before the command is posted | the recipe is the beverage's; the frame carries what the recipe or the wish says; no milk without the module |
| Bean systems and profiles (`api.py`, `select.py`) | selected profile (in the coordinator) | select, read and write commands | echo of an old profile; names of any length | the selection stays; the frames are well formed |
| Setup, services and unloading (`__init__.py`) | entries in `hass.data`, registered services, each entry's session and LAN server | setup, unload, reload, service calls | setups and unloads of several entries that overlap; polls and calls in flight; a setup or a platform that fails | services as long as an entry wants them; nothing left open; a rejected entry works again |
| Config flow (`config_flow.py`) | dialogs | adding a machine, picking one, giving the password anew | dialogs side by side, the same machine twice, the password that changes again | one entry per machine |
| Buttons (`button.py`) | none | brew, cancel, sync | the same as the commands they send | modelled with `Brewing` and `Coordinator` |
| Rate tracking (`logger.py`) | deque of call times | record, count | a value that is displayed and nothing acts on | not modelled |
| Other sensors, options form, diagnostics, ContentStack client, redaction | none of their own | one call or one rendering each | nothing concurrent | not modelled |

`PROJECT.json` lists the hazards, each at its line with the properties that
watch it.

## 2. The modules

| module | models | composes |
|---|---|---|
| `CommandChannel` | what a command path promises: accepted commands are executed in order, each at most once, some not at all | |
| `LanServer` | `DeLonghiLanServer`: operators and actions on its own variables | |
| `LanLink` | the server with its machine, another peer and a lossy network | extends `LanServer`, implements `CommandChannel` |
| `LanLink_proofs` | proofs about `LanLink` | |
| `PowerSwitch`, `PowerSwitch_proofs` | the switch entity, its executor jobs, the LAN queue as the switch sees it | |
| `CloudAuth` | the token, for several threads | |
| `SendCommand` | one command's POSTs, for several threads | |
| `Recipes` | operators: beverages, recipes, the frames of every command | |
| `Brewing` | a command from the button or service to its POSTs | extends `SendCommand` and `Recipes` |
| `CloudClient_proofs` | proofs about `CloudAuth`, `SendCommand` and `Brewing` | |
| `Coordinator`, `Coordinator_proofs` | the polling cycle | |
| `Alarms`, `Alarms_proofs` | the alarm bits from the machine to the sensors | |
| `Baseline`, `Baseline_proofs` | baselines, their file, the counter sensors | |
| `Entries`, `Entries_proofs` | several entries, their setup, unloading, services and dialogs | |
| `Daedalus`, `Daedalus_proofs` | the second integration's connection cycle | |

Conventions. An action is the code between two awaits (on the loop) or between
two accesses to shared state (in a thread); the names are those of the source.
A definition `MutX` in front of `X` is `X` with one plausible mistake. No action
uses it: it is there to show that a property notices the mistake. Variables that
the code does not have (`sent`, `landed`, `doomed`, `firstRead`, `past`, ...)
record history for a property, and are declared last with their meaning.

### LanServer and LanLink

Each handler of the server is one action, since none awaits between reading
the request and its last change of state. Cryptography is reduced to what
chaining does: a ciphertext is `<<session, number>>`, an IV is the ciphertext it
was cut from, and a message is readable under the right session and IV only.
`HandshakeAccepted` and `HandshakeRefused` are `_handle_key_exchange`,
`PollCommands` is `_handle_command_poll` (pop, number and encrypt under the
lock), `PushArrives` is `_handle_property_push`, `SendCommandLan` is
`async_send_command_lan` of the coordinator. The machine is external: it starts
every exchange, gives up, reboots, and its `time_1` is either its uptime or a
wall clock (`UptimeClock`), the two cases lan.py names.

### PowerSwitch

A call `c` is a service call, numbered by arrival. `pc[c]` follows its coroutine
from await to await: `ping` (the wake ping), `wake` (the 15 seconds that
turn_off can cut short: once the event is set, the wait may still end as a timeout,
when its timer has fired before, or before the woken task runs), `sending` (an executor job posts the command), `post`
(the ping after it). `holder` and `waiters` are the asyncio lock, with the gap
between release and wake-up. `retry[c]` is the retry task a call started;
`CancelRetry` cancels the task and leaves its job running, as `Task.cancel`
does. `Update` and `ReadIsOn` are the two ways into `_reconcile_monitor_state`.

### CloudAuth and SendCommand

Both follow one blocking thread each per call. `CloudAuth` cuts `_retry` where
another thread can see or change the token: the check of `_ensure_token` without
the lock, the second check under it, the reading of the token into a header, the
answer, the 401 branch. `SendCommand` takes a whole POST as one step with every
answer it can get, and keeps count of what reached the machine. The 401 is left
to `CloudAuth`.

### Coordinator

The cycle is cut at its awaits: status, keepalive ping or wake ping, properties,
LAN configuration, LAN start, registration, catalogue, publication. Time is an
integer; the clock stands still only where a cycle would be overdue, and a cycle
takes `CycleMax` at most. A monitor frame is a number and a state; `reading` is
what the cycle in flight got. `lastPing`, `fullAt`, `lastPush` and `lastFault` are
the times of the last ping, published full refresh, LAN datapoint and failed
exchange, for the two deadlines.

### Recipes and Brewing

`Recipes` has no variable. Its operators are the byte walks of `api.py`
(`_get_recipe_accessory`, `_recipe_to_brew_command`), the list of beverages, the
search for a recipe, and the frames of the other commands; bytes are numbers and
the CRC is a constant. A beverage key is a sequence of parts, so that "one key
begins another" is what it is for strings. `Brewing` follows one command: what
was pressed, what the search found, the decoded recipe, the check against every
status, the frame, the ping; then `SendCommand` posts it next to other commands.
`order[c]` is that command's record, and keeps at each stage only what the code
still uses. The beverages, recipes, params and statuses are all those that can
be put together from `Keys`, `Params` and `Status`: keys that begin one another,
params whose value looks like the id of a param, recipes that are cut off,
monitors without the accessory. What the cloud stores may begin with 0x0D: that is a
command already, which `_recipe_to_brew_command` passes on as it is. A quantity of a
custom brew is absent or any of `Numbers` or its negative, as the service is registered
without a schema.

### Entries

`phase[e]` follows one entry through `async_setup_entry` (`setup`, `forward`),
`loaded`, and `async_unload_entry` (`stopLan`, `close`, `platforms`), one step
per await; `again` is a setup that Home Assistant is about to start, `retry`,
`rejected` and `stuck` are what a failed setup or unload leaves. `data` is
`hass.data[DOMAIN]` in its order, which decides the target of a service call
that names no entry. `client[e]` holds what unloading is to close. `work[e]` is
a poll cycle or a service call that has the client in an executor thread: both
open a session again when they use one (`requests` does), and a cycle may start
the LAN server. Only the entries in `Watched` have a client, work and a password
dialog in the model; the others share `data` and `services` with them, which is
all the entries have in common. Home Assistant's part, one setup or unload of an
entry at a time, retries, one password dialog per entry, is external.

### Alarms, Baseline, Daedalus

`Alarms` keeps bits as sets. `Ordinary` bits are alarms when set, `Inverted`
ones when clear, provided the firmware drives them, which nobody can know
(`driven`). `Baseline` follows a value from service call to dictionary to
pending save to executor write to file; Home Assistant's `Store` is external
and writes the newest data handed to it, one write at a time. In `Daedalus`, a
JWT is good or not, a session token is a number, and the cycle is one record. An AUTH
frame is answered with OK, a rejection, an object without a Response ("incomplete",
which the code takes for a rejection), something else ("malformed"), or not at all.
`phase` is the entry in its setup, loaded or rejected; `prompt` is the password dialog,
which stays open over any number of cycles until it is answered, and then waits for the
reload it has started.

## 3. What is checked

Every run but the one marked passes. State counts are distinct states.

| run | instance | shows |
|---|---|---|
| `LanCommands` | one machine with a wall clock, 3 commands, 2 key exchanges, 2 losses, 1 reboot, 1 restart, fairness (1.0 M) | `QueueInOrder`, `NoIvReuse`; `ChannelSpec`: the link implements `CommandChannel`; `AcceptedExecuted`: if the machine comes back to the session of the server again and again, every accepted command is executed, over a reboot and a new session, as long as no message is lost or cut off by the reboot and the server is not restarted |
| `LanHandshakes` | the machine with an uptime clock and a second peer, 2 key exchanges, 3 datapoints, 1 command, 1 loss, 1 restart (0.7 M) | `GapsCostOne`, `MachineNeverStale`, `NoNonceRollback` |
| `PowerCommands` | 3 calls of either kind, 2 updates, removal, LAN session coming and going (4.0 M) | `NoOnSentAfterLaterOff`, `OneRetry`, `PingAbortHolds`, `LockIsReleased` |
| `PowerLateThread` | 2 calls; **finds a violation** | `OffStands` does not hold (section 6) |
| `AuthTokens` | 2 threads, 3 attempts each, one revocation, one expiry, one failed exchange, fairness (0.5 M) | `TokenNeverGoesBack`, `OneTroubleIsSurvived`, `CallsEnd` |
| `BrewCommands` | one command from its button or service on, with up to 2 recipes in the cloud and 3 params in a recipe, and another that is posted next to it; 2 attempts, every machine and routing, quantities of 300, 65576, their negatives and none (1.5 M) | `RecipeIsTheBeverages`, `CommandCarriesRecipe`, `FramesWellFormed`, `NoMilkWithoutModule`, `MachineReadsWish`; `DuplicatesArePaidFor`, `UnsupportedIsTrue` |
| `EntriesReloaded` | 2 entries, 2 machines, a dialog, 1 failure, 1 change of the password, fairness; deadlock is checked (0.3 M) | `ServicesMatchEntries`, `NothingLeftBehind`, `OneEntryPerMachine`, `RejectedRecovers` |
| `PollOnTime` | 23 ticks, 2 failures at any await, 1 LAN datapoint, 2 frames of the monitor, LAN and catalogue (8.2 M) | `KeepaliveOnTime`, `FullRefreshOnTime`, `NoFalseOff` |
| `PollModes` | 2 requests or selections, 1 LAN datapoint, unload at any time (5.4 M) | `IntervalMatchesMode`, `SelectedProfileKept` |
| `AlarmsShown` | 2 ordinary and 2 inverted bits, 3 frames, 2 changes (0.8 M) | `NoPhantomAlarm`, `ShownAlarmsAreFresh` |
| `BaselineSaves` | 2 counters, values to 2, 3 calls or restarts (1.7 M) | `FileIsMemory`, `NeverFalls` |
| `DaedalusCycles` | 3 logins, 4 events, fairness (15 k) | `NoSocketLeftBehind`, `EscalationNeedsAnswer`, `LoginKept`, `RejectionReachesUser` |

`PollOnTime` also checks the type invariant of its module, which holds the ceiling of
the backoff; those of the other stateful modules are proved (section 4); `Brewing` adds one
record per command, whose fields go with its stage.
Except in `EntriesReloaded`, deadlock is not checked: every other instance stops
when its bounded inputs are used up.

### Why the bounds are enough

* LAN: a command can be queued for one session, served in the next and lost in
  either; two key exchanges, a reboot and a restart give every such order, and
  three commands make one before and one after it. A datapoint chain needs
  one lost datapoint, one that pays for it, and one that must come out right:
  three. One delayed key exchange against one later one is all a rollback takes. `AcceptedExecuted`
  needs two commands, for one to wait behind the other, and a session after the reboot
  in which the second is served.
* Switch: the hardest known schedule has an on, an off and an on again (the flag
  `_cancel_turn_on` that a second turn_on must not clear); three calls are the
  least that contain it. `Attempts = 1` shortens the retries of an executor job,
  which nothing but `OffStands` can tell apart; its run has two.
* Tokens: a second thread is enough for every race on one token; a third adds
  nothing that a thread does not do to another. Three attempts are the code's.
  `Window = 2` lets logins be on either side of the deduplication window.
* Coordinator: the intervals keep the code's order (fast < active < scan <
  keepalive < full refresh) at small ratios. `PollOnTime` runs for two full
  refreshes and four keepalives, with a datapoint that puts the poll off at any time
  before them; how many more there are does not matter to the two bounds, which is
  proved (section 4). Two frames of the monitor are what a change of it takes. Both `StartTimes` matter: `time.monotonic()`
  may be smaller or larger than the first full refresh interval.
* Alarms: two bits of each kind, since suppression and learning each look at a
  set that may hold this bit, the other, both or none.
* Baselines: two counters, so that setting one can harm the other; three calls
  make two saves overlap with a removal between them.
* Commands: the search for a recipe goes wrong between two names and a walk over
  bytes between two neighbours; two recipes and three params have every such
  pair, and a third param before or after it. Of the quantities
  of a custom brew, one fits 16 bits and is over the limit of the form, one does not fit
  them and is within the limit once it is cut (65576 = 2^16 + 40), and each has its
  negative; `WishIsRead` proves the same for every integer. The taste is 3 or does not
  fit a byte.
* Entries: two entries, so that one goes while the other comes, is stuck or
  stays; the second has no client of its own to follow, as nothing of it is
  shared. One dialog is enough for the first entry to meet a second one of its
  machine. One failure can hit a setup, a dialog or a platform. One change of
  the password: with a second one `RejectedRecovers` does not hold (section 6).
* Daedalus: three logins and four events cover a revocation, an expiry and a
  network outage in one behaviour with a password given during a cycle, and a
  rejection in the setup that the dialog waits for.

### Fairness

* `LanCommands`: a machine in a session polls, reads the reply, adopts its
  session, and a request that is under way arrives. lan.py relies on all of it:
  the machine polls every few seconds. Nothing is assumed of losses, reboots,
  restarts or new key exchanges: `AcceptedExecuted` speaks of behaviours in which the
  machine is again and again in the session the server has, and makes an exception of
  those in which a message is lost, a reboot cuts one off, or the server is restarted:
  then a command can be gone, and with the answer to a key exchange all that are polled
  for until the next. The clock is a wall clock; with
  an uptime a reboot locks the machine out (section 6).
* `AuthTokens`: strong fairness of each thread's steps. Every request has a
  timeout, and the lock is a `threading.Lock`, which a waiting thread gets when
  it keeps being released; nothing in the code holds it for ever.
* `DaedalusCycles`: a cycle is started every 30 seconds and each await in it has
  a timeout, so a cycle step that is possible is taken; only after a cycle that asked
  for the password Home Assistant plans no other. A reload that Home
  Assistant scheduled happens. The network need not recover, and the user need not
  answer.

* `EntriesReloaded`: the steps of a setup, of an unload and of an accepted dialog
  are taken (weak fairness): they are coroutines that Home Assistant awaits.
  Strong fairness of the reload that waits for the entry's lock, which Home
  Assistant gives in turn, and of `Give`: a user who is shown the form again and
  again gives the right password in the end. Nothing is assumed of polls,
  service calls, retried setups and removals.

## 4. What is proved

`LanLink_proofs` proves, for every value of the constants that satisfies
`LanServerAssumption` and `LanLinkAssumption`:

| theorem | states |
|---|---|
| `TypesHold` | `Spec => []TypeOK` |
| `QueueOrdered` | `Spec => []QueueInOrder`: the queue holds the latest accepted commands, in order, none executed |
| `LanImplementsChannel` | `Spec => ChannelSpec`: the link implements `CommandChannel` |
| `IvChainCounts` | `Spec => []IvsCounted`: the IV chain of the session counts its messages |
| `IvsNeverReused` | `Spec => []NoIvReuse`: no two messages are encrypted under one IV |
| `LatestNeverStale` | `Spec => [](reboots = 0 => MachineNeverStale)`: up to its first reboot, the machine's latest key exchange is not refused as stale |
| `NoRollback` | `Spec => NoNonceRollback`, if `UptimeClock` and `MaxReboots = 0`: a late key exchange does not replace the session of a later one |
| `GapsCostAtMostOne` | `Spec => []GapsCostOne`: every datapoint that is lost makes one other unreadable at most |

The argument. That commands are executed in order is not inductive: a step can
only break it if the queue already holds what was executed. `QueueInOrder`
strengthens it to a statement about the three places a command can be in: the
queue is the interval `accepted - Len(pending) + 1 .. accepted`, the reply under
way carries something below that interval, and what was executed is below the
reply. Then a poll takes the head of the interval, a key exchange touches
nothing, and `ReceiveReply` maps to `Execute` or a stutter. `NoIvReuse` likewise
rests on `IvsCounted`: every ciphertext was made under the IV that carries its
own number, and none of the current session is numbered above `seq`, so the next
one is new. A new session has a number never used before, which is where the
fresh random nonces of `derive_session` enter. `TypeOK` comes first, as each of
the proofs takes the ranges from it. Actions that leave the variables of an
invariant alone are dealt with in one lemma per invariant.

The ratchet on `time_1` rests on `RatchetInv`: before a reboot the machine's clock
is ahead of all it has sent, its requests carry times in the order of their
numbers, and the floor that the server keeps for it is at or below its newest
request and, once a session of it is in place, above every request sent before
that session's. Both hypotheses of `NoRollback` are needed: a
reboot sets an uptime back, and a clock in seconds gives two exchanges the same
`time_1`, which the server accepts twice (section 6). The datapoints rest on
`ChainInv`: the datapoints under way of the current session are the last in the
queue and count on without a hole, each under the IV that the one before it left;
and `Balanced` says that the unreadable ones are fewer than the gaps, or as many and
server and machine in step (`InStep`): a datapoint that is not understood still
moves the chain on, so that the next one is.

`Daedalus_proofs` proves, for any number of logins and events
(`DaedalusAssumption`):

| theorem | states |
|---|---|
| `TypesHold` | `Spec => []TypeOK` |
| `SocketsAccountedFor` | `Spec => []NoSocketLeftBehind`: no handshake leaves its WebSocket open |
| `EscalatesOnlyOnAnswer` | `Spec => []EscalationNeedsAnswer`: nobody is asked for anything unless the last AUTH frame was answered with an object that is not OK |
| `LastLoginKept` | `Spec => []LoginKept`: a cycle does not undo a login that came while it was in flight |

The argument. The socket count alone is not inductive: a cycle that opened a
socket while the connection is open would leave two. `SocketInv` adds
`OneConnector`, that a cycle in flight found the connection closed and that
nobody else opens it, which is what the lock of the coordinator is for. `TypeOK`
and the count are proved together, since only the count keeps `sockets` from
going below zero. `EscalationNeedsAnswer` and `LoginKept` are inductive on
top of `TypeOK`: the branches of `Answer` that end in the prompt or in `rotate`
are those that `IsAuthError` names, and `Renewed` changes nothing but the JWT.

`PowerSwitch_proofs`, for any number of calls, updates and changes of the LAN
session (`PowerSwitchAssumption`):

| theorem | states |
|---|---|
| `TypesHold` | `Spec => []TypeOK` |
| `AssumedHolds` | `Spec => []AssumedIsCommanded`: the assumed state is what was commanded last |
| `RetriesDoNotStack` | `Spec => []OneRetry`: one retry task at most, and it is the one `_retry_task` holds |
| `LockIsHandedOn` | `Spec => []LockIsReleased`: the lock is held by a call that is in its critical section, or by nobody |
| `OffIsLast` | `Spec => []NoOnSentAfterLaterOff`: no POWER_ON starts after a later POWER_OFF has started |
| `AbortIsFinal` | `Spec => []PingAbortHolds`: a turn_on that a turn_off found in its wake ping sends nothing |

The argument. Of the order of POWER_ON and POWER_OFF, none of the last three is
inductive. `LineInv` says that whoever waits for the lock stands in the line in
the order of arrival, and that a call has one executor job at most; with it,
who is in the critical section is known. `SendOrder` then adds to
`NoOnSentAfterLaterOff` that an off that has sent is ahead of every call that
can still send (`OffIsBehind`), and needs `OneRetry` for the one retry that an
off must cancel. `PingAbortHolds` needs to know what an abort has done to
the calls it found (`Doomed`: each of them is on its way out or still finds the
flag, as no call clears it while the lock is held) and where a POWER_ON that was sent came from (`SentInv`).

`Coordinator_proofs`, for any intervals, any lengths of a cycle, and any number of
datapoints, requests and failures (`CoordinatorAssumption`, which keeps no more
than the order of the intervals in const.py):

| theorem | states |
|---|---|
| `TypesHold` | `Spec => []TypeOK` |
| `IntervalFollowsMode` | `Spec => []IntervalMatchesMode`: the poll interval is that of the mode |
| `SelectionStays` | `Spec => []SelectedProfileKept`: no reading overwrites a selected profile |
| `OffIsEvident` | `Spec => NoFalseOff`: a machine is shown off against its report only by a report that is old |
| `KeepaliveInTime` | `Spec => []KeepaliveOnTime`: at most one poll and one cycle pass after the keepalive has run out in a cycle, or after the last LAN datapoint if that is later |
| `FullRefreshInTime` | `Spec => []FullRefreshOnTime`: the same of a full refresh, or after the last failed exchange |

The argument. `ModeInv` adds to the first that a fast window and active polling
exclude each other; `FrozenInv` says that the staleness clock was set when the
frame it counts for was first read, or later. The two deadlines are the hardest of
it, since neither is inductive: a clock that has run out is only late as far as the
poll that will find it is planned. `TimeInv` says when that is. `ClockInv`: the next poll is at most one
interval away, and a cycle ends in its time. `KeepaliveInv` and `RefreshInv`: the
next poll is planned, and a cycle in flight has begun, no later than one interval after
the later of the clock running out and the last datapoint (`PingBy`), or the last
failure too (`RefreshBy`). Both only go forward (`PingByMoves`, `RefreshByMoves`), and
how many datapoints and failures there have been does not matter: one more moves the
bound to one poll after it, and once they stop the clocks catch up.

`CloudClient_proofs`, about both halves of the cloud client. For any number of
threads and attempts (`CloudAuthAssumption`):

| theorem | states |
|---|---|
| `TypesHold` | `Spec => []TypeOK` |
| `TokenGrows` | `Spec => TokenNeverGoesBack` |
| `ExchangesAreLocked` | one thread at a time refreshes the token or logs in |
| `OneTroubleSurvived` | `Spec => []OneTroubleIsSurvived`, with two attempts or more: a read does not fail for one revocation or one failed request |

The invariant of the first three is `TokenInv`: who is past the check under the
lock holds the lock, and an answer in its hands is newer than the token. `SurvivalInv`
says for a read how much of its trouble is behind it: if the only trouble was a
revocation, a token refused at the first attempt is older than the one the thread
will have at the second, and that one is live. One attempt would not survive
anything, so the hypothesis is needed; the code has three.

For any number of commands, attempts, recipes and profiles (`SendAssumption`,
`BrewAssumption`):

| theorem | states |
|---|---|
| `SendTypesHold` | `SendSpec => []SendTypeOK`: types; no list is tried more than `RETRY_COUNT` times |
| `BrewingSends` | `BrewSpec => SendSpec`: the whole way of a command is a run of `send_command` |
| `NoneSentTwice` | `BrewSpec => []DuplicatesArePaidFor` |
| `UnsupportedIsUnsupported` | `BrewSpec => []UnsupportedIsTrue` |
| `PressedIsBrewed` | `BrewSpec => []RecipeIsTheBeverages` |
| `FramesAreWellFormed` | `BrewSpec => []FramesWellFormed` |
| `RecipeIsCarried` | `BrewSpec => []CommandCarriesRecipe` |
| `MilkNeedsItsModule` | `BrewSpec => []NoMilkWithoutModule` |
| `WishIsRead` | `BrewSpec => []MachineReadsWish` |

`SentOnce` strengthens the count of duplicates: a machine that was given the command
once more than answers were lost has had one POST accepted by the client, and the
shape it acts on is not in what is left of the list, since no list names a shape
twice. `StillToTry` does the same for "unsupported": an attempt that has met nothing
but 404 still has a property of this machine on its list, if it has any; that is
where `Routed` comes in, that the property a command goes by is there. Both concern
one command's thread, and what the other threads leave alone is one lemma.
`PressedIsBrewed` needs nothing of a step but that a search starts from a catalogue,
a key and a profile (`LookupInv`); the rest is lemmas about the search: that every
recipe listed is found (`ListedIsFound`), and what the first hit is
(`TakenIsOfTheBeverage`). That there is a first hit is `FirstIsFirst`, from the
library's theorem that a well-founded relation has minimal elements.

The last four are about bytes, and share the invariant `FrameInv`: what a command in
preparation is made of (`Prepared`), and, once it has a frame, that the frame is
well formed and what the machine reads in it. The step that matters is `Check`; it
rests on two facts about the walk over the bytes, `Parsed`:

* `ParseJoined`: for any list of params, each of the shape its id calls for, and any
  stray byte behind them, the walk over their bytes gives back the list; a command the
  cloud stores has such a byte too, its profile. The param at
  an offset is the one that was put there (`ParamThere`, `StrayBytes`), so that each
  step of the walk takes off one param; the list follows by induction from its end.
* `Written(bytes, params)`: bytes that were put together from params one after
  another, and the params they hold. What is written can be joined (`WrittenJoined`)
  and is read back (`ReadBack`). A custom brew has up to eight pieces, and a
  quantity in the high or low byte is just another byte of one of them.

`BrewFrameHeaded` and `BrewFrameBody` add the six bytes before and the three behind. A
recipe of the model holds each of the seven params of `Params` at most once, so its
frame is short enough for the length to fit its byte (`SevenParams`); the two facts above
do not need that.

These lemmas go by induction on the number of params. The induction theorems of the
library take the statement as an operator, which the provers cannot instantiate;
`SetInduction` takes a set instead, and follows, as `FirstIsFirst` does, from the
minimal elements of a well-founded relation. The recursive functions (`Parsed`,
`FlattenSeq`) come in as functions that satisfy their equation (`Walk`, `Join`).

`Alarms_proofs`, for any bits, frames and changes (`AlarmsAssumption`):
`TypesHold`; `AlarmsAreEvident` (`Spec => []NoPhantomAlarm`), by `Evidence`, that
a bit counted as available was seen set and so is driven, also in the frames
under way; `AlarmsAreTrusted` (`Spec => []ShownAlarmsAreFresh`), by `Trusted`,
that suppression leaves no bit in the word. The second is about alarms that a set bit
means, those of `Ordinary` and those the aggregate sensor counts; an inverted alarm is
one of a clear bit, which suppression does not take back (section 6).

`Baseline_proofs`, for any counters, values and calls (`BaselineAssumption`):
`TypesHold`; `FileFollowsMemory` (`Spec => []FileIsMemory`), by `FileInv`, that
what the Store has in hand is, or will be followed by, the dictionary;
`TotalsDoNotFall` (`Spec => NeverFalls`), by `Covered`, that what a sensor has
shown is not above what its next refresh finds.

`Entries_proofs`, for any number of entries, machines, dialogs, failures and
changes of the password (`EntriesAssumption`): `TypesHold`;
`ServicesFollowEntries` (`Spec => []ServicesMatchEntries`), together with the
types, since what an unload takes out of `data` has to be in it, and with
`Placed`, that an entry whose platforms are being set up has its place;
`MachinesAreApart` (`Spec => []OneEntryPerMachine`); `UndisturbedUnloadsClose`
(`Spec => []NothingLeftBehind`), by `CloseInv`, that work in flight during an
unload is noted, and what is closed stays closed without it.

Only model-checked is liveness: `AcceptedExecuted`, `CallsEnd`, `RejectedRecovers`
and `RejectionReachesUser`. Liveness under fairness and `ENABLED` are beyond the
prover.

## 5. What is left out

* Cryptographic strength, packet bytes, JSON: a message is readable or not.
* HTTP statuses beyond the classes the code tells apart, log texts, redaction.
* `run_lan_diagnostic`, the options form, plain sensors, diagnostics,
  `async_migrate_entry`, device names: one call or one rendering each, without
  state that anything else reads.
* `RateLimitTracker` (logger.py): its count is displayed and logged, and nothing
  acts on it.
* The parsing of the ContentStack catalogue, of profile names and of bean
  parameters: they turn text into text. When they are fetched and what a failure
  does is in `Coordinator`.
* What an executor thread does after its entry is unloaded: the entry's client is
  gone by then, and nothing of it is shared.
* The components run apart from each other, except the LAN server with its
  machine and a command with its POSTs. What one needs of another is an action of
  its own: `PowerSwitch` has the LAN queue and the executor jobs, `Coordinator` has
  "the cloud failed here".
* Sending commands over the Daedalus connection: the code has no caller yet.
* Two branches of the LAN server for an encryption or a decryption that raises
  (lan.py:650-654, 692-694): a session has its keys from the moment it is there, and a
  body that is not text to encrypt does not come from `enqueue_command`. A datapoint that
  cannot be read after decryption is modelled.
* A reload of an entry that builds a second `Store` on the baseline file before the first
  has written: `Restart` is one of Home Assistant, with everything settled.

## 6. Where code and comments part

One disagreement has a run of its own, `PowerLateThread`, as the worst of them: turn_off
cancels the retry task, but an executor thread that is posting goes on, and its POWER_ON
lands after the POWER_OFF (switch.py:342), while the comment says that the retry is
cancelled so that it does not switch the machine on again (switch.py:368-373). Nothing
*starts* to send POWER_ON after a later turn_off has started (`NoOnSentAfterLaterOff`).

More were met while modelling. Each is stated as a property in its module, and
TLC refutes it when the configuration named below checks it in place of its own
properties (with the constants changed as noted). For the first eleven, which hazards of
the code hang on, a run and a theorem show the half that does hold: an abort during the
wake ping stands (`AbortIsFinal`), up to its first reboot the machine is not stale
(`LatestNeverStale`), once the datapoints stop the keepalive is one poll away
(`KeepaliveInTime`), an alarm that a set bit means is suppressed (`AlarmsAreTrusted`), and
so on.

| property | configuration | the code | what a comment says |
|---|---|---|---|
| `MachineNeverStale` | `LanHandshakes`, `MaxReboots = 1` | a `time_1` that is an uptime starts again after a reboot and is refused (lan.py:548) | "the device always advances time_1 on a fresh boot" (lan.py:540) |
| `AbortedWakeNeverSends` | `PowerCommands` | `wait_for` raises `TimeoutError` also when its timer has fired before turn_off sets the event, or before the woken task runs; nothing looks at the event after that (switch.py:230-237) | "so POWER_ON is never sent against the user's intent" (switch.py:224-228) |
| `NoOrphanRetry` | `PowerCommands` | a turn_on that ends after the removal starts a retry nobody cancels (switch.py:266) | the task is kept so that it can be cancelled (switch.py:91) |
| `KeepaliveUnderPushes` | `PollOnTime`, `MaxPushes = 3`, `MaxFaults = 0` | a LAN datapoint plans the next poll afresh (coordinator.py:528); datapoints closer together than the interval put the poll off for ever | "ping every 4 min to prevent cloud session expiry" (coordinator.py:217) |
| `InvertedSuppressedToo` | `AlarmsShown` | a word of zero is never suppressed, and every driven inverted bit in it is an alarm (coordinator.py:343) | "Suppress alarms when monitor is unreliable" (coordinator.py:335) |
| `ClearedStaysCleared` | `BaselineSaves` | the file is removed while a save is under way, which writes it again (local\_baseline.py:119) | "Drop all baselines and remove the storage file" (local\_baseline.py:117) |
| `NeverFallsAtAll` | `BaselineSaves` | a counter missing from the cloud falls back to an older baseline (local\_baseline.py:138) | "TOTAL_INCREASING semantics are never violated" (sensor.py:246) |
| `CoffeeWithinLimits` | `BrewCommands` | a quantity goes into the frame whatever it is, cut to 16 bits (api.py:1505); the service has no schema (\_\_init\_\_.py:273) | "Amount of coffee in mL (20-240)" (services.yaml:28) |
| `BrewsThatBeverage` | `BrewCommands` | a recipe whose name contains the key of the button is taken, a longer key's too (api.py:1358) | "Brew the beverage using the selected profile's recipe" (button.py:145) |
| `NothingLeftAtAll` | `EntriesReloaded` | a poll or a call in flight opens what the unload has closed (\_\_init\_\_.py:287-292) | "reload must not leak sockets (audit M3)" (\_\_init\_\_.py:289) |
| `EscalationNeedsRejection` | `DaedalusCycles` | an object without a Response counts as a rejection (daedalus:lan\_protocol.py:97), so the JWT is rotated and, with a fresh one answered alike, the password asked for | an incomplete reply is "NOT proof of an auth problem" (daedalus:api.py:228-234) |
| `NoNonceRollback` | `LanHandshakes`, `UptimeClock = FALSE` | an equal `time_1` is accepted, so a late copy of the same second replaces the session (lan.py:548) | "a stale re-play of an earlier key exchange can't roll the session back" (lan.py:417-419) |
| `PushProvesSession` | `LanHandshakes` | a datapoint that cannot be decrypted counts as activity (lan.py:700) | a push "proves the device is alive and the session is current" (lan.py:695) |
| `CommandsSurviveToo` | `AuthTokens` | `send_command` turns its 401 into `DeLonghiApiError`, repeated with the refused token (api.py:964) | "401: re-authenticate then retry" (api.py:131) |
| `NoLoginOverFreshToken` | `AuthTokens` | a 401 on a token that the proactive refresh has replaced logs in again (api.py:174) | "skip it and just retry with the now-fresh token" (api.py:169) |
| `SuccessReachesMachine` | `BrewCommands` | one accepted shape is success, whichever the firmware acts on (api.py:966) | "sends BOTH shapes back-to-back" (api.py:901) |
| `SingleShot` | `BrewCommands` | a POST whose answer was lost is repeated (api.py:942) | "brew/power commands are single-shot by nature" (api.py:904) |
| `TransportFailureShows` | `PollOnTime` | `get_status` catches what `_retry` makes of a transport failure, and the cycle succeeds (api.py:1061) | "transport failures [...] propagate so the coordinator raises UpdateFailed" (api.py:1063) |
| `KeepaliveNeverFails` | `PollOnTime` | a transport failure of the ping fails the cycle (coordinator.py:238) | "we do not raise UpdateFailed" (coordinator.py:243) |
| `FrozenStaysOff` | `PollOnTime` | an empty answer restarts the staleness clock (coordinator.py:327) | "an idle monitor = idle machine" (coordinator.py:354) |
| `UnregisteredIsRetried` | `PollOnTime` | the result of the LAN registration is not looked at again (coordinator.py:429) | "so the coordinator can schedule a retry" (lan.py:751) |
| `NoOrphanServer` | `PollModes` | a cycle in flight starts the LAN server after the unload stopped none (coordinator.py:461) | "Stop LAN server before cleaning up" (\_\_init\_\_.py:284) |
| `PresentPartDoesNotBlock` | `AlarmsShown` | the check before a brew takes a set inverted bit for an alarm (api.py:1754) | an inverted alarm "is active when the bit is NOT set" (binary\_sensor.py:99) |
| `ColdBootShown` | `AlarmsShown` | pre-seeding learns set bits only (coordinator.py:377) | "avoids the cold-boot problem where HA starts with tank already missing" (coordinator.py:372) |
| `SourceIsShown` | `BaselineSaves` | a value of the wrong type has source "baseline" and shows unknown (sensor.py:310) | "the baseline is what the sensor shows" (sensor.py:305) |
| `NamedIsServed` | `EntriesReloaded` | a call that names an entry that is being reloaded is served by the first of the others (\_\_init\_\_.py:110) | "Honors config\_entry\_id in call data when present" (\_\_init\_\_.py:96) |
| `RejectedIsAsked` | `EntriesReloaded`, `MaxChanges = 2` | a setup that is rejected while its dialog waits for the reload gets no dialog, and the one there is ends with the reload (config\_flow.py:173) | "Handle reauth when credentials become invalid" (config\_flow.py:152) |
| `RejectedIsPrompted` | `DaedalusCycles` | an entry that is rejected in the setup its own dialog waits for gets no new dialog, and the one there is ends with the reload (daedalus:config\_flow.py:241) | "prompted for the password again instead of failing silently" (daedalus:coordinator.py:106-108) |
| `PasswordOnlyWhenRevoked` | `DaedalusCycles` | every errorCode of Gigya asks for the password (daedalus:gigya\_auth.py:91) | "only at that point" (CHANGELOG.md:708-711) |

Others need no run:

* a wake ping that fails in transport ends turn_on without a POWER_ON
  (switch.py:217, "sending power ON anyway" at 222; the state `wakeRaised` of
  `PowerSwitch`);
* LAN datapoints count as "consecutive polls" (switch.py:105, const.py:97);
* a full refresh resets the keepalive clock although its wake ping was refused
  (coordinator.py:313);
* active polling at 10 seconds is 360 calls an hour, not "~90" (const.py:61-64);
* "adding the same machine twice still aborts" (config_flow.py:91-92), but the
  `AbortFlow` is raised inside the `try` whose `except Exception` shows it as
  the error "unknown" (config_flow.py:118-121);
* a setup that fails leaves its client to the garbage collector
  (\_\_init\_\_.py:44-54), while the dialogs close theirs;
* a recipe that is cut off within its last quantity keeps two bytes of it, and
  whoever reads the command by width takes the first byte of the trailer for the
  third (api.py:1861-1864); `Brewing` cuts recipes off after one byte;
* a stored recipe that begins with 0x0D is sent as it is, whatever its length byte says
  (api.py:1841-1842);
* `latte_macch` has the id of the latte macchiato (api.py:1448) but no accessory
  (api.py:1461-1469), so a custom brew by that name is not refused for want of
  the milk module.

## 7. The plan

Done, in this order because each is what the next depends on: the LAN link with
its proofs, the power switch, the token, command sending, the coordinator, then
alarms, baselines and Daedalus; recipes and the way of a command up to its POSTs;
the entries; the proofs for the switch, the token, the alarms, the baselines and
the entries; then those for the coordinator, for the sending of commands and the
choice of a recipe, for the bytes of a command, and for the key exchanges and
datapoints of the LAN link.

Next, in order of weight:

1. A composition of `PowerSwitch` with the retry and token rules of `CloudAuth`
   and the shapes of `SendCommand`, so that a 401 in the middle of a power
   command is covered, and of `Coordinator` with the switch's updates.
2. The options form and `async_migrate_entry` in `Entries`.
