-------------------------------- MODULE Alarms --------------------------------
(***************************************************************************)
(* The alarm bits of the monitor datapoint, from the machine to the user:  *)
(* DeLonghiApi._parse_monitor_v2 reads them, the coordinator suppresses    *)
(* them when the monitor is not to be trusted and learns which inverted    *)
(* bits the firmware drives, and the alarm sensors, the aggregate sensor,  *)
(* the power switch and the check before a brew each draw their own        *)
(* conclusion.  An inverted bit is set while its part is in place.         *)
(*                                                                         *)
(* The 45 minutes of the stale timeout are one event, TimePasses, since    *)
(* only their being over matters here.                                     *)
(***************************************************************************)
EXTENDS Naturals

CONSTANTS
  Ordinary,      \* alarm bits set while something is wrong
  Inverted,      \* the bits of ALARMS marked "inverted"
  BlockingBits,  \* BLOCKING_ALARM_BITS
  BrewBlocking,  \* the bits whose names _pre_brew_check takes for blocking
  MaxFrames,     \* bound on monitor datapoints
  MaxChanges     \* bound on changes of the machine's condition

ASSUME AlarmsAssumption ==
  /\ Ordinary \cap Inverted = {}
  /\ BlockingBits \subseteq Ordinary \cup Inverted
  /\ BrewBlocking \subseteq Ordinary \cup Inverted
  /\ {MaxFrames, MaxChanges} \subseteq Nat

Bits == Ordinary \cup Inverted
PowerState == {"Off", "Turning On", "Ready", "Brewing"}
CloudStatus == {"RUN", "SYNC", "UNKNOWN"}

VARIABLES
  driven,    \* inverted bits this firmware drives
  faults,    \* what is wrong with the machine
  missing,   \* parts that are not in place
  power,     \* what the machine is doing
  frame,     \* the monitor datapoint the cloud holds
  elapsed,   \* the stale timeout is over since a read brought a new datapoint
  lastRead,  \* the datapoint read last, number 0 for none
  state,     \* data["machine_state"]
  alarms,    \* the bits of data["alarms"]
  hasWord,   \* data["alarm_word"] is not None
  word,      \* its bits
  reliable,  \* the last poll trusted the monitor
  seen,      \* seen_alarm_bits
  check,     \* what the last check before a brew concluded
  changes

machineVars == <<driven, faults, missing, power>>
dataVars == <<lastRead, state, alarms, hasWord, word, reliable>>
vars == <<machineVars, frame, elapsed, dataVars, seen, check, changes>>

Frame == [n : Nat, state : PowerState, bits : SUBSET Bits]

\* What the machine's condition makes of the bits.
Word(d, f, m) == f \cup (d \ m)

Init ==
  /\ driven \in SUBSET Inverted
  /\ faults = {}
  /\ missing \in SUBSET Inverted
  /\ power \in PowerState
  /\ frame = [n |-> 1, state |-> power, bits |-> Word(driven, faults, missing)]
  /\ elapsed = FALSE
  /\ lastRead = [n |-> 0, state |-> "Off", bits |-> {}]
  /\ state = "Unknown"
  /\ alarms = {}
  /\ hasWord = FALSE
  /\ word = {}
  /\ reliable = FALSE
  /\ seen = {}
  /\ check = [verdict |-> "none", from |-> {}]
  /\ changes = 0

-----------------------------------------------------------------------------
(* The machine.                                                            *)

Change ==
  /\ changes < MaxChanges
  /\ changes' = changes + 1
  /\ UNCHANGED <<driven, frame, elapsed, dataVars, seen, check>>

FaultChanges(b) ==
  /\ faults' = IF b \in faults THEN faults \ {b} ELSE faults \cup {b}
  /\ Change
  /\ UNCHANGED <<missing, power>>

PartMoves(b) ==
  /\ missing' = IF b \in missing THEN missing \ {b} ELSE missing \cup {b}
  /\ Change
  /\ UNCHANGED <<faults, power>>

PowerChanges(p) ==
  /\ p # power
  /\ power' = p
  /\ Change
  /\ UNCHANGED <<faults, missing>>

PushMonitor ==
  /\ frame.n < MaxFrames
  /\ frame' = [n |-> frame.n + 1, state |-> power, bits |-> Word(driven, faults, missing)]
  /\ UNCHANGED <<machineVars, elapsed, dataVars, seen, check, changes>>

TimePasses ==
  /\ ~elapsed
  /\ elapsed' = TRUE
  /\ UNCHANGED <<machineVars, frame, dataVars, seen, check, changes>>

-----------------------------------------------------------------------------
(* The coordinator: end of _async_update_data.                             *)

IsNew == frame.n # lastRead.n
TimedOut == ~IsNew /\ elapsed
MutUnreliable(status) == TimedOut
Unreliable(status) == TimedOut \/ status = "UNKNOWN"

\* Suppression looks at the alarms, and every set bit is one of them.
Suppresses(status) == Unreliable(status) /\ frame.bits # {}

ShownState(status) ==
  IF TimedOut /\ status = "RUN" /\ frame.state # "Off" THEN "Off" ELSE frame.state

\* Inverted bits that a poll in a normal state teaches.
Preseeded(status) ==
  IF ~Suppresses(status) /\ ShownState(status) \in {"Ready", "Brewing"}
  THEN frame.bits \cap Inverted ELSE {}

KeptAlarms(status) == IF Suppresses(status) THEN {} ELSE frame.bits

Poll(status) ==
  /\ lastRead' = frame
  /\ elapsed' = (elapsed /\ ~IsNew)
  /\ state' = ShownState(status)
  /\ alarms' = KeptAlarms(status)
  /\ hasWord' = ~Suppresses(status)
  /\ word' = IF Suppresses(status) THEN {} ELSE frame.bits
  /\ reliable' = (status # "UNKNOWN" /\ (IsNew \/ ~elapsed))
  /\ seen' = seen \cup Preseeded(status)
  /\ UNCHANGED <<machineVars, frame, check, changes>>

\* No monitor in the answer, or one too short to read: no alarms and no word.
PollEmpty ==
  /\ lastRead' = [n |-> 0, state |-> "Off", bits |-> {}]
  /\ elapsed' = FALSE
  /\ state' = "Unknown"
  /\ alarms' = {}
  /\ hasWord' = FALSE
  /\ word' = {}
  /\ reliable' = FALSE
  /\ UNCHANGED <<machineVars, frame, seen, check, changes>>

-----------------------------------------------------------------------------
(* The alarm sensors.                                                      *)

MutAvailable(b) == hasWord
Available(b) == hasWord /\ (b \in Inverted => b \in seen \/ b \in word)

IsOn(b) == IF b \in Inverted THEN b \notin word ELSE b \in word

ShowsProblem(b) == Available(b) /\ IsOn(b)

\* Reading `available' of an inverted bit learns from the word.
ReadAvailable(b) ==
  /\ b \in Inverted
  /\ hasWord
  /\ b \in word \ seen
  /\ seen' = seen \cup {b}
  /\ UNCHANGED <<machineVars, frame, elapsed, dataVars, check, changes>>

-----------------------------------------------------------------------------
(* What else is made of the alarms.                                        *)

\* The aggregate sensor, and the warning of async_turn_on.
BlockingShown == alarms \cap BlockingBits

\* _pre_brew_check reads the monitor itself, and drops no alarm as unreliable.
\* A status that could not be read lets the brew pass.
Blocks(bits) == bits \cap BrewBlocking

PreBrewCheck ==
  /\ check' =
       [verdict |-> IF frame.state # "Ready" THEN "state"
                    ELSE IF Blocks(frame.bits) # {} THEN "alarms" ELSE "passed",
        from |-> frame.bits]
  /\ UNCHANGED <<machineVars, frame, elapsed, dataVars, seen, changes>>

PreBrewSkipped ==
  /\ check' = [verdict |-> "skipped", from |-> {}]
  /\ UNCHANGED <<machineVars, frame, elapsed, dataVars, seen, changes>>

-----------------------------------------------------------------------------

Next ==
  \/ \E b \in Ordinary : FaultChanges(b)
  \/ \E b \in Inverted : PartMoves(b) \/ ReadAvailable(b)
  \/ \E p \in PowerState : PowerChanges(p)
  \/ PushMonitor
  \/ TimePasses
  \/ \E status \in CloudStatus : Poll(status)
  \/ PollEmpty
  \/ PreBrewCheck \/ PreBrewSkipped

Spec == Init /\ [][Next]_vars

-----------------------------------------------------------------------------
(* Properties.                                                             *)

Verdict == {"none", "state", "alarms", "passed", "skipped"}

\* Types; and data["alarms"] lists exactly the bits of data["alarm_word"],
\* whatever was suppressed.
TypeOK ==
  /\ driven \subseteq Inverted
  /\ faults \subseteq Ordinary
  /\ missing \subseteq Inverted
  /\ power \in PowerState
  /\ {frame, lastRead} \subseteq Frame
  /\ {elapsed, hasWord, reliable} \subseteq BOOLEAN
  /\ state \in PowerState \cup {"Unknown"}
  /\ word \subseteq Bits
  /\ alarms = word
  /\ seen \subseteq Inverted
  /\ check \in [verdict : Verdict, from : SUBSET Bits]
  /\ changes \in Nat

\* No sensor reports a missing part on account of a bit that this firmware
\* never drives: what `available' and the pre-seeding learn is evidence.
NoPhantomAlarm == \A b \in Inverted : ShowsProblem(b) => b \in driven

\* An ordinary alarm, and a blocking one counted by the aggregate sensor, are
\* shown only while the last poll trusted the monitor they came from.
ShownAlarmsAreFresh ==
  (BlockingShown # {} \/ \E b \in Ordinary : ShowsProblem(b)) => reliable

\* Claim (coordinator.py: "Suppress alarms when monitor is unreliable"): the
\* alarm of a missing part is not shown from an untrusted monitor either.
InvertedSuppressedToo == (\E b \in Inverted : ShowsProblem(b)) => reliable

\* Claim (binary_sensor.py: an inverted alarm "is active when the bit is NOT
\* set"): a brew is not refused over a part whose bit says it is in place.
PresentPartDoesNotBlock ==
  check.verdict = "alarms" =>
    \E b \in Blocks(check.from) : b \in Inverted => b \notin check.from

\* Claim (coordinator.py: pre-seeding "avoids the cold-boot problem where HA
\* starts with tank already missing"): once a trusted poll has seen the
\* machine ready, a part it drives a bit for and that is missing is shown.
ColdBootShown ==
  hasWord /\ reliable /\ state = "Ready" =>
    \A b \in driven : b \notin word => ShowsProblem(b)

=============================================================================
