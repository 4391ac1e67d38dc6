------------------------------- MODULE Baseline -------------------------------
(***************************************************************************)
(* LocalBaselineStore and the counter sensors it corrects.  Some counters  *)
(* stop being sent to the cloud; the user records what the machine's       *)
(* screen shows, and a sensor shows the larger of the two.  The baselines  *)
(* live in one dictionary and in one file that Home Assistant's Store      *)
(* writes in the executor; a save gives way while it waits, and another    *)
(* service call may run.                                                   *)
(*                                                                         *)
(* External: Store.async_save writes the newest data handed to it, one     *)
(* write at a time; Store.async_remove does not wait for a write.          *)
(***************************************************************************)
EXTENDS Integers

CONSTANTS
  Counter,     \* the counter keys
  MaxValue,    \* bound on what a counter can be
  MaxCalls     \* bound on service calls and restarts

ASSUME BaselineAssumption == {MaxValue, MaxCalls} \subseteq Nat

Absent == -1
Text == -2       \* a value that int() refused
Number == 0..MaxValue
Values == [Counter -> Number \cup {Absent}]
NoValues == [k \in Counter |-> Absent]
NoFile == [there |-> FALSE, values |-> NoValues]
Nothing == [kind |-> "nothing", values |-> NoValues]

\* A save that waits holds the dictionary itself, which async_set_many goes on
\* changing until async_clear replaces it.
Current == [kind |-> "shared", values |-> NoValues]

VARIABLES
  pushed,    \* the counters this firmware sends to the cloud
  sent,      \* the value it sent last
  cloud,     \* coordinator.data["counters"]
  loaded,    \* _loaded
  values,    \* _values
  toSave,    \* what Store has still to write
  writing,   \* what a write in the executor holds
  removing,  \* an unlink in the executor
  file,
  recorded,  \* the last number each sensor had as its state
  calls,
  past       \* what has happened to the counters: see Disturbance

storeVars == <<loaded, values, toSave, writing, removing, file, calls>>
showVars == <<pushed, sent, cloud, recorded>>
vars == <<storeVars, showVars, past>>

\* A counter that was in the cloud was missing or not numeric, the baselines were
\* reset, one was set below what its sensor had shown.
Disturbance == {"vanished", "reset", "lowered"}

Init ==
  /\ pushed \in SUBSET Counter
  /\ sent = [k \in Counter |-> 0]
  /\ cloud = NoValues
  /\ loaded = FALSE
  /\ values = NoValues
  /\ toSave = Nothing
  /\ writing = Nothing
  /\ removing = FALSE
  /\ file = NoFile
  /\ recorded = [k \in Counter |-> 0]
  /\ calls = 0
  /\ past = {}

-----------------------------------------------------------------------------
(* What a sensor shows.                                                    *)

IsNumber(v) == v \in Number

\* LocalBaselineStore.merge: a comparison that fails leaves the cloud's value.
Merge(b, c) ==
  CASE b = Absent -> c
    [] b # Absent /\ c = Absent -> b
    [] b # Absent /\ c = Text -> c
    [] b # Absent /\ c \notin {Absent, Text} -> IF c >= b THEN c ELSE b

\* native_value; Absent stands for unknown.
NativeValue(b, c) == IF IsNumber(Merge(b, c)) THEN Merge(b, c) ELSE Absent
Shown(k) == NativeValue(values[k], cloud[k])

\* The attribute "source", of a sensor with a baseline.
Source(k) ==
  CASE cloud[k] \in {Absent, Text} -> "baseline"
    [] cloud[k] \notin {Absent, Text} -> IF cloud[k] < values[k] THEN "baseline" ELSE "cloud"

\* A counter of the machine grows, and the firmware sends it.
Push(k) ==
  /\ k \in pushed
  /\ sent[k] < MaxValue
  /\ sent' = [sent EXCEPT ![k] = @ + 1]
  /\ UNCHANGED <<storeVars, pushed, cloud, recorded, past>>

\* What a full refresh can find of a counter.
Found(k) ==
  (IF k \in pushed THEN {sent[k]} ELSE {Absent}) \cup
  (IF k \in pushed THEN {Absent, Text} ELSE {})

\* A poll that refreshes the counters, and the sensors write their states.
Refresh(c) ==
  /\ loaded
  /\ \A k \in Counter : c[k] \in Found(k)
  /\ cloud' = c
  /\ recorded' = [k \in Counter |->
       LET v == NativeValue(values[k], c[k]) IN IF v = Absent THEN recorded[k] ELSE v]
  /\ past' = IF \E k \in pushed : ~IsNumber(c[k]) THEN past \cup {"vanished"} ELSE past
  /\ UNCHANGED <<storeVars, pushed, sent>>

-----------------------------------------------------------------------------
(* The services and the file.                                              *)

Calls ==
  /\ calls < MaxCalls
  /\ calls' = calls + 1
  /\ UNCHANGED showVars

MutUpdated(new) == new
Updated(new) == [k \in Counter |-> IF new[k] = Absent THEN values[k] ELSE new[k]]

MutSaved == IF writing = Nothing THEN Current ELSE toSave
Saved == Current

\* set_baseline_from_screen: async_load, then async_set_many up to its save.
\* Setting one counter leaves the others alone.
SetMany(k, n) ==
  /\ loaded
  /\ values' = Updated([NoValues EXCEPT ![k] = n])
  /\ toSave' = Saved
  /\ Calls
  /\ past' = IF n < recorded[k] THEN past \cup {"lowered"} ELSE past
  /\ UNCHANGED <<loaded, writing, removing, file>>

\* What a save holds once it lets go of the dictionary.
Released(save) == IF save = Current THEN [kind |-> "own", values |-> values] ELSE save

\* reset_local_baseline: async_clear up to its removal of the file.
Clear ==
  /\ loaded
  /\ ~removing
  /\ values' = NoValues
  /\ toSave' = Released(toSave)
  /\ removing' = TRUE
  /\ Calls
  /\ past' = past \cup {"reset"}
  /\ UNCHANGED <<loaded, writing, file>>

\* The write takes the lock, and the dictionary as it is.
StartWrite ==
  /\ toSave # Nothing
  /\ writing = Nothing
  /\ writing' = Released(toSave)
  /\ toSave' = Nothing
  /\ UNCHANGED <<loaded, values, removing, file, calls, showVars, past>>

EndWrite ==
  /\ writing # Nothing
  /\ file' = [there |-> TRUE, values |-> writing.values]
  /\ writing' = Nothing
  /\ UNCHANGED <<loaded, values, toSave, removing, calls, showVars, past>>

Unlink ==
  /\ removing
  /\ file' = NoFile
  /\ removing' = FALSE
  /\ UNCHANGED <<loaded, values, toSave, writing, calls, showVars, past>>

Settled == toSave = Nothing /\ writing = Nothing /\ ~removing

\* Home Assistant is restarted, once what it had in hand is done.
Restart ==
  /\ Settled
  /\ loaded' = FALSE
  /\ values' = NoValues
  /\ cloud' = NoValues
  /\ calls < MaxCalls
  /\ calls' = calls + 1
  /\ UNCHANGED <<toSave, writing, removing, file, pushed, sent, recorded, past>>

\* async_load, in the first poll, before anything is shown.
Load ==
  /\ ~loaded
  /\ loaded' = TRUE
  /\ values' = file.values
  /\ UNCHANGED <<toSave, writing, removing, file, calls, showVars, past>>

-----------------------------------------------------------------------------

Next ==
  \/ \E k \in Counter : Push(k)
  \/ \E c \in [Counter -> Number \cup {Absent, Text}] : Refresh(c)
  \/ \E k \in Counter, n \in Number : SetMany(k, n)
  \/ Clear
  \/ StartWrite \/ EndWrite \/ Unlink
  \/ Restart \/ Load

Spec == Init /\ [][Next]_vars

-----------------------------------------------------------------------------
(* Properties.                                                             *)

Save == {Nothing, Current} \cup [kind : {"own"}, values : Values]

\* Types; and nothing is written or set before the file was read.
TypeOK ==
  /\ pushed \subseteq Counter
  /\ sent \in [Counter -> Number]
  /\ cloud \in [Counter -> Number \cup {Absent, Text}]
  /\ values \in Values
  /\ {toSave, writing} \subseteq Save
  /\ {loaded, removing} \subseteq BOOLEAN
  /\ file \in [there : BOOLEAN, values : Values]
  /\ recorded \in [Counter -> Number]
  /\ calls \in 0..MaxCalls
  /\ past \subseteq Disturbance
  /\ ~loaded => Settled /\ values = NoValues

\* When the Store has nothing in hand, the file holds every baseline there is,
\* however the saves overlapped: a restart brings them all back. After a reset
\* the file may be gone, when a removal overtook a later write; but it never
\* holds values other than the ones in memory.
FileIsMemory ==
  loaded /\ Settled /\ values # NoValues =>
    \/ file = [there |-> TRUE, values |-> values]
    \/ "reset" \in past /\ file = NoFile

\* The recorded state of a counter sensor never falls, while its counter stays
\* in the cloud and nobody resets a baseline or sets one below it: not when the
\* cloud passes the baseline, not across a restart.
NeverFalls ==
  [][past' = {} => \A k \in Counter : recorded'[k] >= recorded[k]]_vars

\* Claim (local_baseline.py: async_clear is to "drop all baselines and remove
\* the storage file"): once that is done, no file is left to bring them back.
ClearedStaysCleared == loaded /\ Settled /\ values = NoValues => file = NoFile

\* Claim (sensor.py: "TOTAL_INCREASING semantics are never violated"): the same,
\* whatever the refreshes find in the cloud.
NeverFallsAtAll ==
  [][past' \subseteq {"vanished"} => \A k \in Counter : recorded'[k] >= recorded[k]]_vars

\* Claim (sensor.py: "on incompatible types the cloud value lost, so the
\* baseline is what the sensor shows"): a sensor whose source is the baseline
\* shows the baseline.
SourceIsShown ==
  \A k \in Counter :
    loaded /\ values[k] # Absent /\ Source(k) = "baseline" => Shown(k) = values[k]

=============================================================================
