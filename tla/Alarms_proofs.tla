----------------------------- MODULE Alarms_proofs -----------------------------
(***************************************************************************)
(* Proofs about Alarms, for any sets of bits and any number of datapoints  *)
(* and changes: the types, the evidence behind an alarm of a missing part, *)
(* and the trust behind every other one.                                   *)
(***************************************************************************)
EXTENDS Alarms, TLAPS

-----------------------------------------------------------------------------
(* Types.                                                                  *)

MachineTypeOK ==
  /\ driven \subseteq Inverted
  /\ faults \subseteq Ordinary
  /\ missing \subseteq Inverted
  /\ power \in PowerState

DataTypeOK ==
  /\ lastRead \in Frame
  /\ hasWord \in BOOLEAN /\ reliable \in BOOLEAN
  /\ state \in PowerState \cup {"Unknown"}
  /\ word \subseteq Bits
  /\ alarms = word

OtherTypeOK ==
  /\ frame \in Frame
  /\ elapsed \in BOOLEAN
  /\ seen \subseteq Inverted
  /\ check \in [verdict : Verdict, from : SUBSET Bits]
  /\ changes \in Nat

\* The type invariant in parts.
LEMMA TypeParts == TypeOK <=> MachineTypeOK /\ DataTypeOK /\ OtherTypeOK
  BY DEF TypeOK, MachineTypeOK, DataTypeOK, OtherTypeOK

\* A step that leaves the machine alone, or the data, keeps their types.
LEMMA SameMachine == ASSUME MachineTypeOK, UNCHANGED machineVars PROVE MachineTypeOK'
  BY DEF MachineTypeOK, machineVars

LEMMA SameData == ASSUME DataTypeOK, UNCHANGED dataVars PROVE DataTypeOK'
  BY DEF DataTypeOK, dataVars

\* The bits that the machine's condition makes are bits of the word.
LEMMA WordTypes == ASSUME MachineTypeOK PROVE Word(driven, faults, missing) \subseteq Bits
  BY DEF MachineTypeOK, Word, Bits

\* A poll keeps the types of the data and of what was learnt.
LEMMA PollTypes ==
  ASSUME DataTypeOK, OtherTypeOK, NEW status \in CloudStatus, Poll(status)
  PROVE  DataTypeOK' /\ OtherTypeOK'
  <1>1. frame.state \in PowerState /\ frame.bits \subseteq Bits
    BY DEF OtherTypeOK, Frame
  <1>2. ShownState(status) \in PowerState
    BY <1>1 DEF ShownState, PowerState
  <1>3. DataTypeOK'
    BY <1>1, <1>2 DEF Poll, DataTypeOK, OtherTypeOK, KeptAlarms
  <1>4. Preseeded(status) \subseteq Inverted
    BY DEF Preseeded
  <1>5. elapsed' \in BOOLEAN
    BY DEF Poll, OtherTypeOK
  <1>6. QED
    BY <1>3, <1>4, <1>5 DEF Poll, OtherTypeOK

\* For every value of the constants every variable stays in its range, and
\* data["alarms"] lists exactly the bits of data["alarm_word"].
THEOREM TypesHold == Spec => []TypeOK
  <1>1. Init => TypeOK
    <2> SUFFICES ASSUME Init PROVE TypeOK
      OBVIOUS
    <2>1. MachineTypeOK
      BY DEF Init, MachineTypeOK
    <2>2. DataTypeOK
      BY DEF Init, DataTypeOK, Frame, PowerState
    <2>3. frame \in Frame
      BY <2>1, WordTypes DEF Init, Frame
    <2>4. OtherTypeOK
      BY <2>3 DEF Init, OtherTypeOK, Verdict
    <2>5. QED
      BY <2>1, <2>2, <2>4, TypeParts
  <1>2. TypeOK /\ [Next]_vars => TypeOK'
    <2> SUFFICES ASSUME MachineTypeOK, DataTypeOK, OtherTypeOK, [Next]_vars
                 PROVE  MachineTypeOK' /\ DataTypeOK' /\ OtherTypeOK'
      BY DEF TypeOK, MachineTypeOK, DataTypeOK, OtherTypeOK
    <2>1. ASSUME NEW b \in Ordinary, FaultChanges(b)
          PROVE  MachineTypeOK' /\ DataTypeOK' /\ OtherTypeOK'
      BY <2>1, SameData DEF FaultChanges, Change, MachineTypeOK, OtherTypeOK
    <2>2. ASSUME NEW b \in Inverted, PartMoves(b)
          PROVE  MachineTypeOK' /\ DataTypeOK' /\ OtherTypeOK'
      BY <2>2, SameData DEF PartMoves, Change, MachineTypeOK, OtherTypeOK
    <2>3. ASSUME NEW p \in PowerState, PowerChanges(p)
          PROVE  MachineTypeOK' /\ DataTypeOK' /\ OtherTypeOK'
      BY <2>3, SameData DEF PowerChanges, Change, MachineTypeOK, OtherTypeOK
    <2>4. CASE PushMonitor
      <3>1. frame' \in Frame
        BY <2>4, WordTypes DEF PushMonitor, OtherTypeOK, MachineTypeOK, Frame
      <3>2. QED
        BY <2>4, <3>1, SameMachine, SameData DEF PushMonitor, OtherTypeOK
    <2>5. CASE TimePasses
      BY <2>5, SameMachine, SameData DEF TimePasses, OtherTypeOK
    <2>6. ASSUME NEW status \in CloudStatus, Poll(status)
          PROVE  MachineTypeOK' /\ DataTypeOK' /\ OtherTypeOK'
      BY <2>6, PollTypes, SameMachine DEF Poll
    <2>7. CASE PollEmpty
      <3>1. DataTypeOK'
        BY <2>7 DEF PollEmpty, DataTypeOK, Frame, PowerState
      <3>2. QED
        BY <2>7, <3>1, SameMachine DEF PollEmpty, OtherTypeOK
    <2>8. ASSUME NEW b \in Inverted, ReadAvailable(b)
          PROVE  MachineTypeOK' /\ DataTypeOK' /\ OtherTypeOK'
      BY <2>8, SameMachine, SameData DEF ReadAvailable, OtherTypeOK
    <2>9. CASE PreBrewCheck
      <3>1. check' \in [verdict : Verdict, from : SUBSET Bits]
        BY <2>9 DEF PreBrewCheck, OtherTypeOK, Frame, Verdict
      <3>2. QED
        BY <2>9, <3>1, SameMachine, SameData DEF PreBrewCheck, OtherTypeOK
    <2>10. CASE PreBrewSkipped
      BY <2>10, SameMachine, SameData DEF PreBrewSkipped, OtherTypeOK, Verdict
    <2>11. CASE UNCHANGED vars
      BY <2>11, SameMachine, SameData DEF vars, OtherTypeOK
    <2>12. QED
      BY <2>1, <2>2, <2>3, <2>4, <2>5, <2>6, <2>7, <2>8, <2>9, <2>10, <2>11 DEF Next
  <1>3. QED
    BY <1>1, <1>2, PTL DEF Spec

-----------------------------------------------------------------------------
(* Evidence for a missing part.                                            *)

\* An inverted bit is set, or was seen set, only where the firmware drives it.
Evidence ==
  /\ frame.bits \cap Inverted \subseteq driven
  /\ word \cap Inverted \subseteq driven
  /\ seen \subseteq driven

\* An ordinary alarm is no inverted bit, so that a datapoint is evidence.
LEMMA WordIsEvidence ==
  ASSUME MachineTypeOK PROVE Word(driven, faults, missing) \cap Inverted \subseteq driven
  BY AlarmsAssumption DEF MachineTypeOK, Word

LEMMA EvidenceStep == TypeOK /\ Evidence /\ [Next]_vars => Evidence'
  <1> SUFFICES ASSUME MachineTypeOK, OtherTypeOK, Evidence, [Next]_vars PROVE Evidence'
    BY TypeParts
  <1>1. ASSUME UNCHANGED <<driven, frame, word, seen>> PROVE Evidence'
    BY <1>1 DEF Evidence
  <1>2. CASE PushMonitor
    <2>1. frame'.bits = Word(driven, faults, missing)
      BY <1>2 DEF PushMonitor
    <2>2. QED
      BY <1>2, <2>1, WordIsEvidence DEF PushMonitor, machineVars, dataVars, Evidence
  <1>3. ASSUME NEW status \in CloudStatus, Poll(status) PROVE Evidence'
    BY <1>3 DEF Poll, Preseeded, machineVars, Evidence
  <1>4. CASE PollEmpty
    BY <1>4 DEF PollEmpty, machineVars, Evidence
  <1>5. ASSUME NEW b \in Inverted, ReadAvailable(b) PROVE Evidence'
    BY <1>5 DEF ReadAvailable, machineVars, dataVars, Evidence
  <1>6. CASE \/ \E b \in Ordinary : FaultChanges(b)
             \/ \E b \in Inverted : PartMoves(b)
             \/ \E p \in PowerState : PowerChanges(p)
    BY <1>1, <1>6 DEF FaultChanges, PartMoves, PowerChanges, Change, dataVars
  <1>7. CASE TimePasses \/ PreBrewCheck \/ PreBrewSkipped \/ UNCHANGED vars
    BY <1>1, <1>7 DEF TimePasses, PreBrewCheck, PreBrewSkipped, vars, machineVars, dataVars
  <1>8. QED
    BY <1>2, <1>3, <1>4, <1>5, <1>6, <1>7 DEF Next

\* For every value of the constants: no sensor reports a missing part on account of
\* a bit that this firmware never drives.
THEOREM AlarmsAreEvident == Spec => []NoPhantomAlarm
  <1>1. Init => Evidence
    <2> SUFFICES ASSUME Init PROVE Evidence
      OBVIOUS
    <2>1. MachineTypeOK
      BY DEF Init, MachineTypeOK
    <2>2. QED
      BY <2>1, WordIsEvidence DEF Init, Evidence
  <1>2. Evidence => NoPhantomAlarm
    BY DEF Evidence, NoPhantomAlarm, ShowsProblem, Available, IsOn
  <1>3. QED
    BY <1>1, <1>2, EvidenceStep, TypesHold, PTL DEF Spec

-----------------------------------------------------------------------------
(* Trust.                                                                  *)

\* A bit is in the data only if the last poll trusted the monitor.
Trusted == word # {} => reliable

LEMMA TrustedStep == TypeOK /\ Trusted /\ [Next]_vars => Trusted'
  <1> SUFFICES ASSUME Trusted, [Next]_vars PROVE Trusted'
    OBVIOUS
  <1>1. ASSUME UNCHANGED <<word, reliable>> PROVE Trusted'
    BY <1>1 DEF Trusted
  <1>2. ASSUME NEW status \in CloudStatus, Poll(status) PROVE Trusted'
    BY <1>2 DEF Poll, Suppresses, Unreliable, TimedOut, IsNew, Trusted
  <1>3. CASE PollEmpty
    BY <1>3 DEF PollEmpty, Trusted
  <1>4. CASE \/ \E b \in Ordinary : FaultChanges(b)
             \/ \E b \in Inverted : PartMoves(b) \/ ReadAvailable(b)
             \/ \E p \in PowerState : PowerChanges(p)
    BY <1>1, <1>4 DEF FaultChanges, PartMoves, PowerChanges, ReadAvailable, Change, dataVars
  <1>5. CASE PushMonitor \/ TimePasses \/ PreBrewCheck \/ PreBrewSkipped \/ UNCHANGED vars
    BY <1>1, <1>5 DEF PushMonitor, TimePasses, PreBrewCheck, PreBrewSkipped, vars, dataVars
  <1>6. QED
    BY <1>2, <1>3, <1>4, <1>5 DEF Next

\* For every value of the constants: an ordinary alarm, and a blocking one counted by
\* the aggregate sensor, are shown only while the last poll trusted the monitor.
THEOREM AlarmsAreTrusted == Spec => []ShownAlarmsAreFresh
  <1>1. Init => Trusted
    BY DEF Init, Trusted
  <1>2. TypeOK /\ Trusted => ShownAlarmsAreFresh
    BY AlarmsAssumption DEF TypeOK, Trusted, ShownAlarmsAreFresh, BlockingShown, ShowsProblem, IsOn
  <1>3. QED
    BY <1>1, <1>2, TrustedStep, TypesHold, PTL DEF Spec

=============================================================================
