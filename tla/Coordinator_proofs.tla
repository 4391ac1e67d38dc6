-------------------------- MODULE Coordinator_proofs --------------------------
(***************************************************************************)
(* Proofs about Coordinator: the types, the poll interval, the selected    *)
(* profile, the monitor taken for frozen, and the two deadlines, for any   *)
(* intervals, timeouts and numbers of requests, datapoints and faults.     *)
(***************************************************************************)
EXTENDS Coordinator, TLAPS

-----------------------------------------------------------------------------
(* The constants, and the operators of a cycle.                            *)

\* What CoordinatorAssumption says of each constant.
LEMMA ConstantTypes ==
  /\ ScanInterval \in Nat \ {0} /\ ActiveInterval \in Nat \ {0} /\ FastInterval \in Nat \ {0}
  /\ FastInterval <= ScanInterval /\ ActiveInterval <= ScanInterval
  /\ FastWindow \in Nat \ {0}
  /\ FullInterval \in Nat /\ Keepalive \in Nat /\ StaleTimeout \in Nat
  /\ RetryMax \in Nat /\ CycleMax \in Nat
  /\ MaxPushes \in Nat /\ MaxFaults \in Nat
  /\ StartTimes \subseteq Nat
  /\ Never \in Nat
  BY CoordinatorAssumption DEF Never

\* The delay before the catalogue is tried again is never above its ceiling.
LEMMA BackoffBounded ==
  ASSUME NEW failures \in Nat
  PROVE  Backoff(failures) \in 0 .. RetryMax
  BY ConstantTypes DEF Backoff

\* The interval after the top of a cycle is one of the three, or the one there was.
LEMMA AdaptedTypes ==
  ASSUME WorldOK, IntervalOK, AdaptInterval
  PROVE  IntervalOK'
  <1> USE ConstantTypes
  <1>1. FastAfter \in Nat /\ IntervalBase \in Nat \ {0}
    BY DEF IntervalOK, FastAfter, IntervalBase
  <1>2. fastUntil' \in Nat
    BY <1>1 DEF AdaptInterval
  <1>3. interval' \in Nat \ {0} /\ activePolling' \in BOOLEAN
    BY <1>1 DEF AdaptInterval, IntervalOK
  <1>4. QED
    BY <1>2, <1>3 DEF IntervalOK

\* A fast window is a window, wherever the clock is.
LEMMA FastPollTypes ==
  ASSUME WorldOK, IntervalOK, FastPoll
  PROVE  IntervalOK' /\ fastUntil' # 0
  <1>1. now + FastWindow \in Nat \ {0}
    BY ConstantTypes DEF WorldOK
  <1>2. Later(fastUntil, now + FastWindow) \in Nat \ {0}
    BY <1>1 DEF Later, IntervalOK
  <1>3. QED
    BY <1>2, ConstantTypes DEF FastPoll, IntervalOK

\* The next cycle is planned at a time, if only at the one that stands for never.
LEMMA PlannedType ==
  ASSUME WorldOK, IntervalOK
  PROVE  Planned \in Nat
  BY ConstantTypes DEF WorldOK, IntervalOK, Planned

-----------------------------------------------------------------------------
(* Types.  Most groups of variables are left alone by most steps.          *)

LEMMA SameMonitor == ASSUME MonitorOK, UNCHANGED monitorVars PROVE MonitorOK'
  BY DEF MonitorOK, monitorVars
LEMMA SameLan == ASSUME LanOK, UNCHANGED lanVars PROVE LanOK'
  BY DEF LanOK, lanVars
LEMMA SameRefresh == ASSUME RefreshOK, UNCHANGED refreshVars PROVE RefreshOK'
  BY DEF RefreshOK, refreshVars
LEMMA SameInterval == ASSUME IntervalOK, UNCHANGED intervalVars PROVE IntervalOK'
  BY DEF IntervalOK, intervalVars
LEMMA SameProfile == ASSUME ProfileOK, UNCHANGED profileVars PROVE ProfileOK'
  BY DEF ProfileOK, profileVars
LEMMA SameCycle == ASSUME CycleOK, UNCHANGED cycleVars PROVE CycleOK'
  BY DEF CycleOK, cycleVars
LEMMA SameCatalog == ASSUME CsOK, now \in Nat, UNCHANGED <<csVars, now>> PROVE CsOK'
  BY DEF CsOK, csVars
LEMMA SameWorld ==
  ASSUME WorldOK, UNCHANGED <<now, phase, rejected, frame, lastPing>> PROVE WorldOK'
  BY DEF WorldOK

\* A cycle that fails ends with nothing in hand and its successor planned.
LEMMA FailureTypes ==
  ASSUME TypeOK, NEW due \in Nat, CycleFails(due)
  PROVE  /\ CycleOK' /\ PlanOK' /\ IntervalOK' /\ MonitorOK' /\ CsOK' /\ ProfileOK'
         /\ now' = now /\ frame' = frame /\ phase' \in {phase, "failed"}
         /\ pushVars' = pushVars /\ requests' = requests
  <1> USE DEF TypeOK, CycleFails
  <1>1. CycleOK'
    BY DEF CycleOK, Stages, Reading, NoReading, MachineStates
  <1>2. PlanOK'
    BY DEF PlanOK
  <1>3. CsOK'
    BY SameCatalog DEF WorldOK
  <1>4. QED
    BY <1>1, <1>2, <1>3, SameInterval, SameMonitor, SameProfile

\* The end of a full refresh, and what comes before it, moves the two clocks to
\* the start of the cycle.
LEMMA OnwardTypes ==
  ASSUME CycleOK, RefreshOK, Onward \/ FullRefreshed
  PROVE  RefreshOK' /\ pc' \in {"content", "publish"}
  <1>1. CASE FullRefreshed
    BY <1>1 DEF FullRefreshed, CycleOK, RefreshOK
  <1>2. CASE pc' = "content" /\ UNCHANGED refreshVars
    BY <1>2, SameRefresh
  <1>3. QED
    BY <1>1, <1>2 DEF Onward

LEMMA StepKeepsTypes == TypeOK /\ [Next]_vars => TypeOK'
  <1> SUFFICES ASSUME TypeOK, [Next]_vars PROVE TypeOK'
    OBVIOUS
  <1>g. /\ WorldOK /\ CycleOK /\ PlanOK /\ IntervalOK /\ RefreshOK
        /\ MonitorOK /\ LanOK /\ CsOK /\ ProfileOK /\ CountOK
    BY DEF TypeOK
  <1>n. now \in Nat
    BY <1>g DEF WorldOK
  <1> USE ConstantTypes, SameMonitor, SameLan, SameRefresh, SameInterval, SameProfile,
          SameCycle, SameCatalog, SameWorld
  <1>1. CASE Tick
    <2>1. WorldOK' /\ CsOK'
      BY <1>1, <1>g DEF Tick, WorldOK, CsOK, csVars
    <2>2. PlanOK' /\ CountOK'
      BY <1>1, <1>g DEF Tick, PlanOK, WorldOK, CountOK, pushVars, faultVars, planVars, countVars
    <2>3. QED
      BY <1>1, <1>g, <2>1, <2>2 DEF Tick, TypeOK
  <1>2. CASE \E state \in States : MonitorPushed(state)
    <2>1. PICK state \in States : MonitorPushed(state)
      BY <1>2
    <2>2. WorldOK'
      BY <2>1, <1>g DEF MonitorPushed, WorldOK
    <2>3. PlanOK' /\ CountOK'
      BY <2>1, <1>g DEF MonitorPushed, PlanOK, WorldOK, CountOK, pushVars, faultVars, planVars, countVars
    <2>4. QED
      BY <2>1, <1>g, <1>n, <2>2, <2>3 DEF MonitorPushed, TypeOK
  <1>3. CASE RefreshAfterCommand
    <2>1. IntervalOK'
      BY <1>3, <1>g, FastPollTypes DEF RefreshAfterCommand
    <2>2. PlanOK' /\ CountOK'
      BY <1>3, <1>g DEF RefreshAfterCommand, Requests, PlanOK, WorldOK, CountOK, pushVars, faultVars
    <2>3. QED
      BY <1>3, <1>g, <1>n, <2>1, <2>2 DEF RefreshAfterCommand, TypeOK
  <1>4. CASE \E pid \in Profiles \ {0} : SelectOption(pid)
    <2>1. PICK pid \in Profiles \ {0} : SelectOption(pid)
      BY <1>4
    <2>2. IntervalOK'
      BY <2>1, <1>g, FastPollTypes DEF SelectOption
    <2>3. PlanOK' /\ CountOK' /\ ProfileOK'
      BY <2>1, <1>g DEF SelectOption, Requests, PlanOK, WorldOK, CountOK, pushVars, faultVars, ProfileOK
    <2>4. QED
      BY <2>1, <1>g, <1>n, <2>2, <2>3 DEF SelectOption, TypeOK
  <1>5. CASE OnLanProperty
    <2>1. now + interval \in Nat
      BY <1>g, <1>n DEF IntervalOK
    <2>2. PlanOK'
      BY <1>5, <1>g, <2>1 DEF OnLanProperty, PlanOK
    <2>3. CountOK'
      BY <1>5, <1>g DEF OnLanProperty, WorldOK, CountOK, pushVars, faultVars
    <2>4. QED
      BY <1>5, <1>g, <1>n, <2>2, <2>3 DEF OnLanProperty, TypeOK
  <1>6. CASE BeginCycle
    <2>1. IntervalOK'
      BY <1>6, <1>g, AdaptedTypes DEF BeginCycle
    <2>2. PlanOK' /\ CountOK'
      BY <1>6, <1>g DEF BeginCycle, PlanOK, WorldOK, CountOK, pushVars, faultVars, countVars
    <2>3. CycleOK'
      BY <1>6, <1>g, <1>n DEF BeginCycle, CycleOK, NeedsFull, Stages
    <2>4. QED
      BY <1>6, <1>g, <1>n, <2>1, <2>2, <2>3 DEF BeginCycle, TypeOK
  <1>7. CASE \E run \in BOOLEAN, p \in Profiles : StatusRead(run, p)
    <2>1. PICK run \in BOOLEAN, p \in Profiles : StatusRead(run, p)
      BY <1>7
    <2>2. reading' \in Reading
      BY <2>1, <1>g DEF StatusRead, Reading, MachineStates, WorldOK
    <2>3. CycleOK' /\ ProfileOK'
      BY <2>1, <1>g, <2>2
      DEF StatusRead, AfterStatus, CycleOK, Stages, ProfileOK, SeedProfile
    <2>4. PlanOK' /\ CountOK'
      BY <2>1, <1>g DEF StatusRead, PlanOK, WorldOK, CountOK, pushVars, faultVars, planVars, countVars
    <2>5. QED
      BY <2>1, <1>g, <1>n, <2>3, <2>4 DEF StatusRead, TypeOK
  <1>8. CASE StatusSwallowed
    <2>1. CycleOK'
      BY <1>8, <1>g
      DEF StatusSwallowed, AfterStatus, CycleOK, Stages, Reading, NoReading, MachineStates
    <2>2. PlanOK' /\ CountOK'
      BY <1>8, <1>g DEF StatusSwallowed, Fault, PlanOK, WorldOK, CountOK, pushVars, faultVars, planVars
    <2>3. QED
      BY <1>8, <1>g, <1>n, <2>1, <2>2 DEF StatusSwallowed, TypeOK
  <1>9. CASE AuthFails
    <2>1. CycleFails(Never)
      BY <1>9 DEF AuthFails
    <2>2. CountOK'
      BY <1>9, <1>g, <2>1, FailureTypes DEF AuthFails, Fault, WorldOK, CountOK, pushVars, faultVars
    <2>3. WorldOK'
      BY <1>9, <1>g, <2>1, FailureTypes DEF AuthFails, WorldOK
    <2>4. QED
      BY <1>9, <1>g, <2>1, <2>2, <2>3, FailureTypes DEF AuthFails, TypeOK
  <1>10. CASE PropsFail
    <2>1. CycleFails(Planned) /\ Planned \in Nat
      BY <1>10, <1>g, PlannedType DEF PropsFail
    <2>2. CountOK'
      BY <1>10, <1>g, <2>1, FailureTypes DEF PropsFail, Fault, WorldOK, CountOK, pushVars, faultVars
    <2>3. WorldOK'
      BY <1>10, <1>g, <2>1, FailureTypes DEF PropsFail, WorldOK
    <2>4. QED
      BY <1>10, <1>g, <2>1, <2>2, <2>3, FailureTypes DEF PropsFail, TypeOK
  <1>11. CASE PingRaises
    <2>1. CycleFails(Planned) /\ Planned \in Nat
      BY <1>11, <1>g, PlannedType DEF PingRaises
    <2>2. CountOK'
      BY <1>11, <1>g, <2>1, FailureTypes DEF PingRaises, Fault, WorldOK, CountOK, pushVars, faultVars
    <2>3. WorldOK'
      BY <1>11, <1>g, <2>1, FailureTypes DEF PingRaises, WorldOK
    <2>4. QED
      BY <1>11, <1>g, <2>1, <2>2, <2>3, FailureTypes DEF PingRaises, TypeOK
  <1>12. CASE Pinged
    <2>1. CycleOK' /\ RefreshOK'
      BY <1>12, <1>g DEF Pinged, CycleOK, RefreshOK, Stages
    <2>2. WorldOK'
      BY <1>12, <1>g DEF Pinged, WorldOK
    <2>3. PlanOK' /\ CountOK'
      BY <1>12, <1>g DEF Pinged, PlanOK, WorldOK, CountOK, pushVars, faultVars, planVars, countVars
    <2>4. QED
      BY <1>12, <1>g, <1>n, <2>1, <2>2, <2>3 DEF Pinged, TypeOK
  <1>13. CASE PingRefused
    <2>1. CycleOK' /\ RefreshOK'
      BY <1>13, <1>g DEF PingRefused, CycleOK, RefreshOK, Stages
    <2>2. WorldOK'
      BY <1>13, <1>g DEF PingRefused, WorldOK
    <2>3. PlanOK' /\ CountOK'
      BY <1>13, <1>g DEF PingRefused, Fault, PlanOK, WorldOK, CountOK, pushVars, faultVars, planVars
    <2>4. QED
      BY <1>13, <1>g, <1>n, <2>1, <2>2, <2>3 DEF PingRefused, TypeOK
  <1>14. CASE PropsFetched
    <2>1. CycleOK' /\ RefreshOK'
      BY <1>14, <1>g, OnwardTypes DEF PropsFetched, CycleOK, Stages
    <2>2. PlanOK' /\ CountOK'
      BY <1>14, <1>g DEF PropsFetched, PlanOK, WorldOK, CountOK, pushVars, faultVars, planVars, countVars
    <2>3. QED
      BY <1>14, <1>g, <1>n, <2>1, <2>2 DEF PropsFetched, TypeOK
  <1>15. CASE \E ok \in BOOLEAN : LanConfigFetched(ok)
    <2>1. PICK ok \in BOOLEAN : LanConfigFetched(ok)
      BY <1>15
    <2>2. CycleOK' /\ RefreshOK'
      BY <2>1, <1>g, OnwardTypes DEF LanConfigFetched, CycleOK, Stages
    <2>3. PlanOK' /\ CountOK' /\ LanOK'
      BY <2>1, <1>g DEF LanConfigFetched, PlanOK, WorldOK, CountOK, pushVars, faultVars, LanOK, planVars, countVars
    <2>4. QED
      BY <2>1, <1>g, <1>n, <2>2, <2>3 DEF LanConfigFetched, TypeOK
  <1>16. CASE \E ok \in BOOLEAN : LanStarted(ok)
    <2>1. PICK ok \in BOOLEAN : LanStarted(ok)
      BY <1>16
    <2>2. CycleOK' /\ RefreshOK'
      BY <2>1, <1>g, OnwardTypes DEF LanStarted, CycleOK, Stages
    <2>3. PlanOK' /\ CountOK' /\ LanOK'
      BY <2>1, <1>g DEF LanStarted, Fault, PlanOK, WorldOK, CountOK, pushVars, faultVars, LanOK, planVars
    <2>4. QED
      BY <2>1, <1>g, <1>n, <2>2, <2>3 DEF LanStarted, TypeOK
  <1>17. CASE \E ok \in BOOLEAN : LanRegistered(ok)
    <2>1. PICK ok \in BOOLEAN : LanRegistered(ok)
      BY <1>17
    <2>2. CycleOK' /\ RefreshOK'
      BY <2>1, <1>g, OnwardTypes DEF LanRegistered, CycleOK, Stages
    <2>3. PlanOK' /\ CountOK' /\ LanOK'
      BY <2>1, <1>g DEF LanRegistered, Fault, PlanOK, WorldOK, CountOK, pushVars, faultVars, LanOK, planVars
    <2>4. QED
      BY <2>1, <1>g, <1>n, <2>2, <2>3 DEF LanRegistered, TypeOK
  <1>18. CASE \E ok \in BOOLEAN : ContentLoaded(ok)
    <2>1. PICK ok \in BOOLEAN : ContentLoaded(ok)
      BY <1>18
    <2>2. CycleOK' /\ RefreshOK'
      BY <2>1, <1>g, OnwardTypes DEF ContentLoaded, CycleOK, Stages
    <2>3. Backoff(csFailures + 1) \in 0 .. RetryMax
      BY <1>g, BackoffBounded DEF CsOK
    <2>4. CsOK'
      <3>0. now' = now /\ csFailures' \in Nat
        BY <2>1, <1>g DEF ContentLoaded, CsOK
      <3>1. csLoaded' \in BOOLEAN
        BY <2>1, <1>g, Zenon DEF ContentLoaded, CsOK
      <3>2. csNextRetry' = 0 \/ csNextRetry' = now + Backoff(csFailures + 1)
        BY <2>1 DEF ContentLoaded
      <3>3. csNextRetry' \in 0 .. (now + RetryMax)
        BY <3>2, <2>3, <1>n
      <3>4. QED
        BY <3>0, <3>1, <3>3 DEF CsOK
    <2>5. PlanOK' /\ CountOK'
      BY <2>1, <1>g DEF ContentLoaded, Fault, PlanOK, WorldOK, CountOK, pushVars, faultVars, planVars
    <2>6. QED
      BY <2>1, <1>g, <1>n, <2>2, <2>4, <2>5 DEF ContentLoaded, TypeOK
  <1>19. CASE Publish
    <2>1. CycleOK'
      BY <1>19, <1>g DEF Publish, CycleOK, Stages, Reading, NoReading, MachineStates
    <2>2. lastRaw' \in Reading /\ reading \in Reading
      BY <1>19, <1>g DEF Publish, CycleOK, Reading
    <2>3. MonitorOK'
      BY <1>19, <1>g, <1>n, <2>2
      DEF Publish, MonitorOK, LastChangedAfter, Reading, MachineStates
    <2>4. PlanOK'
      BY <1>19, <1>g, PlannedType DEF Publish, PlanOK
    <2>5. WorldOK' /\ CountOK'
      BY <1>19, <1>g DEF Publish, WorldOK, CountOK, pushVars, faultVars, countVars
    <2>6. QED
      BY <1>19, <1>g, <1>n, <2>1, <2>3, <2>4, <2>5 DEF Publish, TypeOK
  <1>20. CASE Unload
    <2>1. WorldOK' /\ LanOK'
      BY <1>20, <1>g DEF Unload, WorldOK, LanOK
    <2>2. PlanOK' /\ CountOK'
      BY <1>20, <1>g DEF Unload, PlanOK, WorldOK, CountOK, pushVars, faultVars, countVars
    <2>3. QED
      BY <1>20, <1>g, <1>n, <2>1, <2>2 DEF Unload, TypeOK
  <1>21. CASE UNCHANGED vars
    <2>1. WorldOK' /\ PlanOK' /\ CountOK'
      BY <1>21, <1>g DEF vars, WorldOK, PlanOK, WorldOK, CountOK, pushVars, faultVars, planVars, countVars
    <2>2. QED
      BY <1>21, <1>g, <1>n, <2>1 DEF vars, TypeOK
  <1>22. QED
    BY <1>1, <1>2, <1>3, <1>4, <1>5, <1>6, <1>7, <1>8, <1>9, <1>10, <1>11, <1>12, <1>13,
       <1>14, <1>15, <1>16, <1>17, <1>18, <1>19, <1>20, <1>21 DEF Next, Answer

\* Every variable stays in its range, and the catalogue is tried again within
\* its ceiling, whatever the order of cycles, requests, datapoints and failures.
THEOREM TypesHold == Spec => []TypeOK
  <1>1. Init => TypeOK
    <2> SUFFICES ASSUME Init PROVE TypeOK
      OBVIOUS
    <2>1. now \in Nat /\ NoReading \in Reading /\ shown \in MachineStates
      BY ConstantTypes DEF Init, NoReading, Reading, MachineStates
    <2>2. WorldOK
      <3>1. frame \in [n : {1}, state : States]
        BY DEF Init
      <3>2. frame \in [n : Nat \ {0}, state : States]
        BY <3>1
      <3>3. QED
        BY <2>1, <3>2 DEF Init, WorldOK
    <2>3. CycleOK /\ PlanOK /\ IntervalOK
      BY <2>1, ConstantTypes DEF Init, CycleOK, PlanOK, IntervalOK, Stages
    <2>4. RefreshOK /\ MonitorOK /\ LanOK
      BY <2>1 DEF Init, RefreshOK, MonitorOK, LanOK
    <2>5. CsOK
      <3>1. 0 \in 0 .. (now + RetryMax)
        BY <2>1, ConstantTypes
      <3>2. QED
        BY <3>1 DEF Init, CsOK
    <2>6. ProfileOK /\ CountOK
      BY <2>1 DEF Init, ProfileOK, CountOK, pushVars, faultVars
    <2>7. QED
      BY <2>2, <2>3, <2>4, <2>5, <2>6 DEF TypeOK
  <1>2. QED
    BY <1>1, StepKeepsTypes, PTL DEF Spec

-----------------------------------------------------------------------------
(* The poll interval and the selected profile.                             *)

\* The interval is moved by a request for fast polling or at the top of a cycle.
LEMMA WhoMovesInterval ==
  ASSUME [Next]_vars
  PROVE  UNCHANGED intervalVars \/ FastPoll \/ AdaptInterval
  <1>1. CASE Tick \/ (\E state \in States : MonitorPushed(state)) \/ OnLanProperty
             \/ Publish \/ Unload \/ UNCHANGED vars
    BY <1>1 DEF Tick, MonitorPushed, OnLanProperty, Publish, Unload, vars
  <1>2. CASE RefreshAfterCommand \/ \E pid \in Profiles \ {0} : SelectOption(pid)
    BY <1>2 DEF RefreshAfterCommand, SelectOption
  <1>3. CASE BeginCycle
    BY <1>3 DEF BeginCycle
  <1>4. CASE Answer
    BY <1>4 DEF Answer, StatusRead, StatusSwallowed, AuthFails, PropsFail, PingRaises,
       CycleFails, Pinged, PingRefused, PropsFetched, LanConfigFetched, LanStarted,
       LanRegistered, ContentLoaded
  <1>5. QED
    BY <1>1, <1>2, <1>3, <1>4 DEF Next

\* The interval belongs to the mode, and a fast window suspends active polling:
\* when it expires, the interval falls back to the one of a quiet machine.
ModeInv == IntervalMatchesMode /\ (fastUntil # 0 => ~activePolling)

\* A fast-poll request opens the mode it sets the interval of.
LEMMA FastPollKeepsMode ==
  ASSUME TypeOK, ModeInv, FastPoll
  PROVE  ModeInv'
  <1>1. fastUntil' # 0
    BY FastPollTypes DEF TypeOK
  <1>2. interval' = FastInterval /\ ~activePolling'
    BY DEF FastPoll
  <1>3. QED
    BY <1>1, <1>2 DEF ModeInv, IntervalMatchesMode

\* The top of a cycle leaves an interval that belongs to the mode it leaves.
LEMMA AdaptKeepsMode ==
  ASSUME TypeOK, ModeInv, AdaptInterval
  PROVE  ModeInv'
  <1>1. activePolling \in BOOLEAN
    BY DEF TypeOK, IntervalOK
  <1>2. CASE FastAfter = 0
    <2>1. ~activePolling => IntervalBase = ScanInterval
      BY <1>2 DEF FastAfter, IntervalBase, ModeInv, IntervalMatchesMode
    <2>2. activePolling => IntervalBase = ActiveInterval
      <3>1. activePolling => fastUntil = 0
        BY DEF ModeInv
      <3>2. QED
        BY <3>1 DEF FastExpired, IntervalBase, ModeInv, IntervalMatchesMode
    <2>3. QED
      BY <1>1, <1>2, <2>1, <2>2 DEF AdaptInterval, ModeInv, IntervalMatchesMode
  <1>3. CASE FastAfter # 0
    <2>1. ~FastExpired /\ FastAfter = fastUntil
      BY <1>3 DEF FastAfter
    <2>2. ~activePolling /\ IntervalBase = FastInterval
      BY <1>3, <2>1 DEF IntervalBase, ModeInv, IntervalMatchesMode
    <2>3. QED
      BY <1>3, <2>1, <2>2 DEF AdaptInterval, ModeInv, IntervalMatchesMode
  <1>4. QED
    BY <1>2, <1>3

\* Whatever the order of fast-poll requests, expiries, state changes and
\* failures, the poll interval is the one of the mode (coordinator.py:176-196).
THEOREM IntervalFollowsMode == Spec => []IntervalMatchesMode
  <1>1. Init => ModeInv
    BY DEF Init, ModeInv, IntervalMatchesMode
  <1>2. TypeOK /\ ModeInv /\ [Next]_vars => ModeInv'
    <2> SUFFICES ASSUME TypeOK, ModeInv, [Next]_vars PROVE ModeInv'
      OBVIOUS
    <2>1. CASE UNCHANGED intervalVars
      BY <2>1 DEF intervalVars, ModeInv, IntervalMatchesMode
    <2>2. QED
      BY <2>1, WhoMovesInterval, FastPollKeepsMode, AdaptKeepsMode
  <1>3. ModeInv => IntervalMatchesMode
    BY DEF ModeInv
  <1>4. QED
    BY <1>1, <1>2, <1>3, TypesHold, PTL DEF Spec

\* The profile is moved by the user, or seeded once by the monitor.
LEMMA WhoMovesProfile ==
  ASSUME [Next]_vars
  PROVE  \/ UNCHANGED profileVars
         \/ \E pid \in Profiles \ {0} : selectedProfile' = pid /\ chosen' = pid
         \/ \E p \in Profiles : SeedProfile(p) /\ chosen' = chosen
  <1>1. CASE Tick \/ (\E state \in States : MonitorPushed(state)) \/ OnLanProperty
             \/ RefreshAfterCommand \/ BeginCycle \/ Publish \/ Unload \/ UNCHANGED vars
    BY <1>1 DEF Tick, MonitorPushed, OnLanProperty, RefreshAfterCommand, BeginCycle,
       Publish, Unload, vars
  <1>2. CASE \E pid \in Profiles \ {0} : SelectOption(pid)
    BY <1>2 DEF SelectOption
  <1>3. CASE \E run \in BOOLEAN, p \in Profiles : StatusRead(run, p)
    BY <1>3 DEF StatusRead
  <1>4. CASE StatusSwallowed \/ AuthFails \/ PropsFail \/ PingRaises \/ Pinged
             \/ PingRefused \/ PropsFetched
             \/ (\E ok \in BOOLEAN : LanConfigFetched(ok) \/ LanStarted(ok)
                                     \/ LanRegistered(ok) \/ ContentLoaded(ok))
    BY <1>4 DEF StatusSwallowed, AuthFails, PropsFail, PingRaises, CycleFails, Pinged,
       PingRefused, PropsFetched, LanConfigFetched, LanStarted, LanRegistered, ContentLoaded
  <1>5. QED
    BY <1>1, <1>2, <1>3, <1>4 DEF Next, Answer

\* No reading of the monitor, however old, overwrites the profile the user
\* selected (coordinator.py:208-215).
THEOREM SelectionStays == Spec => []SelectedProfileKept
  <1>1. Init => SelectedProfileKept
    BY DEF Init, SelectedProfileKept
  <1>2. SelectedProfileKept /\ [Next]_vars => SelectedProfileKept'
    <2> SUFFICES ASSUME SelectedProfileKept, [Next]_vars PROVE SelectedProfileKept'
      OBVIOUS
    <2>1. CASE UNCHANGED profileVars
      BY <2>1 DEF profileVars, SelectedProfileKept
    <2>2. CASE \E pid \in Profiles \ {0} : selectedProfile' = pid /\ chosen' = pid
      BY <2>2 DEF SelectedProfileKept
    <2>3. CASE \E p \in Profiles : SeedProfile(p) /\ chosen' = chosen
      BY <2>3 DEF SeedProfile, SelectedProfileKept
    <2>4. QED
      BY <2>1, <2>2, <2>3, WhoMovesProfile
  <1>3. QED
    BY <1>1, <1>2, PTL DEF Spec

-----------------------------------------------------------------------------
(* The monitor that is taken for frozen.                                   *)

\* How far a step may move the clock, the cycle's start, its reading and what has
\* been published.
LEMMA MonitorMoves ==
  ASSUME TypeOK, [Next]_vars
  PROVE  /\ now' \in {now, now + 1}
         /\ \/ began' = began /\ (Busy' => Busy)
            \/ began' = now /\ now' = now
         /\ reading' \in {reading, NoReading} \/ reading'.n = frame.n
         /\ UNCHANGED monitorVars \/ Publish
  <1>1. CASE Tick \/ (\E state \in States : MonitorPushed(state)) \/ OnLanProperty
             \/ RefreshAfterCommand \/ (\E pid \in Profiles \ {0} : SelectOption(pid))
             \/ Unload \/ UNCHANGED vars
    BY <1>1 DEF Tick, MonitorPushed, OnLanProperty, RefreshAfterCommand, SelectOption,
       Unload, vars, cycleVars, Busy
  <1>2. CASE BeginCycle
    BY <1>2 DEF BeginCycle
  <1>3. CASE Publish
    BY <1>3 DEF Publish, Busy
  <1>4. CASE \E run \in BOOLEAN, p \in Profiles : StatusRead(run, p)
    BY <1>4 DEF StatusRead, Busy
  <1>5. CASE StatusSwallowed \/ AuthFails \/ PropsFail \/ PingRaises
    BY <1>5 DEF StatusSwallowed, AuthFails, PropsFail, PingRaises, CycleFails, Busy
  <1>6. CASE Pinged \/ PingRefused \/ PropsFetched
             \/ (\E ok \in BOOLEAN : LanConfigFetched(ok) \/ LanStarted(ok)
                                     \/ LanRegistered(ok) \/ ContentLoaded(ok))
    BY <1>6 DEF Pinged, PingRefused, PropsFetched, LanConfigFetched, LanStarted,
       LanRegistered, ContentLoaded, Busy
  <1>7. QED
    BY <1>1, <1>2, <1>3, <1>4, <1>5, <1>6 DEF Next, Answer

\* The staleness clock does not run ahead of the frame: the last frame compared
\* with is the last one published, and the clock was set when it was first read
\* or later.
FrozenInv ==
  /\ Busy => began <= now
  /\ firstRead <= now
  /\ reading.n = 0 => reading.state = "Unknown"
  /\ lastRaw.n # 0 => lastRaw.n = lastGood /\ firstRead <= lastChanged

LEMMA PublishKeepsFrozen ==
  ASSUME TypeOK, FrozenInv, Publish
  PROVE  FrozenInv'
  <1>t. /\ now \in Nat /\ firstRead \in Nat /\ lastChanged \in Nat /\ lastGood \in Nat
        /\ reading \in Reading
    BY DEF TypeOK, WorldOK, MonitorOK, CycleOK
  <1>1. now' = now /\ ~Busy' /\ reading' = NoReading /\ lastRaw'.n = reading.n
    BY <1>t DEF Publish, Busy, Reading
  <1>2. firstRead' \in {firstRead, now} /\ lastChanged' \in {lastChanged, now}
    BY DEF Publish, LastChangedAfter
  <1>3. ASSUME reading.n # 0 PROVE lastGood' = reading.n /\ firstRead' <= lastChanged'
    <2>1. lastGood' = reading.n
      BY <1>3 DEF Publish
    <2>2. CASE Unchanged
      <3>1. reading.n = lastGood /\ firstRead <= lastChanged
        BY <1>3, <2>2 DEF Unchanged, FrozenInv
      <3>2. firstRead' = firstRead /\ lastChanged' = lastChanged
        BY <2>2, <3>1 DEF Publish, LastChangedAfter
      <3>3. QED
        BY <2>1, <3>1, <3>2
    <2>3. CASE ~Unchanged
      <3>1. lastChanged' = now
        BY <2>3 DEF Publish, LastChangedAfter
      <3>2. QED
        BY <1>t, <1>2, <2>1, <3>1 DEF FrozenInv
    <2>4. QED
      BY <2>2, <2>3
  <1>4. QED
    BY <1>t, <1>1, <1>2, <1>3 DEF FrozenInv, NoReading

LEMMA StepKeepsFrozen == TypeOK /\ FrozenInv /\ [Next]_vars => FrozenInv'
  <1> SUFFICES ASSUME TypeOK, FrozenInv, [Next]_vars PROVE FrozenInv'
    OBVIOUS
  <1>t. now \in Nat /\ began \in Nat /\ firstRead \in Nat /\ frame.n # 0
    BY DEF TypeOK, WorldOK, MonitorOK, CycleOK
  <1>1. CASE Publish
    BY <1>1, PublishKeepsFrozen
  <1>2. CASE UNCHANGED monitorVars
    <2>1. Busy' => began' <= now'
      BY <1>t, MonitorMoves DEF FrozenInv
    <2>2. firstRead' <= now'
      BY <1>t, <1>2, MonitorMoves DEF FrozenInv, monitorVars
    <2>3. reading'.n = 0 => reading'.state = "Unknown"
      BY <1>t, MonitorMoves DEF FrozenInv, NoReading
    <2>4. lastRaw'.n # 0 => lastRaw'.n = lastGood' /\ firstRead' <= lastChanged'
      BY <1>2 DEF FrozenInv, monitorVars
    <2>5. QED
      BY <2>1, <2>2, <2>3, <2>4 DEF FrozenInv
  <1>3. QED
    BY <1>1, <1>2, MonitorMoves

\* A machine is shown Off against its own report only by a report that was first
\* read longer ago than the stale timeout: a monitor that changes, or one that
\* comes back after a gap, is never taken for frozen (coordinator.py:321-360).
THEOREM OffIsEvident == Spec => NoFalseOff
  <1>1. Init => FrozenInv
    BY ConstantTypes DEF Init, FrozenInv, Busy, NoReading
  <1>2. ASSUME TypeOK, FrozenInv, [Next]_vars
        PROVE  [pc = "publish" /\ pc' = "idle" /\ shown' = "Off" /\ reading.state # "Off"
                  => reading.n = lastGood /\ began - firstRead > StaleTimeout]_vars
    <2> SUFFICES ASSUME pc = "publish", pc' = "idle", shown' = "Off", reading.state # "Off"
                 PROVE  reading.n = lastGood /\ began - firstRead > StaleTimeout
      OBVIOUS
    <2>t. /\ now \in Nat /\ began \in Nat /\ firstRead \in Nat /\ lastChanged \in Nat
          /\ lastGood \in Nat /\ StaleTimeout \in Nat
      BY <1>2, ConstantTypes DEF TypeOK, WorldOK, MonitorOK, CycleOK
    <2>1. Publish
      BY <1>2 DEF Next, Answer, Tick, MonitorPushed, RefreshAfterCommand, SelectOption,
         OnLanProperty, BeginCycle, StatusRead, StatusSwallowed, AuthFails, PropsFail,
         PingRaises, Pinged, PingRefused, PropsFetched, LanConfigFetched, LanStarted,
         LanRegistered, ContentLoaded, Unload, LoopFree, Requests, cycleVars, vars
    <2>2. TimedOut /\ reading.state # "Unknown"
      BY <2>1 DEF Publish, Overridden
    <2>3. reading.n # 0 /\ began <= now
      BY <1>2, <2>2 DEF FrozenInv, Busy
    <2>4. Unchanged
      <3>1. SUFFICES ASSUME ~Unchanged PROVE FALSE
        OBVIOUS
      <3>2. began > now + StaleTimeout
        BY <2>2, <3>1 DEF TimedOut, LastChangedAfter
      <3>3. QED
        BY <2>t, <2>3, <3>2
    <2>5. reading.n = lastGood /\ firstRead <= lastChanged
      BY <1>2, <2>3, <2>4 DEF Unchanged, FrozenInv
    <2>6. began > lastChanged + StaleTimeout
      BY <2>2, <2>4 DEF TimedOut, LastChangedAfter
    <2>7. QED
      BY <2>t, <2>5, <2>6
  <1>3. QED
    BY <1>1, <1>2, StepKeepsFrozen, TypesHold, PTL DEF Spec, NoFalseOff

-----------------------------------------------------------------------------
(* The two deadlines.                                                       *)

\* An entry whose cycles are planned.
Alive == phase \in {"setup", "loaded"} /\ ~rejected

\* When the next cycle has begun at the latest, by the last ping.
PingBy == Later(lastPing + Keepalive + CycleMax, lastPush) + ScanInterval

\* The same by the last full refresh.
RefreshBy ==
  Later(fullAt + FullInterval + CycleMax, Later(lastPush, lastFault)) + ScanInterval

\* The poll interval never exceeds the one of a quiet machine.
LEMMA IntervalBounded ==
  ASSUME TypeOK, IntervalMatchesMode
  PROVE  interval \in Nat /\ interval <= ScanInterval
  BY ConstantTypes DEF TypeOK, IntervalOK, IntervalMatchesMode

\* The times of the last datapoint and of the last fault lie behind, and go forward.
StampsInv == lastPush <= now /\ lastFault <= now

LEMMA StampsMove ==
  ASSUME TypeOK, TypeOK', StampsInv, [Next]_vars
  PROVE  lastPush <= lastPush' /\ lastFault <= lastFault' /\ StampsInv'
  <1>t. /\ now \in Nat /\ lastPush \in Nat /\ lastFault \in Nat
        /\ lastPush <= now /\ lastFault <= now
    BY DEF TypeOK, WorldOK, CountOK, StampsInv
  <1>q. ASSUME now' = now \/ now' = now + 1, UNCHANGED lastPush \/ lastPush' = now,
               UNCHANGED lastFault \/ lastFault' = now
        PROVE  lastPush <= lastPush' /\ lastFault <= lastFault' /\ StampsInv'
    BY <1>t, <1>q DEF StampsInv
  <1> USE DEF pushVars, faultVars, countVars
  <1>1. CASE Tick \/ (\E state \in States : MonitorPushed(state)) \/ UNCHANGED vars \/ Unload
    BY <1>1, <1>q DEF Tick, MonitorPushed, Unload, vars
  <1>2. CASE RefreshAfterCommand \/ \E pid \in Profiles \ {0} : SelectOption(pid)
    BY <1>2, <1>q DEF RefreshAfterCommand, SelectOption, Requests
  <1>3. CASE OnLanProperty \/ BeginCycle \/ Publish
    BY <1>3, <1>q DEF OnLanProperty, BeginCycle, Publish
  <1>4. CASE \E run \in BOOLEAN, p \in Profiles : StatusRead(run, p)
    BY <1>4, <1>q DEF StatusRead
  <1>5. CASE StatusSwallowed \/ AuthFails \/ PropsFail \/ PingRaises
    BY <1>5, <1>q DEF StatusSwallowed, AuthFails, PropsFail, PingRaises, CycleFails, Fault
  <1>6. CASE Pinged \/ PingRefused \/ PropsFetched
    BY <1>6, <1>q DEF Pinged, PingRefused, PropsFetched, Fault
  <1>7. CASE \E ok \in BOOLEAN :
               LanConfigFetched(ok) \/ LanStarted(ok) \/ LanRegistered(ok) \/ ContentLoaded(ok)
    BY <1>7, <1>q DEF LanConfigFetched, LanStarted, LanRegistered, ContentLoaded, Fault
  <1>8. QED
    BY <1>1, <1>2, <1>3, <1>4, <1>5, <1>6, <1>7 DEF Next, Answer

\* A deadline: i after the later of t + k + m and p.
Deadline(t, k, m, p, i) == Later(t + k + m, p) + i

\* It is no earlier than i after either of the two.
LEMMA DeadlineIsLater ==
  ASSUME NEW t \in Nat, NEW k \in Nat, NEW m \in Nat, NEW p \in Nat, NEW i \in Nat
  PROVE  /\ Deadline(t, k, m, p, i) \in Nat
         /\ Deadline(t, k, m, p, i) >= t + k + m + i
         /\ Deadline(t, k, m, p, i) >= p + i
  BY DEF Deadline, Later

\* It goes forward as the two go forward.
LEMMA DeadlineMoves ==
  ASSUME NEW t \in Nat, NEW u \in Nat, t <= u, NEW k \in Nat, NEW m \in Nat,
         NEW p \in Nat, NEW q \in Nat, p <= q, NEW i \in Nat
  PROVE  Deadline(u, k, m, q, i) >= Deadline(t, k, m, p, i)
  BY DEF Deadline, Later

\* The later of two, as they go forward, and i after it.
LEMMA LaterMoves ==
  ASSUME NEW p \in Nat, NEW q \in Nat, p <= q, NEW f \in Nat, NEW g \in Nat, f <= g,
         NEW i \in Nat
  PROVE  /\ Later(p, f) \in Nat /\ Later(q, g) \in Nat /\ Later(p, f) <= Later(q, g)
         /\ \A d \in Nat : d >= Later(q, g) + i => d >= q + i /\ d >= g + i
  BY DEF Later

\* The ping deadline goes forward with the pings and the datapoints, and leaves a poll
\* after the last of them.
LEMMA PingByMoves ==
  ASSUME TypeOK, TypeOK', lastPush <= lastPush'
  PROVE  /\ PingBy \in Nat /\ PingBy' \in Nat
         /\ PingBy >= lastPing + Keepalive + CycleMax + ScanInterval
         /\ PingBy' >= lastPing' + Keepalive + CycleMax + ScanInterval
         /\ PingBy' >= lastPush' + ScanInterval
         /\ lastPing <= lastPing' => PingBy' >= PingBy
  <1>1. /\ lastPush \in Nat /\ lastPush' \in Nat /\ lastPing \in Nat /\ lastPing' \in Nat
        /\ ScanInterval \in Nat /\ Keepalive \in Nat /\ CycleMax \in Nat
    BY ConstantTypes DEF TypeOK, CountOK, WorldOK
  <1>2. /\ PingBy = Deadline(lastPing, Keepalive, CycleMax, lastPush, ScanInterval)
        /\ PingBy' = Deadline(lastPing', Keepalive, CycleMax, lastPush', ScanInterval)
    BY DEF PingBy, Deadline
  <1>3. PingBy \in Nat /\ PingBy >= lastPing + Keepalive + CycleMax + ScanInterval
    BY <1>1, <1>2, DeadlineIsLater, Zenon
  <1>4. /\ PingBy' \in Nat /\ PingBy' >= lastPing' + Keepalive + CycleMax + ScanInterval
        /\ PingBy' >= lastPush' + ScanInterval
    BY <1>1, <1>2, DeadlineIsLater, Zenon
  <1>5. lastPing <= lastPing' => PingBy' >= PingBy
    BY <1>1, <1>2, DeadlineMoves, Zenon
  <1>6. QED
    BY <1>3, <1>4, <1>5

\* The refresh deadline too, with the full refreshes, the faults and the datapoints.
LEMMA RefreshByMoves ==
  ASSUME TypeOK, TypeOK', lastPush <= lastPush', lastFault <= lastFault'
  PROVE  /\ RefreshBy \in Nat /\ RefreshBy' \in Nat
         /\ RefreshBy >= fullAt + FullInterval + CycleMax + ScanInterval
         /\ RefreshBy' >= fullAt' + FullInterval + CycleMax + ScanInterval
         /\ RefreshBy' >= lastPush' + ScanInterval
         /\ RefreshBy' >= lastFault' + ScanInterval
         /\ fullAt <= fullAt' => RefreshBy' >= RefreshBy
  <1>1. /\ lastPush \in Nat /\ lastPush' \in Nat /\ lastFault \in Nat /\ lastFault' \in Nat
        /\ fullAt \in Nat /\ fullAt' \in Nat
        /\ ScanInterval \in Nat /\ FullInterval \in Nat /\ CycleMax \in Nat
    BY ConstantTypes DEF TypeOK, CountOK, MonitorOK
  <1>2. /\ Later(lastPush, lastFault) \in Nat /\ Later(lastPush', lastFault') \in Nat
        /\ Later(lastPush, lastFault) <= Later(lastPush', lastFault')
        /\ \A d \in Nat : d >= Later(lastPush', lastFault') + ScanInterval
                          => d >= lastPush' + ScanInterval /\ d >= lastFault' + ScanInterval
    BY <1>1, LaterMoves, Zenon
  <1>3. /\ RefreshBy = Deadline(fullAt, FullInterval, CycleMax, Later(lastPush, lastFault),
                                ScanInterval)
        /\ RefreshBy' = Deadline(fullAt', FullInterval, CycleMax, Later(lastPush', lastFault'),
                                 ScanInterval)
    BY DEF RefreshBy, Deadline, Later
  <1>4. RefreshBy \in Nat /\ RefreshBy >= fullAt + FullInterval + CycleMax + ScanInterval
    BY <1>1, <1>2, <1>3, DeadlineIsLater, Zenon
  <1>5. /\ RefreshBy' \in Nat /\ RefreshBy' >= fullAt' + FullInterval + CycleMax + ScanInterval
        /\ RefreshBy' >= Later(lastPush', lastFault') + ScanInterval
    BY <1>1, <1>2, <1>3, DeadlineIsLater, Zenon
  <1>6. fullAt <= fullAt' => RefreshBy' >= RefreshBy
    BY <1>1, <1>2, <1>3, DeadlineMoves, Zenon
  <1>7. RefreshBy' >= lastPush' + ScanInterval /\ RefreshBy' >= lastFault' + ScanInterval
    BY <1>2, <1>5, Zenon
  <1>8. QED
    BY <1>4, <1>5, <1>6, <1>7

-----------------------------------------------------------------------------
(* A cycle in time.                                                        *)

\* Cycles begin when they are due, and end.
ClockInv ==
  /\ Busy => began <= now /\ now <= began + CycleMax
  /\ Alive /\ ~Busy => now <= nextDue

\* The keepalive clock is not ahead of the pings, and a cycle that plans the next
\* one has pinged or found no ping due.
KeepaliveInv ==
  /\ lastKeepalive <= lastPing /\ lastPing <= now
  /\ pc \in {"props", "lanconfig", "lanstart", "register", "content"} => began <= lastPing
  /\ pc = "publish" => began <= lastPing \/ began < lastKeepalive + Keepalive
  /\ Alive /\ ~Busy => nextDue <= PingBy
  /\ Alive /\ Busy => began <= PingBy

\* The full refresh is not marked done before it is published, and a cycle that
\* leaves it out finds it done within the interval.
RefreshInv ==
  /\ lastFull <= now
  /\ lastFull <= fullAt \/ (pc = "publish" /\ needFull)
  /\ pc \in {"wake", "props", "lanconfig", "lanstart", "register", "content"} => needFull
  /\ Busy /\ ~needFull => began < lastFull + FullInterval
  /\ Alive /\ ~Busy => nextDue <= RefreshBy
  /\ Alive /\ Busy => began <= RefreshBy

\* No step lets a cycle overrun, or a due one wait.
LEMMA StepKeepsClock ==
  TypeOK /\ IntervalMatchesMode /\ ClockInv /\ [Next]_vars => ClockInv'
  <1> SUFFICES ASSUME TypeOK, IntervalMatchesMode, ClockInv, [Next]_vars PROVE ClockInv'
    OBVIOUS
  <1>t. /\ now \in Nat /\ began \in Nat /\ nextDue \in Nat /\ interval \in Nat
        /\ CycleMax \in Nat /\ rejected \in BOOLEAN
    BY ConstantTypes DEF TypeOK, WorldOK, CycleOK, PlanOK, IntervalOK
  <1>1. CASE Tick
    BY <1>1, <1>t DEF Tick, LoopFree, Due, ClockInv, Alive, Busy, cycleVars, planVars
  <1>2. CASE \E state \in States : MonitorPushed(state)
    BY <1>2, <1>t DEF MonitorPushed, ClockInv, Alive, Busy, cycleVars, planVars
  <1>3. CASE RefreshAfterCommand
    BY <1>3, <1>t DEF RefreshAfterCommand, Requests, ClockInv, Alive, Busy, cycleVars
  <1>4. CASE \E pid \in Profiles \ {0} : SelectOption(pid)
    BY <1>4, <1>t DEF SelectOption, Requests, ClockInv, Alive, Busy, cycleVars
  <1>5. CASE OnLanProperty
    BY <1>5, <1>t DEF OnLanProperty, ClockInv, Alive, Busy, cycleVars
  <1>6. CASE BeginCycle
    BY <1>6, <1>t DEF BeginCycle, NeedsFull, ClockInv, Alive, Busy
  <1>7. CASE \E run \in BOOLEAN, p \in Profiles : StatusRead(run, p)
    BY <1>7, <1>t
    DEF StatusRead, AfterStatus, NeedsKeepalive, ClockInv, Alive, Busy, planVars
  <1>8. CASE StatusSwallowed
    BY <1>8, <1>t
    DEF StatusSwallowed, AfterStatus, NeedsKeepalive, ClockInv, Alive, Busy, planVars
  <1>9. CASE AuthFails
    BY <1>9, <1>t DEF AuthFails, CycleFails, ClockInv, Alive, Busy
  <1>10. CASE PropsFail
    BY <1>10, <1>t DEF PropsFail, CycleFails, Planned, ClockInv, Alive, Busy
  <1>11. CASE PingRaises
    BY <1>11, <1>t DEF PingRaises, CycleFails, Planned, ClockInv, Alive, Busy
  <1>12. CASE Pinged
    BY <1>12, <1>t DEF Pinged, ClockInv, Alive, Busy, planVars
  <1>13. CASE PingRefused
    BY <1>13, <1>t DEF PingRefused, ClockInv, Alive, Busy, planVars
  <1>14. CASE PropsFetched
    BY <1>14, <1>t DEF PropsFetched, Onward, FullRefreshed, ClockInv, Alive, Busy, planVars
  <1>15. CASE \E ok \in BOOLEAN : LanConfigFetched(ok)
    BY <1>15, <1>t
    DEF LanConfigFetched, Onward, FullRefreshed, ClockInv, Alive, Busy, planVars
  <1>16. CASE \E ok \in BOOLEAN : LanStarted(ok)
    BY <1>16, <1>t DEF LanStarted, Onward, FullRefreshed, ClockInv, Alive, Busy, planVars
  <1>17. CASE \E ok \in BOOLEAN : LanRegistered(ok)
    BY <1>17, <1>t DEF LanRegistered, Onward, FullRefreshed, ClockInv, Alive, Busy, planVars
  <1>18. CASE \E ok \in BOOLEAN : ContentLoaded(ok)
    BY <1>18, <1>t DEF ContentLoaded, FullRefreshed, ClockInv, Alive, Busy, planVars
  <1>19. CASE Publish
    BY <1>19, <1>t DEF Publish, Planned, ClockInv, Alive, Busy
  <1>20. CASE Unload
    BY <1>20, <1>t DEF Unload, ClockInv, Alive, Busy, cycleVars
  <1>21. CASE UNCHANGED vars
    BY <1>21, <1>t DEF vars, ClockInv, Alive, Busy, cycleVars, planVars
  <1>22. QED
    BY <1>1, <1>2, <1>3, <1>4, <1>5, <1>6, <1>7, <1>8, <1>9, <1>10, <1>11, <1>12, <1>13,
       <1>14, <1>15, <1>16, <1>17, <1>18, <1>19, <1>20, <1>21 DEF Next, Answer

\* No step moves the next cycle beyond what the last ping allows.
LEMMA StepKeepsKeepalive ==
  ASSUME TypeOK, TypeOK', IntervalMatchesMode, StampsInv, ClockInv, KeepaliveInv, [Next]_vars
  PROVE  KeepaliveInv'
  <1>t. /\ now \in Nat /\ began \in Nat /\ nextDue \in Nat /\ interval \in Nat
        /\ CycleMax \in Nat /\ lastPing \in Nat /\ lastKeepalive \in Nat
        /\ Keepalive \in Nat /\ ScanInterval \in Nat /\ rejected \in BOOLEAN
        /\ interval <= ScanInterval
    BY ConstantTypes, IntervalBounded
    DEF TypeOK, WorldOK, CycleOK, PlanOK, IntervalOK, RefreshOK
  <1>p. /\ PingBy \in Nat /\ PingBy' \in Nat
        /\ PingBy >= lastPing + Keepalive + CycleMax + ScanInterval
        /\ PingBy' >= lastPing' + Keepalive + CycleMax + ScanInterval
        /\ PingBy' >= lastPush' + ScanInterval
        /\ lastPing <= lastPing' => PingBy' >= PingBy
    BY StampsMove, PingByMoves
  <1>i. ClockInv /\ KeepaliveInv
    OBVIOUS
  <1>1. CASE Tick
    BY <1>1, <1>t, <1>p, <1>i
    DEF Tick, LoopFree, Due, KeepaliveInv, ClockInv, Alive, Busy, cycleVars, planVars,
        refreshVars
  <1>2. CASE \E state \in States : MonitorPushed(state)
    BY <1>2, <1>t, <1>p, <1>i
    DEF MonitorPushed, KeepaliveInv, ClockInv, Alive, Busy, cycleVars, planVars,
        refreshVars
  <1>3. CASE RefreshAfterCommand
    BY <1>3, <1>t, <1>p, <1>i
    DEF RefreshAfterCommand, Requests, KeepaliveInv, ClockInv, Alive, Busy, cycleVars,
        refreshVars
  <1>4. CASE \E pid \in Profiles \ {0} : SelectOption(pid)
    BY <1>4, <1>t, <1>p, <1>i
    DEF SelectOption, Requests, KeepaliveInv, ClockInv, Alive, Busy, cycleVars,
        refreshVars
  <1>5. CASE OnLanProperty
    BY <1>5, <1>t, <1>p, <1>i
    DEF OnLanProperty, KeepaliveInv, ClockInv, Alive, Busy, cycleVars, refreshVars
  <1>6. CASE BeginCycle
    BY <1>6, <1>t, <1>p, <1>i
    DEF BeginCycle, NeedsFull, KeepaliveInv, ClockInv, Alive, Busy, refreshVars
  <1>7. CASE \E run \in BOOLEAN, p \in Profiles : StatusRead(run, p)
    BY <1>7, <1>t, <1>p, <1>i
    DEF StatusRead, AfterStatus, NeedsKeepalive, KeepaliveInv, ClockInv, Alive, Busy,
        planVars, refreshVars
  <1>8. CASE StatusSwallowed
    BY <1>8, <1>t, <1>p, <1>i
    DEF StatusSwallowed, AfterStatus, NeedsKeepalive, KeepaliveInv, ClockInv, Alive,
        Busy, planVars, refreshVars
  <1>9. CASE AuthFails
    BY <1>9, <1>t, <1>p, <1>i
    DEF AuthFails, CycleFails, KeepaliveInv, ClockInv, Alive, Busy, refreshVars
  <1>10. CASE PropsFail
    BY <1>10, <1>t, <1>p, <1>i
    DEF PropsFail, CycleFails, Planned, KeepaliveInv, ClockInv, Alive, Busy,
        refreshVars
  <1>11. CASE PingRaises
    BY <1>11, <1>t, <1>p, <1>i
    DEF PingRaises, CycleFails, Planned, KeepaliveInv, ClockInv, Alive, Busy,
        refreshVars
  <1>12. CASE Pinged
    BY <1>12, <1>t, <1>p, <1>i
    DEF Pinged, KeepaliveInv, ClockInv, Alive, Busy, planVars
  <1>13. CASE PingRefused
    BY <1>13, <1>t, <1>p, <1>i
    DEF PingRefused, KeepaliveInv, ClockInv, Alive, Busy, planVars
  <1>14. CASE PropsFetched
    BY <1>14, <1>t, <1>p, <1>i
    DEF PropsFetched, Onward, FullRefreshed, KeepaliveInv, ClockInv, Alive, Busy,
        planVars, refreshVars
  <1>15. CASE \E ok \in BOOLEAN : LanConfigFetched(ok)
    BY <1>15, <1>t, <1>p, <1>i
    DEF LanConfigFetched, Onward, FullRefreshed, KeepaliveInv, ClockInv, Alive, Busy,
        planVars, refreshVars
  <1>16. CASE \E ok \in BOOLEAN : LanStarted(ok)
    BY <1>16, <1>t, <1>p, <1>i
    DEF LanStarted, Onward, FullRefreshed, KeepaliveInv, ClockInv, Alive, Busy,
        planVars, refreshVars
  <1>17. CASE \E ok \in BOOLEAN : LanRegistered(ok)
    BY <1>17, <1>t, <1>p, <1>i
    DEF LanRegistered, Onward, FullRefreshed, KeepaliveInv, ClockInv, Alive, Busy,
        planVars, refreshVars
  <1>18. CASE \E ok \in BOOLEAN : ContentLoaded(ok)
    BY <1>18, <1>t, <1>p, <1>i
    DEF ContentLoaded, FullRefreshed, KeepaliveInv, ClockInv, Alive, Busy, planVars
  <1>19. CASE Publish
    BY <1>19, <1>t, <1>p, <1>i
    DEF Publish, Planned, KeepaliveInv, ClockInv, Alive, Busy, refreshVars
  <1>20. CASE Unload
    BY <1>20, <1>t, <1>p, <1>i
    DEF Unload, KeepaliveInv, ClockInv, Alive, Busy, cycleVars, refreshVars
  <1>21. CASE UNCHANGED vars
    BY <1>21, <1>t, <1>p, <1>i
    DEF vars, KeepaliveInv, ClockInv, Alive, Busy, cycleVars, planVars, refreshVars
  <1>22. QED
    BY <1>1, <1>2, <1>3, <1>4, <1>5, <1>6, <1>7, <1>8, <1>9, <1>10, <1>11, <1>12, <1>13,
       <1>14, <1>15, <1>16, <1>17, <1>18, <1>19, <1>20, <1>21 DEF Next, Answer

\* No step moves the next cycle beyond what the last full refresh allows.
LEMMA StepKeepsRefresh ==
  ASSUME TypeOK, TypeOK', IntervalMatchesMode, StampsInv, ClockInv, RefreshInv, [Next]_vars
  PROVE  RefreshInv'
  <1>t. /\ now \in Nat /\ began \in Nat /\ nextDue \in Nat /\ interval \in Nat
        /\ CycleMax \in Nat /\ lastFull \in Nat /\ fullAt \in Nat
        /\ FullInterval \in Nat /\ ScanInterval \in Nat /\ rejected \in BOOLEAN
        /\ needFull \in BOOLEAN /\ interval <= ScanInterval
    BY ConstantTypes, IntervalBounded
    DEF TypeOK, WorldOK, CycleOK, PlanOK, IntervalOK, RefreshOK, MonitorOK
  <1>p. /\ RefreshBy \in Nat /\ RefreshBy' \in Nat
        /\ RefreshBy >= fullAt + FullInterval + CycleMax + ScanInterval
        /\ RefreshBy' >= fullAt' + FullInterval + CycleMax + ScanInterval
        /\ RefreshBy' >= lastPush' + ScanInterval
        /\ RefreshBy' >= lastFault' + ScanInterval
        /\ fullAt <= fullAt' => RefreshBy' >= RefreshBy
    BY StampsMove, RefreshByMoves
  <1>i. ClockInv /\ RefreshInv
    OBVIOUS
  <1>1. CASE Tick
    BY <1>1, <1>t, <1>p, <1>i
    DEF Tick, LoopFree, Due, RefreshInv, ClockInv, Alive, Busy, cycleVars, planVars,
        refreshVars, monitorVars
  <1>2. CASE \E state \in States : MonitorPushed(state)
    BY <1>2, <1>t, <1>p, <1>i
    DEF MonitorPushed, RefreshInv, ClockInv, Alive, Busy, cycleVars, planVars,
        refreshVars, monitorVars
  <1>3. CASE RefreshAfterCommand
    BY <1>3, <1>t, <1>p, <1>i
    DEF RefreshAfterCommand, Requests, RefreshInv, ClockInv, Alive, Busy, cycleVars,
        refreshVars, monitorVars
  <1>4. CASE \E pid \in Profiles \ {0} : SelectOption(pid)
    BY <1>4, <1>t, <1>p, <1>i
    DEF SelectOption, Requests, RefreshInv, ClockInv, Alive, Busy, cycleVars,
        refreshVars, monitorVars
  <1>5. CASE OnLanProperty
    BY <1>5, <1>t, <1>p, <1>i
    DEF OnLanProperty, RefreshInv, ClockInv, Alive, Busy, cycleVars, refreshVars,
        monitorVars
  <1>6. CASE BeginCycle
    <2>1. began' = now /\ ~needFull' => began' < lastFull' + FullInterval
      <3>1. needFull' <=> now - lastFull >= FullInterval
        BY <1>6 DEF BeginCycle, NeedsFull
      <3>2. lastFull' = lastFull
        BY <1>6 DEF BeginCycle, refreshVars
      <3>3. QED
        BY <1>t, <3>1, <3>2
    <2>2. QED
      BY <1>6, <1>t, <1>p, <1>i, <2>1
      DEF BeginCycle, RefreshInv, ClockInv, Alive, Busy, refreshVars, monitorVars
  <1>7. CASE \E run \in BOOLEAN, p \in Profiles : StatusRead(run, p)
    BY <1>7, <1>t, <1>p, <1>i
    DEF StatusRead, AfterStatus, NeedsKeepalive, RefreshInv, ClockInv, Alive, Busy,
        planVars, refreshVars, monitorVars
  <1>8. CASE StatusSwallowed
    BY <1>8, <1>t, <1>p, <1>i
    DEF StatusSwallowed, AfterStatus, NeedsKeepalive, RefreshInv, ClockInv, Alive,
        Busy, planVars, refreshVars, monitorVars, Fault
  <1>9. CASE AuthFails
    BY <1>9, <1>t, <1>p, <1>i
    DEF AuthFails, CycleFails, RefreshInv, ClockInv, Alive, Busy, refreshVars,
        monitorVars, Fault
  <1>10. CASE PropsFail
    BY <1>10, <1>t, <1>p, <1>i
    DEF PropsFail, CycleFails, Planned, RefreshInv, ClockInv, Alive, Busy,
        refreshVars, monitorVars, Fault
  <1>11. CASE PingRaises
    BY <1>11, <1>t, <1>p, <1>i
    DEF PingRaises, CycleFails, Planned, RefreshInv, ClockInv, Alive, Busy,
        refreshVars, monitorVars, Fault
  <1>12. CASE Pinged
    BY <1>12, <1>t, <1>p, <1>i
    DEF Pinged, RefreshInv, ClockInv, Alive, Busy, planVars, monitorVars
  <1>13. CASE PingRefused
    BY <1>13, <1>t, <1>p, <1>i
    DEF PingRefused, RefreshInv, ClockInv, Alive, Busy, planVars, monitorVars, Fault
  <1>14. CASE PropsFetched
    BY <1>14, <1>t, <1>p, <1>i
    DEF PropsFetched, Onward, FullRefreshed, RefreshInv, ClockInv, Alive, Busy,
        planVars, refreshVars, monitorVars
  <1>15. CASE \E ok \in BOOLEAN : LanConfigFetched(ok)
    BY <1>15, <1>t, <1>p, <1>i
    DEF LanConfigFetched, Onward, FullRefreshed, RefreshInv, ClockInv, Alive, Busy,
        planVars, refreshVars, monitorVars
  <1>16. CASE \E ok \in BOOLEAN : LanStarted(ok)
    BY <1>16, <1>t, <1>p, <1>i
    DEF LanStarted, Onward, FullRefreshed, RefreshInv, ClockInv, Alive, Busy,
        planVars, refreshVars, monitorVars, Fault
  <1>17. CASE \E ok \in BOOLEAN : LanRegistered(ok)
    BY <1>17, <1>t, <1>p, <1>i
    DEF LanRegistered, Onward, FullRefreshed, RefreshInv, ClockInv, Alive, Busy,
        planVars, refreshVars, monitorVars, Fault
  <1>18. CASE \E ok \in BOOLEAN : ContentLoaded(ok)
    BY <1>18, <1>t, <1>p, <1>i
    DEF ContentLoaded, FullRefreshed, RefreshInv, ClockInv, Alive, Busy, planVars,
        monitorVars, Fault
  <1>19. CASE Publish
    BY <1>19, <1>t, <1>p, <1>i
    DEF Publish, Planned, RefreshInv, ClockInv, Alive, Busy, refreshVars
  <1>20. CASE Unload
    BY <1>20, <1>t, <1>p, <1>i
    DEF Unload, RefreshInv, ClockInv, Alive, Busy, cycleVars, refreshVars,
        monitorVars
  <1>21. CASE UNCHANGED vars
    BY <1>21, <1>t, <1>p, <1>i
    DEF vars, RefreshInv, ClockInv, Alive, Busy, cycleVars, planVars, refreshVars, monitorVars
  <1>22. QED
    BY <1>1, <1>2, <1>3, <1>4, <1>5, <1>6, <1>7, <1>8, <1>9, <1>10, <1>11, <1>12, <1>13,
       <1>14, <1>15, <1>16, <1>17, <1>18, <1>19, <1>20, <1>21 DEF Next, Answer

\* What the deadlines need of each other and of the interval, together.
TimeInv == StampsInv /\ ClockInv /\ KeepaliveInv /\ RefreshInv

LEMMA TimeHolds == Spec => []TimeInv
  <1>1. Init => TimeInv
    <2> SUFFICES ASSUME Init PROVE TimeInv
      OBVIOUS
    <2>1. /\ now \in Nat /\ ScanInterval \in Nat /\ CycleMax \in Nat
          /\ Keepalive \in Nat /\ FullInterval \in Nat
      BY ConstantTypes DEF Init
    <2>2. /\ lastPush = now /\ lastFault = now /\ pc = "idle" /\ lastPing = now /\ fullAt = now
          /\ lastFull = 0 /\ lastKeepalive = 0 /\ nextDue = now
      BY DEF Init
    <2>3. now <= PingBy
      BY <2>1, <2>2 DEF PingBy, Later
    <2>4. now <= RefreshBy
      BY <2>1, <2>2 DEF RefreshBy, Later
    <2>5. QED
      BY <2>1, <2>2, <2>3, <2>4 DEF TimeInv, StampsInv, ClockInv, KeepaliveInv, RefreshInv, Busy, Alive
  <1>2. TypeOK /\ TypeOK' /\ IntervalMatchesMode /\ TimeInv /\ [Next]_vars => TimeInv'
    BY StampsMove, StepKeepsClock, StepKeepsKeepalive, StepKeepsRefresh DEF TimeInv
  <1>3. QED
    BY <1>1, <1>2, TypesHold, IntervalFollowsMode, PTL DEF Spec

\* As long as the login is good, the machine is pinged again in time, however cycles
\* fail and requests come in; only a datapoint on the LAN puts that off, by one poll
\* from the moment it came (coordinator.py:217-245, 528).
THEOREM KeepaliveInTime == Spec => []KeepaliveOnTime
  <1>1. TypeOK /\ TimeInv => KeepaliveOnTime
    <2> SUFFICES ASSUME TypeOK, TimeInv, phase = "loaded", ~rejected
                 PROVE  now <= PingBy + CycleMax
      BY DEF KeepaliveOnTime, PingBy
    <2>1. now \in Nat /\ began \in Nat /\ nextDue \in Nat /\ CycleMax \in Nat /\ PingBy \in Nat
      <3>1. /\ lastPing \in Nat /\ lastPush \in Nat
            /\ Keepalive \in Nat /\ CycleMax \in Nat /\ ScanInterval \in Nat
        BY ConstantTypes DEF TypeOK, WorldOK, CountOK
      <3>2. QED
        BY <3>1 DEF TypeOK, WorldOK, CycleOK, PlanOK, PingBy, Later
    <2>2. Alive
      BY DEF Alive
    <2>3. (now <= nextDue /\ nextDue <= PingBy) \/ (now <= began + CycleMax /\ began <= PingBy)
      BY <2>2 DEF TimeInv, ClockInv, KeepaliveInv
    <2>4. QED
      BY <2>1, <2>3
  <1>2. QED
    BY <1>1, TimeHolds, TypesHold, PTL

\* A full refresh is published in time, and one that fails on its way is due again at
\* once: the poll after the last failed exchange, or after the last datapoint on the
\* LAN, is a full one (coordinator.py:200-203, 313, 528).
THEOREM FullRefreshInTime == Spec => []FullRefreshOnTime
  <1>1. TypeOK /\ TimeInv => FullRefreshOnTime
    <2> SUFFICES ASSUME TypeOK, TimeInv, phase = "loaded", ~rejected
                 PROVE  now <= RefreshBy + CycleMax
      BY DEF FullRefreshOnTime, RefreshBy
    <2>1. now \in Nat /\ began \in Nat /\ nextDue \in Nat /\ CycleMax \in Nat /\ RefreshBy \in Nat
      <3>1. /\ fullAt \in Nat /\ lastPush \in Nat /\ lastFault \in Nat
            /\ FullInterval \in Nat /\ CycleMax \in Nat /\ ScanInterval \in Nat
        BY ConstantTypes DEF TypeOK, MonitorOK, CountOK
      <3>2. QED
        BY <3>1 DEF TypeOK, WorldOK, CycleOK, PlanOK, RefreshBy, Later
    <2>2. Alive
      BY DEF Alive
    <2>3. \/ now <= nextDue /\ nextDue <= RefreshBy
          \/ now <= began + CycleMax /\ began <= RefreshBy
      BY <2>2 DEF TimeInv, ClockInv, RefreshInv
    <2>4. QED
      BY <2>1, <2>3
  <1>2. QED
    BY <1>1, TimeHolds, TypesHold, PTL

=============================================================================
