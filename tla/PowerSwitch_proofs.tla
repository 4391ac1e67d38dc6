-------------------------- MODULE PowerSwitch_proofs --------------------------
(***************************************************************************)
(* Proofs about the power switch, for every number of calls, attempts and  *)
(* updates that PowerSwitchAssumption allows: the types, the assumed       *)
(* state, the one retry, the lock, the order of what is sent, and the      *)
(* wake phase that a turn_off cuts short.                                  *)
(***************************************************************************)
EXTENDS PowerSwitch, TLAPS

-----------------------------------------------------------------------------
(* Types.                                                                  *)

\* Calls are numbered from 1; 0 stands for nobody.
LEMMA CallIsNumber == \A c \in Call : c \in Nat /\ c # 0
  BY PowerSwitchAssumption DEF Call

\* A step that leaves the calls and their lock alone keeps their types,
LEMMA SameCalls ==
  ASSUME CallTypeOK, UNCHANGED <<callVars, lockVars, cancelTurnOn>> PROVE CallTypeOK'
  BY DEF CallTypeOK, callVars, lockVars

\* one that leaves the retries alone keeps theirs,
LEMMA SameRetries == ASSUME RetryTypeOK, UNCHANGED retryVars PROVE RetryTypeOK'
  BY DEF RetryTypeOK, retryVars

\* one that leaves the commands alone keeps theirs,
LEMMA SamePath == ASSUME PathTypeOK, UNCHANGED pathVars PROVE PathTypeOK'
  BY DEF PathTypeOK, pathVars, sentVars, landedVars

\* and so does one that leaves alone what the entity believes.
LEMMA SameState ==
  ASSUME StateTypeOK, UNCHANGED <<lanVars, stateVars, removed>> PROVE StateTypeOK'
  BY DEF StateTypeOK, lanVars, stateVars

\* Sending over the LAN or by a job puts a well-formed command on its way.
LEMMA SendTypes ==
  ASSUME PathTypeOK, NEW c \in Call, NEW byRetry \in BOOLEAN, NEW cmd \in Command,
         Send(c, byRetry, cmd)
  PROVE  PathTypeOK'
  <1>1. [owner |-> c, byRetry |-> byRetry, cmd |-> cmd, left |-> Attempts] \in Job
    BY PowerSwitchAssumption DEF Job
  <1>2. [owner |-> c, cmd |-> cmd] \in Message
    BY DEF Message
  <1>3. Latest(cmd, c, sentOff) \in Call \cup {0}
    BY DEF Latest, PathTypeOK
  <1>4. jobs' \subseteq Job
    BY <1>1 DEF Send, PathTypeOK
  <1>5. lanQueue' \in Seq(Message)
    BY <1>2 DEF Send, PathTypeOK
  <1>6. QED
    BY <1>2, <1>3, <1>4, <1>5 DEF Send, PathTypeOK, landedVars

\* What reaches the machine is a command.
LEMMA LandTypes ==
  ASSUME PathTypeOK, NEW m \in Message, UNCHANGED landedVars \/ Land(m)
  PROVE  landed' \in Message \cup {NoMessage} /\ landedOff' \in Call \cup {0}
  BY DEF PathTypeOK, Land, Latest, Message, landedVars

\* Cancelling a retry leaves every retry in its range.
LEMMA CancelTypes == ASSUME RetryTypeOK PROVE CancelRetry \in [Call -> RetryState]
  BY DEF RetryTypeOK, CancelRetry, RetryState

\* A sender goes on at once or waits for its job.
LEMMA AfterSendIs == AfterSend \in {"sending", "post"}
  BY DEF AfterSend

\* Taking the lock keeps the types of what it touches,
LEMMA EnterTypes ==
  ASSUME CallTypeOK, RetryTypeOK, PathTypeOK, NEW c \in Call, Enter(c)
  PROVE  pc' \in [Call -> PcState] /\ RetryTypeOK' /\ PathTypeOK'
  <1>1. CASE pc' = [pc EXCEPT ![c] = "ping"] /\ UNCHANGED <<retryVars, pathVars>>
    BY <1>1, SameRetries, SamePath DEF CallTypeOK, PcState, Active
  <1>2. CASE /\ pc' = [pc EXCEPT ![c] = AfterSend]
             /\ retry' = CancelRetry
             /\ UNCHANGED retryTask
             /\ Send(c, FALSE, "off")
    BY <1>2, AfterSendIs, SendTypes, CancelTypes DEF CallTypeOK, PcState, Active, RetryTypeOK, Command
  <1>3. QED
    BY <1>1, <1>2 DEF Enter

\* whether it is free or a call has to stand in line,
LEMMA AcquireTypes ==
  ASSUME CallTypeOK, RetryTypeOK, PathTypeOK, NEW c \in Call, Acquire(c)
  PROVE  /\ pc' \in [Call -> PcState] /\ RetryTypeOK' /\ PathTypeOK'
         /\ holder' \in Call \cup {0} /\ waiters' \in Seq(Call)
  <1>1. CASE LockFree
    BY <1>1, EnterTypes DEF Acquire, CallTypeOK
  <1>2. CASE ~LockFree
    <2>1. waiters' \in Seq(Call)
      BY <1>2 DEF Acquire, CallTypeOK
    <2>2. QED
      BY <1>2, <2>1, SameRetries, SamePath DEF Acquire, CallTypeOK, PcState
  <1>3. QED
    BY <1>1, <1>2

\* and so does leaving it.
LEMMA EndTypes ==
  ASSUME CallTypeOK, NEW c \in Call, NEW how \in Ended, End(c, how)
  PROVE  pc' \in [Call -> PcState] /\ holder' \in Call \cup {0} /\ waiters' \in Seq(Call)
  BY DEF CallTypeOK, End, Release, PcState

\* The end of a job reaches a call or a retry that is there.
LEMMA ResumeTypes ==
  ASSUME CallTypeOK, RetryTypeOK, NEW j \in Job, NEW ok \in BOOLEAN, Resume(j, ok)
  PROVE  /\ pc' \in [Call -> PcState] /\ holder' \in Call \cup {0} /\ waiters' \in Seq(Call)
         /\ retry' \in [Call -> RetryState]
  <1>1. j.owner \in Call
    BY DEF Job
  <1>2. retry' \in [Call -> RetryState]
    BY <1>1 DEF Resume, RetryTypeOK, RetryState, LiveRetry
  <1>3. CASE j.byRetry \/ ok
    BY <1>1, <1>2, <1>3 DEF Resume, CallTypeOK, lockVars, PcState, Active
  <1>4. CASE ~j.byRetry /\ ~ok
    BY <1>1, <1>2, <1>4, EndTypes DEF Resume, Ended
  <1>5. QED
    BY <1>3, <1>4

\* _reconcile_monitor_state keeps what it sets in range.
LEMMA ReconcileTypes ==
  ASSUME StateTypeOK, NEW s \in MachineState, Reconcile(s)
  PROVE  /\ processed' \in BOOLEAN /\ assumedOn' \in BOOLEAN /\ cachedOn' \in BOOLEAN
         /\ lastCommanded' \in Command \cup {"none"} /\ staleCount' \in Nat
         /\ lastMonitor' \in MachineState \cup {"none"}
  <1>1. SaysOn(s) \in BOOLEAN
    BY DEF SaysOn
  <1>2. AssumedAfter(s) \in BOOLEAN
    BY <1>1 DEF AssumedAfter, StateTypeOK
  <1>3. LastCommandedAfter(s) \in Command \cup {"none"}
    BY DEF LastCommandedAfter, StateTypeOK
  <1>4. StaleCountAfter(s) \in Nat
    BY DEF StaleCountAfter, StateTypeOK
  <1>5. assumedOn' \in BOOLEAN /\ cachedOn' \in BOOLEAN /\ processed' \in BOOLEAN
    <2>1. CASE s = "Unknown"
      BY <2>1 DEF Reconcile, StateTypeOK
    <2>2. CASE s # "Unknown"
      BY <1>1, <1>2, <2>2 DEF Reconcile, StateTypeOK
    <2>3. QED
      BY <2>1, <2>2
  <1>6. QED
    BY <1>3, <1>4, <1>5 DEF Reconcile, StateTypeOK

\* For every value of the constants every variable stays in its range.
THEOREM TypesHold == Spec => []TypeOK
  <1>1. Init => TypeOK
    <2> SUFFICES ASSUME Init PROVE TypeOK
      OBVIOUS
    <2>1. CallTypeOK
      <3>1. pc \in [Call -> PcState]
        BY DEF Init, PcState
      <3>2. waiters \in Seq(Call)
        BY DEF Init
      <3>3. QED
        BY <3>1, <3>2 DEF Init, CallTypeOK
    <2>2. RetryTypeOK /\ PathTypeOK
      BY DEF Init, RetryTypeOK, PathTypeOK, RetryState
    <2>3. StateTypeOK
      BY PowerSwitchAssumption DEF Init, StateTypeOK
    <2>4. QED
      BY <2>1, <2>2, <2>3 DEF TypeOK
  <1>2. TypeOK /\ [Next]_vars => TypeOK'
    <2> SUFFICES ASSUME CallTypeOK, RetryTypeOK, PathTypeOK, StateTypeOK, [Next]_vars
                 PROVE  CallTypeOK' /\ RetryTypeOK' /\ PathTypeOK' /\ StateTypeOK'
      BY DEF TypeOK
    <2>1. ASSUME NEW c \in Call, TurnOn(c)
          PROVE  CallTypeOK' /\ RetryTypeOK' /\ PathTypeOK' /\ StateTypeOK'
      <3>1. CASE holder # 0
        BY <2>1, <3>1, SameRetries, SamePath, SameState
        DEF TurnOn, CallTypeOK, PcState, Ended, lockVars
      <3>2. CASE holder = 0
        BY <2>1, <3>2, AcquireTypes, SameState DEF TurnOn, CallTypeOK
      <3>3. QED
        BY <3>1, <3>2
    <2>2. ASSUME NEW c \in Call, TurnOff(c)
          PROVE  CallTypeOK' /\ RetryTypeOK' /\ PathTypeOK' /\ StateTypeOK'
      BY <2>2, AcquireTypes, SameState DEF TurnOff, InWakePhase, CallTypeOK
    <2>3. ASSUME NEW c \in Call, CallStep(c)
          PROVE  CallTypeOK' /\ RetryTypeOK' /\ PathTypeOK' /\ StateTypeOK'
      <3>1. CASE WakePinged(c)
        BY <3>1, EndTypes, SameRetries, SamePath, SameState
        DEF WakePinged, CallTypeOK, PcState, Active, Ended, lockVars
      <3>2. CASE WakePingRaises(c) \/ WakeAborted(c) \/ PostPingRaises(c)
        BY <3>2, EndTypes, SameRetries, SamePath, SameState
        DEF WakePingRaises, WakeAborted, PostPingRaises, CallTypeOK, Ended
      <3>3. CASE WakeElapsed(c)
        BY <3>3, AfterSendIs, SendTypes, SameRetries, SameState
        DEF WakeElapsed, CallTypeOK, PcState, Active, lockVars, Command
      <3>4. CASE TurnOnDone(c)
        <4>1. retry' \in [Call -> RetryState]
          BY <3>4, CancelTypes DEF TurnOnDone, StartRetry, RetryState, LiveRetry
        <4>2. QED
          BY <3>4, <4>1, EndTypes, SamePath
          DEF TurnOnDone, Commanded, CallTypeOK, RetryTypeOK, StateTypeOK, Ended, Command, lanVars
      <3>5. CASE TurnOffDone(c)
        BY <3>5, EndTypes, SameRetries, SamePath
        DEF TurnOffDone, Commanded, CallTypeOK, StateTypeOK, Ended, Command, lanVars
      <3>6. QED
        BY <2>3, <3>1, <3>2, <3>3, <3>4, <3>5 DEF CallStep
    <2>4. ASSUME NEW c \in Call, RetryStep(c)
          PROVE  CallTypeOK' /\ RetryTypeOK' /\ PathTypeOK' /\ StateTypeOK'
      <3>1. CASE RetryDue(c) \/ RetryPinged(c)
        <4>1. RetryTypeOK'
          BY <3>1 DEF RetryDue, RetryPinged, RetryTypeOK, RetryState, LiveRetry
        <4>2. QED
          BY <3>1, <4>1, SameCalls, SamePath, SameState DEF RetryDue, RetryPinged
      <3>2. CASE RetrySends(c)
        <4>1. RetryTypeOK'
          BY <3>2, AfterSendIs DEF RetrySends, RetryTypeOK, RetryState, LiveRetry
        <4>2. QED
          BY <3>2, <4>1, SendTypes, SameCalls, SameState DEF RetrySends, Command
      <3>3. QED
        BY <2>4, <3>1, <3>2 DEF RetryStep
    <2>5. CASE Wakeup
      <3>1. Head(waiters) \in Call /\ Tail(waiters) \in Seq(Call)
        BY <2>5 DEF Wakeup, CallTypeOK
      <3>2. QED
        BY <2>5, <3>1, EnterTypes, SameState DEF Wakeup, CallTypeOK
    <2>6. CASE JobStep
      <3>1. PICK j \in jobs : JobSucceeds(j) \/ JobAttemptFails(j)
        BY <2>6 DEF JobStep
      <3>2. j \in Job
        BY DEF PathTypeOK
      <3>3. [owner |-> j.owner, cmd |-> j.cmd] \in Message
        BY <3>2 DEF Job, Message
      <3>4. CASE JobSucceeds(j)
        BY <3>2, <3>3, <3>4, ResumeTypes, LandTypes, SameState
        DEF JobSucceeds, CallTypeOK, RetryTypeOK, PathTypeOK, sentVars
      <3>5. CASE JobAttemptFails(j)
        <4>1. CASE AttemptsRemain(j)
          <5>1. [j EXCEPT !.left = @ - 1] \in Job
            BY <3>2, <4>1, PowerSwitchAssumption DEF AttemptsRemain, Job
          <5>2. QED
            BY <3>3, <3>5, <4>1, <5>1, LandTypes, SameState
            DEF JobAttemptFails, CallTypeOK, RetryTypeOK, PathTypeOK, sentVars, lockVars
        <4>2. CASE ~AttemptsRemain(j)
          BY <3>2, <3>3, <3>5, <4>2, ResumeTypes, LandTypes, SameState
          DEF JobAttemptFails, CallTypeOK, RetryTypeOK, PathTypeOK, sentVars
        <4>3. QED
          BY <4>1, <4>2
      <3>6. QED
        BY <3>1, <3>4, <3>5
    <2>7. ASSUME NEW s \in MachineState, Update(s)
          PROVE  CallTypeOK' /\ RetryTypeOK' /\ PathTypeOK' /\ StateTypeOK'
      BY <2>7, ReconcileTypes, SameCalls, SameRetries, SamePath
      DEF Update, StateTypeOK, lanVars
    <2>8. CASE ReadIsOn
      <3>1. machineState \in MachineState
        BY DEF StateTypeOK
      <3>2. QED
        BY <2>8, <3>1, ReconcileTypes, SameCalls, SameRetries, SamePath
        DEF ReadIsOn, StateTypeOK, lanVars
    <2>9. CASE WillRemove
      BY <2>9, CancelTypes, SameCalls, SamePath
      DEF WillRemove, RetryTypeOK, StateTypeOK, lanVars, stateVars
    <2>10. CASE LanChanges
      BY <2>10, SameCalls, SameRetries, SamePath DEF LanChanges, StateTypeOK, stateVars
    <2>11. CASE LanDelivers
      <3>1. Head(lanQueue) \in Message /\ Tail(lanQueue) \in Seq(Message)
        BY <2>11 DEF LanDelivers, PathTypeOK
      <3>2. PathTypeOK'
        BY <2>11, <3>1, LandTypes DEF LanDelivers, PathTypeOK, sentVars
      <3>3. QED
        BY <2>11, <3>2, SameCalls, SameRetries, SameState DEF LanDelivers
    <2>12. CASE UNCHANGED vars
      BY <2>12, SameCalls, SameRetries, SamePath, SameState DEF vars
    <2>13. QED
      BY <2>1, <2>2, <2>3, <2>4, <2>5, <2>6, <2>7, <2>8, <2>9, <2>10, <2>11, <2>12 DEF Next
  <1>3. QED
    BY <1>1, <1>2, PTL DEF Spec

-----------------------------------------------------------------------------
(* What the entity assumes, and its retry.                                 *)

\* For every value of the constants: until the monitor confirms a command, the
\* assumed state is what it commanded. A completed command sets both, and the
\* reconciliation touches the assumption only after it has dropped the command.
THEOREM AssumedHolds == Spec => []AssumedIsCommanded
  <1>1. Init => AssumedIsCommanded
    BY DEF Init, AssumedIsCommanded
  <1>2. AssumedIsCommanded /\ [Next]_vars => AssumedIsCommanded'
    <2> SUFFICES ASSUME AssumedIsCommanded, [Next]_vars PROVE AssumedIsCommanded'
      OBVIOUS
    <2>1. ASSUME UNCHANGED <<lastCommanded, assumedOn>> PROVE AssumedIsCommanded'
      BY <2>1 DEF AssumedIsCommanded
    <2>2. ASSUME NEW cmd \in Command, Commanded(cmd) PROVE AssumedIsCommanded'
      BY <2>2 DEF Commanded, AssumedIsCommanded
    <2>3. ASSUME NEW s \in MachineState, Reconcile(s) PROVE AssumedIsCommanded'
      BY <2>3 DEF Reconcile, LastCommandedAfter, AssumedAfter, AssumedIsCommanded
    <2>4. ASSUME NEW c \in Call, TurnOn(c) \/ TurnOff(c) \/ RetryStep(c)
          PROVE  AssumedIsCommanded'
      BY <2>1, <2>4 DEF TurnOn, TurnOff, RetryStep, RetryDue, RetryPinged, RetrySends, stateVars
    <2>5. ASSUME NEW c \in Call, CallStep(c) PROVE AssumedIsCommanded'
      BY <2>1, <2>2, <2>5 DEF CallStep, WakePinged, WakePingRaises, WakeAborted, WakeElapsed,
         TurnOnDone, TurnOffDone, PostPingRaises, stateVars, Command
    <2>6. ASSUME NEW s \in MachineState, Update(s) PROVE AssumedIsCommanded'
      BY <2>3, <2>6 DEF Update
    <2>7. CASE ReadIsOn
      BY <2>3, <2>7 DEF ReadIsOn, NeedsReconcile, Reconcile, LastCommandedAfter, AssumedAfter,
         AssumedIsCommanded
    <2>8. CASE Wakeup \/ JobStep \/ WillRemove \/ LanChanges \/ LanDelivers \/ UNCHANGED vars
      BY <2>1, <2>8 DEF Wakeup, JobStep, JobSucceeds, JobAttemptFails, WillRemove, LanChanges,
         LanDelivers, vars, stateVars
    <2>9. QED
      BY <2>4, <2>5, <2>6, <2>7, <2>8 DEF Next
  <1>3. QED
    BY <1>1, <1>2, PTL DEF Spec

\* Cancelling leaves no live retry, if the live one is the one that is tracked.
LEMMA CancelLeavesNone ==
  ASSUME RetryTypeOK, OneRetry PROVE \A c \in Call : CancelRetry[c] \notin LiveRetry
  BY DEF RetryTypeOK, OneRetry, CancelRetry, LiveRetry

\* Taking the lock starts no retry.
LEMMA EnterKeepsRetry ==
  ASSUME RetryTypeOK, NEW c \in Call, Enter(c)
  PROVE  retryTask' = retryTask
         /\ \A d \in Call : retry'[d] \in LiveRetry => retry[d] \in LiveRetry
  BY DEF Enter, retryVars, CancelRetry, RetryTypeOK, LiveRetry

\* A call that arrives starts none either.
LEMMA AcquireKeepsRetry ==
  ASSUME RetryTypeOK, NEW c \in Call, Acquire(c)
  PROVE  retryTask' = retryTask
         /\ \A d \in Call : retry'[d] \in LiveRetry => retry[d] \in LiveRetry
  BY EnterKeepsRetry DEF Acquire, retryVars

\* One step of OneRetry.
LEMMA OneRetryStep == TypeOK /\ OneRetry /\ [Next]_vars => OneRetry'
  <1> SUFFICES ASSUME RetryTypeOK, CallTypeOK, PathTypeOK, OneRetry, [Next]_vars PROVE OneRetry'
    BY DEF TypeOK
  <1>1. ASSUME retryTask' = retryTask,
               \A d \in Call : retry'[d] \in LiveRetry => retry[d] \in LiveRetry
        PROVE  OneRetry'
    BY <1>1 DEF OneRetry
  <1>2. ASSUME UNCHANGED retryVars PROVE OneRetry'
    BY <1>2 DEF OneRetry, retryVars
  <1>3. ASSUME NEW c \in Call, TurnOn(c) \/ TurnOff(c) PROVE OneRetry'
    BY <1>1, <1>2, <1>3, AcquireKeepsRetry DEF TurnOn, TurnOff
  <1>4. ASSUME NEW c \in Call, TurnOnDone(c) PROVE OneRetry'
    BY <1>4, CancelLeavesNone, CancelTypes DEF TurnOnDone, StartRetry, OneRetry
  <1>5. ASSUME NEW c \in Call, CallStep(c) PROVE OneRetry'
    BY <1>2, <1>4, <1>5 DEF CallStep, WakePinged, WakePingRaises, WakeAborted, WakeElapsed,
       TurnOffDone, PostPingRaises
  <1>6. ASSUME NEW c \in Call, RetryStep(c) PROVE OneRetry'
    BY <1>1, <1>6, AfterSendIs DEF RetryStep, RetryDue, RetryPinged, RetrySends, RetryTypeOK,
       LiveRetry
  <1>7. CASE Wakeup
    <2>1. Head(waiters) \in Call
      BY <1>7 DEF Wakeup, CallTypeOK
    <2>2. QED
      BY <1>1, <1>7, <2>1, EnterKeepsRetry DEF Wakeup
  <1>8. CASE JobStep
    <2>1. PICK j \in jobs : JobSucceeds(j) \/ JobAttemptFails(j)
      BY <1>8 DEF JobStep
    <2>2. j.owner \in Call
      BY DEF PathTypeOK, Job
    <2>3. \A d \in Call : retry'[d] \in LiveRetry => retry[d] \in LiveRetry
      BY <2>1, <2>2 DEF JobSucceeds, JobAttemptFails, Resume, RetryTypeOK, LiveRetry
    <2>4. QED
      BY <1>1, <2>1, <2>3 DEF JobSucceeds, JobAttemptFails
  <1>9. CASE WillRemove
    BY <1>9, CancelLeavesNone DEF WillRemove, OneRetry
  <1>10. CASE \/ \E s \in MachineState : Update(s)
              \/ ReadIsOn \/ LanChanges \/ LanDelivers \/ UNCHANGED vars
    BY <1>2, <1>10 DEF Update, ReadIsOn, LanChanges, LanDelivers, vars
  <1>11. QED
    BY <1>3, <1>5, <1>6, <1>7, <1>8, <1>9, <1>10 DEF Next

\* For every value of the constants: at most one retry task is pending or running,
\* and it is the one the entity can cancel.
THEOREM RetriesDoNotStack == Spec => []OneRetry
  <1>1. Init => OneRetry
    BY DEF Init, OneRetry, LiveRetry
  <1>2. QED
    BY <1>1, OneRetryStep, TypesHold, PTL DEF Spec

-----------------------------------------------------------------------------
(* The lock.                                                               *)

\* Calls arrive in the order of their numbers and stand in line in that order,
\* behind the one that holds the lock.
Idle(c) == pc[c] = "idle"
InOrder ==
  /\ \A c, d \in Call : ~Idle(c) /\ Idle(d) => c < d
  /\ \A i \in 1 .. Len(waiters) :
       /\ holder < waiters[i]
       /\ \A k \in 1 .. Len(waiters) : k < i => waiters[k] < waiters[i]

\* One job at most posts for a call, and the call that holds the lock waits for it.
OneJob ==
  \A j \in jobs : ~j.byRetry =>
    /\ pc[j.owner] = "sending"
    /\ \A i \in jobs : ~i.byRetry => i = j

LineInv == LockIsReleased /\ InOrder /\ OneJob

\* What was sent for a turn_off is older than whoever can still send.
OffIsBehind ==
  /\ \A c \in Call : Idle(c) => sentOff < c
  /\ \A i \in 1 .. Len(waiters) : sentOff < waiters[i]
  /\ holder # 0 => IF kind[holder] = "on" THEN sentOff < holder ELSE sentOff <= holder
  /\ \A c \in Call : retry[c] \in LiveRetry => sentOff < c

\* What a call does with the lock does not put it back in the line.
LEMMA EnterPc ==
  ASSUME CallTypeOK, NEW c \in Call, Enter(c)
  PROVE  \E w \in {"ping", "sending", "post"} : pc' = [pc EXCEPT ![c] = w]
  BY AfterSendIs DEF Enter

\* A free lock and an empty line: nobody is in the lock or waits for it.
LEMMA NobodyIn ==
  ASSUME CallTypeOK, LineInv, holder = 0
  PROVE  /\ \A c \in Call : pc[c] \notin Active
         /\ \A j \in jobs : j.owner \in Call => j.byRetry
  <1>1. \A c \in Call : pc[c] \notin Active
    BY CallIsNumber DEF LineInv, LockIsReleased
  <1>2. QED
    BY <1>1 DEF LineInv, OneJob, Active

\* A step that touches neither the calls nor the line.
LEMMA LineSame ==
  ASSUME LineInv, UNCHANGED <<pc, holder, waiters>> PROVE LockIsReleased' /\ InOrder'
  BY DEF LineInv, LockIsReleased, InOrder, Idle

\* A call that goes on inside the lock.
LEMMA LineMove ==
  ASSUME CallTypeOK, LineInv, NEW c \in Call, NEW w \in Active, holder = c,
         pc' = [pc EXCEPT ![c] = w], UNCHANGED lockVars
  PROVE  LockIsReleased' /\ InOrder'
  <1>1. pc[c] \in Active
    BY CallIsNumber DEF LineInv, LockIsReleased
  <1>2. LockIsReleased'
    BY <1>1 DEF CallTypeOK, LineInv, LockIsReleased, lockVars, Active
  <1>3. \A d \in Call : Idle(d)' <=> Idle(d)
    BY <1>1 DEF CallTypeOK, Idle, Active
  <1>4. QED
    BY <1>2, <1>3 DEF LineInv, InOrder, lockVars

\* A call that leaves the lock.
LEMMA LineEnd ==
  ASSUME CallTypeOK, LineInv, NEW c \in Call, NEW how \in Ended, holder = c, End(c, how)
  PROVE  LockIsReleased' /\ InOrder'
  <1>1. pc[c] \in Active /\ \A d \in Call : pc[d] \in Active => d = c
    BY CallIsNumber DEF LineInv, LockIsReleased
  <1>2. LockIsReleased'
    BY <1>1 DEF CallTypeOK, LineInv, LockIsReleased, End, Release, Active, Ended
  <1>3. \A d \in Call : Idle(d)' <=> Idle(d)
    BY <1>1 DEF CallTypeOK, Idle, End, Active, Ended
  <1>4. \A i \in 1 .. Len(waiters) : waiters[i] \in Call
    BY DEF CallTypeOK
  <1>5. \A i \in 1 .. Len(waiters') : holder' < waiters'[i]
    BY <1>4, CallIsNumber DEF End, Release, Call
  <1>6. QED
    BY <1>2, <1>3, <1>5 DEF LineInv, InOrder, End, Release

\* A call that arrives and takes the lock, or stands in line.
LEMMA LineAcquire ==
  ASSUME CallTypeOK, LineInv, NEW c \in Call, NextCall(c), Acquire(c)
  PROVE  LockIsReleased' /\ InOrder'
  <1> USE DEF LineInv
  <1>1. Idle(c) /\ \A d \in Call : d < c => ~Idle(d)
    BY DEF NextCall, Idle
  <1>2. ASSUME NEW w \in PcState \ {"idle"}, pc' = [pc EXCEPT ![c] = w]
        PROVE  \A a, d \in Call : ~Idle(a)' /\ Idle(d)' => a < d
    BY <1>1, <1>2, CallIsNumber DEF CallTypeOK, InOrder, Idle, Call
  <1>3. CASE LockFree
    <2>1. PICK w \in {"ping", "sending", "post"} : pc' = [pc EXCEPT ![c] = w]
      BY <1>3, EnterPc DEF Acquire
    <2>2. waiters = <<>> /\ waiters' = <<>> /\ holder = 0 /\ holder' = c
      BY <1>3 DEF Acquire, LockFree
    <2>3. \A d \in Call : pc[d] \notin Active /\ pc[d] # "queued"
      BY <2>2, NobodyIn DEF LockIsReleased
    <2>4. LockIsReleased'
      BY <2>1, <2>2, <2>3, CallIsNumber DEF CallTypeOK, LockIsReleased, Active
    <2>5. 1 .. Len(waiters') = {}
      BY <2>2
    <2>6. QED
      BY <1>2, <2>1, <2>4, <2>5 DEF InOrder, PcState, Active
  <1>4. CASE ~LockFree
    <2>1. waiters' = Append(waiters, c) /\ holder' = holder /\ pc' = [pc EXCEPT ![c] = "queued"]
      BY <1>4 DEF Acquire
    <2>2. /\ Len(waiters') = Len(waiters) + 1 /\ waiters'[Len(waiters) + 1] = c
          /\ \A i \in 1 .. Len(waiters) : waiters'[i] = waiters[i] /\ waiters[i] \in Call
      BY <2>1 DEF CallTypeOK
    <2>3. \A i \in 1 .. Len(waiters) : waiters[i] < c
      BY <1>1, <2>2 DEF LockIsReleased, InOrder, Idle
    <2>4. holder < c
      BY <1>1, CallIsNumber DEF CallTypeOK, LockIsReleased, InOrder, Idle, Active, Call
    <2>5. LockIsReleased'
      <3>1. (holder # 0 => pc[holder] \in Active)' /\ \A d \in Call : (pc[d] \in Active => holder = d)'
        BY <1>1, <2>1 DEF CallTypeOK, LockIsReleased, Idle, Active
      <3>2. ASSUME NEW d \in Call
            PROVE  (pc[d] = "queued" <=> \E i \in 1 .. Len(waiters) : waiters[i] = d)'
        <4>1. CASE d = c
          BY <2>1, <2>2, <4>1 DEF CallTypeOK
        <4>2. CASE d # c
          BY <2>1, <2>2, <4>2 DEF CallTypeOK, LockIsReleased
        <4>3. QED
          BY <4>1, <4>2
      <3>3. QED
        BY <3>1, <3>2 DEF LockIsReleased
    <2>6. \A i \in 1 .. Len(waiters') :
            holder' < waiters'[i] /\ \A k \in 1 .. Len(waiters') : k < i => waiters'[k] < waiters'[i]
      BY <2>1, <2>2, <2>3, <2>4 DEF InOrder, CallTypeOK
    <2>7. QED
      BY <1>2, <2>1, <2>5, <2>6 DEF InOrder, PcState
  <1>5. QED
    BY <1>3, <1>4

\* The first in line takes the lock.
LEMMA LineWakeup ==
  ASSUME CallTypeOK, LineInv, Wakeup PROVE LockIsReleased' /\ InOrder'
  <1> USE DEF LineInv
  <1>1. PICK c \in Call : c = Head(waiters)
    BY DEF Wakeup, CallTypeOK
  <1>2. PICK w \in {"ping", "sending", "post"} : pc' = [pc EXCEPT ![c] = w]
    BY <1>1, EnterPc DEF Wakeup
  <1>3. holder' = c /\ waiters # <<>> /\ waiters[1] = c
    BY <1>1 DEF Wakeup, CallTypeOK
  <1>4. /\ Len(waiters) \in Nat \ {0} /\ Len(waiters') = Len(waiters) - 1
        /\ \A i \in 1 .. Len(waiters') : waiters'[i] = waiters[i + 1]
        /\ \A i \in 1 .. Len(waiters) : waiters[i] \in Call
    BY DEF Wakeup, CallTypeOK
  <1>5. pc[c] = "queued"
    BY <1>3, <1>4 DEF LockIsReleased
  <1>6. \A d \in Call : pc[d] \notin Active
    BY NobodyIn DEF Wakeup
  <1>7. LockIsReleased'
    <2>1. (holder # 0 => pc[holder] \in Active)' /\ \A d \in Call : (pc[d] \in Active => holder = d)'
      BY <1>2, <1>3, <1>6 DEF CallTypeOK, Active
    <2>2. ASSUME NEW d \in Call
          PROVE  (pc[d] = "queued" <=> \E i \in 1 .. Len(waiters) : waiters[i] = d)'
      <3>1. CASE d = c
        <4>1. \A i \in 1 .. Len(waiters') : waiters'[i] # c
          BY <1>3, <1>4 DEF InOrder, Call
        <4>2. QED
          BY <1>2, <3>1, <4>1 DEF CallTypeOK
      <3>2. CASE d # c
        <4>1. pc'[d] = pc[d]
          BY <1>2, <3>2 DEF CallTypeOK
        <4>2. ASSUME NEW i \in 1 .. Len(waiters), waiters[i] = d
              PROVE  \E k \in 1 .. Len(waiters') : waiters'[k] = d
          <5>1. i # 1
            BY <1>3, <3>2, <4>2
          <5>2. i - 1 \in 1 .. Len(waiters') /\ waiters'[i - 1] = d
            BY <1>4, <4>2, <5>1
          <5>3. QED
            BY <5>2
        <4>3. ASSUME NEW k \in 1 .. Len(waiters'), waiters'[k] = d
              PROVE  \E i \in 1 .. Len(waiters) : waiters[i] = d
          <5>1. k + 1 \in 1 .. Len(waiters) /\ waiters[k + 1] = d
            BY <1>4, <4>3
          <5>2. QED
            BY <5>1
        <4>4. QED
          BY <4>1, <4>2, <4>3 DEF LockIsReleased
      <3>3. QED
        BY <3>1, <3>2
    <2>3. QED
      BY <2>1, <2>2 DEF LockIsReleased
  <1>8. \A d \in Call : Idle(d)' <=> Idle(d)
    BY <1>2, <1>5 DEF CallTypeOK, Idle
  <1>9. \A i \in 1 .. Len(waiters') :
          holder' < waiters'[i] /\ \A k \in 1 .. Len(waiters') : k < i => waiters'[k] < waiters'[i]
    BY <1>3, <1>4 DEF InOrder
  <1>10. QED
    BY <1>7, <1>8, <1>9 DEF InOrder

\* A job for a call is one that the call in the lock has just begun.
LEMMA NewJob ==
  ASSUME CallTypeOK, PathTypeOK, NEW c \in Call, NEW cmd \in Command, Send(c, FALSE, cmd),
         pc' = [pc EXCEPT ![c] = AfterSend], \A j \in jobs : j.byRetry
  PROVE  OneJob'
  <1>1. CASE lanAlive
    BY <1>1 DEF Send, OneJob
  <1>2. CASE ~lanAlive
    <2>1. pc'[c] = "sending"
      BY <1>2 DEF CallTypeOK, AfterSend
    <2> DEFINE new == [owner |-> c, byRetry |-> FALSE, cmd |-> cmd, left |-> Attempts]
    <2>2. \A j \in jobs' : ~j.byRetry => j = new
      BY <1>2 DEF Send
    <2>3. new.owner = c
      OBVIOUS
    <2> HIDE DEF new
    <2>4. QED
      BY <2>1, <2>2, <2>3 DEF OneJob
  <1>3. QED
    BY <1>1, <1>2

\* Taking the lock begins the only job for a call.
LEMMA EnterJobs ==
  ASSUME CallTypeOK, PathTypeOK, NEW c \in Call, Enter(c), \A j \in jobs : j.byRetry
  PROVE  OneJob'
  BY NewJob DEF Enter, OneJob, Command, pathVars

\* No job posts for a call that is not sending.
LEMMA SameJobs ==
  ASSUME CallTypeOK, PathTypeOK, OneJob, NEW c \in Call, pc[c] # "sending", NEW w,
         pc' = [pc EXCEPT ![c] = w], UNCHANGED jobs
  PROVE  OneJob'
  <1>1. \A j \in jobs : ~j.byRetry => j.owner # c
    BY DEF OneJob
  <1>2. \A j \in jobs : ~j.byRetry => pc'[j.owner] = "sending"
    BY <1>1 DEF CallTypeOK, PathTypeOK, Job, OneJob
  <1>3. QED
    BY <1>2 DEF OneJob

\* One step of LineInv.
LEMMA LineStep == TypeOK /\ LineInv /\ [Next]_vars => LineInv'
  <1> SUFFICES ASSUME CallTypeOK, PathTypeOK, LineInv, [Next]_vars PROVE LineInv'
    BY DEF TypeOK
  <1>1. ASSUME UNCHANGED <<pc, holder, waiters>>, OneJob' PROVE LineInv'
    BY <1>1, LineSame DEF LineInv
  <1>2. ASSUME UNCHANGED <<callVars, lockVars, jobs>> PROVE LineInv'
    BY <1>1, <1>2 DEF callVars, lockVars, LineInv, OneJob
  <1>3. ASSUME holder = 0 PROVE \A j \in jobs : j.byRetry
    BY <1>3, NobodyIn DEF PathTypeOK, Job
  <1>4. ASSUME NEW c \in Call, NextCall(c), Acquire(c) PROVE LineInv'
    <2>1. CASE LockFree
      BY <1>3, <1>4, <2>1, EnterJobs, LineAcquire DEF LineInv, LockFree, Acquire
    <2>2. CASE ~LockFree
      <3>1. OneJob'
        BY <1>4, <2>2, SameJobs DEF LineInv, Acquire, NextCall, pathVars
      <3>2. QED
        BY <1>4, <3>1, LineAcquire DEF LineInv
    <2>3. QED
      BY <2>1, <2>2
  <1>5. ASSUME NEW c \in Call, TurnOn(c) PROVE LineInv'
    <2>1. CASE holder # 0
      <3>1. pc' = [pc EXCEPT ![c] = "ignored"] /\ pc[c] = "idle" /\ UNCHANGED <<jobs, lockVars>>
        BY <1>5, <2>1 DEF TurnOn, NextCall, pathVars
      <3>2. OneJob'
        BY <3>1, SameJobs DEF LineInv
      <3>3. LockIsReleased'
        BY <3>1 DEF LineInv, LockIsReleased, CallTypeOK, lockVars, Active
      <3>4. \A a, d \in Call : ~Idle(a)' /\ Idle(d)' => a < d
        BY <1>5, <3>1, CallIsNumber DEF TurnOn, NextCall, LineInv, InOrder, CallTypeOK, Idle, Call
      <3>5. QED
        BY <3>1, <3>2, <3>3, <3>4 DEF LineInv, InOrder, lockVars
    <2>2. CASE holder = 0
      BY <1>4, <1>5, <2>2 DEF TurnOn
    <2>3. QED
      BY <2>1, <2>2
  <1>6. ASSUME NEW c \in Call, TurnOff(c) PROVE LineInv'
    BY <1>4, <1>6 DEF TurnOff
  <1>7. ASSUME NEW c \in Call, CallStep(c) PROVE LineInv'
    <2>1. CASE WakePinged(c)
      <3>1. LockIsReleased' /\ InOrder'
        BY <2>1, LineMove, LineEnd DEF WakePinged, Holding, Active, Ended
      <3>2. QED
        BY <2>1, <3>1, SameJobs DEF WakePinged, Holding, End, LineInv, pathVars
    <2>2. CASE WakeElapsed(c)
      <3>1. LockIsReleased' /\ InOrder'
        BY <2>2, AfterSendIs, LineMove DEF WakeElapsed, Holding, Active
      <3>2. \A j \in jobs : j.byRetry
        <4>1. ASSUME NEW j \in jobs, ~j.byRetry PROVE FALSE
          <5>1. j.owner \in Call /\ pc[j.owner] = "sending"
            BY <4>1 DEF PathTypeOK, Job, LineInv, OneJob
          <5>2. j.owner = c
            BY <2>2, <5>1 DEF WakeElapsed, Holding, LineInv, LockIsReleased, Active
          <5>3. QED
            BY <2>2, <5>1, <5>2 DEF WakeElapsed, Holding
        <4>2. QED
          BY <4>1 DEF PathTypeOK, Job
      <3>3. QED
        BY <2>2, <3>1, <3>2, NewJob DEF WakeElapsed, LineInv, Command
    <2>3. ASSUME NEW how \in Ended, NEW where \in {"ping", "wake", "post"}, Holding(c, where),
                 End(c, how), UNCHANGED jobs
          PROVE  LineInv'
      <3>1. LockIsReleased' /\ InOrder'
        BY <2>3, LineEnd DEF Holding
      <3>2. OneJob'
        BY <2>3, SameJobs DEF Holding, End, LineInv
      <3>3. QED
        BY <3>1, <3>2 DEF LineInv
    <2>4. CASE WakePingRaises(c) \/ WakeAborted(c) \/ PostPingRaises(c)
      BY <2>3, <2>4 DEF WakePingRaises, WakeAborted, PostPingRaises, pathVars, Ended
    <2>5. CASE TurnOnDone(c) \/ TurnOffDone(c)
      BY <2>3, <2>5 DEF TurnOnDone, TurnOffDone, pathVars, Ended
    <2>6. QED
      BY <1>7, <2>1, <2>2, <2>4, <2>5 DEF CallStep
  <1>8. ASSUME NEW c \in Call, RetryStep(c) PROVE LineInv'
    <2>1. CASE RetryDue(c) \/ RetryPinged(c)
      BY <1>2, <2>1 DEF RetryDue, RetryPinged, pathVars
    <2>2. CASE RetrySends(c)
      <3>1. UNCHANGED <<pc, holder, waiters>> /\ \A j \in jobs' : ~j.byRetry => j \in jobs
        BY <2>2 DEF RetrySends, Send, callVars, lockVars
      <3>2. QED
        BY <1>1, <3>1 DEF LineInv, OneJob
    <2>3. QED
      BY <1>8, <2>1, <2>2 DEF RetryStep
  <1>9. CASE Wakeup
    <2>1. Head(waiters) \in Call
      BY <1>9 DEF Wakeup, CallTypeOK
    <2>2. OneJob'
      BY <1>3, <1>9, <2>1, EnterJobs DEF Wakeup
    <2>3. QED
      BY <1>9, <2>2, LineWakeup DEF LineInv
  <1>10. CASE JobStep
    <2>1. PICK j \in jobs : JobSucceeds(j) \/ JobAttemptFails(j)
      BY <1>10 DEF JobStep
    <2>2. j \in Job /\ j.owner \in Call
      BY DEF PathTypeOK, Job
    <2>3. ASSUME NEW ok \in BOOLEAN, Resume(j, ok), jobs' = jobs \ {j} PROVE LineInv'
      <3>1. CASE j.byRetry
        BY <1>1, <2>3, <3>1 DEF Resume, lockVars, LineInv, OneJob
      <3>2. CASE ~j.byRetry
        <4>1. pc[j.owner] = "sending" /\ holder = j.owner
          BY <2>2, <3>2 DEF LineInv, LockIsReleased, OneJob, Active
        <4>2. OneJob'
          BY <2>3, <3>2 DEF LineInv, OneJob
        <4>3. CASE ok
          BY <2>2, <2>3, <3>2, <4>1, <4>2, <4>3, LineMove DEF Resume, LineInv, Active
        <4>4. CASE ~ok
          BY <2>2, <2>3, <3>2, <4>1, <4>2, <4>4, LineEnd DEF Resume, LineInv, Ended
        <4>5. QED
          BY <4>3, <4>4
      <3>3. QED
        BY <3>1, <3>2
    <2>4. CASE JobSucceeds(j)
      BY <2>3, <2>4 DEF JobSucceeds
    <2>5. CASE JobAttemptFails(j) /\ ~AttemptsRemain(j)
      BY <2>3, <2>5 DEF JobAttemptFails
    <2>6. CASE JobAttemptFails(j) /\ AttemptsRemain(j)
      <3>1. UNCHANGED <<pc, holder, waiters>>
        BY <2>6 DEF JobAttemptFails, lockVars
      <3>2. jobs' = (jobs \ {j}) \cup {[j EXCEPT !.left = @ - 1]}
        BY <2>6 DEF JobAttemptFails
      <3>3. [j EXCEPT !.left = @ - 1].byRetry = j.byRetry /\ [j EXCEPT !.left = @ - 1].owner = j.owner
        BY <2>2 DEF Job
      <3>4. OneJob'
        BY <3>1, <3>2, <3>3 DEF LineInv, OneJob
      <3>5. QED
        BY <1>1, <3>1, <3>4
    <2>7. QED
      BY <2>1, <2>4, <2>5, <2>6
  <1>11. CASE \/ \E s \in MachineState : Update(s)
              \/ ReadIsOn \/ WillRemove \/ LanChanges \/ LanDelivers \/ UNCHANGED vars
    BY <1>2, <1>11 DEF Update, ReadIsOn, WillRemove, LanChanges, LanDelivers, vars, pathVars
  <1>12. QED
    BY <1>5, <1>6, <1>7, <1>8, <1>9, <1>10, <1>11 DEF Next

\* The line, its order and the job of the call in the lock, together: neither is
\* kept by a step without the others.
THEOREM LineHolds == Spec => []LineInv
  <1>1. Init => LineInv
    BY CallIsNumber DEF Init, LineInv, LockIsReleased, InOrder, OneJob, Idle, Active
  <1>2. QED
    BY <1>1, LineStep, TypesHold, PTL DEF Spec

\* For every value of the constants: no path out of a call leaves the lock held, and
\* no turn_off waits for it without standing in the line.
THEOREM LockIsHandedOn == Spec => []LockIsReleased
  <1>1. LineInv => LockIsReleased
    BY DEF LineInv
  <1>2. QED
    BY <1>1, LineHolds, PTL

-----------------------------------------------------------------------------
(* The order of what is sent.                                              *)

\* Only a turn_on has a wake phase.
Waking(c) == pc[c] \in {"ping", "wake"}
WakesAreOn == \A c \in Call : Waking(c) => kind[c] = "on"

SendOrder == NoOnSentAfterLaterOff /\ OffIsBehind /\ WakesAreOn

\* A turn_off that takes the lock: every later call is behind it, and no retry lives.
LEMMA OffEnters ==
  ASSUME TypeOK, OneRetry, SendOrder, NEW c \in Call, Enter(c), holder' = c, sentOff < c,
         \A d \in Call : Idle(d)' => Idle(d) /\ c < d,
         \A i \in 1 .. Len(waiters') : sentOff < waiters'[i] /\ c < waiters'[i],
         UNCHANGED kind
  PROVE  SendOrder'
  <1>0. WakesAreOn'
    BY AfterSendIs DEF Enter, SendOrder, WakesAreOn, Waking, TypeOK, CallTypeOK
  <1>1. c # 0 /\ c \in Nat /\ sentOff \in Nat
    BY CallIsNumber DEF TypeOK, PathTypeOK
  <1>2. CASE kind[c] = "on"
    <2>1. UNCHANGED <<sent, sentOff, retry>>
      BY <1>2 DEF Enter, retryVars, pathVars, sentVars
    <2>2. NoOnSentAfterLaterOff'
      BY <2>1 DEF SendOrder, NoOnSentAfterLaterOff
    <2>3. QED
      BY <1>0, <1>2, <2>1, <2>2 DEF SendOrder, OffIsBehind
  <1>3. CASE kind[c] # "on"
    <2>1. sent' = [owner |-> c, cmd |-> "off"] /\ sentOff' = c /\ retry' = CancelRetry
      BY <1>3 DEF Enter, Send, Latest
    <2>2. \A d \in Call : retry'[d] \notin LiveRetry
      BY <2>1, CancelLeavesNone DEF TypeOK
    <2>3. NoOnSentAfterLaterOff'
      BY <2>1 DEF NoOnSentAfterLaterOff
    <2>4. OffIsBehind'
      BY <1>1, <1>3, <2>1, <2>2 DEF OffIsBehind
    <2>5. QED
      BY <1>0, <2>3, <2>4 DEF SendOrder
  <1>4. QED
    BY <1>2, <1>3

\* A call that arrives has every call before it behind it.
LEMMA AcquireOrder ==
  ASSUME TypeOK, LineInv, OneRetry, SendOrder, NEW c \in Call, NextCall(c), Acquire(c),
         UNCHANGED kind
  PROVE  SendOrder'
  <1>1. Idle(c) /\ sentOff < c
    BY DEF NextCall, Idle, SendOrder, OffIsBehind
  <1>2. \A d \in Call : Idle(d) /\ d # c => c < d
    BY CallIsNumber DEF NextCall, Idle, Call
  <1>3. CASE LockFree
    <2>1. PICK w \in {"ping", "sending", "post"} : pc' = [pc EXCEPT ![c] = w]
      BY <1>3, EnterPc DEF Acquire, TypeOK
    <2>2. \A d \in Call : Idle(d)' => Idle(d) /\ c < d
      BY <1>2, <2>1 DEF TypeOK, CallTypeOK, Idle
    <2>3. 1 .. Len(waiters') = {}
      BY <1>3 DEF Acquire, LockFree
    <2>4. Enter(c) /\ holder' = c
      BY <1>3 DEF Acquire
    <2>5. QED
      BY <1>1, <2>2, <2>3, <2>4, OffEnters
  <1>4. CASE ~LockFree
    <2>1. /\ waiters' = Append(waiters, c) /\ pc' = [pc EXCEPT ![c] = "queued"]
          /\ UNCHANGED <<holder, retry, sent, sentOff>>
      BY <1>4 DEF Acquire, retryVars, pathVars, sentVars
    <2>2. \A d \in Call : Idle(d)' => Idle(d)
      BY <2>1 DEF TypeOK, CallTypeOK, Idle
    <2>3. \A i \in 1 .. Len(waiters') : sentOff < waiters'[i]
      <3>1. /\ Len(waiters') = Len(waiters) + 1 /\ waiters'[Len(waiters) + 1] = c
            /\ \A i \in 1 .. Len(waiters) : waiters'[i] = waiters[i]
        BY <2>1 DEF TypeOK, CallTypeOK
      <3>2. Len(waiters) \in Nat
        BY DEF TypeOK, CallTypeOK
      <3>3. QED
        BY <1>1, <3>1, <3>2 DEF SendOrder, OffIsBehind
    <2>4. WakesAreOn'
      BY <2>1 DEF SendOrder, WakesAreOn, Waking, TypeOK, CallTypeOK
    <2>5. QED
      BY <2>1, <2>2, <2>3, <2>4 DEF SendOrder, OffIsBehind, NoOnSentAfterLaterOff
  <1>5. QED
    BY <1>3, <1>4

\* The first in line is behind what was sent, and ahead of the others.
LEMMA WakeupOrder ==
  ASSUME TypeOK, LineInv, OneRetry, SendOrder, Wakeup PROVE SendOrder'
  <1>1. PICK c \in Call : c = Head(waiters)
    BY DEF Wakeup, TypeOK, CallTypeOK
  <1>2. PICK w \in {"ping", "sending", "post"} : pc' = [pc EXCEPT ![c] = w]
    BY <1>1, EnterPc DEF Wakeup, TypeOK
  <1>3. /\ Len(waiters) \in Nat \ {0} /\ waiters[1] = c /\ Len(waiters') = Len(waiters) - 1
        /\ \A i \in 1 .. Len(waiters') : waiters'[i] = waiters[i + 1]
    BY <1>1 DEF Wakeup, TypeOK, CallTypeOK
  <1>4. sentOff < c
    BY <1>3 DEF SendOrder, OffIsBehind
  <1>5. \A i \in 1 .. Len(waiters') : sentOff < waiters'[i] /\ c < waiters'[i]
    BY <1>3 DEF SendOrder, OffIsBehind, LineInv, InOrder
  <1>6. pc[c] = "queued"
    BY <1>3 DEF LineInv, LockIsReleased
  <1>7. \A d \in Call : Idle(d)' => Idle(d) /\ c < d
    BY <1>2, <1>6 DEF TypeOK, CallTypeOK, LineInv, InOrder, Idle
  <1>8. Enter(c) /\ holder' = c /\ UNCHANGED kind
    BY <1>1 DEF Wakeup
  <1>9. QED
    BY <1>4, <1>5, <1>7, <1>8, OffEnters

\* One step of SendOrder.
LEMMA SendOrderStep == TypeOK /\ LineInv /\ OneRetry /\ SendOrder /\ [Next]_vars => SendOrder'
  <1> SUFFICES ASSUME TypeOK, LineInv, OneRetry, SendOrder, [Next]_vars PROVE SendOrder'
    OBVIOUS
  <1> USE DEF SendOrder
  <1> DEFINE OnlyLeaves(d) == (Idle(d)' => Idle(d)) /\ (Waking(d)' => Waking(d))
  \* A step that sends nothing, starts no retry and lets no call in.
  <1>1. ASSUME UNCHANGED <<kind, waiters, sent, sentOff>>, holder' \in {0, holder},
               \A d \in Call : OnlyLeaves(d),
               \A d \in Call : retry'[d] \in LiveRetry => retry[d] \in LiveRetry
        PROVE  SendOrder'
    BY <1>1 DEF OffIsBehind, NoOnSentAfterLaterOff, WakesAreOn
  <1>2. ASSUME NEW c \in Call, TurnOn(c) PROVE SendOrder'
    <2>1. CASE holder # 0
      <3>1. \A d \in Call : OnlyLeaves(d)
        BY <1>2, <2>1 DEF TurnOn, TypeOK, CallTypeOK, Idle, Waking
      <3>2. QED
        BY <1>1, <1>2, <2>1, <3>1 DEF TurnOn, lockVars, retryVars, pathVars, sentVars
    <2>2. CASE holder = 0
      BY <1>2, <2>2, AcquireOrder DEF TurnOn
    <2>3. QED
      BY <2>1, <2>2
  <1>3. ASSUME NEW c \in Call, TurnOff(c) PROVE SendOrder'
    BY <1>3, AcquireOrder DEF TurnOff
  <1>4. ASSUME NEW c \in Call, CallStep(c) PROVE SendOrder'
    <2>1. \A d \in Call : OnlyLeaves(d)
      BY <1>4, AfterSendIs DEF CallStep, WakePinged, WakePingRaises, WakeAborted, WakeElapsed,
         TurnOnDone, TurnOffDone, PostPingRaises, Holding, End, TypeOK, CallTypeOK, Idle,
         Waking
    <2>2. CASE WakePinged(c) \/ WakePingRaises(c) \/ WakeAborted(c) \/ PostPingRaises(c)
               \/ TurnOffDone(c)
      BY <1>1, <2>1, <2>2 DEF WakePinged, WakePingRaises, WakeAborted, PostPingRaises,
         TurnOffDone, End, Release, lockVars, retryVars, pathVars, sentVars
    <2>3. CASE WakeElapsed(c)
      <3>1. holder = c /\ kind[c] = "on" /\ sentOff < c
        BY <2>3, CallIsNumber DEF WakeElapsed, Holding, OffIsBehind, WakesAreOn, Waking
      <3>2. sent' = [owner |-> c, cmd |-> "on"] /\ sentOff' = sentOff
        BY <2>3 DEF WakeElapsed, Send, Latest
      <3>3. QED
        BY <2>1, <2>3, <3>1, <3>2 DEF WakeElapsed, lockVars, retryVars, OffIsBehind,
           NoOnSentAfterLaterOff, WakesAreOn
    <2>4. CASE TurnOnDone(c)
      <3>1. sentOff < c
        BY <2>4, CallIsNumber DEF TurnOnDone, Holding, OffIsBehind
      <3>2. \A d \in Call : retry'[d] \in LiveRetry => d = c
        BY <2>4, CancelLeavesNone, CancelTypes DEF TurnOnDone, StartRetry, TypeOK
      <3>3. QED
        BY <2>1, <2>4, <3>1, <3>2 DEF TurnOnDone, End, Release, pathVars, sentVars, OffIsBehind,
           NoOnSentAfterLaterOff, WakesAreOn
    <2>5. QED
      BY <1>4, <2>2, <2>3, <2>4 DEF CallStep
  <1>5. ASSUME NEW c \in Call, RetryStep(c) PROVE SendOrder'
    <2>1. \A d \in Call : OnlyLeaves(d) /\ (retry'[d] \in LiveRetry => retry[d] \in LiveRetry)
      BY <1>5 DEF RetryStep, RetryDue, RetryPinged, RetrySends, callVars, TypeOK, RetryTypeOK,
         LiveRetry, Idle, Waking
    <2>2. CASE RetryDue(c) \/ RetryPinged(c)
      BY <1>1, <2>1, <2>2 DEF RetryDue, RetryPinged, callVars, lockVars, pathVars, sentVars
    <2>3. CASE RetrySends(c)
      <3>1. sentOff < c
        BY <2>3 DEF RetrySends, OffIsBehind, LiveRetry
      <3>2. sent' = [owner |-> c, cmd |-> "on"] /\ sentOff' = sentOff
        BY <2>3 DEF RetrySends, Send, Latest
      <3>3. QED
        BY <2>1, <2>3, <3>1, <3>2 DEF RetrySends, callVars, lockVars, OffIsBehind,
           NoOnSentAfterLaterOff, WakesAreOn
    <2>4. QED
      BY <1>5, <2>2, <2>3 DEF RetryStep
  <1>6. CASE Wakeup
    BY <1>6, WakeupOrder
  <1>7. CASE JobStep
    <2>1. PICK j \in jobs : JobSucceeds(j) \/ JobAttemptFails(j)
      BY <1>7 DEF JobStep
    <2>2. j.owner \in Call
      BY DEF TypeOK, PathTypeOK, Job
    <2>3. /\ UNCHANGED <<kind, waiters, sent, sentOff>> /\ holder' \in {0, holder}
          /\ \A d \in Call : OnlyLeaves(d)
      BY <2>1, <2>2 DEF JobSucceeds, JobAttemptFails, Resume, End, Release, lockVars, sentVars,
         TypeOK, CallTypeOK, Idle, Waking
    <2>4. \A d \in Call : retry'[d] \in LiveRetry => retry[d] \in LiveRetry
      BY <2>1, <2>2 DEF JobSucceeds, JobAttemptFails, Resume, TypeOK, RetryTypeOK, LiveRetry
    <2>5. QED
      BY <1>1, <2>3, <2>4
  <1>8. CASE WillRemove
    <2>1. \A d \in Call : retry'[d] \notin LiveRetry
      BY <1>8, CancelLeavesNone DEF WillRemove, TypeOK
    <2>2. QED
      BY <1>1, <1>8, <2>1 DEF WillRemove, callVars, lockVars, pathVars, sentVars, Idle, Waking
  <1>9. CASE \/ \E s \in MachineState : Update(s)
             \/ ReadIsOn \/ LanChanges \/ LanDelivers \/ UNCHANGED vars
    BY <1>1, <1>9 DEF Update, ReadIsOn, LanChanges, LanDelivers, vars, callVars, lockVars,
       retryVars, pathVars, sentVars, Idle, Waking
  <1>10. QED
    BY <1>2, <1>3, <1>4, <1>5, <1>6, <1>7, <1>8, <1>9 DEF Next

\* For every value of the constants: once a turn_off has started to send, neither an
\* earlier turn_on nor its retry starts to send POWER_ON.
THEOREM OffIsLast == Spec => []NoOnSentAfterLaterOff
  <1>1. Init => SendOrder
    <2> SUFFICES ASSUME Init PROVE SendOrder
      OBVIOUS
    <2>1. NoOnSentAfterLaterOff /\ WakesAreOn
      BY DEF Init, NoOnSentAfterLaterOff, NoMessage, WakesAreOn, Waking
    <2>2. OffIsBehind
      BY CallIsNumber DEF Init, OffIsBehind, LiveRetry, Call
    <2>3. QED
      BY <2>1, <2>2 DEF SendOrder
  <1>2. SendOrder => NoOnSentAfterLaterOff
    BY DEF SendOrder
  <1>3. QED
    BY <1>1, <1>2, SendOrderStep, TypesHold, LineHolds, RetriesDoNotStack, PTL DEF Spec

-----------------------------------------------------------------------------
(* The wake ping that a turn_off overtook.                                 *)

\* The turn_on calls that a turn_off found in their wake ping.  Such a call is over,
\* or still in the ping, and the flag that ends it after the ping stands.
Pinged == {c \in Call : <<c, "ping">> \in doomed}
Doomed ==
  \A c \in Pinged :
    pc[c] \in {"aborted", "wakeRaised"} \/ (pc[c] = "ping" /\ cancelTurnOn)

\* A retry has its turn_on behind it, and so has the last POWER_ON its wake phase.
PastWake == {"sending", "post", "done", "postRaised", "failed"}
RetryIsLater == \A c \in Call : retry[c] # "none" => pc[c] = "done"
OnIsPastWake == sent.cmd = "on" => pc[sent.owner] \in PastWake

SentInv == RetryIsLater /\ OnIsPastWake
DoomInv == Doomed /\ SentInv

\* A POWER_ON was sent for a call.
LEMMA OwnerIsCall == ASSUME TypeOK, sent.cmd = "on" PROVE sent.owner \in Call
  BY DEF TypeOK, PathTypeOK, Message, NoMessage

\* A call that moves where no retry is its own and no command behind it.
LEMMA MoveKeepsSent ==
  ASSUME TypeOK, SentInv, NEW c \in Call, NEW w, pc' = [pc EXCEPT ![c] = w],
         UNCHANGED sent, \A d \in Call : retry'[d] # "none" => retry[d] # "none",
         pc[c] # "done", pc[c] \in PastWake => w \in PastWake
  PROVE  SentInv'
  <1>1. \A d \in Call : pc'[d] = IF d = c THEN w ELSE pc[d]
    BY DEF TypeOK, CallTypeOK
  <1>2. QED
    BY <1>1, OwnerIsCall DEF SentInv, RetryIsLater, OnIsPastWake

\* Cancelling makes no retry of none.
LEMMA CancelKeepsNone ==
  ASSUME RetryTypeOK, NEW d \in Call, CancelRetry[d] # "none" PROVE retry[d] # "none"
  BY DEF RetryTypeOK, CancelRetry, LiveRetry

\* Taking the lock puts no POWER_ON before a wake phase, and moves one call.
LEMMA EnterKeepsSent ==
  ASSUME TypeOK, SentInv, NEW c \in Call, Enter(c), pc[c] \in {"idle", "queued"}
  PROVE  SentInv' /\ \A d \in Call \ {c} : pc'[d] = pc[d]
  <1>1. PICK w \in {"ping", "sending", "post"} : pc' = [pc EXCEPT ![c] = w]
    BY EnterPc DEF TypeOK
  <1>2. \A d \in Call : pc'[d] = IF d = c THEN w ELSE pc[d]
    BY <1>1 DEF TypeOK, CallTypeOK
  <1>3. \A d \in Call : retry'[d] # "none" => retry[d] # "none"
    BY CancelKeepsNone DEF Enter, retryVars, TypeOK
  <1>4. sent'.cmd = "on" => UNCHANGED sent
    BY DEF Enter, Send, pathVars, sentVars
  <1>5. QED
    BY <1>2, <1>3, <1>4, OwnerIsCall DEF SentInv, RetryIsLater, OnIsPastWake, PastWake

\* So does arriving.
LEMMA AcquireKeepsSent ==
  ASSUME TypeOK, SentInv, NEW c \in Call, Acquire(c), pc[c] = "idle"
  PROVE  SentInv' /\ \A d \in Call \ {c} : pc'[d] = pc[d]
  <1>1. CASE LockFree
    BY <1>1, EnterKeepsSent DEF Acquire
  <1>2. CASE ~LockFree
    <2>1. pc' = [pc EXCEPT ![c] = "queued"] /\ UNCHANGED <<retry, sent>>
      BY <1>2 DEF Acquire, retryVars, pathVars, sentVars
    <2>2. SentInv'
      BY <2>1, MoveKeepsSent DEF PastWake
    <2>3. QED
      BY <2>1, <2>2 DEF TypeOK, CallTypeOK
  <1>3. QED
    BY <1>1, <1>2

\* One step of SentInv.
LEMMA SentStep == TypeOK /\ LineInv /\ SentInv /\ [Next]_vars => SentInv'
  <1> SUFFICES ASSUME TypeOK, LineInv, SentInv, [Next]_vars PROVE SentInv'
    OBVIOUS
  <1>1. ASSUME UNCHANGED <<pc, sent>>, \A d \in Call : retry'[d] # "none" => retry[d] # "none"
        PROVE  SentInv'
    BY <1>1 DEF SentInv, RetryIsLater, OnIsPastWake
  <1>2. ASSUME NEW c \in Call, TurnOn(c) PROVE SentInv'
    BY <1>2, AcquireKeepsSent, MoveKeepsSent
    DEF TurnOn, NextCall, retryVars, pathVars, sentVars, PastWake
  <1>3. ASSUME NEW c \in Call, TurnOff(c) PROVE SentInv'
    BY <1>3, AcquireKeepsSent DEF TurnOff, NextCall
  <1>4. ASSUME NEW c \in Call, CallStep(c) PROVE SentInv'
    <2>1. CASE WakePinged(c) \/ WakePingRaises(c) \/ WakeAborted(c)
      BY <2>1, MoveKeepsSent
      DEF WakePinged, WakePingRaises, WakeAborted, Holding, End, retryVars, pathVars, sentVars,
          PastWake
    <2>2. CASE PostPingRaises(c) \/ TurnOffDone(c)
      BY <2>2, MoveKeepsSent
      DEF PostPingRaises, TurnOffDone, Holding, End, retryVars, pathVars, sentVars, PastWake
    <2>3. CASE WakeElapsed(c)
      <3>1. pc' = [pc EXCEPT ![c] = AfterSend] /\ pc[c] = "wake"
            /\ UNCHANGED retry /\ sent' = [owner |-> c, cmd |-> "on"]
        BY <2>3 DEF WakeElapsed, Holding, Send, retryVars
      <3>2. AfterSend \in PastWake
        BY AfterSendIs DEF PastWake
      <3>3. QED
        BY <3>1, <3>2 DEF TypeOK, CallTypeOK, SentInv, RetryIsLater, OnIsPastWake
    <2>4. CASE TurnOnDone(c)
      <3>1. pc' = [pc EXCEPT ![c] = "done"] /\ retry' = StartRetry(c) /\ UNCHANGED sent
        BY <2>4 DEF TurnOnDone, End, pathVars, sentVars
      <3>2. \A d \in Call \ {c} : retry'[d] # "none" => retry[d] # "none"
        BY <3>1, CancelKeepsNone, CancelTypes DEF StartRetry, TypeOK
      <3>3. QED
        BY <3>1, <3>2, OwnerIsCall
        DEF TypeOK, CallTypeOK, SentInv, RetryIsLater, OnIsPastWake, PastWake
    <2>5. QED
      BY <1>4, <2>1, <2>2, <2>3, <2>4 DEF CallStep
  <1>5. ASSUME NEW c \in Call, RetryStep(c) PROVE SentInv'
    <2>1. retry[c] # "none" /\ pc' = pc
          /\ \A d \in Call : retry'[d] # "none" => retry[d] # "none"
      BY <1>5 DEF RetryStep, RetryDue, RetryPinged, RetrySends, callVars, TypeOK, RetryTypeOK
    <2>2. CASE RetryDue(c) \/ RetryPinged(c)
      BY <1>1, <2>1, <2>2 DEF RetryDue, RetryPinged, pathVars, sentVars
    <2>3. CASE RetrySends(c)
      <3>1. sent' = [owner |-> c, cmd |-> "on"]
        BY <2>3 DEF RetrySends, Send
      <3>2. QED
        BY <2>1, <3>1 DEF SentInv, RetryIsLater, OnIsPastWake, PastWake
    <2>4. QED
      BY <1>5, <2>2, <2>3 DEF RetryStep
  <1>6. CASE Wakeup
    <2>1. Head(waiters) \in Call /\ \E i \in 1 .. Len(waiters) : waiters[i] = Head(waiters)
      BY <1>6 DEF Wakeup, TypeOK, CallTypeOK
    <2>2. pc[Head(waiters)] = "queued"
      BY <2>1 DEF LineInv, LockIsReleased
    <2>3. QED
      BY <1>6, <2>1, <2>2, EnterKeepsSent DEF Wakeup
  <1>7. CASE JobStep
    <2>1. PICK j \in jobs : JobSucceeds(j) \/ JobAttemptFails(j)
      BY <1>7 DEF JobStep
    <2>2. j \in Job /\ j.owner \in Call /\ UNCHANGED sent
      BY <2>1 DEF TypeOK, PathTypeOK, Job, JobSucceeds, JobAttemptFails, sentVars
    <2>3. \A d \in Call : retry'[d] # "none" => retry[d] # "none"
      BY <2>1, <2>2 DEF JobSucceeds, JobAttemptFails, Resume, TypeOK, RetryTypeOK
    <2>4. CASE pc' = pc
      BY <1>1, <2>2, <2>3, <2>4
    <2>5. CASE pc' # pc
      <3>1. pc[j.owner] = "sending"
        BY <2>1, <2>5 DEF JobSucceeds, JobAttemptFails, Resume, LineInv, OneJob
      <3>2. \E w \in {"post", "failed"} : pc' = [pc EXCEPT ![j.owner] = w]
        BY <2>1, <2>5 DEF JobSucceeds, JobAttemptFails, Resume, End
      <3>3. QED
        BY <2>2, <2>3, <3>1, <3>2, MoveKeepsSent DEF PastWake
    <2>6. QED
      BY <2>4, <2>5
  <1>8. CASE WillRemove
    BY <1>1, <1>8, CancelKeepsNone DEF WillRemove, callVars, pathVars, sentVars, TypeOK
  <1>9. CASE \/ \E s \in MachineState : Update(s)
             \/ ReadIsOn \/ LanChanges \/ LanDelivers \/ UNCHANGED vars
    BY <1>1, <1>9 DEF Update, ReadIsOn, LanChanges, LanDelivers, vars, callVars, retryVars,
       pathVars, sentVars
  <1>10. QED
    BY <1>2, <1>3, <1>4, <1>5, <1>6, <1>7, <1>8, <1>9 DEF Next

\* One step of Doomed: only a turn_on that finds the lock free clears the flag, and
\* then nobody is in a wake phase.
LEMMA DoomStep == TypeOK /\ LineInv /\ DoomInv /\ [Next]_vars => Doomed'
  <1> SUFFICES ASSUME TypeOK, LineInv, Doomed, SentInv, [Next]_vars PROVE Doomed'
    BY DEF DoomInv
  <1>1. \A d \in Pinged : d \in Call /\ pc[d] \in {"ping", "aborted", "wakeRaised"}
    BY DEF Doomed, Pinged
  <1>2. ASSUME UNCHANGED <<doomed, cancelTurnOn>>, \A d \in Pinged : pc'[d] = pc[d] PROVE Doomed'
    BY <1>2 DEF Doomed, Pinged
  <1>3. ASSUME NEW c \in Call, TurnOn(c) PROVE Doomed'
    <2>1. pc[c] = "idle" /\ c \notin Pinged /\ doomed' = doomed /\ Pinged' = Pinged
      BY <1>1, <1>3 DEF TurnOn, NextCall, Pinged
    <2>2. CASE holder # 0
      BY <1>1, <1>2, <1>3, <2>1, <2>2 DEF TurnOn, TypeOK, CallTypeOK
    <2>3. CASE holder = 0
      <3>1. \A d \in Pinged : pc[d] \in {"aborted", "wakeRaised"}
        BY <1>1, <2>3, NobodyIn DEF TypeOK, Active
      <3>2. \A d \in Pinged : pc'[d] = pc[d]
        BY <1>1, <1>3, <2>1, <2>3, AcquireKeepsSent DEF TurnOn
      <3>3. QED
        BY <2>1, <3>1, <3>2 DEF Doomed
    <2>4. QED
      BY <2>2, <2>3
  <1>4. ASSUME NEW c \in Call, TurnOff(c) PROVE Doomed'
    <2>1. pc[c] = "idle" /\ cancelTurnOn'
          /\ doomed' = doomed \cup {<<d, pc[d]>> : d \in InWakePhase}
      BY <1>4 DEF TurnOff, NextCall
    <2>2. \A d \in Pinged' : d \in Call \ {c} /\ pc[d] \in {"ping", "aborted", "wakeRaised"}
      <3> SUFFICES ASSUME NEW d \in Pinged', d \notin Pinged
                   PROVE  d \in Call \ {c} /\ pc[d] = "ping"
        BY <1>1, <2>1
      <3>1. d \in Call /\ \E e \in InWakePhase : <<d, "ping">> = <<e, pc[e]>>
        BY <2>1 DEF Pinged
      <3>2. QED
        BY <2>1, <3>1
    <2>3. \A d \in Pinged' : pc'[d] = pc[d]
      BY <1>4, <2>1, <2>2, AcquireKeepsSent DEF TurnOff
    <2>4. QED
      BY <2>1, <2>2, <2>3 DEF Doomed
  <1>5. ASSUME NEW c \in Call, CallStep(c) PROVE Doomed'
    <2>1. UNCHANGED <<doomed, cancelTurnOn>>
      BY <1>5 DEF CallStep, WakePinged, WakePingRaises, WakeAborted, WakeElapsed, TurnOnDone,
         TurnOffDone, PostPingRaises
    <2>2. ASSUME NEW w, pc' = [pc EXCEPT ![c] = w],
                 c \in Pinged => w \in {"aborted", "wakeRaised"}
          PROVE  Doomed'
      BY <1>1, <2>1, <2>2 DEF Doomed, Pinged, TypeOK, CallTypeOK
    <2>3. CASE WakePinged(c) \/ WakePingRaises(c) \/ WakeAborted(c)
      BY <2>2, <2>3 DEF WakePinged, WakePingRaises, WakeAborted, Holding, End, Doomed
    <2>4. CASE WakeElapsed(c)
      <3>1. c \notin Pinged
        BY <1>1, <2>4 DEF WakeElapsed, Holding
      <3>2. QED
        BY <2>2, <2>4, <3>1 DEF WakeElapsed
    <2>5. CASE TurnOnDone(c) \/ TurnOffDone(c) \/ PostPingRaises(c)
      <3>1. c \notin Pinged
        BY <1>1, <2>5 DEF TurnOnDone, TurnOffDone, PostPingRaises, Holding
      <3>2. QED
        BY <2>2, <2>5, <3>1 DEF TurnOnDone, TurnOffDone, PostPingRaises, End
    <2>6. QED
      BY <1>5, <2>3, <2>4, <2>5 DEF CallStep
  <1>6. CASE Wakeup
    <2>1. Head(waiters) \in Call /\ \E i \in 1 .. Len(waiters) : waiters[i] = Head(waiters)
      BY <1>6 DEF Wakeup, TypeOK, CallTypeOK
    <2>2. pc[Head(waiters)] = "queued"
      BY <2>1 DEF LineInv, LockIsReleased
    <2>3. \A d \in Call \ {Head(waiters)} : pc'[d] = pc[d]
      BY <1>6, <2>1, <2>2, EnterKeepsSent DEF Wakeup
    <2>4. QED
      BY <1>1, <1>2, <1>6, <2>2, <2>3 DEF Wakeup
  <1>7. CASE JobStep
    <2>1. PICK j \in jobs : JobSucceeds(j) \/ JobAttemptFails(j)
      BY <1>7 DEF JobStep
    <2>2. pc' = pc \/ (pc[j.owner] = "sending" /\ \E w : pc' = [pc EXCEPT ![j.owner] = w])
      BY <2>1 DEF JobSucceeds, JobAttemptFails, Resume, End, LineInv, OneJob
    <2>3. \A d \in Pinged : pc'[d] = pc[d]
      BY <1>1, <2>2 DEF TypeOK, CallTypeOK
    <2>4. QED
      BY <1>2, <2>1, <2>3 DEF JobSucceeds, JobAttemptFails
  <1>8. CASE \/ \E c \in Call : RetryStep(c)
             \/ \E s \in MachineState : Update(s)
             \/ ReadIsOn \/ WillRemove \/ LanChanges \/ LanDelivers \/ UNCHANGED vars
    BY <1>2, <1>8 DEF RetryStep, RetryDue, RetryPinged, RetrySends, Update, ReadIsOn, WillRemove,
       LanChanges, LanDelivers, vars, callVars
  <1>9. QED
    BY <1>3, <1>4, <1>5, <1>6, <1>7, <1>8 DEF Next

\* For every value of the constants: a turn_on that a turn_off found in its wake ping
\* never sends POWER_ON (async_turn_on clears the event only when the lock is free).
THEOREM AbortIsFinal == Spec => []PingAbortHolds
  <1>1. Init => DoomInv
    BY DEF Init, DoomInv, Doomed, Pinged, SentInv, RetryIsLater, OnIsPastWake, NoMessage
  <1>2. TypeOK /\ LineInv /\ DoomInv /\ [Next]_vars => DoomInv'
    BY SentStep, DoomStep DEF DoomInv
  <1>3. TypeOK /\ DoomInv => PingAbortHolds
    BY OwnerIsCall
    DEF DoomInv, Doomed, Pinged, SentInv, OnIsPastWake, PastWake, PingAbortHolds
  <1>4. QED
    BY <1>1, <1>2, <1>3, TypesHold, LineHolds, PTL DEF Spec

=============================================================================
