---------------------------- MODULE Baseline_proofs ----------------------------
(***************************************************************************)
(* Proofs about Baseline, for any counters, values and number of calls:    *)
(* the types, that the file ends up as the dictionary, and that what a     *)
(* sensor has shown does not fall.                                         *)
(***************************************************************************)
EXTENDS Baseline, TLAPS

-----------------------------------------------------------------------------
(* Types.                                                                  *)

StoreTypeOK ==
  /\ loaded \in BOOLEAN /\ removing \in BOOLEAN
  /\ values \in Values
  /\ toSave \in Save /\ writing \in Save
  /\ file \in [there : BOOLEAN, values : Values]
  /\ calls \in 0..MaxCalls
  /\ ~loaded => Settled /\ values = NoValues

ShowTypeOK ==
  /\ pushed \subseteq Counter
  /\ sent \in [Counter -> Number]
  /\ cloud \in [Counter -> Number \cup {Absent, Text}]
  /\ recorded \in [Counter -> Number]

\* A step that leaves the store alone, or the sensors, keeps their types.
LEMMA SameStore == ASSUME StoreTypeOK, UNCHANGED storeVars PROVE StoreTypeOK'
  BY DEF StoreTypeOK, Settled, storeVars

LEMMA SameShow == ASSUME ShowTypeOK, UNCHANGED showVars PROVE ShowTypeOK'
  BY DEF ShowTypeOK, showVars

\* No baselines are baselines.
LEMMA NoValuesType == NoValues \in Values /\ NoFile \in [there : BOOLEAN, values : Values]
  BY DEF NoValues, NoFile, Values

\* A save lets go of the dictionary with a copy in its place.
LEMMA ReleasedTypes ==
  ASSUME values \in Values, NEW save \in Save PROVE Released(save) \in Save
  BY DEF Released, Save

\* For every value of the constants every variable stays in its range, and nothing is
\* written or set before the file was read.
THEOREM TypesHold == Spec => []TypeOK
  <1> DEFINE Parts == StoreTypeOK /\ ShowTypeOK /\ past \subseteq Disturbance
  <1>1. Init => Parts
    <2> SUFFICES ASSUME Init PROVE Parts
      OBVIOUS
    <2>1. StoreTypeOK
      <3>1. toSave \in Save /\ writing \in Save
        BY DEF Init, Save
      <3>2. calls \in 0..MaxCalls
        BY BaselineAssumption DEF Init
      <3>3. QED
        BY <3>1, <3>2, NoValuesType DEF Init, StoreTypeOK, Settled
    <2>2. ShowTypeOK
      BY BaselineAssumption DEF Init, ShowTypeOK, NoValues, Number
    <2>3. QED
      BY <2>1, <2>2 DEF Init
  <1>2. Parts /\ [Next]_vars => Parts'
    <2> SUFFICES ASSUME StoreTypeOK, ShowTypeOK, past \subseteq Disturbance, [Next]_vars
                 PROVE  StoreTypeOK' /\ ShowTypeOK' /\ past' \subseteq Disturbance
      OBVIOUS
    <2>1. ASSUME NEW k \in Counter, Push(k)
          PROVE  StoreTypeOK' /\ ShowTypeOK' /\ past' \subseteq Disturbance
      BY <2>1, SameStore, BaselineAssumption DEF Push, ShowTypeOK, Number
    <2>2. ASSUME NEW c \in [Counter -> Number \cup {Absent, Text}], Refresh(c)
          PROVE  StoreTypeOK' /\ ShowTypeOK' /\ past' \subseteq Disturbance
      <3>1. ASSUME NEW k \in Counter
            PROVE  NativeValue(values[k], c[k]) \in Number \cup {Absent}
        BY DEF NativeValue, IsNumber
      <3>2. recorded' \in [Counter -> Number]
        BY <2>2, <3>1 DEF Refresh, ShowTypeOK
      <3>3. QED
        BY <2>2, <3>2, SameStore DEF Refresh, ShowTypeOK, Disturbance
    <2>3. ASSUME NEW k \in Counter, NEW n \in Number, SetMany(k, n)
          PROVE  StoreTypeOK' /\ ShowTypeOK' /\ past' \subseteq Disturbance
      <3>1. values' \in Values
        BY <2>3 DEF SetMany, Updated, NoValues, Values, StoreTypeOK
      <3>2. calls' \in 0..MaxCalls /\ UNCHANGED showVars
        BY <2>3, BaselineAssumption DEF SetMany, Calls, StoreTypeOK
      <3>3. toSave' \in Save /\ loaded' /\ past' \subseteq Disturbance
        BY <2>3 DEF SetMany, Saved, Save, Disturbance
      <3>4. QED
        BY <2>3, <3>1, <3>2, <3>3, SameShow DEF SetMany, StoreTypeOK
    <2>4. CASE Clear
      <3>1. calls' \in 0..MaxCalls /\ UNCHANGED showVars
        BY <2>4, BaselineAssumption DEF Clear, Calls, StoreTypeOK
      <3>2. toSave' \in Save
        BY <2>4, ReleasedTypes DEF Clear, StoreTypeOK
      <3>3. QED
        BY <2>4, <3>1, <3>2, NoValuesType, SameShow DEF Clear, StoreTypeOK, Disturbance
    <2>5. CASE StartWrite
      <3>1. writing' \in Save /\ toSave' \in Save
        BY <2>5, ReleasedTypes DEF StartWrite, StoreTypeOK, Save
      <3>2. loaded
        BY <2>5 DEF StartWrite, StoreTypeOK, Settled
      <3>3. QED
        BY <2>5, <3>1, <3>2, SameShow DEF StartWrite, StoreTypeOK
    <2>6. CASE EndWrite
      <3>1. writing.values \in Values
        BY NoValuesType DEF StoreTypeOK, Save, Nothing, Current
      <3>2. file' \in [there : BOOLEAN, values : Values] /\ writing' \in Save
        BY <2>6, <3>1 DEF EndWrite, Save
      <3>3. loaded
        BY <2>6 DEF EndWrite, StoreTypeOK, Settled
      <3>4. QED
        BY <2>6, <3>2, <3>3, SameShow DEF EndWrite, StoreTypeOK
    <2>7. CASE Unlink
      BY <2>7, NoValuesType, SameShow DEF Unlink, StoreTypeOK, Settled
    <2>8. CASE Restart
      <3>1. ShowTypeOK'
        BY <2>8 DEF Restart, ShowTypeOK, NoValues
      <3>2. calls' \in 0..MaxCalls
        BY <2>8, BaselineAssumption DEF Restart, StoreTypeOK
      <3>3. QED
        BY <2>8, <3>1, <3>2, NoValuesType DEF Restart, StoreTypeOK, Settled
    <2>9. CASE Load
      BY <2>9, SameShow DEF Load, StoreTypeOK
    <2>10. CASE UNCHANGED vars
      BY <2>10, SameStore, SameShow DEF vars
    <2>11. QED
      BY <2>1, <2>2, <2>3, <2>4, <2>5, <2>6, <2>7, <2>8, <2>9, <2>10 DEF Next
  <1>3. Parts => TypeOK
    BY DEF TypeOK, StoreTypeOK, ShowTypeOK
  <1>4. QED
    BY <1>1, <1>2, <1>3, PTL DEF Spec

-----------------------------------------------------------------------------
(* The file.                                                               *)

\* Where the baselines of the dictionary are: still shared with a save that waits, or
\* else in the hands of a write, or else in the file, unless an unlink took them.
Kept ==
  \/ toSave = Current
  \/ toSave = Nothing /\ writing # Nothing /\ writing.values = values
  \/ /\ toSave = Nothing /\ writing = Nothing
     /\ file = [there |-> TRUE, values |-> values] \/ ("reset" \in past /\ file = NoFile)

FileInv ==
  /\ loaded /\ values # NoValues => Kept
  /\ file.there \/ file = NoFile
  /\ removing => "reset" \in past

\* A copy is not the dictionary, and is something.
LEMMA Copies == ASSUME NEW v PROVE [kind |-> "own", values |-> v] \notin {Nothing, Current}
  <1>1. Nothing.kind = "nothing" /\ Current.kind = "shared"
    BY DEF Nothing, Current
  <1>2. QED
    BY <1>1

LEMMA FileStep == TypeOK /\ FileInv /\ [Next]_vars => FileInv'
  <1> SUFFICES ASSUME TypeOK, FileInv, [Next]_vars PROVE FileInv'
    OBVIOUS
  <1>1. ASSUME UNCHANGED storeVars, past \subseteq past' PROVE FileInv'
    BY <1>1 DEF FileInv, Kept, storeVars
  <1>2. ASSUME \/ \E k \in Counter : Push(k)
               \/ \E c \in [Counter -> Number \cup {Absent, Text}] : Refresh(c)
               \/ UNCHANGED vars
        PROVE  FileInv'
    BY <1>1, <1>2 DEF Push, Refresh, vars
  <1>3. ASSUME NEW k \in Counter, NEW n \in Number, SetMany(k, n) PROVE FileInv'
    BY <1>3 DEF SetMany, Saved, FileInv, Kept
  <1>4. CASE Clear
    BY <1>4 DEF Clear, FileInv
  <1>5. CASE StartWrite
    <2>1. loaded /\ values # NoValues => toSave = Current
      BY <1>5 DEF StartWrite, FileInv, Kept
    <2>2. loaded /\ values # NoValues => writing' = [kind |-> "own", values |-> values]
      BY <1>5, <2>1 DEF StartWrite, Released
    <2>3. loaded /\ values # NoValues => Kept'
      BY <1>5, <2>2, Copies DEF StartWrite, Kept
    <2>4. QED
      BY <1>5, <2>3 DEF StartWrite, FileInv
  <1>6. CASE EndWrite
    BY <1>6 DEF EndWrite, FileInv, Kept
  <1>7. CASE Unlink
    BY <1>7 DEF Unlink, FileInv, Kept
  <1>8. CASE Restart
    BY <1>8 DEF Restart, FileInv
  <1>9. CASE Load
    <2>1. toSave = Nothing /\ writing = Nothing
      BY <1>9 DEF Load, TypeOK, Settled
    <2>2. file = [there |-> file.there, values |-> file.values]
      BY DEF TypeOK
    <2>3. file.values # NoValues => file.there = TRUE
      BY DEF TypeOK, FileInv, NoFile
    <2>4. QED
      BY <1>9, <2>1, <2>2, <2>3 DEF Load, FileInv, Kept
  <1>10. QED
    BY <1>2, <1>3, <1>4, <1>5, <1>6, <1>7, <1>8, <1>9 DEF Next

LEMMA FileInit == Init => FileInv
  BY DEF Init, FileInv

\* For every value of the constants: when the Store has nothing in hand, the file holds
\* every baseline there is, or was removed by a reset that overtook a write.
THEOREM FileFollowsMemory == Spec => []FileIsMemory
  <1>1. FileInv => FileIsMemory
    <2>1. Nothing # Current
      BY DEF Nothing, Current
    <2>2. QED
      BY <2>1 DEF FileInv, Kept, FileIsMemory, Settled
  <1>2. QED
    BY <1>1, FileInit, FileStep, TypesHold, PTL DEF Spec

-----------------------------------------------------------------------------
(* What a sensor has shown.                                                *)

\* The baseline that counts: the file's, until it is loaded.
Base(k) == IF loaded THEN values[k] ELSE file.values[k]

\* As long as nothing disturbed the counters, what a sensor showed is covered by
\* what the next refresh finds.
Covered ==
  past = {} =>
    \A k \in Counter :
      recorded[k] = 0 \/ recorded[k] <= Base(k) \/ (k \in pushed /\ recorded[k] <= sent[k])

LEMMA CoveredStep == TypeOK /\ FileInv /\ Covered /\ [Next]_vars => Covered'
  <1> SUFFICES ASSUME TypeOK, FileInv, Covered, [Next]_vars, past' = {}
               PROVE  Covered'
    BY DEF Covered
  <1> USE DEF Base
  <1>1. ASSUME UNCHANGED <<loaded, values, file, recorded, pushed, sent, past>>
        PROVE  Covered'
    BY <1>1 DEF Covered
  <1>2. ASSUME NEW k \in Counter, Push(k) PROVE Covered'
    BY <1>2, BaselineAssumption DEF Push, Covered, storeVars, TypeOK, Number
  <1>3. ASSUME NEW c \in [Counter -> Number \cup {Absent, Text}], Refresh(c) PROVE Covered'
    <2>1. past = {} /\ loaded
      BY <1>3 DEF Refresh
    <2>2. ASSUME NEW k \in Counter
          PROVE  recorded'[k] = recorded[k] \/ recorded'[k] <= values[k]
                 \/ (k \in pushed /\ recorded'[k] <= sent[k])
      <3>1. recorded'[k] = IF NativeValue(values[k], c[k]) = Absent THEN recorded[k]
                           ELSE NativeValue(values[k], c[k])
        BY <1>3 DEF Refresh
      <3>2. values[k] \in Number \cup {Absent} /\ c[k] \in Number \cup {Absent, Text}
            /\ sent[k] \in Number
        BY DEF TypeOK, Values
      <3>3. c[k] \in Number => k \in pushed /\ c[k] = sent[k]
        BY <1>3, BaselineAssumption DEF Refresh, Found, Number, Absent, Text
      <3>4. QED
        BY <3>1, <3>2, <3>3, BaselineAssumption DEF NativeValue, Merge, IsNumber, Number, Absent, Text
    <2>3. QED
      BY <1>3, <2>1, <2>2 DEF Refresh, storeVars, Covered
  <1>4. ASSUME NEW k \in Counter, NEW n \in Number, SetMany(k, n) PROVE Covered'
    <2>1. past = {} /\ ~(n < recorded[k])
      BY <1>4 DEF SetMany
    <2>2. \A j \in Counter : values'[j] = IF j = k THEN n ELSE values[j]
      BY <1>4, BaselineAssumption DEF SetMany, Updated, NoValues, Number, Absent, TypeOK, Values
    <2>3. recorded[k] <= n
      BY <2>1, BaselineAssumption DEF TypeOK, Number
    <2>4. QED
      BY <1>4, <2>1, <2>2, <2>3 DEF SetMany, Calls, showVars, Covered
  <1>5. CASE Clear
    BY <1>5 DEF Clear, Covered
  <1>6. CASE StartWrite
    BY <1>1, <1>6 DEF StartWrite, showVars
  <1>7. CASE EndWrite
    <2>1. loaded
      BY <1>7 DEF EndWrite, TypeOK, Settled
    <2>2. QED
      BY <1>7, <2>1 DEF EndWrite, showVars, Covered
  <1>8. CASE Unlink
    BY <1>8 DEF Unlink, FileInv
  <1>9. CASE Restart
    <2>1. CASE ~loaded
      BY <1>9, <2>1 DEF Restart, Covered
    <2>2. CASE loaded /\ values = NoValues
      <3>1. ASSUME NEW k \in Counter PROVE recorded[k] = 0 \/ ~(recorded[k] <= values[k])
        BY <2>2, BaselineAssumption DEF NoValues, Absent, TypeOK, Number
      <3>2. QED
        BY <1>9, <2>2, <3>1 DEF Restart, Covered
    <2>3. CASE loaded /\ values # NoValues
      <3>1. file.values = values
        <4>1. Nothing # Current
          BY DEF Nothing, Current
        <4>2. QED
          BY <1>9, <2>3, <4>1 DEF Restart, Settled, FileInv, Kept
      <3>2. QED
        BY <1>9, <2>3, <3>1 DEF Restart, Covered
    <2>4. QED
      BY <2>1, <2>2, <2>3
  <1>10. CASE Load
    BY <1>10 DEF Load, showVars, Covered
  <1>11. CASE UNCHANGED vars
    BY <1>1, <1>11 DEF vars, storeVars, showVars
  <1>12. QED
    BY <1>2, <1>3, <1>4, <1>5, <1>6, <1>7, <1>8, <1>9, <1>10, <1>11 DEF Next

\* One step: a refresh shows no less than was shown.
LEMMA RefreshIsNoLess ==
  TypeOK /\ Covered /\ [Next]_vars =>
    (past' = {} => \A k \in Counter : recorded'[k] >= recorded[k])
  <1> SUFFICES ASSUME TypeOK, Covered, [Next]_vars, past' = {}, NEW k \in Counter
               PROVE  recorded'[k] >= recorded[k]
    OBVIOUS
  <1>1. recorded[k] \in Nat
    BY BaselineAssumption DEF TypeOK, Number
  <1>2. CASE recorded' = recorded
    BY <1>1, <1>2
  <1>3. ASSUME NEW c \in [Counter -> Number \cup {Absent, Text}], Refresh(c)
        PROVE  recorded'[k] >= recorded[k]
    <2>1. past = {} /\ loaded /\ (k \in pushed => IsNumber(c[k]))
      BY <1>3 DEF Refresh, TypeOK
    <2>2. recorded'[k] = IF NativeValue(values[k], c[k]) = Absent THEN recorded[k]
                         ELSE NativeValue(values[k], c[k])
      BY <1>3 DEF Refresh
    <2>3. values[k] \in Number \cup {Absent} /\ c[k] \in Number \cup {Absent, Text}
          /\ sent[k] \in Number
      BY DEF TypeOK, Values
    <2>4. IF k \in pushed THEN c[k] = sent[k] ELSE c[k] = Absent
      BY <1>3, <2>1, BaselineAssumption DEF Refresh, Found, IsNumber, Number, Absent, Text
    <2>5. recorded[k] = 0 \/ recorded[k] <= values[k] \/ (k \in pushed /\ recorded[k] <= sent[k])
      BY <2>1 DEF Covered, Base
    <2>6. QED
      BY <1>1, <2>2, <2>3, <2>4, <2>5, BaselineAssumption
      DEF NativeValue, Merge, IsNumber, Number, Absent, Text
  <1>4. CASE \/ \E j \in Counter : Push(j)
             \/ \E j \in Counter, n \in Number : SetMany(j, n)
             \/ Clear \/ StartWrite \/ EndWrite \/ Unlink \/ Restart \/ Load
             \/ UNCHANGED vars
    BY <1>2, <1>4 DEF Push, SetMany, Clear, Calls, StartWrite, EndWrite, Unlink, Restart, Load,
       vars, showVars
  <1>5. QED
    BY <1>3, <1>4 DEF Next

\* For every value of the constants: the state of a counter sensor never falls, while
\* its counter stays in the cloud and nobody resets a baseline or sets one below it.
THEOREM TotalsDoNotFall == Spec => NeverFalls
  <1>1. Init => Covered
    BY DEF Init, Covered
  <1>2. QED
    BY <1>1, CoveredStep, RefreshIsNoLess, FileInit, FileStep, TypesHold, PTL
    DEF Spec, NeverFalls

=============================================================================
