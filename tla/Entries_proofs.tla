----------------------------- MODULE Entries_proofs ----------------------------
(***************************************************************************)
(* Proofs about Entries, for any number of entries, machines, dialogs,     *)
(* failures and changes of the password: the types with what the entries   *)
(* share, that no machine has two entries, and what an unload closes.      *)
(***************************************************************************)
EXTENDS Entries, SequenceTheorems, TLAPS

Client == [session : BOOLEAN, lan : BOOLEAN, tried : BOOLEAN]
FlowState == [pc : {"form", "login", "pick"}, valid : BOOLEAN, found : SUBSET Machine]

EntryTypeOK ==
  /\ machine \in [Entry -> Machine \cup {NoMachine}]
  /\ stored \in [Entry -> BOOLEAN]
  /\ phase \in [Entry -> Phase]
  /\ next \in [Entry -> {"nothing", "reload", "remove"}]
  /\ client \in [Entry -> Client]
  /\ work \in [Entry -> {"none", "cycle", "call"}]
  /\ disturbed \in [Entry -> BOOLEAN]

SharedTypeOK == data \in Seq(Entry) /\ services \in BOOLEAN

DialogTypeOK ==
  /\ reauth \in [Entry -> {"none", "form", "login", "reload", "reloading"}]
  /\ flow \in [Flow -> FlowState]

BoundTypeOK == changes \in Nat /\ faults \in Nat

\* An entry whose platforms are being set up has its place already; the services
\* follow.
Placed == \A e \in Entry : phase[e] = "forward" => e \in ToSet(data)

SharedInv == SharedTypeOK /\ Placed /\ ServicesMatchEntries

-----------------------------------------------------------------------------
(* hass.data[DOMAIN].                                                      *)

\* An entry that is appended is there with the others.
LEMMA AppendKeeps ==
  ASSUME NEW s \in Seq(Entry), NEW e \in Entry
  PROVE  /\ Append(s, e) \in Seq(Entry) /\ Append(s, e) # <<>>
         /\ e \in ToSet(Append(s, e)) /\ ToSet(s) \subseteq ToSet(Append(s, e))
  <1>1. /\ Len(Append(s, e)) = Len(s) + 1 /\ Append(s, e)[Len(s) + 1] = e
        /\ \A i \in 1 .. Len(s) : Append(s, e)[i] = s[i]
    OBVIOUS
  <1>2. DOMAIN Append(s, e) = 1 .. Len(s) + 1 /\ DOMAIN s = 1 .. Len(s) /\ Len(s) \in Nat
    OBVIOUS
  <1>3. e \in ToSet(Append(s, e)) /\ ToSet(s) \subseteq ToSet(Append(s, e))
    BY <1>1, <1>2 DEF ToSet
  <1>4. QED
    BY <1>3

\* Without(e) leaves every other entry in its place.
LEMMA WithoutKeeps ==
  ASSUME data \in Seq(Entry), NEW e \in ToSet(data)
  PROVE  Without(e) \in Seq(Entry) /\ ToSet(data) \ {e} \subseteq ToSet(Without(e))
  <1> DEFINE p == CHOOSE i \in DOMAIN data : data[i] = e
  <1>1. DOMAIN data = 1 .. Len(data) /\ Len(data) \in Nat
    OBVIOUS
  <1>2. p \in 1 .. Len(data) /\ data[p] = e
    BY <1>1 DEF ToSet
  <1> DEFINE front == SubSeq(data, 1, p - 1)
             back == SubSeq(data, p + 1, Len(data))
  <1>3. Without(e) = front \o back
    BY DEF Without, RemoveAt
  <1> HIDE DEF p
  <1>4. front \in Seq(Entry) /\ Len(front) = p - 1 /\ \A i \in 1 .. p - 1 : front[i] = data[i]
    <2>1. \A i \in 1 .. p - 1 : data[i] \in Entry
      BY <1>1, <1>2
    <2>2. QED
      BY <1>2, <2>1, SubSeqProperties
  <1>5. /\ back \in Seq(Entry) /\ Len(back) = Len(data) - p
        /\ \A i \in 1 .. Len(data) - p : back[i] = data[p + i]
    <2>1. \A i \in p + 1 .. Len(data) : data[i] \in Entry
      BY <1>1, <1>2
    <2>2. /\ back \in Seq(Entry)
          /\ Len(back) = IF p + 1 <= Len(data) THEN Len(data) - (p + 1) + 1 ELSE 0
          /\ \A i \in 1 .. Len(data) - (p + 1) + 1 : back[i] = data[p + 1 + i - 1]
      BY <1>1, <1>2, <2>1, SubSeqProperties
    <2>3. ASSUME NEW i \in 1 .. Len(data) - p PROVE back[i] = data[p + i]
      <3>1. i \in 1 .. Len(data) - (p + 1) + 1 /\ p + 1 + i - 1 = p + i
        BY <1>1, <1>2
      <3>2. QED
        BY <2>2, <3>1
    <2>4. Len(back) = Len(data) - p
      <3>1. p \in Nat /\ p <= Len(data) /\ Len(data) \in Nat
        BY <1>1, <1>2
      <3>2. (IF p + 1 <= Len(data) THEN Len(data) - (p + 1) + 1 ELSE 0) = Len(data) - p
        BY <3>1
      <3>3. QED
        BY <2>2, <3>2
    <2>5. QED
      BY <2>2, <2>3, <2>4
  <1> HIDE DEF front, back
  <1>6. /\ Without(e) \in Seq(Entry) /\ Len(Without(e)) = Len(data) - 1
        /\ \A i \in 1 .. Len(data) - 1 :
             Without(e)[i] = IF i < p THEN front[i] ELSE back[i - (p - 1)]
    <2>1. /\ front \o back \in Seq(Entry)
          /\ Len(front \o back) = Len(front) + Len(back)
          /\ \A i \in 1 .. Len(front) + Len(back) :
               (front \o back)[i] = IF i <= Len(front) THEN front[i] ELSE back[i - Len(front)]
      BY <1>4, <1>5, ConcatProperties
    <2>2. QED
      BY <1>1, <1>2, <1>3, <1>4, <1>5, <2>1
  <1>7. ASSUME NEW d \in ToSet(data), d # e PROVE d \in ToSet(Without(e))
    <2>1. PICK i \in 1 .. Len(data) : data[i] = d
      BY <1>1 DEF ToSet
    <2>2. i # p
      BY <1>2, <1>7, <2>1
    <2>3. \E j \in 1 .. Len(data) - 1 : Without(e)[j] = d
      <3>1. CASE i < p
        BY <1>1, <1>2, <1>4, <1>6, <2>1, <3>1
      <3>2. CASE i > p
        <4>1. i - p \in 1 .. Len(data) - p /\ back[i - p] = d
          BY <1>1, <1>2, <1>5, <2>1, <3>2
        <4>2. i - 1 \in 1 .. Len(data) - 1 /\ ~(i - 1 < p) /\ (i - 1) - (p - 1) = i - p
          BY <1>1, <1>2, <2>1, <3>2
        <4>3. Without(e)[i - 1] = back[i - p]
          BY <1>6, <4>2
        <4>4. QED
          BY <4>1, <4>2, <4>3
      <3>3. QED
        BY <1>1, <1>2, <2>1, <2>2, <3>1, <3>2
    <2>4. DOMAIN Without(e) = 1 .. Len(data) - 1
      BY <1>6
    <2>5. QED
      BY <2>3, <2>4 DEF ToSet
  <1>8. QED
    BY <1>6, <1>7

-----------------------------------------------------------------------------
(* Types.                                                                  *)

\* Steps that leave the entries alone.
LEMMA SameEntries ==
  ASSUME EntryTypeOK, UNCHANGED <<machine, stored, phase, next, client, work, disturbed>>
  PROVE  EntryTypeOK'
  BY DEF EntryTypeOK

\* Steps that leave the dialogs alone.
LEMMA SameDialogs == ASSUME DialogTypeOK, UNCHANGED <<reauth, flow>> PROVE DialogTypeOK'
  BY DEF DialogTypeOK

\* Steps that count nothing.
LEMMA SameBounds == ASSUME BoundTypeOK, UNCHANGED bounds PROVE BoundTypeOK'
  BY DEF BoundTypeOK, bounds

\* A failure is counted.
LEMMA FaultTypes == ASSUME BoundTypeOK, Fault, UNCHANGED changes PROVE BoundTypeOK'
  BY DEF BoundTypeOK, Fault

\* The clients there can be.
LEMMA ClientTypes ==
  NoClient \in Client
  /\ \A e \in Entry, tried, lan \in BOOLEAN : Opened(e, tried, lan) \in Client
  BY DEF NoClient, Client, Opened

\* The form of the dialog.
LEMMA FormTypes == Form \in FlowState
  BY DEF Form, FlowState

\* Home Assistant asks for the password.
LEMMA AskTypes ==
  ASSUME DialogTypeOK, NEW e \in Entry, Ask(e), UNCHANGED flow PROVE DialogTypeOK'
  BY DEF DialogTypeOK, Ask

\* The setup of an entry.
LEMMA SetupTypes ==
  ASSUME EntryTypeOK, DialogTypeOK, BoundTypeOK, NEW e \in Entry, Setup(e) \/ NotReady(e)
  PROVE  EntryTypeOK' /\ DialogTypeOK' /\ BoundTypeOK'
  <1> USE SameDialogs, SameBounds, ClientTypes
  <1>1. CASE StartSetup(e)
    BY <1>1 DEF StartSetup, Goes, EntryTypeOK, Phase
  <1>2. CASE SetupRejected(e)
    BY <1>2, AskTypes DEF SetupRejected, Goes, EntryTypeOK, Phase, AtRest
  <1>3. CASE NotReady(e)
    BY <1>3, FaultTypes DEF NotReady, Goes, EntryTypeOK, Phase, AtRest
  <1>4. CASE FirstRefresh(e)
    BY <1>4 DEF FirstRefresh, Goes, EntryTypeOK, Phase
  <1>5. CASE Forwarded(e)
    BY <1>5 DEF Forwarded, Goes, EntryTypeOK, Phase, AtRest
  <1>6. QED
    BY <1>1, <1>2, <1>3, <1>4, <1>5 DEF Setup

\* A reload or a removal, by whoever asks for it.
LEMMA UnloadTypes ==
  ASSUME EntryTypeOK, NEW e \in Entry, NEW to \in {"reload", "remove"}, Unload(e, to)
  PROVE  EntryTypeOK'
  <1>1. CASE StartUnload(e, to)
    BY <1>1 DEF Unload, StartUnload, Goes, EntryTypeOK, Phase
  <1>2. CASE Skip(e, to)
    BY <1>2 DEF Unload, Skip, Goes, Leaves, Unloaded, EntryTypeOK, Phase
  <1>3. QED
    BY <1>1, <1>2 DEF Unload

\* The steps of an unload.
LEMMA UnloadsTypes ==
  ASSUME EntryTypeOK, DialogTypeOK, BoundTypeOK, NEW e \in Entry,
         Unloads(e) \/ PlatformStays(e)
  PROVE  EntryTypeOK' /\ DialogTypeOK' /\ BoundTypeOK'
  <1> USE SameDialogs, SameBounds, ClientTypes
  <1>1. CASE LanStopped(e)
    BY <1>1 DEF LanStopped, StopLan, Goes, EntryTypeOK, Phase, Client
  <1>2. CASE ClientClosed(e)
    BY <1>2 DEF ClientClosed, Goes, EntryTypeOK, Phase, Client
  <1>3. CASE PlatformsUnloaded(e)
    <2>1. EntryTypeOK'
      BY <1>3 DEF PlatformsUnloaded, Goes, Leaves, Unloaded, EntryTypeOK, Phase
    <2>2. DialogTypeOK'
      BY <1>3 DEF PlatformsUnloaded, DialogTypeOK
    <2>3. QED
      BY <1>3, <2>1, <2>2 DEF PlatformsUnloaded
  <1>4. CASE PlatformStays(e)
    BY <1>4, FaultTypes DEF PlatformStays, Goes, EntryTypeOK, Phase, AtRest
  <1>5. QED
    BY <1>1, <1>2, <1>3, <1>4 DEF Unloads

\* Polls and service calls.
LEMMA TakesTypes ==
  ASSUME EntryTypeOK, NEW e \in Entry, NEW kind \in {"cycle", "call"}, Takes(e, kind)
  PROVE  EntryTypeOK'
  BY DEF Takes, EntryTypeOK, Client, Unloading

\* The entry that a service call goes to is one of hass.data.
LEMMA TargetIsEntry ==
  ASSUME SharedTypeOK, data # <<>>, NEW e \in Entry PROVE Target(e) \in Entry
  BY DEF SharedTypeOK, Target

\* The poll cycles and service calls of an entry.
LEMMA WorkTypes ==
  ASSUME EntryTypeOK, SharedTypeOK, DialogTypeOK, BoundTypeOK, NEW e \in Entry,
         StartCycle(e) \/ EndCycle(e) \/ ServiceCall(e) \/ EndCall(e)
  PROVE  EntryTypeOK' /\ DialogTypeOK' /\ BoundTypeOK'
  <1> USE SameDialogs, SameBounds
  <1>1. CASE StartCycle(e)
    BY <1>1, TakesTypes DEF StartCycle, Takes
  <1>2. CASE ServiceCall(e)
    BY <1>2, TargetIsEntry, TakesTypes DEF ServiceCall, Takes
  <1>3. CASE EndCycle(e)
    <2>1. PICK lan \in BOOLEAN :
            client' = [client EXCEPT ![e].session = TRUE,
                                     ![e].tried = TRUE,
                                     ![e].lan = @ \/ (lan /\ ~client[e].tried)]
      BY <1>3 DEF EndCycle
    <2>2. client[e] \in Client
      BY DEF EntryTypeOK
    <2>3. client' \in [Entry -> Client]
      BY <2>1, <2>2 DEF EntryTypeOK, Client
    <2>4. EntryTypeOK'
      BY <1>3, <2>3 DEF EndCycle, EntryTypeOK
    <2>5. DialogTypeOK'
      BY <1>3, AskTypes DEF EndCycle
    <2>6. QED
      BY <1>3, <2>4, <2>5 DEF EndCycle
  <1>4. CASE EndCall(e)
    BY <1>4 DEF EndCall, EntryTypeOK, Client
  <1>5. QED
    BY <1>1, <1>2, <1>3, <1>4

\* The dialog that adds an entry.
LEMMA FinishTypes ==
  ASSUME EntryTypeOK, DialogTypeOK, NEW f \in Flow, NEW m \in Machine, Finish(f, m),
         UNCHANGED reauth
  PROVE  EntryTypeOK' /\ DialogTypeOK'
  <1>1. DialogTypeOK'
    BY FormTypes DEF Finish, Step, DialogTypeOK
  <1>2. CASE Configured(m)
    BY <1>1, <1>2, SameEntries DEF Finish, setupVars
  <1>3. CASE ~Configured(m)
    <2>1. PICK e \in Entry :
            /\ machine' = [machine EXCEPT ![e] = m]
            /\ stored' = [stored EXCEPT ![e] = flow[f].valid]
            /\ Goes(e, "again")
      <3>1. (CHOOSE d \in Entry : ~Exists(d)) \in Entry
        BY <1>3 DEF Finish, Create
      <3>2. QED
        BY <1>3, <3>1 DEF Finish, Create
    <2>2. flow[f].valid \in BOOLEAN
      BY DEF DialogTypeOK, FlowState
    <2>3. QED
      BY <1>1, <1>3, <2>1, <2>2 DEF Finish, Create, Goes, EntryTypeOK, Phase
  <1>4. QED
    BY <1>2, <1>3

\* The steps of that dialog.
LEMMA FlowTypes ==
  ASSUME EntryTypeOK, DialogTypeOK, BoundTypeOK, NEW f \in Flow,
         Submit(f) \/ LoginFails(f) \/ LoggedIn(f) \/ Pick(f)
  PROVE  EntryTypeOK' /\ DialogTypeOK' /\ BoundTypeOK'
  <1>1. CASE Submit(f)
    BY <1>1, SameEntries, SameBounds DEF Submit, Step, Form, DialogTypeOK, FlowState, setupVars
  <1>2. CASE LoginFails(f)
    <2>1. DialogTypeOK'
      BY <1>2, FormTypes DEF LoginFails, Step, DialogTypeOK
    <2>2. BoundTypeOK'
      BY <1>2, FaultTypes DEF LoginFails, BoundTypeOK
    <2>3. QED
      BY <1>2, <2>1, <2>2, SameEntries DEF LoginFails, setupVars
  <1>3. CASE LoggedIn(f)
    <2>1. PICK found \in SUBSET Machine :
            \/ found = {} /\ Step(f, Form) /\ UNCHANGED setupVars
            \/ \E m \in Machine : found = {m} /\ Finish(f, m)
            \/ /\ \E m, n \in found : m # n
               /\ Step(f, [flow[f] EXCEPT !.pc = "pick", !.found = found])
               /\ UNCHANGED setupVars
      BY <1>3 DEF LoggedIn
    <2>2. CASE Step(f, Form) /\ UNCHANGED setupVars
      BY <1>3, <2>2, FormTypes, SameEntries, SameBounds
      DEF LoggedIn, Step, DialogTypeOK, setupVars
    <2>3. CASE \E m \in Machine : Finish(f, m)
      BY <1>3, <2>3, FinishTypes, SameBounds DEF LoggedIn
    <2>4. CASE /\ Step(f, [flow[f] EXCEPT !.pc = "pick", !.found = found])
               /\ UNCHANGED setupVars
      <3>1. [flow[f] EXCEPT !.pc = "pick", !.found = found] \in FlowState
        BY DEF DialogTypeOK, FlowState
      <3>2. QED
        BY <1>3, <2>4, <3>1, SameEntries, SameBounds DEF LoggedIn, Step, DialogTypeOK, setupVars
    <2>5. QED
      BY <2>1, <2>2, <2>3, <2>4
  <1>4. CASE Pick(f)
    <2>1. PICK m \in flow[f].found : Finish(f, m)
      BY <1>4 DEF Pick
    <2>2. m \in Machine
      BY DEF DialogTypeOK, FlowState
    <2>3. QED
      BY <1>4, <2>1, <2>2, FinishTypes, SameBounds DEF Pick
  <1>5. QED
    BY <1>1, <1>2, <1>3, <1>4

\* The password dialog, and the user's own reload and removal.
LEMMA UserTypes ==
  ASSUME EntryTypeOK, DialogTypeOK, BoundTypeOK, NEW e \in Entry,
         \/ UserReloads(e) \/ UserRemoves(e)
         \/ Give(e) \/ GivenFails(e) \/ Reauth(e) \/ ReauthReload(e)
  PROVE  EntryTypeOK' /\ DialogTypeOK' /\ BoundTypeOK'
  <1>1. CASE UserReloads(e) \/ UserRemoves(e)
    BY <1>1, UnloadTypes, SameBounds DEF UserReloads, UserRemoves, Unload, DialogTypeOK
  <1>2. CASE Give(e) \/ ReauthDone(e)
    BY <1>2, SameEntries, SameBounds DEF Give, ReauthDone, Dialog, DialogTypeOK, setupVars
  <1>3. CASE GivenFails(e)
    BY <1>3, SameEntries, FaultTypes DEF GivenFails, Dialog, DialogTypeOK, setupVars
  <1>4. CASE GivenAccepted(e)
    BY <1>4, SameBounds DEF GivenAccepted, Dialog, DialogTypeOK, EntryTypeOK
  <1>5. CASE Dialog(e, "reload", "reloading") /\ Unload(e, "reload")
    BY <1>5, UnloadTypes, SameBounds DEF Dialog, Unload, DialogTypeOK
  <1>6. CASE Dialog(e, "reload", "form") /\ UNCHANGED <<setupVars, flow, bounds>>
    BY <1>6, SameEntries, SameBounds DEF Dialog, DialogTypeOK, setupVars
  <1>7. QED
    BY <1>1, <1>2, <1>3, <1>4, <1>5, <1>6 DEF Reauth, ReauthReload

\* The password of the account is changed.
LEMMA PasswordTypes ==
  ASSUME EntryTypeOK, DialogTypeOK, BoundTypeOK, PasswordChanged
  PROVE  EntryTypeOK' /\ DialogTypeOK' /\ BoundTypeOK'
  <1>1. EntryTypeOK'
    BY DEF PasswordChanged, EntryTypeOK, Exists
  <1>2. \A f \in Flow : [flow[f] EXCEPT !.valid = @ /\ flow[f].pc = "form"] \in FlowState
    BY DEF DialogTypeOK, FlowState
  <1>3. DialogTypeOK'
    BY <1>2 DEF PasswordChanged, DialogTypeOK
  <1>4. QED
    BY <1>1, <1>3 DEF PasswordChanged, BoundTypeOK

-----------------------------------------------------------------------------
(* What the entries share.                                                 *)

\* The phases in which an entry has its place in hass.data.
Held == {"forward", "loaded", "stopLan", "close", "platforms", "stuck"}

\* An entry goes on while the shared state stays as it is.
LEMMA PhaseMoves ==
  ASSUME EntryTypeOK, SharedInv, NEW e \in Entry, NEW to, Goes(e, to),
         UNCHANGED <<data, services>>,
         to \in Held => Registered(e) /\ to # "forward"
  PROVE  SharedInv'
  <1>1. phase'[e] = to /\ \A d \in Entry \ {e} : phase'[d] = phase[d]
    BY DEF Goes, EntryTypeOK
  <1>2. Placed'
    BY <1>1 DEF SharedInv, Placed, Held
  <1>3. ServicesMatchEntries'
    BY <1>1 DEF SharedInv, ServicesMatchEntries, Registered, Held
  <1>4. QED
    BY <1>2, <1>3 DEF SharedInv, SharedTypeOK

\* Steps that have no part in it.
LEMMA SharedStays ==
  ASSUME SharedInv, UNCHANGED <<phase, data, services>> PROVE SharedInv'
  BY DEF SharedInv, SharedTypeOK, Placed, ServicesMatchEntries, Registered

\* An entry takes its place.
LEMMA SharedGrows ==
  ASSUME EntryTypeOK, SharedInv, NEW e \in Entry, FirstRefresh(e)
  PROVE  SharedInv'
  <1>1. phase'[e] = "forward" /\ \A d \in Entry \ {e} : phase'[d] = phase[d]
    BY DEF FirstRefresh, Goes, EntryTypeOK
  <1>2. /\ data' \in Seq(Entry) /\ data' # <<>>
        /\ e \in ToSet(data') /\ ToSet(data) \subseteq ToSet(data')
    BY AppendKeeps DEF FirstRefresh, SharedInv, SharedTypeOK
  <1>3. services' = services
    BY DEF FirstRefresh
  <1>4. Placed'
    BY <1>1, <1>2 DEF SharedInv, Placed
  <1>5. ServicesMatchEntries'
    BY <1>1, <1>2, <1>3 DEF SharedInv, ServicesMatchEntries, Registered
  <1>6. QED
    BY <1>2, <1>3, <1>4, <1>5 DEF SharedInv, SharedTypeOK

\* The services are registered: the entry has its place by then.
LEMMA ServicesCome ==
  ASSUME EntryTypeOK, SharedInv, NEW e \in Entry, Forwarded(e)
  PROVE  SharedInv'
  <1>1. phase'[e] = "loaded" /\ \A d \in Entry \ {e} : phase'[d] = phase[d]
    BY DEF Forwarded, Goes, EntryTypeOK
  <1>2. e \in ToSet(data) /\ data' = data /\ services' = TRUE
    BY DEF Forwarded, SharedInv, Placed
  <1>3. data # <<>>
    BY <1>2 DEF ToSet
  <1>4. Placed'
    BY <1>1, <1>2 DEF SharedInv, Placed
  <1>5. ServicesMatchEntries'
    BY <1>1, <1>2, <1>3 DEF SharedInv, ServicesMatchEntries, Registered
  <1>6. QED
    BY <1>2, <1>4, <1>5 DEF SharedInv, SharedTypeOK

\* An entry gives its place up, and the last one the services.
LEMMA SharedShrinks ==
  ASSUME EntryTypeOK, SharedInv, NEW e \in Entry, PlatformsUnloaded(e)
  PROVE  SharedInv'
  <1>1. e \in ToSet(data)
    BY DEF PlatformsUnloaded, SharedInv, ServicesMatchEntries, Registered
  <1>2. /\ data' \in Seq(Entry) /\ ToSet(data) \ {e} \subseteq ToSet(data')
        /\ services' = (services /\ data' # <<>>)
    BY <1>1, WithoutKeeps DEF PlatformsUnloaded, OthersLoaded, SharedInv, SharedTypeOK
  <1>3. phase'[e] \notin Held /\ \A d \in Entry \ {e} : phase'[d] = phase[d]
    BY DEF PlatformsUnloaded, Goes, Unloaded, Held, EntryTypeOK
  <1>4. \A d \in Entry : d \in ToSet(data') => data' # <<>>
    BY DEF ToSet
  <1>5. Placed'
    BY <1>2, <1>3 DEF SharedInv, Placed, Held
  <1>6. ServicesMatchEntries'
    BY <1>2, <1>3, <1>4 DEF SharedInv, ServicesMatchEntries, Registered, Held
  <1>7. QED
    BY <1>2, <1>5, <1>6 DEF SharedInv, SharedTypeOK

\* A reload or a removal starts.
LEMMA SharedUnload ==
  ASSUME EntryTypeOK, SharedInv, NEW e \in Entry, NEW to \in {"reload", "remove"},
         Unload(e, to)
  PROVE  SharedInv'
  <1>1. CASE StartUnload(e, to)
    BY <1>1, PhaseMoves DEF Unload, StartUnload, Registered
  <1>2. CASE Skip(e, to)
    BY <1>2, PhaseMoves DEF Unload, Skip, Unloaded, Held
  <1>3. QED
    BY <1>1, <1>2 DEF Unload

\* A dialog is finished: the new entry is to be set up.
LEMMA SharedFinish ==
  ASSUME EntryTypeOK, SharedInv, NEW f \in Flow, NEW m \in Machine, Finish(f, m)
  PROVE  SharedInv'
  <1>1. CASE Configured(m)
    BY <1>1, SharedStays DEF Finish, setupVars
  <1>2. CASE ~Configured(m)
    <2>1. PICK e \in Entry : Goes(e, "again")
      <3>1. (CHOOSE d \in Entry : ~Exists(d)) \in Entry
        BY <1>2 DEF Finish, Create
      <3>2. QED
        BY <1>2, <3>1 DEF Finish, Create
    <2>2. QED
      BY <1>2, <2>1, PhaseMoves DEF Finish, Create, Held
  <1>3. QED
    BY <1>1, <1>2

\* Every step keeps it.
LEMMA SharedStep ==
  ASSUME EntryTypeOK, DialogTypeOK, SharedInv, [Next]_vars
  PROVE  SharedInv'
  <1>1. ASSUME NEW e \in Entry, Setup(e) \/ NotReady(e) PROVE SharedInv'
    BY <1>1, PhaseMoves, SharedGrows, ServicesCome
    DEF Setup, StartSetup, SetupRejected, NotReady, Held
  <1>2. ASSUME NEW e \in Entry, Unloads(e) \/ PlatformStays(e) PROVE SharedInv'
    BY <1>2, PhaseMoves, SharedShrinks
    DEF Unloads, LanStopped, ClientClosed, PlatformStays, Registered
  <1>3. ASSUME NEW e \in Entry, UserReloads(e) \/ UserRemoves(e) \/ ReauthReload(e)
        PROVE  SharedInv'
    BY <1>3, SharedUnload, SharedStays DEF UserReloads, UserRemoves, ReauthReload, setupVars
  <1>4. ASSUME NEW e \in Entry,
               \/ StartCycle(e) \/ EndCycle(e) \/ ServiceCall(e) \/ EndCall(e)
               \/ Give(e) \/ GivenFails(e) \/ Reauth(e)
        PROVE  SharedInv'
    BY <1>4, SharedStays
    DEF StartCycle, EndCycle, ServiceCall, EndCall, Takes, Give, GivenFails, Reauth,
        GivenAccepted, ReauthDone, setupVars
  <1>5. ASSUME NEW f \in Flow, Submit(f) \/ LoginFails(f) PROVE SharedInv'
    BY <1>5, SharedStays DEF Submit, LoginFails, setupVars
  <1>6. ASSUME NEW f \in Flow, LoggedIn(f) \/ Pick(f) PROVE SharedInv'
    <2>1. CASE LoggedIn(f)
      BY <2>1, SharedFinish, SharedStays DEF LoggedIn, setupVars
    <2>2. CASE Pick(f)
      <3>1. flow[f].found \subseteq Machine
        BY DEF DialogTypeOK, FlowState
      <3>2. QED
        BY <2>2, <3>1, SharedFinish DEF Pick
    <2>3. QED
      BY <1>6, <2>1, <2>2
  <1>7. CASE PasswordChanged
    BY <1>7, SharedStays DEF PasswordChanged
  <1>8. CASE UNCHANGED vars
    BY <1>8, SharedStays DEF vars, setupVars
  <1>9. QED
    BY <1>1, <1>2, <1>3, <1>4, <1>5, <1>6, <1>7, <1>8 DEF Next

-----------------------------------------------------------------------------

Parts == EntryTypeOK /\ DialogTypeOK /\ BoundTypeOK /\ SharedInv

\* Nothing is set up at first.
LEMMA PartsInit == ASSUME Init PROVE Parts
  <1> USE DEF Init
  <1>1. EntryTypeOK
    BY ClientTypes DEF EntryTypeOK, Phase
  <1>2. DialogTypeOK
    BY FormTypes DEF DialogTypeOK
  <1>3. data \in Seq(Entry)
    OBVIOUS
  <1>4. SharedInv
    BY <1>3 DEF SharedInv, SharedTypeOK, Placed, ServicesMatchEntries, Registered
  <1>5. QED
    BY <1>1, <1>2, <1>4 DEF Parts, BoundTypeOK

\* The types are kept with what the entries share.
LEMMA PartsStep == ASSUME Parts, [Next]_vars PROVE Parts'
  <1> USE DEF Parts
  <1>1. SharedInv'
    BY SharedStep
  <1>2. SharedTypeOK
    BY DEF SharedInv
  <1>3. CASE UNCHANGED vars
    BY <1>1, <1>3, SameEntries, SameDialogs, SameBounds DEF vars, setupVars
  <1>4. CASE Next
    BY <1>1, <1>2, <1>4, SetupTypes, UnloadsTypes, WorkTypes, FlowTypes, UserTypes,
       PasswordTypes
    DEF Next
  <1>5. QED
    BY <1>3, <1>4

\* The parts hold in every state.
LEMMA PartsHold == Spec => []Parts
  <1>1. Init => Parts
    BY PartsInit
  <1>2. Parts /\ [Next]_vars => Parts'
    BY PartsStep
  <1>3. QED
    BY <1>1, <1>2, PTL DEF Spec

\* Every variable of the entries, their dialogs and hass.data stays in its range.
THEOREM TypesHold == Spec => []TypeOK
  <1>1. Parts => TypeOK
    BY DEF Parts, EntryTypeOK, SharedInv, SharedTypeOK, DialogTypeOK, BoundTypeOK, TypeOK,
           Client, FlowState
  <1>2. QED
    BY <1>1, PartsHold, PTL

\* The services are registered exactly as long as they are wanted, whatever setups
\* and unloads overlap: _register_services and the last async_unload_entry.
THEOREM ServicesFollowEntries == Spec => []ServicesMatchEntries
  <1>1. Parts => ServicesMatchEntries
    BY DEF Parts, SharedInv
  <1>2. QED
    BY <1>1, PartsHold, PTL

-----------------------------------------------------------------------------
(* Machines and their entries.                                             *)

\* A removed entry gives its machine back; other reloads and removals change none.
LEMMA LeavesFrees ==
  ASSUME EntryTypeOK, OneEntryPerMachine, NEW e \in Entry,
         NEW to \in {"nothing", "reload", "remove"}, Leaves(e, to)
  PROVE  OneEntryPerMachine'
  BY DEF Leaves, OneEntryPerMachine, Exists, EntryTypeOK

\* An entry is created for a machine that has none.
LEMMA FinishIsUnique ==
  ASSUME EntryTypeOK, OneEntryPerMachine, NEW f \in Flow, NEW m \in Machine, Finish(f, m)
  PROVE  OneEntryPerMachine'
  <1>1. CASE Configured(m)
    BY <1>1 DEF Finish, setupVars, OneEntryPerMachine, Exists
  <1>2. CASE ~Configured(m)
    <2>1. PICK e \in Entry : machine' = [machine EXCEPT ![e] = m]
      <3>1. (CHOOSE d \in Entry : ~Exists(d)) \in Entry
        BY <1>2 DEF Finish, Create
      <3>2. QED
        BY <1>2, <3>1 DEF Finish, Create
    <2>2. \A d \in Entry : machine[d] # m
      BY <1>2 DEF Configured
    <2>3. QED
      BY <2>1, <2>2 DEF OneEntryPerMachine, Exists, EntryTypeOK
  <1>3. QED
    BY <1>1, <1>2

\* Every step keeps the machines apart.
LEMMA UniqueStep ==
  ASSUME Parts, OneEntryPerMachine, [Next]_vars PROVE OneEntryPerMachine'
  <1> USE DEF Parts
  <1>1. ASSUME UNCHANGED machine PROVE OneEntryPerMachine'
    BY <1>1 DEF OneEntryPerMachine, Exists
  <1>2. ASSUME NEW e \in Entry, Setup(e) \/ NotReady(e) PROVE UNCHANGED machine
    BY <1>2 DEF Setup, StartSetup, SetupRejected, NotReady, FirstRefresh, Forwarded
  <1>3. ASSUME NEW e \in Entry, Unloads(e) \/ PlatformStays(e) PROVE OneEntryPerMachine'
    <2>1. CASE PlatformsUnloaded(e)
      BY <2>1, LeavesFrees DEF PlatformsUnloaded, EntryTypeOK
    <2>2. CASE LanStopped(e) \/ ClientClosed(e) \/ PlatformStays(e)
      BY <1>1, <2>2 DEF LanStopped, ClientClosed, PlatformStays
    <2>3. QED
      BY <1>3, <2>1, <2>2 DEF Unloads
  <1>4. ASSUME NEW e \in Entry, NEW to \in {"reload", "remove"}, Unload(e, to)
        PROVE  OneEntryPerMachine'
    BY <1>1, <1>4, LeavesFrees DEF Unload, StartUnload, Skip
  <1>5. ASSUME NEW e \in Entry, UserReloads(e) \/ UserRemoves(e) \/ ReauthReload(e)
        PROVE  OneEntryPerMachine'
    BY <1>1, <1>4, <1>5 DEF UserReloads, UserRemoves, ReauthReload, setupVars
  <1>6. ASSUME NEW e \in Entry,
               \/ StartCycle(e) \/ EndCycle(e) \/ ServiceCall(e) \/ EndCall(e)
               \/ Give(e) \/ GivenFails(e) \/ Reauth(e)
        PROVE  UNCHANGED machine
    BY <1>6 DEF StartCycle, EndCycle, ServiceCall, EndCall, Takes, Give, GivenFails, Reauth,
                GivenAccepted, ReauthDone, setupVars
  <1>7. ASSUME NEW f \in Flow, Submit(f) \/ LoginFails(f) PROVE UNCHANGED machine
    BY <1>7 DEF Submit, LoginFails, setupVars
  <1>8. ASSUME NEW f \in Flow, LoggedIn(f) \/ Pick(f) PROVE OneEntryPerMachine'
    <2>1. CASE LoggedIn(f)
      BY <1>1, <2>1, FinishIsUnique DEF LoggedIn, setupVars
    <2>2. CASE Pick(f)
      <3>1. flow[f].found \subseteq Machine
        BY DEF DialogTypeOK, FlowState
      <3>2. QED
        BY <2>2, <3>1, FinishIsUnique DEF Pick
    <2>3. QED
      BY <1>8, <2>1, <2>2
  <1>9. CASE PasswordChanged \/ UNCHANGED vars
    BY <1>1, <1>9 DEF PasswordChanged, vars, setupVars
  <1>10. QED
    BY <1>1, <1>2, <1>3, <1>5, <1>6, <1>7, <1>8, <1>9 DEF Next

\* No machine is given a second entry, whichever dialogs and removals interleave:
\* _abort_if_unique_id_configured asks all the entries, loaded or not.
THEOREM MachinesAreApart == Spec => []OneEntryPerMachine
  <1>1. Init => OneEntryPerMachine
    BY DEF Init, OneEntryPerMachine, Exists
  <1>2. Parts /\ OneEntryPerMachine /\ [Next]_vars => OneEntryPerMachine'
    BY UniqueStep
  <1>3. QED
    BY <1>1, <1>2, PartsHold, PTL DEF Spec

-----------------------------------------------------------------------------
(* What an unload closes.                                                  *)

\* Work in flight during an unload is noted, and without it what is closed stays so.
ClosedAt(e) ==
  /\ work[e] # "none" /\ Unloading(e) => disturbed[e]
  /\ phase[e] \in {"close", "platforms"} /\ ~disturbed[e] => ~client[e].lan
  /\ phase[e] = "platforms" /\ ~disturbed[e] => ~client[e].session

CloseInv == \A e \in Entry : ClosedAt(e)

\* Steps that leave an entry's phase, client and work alone.
LEMMA ClosedStays ==
  ASSUME NEW e \in Entry, ClosedAt(e), phase'[e] = phase[e], client'[e] = client[e],
         work'[e] = work[e], disturbed'[e] = disturbed[e]
  PROVE  ClosedAt(e)'
  BY DEF ClosedAt, Unloading

\* A step of one entry leaves the others alone.
Frame(e) ==
  \A d \in Entry \ {e} :
    /\ phase'[d] = phase[d] /\ client'[d] = client[d]
    /\ work'[d] = work[d] /\ disturbed'[d] = disturbed[d]

\* It is enough to look at the entry of the step.
LEMMA OneMoves ==
  ASSUME CloseInv, NEW e \in Entry, ClosedAt(e)', Frame(e) PROVE CloseInv'
  BY ClosedStays DEF CloseInv, Frame

\* Steps that leave every entry alone in this.
LEMMA AllStay ==
  ASSUME CloseInv, UNCHANGED <<phase, client, work, disturbed>> PROVE CloseInv'
  BY ClosedStays DEF CloseInv

\* The setup of an entry: none of its phases is one of unloading.
LEMMA SetupCloses ==
  ASSUME EntryTypeOK, CloseInv, NEW e \in Entry, Setup(e) \/ NotReady(e)
  PROVE  CloseInv'
  <1>1. phase'[e] \in {"setup", "rejected", "retry", "forward", "loaded"}
    BY DEF Setup, StartSetup, SetupRejected, NotReady, FirstRefresh, Forwarded, Goes, EntryTypeOK
  <1>2. ClosedAt(e)'
    BY <1>1 DEF ClosedAt, Unloading
  <1>3. Frame(e)
    BY DEF Frame, Setup, StartSetup, SetupRejected, NotReady, FirstRefresh, Forwarded, Goes,
           EntryTypeOK
  <1>4. QED
    BY <1>2, <1>3, OneMoves

\* An unload starts: the work in flight is noted.
LEMMA UnloadCloses ==
  ASSUME EntryTypeOK, CloseInv, NEW e \in Entry, NEW to \in {"reload", "remove"},
         Unload(e, to)
  PROVE  CloseInv'
  <1>1. CASE StartUnload(e, to)
    <2>1. phase'[e] = "stopLan" /\ disturbed'[e] = (work[e] # "none") /\ work' = work
      BY <1>1 DEF Unload, StartUnload, Goes, EntryTypeOK
    <2>2. ClosedAt(e)'
      BY <2>1 DEF ClosedAt, Unloading
    <2>3. Frame(e)
      BY <1>1 DEF Frame, Unload, StartUnload, Goes, EntryTypeOK
    <2>4. QED
      BY <2>2, <2>3, OneMoves
  <1>2. CASE Skip(e, to)
    <2>1. phase'[e] \in {"again", "notLoaded"}
      BY <1>2 DEF Skip, Unloaded, Goes, EntryTypeOK
    <2>2. ClosedAt(e)'
      BY <2>1 DEF ClosedAt, Unloading
    <2>3. Frame(e)
      BY <1>2 DEF Frame, Unload, Skip, Goes, EntryTypeOK
    <2>4. QED
      BY <2>2, <2>3, OneMoves
  <1>3. QED
    BY <1>1, <1>2 DEF Unload

\* The LAN server is stopped, the session closed, the platforms unloaded.
LEMMA UnloadsClose ==
  ASSUME EntryTypeOK, CloseInv, NEW e \in Entry, Unloads(e) \/ PlatformStays(e)
  PROVE  CloseInv'
  <1> USE DEF EntryTypeOK, Client
  <1>1. ClosedAt(e)
    BY DEF CloseInv
  <1>2. CASE LanStopped(e)
    <2>1. /\ phase[e] = "stopLan" /\ phase'[e] = "close" /\ ~client'[e].lan
          /\ work'[e] = work[e] /\ disturbed'[e] = disturbed[e]
      BY <1>2 DEF LanStopped, StopLan, Goes
    <2>2. ClosedAt(e)'
      BY <1>1, <2>1 DEF ClosedAt, Unloading
    <2>3. Frame(e)
      BY <1>2 DEF Frame, LanStopped, StopLan, Goes
    <2>4. QED
      BY <2>2, <2>3, OneMoves
  <1>3. CASE ClientClosed(e)
    <2>1. /\ phase[e] = "close" /\ phase'[e] = "platforms"
          /\ ~client'[e].session /\ client'[e].lan = client[e].lan
          /\ work'[e] = work[e] /\ disturbed'[e] = disturbed[e]
      BY <1>3 DEF ClientClosed, Goes
    <2>2. ClosedAt(e)'
      BY <1>1, <2>1 DEF ClosedAt, Unloading
    <2>3. Frame(e)
      BY <1>3 DEF Frame, ClientClosed, Goes
    <2>4. QED
      BY <2>2, <2>3, OneMoves
  <1>4. CASE PlatformsUnloaded(e) \/ PlatformStays(e)
    <2>1. phase'[e] \in {"again", "notLoaded", "stuck"}
      BY <1>4 DEF PlatformsUnloaded, PlatformStays, Unloaded, Goes
    <2>2. ClosedAt(e)'
      BY <2>1 DEF ClosedAt, Unloading
    <2>3. Frame(e)
      BY <1>4 DEF Frame, PlatformsUnloaded, PlatformStays, Goes
    <2>4. QED
      BY <2>2, <2>3, OneMoves
  <1>5. QED
    BY <1>2, <1>3, <1>4 DEF Unloads

\* Work that is taken up during an unload disturbs it, and so does work that ends.
LEMMA TakesCloses ==
  ASSUME EntryTypeOK, CloseInv, NEW e \in Entry, NEW kind, Takes(e, kind)
  PROVE  CloseInv'
  <1>1. phase'[e] = phase[e] /\ disturbed'[e] = (disturbed[e] \/ Unloading(e))
    BY DEF Takes, EntryTypeOK
  <1>2. ClosedAt(e)'
    BY <1>1 DEF ClosedAt, Unloading
  <1>3. Frame(e)
    BY DEF Frame, Takes, EntryTypeOK
  <1>4. QED
    BY <1>2, <1>3, OneMoves

\* The end of a poll cycle or of a service call.
LEMMA EndsClose ==
  ASSUME EntryTypeOK, CloseInv, NEW e \in Entry, EndCycle(e) \/ EndCall(e)
  PROVE  CloseInv'
  <1>1. phase'[e] = phase[e] /\ work[e] # "none" /\ work'[e] = "none"
    BY DEF EndCycle, EndCall, EntryTypeOK
  <1>2. disturbed'[e] = disturbed[e] /\ ClosedAt(e)
    BY DEF EndCycle, EndCall, CloseInv
  <1>3. ClosedAt(e)'
    BY <1>1, <1>2 DEF ClosedAt, Unloading
  <1>4. Frame(e)
    BY DEF Frame, EndCycle, EndCall, EntryTypeOK
  <1>5. QED
    BY <1>3, <1>4, OneMoves

\* The new entry of a dialog is not one of those being unloaded.
LEMMA FinishCloses ==
  ASSUME EntryTypeOK, CloseInv, NEW f \in Flow, NEW m \in Machine, Finish(f, m)
  PROVE  CloseInv'
  <1>1. CASE Configured(m)
    BY <1>1, AllStay DEF Finish, setupVars
  <1>2. CASE ~Configured(m)
    <2>1. PICK e \in Entry : Goes(e, "again")
      <3>1. (CHOOSE d \in Entry : ~Exists(d)) \in Entry
        BY <1>2 DEF Finish, Create
      <3>2. QED
        BY <1>2, <3>1 DEF Finish, Create
    <2>2. phase'[e] = "again"
      BY <2>1 DEF Goes, EntryTypeOK
    <2>3. ClosedAt(e)'
      BY <2>2 DEF ClosedAt, Unloading
    <2>4. Frame(e)
      BY <1>2, <2>1 DEF Frame, Finish, Create, Goes, EntryTypeOK
    <2>5. QED
      BY <2>3, <2>4, OneMoves
  <1>3. QED
    BY <1>1, <1>2

\* Every step keeps what is closed.
LEMMA CloseStep == ASSUME Parts, CloseInv, [Next]_vars PROVE CloseInv'
  <1> USE DEF Parts
  <1>1. ASSUME NEW e \in Entry,
               Setup(e) \/ NotReady(e) \/ Unloads(e) \/ PlatformStays(e)
        PROVE  CloseInv'
    BY <1>1, SetupCloses, UnloadsClose
  <1>2. ASSUME NEW e \in Entry, UserReloads(e) \/ UserRemoves(e) \/ ReauthReload(e)
        PROVE  CloseInv'
    BY <1>2, UnloadCloses, AllStay DEF UserReloads, UserRemoves, ReauthReload, setupVars
  <1>3. ASSUME NEW e \in Entry, StartCycle(e) \/ ServiceCall(e) PROVE CloseInv'
    BY <1>3, TakesCloses, TargetIsEntry DEF StartCycle, ServiceCall, SharedInv
  <1>4. ASSUME NEW e \in Entry, EndCycle(e) \/ EndCall(e) PROVE CloseInv'
    BY <1>4, EndsClose
  <1>5. ASSUME NEW e \in Entry, Give(e) \/ GivenFails(e) \/ Reauth(e) PROVE CloseInv'
    BY <1>5, AllStay DEF Give, GivenFails, Reauth, GivenAccepted, ReauthDone, setupVars
  <1>6. ASSUME NEW f \in Flow, Submit(f) \/ LoginFails(f) PROVE CloseInv'
    BY <1>6, AllStay DEF Submit, LoginFails, setupVars
  <1>7. ASSUME NEW f \in Flow, LoggedIn(f) \/ Pick(f) PROVE CloseInv'
    <2>1. CASE LoggedIn(f)
      BY <2>1, FinishCloses, AllStay DEF LoggedIn, setupVars
    <2>2. CASE Pick(f)
      <3>1. flow[f].found \subseteq Machine
        BY DEF DialogTypeOK, FlowState
      <3>2. QED
        BY <2>2, <3>1, FinishCloses DEF Pick
    <2>3. QED
      BY <1>7, <2>1, <2>2
  <1>8. CASE PasswordChanged \/ UNCHANGED vars
    BY <1>8, AllStay DEF PasswordChanged, vars, setupVars
  <1>9. QED
    BY <1>1, <1>2, <1>3, <1>4, <1>5, <1>6, <1>7, <1>8 DEF Next

\* An unload that no poll and no call disturbs leaves neither the session nor the LAN
\* server open: async_unload_entry stops the one and closes the other first.
THEOREM UndisturbedUnloadsClose == Spec => []NothingLeftBehind
  <1>1. Init => CloseInv
    BY DEF Init, CloseInv, ClosedAt, Unloading
  <1>2. Parts /\ CloseInv /\ [Next]_vars => CloseInv'
    BY CloseStep
  <1>3. CloseInv => NothingLeftBehind
    BY DEF CloseInv, ClosedAt, NothingLeftBehind
  <1>4. QED
    BY <1>1, <1>2, <1>3, PartsHold, PTL DEF Spec

=============================================================================
