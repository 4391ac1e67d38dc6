------------------------------- MODULE LanLink -------------------------------
(***************************************************************************)
(* The LAN server composed with the coordinator that feeds it, the coffee  *)
(* machine that talks to it and the network between them.  The machine and *)
(* the network are outside the repository; they do what lan.py expects of  *)
(* them: the machine starts every exchange, waits for a reply or gives up, *)
(* loses its session when it reboots; requests may arrive late, requests   *)
(* and replies may be lost.                                                *)
(***************************************************************************)
EXTENDS LanServer

CONSTANTS
  Machine,         \* the coffee machine's address
  UptimeClock,     \* time_1 is an uptime counter, not wall-clock seconds
  OtherTime1,      \* time_1 values other peers present
  MaxTime,         \* bound on the clock
  MaxHandshakes,   \* bound on the machine's key exchanges
  MaxOthers,       \* bound on sessions of other peers
  MaxCommands,     \* bound on commands accepted
  MaxIdlePolls,    \* bound on a session's polls of an empty queue
  MaxPushes,       \* bound on a session's datapoints
  MaxLosses,       \* bound on messages lost
  MaxReboots,      \* bound on reboots of the machine
  MaxRestarts      \* bound on restarts of the server

ASSUME LanLinkAssumption ==
  /\ Machine \in Trusted
  /\ UptimeClock \in BOOLEAN
  /\ OtherTime1 \subseteq Nat
  /\ {MaxTime, MaxHandshakes, MaxOthers, MaxCommands, MaxIdlePolls, MaxPushes,
      MaxLosses, MaxReboots, MaxRestarts} \subseteq Nat

VARIABLES
  dev,        \* the machine's side of the session
  devClock,   \* the clock it reads time_1 from
  requests,   \* key exchange requests under way
  grant,      \* the key exchange reply under way
  reply,      \* the poll reply under way
  pushes,     \* datapoints under way, in the order they were sent
  accepted,   \* commands send_command_lan has accepted
  lastRun,    \* the last command the machine executed
  runs,       \* how many times it has executed one
  ciphers,    \* every ciphertext the server has produced
  gaps,       \* datapoints of this session lost, or of another one decrypted
  garbled,    \* datapoints of this session that came out unreadable
  losses, reboots, restarts

linkVars == <<dev, devClock, requests, grant, reply, pushes>>
history == <<accepted, lastRun, runs, ciphers, gaps, garbled>>
faults == <<losses, reboots, restarts>>
vars == <<serverVars, linkVars, history, faults>>

Cipher == [sid : Nat, k : Nat, iv : Iv, body : Nat]
Push == [sid : Nat, k : Nat, iv : Iv]
NoReply == [sid |-> 0, k |-> 0, iv |-> <<0, 0>>, body |-> Heartbeat]
NoGrant == [nonce |-> 0, sid |-> 0]
Offline(n) == [sid |-> 0, appIv |-> <<0, 0>>, sent |-> 0, nonce |-> n,
               waiting |-> FALSE]

Init ==
  /\ up = TRUE
  /\ session = NoSession
  /\ sessions = 0
  /\ seq = 0
  /\ lastActivity = 0
  /\ pending = <<>>
  /\ floor = [p \in Peers |-> 0]
  /\ now = 1
  /\ dev = Offline(0)
  /\ devClock = 1
  /\ requests = {}
  /\ grant = NoGrant
  /\ reply = NoReply
  /\ pushes = <<>>
  /\ accepted = 0
  /\ lastRun = 0
  /\ runs = 0
  /\ ciphers = {}
  /\ gaps = 0
  /\ garbled = 0
  /\ losses = 0
  /\ reboots = 0
  /\ restarts = 0

-----------------------------------------------------------------------------
(* Time and faults.                                                        *)

\* An uptime counter in nanoseconds soon exceeds every wall-clock value.
Rate == IF UptimeClock THEN Threshold + 1 ELSE 1

Tick ==
  /\ now < MaxTime
  /\ now' = now + 1
  /\ devClock' = devClock + Rate
  /\ UNCHANGED <<up, session, sessions, seq, lastActivity, pending, floor, dev,
                 requests, grant, reply, pushes, history, faults>>

\* The machine restarts: no session, its clock at zero, its connections gone, and
\* what it was waiting for with them.
Reboot ==
  /\ reboots < MaxReboots
  /\ reboots' = reboots + 1
  /\ losses' = IF dev.waiting \/ reply # NoReply THEN losses + 1 ELSE losses
  /\ dev' = Offline(dev.nonce)
  /\ devClock' = 0
  /\ grant' = NoGrant
  /\ reply' = NoReply
  /\ UNCHANGED <<serverVars, requests, pushes, history, restarts>>

NtpSync ==
  /\ ~UptimeClock
  /\ devClock # now
  /\ devClock' = now
  /\ UNCHANGED <<serverVars, dev, requests, grant, reply, pushes, history, faults>>

Lose ==
  /\ losses < MaxLosses
  /\ losses' = losses + 1
  /\ UNCHANGED <<serverVars, devClock, accepted, lastRun, runs, ciphers, garbled,
                 reboots, restarts>>

LoseRequest ==
  /\ \E r \in requests : requests' = requests \ {r}
  /\ Lose
  /\ UNCHANGED <<dev, grant, reply, pushes, gaps>>

\* The machine stops waiting; what it asked for may still arrive.
GiveUpHandshake ==
  /\ dev.waiting
  /\ dev' = [dev EXCEPT !.waiting = FALSE]
  /\ grant' = NoGrant
  /\ Lose
  /\ UNCHANGED <<requests, reply, pushes, gaps>>

LoseReply ==
  /\ reply # NoReply
  /\ reply' = NoReply
  /\ Lose
  /\ UNCHANGED <<dev, requests, grant, pushes, gaps>>

LosePush ==
  /\ pushes # <<>>
  /\ pushes' = Tail(pushes)
  /\ gaps' = IF Head(pushes).sid = session.id THEN gaps + 1 ELSE gaps
  /\ Lose
  /\ UNCHANGED <<dev, requests, grant, reply>>

StopServer ==
  /\ Stop
  /\ restarts < MaxRestarts
  /\ restarts' = restarts + 1
  /\ UNCHANGED <<linkVars, history, losses, reboots>>

StartServer ==
  /\ Start
  /\ gaps' = 0
  /\ garbled' = 0
  /\ UNCHANGED <<linkVars, accepted, lastRun, runs, ciphers, faults>>

-----------------------------------------------------------------------------
(* Key exchange.                                                           *)

\* Two key exchanges may share a time_1 in seconds, never one in nanoseconds.
SendHandshake ==
  /\ dev.nonce < MaxHandshakes
  /\ ~dev.waiting
  /\ reply = NoReply
  /\ dev' = [dev EXCEPT !.nonce = @ + 1, !.waiting = TRUE]
  /\ requests' = requests \cup {[nonce |-> dev.nonce + 1, t1 |-> devClock]}
  /\ devClock' = IF UptimeClock THEN devClock + 1 ELSE devClock
  /\ UNCHANGED <<serverVars, grant, reply, pushes, history, faults>>

\* Nobody reads the reply to a request the machine has given up.
Awaited(r) == dev.waiting /\ r.nonce = dev.nonce

HandshakeAccepted(r) ==
  /\ AcceptsHandshake(Machine, r.t1)
  /\ AcceptHandshake(Machine, r.nonce, r.t1)
  /\ requests' = requests \ {r}
  /\ grant' = IF Awaited(r) THEN [nonce |-> r.nonce, sid |-> sessions + 1] ELSE grant
  /\ gaps' = 0
  /\ garbled' = 0
  /\ UNCHANGED <<dev, devClock, reply, pushes, accepted, lastRun, runs, ciphers, faults>>

HandshakeRefused(r) ==
  /\ ~AcceptsHandshake(Machine, r.t1)
  /\ requests' = requests \ {r}
  /\ dev' = [dev EXCEPT !.waiting = ~Awaited(r) /\ @]
  /\ UNCHANGED <<serverVars, devClock, grant, reply, pushes, history, faults>>

AdoptSession ==
  /\ grant # NoGrant
  /\ dev' = [dev EXCEPT !.sid = grant.sid, !.appIv = <<grant.sid, 0>>,
                        !.sent = 0, !.waiting = FALSE]
  /\ grant' = NoGrant
  /\ UNCHANGED <<serverVars, devClock, requests, reply, pushes, history, faults>>

\* Another peer the server lets in runs a key exchange of its own.
OtherHandshake(p, t1) ==
  /\ p # Machine
  /\ sessions < dev.nonce + MaxOthers
  /\ AcceptsHandshake(p, t1)
  /\ AcceptHandshake(p, 0, t1)
  /\ gaps' = 0
  /\ garbled' = 0
  /\ UNCHANGED <<linkVars, accepted, lastRun, runs, ciphers, faults>>

-----------------------------------------------------------------------------
(* Commands.                                                               *)

\* coordinator.send_command_lan returning True; it returns False, and the
\* caller turns to the cloud, in every other state.
SendCommandLan ==
  /\ accepted < MaxCommands
  /\ up
  /\ IsSessionAlive
  /\ Enqueue(accepted + 1)
  /\ accepted' = accepted + 1
  /\ UNCHANGED <<linkVars, lastRun, runs, ciphers, gaps, garbled, faults>>

PollCommands ==
  /\ up
  /\ HasSession
  /\ dev.sid # 0
  /\ ~dev.waiting
  /\ reply = NoReply
  /\ pending # <<>> \/ seq < MaxIdlePolls
  /\ ServePoll
  /\ reply' = Encrypt(NextBody)
  /\ ciphers' = ciphers \cup {Encrypt(NextBody)}
  /\ UNCHANGED <<dev, devClock, requests, grant, pushes, accepted, lastRun, runs, gaps,
                 garbled, faults>>

Executes(c) == c.sid = dev.sid /\ c.iv = dev.appIv

\* Whether the machine's chain moves past a message it cannot read is its own
\* affair: lan.py assumes nothing of it.
ReceiveReply ==
  /\ reply # NoReply
  /\ reply' = NoReply
  /\ IF Executes(reply) /\ reply.body # Heartbeat
     THEN lastRun' = reply.body /\ runs' = runs + 1
     ELSE UNCHANGED <<lastRun, runs>>
  /\ \/ dev' = [dev EXCEPT !.appIv = <<reply.sid, reply.k>>]
     \/ ~Executes(reply) /\ UNCHANGED dev
  /\ UNCHANGED <<serverVars, devClock, requests, grant, pushes, accepted, ciphers,
                 gaps, garbled, faults>>

-----------------------------------------------------------------------------
(* Datapoints.                                                             *)

SendPush ==
  /\ dev.sid # 0
  /\ dev.sent < MaxPushes
  /\ dev' = [dev EXCEPT !.sent = @ + 1]
  /\ pushes' = Append(pushes, [sid |-> dev.sid, k |-> dev.sent + 1,
                               iv |-> <<dev.sid, dev.sent>>])
  /\ UNCHANGED <<serverVars, devClock, requests, grant, reply, history, faults>>

PushArrives ==
  /\ pushes # <<>>
  /\ up /\ HasSession
  /\ ReceivePush(Head(pushes))
  /\ pushes' = Tail(pushes)
  /\ LET m == Head(pushes) IN
       /\ gaps' = IF m.sid # session.id THEN gaps + 1 ELSE gaps
       /\ garbled' = IF m.sid = session.id /\ ~Readable(m) THEN garbled + 1 ELSE garbled
  /\ UNCHANGED <<dev, devClock, requests, grant, reply, accepted, lastRun, runs, ciphers,
                 faults>>

\* No server or no session: the post is answered 200, or not at all.
PushIgnored ==
  /\ pushes # <<>>
  /\ ~(up /\ HasSession)
  /\ pushes' = Tail(pushes)
  /\ UNCHANGED <<serverVars, dev, devClock, requests, grant, reply, history, faults>>

-----------------------------------------------------------------------------

Next ==
  \/ Tick \/ Reboot \/ NtpSync
  \/ LoseRequest \/ GiveUpHandshake \/ LoseReply \/ LosePush
  \/ StopServer \/ StartServer
  \/ SendHandshake
  \/ \E r \in requests : HandshakeAccepted(r) \/ HandshakeRefused(r)
  \/ AdoptSession
  \/ \E p \in Peers, t1 \in OtherTime1 : OtherHandshake(p, t1)
  \/ SendCommandLan \/ PollCommands \/ ReceiveReply
  \/ SendPush \/ PushArrives \/ PushIgnored

Spec == Init /\ [][Next]_vars

\* The machine keeps polling while it has a session, and what is sent arrives.
Fairness ==
  /\ WF_vars(PollCommands)
  /\ WF_vars(ReceiveReply)
  /\ WF_vars(AdoptSession)
  /\ WF_vars(\E r \in requests : HandshakeAccepted(r) \/ HandshakeRefused(r))

FairSpec == Spec /\ Fairness

-----------------------------------------------------------------------------
(* Properties.                                                             *)

ServerTypeOK ==
  /\ up \in BOOLEAN
  /\ session \in Session
  /\ sessions \in Nat
  /\ seq \in Nat
  /\ lastActivity \in Nat
  /\ pending \in Seq(Nat)
  /\ floor \in [Peers -> Nat]
  /\ now \in Nat

LinkTypeOK ==
  /\ dev \in [sid : Nat, appIv : Iv, sent : Nat, nonce : Nat, waiting : BOOLEAN]
  /\ devClock \in Nat
  /\ requests \subseteq [nonce : Nat, t1 : Nat]
  /\ grant \in [nonce : Nat, sid : Nat]
  /\ reply \in Cipher
  /\ pushes \in Seq(Push)

HistoryTypeOK ==
  /\ accepted \in Nat
  /\ lastRun \in Nat /\ runs \in Nat
  /\ ciphers \subseteq Cipher
  /\ gaps \in Nat /\ garbled \in Nat
  /\ losses \in Nat /\ reboots \in Nat /\ restarts \in Nat

\* Every variable stays in its range (type invariant).
TypeOK == ServerTypeOK /\ LinkTypeOK /\ HistoryTypeOK

\* The LAN path keeps the promise of a command path: over key exchanges, lost
\* replies, reboots and restarts the machine executes the commands accepted by
\* send_command_lan in order, each at most once (pop and encryption under one
\* lock in _handle_command_poll).
Channel == INSTANCE CommandChannel WITH
  accepted <- accepted, lastRun <- lastRun, runs <- runs
ChannelSpec == Channel!Spec

\* No two messages of a session are encrypted under the same IV, the reason
\* given in _handle_command_poll (H-coffee-1) for encrypting inside the lock.
NoIvReuse ==
  \A a, b \in ciphers : a.sid = b.sid /\ a.iv = b.iv => a = b

\* What keeps the queue in order: it holds the last commands accepted, and the
\* machine has executed none that is still queued or in the reply under way.
QueueInOrder ==
  /\ Len(pending) <= accepted
  /\ \A i \in 1 .. Len(pending) : pending[i] = accepted - Len(pending) + i
  /\ lastRun <= accepted - Len(pending)
  /\ reply.body # Heartbeat =>
       lastRun < reply.body /\ reply.body <= accepted - Len(pending)

\* What keeps the IVs apart: the IV chain of the session counts its messages, and
\* no session number is used again.
IvsCounted ==
  /\ session.id <= sessions
  /\ session.appIv = <<session.id, seq>>
  /\ \A c \in ciphers :
       /\ c.sid \in 1 .. sessions
       /\ c.k >= 1
       /\ c.iv = <<c.sid, c.k - 1>>
       /\ c.sid = session.id => c.k <= seq

\* Each datapoint of the current session that comes out as garbage is paid for
\* by one that was lost, or by one of another session that was decrypted:
\* decrypt_device_to_app moves dev_iv on even when the plaintext is not JSON,
\* so the chain is back in step with the message after.
GapsCostOne == garbled <= gaps

\* The latest key exchange of the machine is never refused as stale, whatever time_1
\* other peers presented: the floor is kept per peer (H-coffee-4), and of a reboot
\* _handle_key_exchange says that the device "always advances time_1" on it.
MachineNeverStale ==
  \A r \in requests : r.nonce = dev.nonce => ~StaleTime1(Machine, r.t1)

\* A key exchange the machine sent earlier never replaces the session of a
\* later one: the ratchet on time_1 drops it when it arrives late.
NoNonceRollback ==
  [][(up /\ session'.nonce # 0 /\ session'.id # session.id)
       => session'.nonce > session.nonce]_vars

\* What lan.py says of a datapoint that refreshes the activity clock: that it
\* "proves the device is alive and the session is current".
PushProvesSession ==
  [][(pushes' # pushes /\ session' # session)
       => Head(pushes).sid = session.id]_vars

\* Every command the LAN path accepted is executed, also when the machine reboots
\* or exchanges keys between the queueing and the poll, as long as it comes back
\* into the current session each time: a new session finds the queue of the last
\* one.  Excepted are a message that is lost (one that a reboot cuts off is), a
\* restart of the server and a session of another peer.
Current == up /\ dev.sid # 0 /\ dev.sid = session.id
Undisturbed == losses = 0 /\ restarts = 0 /\ \A p \in Peers \ {Machine} : floor[p] = 0
AcceptedExecuted ==
  []<>Current =>
    \A c \in 1 .. MaxCommands : accepted >= c ~> (Undisturbed => lastRun >= c)

=============================================================================
