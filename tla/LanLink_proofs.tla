---------------------------- MODULE LanLink_proofs ----------------------------
(***************************************************************************)
(* Proofs about LanLink for every number of peers, sessions, commands,     *)
(* losses, reboots and restarts: the types, the order and uniqueness of    *)
(* command execution (LanLink implements CommandChannel), that no IV of    *)
(* the session cipher is used twice, what the ratchet on time_1 lets in    *)
(* and keeps out, and what a lost datapoint costs.                         *)
(***************************************************************************)
EXTENDS LanLink, TLAPS

\* The ciphertext a poll serves is well formed, and so is what it leaves.
LEMMA ServedTypes ==
  ASSUME ServerTypeOK
  PROVE  /\ NextBody \in Nat
         /\ Popped \in Seq(Nat)
         /\ Encrypt(NextBody) \in Cipher
         /\ Encrypt(NextBody).sid = session.id
         /\ Encrypt(NextBody).k = seq + 1
         /\ Encrypt(NextBody).iv = session.appIv
         /\ Encrypt(NextBody).body = NextBody
  <1>1. NextBody \in Nat /\ Popped \in Seq(Nat)
    BY DEF ServerTypeOK, NextBody, Popped, Heartbeat
  <1>2. session.id \in Nat /\ session.appIv \in Iv
    BY DEF ServerTypeOK, Session
  <1>3. QED
    BY <1>1, <1>2 DEF ServerTypeOK, Encrypt, Cipher

\* A key exchange puts a well-formed session in place.
LEMMA DerivedTypes ==
  ASSUME NEW s \in Nat, NEW n \in Nat
  PROVE  /\ DeriveSession(s, n) \in Session
         /\ DeriveSession(s, n).id = s
         /\ DeriveSession(s, n).appIv = <<s, 0>>
  BY DEF DeriveSession, Session, Iv

-----------------------------------------------------------------------------
(* Types.                                                                  *)

\* A step that leaves the server alone keeps its variables in their ranges.
LEMMA SameServer == ASSUME ServerTypeOK, UNCHANGED serverVars PROVE ServerTypeOK'
  BY DEF ServerTypeOK, serverVars

\* Likewise for the messages in flight and the machine.
LEMMA SameLink == ASSUME LinkTypeOK, UNCHANGED linkVars PROVE LinkTypeOK'
  BY DEF LinkTypeOK, linkVars

\* Likewise for what is remembered of past sessions and ciphertexts.
LEMMA SameHistory ==
  ASSUME HistoryTypeOK, UNCHANGED <<history, faults>> PROVE HistoryTypeOK'
  BY DEF HistoryTypeOK, history, faults

\* Every variable stays in its range: what the four handlers of DeLonghiLanServer
\* read of the session and the queue is what they left there.
THEOREM TypesHold == Spec => []TypeOK
  <1>1. Init => TypeOK
    BY DEF Init, TypeOK, ServerTypeOK, LinkTypeOK, HistoryTypeOK, NoSession, Session, Iv,
           Offline, NoGrant, NoReply, Cipher, Heartbeat
  <1>2. TypeOK /\ [Next]_vars => TypeOK'
    <2> SUFFICES ASSUME TypeOK, [Next]_vars PROVE TypeOK'
      OBVIOUS
    <2>types. ServerTypeOK /\ LinkTypeOK /\ HistoryTypeOK
      BY DEF TypeOK
    <2>1. CASE Tick
      <3>1. ServerTypeOK'
        BY <2>types, <2>1 DEF Tick, ServerTypeOK
      <3>2. LinkTypeOK'
        <4>1. Rate \in Nat
          BY LanServerAssumption DEF Rate
        <4>2. QED
          BY <2>types, <2>1, <4>1 DEF Tick, LinkTypeOK
      <3>3. HistoryTypeOK'
        BY <2>types, <2>1, SameHistory DEF Tick
      <3>4. QED
        BY <3>1, <3>2, <3>3 DEF TypeOK
    <2>2. CASE Reboot
      <3>1. ServerTypeOK'
        BY <2>types, <2>2, SameServer DEF Reboot
      <3>2. LinkTypeOK'
        BY <2>types, <2>2 DEF Reboot, LinkTypeOK, Offline, NoGrant, NoReply, Cipher, Iv, Heartbeat
      <3>3. HistoryTypeOK'
        BY <2>types, <2>2 DEF Reboot, HistoryTypeOK, history
      <3>4. QED
        BY <3>1, <3>2, <3>3 DEF TypeOK
    <2>3. CASE NtpSync
      <3>1. ServerTypeOK'
        BY <2>types, <2>3, SameServer DEF NtpSync
      <3>2. LinkTypeOK'
        BY <2>types, <2>3 DEF NtpSync, LinkTypeOK, ServerTypeOK
      <3>3. HistoryTypeOK'
        BY <2>types, <2>3, SameHistory DEF NtpSync
      <3>4. QED
        BY <3>1, <3>2, <3>3 DEF TypeOK
    <2>4. CASE LoseRequest
      <3>1. ServerTypeOK'
        BY <2>types, <2>4, SameServer DEF LoseRequest, Lose
      <3>2. LinkTypeOK'
        BY <2>types, <2>4 DEF LoseRequest, Lose, LinkTypeOK
      <3>3. HistoryTypeOK'
        BY <2>types, <2>4 DEF LoseRequest, Lose, HistoryTypeOK
      <3>4. QED
        BY <3>1, <3>2, <3>3 DEF TypeOK
    <2>5. CASE GiveUpHandshake
      <3>1. ServerTypeOK'
        BY <2>types, <2>5, SameServer DEF GiveUpHandshake, Lose
      <3>2. LinkTypeOK'
        BY <2>types, <2>5 DEF GiveUpHandshake, Lose, LinkTypeOK, NoGrant
      <3>3. HistoryTypeOK'
        BY <2>types, <2>5 DEF GiveUpHandshake, Lose, HistoryTypeOK
      <3>4. QED
        BY <3>1, <3>2, <3>3 DEF TypeOK
    <2>6. CASE LoseReply
      <3>1. ServerTypeOK'
        BY <2>types, <2>6, SameServer DEF LoseReply, Lose
      <3>2. LinkTypeOK'
        BY <2>types, <2>6 DEF LoseReply, Lose, LinkTypeOK, NoReply, Cipher, Iv, Heartbeat
      <3>3. HistoryTypeOK'
        BY <2>types, <2>6 DEF LoseReply, Lose, HistoryTypeOK
      <3>4. QED
        BY <3>1, <3>2, <3>3 DEF TypeOK
    <2>7. CASE LosePush
      <3>1. ServerTypeOK'
        BY <2>types, <2>7, SameServer DEF LosePush, Lose
      <3>2. LinkTypeOK'
        BY <2>types, <2>7 DEF LosePush, Lose, LinkTypeOK
      <3>3. HistoryTypeOK'
        BY <2>types, <2>7 DEF LosePush, Lose, HistoryTypeOK
      <3>4. QED
        BY <3>1, <3>2, <3>3 DEF TypeOK
    <2>8. CASE StopServer
      <3>1. ServerTypeOK'
        BY <2>types, <2>8 DEF StopServer, Stop, ServerTypeOK
      <3>2. LinkTypeOK'
        BY <2>types, <2>8, SameLink DEF StopServer, linkVars
      <3>3. HistoryTypeOK'
        BY <2>types, <2>8 DEF StopServer, HistoryTypeOK, history
      <3>4. QED
        BY <3>1, <3>2, <3>3 DEF TypeOK
    <2>9. CASE StartServer
      <3>1. ServerTypeOK'
        BY <2>types, <2>9 DEF StartServer, Start, ServerTypeOK, NoSession, Session, Iv
      <3>2. LinkTypeOK'
        BY <2>types, <2>9, SameLink DEF StartServer, linkVars
      <3>3. HistoryTypeOK'
        BY <2>types, <2>9 DEF StartServer, HistoryTypeOK, faults
      <3>4. QED
        BY <3>1, <3>2, <3>3 DEF TypeOK
    <2>10. CASE SendHandshake
      <3>1. ServerTypeOK'
        BY <2>types, <2>10, SameServer DEF SendHandshake
      <3>2. LinkTypeOK'
        <4>1. dev' \in [sid : Nat, appIv : Iv, sent : Nat, nonce : Nat, waiting : BOOLEAN]
          <5>1. dev \in [sid : Nat, appIv : Iv, sent : Nat, nonce : Nat, waiting : BOOLEAN]
            BY <2>types DEF LinkTypeOK
          <5>2. PICK n \in Nat : n = dev.nonce + 1
            BY <5>1
          <5>3. dev' = [dev EXCEPT !.nonce = n, !.waiting = TRUE]
            BY <5>2, <2>10 DEF SendHandshake
          <5>4. QED
            BY <5>1, <5>3
        <4>2. [nonce |-> dev.nonce + 1, t1 |-> devClock] \in [nonce : Nat, t1 : Nat]
          BY <2>types DEF LinkTypeOK
        <4>3. devClock' \in Nat
          BY <2>types, <2>10 DEF SendHandshake, LinkTypeOK
        <4>4. QED
          BY <2>types, <2>10, <4>1, <4>2, <4>3 DEF SendHandshake, LinkTypeOK
      <3>3. HistoryTypeOK'
        BY <2>types, <2>10, SameHistory DEF SendHandshake
      <3>4. QED
        BY <3>1, <3>2, <3>3 DEF TypeOK
    <2>11. ASSUME NEW r \in requests, HandshakeAccepted(r) PROVE TypeOK'
      <3>1. ServerTypeOK'
        <4>1. r.nonce \in Nat /\ r.t1 \in Nat /\ sessions + 1 \in Nat
          BY <2>types DEF LinkTypeOK, ServerTypeOK
        <4>2. QED
          BY <2>types, <2>11, <4>1, DerivedTypes
          DEF HandshakeAccepted, AcceptHandshake, ServerTypeOK
      <3>2. LinkTypeOK'
        BY <2>types, <2>11 DEF HandshakeAccepted, LinkTypeOK, ServerTypeOK
      <3>3. HistoryTypeOK'
        BY <2>types, <2>11 DEF HandshakeAccepted, HistoryTypeOK, faults
      <3>4. QED
        BY <3>1, <3>2, <3>3 DEF TypeOK
    <2>12. ASSUME NEW r \in requests, HandshakeRefused(r) PROVE TypeOK'
      <3>1. ServerTypeOK'
        BY <2>types, <2>12, SameServer DEF HandshakeRefused
      <3>2. LinkTypeOK'
        BY <2>types, <2>12 DEF HandshakeRefused, LinkTypeOK
      <3>3. HistoryTypeOK'
        BY <2>types, <2>12, SameHistory DEF HandshakeRefused
      <3>4. QED
        BY <3>1, <3>2, <3>3 DEF TypeOK
    <2>13. CASE AdoptSession
      <3>1. ServerTypeOK'
        BY <2>types, <2>13, SameServer DEF AdoptSession
      <3>2. LinkTypeOK'
        BY <2>types, <2>13 DEF AdoptSession, LinkTypeOK, NoGrant, Iv
      <3>3. HistoryTypeOK'
        BY <2>types, <2>13, SameHistory DEF AdoptSession
      <3>4. QED
        BY <3>1, <3>2, <3>3 DEF TypeOK
    <2>14. ASSUME NEW p \in Peers, NEW t1 \in OtherTime1, OtherHandshake(p, t1)
           PROVE TypeOK'
      <3>1. ServerTypeOK'
        <4>1. t1 \in Nat /\ sessions + 1 \in Nat
          BY <2>types, LanLinkAssumption DEF ServerTypeOK
        <4>2. QED
          BY <2>types, <2>14, <4>1, DerivedTypes
          DEF OtherHandshake, AcceptHandshake, ServerTypeOK
      <3>2. LinkTypeOK'
        BY <2>types, <2>14, SameLink DEF OtherHandshake, linkVars
      <3>3. HistoryTypeOK'
        BY <2>types, <2>14 DEF OtherHandshake, HistoryTypeOK, faults
      <3>4. QED
        BY <3>1, <3>2, <3>3 DEF TypeOK
    <2>15. CASE SendCommandLan
      <3>1. ServerTypeOK'
        BY <2>types, <2>15 DEF SendCommandLan, Enqueue, ServerTypeOK, HistoryTypeOK
      <3>2. LinkTypeOK'
        BY <2>types, <2>15, SameLink DEF SendCommandLan, linkVars
      <3>3. HistoryTypeOK'
        BY <2>types, <2>15 DEF SendCommandLan, HistoryTypeOK, faults
      <3>4. QED
        BY <3>1, <3>2, <3>3 DEF TypeOK
    <2>16. CASE PollCommands
      <3>1. ServerTypeOK'
        <4>1. session' \in Session
          BY <2>types, <2>16, ServedTypes
          DEF PollCommands, ServePoll, RotateAppIv, ServerTypeOK, Session, Cipher, Iv
        <4>2. QED
          BY <2>types, <2>16, <4>1, ServedTypes DEF PollCommands, ServePoll, ServerTypeOK
      <3>2. LinkTypeOK'
        BY <2>types, <2>16, ServedTypes DEF PollCommands, LinkTypeOK
      <3>3. HistoryTypeOK'
        BY <2>types, <2>16, ServedTypes DEF PollCommands, HistoryTypeOK, faults
      <3>4. QED
        BY <3>1, <3>2, <3>3 DEF TypeOK
    <2>17. CASE ReceiveReply
      <3>1. ServerTypeOK'
        BY <2>types, <2>17, SameServer DEF ReceiveReply
      <3>2. LinkTypeOK'
        <4>1. <<reply.sid, reply.k>> \in Iv
          BY <2>types DEF LinkTypeOK, Cipher, Iv
        <4>2. dev' \in [sid : Nat, appIv : Iv, sent : Nat, nonce : Nat, waiting : BOOLEAN]
          BY <2>types, <2>17, <4>1 DEF ReceiveReply, LinkTypeOK
        <4>3. reply' \in Cipher
          BY <2>17 DEF ReceiveReply, NoReply, Cipher, Iv, Heartbeat
        <4>4. QED
          BY <2>types, <2>17, <4>2, <4>3 DEF ReceiveReply, LinkTypeOK
      <3>3. HistoryTypeOK'
        <4>1. reply.body \in Nat
          BY <2>types DEF LinkTypeOK, Cipher
        <4>2. lastRun' \in Nat /\ runs' \in Nat
          <5>1. lastRun \in Nat /\ runs \in Nat
            BY <2>types DEF HistoryTypeOK
          <5>2. CASE lastRun' = reply.body /\ runs' = runs + 1
            BY <4>1, <5>1, <5>2
          <5>3. CASE UNCHANGED <<lastRun, runs>>
            BY <5>1, <5>3
          <5>4. QED
            BY <2>17, <5>2, <5>3 DEF ReceiveReply
        <4>3. UNCHANGED <<accepted, ciphers, gaps, garbled, losses, reboots, restarts>>
          BY <2>17 DEF ReceiveReply, faults
        <4>4. QED
          BY <2>types, <4>2, <4>3 DEF HistoryTypeOK
      <3>4. QED
        BY <3>1, <3>2, <3>3 DEF TypeOK
    <2>18. CASE SendPush
      <3>1. ServerTypeOK'
        BY <2>types, <2>18, SameServer DEF SendPush
      <3>2. LinkTypeOK'
        <4>1. dev' \in [sid : Nat, appIv : Iv, sent : Nat, nonce : Nat, waiting : BOOLEAN]
          BY <2>types, <2>18 DEF SendPush, LinkTypeOK
        <4>2. [sid |-> dev.sid, k |-> dev.sent + 1, iv |-> <<dev.sid, dev.sent>>] \in Push
          BY <2>types DEF LinkTypeOK, Push, Iv
        <4>3. QED
          BY <2>types, <2>18, <4>1, <4>2 DEF SendPush, LinkTypeOK
      <3>3. HistoryTypeOK'
        BY <2>types, <2>18, SameHistory DEF SendPush
      <3>4. QED
        BY <3>1, <3>2, <3>3 DEF TypeOK
    <2>19. CASE PushArrives
      <3>1. ServerTypeOK'
        <4>1. Head(pushes) \in Push
          BY <2>types, <2>19 DEF PushArrives, LinkTypeOK
        <4>2. session' \in Session
          BY <2>types, <2>19, <4>1
          DEF PushArrives, ReceivePush, RotateDevIv, ServerTypeOK, Session, Push, Iv
        <4>3. QED
          BY <2>types, <2>19, <4>2 DEF PushArrives, ReceivePush, ServerTypeOK
      <3>2. LinkTypeOK'
        BY <2>types, <2>19 DEF PushArrives, LinkTypeOK
      <3>3. HistoryTypeOK'
        BY <2>types, <2>19 DEF PushArrives, HistoryTypeOK, faults
      <3>4. QED
        BY <3>1, <3>2, <3>3 DEF TypeOK
    <2>20. CASE PushIgnored
      <3>1. ServerTypeOK'
        BY <2>types, <2>20, SameServer DEF PushIgnored
      <3>2. LinkTypeOK'
        BY <2>types, <2>20 DEF PushIgnored, LinkTypeOK
      <3>3. HistoryTypeOK'
        BY <2>types, <2>20, SameHistory DEF PushIgnored
      <3>4. QED
        BY <3>1, <3>2, <3>3 DEF TypeOK
    <2>21. CASE UNCHANGED vars
      BY <2>types, <2>21, SameServer, SameLink, SameHistory DEF TypeOK, vars
    <2>22. QED
      BY <2>1, <2>2, <2>3, <2>4, <2>5, <2>6, <2>7, <2>8, <2>9, <2>10, <2>11, <2>12,
         <2>13, <2>14, <2>15, <2>16, <2>17, <2>18, <2>19, <2>20, <2>21 DEF Next
  <1>3. QED
    BY <1>1, <1>2, PTL DEF Spec

-----------------------------------------------------------------------------
(* Order.  Six actions touch the queue, the counts or the reply under way. *)

orderVars == <<pending, accepted, lastRun, runs, reply>>

\* The other actions leave the command path alone.
LEMMA OtherStepsKeepOrder ==
  ASSUME [Next]_vars
  PROVE  \/ Reboot \/ LoseReply \/ StartServer
         \/ SendCommandLan \/ PollCommands \/ ReceiveReply
         \/ UNCHANGED orderVars
  <1> USE DEF orderVars, serverVars, linkVars, history, faults
  <1>1. ASSUME Tick PROVE UNCHANGED orderVars
    BY <1>1 DEF Tick
  <1>2. ASSUME NtpSync PROVE UNCHANGED orderVars
    BY <1>2 DEF NtpSync
  <1>3. ASSUME LoseRequest PROVE UNCHANGED orderVars
    BY <1>3 DEF LoseRequest, Lose
  <1>4. ASSUME GiveUpHandshake PROVE UNCHANGED orderVars
    BY <1>4 DEF GiveUpHandshake, Lose
  <1>5. ASSUME LosePush PROVE UNCHANGED orderVars
    BY <1>5 DEF LosePush, Lose
  <1>6. ASSUME StopServer PROVE UNCHANGED orderVars
    BY <1>6 DEF StopServer, Stop
  <1>7. ASSUME SendHandshake PROVE UNCHANGED orderVars
    BY <1>7 DEF SendHandshake
  <1>8. ASSUME (\E r \in requests : HandshakeAccepted(r)) PROVE UNCHANGED orderVars
    BY <1>8 DEF HandshakeAccepted, AcceptHandshake
  <1>9. ASSUME (\E r \in requests : HandshakeRefused(r)) PROVE UNCHANGED orderVars
    BY <1>9 DEF HandshakeRefused
  <1>10. ASSUME AdoptSession PROVE UNCHANGED orderVars
    BY <1>10 DEF AdoptSession
  <1>11. ASSUME (\E p \in Peers, t1 \in OtherTime1 : OtherHandshake(p, t1))
         PROVE  UNCHANGED orderVars
    BY <1>11 DEF OtherHandshake, AcceptHandshake
  <1>12. ASSUME SendPush PROVE UNCHANGED orderVars
    BY <1>12 DEF SendPush
  <1>13. ASSUME PushArrives PROVE UNCHANGED orderVars
    BY <1>13 DEF PushArrives, ReceivePush
  <1>14. ASSUME PushIgnored PROVE UNCHANGED orderVars
    BY <1>14 DEF PushIgnored
  <1>15. ASSUME UNCHANGED vars PROVE UNCHANGED orderVars
    BY <1>15 DEF vars
  <1>16. QED
    BY <1>1, <1>2, <1>3, <1>4, <1>5, <1>6, <1>7, <1>8, <1>9, <1>10, <1>11,
       <1>12, <1>13, <1>14, <1>15 DEF Next

\* The queue of commands that enqueue_command fills and the poll handler pops
\* holds the last commands accepted, none of them executed yet.
THEOREM QueueOrdered == Spec => []QueueInOrder
  <1>1. Init => QueueInOrder
    BY DEF Init, QueueInOrder, NoReply
  <1>2. TypeOK /\ QueueInOrder /\ [Next]_vars => QueueInOrder'
    <2> SUFFICES ASSUME TypeOK, QueueInOrder, [Next]_vars PROVE QueueInOrder'
      OBVIOUS
    <2>types. /\ pending \in Seq(Nat)
              /\ accepted \in Nat /\ lastRun \in Nat
              /\ reply \in Cipher /\ reply.body \in Nat
              /\ ServerTypeOK
      BY DEF TypeOK, ServerTypeOK, LinkTypeOK, HistoryTypeOK, Cipher
    <2>1. CASE Reboot
      BY <2>1 DEF Reboot, QueueInOrder, serverVars, history, NoReply
    <2>2. CASE LoseReply
      BY <2>2 DEF LoseReply, Lose, QueueInOrder, serverVars, NoReply
    <2>3. CASE StartServer
      BY <2>types, <2>3 DEF StartServer, Start, QueueInOrder, linkVars
    <2>4. CASE SendCommandLan
      <3>1. /\ pending' = Append(pending, accepted + 1)
            /\ accepted' = accepted + 1
            /\ UNCHANGED <<lastRun, reply>>
        BY <2>4 DEF SendCommandLan, Enqueue, linkVars
      <3>2. /\ Len(pending') = Len(pending) + 1
            /\ \A i \in 1 .. Len(pending) : pending'[i] = pending[i]
            /\ pending'[Len(pending) + 1] = accepted + 1
        BY <2>types, <3>1
      <3>3. ASSUME NEW i \in 1 .. Len(pending')
            PROVE  pending'[i] = accepted' - Len(pending') + i
        BY <2>types, <3>1, <3>2, <3>3 DEF QueueInOrder
      <3>4. Len(pending) \in Nat
        BY <2>types
      <3>5. QED
        BY <2>types, <3>1, <3>2, <3>3, <3>4 DEF QueueInOrder
    <2>5. CASE PollCommands
      <3>1. /\ reply'.body = NextBody
            /\ pending' = Popped
            /\ UNCHANGED <<accepted, lastRun>>
        BY <2>types, <2>5, ServedTypes DEF PollCommands, ServePoll
      <3>2. CASE pending = <<>>
        BY <2>types, <3>1, <3>2 DEF NextBody, Popped, QueueInOrder
      <3>3. CASE pending # <<>>
        <4>1. /\ NextBody = accepted - Len(pending) + 1
              /\ Len(Popped) = Len(pending) - 1
              /\ \A i \in 1 .. Len(Popped) : Popped[i] = pending[i + 1]
          BY <2>types, <3>3 DEF NextBody, Popped, QueueInOrder
        <4>2. QED
          BY <2>types, <3>1, <3>3, <4>1 DEF QueueInOrder
      <3>4. QED
        BY <3>2, <3>3
    <2>6. CASE ReceiveReply
      BY <2>types, <2>6 DEF ReceiveReply, QueueInOrder, serverVars, NoReply
    <2>7. CASE UNCHANGED orderVars
      BY <2>7 DEF QueueInOrder, orderVars
    <2>8. QED
      BY <2>1, <2>2, <2>3, <2>4, <2>5, <2>6, <2>7, OtherStepsKeepOrder
  <1>3. QED
    BY <1>1, <1>2, TypesHold, PTL DEF Spec

\* The LAN path implements the command channel: commands are executed in the
\* order of their acceptance, each at most once.
THEOREM LanImplementsChannel == Spec => ChannelSpec
  <1>1. Init => Channel!Init
    BY DEF Init, Channel!Init
  <1>2. TypeOK /\ QueueInOrder /\ [Next]_vars
          => [Channel!Next]_<<accepted, lastRun, runs>>
    <2> SUFFICES ASSUME TypeOK, QueueInOrder, [Next]_vars
                 PROVE  [Channel!Next]_<<accepted, lastRun, runs>>
      OBVIOUS
    <2>types. /\ pending \in Seq(Nat)
              /\ accepted \in Nat /\ lastRun \in Nat /\ runs \in Nat
              /\ reply.body \in Nat
      BY DEF TypeOK, ServerTypeOK, LinkTypeOK, HistoryTypeOK, Cipher
    <2>1. CASE SendCommandLan
      BY <2>1 DEF SendCommandLan, Channel!Next, Channel!Accept
    <2>2. CASE ReceiveReply
      <3>1. CASE Executes(reply) /\ reply.body # Heartbeat
        <4>1. reply.body \in (lastRun + 1) .. accepted
          BY <2>types, <3>1 DEF QueueInOrder
        <4>2. QED
          BY <2>2, <3>1, <4>1 DEF ReceiveReply, Channel!Next, Channel!Execute
      <3>2. CASE ~(Executes(reply) /\ reply.body # Heartbeat)
        BY <2>2, <3>2 DEF ReceiveReply
      <3>3. QED
        BY <3>1, <3>2
    <2>3. CASE Reboot \/ LoseReply \/ StartServer \/ PollCommands
      BY <2>3 DEF Reboot, LoseReply, Lose, StartServer, PollCommands, history
    <2>4. CASE UNCHANGED orderVars
      BY <2>4 DEF orderVars
    <2>5. QED
      BY <2>1, <2>2, <2>3, <2>4, OtherStepsKeepOrder
  <1>3. QED
    BY <1>1, <1>2, TypesHold, QueueOrdered, PTL DEF Spec, ChannelSpec, Channel!Spec

-----------------------------------------------------------------------------
(* IVs.  Five actions touch the session or the ciphertexts produced.       *)

ivVars == <<session, sessions, seq, ciphers>>

\* The other actions leave the ciphertexts and the session alone.
LEMMA OtherStepsKeepIvs ==
  ASSUME [Next]_vars
  PROVE  \/ StartServer \/ PollCommands \/ PushArrives
         \/ \E r \in requests : HandshakeAccepted(r)
         \/ \E p \in Peers, t1 \in OtherTime1 : OtherHandshake(p, t1)
         \/ UNCHANGED ivVars
  <1> USE DEF ivVars, serverVars, linkVars, history, faults
  <1>1. ASSUME Tick PROVE UNCHANGED ivVars
    BY <1>1 DEF Tick
  <1>2. ASSUME Reboot PROVE UNCHANGED ivVars
    BY <1>2 DEF Reboot
  <1>3. ASSUME NtpSync PROVE UNCHANGED ivVars
    BY <1>3 DEF NtpSync
  <1>4. ASSUME LoseRequest PROVE UNCHANGED ivVars
    BY <1>4 DEF LoseRequest, Lose
  <1>5. ASSUME GiveUpHandshake PROVE UNCHANGED ivVars
    BY <1>5 DEF GiveUpHandshake, Lose
  <1>6. ASSUME LoseReply PROVE UNCHANGED ivVars
    BY <1>6 DEF LoseReply, Lose
  <1>7. ASSUME LosePush PROVE UNCHANGED ivVars
    BY <1>7 DEF LosePush, Lose
  <1>8. ASSUME StopServer PROVE UNCHANGED ivVars
    BY <1>8 DEF StopServer, Stop
  <1>9. ASSUME SendHandshake PROVE UNCHANGED ivVars
    BY <1>9 DEF SendHandshake
  <1>10. ASSUME (\E r \in requests : HandshakeRefused(r)) PROVE UNCHANGED ivVars
    BY <1>10 DEF HandshakeRefused
  <1>11. ASSUME AdoptSession PROVE UNCHANGED ivVars
    BY <1>11 DEF AdoptSession
  <1>12. ASSUME SendCommandLan PROVE UNCHANGED ivVars
    BY <1>12 DEF SendCommandLan, Enqueue
  <1>13. ASSUME ReceiveReply PROVE UNCHANGED ivVars
    BY <1>13 DEF ReceiveReply
  <1>14. ASSUME SendPush PROVE UNCHANGED ivVars
    BY <1>14 DEF SendPush
  <1>15. ASSUME PushIgnored PROVE UNCHANGED ivVars
    BY <1>15 DEF PushIgnored
  <1>16. ASSUME UNCHANGED vars PROVE UNCHANGED ivVars
    BY <1>16 DEF vars
  <1>17. QED
    BY <1>1, <1>2, <1>3, <1>4, <1>5, <1>6, <1>7, <1>8, <1>9, <1>10, <1>11,
       <1>12, <1>13, <1>14, <1>15, <1>16 DEF Next

\* A key exchange starts a session whose number no ciphertext bears.
LEMMA FreshSession ==
  ASSUME TypeOK, IvsCounted, NEW p, NEW n \in Nat, NEW t1, AcceptHandshake(p, n, t1),
         UNCHANGED ciphers
  PROVE  IvsCounted'
  <1>1. /\ session'.id = sessions + 1
        /\ session'.appIv = <<sessions + 1, 0>>
        /\ sessions' = sessions + 1
        /\ seq' = 0
        /\ sessions \in Nat
    BY DerivedTypes DEF AcceptHandshake, TypeOK, ServerTypeOK
  <1>2. QED
    BY <1>1 DEF IvsCounted

\* The IV chain of encrypt_app_to_device counts the messages of the session.
THEOREM IvChainCounts == Spec => []IvsCounted
  <1>1. Init => IvsCounted
    BY DEF Init, IvsCounted, NoSession
  <1>2. TypeOK /\ IvsCounted /\ [Next]_vars => IvsCounted'
    <2> SUFFICES ASSUME TypeOK, IvsCounted, [Next]_vars PROVE IvsCounted'
      OBVIOUS
    <2>types. /\ ServerTypeOK /\ LinkTypeOK
              /\ session.id \in Nat /\ seq \in Nat /\ sessions \in Nat
              /\ ciphers \subseteq Cipher
      BY DEF TypeOK, ServerTypeOK, HistoryTypeOK, Session
    <2>1. CASE StartServer
      BY <2>types, <2>1 DEF StartServer, Start, IvsCounted, NoSession
    <2>2. CASE PollCommands
      <3> DEFINE c == Encrypt(NextBody)
      <3>1. /\ c.sid = session.id /\ c.k = seq + 1 /\ c.iv = <<session.id, seq>>
            /\ session.id \in 1 .. sessions
        BY <2>types, <2>2, ServedTypes DEF PollCommands, HasSession, IvsCounted
      <3>2. /\ session'.id = session.id
            /\ session'.appIv = <<c.sid, c.k>>
        BY <2>types, <2>2 DEF PollCommands, ServePoll, RotateAppIv, ServerTypeOK, Session
      <3>3. /\ seq' = seq + 1 /\ sessions' = sessions
            /\ ciphers' = ciphers \cup {c}
        BY <2>2 DEF PollCommands, ServePoll
      <3> HIDE DEF c
      <3>4. ASSUME NEW d \in ciphers'
            PROVE  /\ d.sid \in 1 .. sessions'
                   /\ d.k >= 1
                   /\ d.iv = <<d.sid, d.k - 1>>
                   /\ d.sid = session'.id => d.k <= seq'
        <4>1. CASE d \in ciphers
          <5>1. d.k \in Nat
            BY <2>types, <4>1 DEF Cipher
          <5>2. QED
            BY <2>types, <3>2, <3>3, <4>1, <5>1 DEF IvsCounted
        <4>2. CASE d = c
          BY <2>types, <3>1, <3>2, <3>3, <4>2
        <4>3. QED
          BY <3>3, <3>4, <4>1, <4>2
      <3>5. session'.id <= sessions' /\ session'.appIv = <<session'.id, seq'>>
        BY <2>types, <3>1, <3>2, <3>3 DEF IvsCounted
      <3>6. QED
        BY <3>4, <3>5 DEF IvsCounted
    <2>3. CASE PushArrives
      <3>1. session'.id = session.id /\ session'.appIv = session.appIv
        BY <2>types, <2>3 DEF PushArrives, ReceivePush, RotateDevIv, ServerTypeOK, Session
      <3>2. QED
        BY <2>3, <3>1 DEF PushArrives, ReceivePush, IvsCounted
    <2>4. CASE \E r \in requests : HandshakeAccepted(r)
      <3>1. PICK r \in requests : HandshakeAccepted(r)
        BY <2>4
      <3>2. r.nonce \in Nat
        BY <2>types DEF LinkTypeOK
      <3>3. QED
        BY <3>1, <3>2, FreshSession DEF HandshakeAccepted
    <2>5. CASE \E p \in Peers, t1 \in OtherTime1 : OtherHandshake(p, t1)
      BY <2>5, FreshSession DEF OtherHandshake
    <2>6. CASE UNCHANGED ivVars
      BY <2>6 DEF IvsCounted, ivVars
    <2>7. QED
      BY <2>1, <2>2, <2>3, <2>4, <2>5, <2>6, OtherStepsKeepIvs
  <1>3. QED
    BY <1>1, <1>2, TypesHold, PTL DEF Spec

\* The poll handler encrypts no two messages of a session under the same IV.
THEOREM IvsNeverReused == Spec => []NoIvReuse
  <1>1. Init => NoIvReuse
    BY DEF Init, NoIvReuse
  <1>2. TypeOK /\ IvsCounted /\ NoIvReuse /\ [Next]_vars => NoIvReuse'
    <2> SUFFICES ASSUME TypeOK, IvsCounted, NoIvReuse, [Next]_vars PROVE NoIvReuse'
      OBVIOUS
    <2>1. CASE PollCommands
      <3> DEFINE c == Encrypt(NextBody)
      <3>1. /\ c.sid = session.id /\ c.iv = <<session.id, seq>>
            /\ seq \in Nat
        BY ServedTypes DEF TypeOK, ServerTypeOK, IvsCounted
      <3>2. ciphers' = ciphers \cup {c}
        BY <2>1 DEF PollCommands
      <3> HIDE DEF c
      <3>3. ASSUME NEW d \in ciphers, d.sid = c.sid PROVE d.iv # c.iv
        <4>1. d.k \in Nat /\ d.k <= seq /\ d.iv = <<d.sid, d.k - 1>>
          BY <3>1, <3>3 DEF TypeOK, HistoryTypeOK, Cipher, IvsCounted
        <4>2. d.k - 1 # seq
          BY <3>1, <4>1
        <4>3. QED
          BY <3>1, <4>1, <4>2
      <3>4. QED
        BY <3>2, <3>3 DEF NoIvReuse
    <2>2. CASE UNCHANGED ciphers
      BY <2>2 DEF NoIvReuse
    <2>3. CASE \/ StartServer \/ PushArrives
               \/ \E r \in requests : HandshakeAccepted(r)
               \/ \E p \in Peers, t1 \in OtherTime1 : OtherHandshake(p, t1)
      BY <2>2, <2>3 DEF StartServer, PushArrives, HandshakeAccepted, OtherHandshake
    <2>4. QED
      BY <2>1, <2>2, <2>3, OtherStepsKeepIvs DEF ivVars
  <1>3. QED
    BY <1>1, <1>2, TypesHold, IvChainCounts, PTL DEF Spec


-----------------------------------------------------------------------------
(* Key exchanges in order of time_1.                                       *)

\* Later exchanges carry later clocks; an uptime counter never shows the same
\* value twice.
Before(a, b) == IF UptimeClock THEN a < b ELSE a <= b

\* The clock of a machine that never rebooted: ahead of all it has been read for.
ClockAhead ==
  /\ ~UptimeClock => devClock = now
  /\ \A r \in requests : Before(r.t1, devClock)
  /\ floor[Machine] <= devClock

\* Requests under way are numbered and stamped in the order they were sent.
RequestsOrdered ==
  /\ \A r \in requests : r.nonce \in 1 .. dev.nonce
  /\ \A a, b \in requests : a.nonce < b.nonce => Before(a.t1, b.t1)
  /\ \A a, b \in requests : a.nonce = b.nonce => a = b

\* The floor stands at or below the latest exchange and, where a session of the
\* machine is in place, above every exchange the machine sent before that one.
FloorBetween ==
  /\ \A r \in requests : r.nonce = dev.nonce => floor[Machine] <= r.t1
  /\ session.nonce <= dev.nonce
  /\ session.nonce # 0 =>
       \A r \in requests : /\ r.nonce # session.nonce
                           /\ r.nonce < session.nonce => Before(r.t1, floor[Machine])

Ratchet == ClockAhead /\ RequestsOrdered /\ FloorBetween
RatchetInv == reboots = 0 => Ratchet

\* What the ratchet relates, with the types the arithmetic needs.
LEMMA RatchetTypes ==
  ASSUME TypeOK
  PROVE  /\ Machine \in Peers
         /\ devClock \in Nat /\ now \in Nat /\ reboots \in Nat
         /\ floor \in [Peers -> Nat] /\ floor[Machine] \in Nat
         /\ dev \in [sid : Nat, appIv : Iv, sent : Nat, nonce : Nat, waiting : BOOLEAN]
         /\ dev.nonce \in Nat
         /\ session.nonce \in Nat
         /\ \A r \in requests : r.nonce \in Nat /\ r.t1 \in Nat
  <1>1. Machine \in Peers
    BY LanServerAssumption, LanLinkAssumption DEF Trusted
  <1>2. QED
    BY <1>1 DEF TypeOK, ServerTypeOK, LinkTypeOK, HistoryTypeOK, Session

ratchetVars == <<devClock, now, floor, reboots>>

\* Time passes, a clock is set, an exchange starts, is accepted or is refused,
\* the server or the machine restarts; every other step leaves the ratchet alone,
\* except that it may drop a request.
LEMMA OtherStepsKeepRatchet ==
  ASSUME TypeOK, [Next]_vars
  PROVE  \/ Tick \/ Reboot \/ NtpSync \/ StartServer \/ SendHandshake
         \/ \E r \in requests : HandshakeAccepted(r)
         \/ \E p \in Peers, t1 \in OtherTime1 : OtherHandshake(p, t1)
         \/ /\ UNCHANGED ratchetVars
            /\ requests' \subseteq requests
            /\ dev'.nonce = dev.nonce
            /\ session'.nonce = session.nonce
  <1> DEFINE quiet == /\ UNCHANGED ratchetVars
                      /\ requests' \subseteq requests
                      /\ dev'.nonce = dev.nonce
                      /\ session'.nonce = session.nonce
  <1> USE DEF ratchetVars, serverVars, linkVars, history, faults
  <1>t. session \in Session
        /\ dev \in [sid : Nat, appIv : Iv, sent : Nat, nonce : Nat, waiting : BOOLEAN]
    BY DEF TypeOK, ServerTypeOK, LinkTypeOK
  <1>1. ASSUME LoseRequest PROVE quiet
    BY <1>1 DEF LoseRequest, Lose
  <1>2. ASSUME GiveUpHandshake PROVE quiet
    BY <1>t, <1>2 DEF GiveUpHandshake, Lose
  <1>3. ASSUME LoseReply PROVE quiet
    BY <1>3 DEF LoseReply, Lose
  <1>4. ASSUME LosePush PROVE quiet
    BY <1>4 DEF LosePush, Lose
  <1>5. ASSUME StopServer PROVE quiet
    BY <1>5 DEF StopServer, Stop
  <1>6. ASSUME (\E r \in requests : HandshakeRefused(r)) PROVE quiet
    BY <1>t, <1>6 DEF HandshakeRefused
  <1>7. ASSUME AdoptSession PROVE quiet
    BY <1>t, <1>7 DEF AdoptSession
  <1>8. ASSUME SendCommandLan PROVE quiet
    BY <1>8 DEF SendCommandLan, Enqueue
  <1>9. ASSUME PollCommands PROVE quiet
    BY <1>t, <1>9 DEF PollCommands, ServePoll, RotateAppIv, Session
  <1>10. ASSUME ReceiveReply PROVE quiet
    BY <1>t, <1>10 DEF ReceiveReply
  <1>11. ASSUME SendPush PROVE quiet
    BY <1>t, <1>11 DEF SendPush
  <1>12. ASSUME PushArrives PROVE quiet
    BY <1>t, <1>12 DEF PushArrives, ReceivePush, RotateDevIv, Session
  <1>13. ASSUME PushIgnored PROVE quiet
    BY <1>13 DEF PushIgnored
  <1>14. ASSUME UNCHANGED vars PROVE quiet
    BY <1>14 DEF vars
  <1>15. QED
    BY <1>1, <1>2, <1>3, <1>4, <1>5, <1>6, <1>7, <1>8, <1>9, <1>10, <1>11,
       <1>12, <1>13, <1>14 DEF Next

\* Time passes for the host and the machine alike, whatever the machine counts.
LEMMA TickKeepsRatchet ==
  ASSUME TypeOK, Ratchet, Tick PROVE Ratchet'
  <1>1. /\ devClock' = devClock + Rate /\ now' = now + 1
        /\ UNCHANGED <<requests, floor, dev, session>>
    BY DEF Tick
  <1>2. Rate \in Nat \ {0} /\ (~UptimeClock => Rate = 1)
    BY LanServerAssumption DEF Rate
  <1>3. ClockAhead'
    BY <1>1, <1>2, RatchetTypes DEF Ratchet, ClockAhead, Before
  <1>4. QED
    BY <1>1, <1>3 DEF Ratchet, RequestsOrdered, FloorBetween, Before

\* A new exchange is the latest, and is read off a clock that has only advanced.
LEMMA SendKeepsRatchet ==
  ASSUME TypeOK, Ratchet, SendHandshake PROVE Ratchet'
  <1> DEFINE new == [nonce |-> dev.nonce + 1, t1 |-> devClock]
  <1>1. /\ requests' = requests \cup {new}
        /\ dev'.nonce = dev.nonce + 1
        /\ devClock' = IF UptimeClock THEN devClock + 1 ELSE devClock
        /\ UNCHANGED <<now, floor, session>>
    BY RatchetTypes DEF SendHandshake, serverVars
  <1>2. /\ new.nonce = dev.nonce + 1 /\ new.t1 = devClock
        /\ \A r \in requests : r.nonce \in 1 .. dev.nonce
    BY DEF Ratchet, RequestsOrdered
  <1>3. /\ devClock \in Nat /\ dev.nonce \in Nat /\ floor[Machine] \in Nat
        /\ session.nonce \in Nat /\ session.nonce <= dev.nonce
        /\ \A r \in requests : r.nonce \in Nat /\ r.t1 \in Nat
    BY RatchetTypes DEF Ratchet, FloorBetween
  <1> HIDE DEF new
  <1>4. ClockAhead'
    BY <1>1, <1>2, <1>3 DEF Ratchet, ClockAhead, Before
  <1>5. RequestsOrdered'
    BY <1>1, <1>2, <1>3 DEF Ratchet, ClockAhead, RequestsOrdered, Before
  <1>6. FloorBetween'
    BY <1>1, <1>2, <1>3 DEF Ratchet, ClockAhead, FloorBetween, Before
  <1>7. QED
    BY <1>4, <1>5, <1>6 DEF Ratchet

\* An accepted exchange raises the floor to its own time_1, below the latest one.
LEMMA AcceptKeepsRatchet ==
  ASSUME TypeOK, Ratchet, NEW r \in requests, HandshakeAccepted(r) PROVE Ratchet'
  <1>1. /\ requests' = requests \ {r}
        /\ floor'[Machine] = r.t1
        /\ session'.nonce = r.nonce
        /\ UNCHANGED <<dev, devClock, now>>
    BY RatchetTypes DEF HandshakeAccepted, AcceptHandshake, DeriveSession
  <1>2. /\ devClock \in Nat /\ dev.nonce \in Nat
        /\ \A q \in requests : q.nonce \in Nat /\ q.t1 \in Nat
    BY RatchetTypes
  <1>3. ClockAhead'
    BY <1>1, <1>2 DEF Ratchet, ClockAhead, Before
  <1>4. RequestsOrdered'
    BY <1>1 DEF Ratchet, RequestsOrdered, Before
  <1>5. FloorBetween'
    <2>1. \A q \in requests' : q.nonce = dev.nonce => r.t1 <= q.t1
      BY <1>1, <1>2 DEF Ratchet, RequestsOrdered, Before
    <2>2. r.nonce <= dev.nonce
      BY <1>2 DEF Ratchet, RequestsOrdered
    <2>3. \A q \in requests' : q.nonce # r.nonce /\ (q.nonce < r.nonce => Before(q.t1, r.t1))
      BY <1>1, <1>2 DEF Ratchet, RequestsOrdered
    <2>4. QED
      BY <1>1, <2>1, <2>2, <2>3 DEF FloorBetween, Before
  <1>6. QED
    BY <1>3, <1>4, <1>5 DEF Ratchet

\* The ratchet holds as long as the machine's clock is not set back.
LEMMA RatchetHolds == Spec => []RatchetInv
  <1>1. Init => RatchetInv
    <2> SUFFICES ASSUME Init PROVE Ratchet
      BY DEF RatchetInv
    <2>1. floor[Machine] = 0
      BY LanServerAssumption, LanLinkAssumption DEF Init, Trusted
    <2>2. QED
      BY <2>1 DEF Init, Ratchet, ClockAhead, RequestsOrdered, FloorBetween, Offline, NoSession
  <1>2. TypeOK /\ RatchetInv /\ [Next]_vars => RatchetInv'
    <2> SUFFICES ASSUME TypeOK, RatchetInv, [Next]_vars, reboots' = 0 PROVE Ratchet'
      BY DEF RatchetInv
    <2>1. reboots = 0
      BY RatchetTypes, OtherStepsKeepRatchet
      DEF Tick, Reboot, NtpSync, StartServer, SendHandshake, HandshakeAccepted,
          OtherHandshake, faults, ratchetVars
    <2>2. Ratchet
      BY <2>1 DEF RatchetInv
    <2>3. CASE Tick
      BY <2>2, <2>3, TickKeepsRatchet
    <2>4. CASE Reboot
      BY <2>1, <2>4 DEF Reboot
    <2>5. CASE NtpSync
      BY <2>2, <2>5 DEF NtpSync, Ratchet, ClockAhead
    <2>6. CASE StartServer
      <3>1. /\ floor'[Machine] = 0 /\ session'.nonce = 0
            /\ UNCHANGED <<requests, dev, devClock, now>>
        BY <2>6, RatchetTypes DEF StartServer, Start, linkVars, NoSession
      <3>2. QED
        BY <2>2, <3>1, RatchetTypes
        DEF Ratchet, ClockAhead, RequestsOrdered, FloorBetween, Before
    <2>7. CASE SendHandshake
      BY <2>2, <2>7, SendKeepsRatchet
    <2>8. CASE \E r \in requests : HandshakeAccepted(r)
      BY <2>2, <2>8, AcceptKeepsRatchet
    <2>9. CASE \E p \in Peers, t1 \in OtherTime1 : OtherHandshake(p, t1)
      <3>1. /\ floor'[Machine] = floor[Machine] /\ session'.nonce = 0
            /\ UNCHANGED <<requests, dev, devClock, now>>
        BY <2>9, RatchetTypes DEF OtherHandshake, AcceptHandshake, DeriveSession, linkVars
      <3>2. QED
        BY <2>2, <3>1, RatchetTypes
        DEF Ratchet, ClockAhead, RequestsOrdered, FloorBetween, Before
    <2>10. CASE /\ UNCHANGED ratchetVars
                /\ requests' \subseteq requests
                /\ dev'.nonce = dev.nonce
                /\ session'.nonce = session.nonce
      BY <2>2, <2>10
      DEF ratchetVars, Ratchet, ClockAhead, RequestsOrdered, FloorBetween, Before
    <2>11. QED
      BY <2>3, <2>4, <2>5, <2>6, <2>7, <2>8, <2>9, <2>10, OtherStepsKeepRatchet
  <1>3. QED
    BY <1>1, <1>2, TypesHold, PTL DEF Spec

\* Up to the machine's first reboot its latest key exchange is never refused as
\* stale, whatever time_1 other peers presented (the floor kept per peer in
\* _handle_key_exchange).
THEOREM LatestNeverStale == Spec => [](reboots = 0 => MachineNeverStale)
  <1>1. TypeOK /\ RatchetInv => (reboots = 0 => MachineNeverStale)
    BY RatchetTypes DEF RatchetInv, Ratchet, FloorBetween, MachineNeverStale, StaleTime1
  <1>2. QED
    BY <1>1, TypesHold, RatchetHolds, PTL

\* With an uptime counter and no reboot, an exchange that arrives late never
\* replaces the session of a later one (the ratchet of _handle_key_exchange).
THEOREM NoRollback ==
  ASSUME UptimeClock, MaxReboots = 0
  PROVE  Spec => NoNonceRollback
  <1>1. TypeOK /\ RatchetInv /\ reboots = 0 /\ [Next]_vars =>
          [(up /\ session'.nonce # 0 /\ session'.id # session.id)
             => session'.nonce > session.nonce]_vars
    <2> SUFFICES ASSUME TypeOK, Ratchet, [Next]_vars, up,
                        session'.nonce # 0, session'.id # session.id
                 PROVE  session'.nonce > session.nonce
      BY DEF RatchetInv
    <2>1. \E r \in requests : HandshakeAccepted(r)
      <3>1. ~StartServer
        BY DEF StartServer, Start
      <3>2. ASSUME PollCommands \/ PushArrives PROVE FALSE
        BY <3>2 DEF PollCommands, ServePoll, PushArrives, ReceivePush, RotateAppIv,
                    RotateDevIv, TypeOK, ServerTypeOK, Session
      <3>3. ASSUME (\E p \in Peers, t1 \in OtherTime1 : OtherHandshake(p, t1)) PROVE FALSE
        BY <3>3 DEF OtherHandshake, AcceptHandshake, DeriveSession
      <3>4. QED
        BY <3>1, <3>2, <3>3, OtherStepsKeepIvs DEF ivVars
    <2>2. PICK r \in requests : HandshakeAccepted(r)
      BY <2>1
    <2>3. session'.nonce = r.nonce /\ ~StaleTime1(Machine, r.t1)
      BY <2>2 DEF HandshakeAccepted, AcceptHandshake, AcceptsHandshake, DeriveSession
    <2>4. ~(session.nonce # 0 /\ (r.nonce = session.nonce \/ r.nonce < session.nonce))
      BY <2>3, RatchetTypes DEF Ratchet, FloorBetween, StaleTime1, Before
    <2>5. QED
      BY <2>3, <2>4, RatchetTypes
  <1>2. Spec => [](reboots = 0)
    <2>1. Init => reboots = 0
      BY DEF Init
    <2>2. TypeOK /\ reboots = 0 /\ [Next]_vars => (reboots = 0)'
      BY OtherStepsKeepRatchet
      DEF Tick, Reboot, NtpSync, StartServer, SendHandshake, HandshakeAccepted,
          OtherHandshake, faults, ratchetVars
    <2>3. QED
      BY <2>1, <2>2, TypesHold, PTL DEF Spec
  <1>3. QED
    BY <1>1, <1>2, TypesHold, RatchetHolds, PTL DEF Spec, NoNonceRollback


-----------------------------------------------------------------------------
(* Datapoints in order.                                                    *)

\* The session of the server is the newest, and what the machine refers to is no
\* newer; a key exchange reply under way is for a session it has not used yet.
NewestSession ==
  /\ session.id # 0 => session.id = sessions
  /\ dev.sid <= sessions
  /\ grant # NoGrant => dev.sid < grant.sid /\ grant.sid <= sessions
  /\ \A i \in 1 .. Len(pushes) :
       /\ 1 <= pushes[i].sid /\ pushes[i].sid <= sessions
       /\ grant # NoGrant => pushes[i].sid < grant.sid

\* The datapoints of the current session are the last in the queue and count on,
\* up to the last one the machine sent.
IvsFollow ==
  \A i \in 1 .. Len(pushes) :
    pushes[i].k >= 1 /\ pushes[i].iv = <<pushes[i].sid, pushes[i].k - 1>>
CountOn ==
  \A i, j \in 1 .. Len(pushes) :
    i < j /\ pushes[i].sid = session.id =>
      pushes[j].sid = session.id /\ pushes[j].k = pushes[i].k + (j - i)
LastSent ==
  \A i \in 1 .. Len(pushes) :
    i = Len(pushes) /\ pushes[i].sid = session.id /\ dev.sid # 0 =>
      dev.sid = session.id /\ dev.sent = pushes[i].k

PushesChained == IvsFollow /\ CountOn /\ LastSent

\* The next datapoint of the current session to arrive.
NextDue(i) == /\ pushes[i].sid = session.id
              /\ i > 1 => pushes[i - 1].sid # session.id

\* The server's chain is ready for the next datapoint of its session: one under
\* way, else the next that the machine sends, now or once it has the session.
InStep ==
  /\ \A i \in 1 .. Len(pushes) : NextDue(i) => session.devIv = pushes[i].iv
  /\ dev.sid = session.id /\ (\A i \in 1 .. Len(pushes) : pushes[i].sid # session.id) =>
       session.devIv = <<session.id, dev.sent>>
  /\ grant # NoGrant /\ grant.sid = session.id => session.devIv = <<session.id, 0>>

\* Garbage and gaps balance: out of step only where a gap is not yet paid for.
Balanced ==
  /\ garbled <= gaps
  /\ up /\ HasSession => garbled < gaps \/ InStep

ChainInv == NewestSession /\ PushesChained /\ Balanced

\* What the chains relate, with the types the arithmetic needs.
LEMMA ChainTypes ==
  ASSUME TypeOK
  PROVE  /\ session \in Session /\ session.id \in Nat /\ session.devIv \in Iv
         /\ sessions \in Nat /\ gaps \in Nat /\ garbled \in Nat
         /\ dev \in [sid : Nat, appIv : Iv, sent : Nat, nonce : Nat, waiting : BOOLEAN]
         /\ dev.sid \in Nat /\ dev.sent \in Nat
         /\ grant.sid \in Nat
         /\ pushes \in Seq(Push) /\ Len(pushes) \in Nat
         /\ \A i \in 1 .. Len(pushes) : pushes[i].sid \in Nat /\ pushes[i].k \in Nat
  <1>1. /\ session \in Session /\ sessions \in Nat /\ gaps \in Nat /\ garbled \in Nat
        /\ dev \in [sid : Nat, appIv : Iv, sent : Nat, nonce : Nat, waiting : BOOLEAN]
        /\ grant \in [nonce : Nat, sid : Nat] /\ pushes \in Seq(Push)
    BY DEF TypeOK, ServerTypeOK, LinkTypeOK, HistoryTypeOK
  <1>2. \A i \in 1 .. Len(pushes) : pushes[i] \in Push
    BY <1>1
  <1>3. QED
    BY <1>1, <1>2 DEF Session, Push

\* What is left of a queue when its head has been taken.
LEMMA TailOfPushes ==
  ASSUME NEW q \in Seq(Push), q # <<>>
  PROVE  /\ Head(q) = q[1] /\ Len(q) \in Nat /\ Len(q) >= 1
         /\ Len(Tail(q)) = Len(q) - 1
         /\ \A i \in 1 .. Len(q) - 1 : Tail(q)[i] = q[i + 1]
  OBVIOUS

\* A key exchange starts a session that no datapoint and no machine refers to yet.
LEMMA FreshChain ==
  ASSUME TypeOK, ChainInv, NEW p, NEW n \in Nat, NEW t1, AcceptHandshake(p, n, t1),
         UNCHANGED <<dev, pushes>>, gaps' = 0, garbled' = 0,
         grant' = grant \/ grant' = [nonce |-> n, sid |-> sessions + 1]
  PROVE  ChainInv'
  <1>1. /\ session'.id = sessions + 1 /\ sessions' = sessions + 1
        /\ session'.devIv = <<sessions + 1, 0>>
        /\ sessions \in Nat
    BY ChainTypes DEF AcceptHandshake, DeriveSession
  <1>2. /\ dev.sid <= sessions /\ dev.sid \in Nat
        /\ \A i \in 1 .. Len(pushes) :
             pushes[i].sid \in Nat /\ 1 <= pushes[i].sid /\ pushes[i].sid <= sessions
    BY ChainTypes DEF ChainInv, NewestSession
  <1>3. NewestSession'
    <2>1. CASE grant' = grant
      BY <1>1, <1>2, <2>1, ChainTypes DEF ChainInv, NewestSession, NoGrant
    <2>2. CASE grant' = [nonce |-> n, sid |-> sessions + 1]
      <3>1. grant'.sid = sessions + 1
        BY <2>2
      <3>2. QED
        BY <1>1, <1>2, <3>1 DEF NewestSession
    <2>3. QED
      BY <2>1, <2>2
  <1>4. PushesChained'
    BY <1>1, <1>2 DEF ChainInv, PushesChained, IvsFollow, CountOn, LastSent
  <1>5. InStep'
    BY <1>1, <1>2 DEF InStep, NextDue
  <1>6. QED
    BY <1>3, <1>4, <1>5 DEF ChainInv, Balanced

\* Taking the head of the queue leaves the rest in order.
LEMMA TakenInOrder ==
  ASSUME TypeOK, NewestSession, PushesChained, pushes # <<>>, pushes' = Tail(pushes),
         session'.id = session.id, UNCHANGED <<sessions, dev, grant>>
  PROVE  NewestSession' /\ PushesChained'
  <1>1. /\ Len(pushes) \in Nat /\ Len(pushes') = Len(pushes) - 1
        /\ \A i \in 1 .. Len(pushes) - 1 : pushes'[i] = pushes[i + 1]
    BY ChainTypes, TailOfPushes
  <1>2. NewestSession'
    BY <1>1, ChainTypes DEF NewestSession, NoGrant
  <1>3. PushesChained'
    <2>1. \A i \in 1 .. Len(pushes') :
            pushes'[i].k >= 1 /\ pushes'[i].iv = <<pushes'[i].sid, pushes'[i].k - 1>>
      <3> SUFFICES ASSUME NEW i \in 1 .. Len(pushes')
                   PROVE  pushes'[i].k >= 1 /\ pushes'[i].iv = <<pushes'[i].sid, pushes'[i].k - 1>>
        OBVIOUS
      <3>1. i + 1 \in 1 .. Len(pushes) /\ pushes'[i] = pushes[i + 1]
        BY <1>1
      <3>2. QED
        BY <3>1 DEF PushesChained, IvsFollow
    <2>2. ASSUME NEW i \in 1 .. Len(pushes'), NEW j \in 1 .. Len(pushes'), i < j,
                 pushes'[i].sid = session.id
          PROVE  pushes'[j].sid = session.id /\ pushes'[j].k = pushes'[i].k + (j - i)
      <3>1. /\ i + 1 \in 1 .. Len(pushes) /\ j + 1 \in 1 .. Len(pushes) /\ i + 1 < j + 1
            /\ pushes'[i] = pushes[i + 1] /\ pushes'[j] = pushes[j + 1]
            /\ (j + 1) - (i + 1) = j - i
        BY <1>1, <2>2
      <3>2. QED
        BY <2>2, <3>1 DEF PushesChained, CountOn
    <2>3. ASSUME NEW i \in 1 .. Len(pushes'), i = Len(pushes'),
                 pushes'[i].sid = session.id, dev.sid # 0
          PROVE  dev.sid = session.id /\ dev.sent = pushes'[i].k
      <3>1. i + 1 \in 1 .. Len(pushes) /\ i + 1 = Len(pushes) /\ pushes'[i] = pushes[i + 1]
        BY <1>1, <2>3
      <3>2. QED
        BY <2>3, <3>1 DEF PushesChained, LastSent
    <2>4. QED
      BY <2>1, <2>2, <2>3 DEF PushesChained, IvsFollow, CountOn, LastSent
  <1>4. QED
    BY <1>2, <1>3

\* A datapoint of another session that is lost leaves the next one due as it was.
LEMMA OthersLeaveStep ==
  ASSUME TypeOK, PushesChained, InStep, pushes # <<>>, Head(pushes).sid # session.id,
         pushes' = Tail(pushes), UNCHANGED <<session, dev, grant>>
  PROVE  InStep'
  <1>1. /\ Len(pushes) \in Nat /\ Len(pushes) >= 1 /\ Len(pushes') = Len(pushes) - 1
        /\ pushes[1].sid # session.id
        /\ \A i \in 1 .. Len(pushes) - 1 : pushes'[i] = pushes[i + 1]
    BY ChainTypes, TailOfPushes
  <1>2. ASSUME NEW i \in 1 .. Len(pushes'), NextDue(i)'
        PROVE  session.devIv = pushes'[i].iv
    <2>1. pushes'[i] = pushes[i + 1] /\ i + 1 \in 1 .. Len(pushes)
      BY <1>1
    <2>2. NextDue(i + 1)
      <3>1. CASE i = 1
        BY <1>1, <1>2, <2>1, <3>1 DEF NextDue
      <3>2. CASE i > 1
        <4>1. pushes'[i - 1] = pushes[i] /\ (i + 1) - 1 = i
          BY <1>1, <3>2
        <4>2. QED
          BY <1>2, <2>1, <3>2, <4>1 DEF NextDue
      <3>3. QED
        BY <3>1, <3>2
    <2>3. QED
      BY <2>1, <2>2 DEF InStep
  <1>3. ASSUME \A i \in 1 .. Len(pushes') : pushes'[i].sid # session.id
        PROVE  \A i \in 1 .. Len(pushes) : pushes[i].sid # session.id
    <2> SUFFICES ASSUME NEW i \in 1 .. Len(pushes), i # 1 PROVE pushes[i].sid # session.id
      BY <1>1
    <2>1. i - 1 \in 1 .. Len(pushes') /\ pushes'[i - 1] = pushes[(i - 1) + 1] /\ (i - 1) + 1 = i
      BY <1>1
    <2>2. QED
      BY <1>3, <2>1
  <1>4. QED
    BY <1>2, <1>3 DEF InStep

\* A datapoint of the session, once decrypted, leaves the chain ready for the next.
LEMMA OwnRestoresStep ==
  ASSUME TypeOK, NewestSession, PushesChained, pushes # <<>>, HasSession,
         Head(pushes).sid = session.id, pushes' = Tail(pushes),
         session' = RotateDevIv(Head(pushes)), UNCHANGED <<dev, grant>>
  PROVE  InStep'
  <1>1. /\ Len(pushes) \in Nat /\ Len(pushes) >= 1 /\ Len(pushes') = Len(pushes) - 1
        /\ Head(pushes) = pushes[1]
        /\ \A i \in 1 .. Len(pushes) - 1 : pushes'[i] = pushes[i + 1]
    BY ChainTypes, TailOfPushes
  <1>2. session'.id = session.id /\ session'.devIv = <<session.id, pushes[1].k>>
    BY <1>1, ChainTypes DEF RotateDevIv, Session
  <1>own. 1 \in 1 .. Len(pushes) /\ pushes[1].sid = session.id
    BY <1>1
  <1>3. ASSUME NEW i \in 1 .. Len(pushes'), NextDue(i)'
        PROVE  session'.devIv = pushes'[i].iv
    <2>1. i = 1
      <3> SUFFICES ASSUME i > 1 PROVE FALSE
        BY <1>1
      <3>1. i - 1 \in 1 .. Len(pushes') /\ i \in 1 .. Len(pushes) /\ pushes'[i - 1] = pushes[i]
        BY <1>1
      <3>2. pushes[i].sid = session.id
        BY <1>1, <1>own, <3>1 DEF PushesChained, CountOn
      <3>3. QED
        BY <1>2, <1>3, <3>1, <3>2 DEF NextDue
    <2>2. 2 \in 1 .. Len(pushes) /\ pushes'[i] = pushes[2]
      BY <1>1, <2>1
    <2>3. pushes[2].sid = session.id /\ pushes[2].k = pushes[1].k + (2 - 1)
      BY <1>1, <1>own, <2>2 DEF PushesChained, CountOn
    <2>4. pushes[2].iv = <<session.id, pushes[1].k>>
      <3>1. pushes[2].iv = <<pushes[2].sid, pushes[2].k - 1>>
        BY <2>2 DEF PushesChained, IvsFollow
      <3>2. pushes[1].k \in Nat
        BY <1>own, ChainTypes
      <3>3. QED
        BY <2>3, <3>1, <3>2
    <2>5. QED
      BY <1>2, <2>2, <2>4
  <1>4. ASSUME dev.sid = session.id, \A i \in 1 .. Len(pushes') : pushes'[i].sid # session.id
        PROVE  dev.sent = pushes[1].k
    <2>1. Len(pushes) = 1
      <3> SUFFICES ASSUME Len(pushes) # 1 PROVE FALSE
        OBVIOUS
      <3>1. 1 \in 1 .. Len(pushes') /\ 2 \in 1 .. Len(pushes) /\ pushes'[1] = pushes[2]
        BY <1>1
      <3>2. pushes[2].sid = session.id
        BY <1>1, <1>own, <3>1 DEF PushesChained, CountOn
      <3>3. QED
        BY <1>4, <3>1, <3>2
    <2>2. QED
      BY <1>1, <1>4, <2>1 DEF PushesChained, LastSent, HasSession
  <1>5. ~(grant # NoGrant /\ grant.sid = session.id)
    BY <1>1, ChainTypes DEF NewestSession
  <1>6. QED
    BY <1>2, <1>3, <1>4, <1>5 DEF InStep

\* The machine appends the next datapoint of its chain.
LEMMA SendKeepsChain ==
  ASSUME TypeOK, ChainInv, SendPush PROVE ChainInv'
  <1> DEFINE n == Len(pushes) + 1
             m == [sid |-> dev.sid, k |-> dev.sent + 1, iv |-> <<dev.sid, dev.sent>>]
  <1>1. /\ dev.sid # 0 /\ dev'.sid = dev.sid /\ dev'.sent = dev.sent + 1
        /\ UNCHANGED <<up, session, sessions, grant, gaps, garbled>>
    BY ChainTypes DEF SendPush, serverVars, history
  <1>2. m \in Push
    BY ChainTypes DEF Push, Iv
  <1>3. /\ Len(pushes') = n /\ n \in Nat /\ n >= 1 /\ pushes'[n] = m
        /\ \A i \in 1 .. Len(pushes) : pushes'[i] = pushes[i]
    BY <1>2, ChainTypes DEF SendPush
  <1>4. m.sid = dev.sid /\ m.k = dev.sent + 1 /\ m.iv = <<dev.sid, dev.sent>>
    OBVIOUS
  <1>5. \A i \in 1 .. n : i \in 1 .. Len(pushes) \/ i = n
    BY ChainTypes
  <1>6. /\ dev.sid \in Nat /\ dev.sent \in Nat /\ sessions \in Nat /\ Len(pushes) \in Nat
        /\ n = Len(pushes) + 1
    BY ChainTypes
  <1> HIDE DEF m, n
  <1>7. NewestSession'
    BY <1>1, <1>3, <1>4, <1>5, <1>6 DEF ChainInv, NewestSession, NoGrant
  <1>8. ASSUME NEW i \in 1 .. Len(pushes), pushes[i].sid = session.id
        PROVE  dev.sid = session.id /\ dev.sent + 1 = pushes[i].k + (n - i)
    <2>1. CASE i = Len(pushes)
      BY <1>1, <1>6, <1>8, <2>1, ChainTypes DEF ChainInv, PushesChained, LastSent
    <2>2. CASE i < Len(pushes)
      <3>1. /\ Len(pushes) \in 1 .. Len(pushes)
            /\ pushes[Len(pushes)].sid = session.id
            /\ pushes[Len(pushes)].k = pushes[i].k + (Len(pushes) - i)
        BY <1>6, <1>8, <2>2 DEF ChainInv, PushesChained, CountOn
      <3>2. dev.sid = session.id /\ dev.sent = pushes[Len(pushes)].k
        BY <1>1, <3>1 DEF ChainInv, PushesChained, LastSent
      <3>3. QED
        BY <1>6, <1>8, <3>1, <3>2, ChainTypes
    <2>3. QED
      BY <1>6, <2>1, <2>2
  <1>9. PushesChained'
    <2>1. IvsFollow'
      <3>1. m.k >= 1 /\ m.k - 1 = dev.sent /\ m.iv = <<m.sid, m.k - 1>>
        BY <1>4, <1>6
      <3>2. QED
        BY <1>3, <1>5, <3>1 DEF ChainInv, PushesChained, IvsFollow
    <2>2. ASSUME NEW i \in 1 .. n, NEW j \in 1 .. n, i < j, pushes'[i].sid = session.id
          PROVE  pushes'[j].sid = session.id /\ pushes'[j].k = pushes'[i].k + (j - i)
      <3>1. i \in 1 .. Len(pushes) /\ pushes'[i] = pushes[i]
        BY <1>3, <1>6, <2>2
      <3>2. CASE j = n
        BY <1>3, <1>4, <1>8, <2>2, <3>1, <3>2
      <3>3. CASE j \in 1 .. Len(pushes)
        BY <1>3, <2>2, <3>1, <3>3 DEF ChainInv, PushesChained, CountOn
      <3>4. QED
        BY <1>5, <3>2, <3>3
    <2>3. QED
      BY <1>1, <1>3, <1>4, <2>1, <2>2 DEF PushesChained, CountOn, LastSent
  <1>10. ASSUME up, HasSession, InStep PROVE InStep'
    <2>1. ASSUME NEW i \in 1 .. n, NextDue(i)' PROVE session.devIv = pushes'[i].iv
      <3>1. CASE i \in 1 .. Len(pushes)
        <4>1. pushes'[i] = pushes[i] /\ (i > 1 => pushes'[i - 1] = pushes[i - 1])
          BY <1>3, <1>6, <3>1
        <4>2. NextDue(i)
          BY <1>1, <2>1, <4>1 DEF NextDue
        <4>3. QED
          BY <1>10, <3>1, <4>1, <4>2 DEF InStep
      <3>2. CASE i = n
        <4>1. dev.sid = session.id
          BY <1>1, <1>3, <1>4, <2>1, <3>2 DEF NextDue
        <4>2. \A j \in 1 .. Len(pushes) : pushes[j].sid # session.id
          <5> SUFFICES ASSUME NEW j \in 1 .. Len(pushes), pushes[j].sid = session.id
                       PROVE  FALSE
            OBVIOUS
          <5>1. /\ n - 1 = Len(pushes) /\ n > 1 /\ Len(pushes) \in 1 .. Len(pushes)
                /\ pushes'[n - 1] = pushes[Len(pushes)]
            BY <1>3, <1>6
          <5>2. pushes[Len(pushes)].sid = session.id
            <6>1. j = Len(pushes) \/ j < Len(pushes)
              BY <1>6
            <6>2. QED
              BY <5>1, <6>1 DEF ChainInv, PushesChained, CountOn
          <5>3. QED
            BY <1>1, <2>1, <3>2, <5>1, <5>2 DEF NextDue
        <4>3. QED
          BY <1>3, <1>4, <1>10, <3>2, <4>1, <4>2 DEF InStep
      <3>3. QED
        BY <1>5, <3>1, <3>2
    <2>2. ~(dev'.sid = session.id /\ \A i \in 1 .. n : pushes'[i].sid # session.id)
      BY <1>1, <1>3, <1>4, <1>6
    <2>3. QED
      BY <1>1, <1>3, <1>10, <2>1, <2>2 DEF InStep, NoGrant
  <1>11. QED
    BY <1>1, <1>7, <1>9, <1>10 DEF ChainInv, Balanced, HasSession

\* The machine takes up the session it was granted: its chain starts afresh.
LEMMA AdoptKeepsChain ==
  ASSUME TypeOK, ChainInv, AdoptSession PROVE ChainInv'
  <1>1. /\ grant # NoGrant /\ grant' = NoGrant
        /\ dev'.sid = grant.sid /\ dev'.sent = 0
        /\ UNCHANGED <<up, session, sessions, pushes, gaps, garbled>>
    BY ChainTypes DEF AdoptSession, serverVars, history
  <1>2. /\ grant.sid \in Nat /\ grant.sid <= sessions
        /\ \A i \in 1 .. Len(pushes) : pushes[i].sid < grant.sid
    BY <1>1, ChainTypes DEF ChainInv, NewestSession
  <1>3. NewestSession'
    BY <1>1, <1>2 DEF ChainInv, NewestSession
  <1>4. PushesChained'
    <2>1. \A i \in 1 .. Len(pushes) : pushes[i].sid # session.id
      <3> SUFFICES ASSUME NEW i \in 1 .. Len(pushes), pushes[i].sid = session.id PROVE FALSE
        OBVIOUS
      <3>1. session.id = sessions
        BY ChainTypes DEF ChainInv, NewestSession
      <3>2. QED
        BY <1>2, <3>1, ChainTypes
    <2>2. QED
      BY <1>1, <2>1 DEF ChainInv, PushesChained, IvsFollow, CountOn, LastSent
  <1>5. ASSUME InStep PROVE InStep'
    BY <1>1, <1>5 DEF InStep, NextDue
  <1>6. QED
    BY <1>1, <1>3, <1>4, <1>5 DEF ChainInv, Balanced, HasSession

\* A machine that reboots, or gives up a key exchange, refers to fewer sessions.
LEMMA ForgetKeepsChain ==
  ASSUME TypeOK, ChainInv, grant' = NoGrant,
         dev'.sid = 0 \/ (dev'.sid = dev.sid /\ dev'.sent = dev.sent),
         UNCHANGED <<up, session, sessions, pushes, gaps, garbled>>
  PROVE  ChainInv'
  <1>1. NewestSession'
    BY ChainTypes DEF ChainInv, NewestSession
  <1>2. PushesChained'
    BY DEF ChainInv, PushesChained, IvsFollow, CountOn, LastSent
  <1>3. ASSUME HasSession, InStep PROVE InStep'
    BY <1>3 DEF InStep, NextDue, HasSession
  <1>4. QED
    BY <1>1, <1>2, <1>3 DEF ChainInv, Balanced, HasSession

\* A step that touches none of what the chains relate.
LEMMA QuietChain ==
  ASSUME ChainInv, session'.id = session.id, session'.devIv = session.devIv,
         dev'.sid = dev.sid, dev'.sent = dev.sent,
         UNCHANGED <<up, sessions, grant, pushes, gaps, garbled>>
  PROVE  ChainInv'
  BY DEF ChainInv, NewestSession, PushesChained, IvsFollow, CountOn, LastSent, Balanced,
         InStep, NextDue, HasSession, NoGrant

\* A datapoint that is lost, or decrypted under another session's key, is a gap;
\* one of the session that comes out unreadable uses a gap up.
LEMMA TakenKeepsChain ==
  ASSUME TypeOK, ChainInv, LosePush \/ PushArrives \/ PushIgnored
  PROVE  ChainInv'
  <1>1. /\ pushes # <<>> /\ pushes' = Tail(pushes) /\ session'.id = session.id
        /\ UNCHANGED <<up, sessions, dev, grant>>
    BY ChainTypes
    DEF LosePush, Lose, PushArrives, PushIgnored, ReceivePush, RotateDevIv, serverVars, Session
  <1>2. NewestSession' /\ PushesChained'
    BY <1>1, TakenInOrder DEF ChainInv
  <1>3. gaps \in Nat /\ garbled \in Nat /\ garbled <= gaps
    BY ChainTypes DEF ChainInv, Balanced
  <1>4. Balanced'
    <2>1. CASE LosePush
      <3>1. garbled' = garbled /\ session' = session
        BY <2>1 DEF LosePush, Lose, serverVars
      <3>2. CASE Head(pushes).sid = session.id
        <4>1. gaps' = gaps + 1
          BY <2>1, <3>2 DEF LosePush
        <4>2. QED
          BY <1>3, <3>1, <4>1 DEF Balanced
      <3>3. CASE Head(pushes).sid # session.id
        <4>1. gaps' = gaps
          BY <2>1, <3>3 DEF LosePush
        <4>2. QED
          BY <1>1, <1>3, <3>1, <3>3, <4>1, OthersLeaveStep DEF ChainInv, Balanced, HasSession
      <3>4. QED
        BY <3>2, <3>3
    <2>2. CASE PushArrives
      <3>1. HasSession /\ up /\ session' = RotateDevIv(Head(pushes))
        BY <2>2 DEF PushArrives, ReceivePush
      <3>2. CASE Head(pushes).sid # session.id
        <4>1. gaps' = gaps + 1 /\ garbled' = garbled
          BY <2>2, <3>2 DEF PushArrives
        <4>2. QED
          BY <1>3, <4>1 DEF Balanced
      <3>3. CASE Head(pushes).sid = session.id
        <4>1. InStep'
          BY <1>1, <3>1, <3>3, OwnRestoresStep DEF ChainInv
        <4>2. gaps' = gaps
          BY <2>2, <3>3 DEF PushArrives
        <4>3. CASE Readable(Head(pushes))
          <5>1. garbled' = garbled
            BY <2>2, <4>3 DEF PushArrives
          <5>2. QED
            BY <1>3, <4>1, <4>2, <5>1 DEF Balanced
        <4>4. CASE ~Readable(Head(pushes))
          <5>1. garbled' = garbled + 1
            BY <2>2, <3>3, <4>4 DEF PushArrives
          <5>2. ~InStep
            <6>1. 1 \in 1 .. Len(pushes) /\ Head(pushes) = pushes[1]
              BY <1>1, ChainTypes, TailOfPushes
            <6>2. NextDue(1)
              BY <3>3, <6>1 DEF NextDue
            <6>3. QED
              BY <3>3, <4>4, <6>1, <6>2 DEF InStep, Readable
          <5>3. garbled < gaps
            BY <3>1, <5>2 DEF ChainInv, Balanced
          <5>4. QED
            BY <1>3, <4>1, <4>2, <5>1, <5>3 DEF Balanced
        <4>5. QED
          BY <4>3, <4>4
      <3>4. QED
        BY <3>2, <3>3
    <2>3. CASE PushIgnored
      BY <1>1, <1>3, <2>3 DEF PushIgnored, Balanced, HasSession, history
    <2>4. QED
      BY <2>1, <2>2, <2>3
  <1>5. QED
    BY <1>2, <1>4 DEF ChainInv

\* Garbage and gaps balance in every state.
LEMMA ChainHolds == Spec => []ChainInv
  <1>1. Init => ChainInv
    BY DEF Init, ChainInv, NewestSession, PushesChained, IvsFollow, CountOn, LastSent,
           Balanced, HasSession, NoSession,
           NoGrant, Offline
  <1>2. TypeOK /\ ChainInv /\ [Next]_vars => ChainInv'
    <2> SUFFICES ASSUME TypeOK, ChainInv, [Next]_vars PROVE ChainInv'
      OBVIOUS
    <2> USE DEF serverVars, linkVars, history, faults
    <2>1. ASSUME Tick \/ NtpSync \/ UNCHANGED vars PROVE ChainInv'
      BY <2>1, QuietChain DEF Tick, NtpSync, vars
    <2>2. ASSUME Reboot \/ GiveUpHandshake PROVE ChainInv'
      BY <2>2, ChainTypes, ForgetKeepsChain DEF Reboot, GiveUpHandshake, Lose, Offline
    <2>3. ASSUME LoseRequest \/ LoseReply PROVE ChainInv'
      BY <2>3, QuietChain DEF LoseRequest, LoseReply, Lose
    <2>4. ASSUME LosePush \/ PushArrives \/ PushIgnored PROVE ChainInv'
      BY <2>4, TakenKeepsChain
    <2>5. ASSUME StopServer PROVE ChainInv'
      BY <2>5 DEF StopServer, Stop, ChainInv, NewestSession, PushesChained, IvsFollow,
                  CountOn, LastSent, Balanced, NoGrant
    <2>6. ASSUME StartServer PROVE ChainInv'
      <3>1. /\ session'.id = 0 /\ gaps' = 0 /\ garbled' = 0
            /\ UNCHANGED <<sessions, dev, grant, pushes>>
        BY <2>6 DEF StartServer, Start, NoSession
      <3>2. \A i \in 1 .. Len(pushes) : pushes[i].sid # 0
        BY ChainTypes DEF ChainInv, NewestSession
      <3>3. NewestSession'
        BY <3>1 DEF ChainInv, NewestSession, NoGrant
      <3>4. PushesChained'
        BY <3>1, <3>2 DEF ChainInv, PushesChained, IvsFollow, CountOn, LastSent
      <3>5. Balanced'
        BY <3>1 DEF Balanced, HasSession
      <3>6. QED
        BY <3>3, <3>4, <3>5 DEF ChainInv
    <2>7. ASSUME SendHandshake \/ \E r \in requests : HandshakeRefused(r) PROVE ChainInv'
      BY <2>7, ChainTypes, QuietChain DEF SendHandshake, HandshakeRefused
    <2>8. ASSUME NEW r \in requests, HandshakeAccepted(r) PROVE ChainInv'
      <3>1. r.nonce \in Nat
        BY RatchetTypes
      <3>2. QED
        BY <2>8, <3>1, FreshChain DEF HandshakeAccepted
    <2>9. ASSUME AdoptSession PROVE ChainInv'
      BY <2>9, AdoptKeepsChain
    <2>10. ASSUME NEW p \in Peers, NEW t1 \in OtherTime1, OtherHandshake(p, t1) PROVE ChainInv'
      BY <2>10, FreshChain DEF OtherHandshake
    <2>11. ASSUME SendCommandLan PROVE ChainInv'
      BY <2>11, QuietChain DEF SendCommandLan, Enqueue
    <2>12. ASSUME PollCommands PROVE ChainInv'
      BY <2>12, ChainTypes, QuietChain DEF PollCommands, ServePoll, RotateAppIv, Session
    <2>13. ASSUME ReceiveReply PROVE ChainInv'
      BY <2>13, ChainTypes, QuietChain DEF ReceiveReply
    <2>14. ASSUME SendPush PROVE ChainInv'
      BY <2>14, SendKeepsChain
    <2>15. QED
      BY <2>1, <2>2, <2>3, <2>4, <2>5, <2>6, <2>7, <2>8, <2>9, <2>10, <2>11, <2>12,
         <2>13, <2>14 DEF Next
  <1>3. QED
    BY <1>1, <1>2, TypesHold, PTL DEF Spec

\* However datapoints are lost, late or mixed with those of another session, each
\* gap makes at most one of the current session unreadable: decrypt_device_to_app
\* moves the IV chain on even when the plaintext is not JSON.
THEOREM GapsCostAtMostOne == Spec => []GapsCostOne
  <1>1. ChainInv => GapsCostOne
    BY DEF ChainInv, Balanced, GapsCostOne
  <1>2. QED
    BY <1>1, ChainHolds, PTL

=============================================================================
