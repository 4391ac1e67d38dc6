------------------------------ MODULE LanServer ------------------------------
(***************************************************************************)
(* The embedded LAN server of the integration, class DeLonghiLanServer of  *)
(* custom_components/delonghi_coffee/lan.py.  The coffee machine opens a   *)
(* session with a key exchange, polls the server for commands, and posts   *)
(* its datapoints.  No handler awaits between reading a request body and   *)
(* its last change of state (the bodies of `async with self._lock' contain *)
(* no await), so each handler is one step.                                 *)
(*                                                                         *)
(* Encryption is modelled by what its chaining does.  A ciphertext is the  *)
(* pair <<s, k>>: the k-th message of one direction of session s.  AES-CBC *)
(* uses the tail of the previous ciphertext as the next IV, so an IV is    *)
(* the pair of the ciphertext it was cut from, <<s, 0>> being the derived  *)
(* one.  A message is readable only under the key of its session and the   *)
(* IV it was made with; otherwise decryption succeeds and yields bytes     *)
(* that are not JSON.                                                      *)
(***************************************************************************)
EXTENDS Naturals, Sequences

CONSTANTS
  Peers,          \* addresses that reach the server
  AllowedPeers,   \* config.allowed_peers; {} lets every peer in
  Loopback,       \* the loopback addresses, always trusted
  MaxSkew,        \* config.handshake_max_skew
  Threshold,      \* NON_WALLCLOCK_TIME1_THRESHOLD
  StaleAfter      \* LAN_SESSION_STALE_SECONDS

ASSUME LanServerAssumption ==
  /\ AllowedPeers \subseteq Peers
  /\ Loopback \subseteq Peers
  /\ MaxSkew \in Nat
  /\ Threshold \in Nat
  /\ StaleAfter \in Nat

VARIABLES
  up,            \* the server is bound and answers
  session,       \* self._session
  sessions,      \* how many sessions were ever derived: each has fresh nonces
  seq,           \* self._seq
  lastActivity,  \* self._last_activity
  pending,       \* self._pending, a FIFO of command numbers
  floor,         \* self._last_handshake_time1, 0 where no entry exists
  now            \* the host clock

serverVars == <<up, session, sessions, seq, lastActivity, pending, floor, now>>

Iv == Nat \X Nat
Session == [id : Nat, nonce : Nat, appIv : Iv, devIv : Iv]

NoSession == [id |-> 0, nonce |-> 0, appIv |-> <<0, 0>>, devIv |-> <<0, 0>>]
HasSession == session.id # 0

Heartbeat == 0  \* the empty command body; commands are numbered from 1

-----------------------------------------------------------------------------
(* Peer and handshake checks.                                              *)

Trusted == IF AllowedPeers = {} THEN Peers ELSE AllowedPeers \cup Loopback
PeerAllowed(p) == p \in Trusted

Distance(a, b) == IF a > b THEN a - b ELSE b - a

\* The ratchet: a peer may not go below the last time_1 accepted from it.
MutGlobalFloor(p, t1) == \E q \in Peers : floor[q] # 0 /\ t1 < floor[q]
MutNoFloor(p, t1) == FALSE
StaleTime1(p, t1) == floor[p] # 0 /\ t1 < floor[p]

ClockSkewed(t1) == t1 < Threshold /\ Distance(now, t1) > MaxSkew

AcceptsHandshake(p, t1) ==
  /\ up
  /\ PeerAllowed(p)
  /\ ~StaleTime1(p, t1)
  /\ ~ClockSkewed(t1)

-----------------------------------------------------------------------------
(* Session state.                                                          *)

\* derive_session: fresh keys, both IV chains at their derived start.
DeriveSession(s, nonce) ==
  [id |-> s, nonce |-> nonce, appIv |-> <<s, 0>>, devIv |-> <<s, 0>>]

\* The ciphertext served now, and the IV chain after it.
Encrypt(body) ==
  [sid |-> session.id, k |-> seq + 1, iv |-> session.appIv, body |-> body]
MutAppIvKept(c) == session
RotateAppIv(c) == [session EXCEPT !.appIv = <<c.sid, c.k>>]

\* A push is readable when key and IV agree; the chain moves on either way.
Readable(m) == m.sid = session.id /\ m.iv = session.devIv
MutRotateReadable(m) ==
  IF Readable(m) THEN [session EXCEPT !.devIv = <<m.sid, m.k>>] ELSE session
RotateDevIv(m) == [session EXCEPT !.devIv = <<m.sid, m.k>>]

IsSessionAlive == HasSession /\ now - lastActivity <= StaleAfter

-----------------------------------------------------------------------------
(* Operations.                                                             *)

\* A new DeLonghiLanServer object, bound by start().
Start ==
  /\ ~up
  /\ up' = TRUE
  /\ session' = NoSession
  /\ seq' = 0
  /\ lastActivity' = 0
  /\ pending' = <<>>
  /\ floor' = [p \in Peers |-> 0]
  /\ UNCHANGED <<sessions, now>>

Stop ==
  /\ up
  /\ up' = FALSE
  /\ UNCHANGED <<session, sessions, seq, lastActivity, pending, floor, now>>

Enqueue(c) ==
  /\ pending' = Append(pending, c)
  /\ UNCHANGED <<up, session, sessions, seq, lastActivity, floor, now>>

\* A key exchange that passes every check.  A refused one changes nothing.
\* Note what it does not touch: commands queued for an earlier session stay.
MutHandshakeClears(p, nonce, t1) ==
  /\ session' = DeriveSession(sessions + 1, nonce)
  /\ sessions' = sessions + 1
  /\ seq' = 0
  /\ floor' = [floor EXCEPT ![p] = t1]
  /\ lastActivity' = now
  /\ pending' = <<>>
  /\ UNCHANGED <<up, now>>
AcceptHandshake(p, nonce, t1) ==
  /\ session' = DeriveSession(sessions + 1, nonce)
  /\ sessions' = sessions + 1
  /\ seq' = 0
  /\ floor' = [floor EXCEPT ![p] = t1]
  /\ lastActivity' = now
  /\ UNCHANGED <<up, pending, now>>

\* What the poll serves and what it leaves queued.
NextBody == IF pending = <<>> THEN Heartbeat ELSE Head(pending)
MutPeek == pending
Popped == IF pending = <<>> THEN pending ELSE Tail(pending)

\* A poll in a session: pop, number, encrypt, all under the lock.
ServePoll ==
  /\ seq' = seq + 1
  /\ pending' = Popped
  /\ session' = RotateAppIv(Encrypt(NextBody))
  /\ lastActivity' = now
  /\ UNCHANGED <<up, sessions, floor, now>>

\* A datapoint posted by the device: decrypted, so the device counts as heard.
ReceivePush(m) ==
  /\ session' = RotateDevIv(m)
  /\ lastActivity' = now
  /\ UNCHANGED <<up, sessions, seq, pending, floor, now>>

=============================================================================
