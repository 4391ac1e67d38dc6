----------------------------- MODULE SendCommand -----------------------------
(***************************************************************************)
(* DeLonghiApi.send_command under its retry decorator: one call of a       *)
(* blocking thread POSTs the command to one or both command properties of  *)
(* the cloud, in one or both packet shapes, and tries the whole list again *)
(* when a POST failed.  The threads share _cmd_property.                   *)
(*                                                                         *)
(* The token and its 401 are the business of CloudAuth: here a POST that   *)
(* is answered with any status but 201 and 404 is refused.                 *)
(***************************************************************************)
EXTENDS Naturals, Sequences

CONSTANTS
  Call,         \* the commands, each sent by a thread of its own
  RETRY_COUNT   \* how often a list is tried

ASSUME SendAssumption == RETRY_COUNT \in Nat \ {0}

Property == {"app_data_request", "data_request"}
None == "none"

\* A packet shape: the property it is posted to and whether it ends with the
\* app_id.
Signed == <<"app_data_request", TRUE>>
DataBare == <<"data_request", FALSE>>
DataSigned == <<"data_request", TRUE>>
Shape == {Signed, DataBare, DataSigned}

VARIABLES
  existing,     \* the command properties this machine has
  acts,         \* the one shape its firmware acts on
  hint,         \* the property that the model's name stands for, or None
  cmdProperty,  \* _cmd_property
  call,         \* the thread of each command
  posts,        \* the shapes the cloud accepted, by command
  relayed,      \* how often the machine was given the command in that shape
  unheard       \* how often that happened and the answer was lost

machineVars == <<existing, acts, hint>>
history == <<posts, relayed, unheard>>
sendVars == <<machineVars, cmdProperty, call, history>>

Local == [pc : {"new", "posting", "asleep", "true", "unsupported", "failed"},
          left : Seq(Shape), n : Nat, sentAny : BOOLEAN, lastError : BOOLEAN]

\* A model routed by its name has the property it is routed to, or none.
SendInit ==
  /\ existing \in SUBSET Property
  /\ acts \in Shape
  /\ acts[1] \in existing \/ existing = {}
  /\ hint \in Property \cup {None}
  /\ hint \in existing \cup {None} \/ existing = {}
  /\ cmdProperty \in {hint, None}
  /\ call = [c \in Call |-> [pc |-> "new", left |-> <<>>, n |-> 0,
                             sentAny |-> FALSE, lastError |-> FALSE]]
  /\ posts = [c \in Call |-> {}]
  /\ relayed = [c \in Call |-> 0]
  /\ unheard = [c \in Call |-> 0]

-----------------------------------------------------------------------------

AttemptList(p) ==
  CASE p = "data_request" -> <<DataBare, DataSigned>>
    [] p = "app_data_request" -> <<Signed>>
    [] p = None -> <<Signed, DataBare, DataSigned>>

\* The list is drawn up when the attempt begins and not looked at again when
\* another thread finds out the property.
BeginAttempt(c) ==
  /\ call[c].pc \in {"new", "asleep"}
  /\ call' = [call EXCEPT ![c] = [pc |-> "posting", left |-> AttemptList(cmdProperty),
                                  n |-> @.n + 1, sentAny |-> FALSE, lastError |-> FALSE]]
  /\ UNCHANGED <<machineVars, cmdProperty, history>>

Posting(c) == call[c].pc = "posting" /\ call[c].left # <<>>

Shown(c) == Head(call[c].left)
ShapesAfter(c) == Tail(call[c].left)

\* The same property is listed again, with the other shape.
ListedAgain(c) == \E i \in DOMAIN ShapesAfter(c) : ShapesAfter(c)[i][1] = Shown(c)[1]

Relay(c, heard) ==
  IF Shown(c) = acts
  THEN /\ relayed' = [relayed EXCEPT ![c] = @ + 1]
       /\ unheard' = [unheard EXCEPT ![c] = @ + (IF heard THEN 0 ELSE 1)]
  ELSE UNCHANGED <<relayed, unheard>>

\* HTTP 201: the last shape of this property is the answer.
Accepted(c) ==
  /\ Posting(c)
  /\ Shown(c)[1] \in existing
  /\ posts' = [posts EXCEPT ![c] = @ \cup {Shown(c)}]
  /\ Relay(c, TRUE)
  /\ call' = [call EXCEPT ![c].left = ShapesAfter(c),
                          ![c].sentAny = TRUE,
                          ![c].pc = IF ListedAgain(c) THEN @ ELSE "true"]
  /\ UNCHANGED <<machineVars, cmdProperty>>

\* HTTP 404 on app_data_request proves data_request, for a model of unknown routing.
MutProves(p) == cmdProperty = None
Proves(p) == p = "app_data_request" /\ cmdProperty = None

NotFound(c) ==
  /\ Posting(c)
  /\ Shown(c)[1] \notin existing
  /\ cmdProperty' = IF Proves(Shown(c)[1]) THEN "data_request" ELSE cmdProperty
  /\ call' = [call EXCEPT ![c].left = ShapesAfter(c)]
  /\ UNCHANGED <<machineVars, history>>

Refused(c) ==
  /\ Posting(c)
  /\ call' = [call EXCEPT ![c].left = ShapesAfter(c), ![c].lastError = TRUE]
  /\ UNCHANGED <<machineVars, cmdProperty, history>>

\* A timeout or a dropped connection, before the cloud had the datapoint or after.
Lost(c, delivered) ==
  /\ Posting(c)
  /\ call' = [call EXCEPT ![c].left = ShapesAfter(c), ![c].lastError = TRUE]
  /\ delivered => Shown(c)[1] \in existing
  /\ IF delivered THEN Relay(c, FALSE) ELSE UNCHANGED <<relayed, unheard>>
  /\ UNCHANGED <<machineVars, cmdProperty, posts>>

TriesLeft(c) == call[c].n < RETRY_COUNT

MutOutcome(c) ==
  CASE call[c].lastError -> IF TriesLeft(c) THEN "asleep" ELSE "failed"
    [] ~call[c].lastError /\ call[c].sentAny -> "true"
    [] ~call[c].lastError /\ ~call[c].sentAny -> "unsupported"

\* What the call does when the list is used up.
Outcome(c) ==
  CASE call[c].sentAny -> "true"
    [] ~call[c].sentAny /\ call[c].lastError -> IF TriesLeft(c) THEN "asleep" ELSE "failed"
    [] ~call[c].sentAny /\ ~call[c].lastError -> "unsupported"

Conclude(c) ==
  /\ call[c].pc = "posting"
  /\ call[c].left = <<>>
  /\ call' = [call EXCEPT ![c].pc = Outcome(c)]
  /\ UNCHANGED <<machineVars, cmdProperty, history>>

\* get_devices learns the model's name and routes by it.
Backfill ==
  /\ hint # None
  /\ cmdProperty # hint
  /\ cmdProperty' = hint
  /\ UNCHANGED <<machineVars, call, history>>

SendStep(c) ==
  \/ BeginAttempt(c) \/ Accepted(c) \/ NotFound(c) \/ Refused(c) \/ Conclude(c)
  \/ \E delivered \in BOOLEAN : Lost(c, delivered)

SendNext == Backfill \/ \E c \in Call : SendStep(c)

SendSpec == SendInit /\ [][SendNext]_sendVars

-----------------------------------------------------------------------------
(* Properties.                                                             *)

\* Types; and no call tries its list more than RETRY_COUNT times.
SendTypeOK ==
  /\ existing \subseteq Property
  /\ acts \in Shape
  /\ hint \in Property \cup {None}
  /\ cmdProperty \in Property \cup {None}
  /\ call \in [Call -> Local]
  /\ \A c \in Call : call[c].n <= RETRY_COUNT
  /\ posts \in [Call -> SUBSET Shape]
  /\ relayed \in [Call -> Nat]
  /\ unheard \in [Call -> Nat]

\* A machine is given one command once, and once more only for every time that
\* the answer to its POST was lost on the way back: none of the retries, and of
\* the shapes sent side by side, repeats a command the client knew accepted.
DuplicatesArePaidFor == \A c \in Call : relayed[c] <= unheard[c] + 1

\* A command is given up as unsupported by the model only when it is: whatever
\* a thread concludes from a 404 is true for the others too.
UnsupportedIsTrue == \A c \in Call : call[c].pc = "unsupported" => existing = {}

\* Claim (api.py: "sends BOTH shapes back-to-back - each firmware acts on
\* exactly one"): a command that succeeded was accepted in the shape that the
\* firmware acts on, on the property it succeeded on.
SuccessReachesMachine ==
  \A c \in Call :
    call[c].pc = "true" /\ (\A s \in posts[c] : s[1] = acts[1]) => acts \in posts[c]

\* Claim (api.py: "brew/power commands are single-shot by nature"): one call
\* has the machine act once at most.
SingleShot == \A c \in Call : relayed[c] <= 1

=============================================================================
