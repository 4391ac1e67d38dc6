---------------------------- MODULE CommandChannel ----------------------------
(***************************************************************************)
(* What a command path promises its caller, whatever carries it: commands  *)
(* are numbered in the order they are accepted, and the machine executes   *)
(* some of them, each at most once and never after a later one.  A command *)
(* may be lost; nothing is executed that was not accepted.                 *)
(***************************************************************************)
EXTENDS Naturals

VARIABLES
  accepted,  \* how many commands the path has taken
  lastRun,   \* the last command the machine executed, 0 before the first
  runs       \* how many times it has executed one

Init ==
  /\ accepted = 0
  /\ lastRun = 0
  /\ runs = 0

Accept ==
  /\ accepted' = accepted + 1
  /\ UNCHANGED <<lastRun, runs>>

Execute ==
  /\ lastRun' \in (lastRun + 1) .. accepted
  /\ runs' = runs + 1
  /\ UNCHANGED accepted

Next == Accept \/ Execute

Spec == Init /\ [][Next]_<<accepted, lastRun, runs>>
=============================================================================
