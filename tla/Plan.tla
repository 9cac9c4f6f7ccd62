-------------------------------- MODULE Plan --------------------------------
(* What a plan must be like to be run: what Setup computes before a run, and  *)
(* Scheduler takes for granted of the plan it executes.                       *)

CONSTANTS
  Commands,
  Timed,    \* the commands with a begin
  Starters, \* of each command those whose end starts it
  Stoppers, \* of each command those whose end stops it
  Bg,       \* the commands with program.bg
  Limited,  \* those with a max_duration
  HasStop   \* those with program.stop

(* No commands wait for each other, however indirectly: of any set of them    *)
(* there is one that waits for none of the set.                               *)
Acyclic ==
  \A S \in (SUBSET Commands) \ {{}} : \E c \in S : (Starters[c] \cup Stoppers[c]) \cap S = {}

(* ShRemote.validate: each command has something that starts it, none waits   *)
(* for itself, and a background program that has an end can be stopped.       *)
Validated ==
  /\ \A c \in Commands : c \in Timed \/ Starters[c] # {}
  /\ Acyclic
  /\ Bg \cap Limited \subseteq HasStop
=============================================================================
