---------------------------- MODULE MCScheduler ----------------------------
(* Small configurations for TLC, of the kind of clients.yml: a load program,  *)
(* a server stopped after it, a background program started after it, and a    *)
(* command later in the plan.                                                 *)
EXTENDS Scheduler

CONSTANTS load, server, collect, late

MCCommands == {load, server, collect, late}
MCOrder == <<load, server, collect, late>>
MCNone == [c \in MCCommands |-> None]
MCBegin == [MCNone EXCEPT ![load] = 0, ![server] = 0, ![late] = 2]
MCMaxDur == [MCNone EXCEPT ![collect] = 1, ![late] = 1]
MCStartAfter == [MCNone EXCEPT ![collect] = load]
MCStopAfter == [MCNone EXCEPT ![server] = load]
MCBg == {collect}
MCHasStop == {server, collect}

(* Without the background program: a server stopped after the load.           *)
ThreeCommands == {load, server, late}
ThreeOrder == <<load, server, late>>
ThreeNone == [c \in ThreeCommands |-> None]
ThreeBegin == [ThreeNone EXCEPT ![load] = 0, ![server] = 0, ![late] = 2]
ThreeStopAfter == [ThreeNone EXCEPT ![server] = load]
=============================================================================
