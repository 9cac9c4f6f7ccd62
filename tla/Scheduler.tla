----------------------------- MODULE Scheduler -----------------------------
(* The scheduler of Shremote (src/Shremote/shremote.py): ShRemote starts      *)
(* commands on remote hosts at their times, or when another command has       *)
(* ended, stops them, and at the end stops and kills what is left. The main   *)
(* thread runs beside one monitor thread for each program it has started;     *)
(* they share the event and `exited` of each program. A monitor thread is     *)
(* RemoteProcess, cut down to what the main thread sees of it. Around that,   *)
(* ShRemote.run prepares the hosts and fetches the logs.                      *)
(*                                                                            *)
(* A command has one host here, and each phase one local program. Time is in  *)
(* seconds from min_begin on.                                                 *)
EXTENDS Integers, Sequences, FiniteSets, SequencesExt

CONSTANTS
  None,
  Commands,
  Order,      \* the commands in the order of the configuration
  Begin,      \* begin of each command, or None
  MaxDur,     \* max_duration, or None
  StartAfter, \* the command whose end starts it, or None
  StopAfter,  \* the command whose end stops it, or None
  Bg,         \* the commands with program.bg
  HasStop,    \* the commands with program.stop
  MaxStops,   \* stops_attempted
  MaxTime     \* bound of the model: the clock stops here, and all is due

Timed == {c \in Commands : Begin[c] # None}

P == INSTANCE Plan WITH
  Starters <- [c \in Commands |-> {StartAfter[c]} \ {None}],
  Stoppers <- [c \in Commands |-> {StopAfter[c]} \ {None}],
  Limited <- {c \in Commands : MaxDur[c] # None}

(* The plan is one that Setup accepts. Of begin and start_after the code       *)
(* takes both as well; here it is one.                                        *)
ASSUME SchedulerAssumption ==
  /\ IsFiniteSet(Commands)
  /\ Order \in [1 .. Cardinality(Commands) -> Commands]
  /\ Commands = {Order[i] : i \in DOMAIN Order}
  /\ Begin \in [Commands -> Nat \cup {None}] /\ MaxDur \in [Commands -> Nat \cup {None}]
  /\ StartAfter \in [Commands -> Commands \cup {None}]
  /\ StopAfter \in [Commands -> Commands \cup {None}]
  /\ P!Validated
  /\ \A c \in Commands : Begin[c] = None \/ StartAfter[c] = None
  /\ \E c \in Commands : Begin[c] # None /\ Begin[c] <= MaxTime
  /\ Bg \subseteq Commands /\ HasStop \subseteq Commands
  /\ MaxStops \in Nat /\ MaxTime \in Nat

VARIABLES
  now,
  event,     \* self.event: an error anywhere, or Ctrl-C
  pc,        \* where the main thread is
  todo,      \* what is left of the list it walks through
  nxt,       \* next_command
  wake,      \* when its sleep is over
  cur, ret,  \* the command it waits for (ssh), and where it goes on
  tries,     \* stops_attempted
  started, started_time, stopped,  \* of each command
  job,       \* the program and its monitor thread
  told, killed, \* history: a stop command has reached it; kill -9 was tried
  unprepared,   \* history: a phase before the commands has failed
  left          \* history: the phases whose local program was left running

mainVars == <<pc, todo, nxt, wake, cur, ret, tries>>
cmdVars  == <<started, started_time, stopped>>
phases   == <<unprepared, left>>
svars    == <<now, event, mainVars, cmdVars, job, told, killed, phases>>

(* "none"; "conn"ecting; "failed" to connect; "up"; "seen": proc.exited is    *)
(* TRUE, and the end is not judged yet; "over": the thread has ended too;     *)
(* "lost": it has ended before its program, or unaware of the end.            *)
Jobs == {"none", "conn", "failed", "up", "seen", "over", "lost"}

Entries == [time : Nat, stop : BOOLEAN, cmd : Commands]

STypeOK ==
  /\ now \in 0 .. MaxTime /\ event \in BOOLEAN
  /\ pc \in {"delete", "mkdirs", "init", "copy", "run", "logs", "post", "done",
             "raised", "top", "deps", "listStarts", "starting", "listStops", "stopping",
             "pick", "sleep", "wait", "recheck", "do", "join", "exec", "drain",
             "drainSleep", "stopAll", "more", "stopMore", "kill"}
  /\ todo \in Seq(Commands) /\ nxt \in Entries \cup {None}
  /\ wake \in Nat /\ cur \in Commands \cup {None} /\ tries \in 0 .. MaxStops + 1
  /\ started \in [Commands -> BOOLEAN] /\ stopped \in [Commands -> BOOLEAN]
  /\ started_time \in [Commands -> 0 .. MaxTime]
  /\ job \in [Commands -> Jobs]
  /\ told \in [Commands -> BOOLEAN] /\ killed \in [Commands -> BOOLEAN]
  /\ \A c \in Commands : started[c] <=> job[c] # "none"
  /\ unprepared \in BOOLEAN /\ left \subseteq {"init", "copy", "post"}

Reached(t) == now >= t \/ now = MaxTime

SInit ==
  /\ now = Begin[CHOOSE c \in Timed : \A d \in Timed : Begin[c] <= Begin[d]]
  /\ event = FALSE
  /\ pc \in {"delete", "mkdirs"} /\ todo = <<>> /\ nxt = None /\ wake = 0 /\ cur = None /\ ret = "top"
  /\ tries = 0
  /\ started = [c \in Commands |-> FALSE] /\ stopped = started
  /\ started_time = [c \in Commands |-> 0]
  /\ job = [c \in Commands |-> "none"]
  /\ told = started /\ killed = started
  /\ unprepared = FALSE /\ left = {}

-----------------------------------------------------------------------------
(* ShCommand.exited: a background command has exited when it has been         *)
(* stopped, any other when its program has.                                   *)
Exited(c)  == IF c \in Bg THEN stopped[c] ELSE job[c] \in {"seen", "over"}
Alive(c)   == started[c] /\ ~Exited(c)
HasEnded(c) == started[c] /\ Exited(c)

Unfinished == \E c \in Commands : ~started[c] \/ ~Exited(c)
AnyRunning == \E c \in Commands : Alive(c)

ReadyStart(c) == StartAfter[c] # None /\ HasEnded(StartAfter[c]) /\ ~started[c]

(* Mutant: the trigger need not have ended.                                   *)
ReadyStopEarly(c) == StopAfter[c] # None /\ started[StopAfter[c]] /\ Alive(c)

ReadyStop(c) == StopAfter[c] # None /\ HasEnded(StopAfter[c]) /\ Alive(c)

Waiting == \E c \in Commands : ReadyStart(c) \/ ReadyStop(c)

End(c) == IF MaxDur[c] = None THEN None
          ELSE IF Begin[c] # None THEN Begin[c] + MaxDur[c]
          ELSE IF started[c] THEN started_time[c] + MaxDur[c] ELSE None

(* next_commands: the starts that are not done, the ends of the plan, and the *)
(* ends of the commands that others have started.                             *)
NextCommands ==
  {[time |-> Begin[c], stop |-> FALSE, cmd |-> c] :
     c \in {d \in Timed : ~started[d]}}
  \cup {[time |-> End(c), stop |-> TRUE, cmd |-> c] :
          c \in {d \in Commands : End(d) # None /\ ~stopped[d]}}

(* Mutant: not sorted.                                                        *)
AnyOf(entries) == entries

(* Of entries of the same time the code takes the first of the configuration; *)
(* either is taken here.                                                      *)
Earliest(entries) == {e \in entries : \A f \in entries : e.time <= f.time}

(* ShCommand.start. A background program is joined: the main thread waits for *)
(* its launcher to end.                                                       *)
Start(c, next) ==
  /\ started' = [started EXCEPT ![c] = TRUE]
  /\ started_time' = [started_time EXCEPT ![c] = now]
  /\ job' = [job EXCEPT ![c] = "conn"]
  /\ IF c \in Bg THEN pc' = "join" /\ cur' = c /\ ret' = next
                 ELSE pc' = next /\ UNCHANGED <<cur, ret>>
  /\ nxt' = None
  /\ UNCHANGED <<now, event, wake, tries, stopped, told, killed, phases>>

(* ShCommand.stop. An exited program is only joined; else the stop command, or *)
(* kill -9 at the very end, is run over ssh and waited for.                   *)
Stop(c, next, kill) ==
  /\ IF c \notin Bg /\ Exited(c)
       THEN job[c] = "over" /\ pc' = next /\ stopped' = [stopped EXCEPT ![c] = TRUE]
            /\ UNCHANGED <<cur, ret>>
     ELSE IF kill \/ c \in HasStop
       THEN pc' = "exec" /\ cur' = c /\ ret' = next /\ UNCHANGED stopped
       ELSE pc' = next /\ stopped' = [stopped EXCEPT ![c] = TRUE]
            /\ UNCHANGED <<cur, ret>>
  /\ nxt' = None
  /\ UNCHANGED <<now, event, wake, tries, started, started_time, job, told, killed, phases>>

Joined ==
  /\ pc = "join" /\ job[cur] \in {"over", "failed", "lost"}
  /\ pc' = ret /\ cur' = None /\ ret' = "top"
  /\ UNCHANGED <<now, event, todo, nxt, wake, tries, cmdVars, job, told, killed, phases>>

ExecutedThen(mark) ==
  /\ pc = "exec" /\ pc' = ret /\ cur' = None /\ ret' = "top"
  /\ stopped' = [stopped EXCEPT ![cur] = mark]
  /\ \E t \in {told[cur], TRUE} : told' = [told EXCEPT ![cur] = t]
  /\ killed' = [killed EXCEPT ![cur] = @ \/ ret = "kill"]
  /\ UNCHANGED <<now, event, todo, nxt, wake, tries, started, started_time, job,
                 phases>>

(* Mutant: only a stop command that had an effect would count, and none does. *)
ExecutedUnmarked == ExecutedThen(FALSE)

(* The stop command has ended: it may have had no effect, for it has no event *)
(* to set and its exit code is not looked at.                                 *)
Executed == ExecutedThen(TRUE)

-----------------------------------------------------------------------------
(* On to the next point; locals it has no use for are forgotten.              *)
Go(next) ==
  /\ pc' = next /\ wake' = 0
  /\ nxt' = IF next \in {"sleep", "do"} THEN nxt ELSE None
  /\ UNCHANGED <<now, event, cur, ret, tries, cmdVars, job, told, killed, phases>>

(* Mutant: the commands are run whatever happened before.                     *)
RunAnyway == pc = "run" /\ Go("top") /\ UNCHANGED todo

(* run_commands: nothing is run when the event is set already.                *)
Run == pc = "run" /\ Go(IF event THEN "logs" ELSE "top") /\ UNCHANGED todo

(* wait_iter_commands: its two loops, and the walk through the dependents     *)
(* that are to be started, then of those to be stopped. They are listed by    *)
(* the command they wait for; any order is taken here.                        *)
Top  == pc = "top" /\ Go(IF Unfinished THEN "deps" ELSE "drain") /\ UNCHANGED todo
Deps == pc = "deps" /\ Go(IF Waiting THEN "listStarts" ELSE "pick") /\ UNCHANGED todo

ListStarts == pc = "listStarts" /\ todo' \in SetToSeqs({c \in Commands : ReadyStart(c)}) /\ Go("starting")
ListStops  == pc = "listStops" /\ todo' \in SetToSeqs({c \in Commands : ReadyStop(c)}) /\ Go("stopping")

StartDependent ==
  /\ pc = "starting"
  /\ IF todo = <<>> THEN Go("listStops") /\ UNCHANGED todo
     ELSE /\ todo' = Tail(todo)
          /\ IF started[Head(todo)] THEN Go("starting") ELSE Start(Head(todo), "starting")

StopDependent ==
  /\ pc = "stopping"
  /\ IF todo = <<>> THEN Go("deps") /\ UNCHANGED todo
     ELSE todo' = Tail(todo) /\ Stop(Head(todo), "stopping", FALSE)

(* With nothing left in the plan the loop turns without a pause, and without  *)
(* a look at the event (line 809).                                            *)
Pick ==
  /\ pc = "pick"
  /\ IF NextCommands = {} THEN pc' = "top" /\ UNCHANGED nxt
     ELSE pc' = "sleep" /\ nxt' \in Earliest(NextCommands)
  /\ UNCHANGED <<now, event, todo, wake, cur, ret, tries, cmdVars, job, told, killed, phases>>

Pause(next) ==
  /\ pc' = next /\ wake' = now + 1
  /\ UNCHANGED <<now, event, todo, nxt, cur, ret, tries, cmdVars, job, told, killed, phases>>

(* sleep_for: what is due is done, event or not; else a second is waited, and *)
(* an event, the end of all, or a dependent that waits, ends the sleep.       *)
Sleep ==
  /\ pc = "sleep"
  /\ IF Reached(nxt.time) THEN Go("do") /\ UNCHANGED todo ELSE Pause("wait")

Woken ==
  /\ pc = "wait" /\ (event \/ Reached(wake))
  /\ Go(IF event \/ ~Unfinished \/ Waiting THEN "recheck" ELSE "sleep")
  /\ UNCHANGED todo

(* Mutant: no second look.                                                    *)
RecheckNothing == pc = "recheck" /\ Go("drain") /\ UNCHANGED todo

(* Line 818: why the sleep ended is not known here, and looked up again.      *)
Recheck == pc = "recheck" /\ Go(IF Waiting THEN "top" ELSE "drain") /\ UNCHANGED todo

Do ==
  /\ pc = "do" /\ UNCHANGED todo
  /\ IF nxt.stop THEN Stop(nxt.cmd, "top", FALSE)
     ELSE IF started[nxt.cmd] THEN Go("top") ELSE Start(nxt.cmd, "top")

-----------------------------------------------------------------------------
(* After the plan: wait for the commands, or for the event; stop what runs;   *)
(* try that again some times; kill.                                           *)
Drain ==
  /\ pc = "drain"
  /\ IF AnyRunning THEN Pause("drainSleep") ELSE todo' = Order /\ Go("stopAll")

DrainSleep ==
  /\ pc = "drainSleep" /\ Reached(wake)
  /\ IF event THEN todo' = Order /\ Go("stopAll") ELSE Go("drain") /\ UNCHANGED todo

Walk(here, kill) ==
  /\ todo # <<>> /\ todo' = Tail(todo)
  /\ IF Alive(Head(todo)) THEN Stop(Head(todo), here, kill) ELSE Go(here)

StopAll ==
  /\ pc = "stopAll"
  /\ Walk("stopAll", FALSE) \/ (todo = <<>> /\ Go("more") /\ UNCHANGED todo)

More == pc = "more" /\ todo' = Order /\ Go(IF AnyRunning THEN "stopMore" ELSE "kill")

StopMoreTo(after, attempts) ==
  /\ pc = "stopMore"
  /\ \/ Walk("stopMore", FALSE)
     \/ /\ todo = <<>> /\ tries' = tries + 1
        /\ IF tries' > attempts THEN pc' = after /\ todo' = Order
                                ELSE pc' = "more" /\ UNCHANGED todo
        /\ UNCHANGED <<now, event, nxt, wake, cur, ret, cmdVars, job, told, killed, phases>>

(* Mutants: given up without the kill; an attempt too many.                   *)
StopMoreGivesUp == StopMoreTo("logs", MaxStops)
StopMoreAgain   == StopMoreTo("kill", MaxStops + 1)

StopMore == StopMoreTo("kill", MaxStops)

Kill ==
  /\ pc = "kill"
  /\ Walk("kill", TRUE) \/ (todo = <<>> /\ Go("logs") /\ UNCHANGED todo)

-----------------------------------------------------------------------------
(* ShRemote.run around the commands. mk_remote_dirs has an event of its own,  *)
(* and raises; get_logs has one that nothing sets, but raises when a local    *)
(* copy fails.                                                                *)
OrRaise(here, next) ==
  /\ pc = here /\ pc' \in {next, "raised"}
  /\ UNCHANGED <<now, event, todo, nxt, wake, cur, ret, tries, cmdVars, job, told,
                 killed, phases>>

(* With --delete-remote the old logs go first; Ctrl-C, or a failure, ends it. *)
DeleteLogs ==
  /\ pc = "delete" /\ event' \in {event, TRUE}
  /\ pc' = IF event' THEN "raised" ELSE "mkdirs"
  /\ UNCHANGED <<now, todo, nxt, wake, cur, ret, tries, cmdVars, job, told, killed,
                 phases>>

MakeDirs == OrRaise("mkdirs", "init")
GetLogs  == OrRaise("logs", "post")

(* Init commands, copies and post commands are local programs, watched by     *)
(* LocalProcess: one that fails sets the event before join returns; and once  *)
(* the event is set the watch is over, and join returns, with the program     *)
(* still running.                                                             *)
LocalPhase(here, next) ==
  /\ pc = here /\ pc' = next
  /\ \/ UNCHANGED <<event, phases>>
     \/ event' = TRUE /\ unprepared' = (unprepared \/ here # "post") /\ UNCHANGED left
     \/ event /\ left' = left \cup {here} /\ UNCHANGED <<event, unprepared>>
  /\ UNCHANGED <<now, todo, nxt, wake, cur, ret, tries, cmdVars, job, told, killed>>

InitCmds  == LocalPhase("init", "copy")
CopyFiles == LocalPhase("copy", "run")
PostCmds  == LocalPhase("post", "done")

Phase == DeleteLogs \/ MakeDirs \/ InitCmds \/ CopyFiles \/ GetLogs \/ PostCmds

(* The main thread, where it does not wait for a local program or for ssh.    *)
Proceeds ==
  \/ Run \/ Top \/ Deps \/ ListStarts \/ StartDependent \/ ListStops \/ StopDependent
  \/ Pick \/ Sleep \/ Woken \/ Recheck \/ Do \/ Joined
  \/ Drain \/ DrainSleep \/ StopAll \/ More \/ StopMore \/ Kill

Main == Phase \/ Executed \/ Proceeds

-----------------------------------------------------------------------------
(* The monitor threads and the programs (RemoteProcess).                      *)
Job(c, from, to) ==
  /\ job[c] = from /\ job' = [job EXCEPT ![c] = to]
  /\ UNCHANGED <<now, mainVars, cmdVars, told, killed, phases>>

Connects(c) == \/ Job(c, "conn", "up") /\ UNCHANGED event
               \/ Job(c, "conn", "failed") /\ event' = TRUE

(* The program ends and poll sets `exited`; what that means for the event is  *)
(* judged afterwards.                                                         *)
Ends(c)   == Job(c, "up", "seen") /\ UNCHANGED event
Judges(c) == Job(c, "seen", "over") /\ event' \in {event, TRUE}

(* max_duration is the monitor's business when the program has no stop.       *)
Overruns(c) ==
  /\ c \notin HasStop /\ MaxDur[c] # None /\ ~event
  /\ Reached(started_time[c] + MaxDur[c])
  /\ Job(c, "up", "up") /\ event' = TRUE

(* Output that cannot be decoded sets the event, though nothing has failed,   *)
(* and may end a thread that waits with the event set.                        *)
Garbles(c) == Job(c, "up", "up") /\ event' = TRUE
Loses(c)   == Job(c, "up", "lost") /\ event /\ UNCHANGED event

Thread(c) == \/ Connects(c) \/ Ends(c) \/ Judges(c)
             \/ Overruns(c) \/ Garbles(c) \/ Loses(c)

Interrupt ==
  /\ ~event /\ event' = TRUE
  /\ UNCHANGED <<now, mainVars, cmdVars, job, told, killed, phases>>

(* The main thread is prompt: time passes while it waits, which for a program *)
(* or a stop command may take long, and while it turns in its loop.           *)
Clock ==
  /\ \/ pc \in {"wait", "join", "exec", "drainSleep"}
     \/ pc = "top" /\ NextCommands = {}
  /\ now < MaxTime /\ now' = now + 1
  /\ UNCHANGED <<event, mainVars, cmdVars, job, told, killed, phases>>

SNext == Main \/ Interrupt \/ Clock \/ \E c \in Commands : Thread(c)

SSpec == SInit /\ [][SNext]_svars

(* The main thread and the monitor threads run, and time passes. No host need *)
(* answer, no program need end, on a host or here, and no stop command.       *)
SFair == /\ SSpec /\ WF_svars(Proceeds) /\ WF_svars(Clock)
         /\ \A c \in Commands : WF_svars(Judges(c))
-----------------------------------------------------------------------------
(* The plan is executed in its order, however late it is.                     *)
PlanInOrder ==
  \A c, d \in Timed : (Begin[c] < Begin[d] /\ started[d]) => started[c]

(* No command is told to end before its time, or before the command it waits  *)
(* for has ended, unless something has failed (lines 787-820, 850-869).       *)
StopsAreDue ==
  \A c \in Commands : told[c] =>
    \/ event
    \/ StopAfter[c] # None /\ HasEnded(StopAfter[c])
    \/ End(c) # None /\ Reached(End(c))

(* No command is started when a phase before has failed, or has left a        *)
(* program of its own running (lines 881-884, 823).                           *)
PreparedFirst ==
  unprepared \/ left \cap {"init", "copy"} # {} => \A c \in Commands : ~started[c]

(* When run_commands returns, each command it has started has exited, or kill *)
(* -9 was tried on it (lines 839-869). What it takes for exited: a background *)
(* program counts from its stop on, whatever became of it.                    *)
NothingLeftRunning ==
  pc \in {"logs", "post", "done"} => \A c \in Commands : Alive(c) => killed[c]

(* A run that reports success (line 891) has started every command. So it is  *)
(* in a plan where each stop_after names a command that also starts one, or   *)
(* that is the last of the plan; not in every plan: when a command to be      *)
(* stopped after another ends by itself between the two looks at it (lines    *)
(* 783 and 818), the rest of the plan is dropped without a word.              *)
CompleteUnlessHalted ==
  (pc = "done" /\ ~event) => \A c \in Commands : started[c]

(* Where the main thread waits for a command to end: for the launcher of one  *)
(* in the background; in the inner loop, which tries to stop a dependent that *)
(* has not ended again and again (lines 789-793); in the outer loop, without  *)
(* a pause, when the plan is done (line 809); and after the plan (lines       *)
(* 839-848), where alone it looks at the event.                               *)
WaitsFor(c) ==
  /\ Alive(c)
  /\ \/ pc = "join" /\ cur = c
     \/ pc \in {"deps", "listStarts", "starting", "listStops", "stopping"} /\ ReadyStop(c)
     \/ pc \in {"top", "deps", "pick"} /\ NextCommands = {}
     \/ pc \in {"drain", "drainSleep"} /\ ~event

(* The run ends, or the main thread waits for ever in one of these places, or *)
(* for a local program or a stop command: nothing else holds it up, neither   *)
(* an error nor what the plan still has to do.                                *)
RunEnds ==
  \/ <>(pc \in {"done", "raised"})
  \/ <>[](\/ pc \in {"delete", "mkdirs", "init", "copy", "logs", "post", "exec"}
          \/ \E c \in Commands : WaitsFor(c))
=============================================================================
