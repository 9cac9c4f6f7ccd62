-------------------------- MODULE SchedulerProofs --------------------------
(* Theorems about the scheduler, for every plan it accepts, whatever the      *)
(* programs, the connections and the user do.                                 *)
EXTENDS Scheduler, FiniteSetTheorems, WellFoundedInduction, TLAPS

Returns == {"top", "starting", "stopping", "stopAll", "stopMore", "kill"}

(* What the main thread has at hand at its points.                            *)
PointInv ==
  /\ ret \in Returns
  /\ pc \in {"sleep", "wait", "do"} => nxt \in Entries
  /\ pc \in {"join", "exec"} => cur \in Commands
  /\ pc = "join" => ret \in {"top", "starting"}
  /\ pc = "exec" => ret # "starting"
  /\ tries > MaxStops =>
       pc \in {"kill", "logs", "post", "done", "raised"} \/ (pc = "exec" /\ ret = "kill")

(* Before the commands; and after them when they were not run.                *)
PhaseInv ==
  /\ pc \in {"delete", "mkdirs", "init", "copy", "run"} => \A c \in Commands : ~started[c]
  /\ unprepared \/ left \cap {"init", "copy"} # {} =>
       /\ event /\ pc \in {"copy", "run", "logs", "post", "done", "raised"}
       /\ \A c \in Commands : ~started[c]

Planned(e) ==
  IF e.stop THEN End(e.cmd) # None /\ End(e.cmd) = e.time
  ELSE /\ e.cmd \in Timed /\ e.time = Begin[e.cmd]
       /\ \A c \in Timed : ~started[c] => e.time <= Begin[c]

(* The entry picked is still what it was, and no start of the plan is before  *)
(* it; the dependents that are to be started are not of the plan.             *)
PlanInv ==
  /\ pc \in {"sleep", "wait", "do"} => Planned(nxt)
  /\ pc = "do" => Reached(nxt.time)
  /\ pc = "starting" \/ (pc = "join" /\ ret = "starting") =>
       \A i \in 1 .. Len(todo) : todo[i] \notin Timed

(* Why a command may be told to end.                                          *)
Due(c) ==
  \/ event
  \/ StopAfter[c] # None /\ HasEnded(StopAfter[c])
  \/ End(c) # None /\ Reached(End(c))

Ending == {"stopAll", "stopMore", "kill"}

Triggered == {c \in Commands : StopAfter[c] # None /\ HasEnded(StopAfter[c])}

(* Whatever is being stopped is due: it is one of the dependents, it is in    *)
(* the plan, or after the plan, when nothing runs any more or something has   *)
(* failed.                                                                    *)
StopInv ==
  /\ pc = "exec" => Due(cur)
  /\ pc = "stopping" \/ (pc = "exec" /\ ret = "stopping") =>
       \A i \in 1 .. Len(todo) : todo[i] \in Triggered
  /\ pc \in Ending \cup {"more"} \/ (pc = "exec" /\ ret \in Ending) => event \/ ~AnyRunning
  /\ StopsAreDue

(* The last walk: who still runs has been sent kill -9, or is still to come.  *)
KillInv ==
  /\ pc = "kill" \/ (pc = "exec" /\ ret = "kill") =>
       \A c \in Commands : Alive(c) =>
         \/ killed[c]
         \/ \E i \in 1 .. Len(todo) : todo[i] = c
         \/ pc = "exec" /\ cur = c
  /\ NothingLeftRunning

(* The inductive invariant.                                                   *)
SchedulerInv ==
  /\ STypeOK /\ PointInv
  /\ PhaseInv /\ PlanInv /\ PlanInOrder /\ StopInv /\ KillInv

-----------------------------------------------------------------------------
(* The lists the main thread walks through.                                   *)
LEMMA OrderIsList ==
  /\ Order \in Seq(Commands)
  /\ \A c \in Commands : \E i \in 1 .. Len(Order) : Order[i] = c
<1>1. Cardinality(Commands) \in Nat
  BY SchedulerAssumption, FS_CardinalityType
<1>2. Order \in [1 .. Cardinality(Commands) -> Commands]
  BY SchedulerAssumption
<1>3. Order \in Seq(Commands) /\ DOMAIN Order = 1 .. Len(Order)
  BY <1>1, <1>2
<1>4. Commands = {Order[i] : i \in DOMAIN Order}
  BY SchedulerAssumption
<1> QED
  BY <1>3, <1>4

LEMMA ListOfSome ==
  ASSUME NEW S \in SUBSET Commands, NEW s \in SetToSeqs(S)
  PROVE  s \in Seq(Commands) /\ \A i \in 1 .. Len(s) : s[i] \in S
<1>1. IsFiniteSet(S) /\ Cardinality(S) \in Nat
  BY SchedulerAssumption, FS_Subset, FS_CardinalityType
<1>2. s \in [1 .. Cardinality(S) -> S]
  BY DEF SetToSeqs
<1> QED
  BY <1>1, <1>2

LEMMA WalkOn ==
  ASSUME NEW s \in Seq(Commands), s # <<>>
  PROVE  /\ Head(s) \in Commands /\ Tail(s) \in Seq(Commands)
         /\ Head(s) = s[1]
         /\ \A i \in 1 .. Len(Tail(s)) : i + 1 \in 1 .. Len(s) /\ Tail(s)[i] = s[i + 1]
         /\ \A i \in 1 .. Len(s) : s[i] = Head(s) \/ \E k \in 1 .. Len(Tail(s)) : Tail(s)[k] = s[i]
<1>1. Len(s) \in Nat \ {0} /\ Len(Tail(s)) = Len(s) - 1 /\ Tail(s) \in Seq(Commands) /\ Head(s) = s[1] /\ s[1] \in Commands
  OBVIOUS
<1>2. \A i \in 1 .. Len(Tail(s)) : i + 1 \in 1 .. Len(s) /\ Tail(s)[i] = s[i + 1]
  BY <1>1
<1>3. ASSUME NEW i \in 1 .. Len(s), s[i] # s[1] PROVE \E k \in 1 .. Len(Tail(s)) : Tail(s)[k] = s[i]
  <2>1. i - 1 \in 1 .. Len(Tail(s)) /\ Tail(s)[i - 1] = s[i]
    BY <1>1, <1>2, <1>3
  <2> QED
    BY <2>1
<1> QED
  BY <1>1, <1>2, <1>3

-----------------------------------------------------------------------------
(* Types. What Start, Stop and a walk through the commands do to them.        *)
LEMMA StartTyped ==
  ASSUME SchedulerInv, NEW c \in Commands, NEW next \in {"top", "starting"},
         Start(c, next), todo' \in Seq(Commands)
  PROVE  STypeOK'
<1>1. /\ now' = now /\ event' = event /\ wake' = wake /\ tries' = tries
      /\ UNCHANGED <<stopped, told, killed, unprepared, left>>
  BY DEF Start, phases
<1>2. pc' \in {"join", "top", "starting"} /\ cur' \in Commands \cup {None} /\ nxt' = None
  BY DEF Start, SchedulerInv, STypeOK
<1>3. /\ started' \in [Commands -> BOOLEAN] /\ started_time' \in [Commands -> 0 .. MaxTime]
      /\ job' \in [Commands -> Jobs]
  BY DEF Start, SchedulerInv, STypeOK, Jobs
<1>4. \A d \in Commands : started'[d] <=> job'[d] # "none"
  BY DEF Start, SchedulerInv, STypeOK, Jobs
<1> QED
  BY <1>1, <1>2, <1>3, <1>4 DEF SchedulerInv, STypeOK

LEMMA StopTyped ==
  ASSUME SchedulerInv, NEW c \in Commands, NEW next \in Returns, NEW kill \in BOOLEAN,
         Stop(c, next, kill), todo' \in Seq(Commands)
  PROVE  STypeOK'
<1>1. /\ now' = now /\ event' = event /\ wake' = wake /\ tries' = tries
      /\ UNCHANGED <<started, started_time, job, told, killed, unprepared, left>>
  BY DEF Stop, phases
<1>2. pc' \in Returns \cup {"exec"} /\ cur' \in Commands \cup {None} /\ nxt' = None
  BY DEF Stop, SchedulerInv, STypeOK
<1>3. stopped' \in [Commands -> BOOLEAN]
  BY DEF Stop, SchedulerInv, STypeOK
<1> QED
  BY <1>1, <1>2, <1>3 DEF SchedulerInv, STypeOK, Returns

LEMMA GoTyped ==
  ASSUME SchedulerInv, Go(pc'), todo' \in Seq(Commands),
         pc' \in {"logs", "top", "deps", "listStarts", "starting", "listStops", "stopping",
                  "pick", "sleep", "recheck", "do", "drain", "stopAll", "more",
                  "stopMore", "kill"}
  PROVE  STypeOK'
  BY DEF Go, SchedulerInv, STypeOK, cmdVars, phases

LEMMA WalkTyped ==
  ASSUME SchedulerInv, NEW here \in Ending, NEW kill \in BOOLEAN, Walk(here, kill)
  PROVE  STypeOK'
<1>1. Head(todo) \in Commands /\ todo' \in Seq(Commands)
  BY WalkOn DEF Walk, SchedulerInv, STypeOK
<1>2. CASE Alive(Head(todo))
  BY <1>1, <1>2, StopTyped DEF Walk, Ending, Returns
<1>3. CASE ~Alive(Head(todo))
  <2>1. Go(here) /\ pc' = here
    BY <1>3 DEF Walk, Go
  <2> QED
    BY <1>1, <2>1, GoTyped DEF Ending
<1> QED
  BY <1>2, <1>3

LEMMA EndIsTime ==
  ASSUME STypeOK, NEW c \in Commands, End(c) # None
  PROVE  End(c) \in Nat
<1> USE SchedulerAssumption
<1>1. MaxDur[c] \in Nat
  BY DEF End
<1>2. CASE Begin[c] # None
  BY <1>1, <1>2 DEF End
<1>3. CASE Begin[c] = None
  <2>1. started[c] /\ End(c) = started_time[c] + MaxDur[c] /\ started_time[c] \in 0 .. MaxTime
    BY <1>1, <1>3 DEF End, STypeOK
  <2> QED
    BY <1>1, <2>1
<1> QED
  BY <1>2, <1>3

LEMMA EntriesTyped ==
  ASSUME STypeOK
  PROVE  NextCommands \subseteq Entries
<1> USE SchedulerAssumption
<1>1. ASSUME NEW c \in Timed PROVE Begin[c] \in Nat /\ c \in Commands
  BY DEF Timed
<1>2. ASSUME NEW c \in Commands, End(c) # None PROVE End(c) \in Nat
  BY <1>2, EndIsTime
<1>3. ASSUME NEW c \in Timed PROVE [time |-> Begin[c], stop |-> FALSE, cmd |-> c] \in Entries
  BY <1>1 DEF Entries
<1>4. ASSUME NEW c \in Commands, End(c) # None
      PROVE  [time |-> End(c), stop |-> TRUE, cmd |-> c] \in Entries
  BY <1>2, <1>4 DEF Entries
<1> QED
  BY <1>3, <1>4 DEF NextCommands

LEMMA TypeNext == SchedulerInv /\ [SNext]_svars => STypeOK'
<1> SUFFICES ASSUME SchedulerInv, [SNext]_svars PROVE STypeOK'
  OBVIOUS
<1> USE DEF SchedulerInv
<1>1. CASE DeleteLogs
  <2>1. event' \in BOOLEAN /\ pc' \in {"raised", "mkdirs"}
    BY <1>1 DEF DeleteLogs, STypeOK
  <2> QED
    BY <1>1, <2>1 DEF DeleteLogs, STypeOK, cmdVars, phases
<1>2. CASE MakeDirs \/ GetLogs
  BY <1>2 DEF MakeDirs, GetLogs, OrRaise, STypeOK, cmdVars, phases
<1>3. CASE InitCmds \/ CopyFiles \/ PostCmds
  <2>1. /\ event' \in BOOLEAN /\ unprepared' \in BOOLEAN
        /\ pc' \in {"copy", "run", "done"}
    BY <1>3 DEF InitCmds, CopyFiles, PostCmds, LocalPhase, STypeOK, phases
  <2>2. left' \subseteq {"init", "copy", "post"}
    BY <1>3 DEF InitCmds, CopyFiles, PostCmds, LocalPhase, STypeOK, phases
  <2> QED
    BY <1>3, <2>1, <2>2 DEF InitCmds, CopyFiles, PostCmds, LocalPhase, STypeOK, cmdVars
<1>4. CASE Run \/ Top \/ Deps \/ Recheck
  BY <1>4, GoTyped DEF Run, Top, Deps, Recheck, Go, STypeOK
<1>5. CASE ListStarts \/ ListStops
  <2>1. todo' \in Seq(Commands)
    BY <1>5, ListOfSome DEF ListStarts, ListStops
  <2> QED
    BY <1>5, <2>1, GoTyped DEF ListStarts, ListStops, Go
<1>6. CASE StartDependent
  <2>1. CASE todo = <<>>
    BY <1>6, <2>1, GoTyped DEF StartDependent, Go, STypeOK
  <2>2. CASE todo # <<>>
    <3>0. todo \in Seq(Commands) /\ todo' = Tail(todo)
      BY <1>6, <2>2 DEF StartDependent, STypeOK
    <3>1. Head(todo) \in Commands /\ todo' \in Seq(Commands)
      BY <2>2, <3>0, WalkOn
    <3>2. CASE started[Head(todo)]
      BY <1>6, <2>2, <3>1, <3>2, GoTyped DEF StartDependent, Go
    <3>3. CASE ~started[Head(todo)]
      BY <1>6, <2>2, <3>1, <3>3, StartTyped DEF StartDependent
    <3> QED
      BY <3>2, <3>3
  <2> QED
    BY <2>1, <2>2
<1>7. CASE StopDependent
  <2>1. CASE todo = <<>>
    BY <1>7, <2>1, GoTyped DEF StopDependent, Go, STypeOK
  <2>2. CASE todo # <<>>
    <3>0. todo \in Seq(Commands) /\ todo' = Tail(todo)
      BY <1>7, <2>2 DEF StopDependent, STypeOK
    <3>1. Head(todo) \in Commands /\ todo' \in Seq(Commands)
      BY <2>2, <3>0, WalkOn
    <3> QED
      BY <1>7, <2>2, <3>1, StopTyped DEF StopDependent, Returns
  <2> QED
    BY <2>1, <2>2
<1>8. CASE Pick
  <2>1. pc' \in {"top", "sleep"} /\ nxt' \in Entries \cup {None}
    BY <1>8, EntriesTyped DEF Pick, Earliest, STypeOK
  <2> QED
    BY <1>8, <2>1 DEF Pick, STypeOK, cmdVars, phases
<1>9. CASE Sleep \/ Woken \/ DrainSleep \/ Drain
  <2>1. todo' = todo \/ todo' = Order
    BY <1>9 DEF Sleep, Woken, DrainSleep, Drain, Pause
  <2>2. todo' \in Seq(Commands)
    BY <2>1, OrderIsList DEF STypeOK
  <2>3. now + 1 \in Nat
    BY SchedulerAssumption DEF STypeOK
  <2>4. \/ Go(pc') /\ pc' \in {"do", "recheck", "sleep", "stopAll", "drain"}
        \/ Pause(pc') /\ pc' \in {"wait", "drainSleep"}
    BY <1>9 DEF Sleep, Woken, DrainSleep, Drain, Go, Pause
  <2>5. CASE Go(pc') /\ pc' \in {"do", "recheck", "sleep", "stopAll", "drain"}
    BY <2>2, <2>5, GoTyped
  <2>6. CASE Pause(pc') /\ pc' \in {"wait", "drainSleep"}
    BY <2>2, <2>3, <2>6 DEF Pause, STypeOK, cmdVars, phases
  <2> QED
    BY <2>4, <2>5, <2>6
<1>10. CASE Do
  <2>1. nxt.cmd \in Commands /\ todo' \in Seq(Commands)
    BY <1>10 DEF Do, STypeOK, PointInv, Entries
  <2>2. CASE nxt.stop
    BY <1>10, <2>1, <2>2, StopTyped DEF Do, Returns
  <2>3. CASE ~nxt.stop /\ started[nxt.cmd]
    BY <1>10, <2>1, <2>3, GoTyped DEF Do, Go
  <2>4. CASE ~nxt.stop /\ ~started[nxt.cmd]
    BY <1>10, <2>1, <2>4, StartTyped DEF Do
  <2> QED
    BY <2>2, <2>3, <2>4
<1>11. CASE Joined
  BY <1>11 DEF Joined, PointInv, STypeOK, cmdVars, phases
<1>12. CASE Executed
  <2>1. cur \in Commands /\ pc' \in Returns /\ cur' = None
    BY <1>12 DEF PointInv, Executed, ExecutedThen
  <2>2. stopped' \in [Commands -> BOOLEAN] /\ killed' \in [Commands -> BOOLEAN]
    BY <1>12 DEF STypeOK, Executed, ExecutedThen
  <2>3. told' \in [Commands -> BOOLEAN]
    BY <1>12, <2>1 DEF STypeOK, Executed, ExecutedThen
  <2> QED
    BY <1>12, <2>1, <2>2, <2>3 DEF STypeOK, Executed, ExecutedThen, Returns, phases
<1>13. CASE More
  BY <1>13, OrderIsList, GoTyped DEF More, Go
<1>14. CASE StopMore
  <2>1. CASE todo # <<>>
    BY <1>14, <2>1, WalkTyped DEF StopMore, StopMoreTo, Ending
  <2>2. CASE todo = <<>>
    <3>1. tries' \in 0 .. MaxStops + 1
      BY <1>14, <2>2, SchedulerAssumption DEF StopMore, StopMoreTo, Walk, STypeOK, PointInv
    <3>2. pc' \in {"more", "kill"} /\ todo' \in Seq(Commands)
      BY <1>14, <2>2, OrderIsList DEF StopMore, StopMoreTo, Walk, STypeOK
    <3>3. UNCHANGED <<now, event, nxt, wake, cur, ret, cmdVars, job, told, killed, phases>>
      BY <1>14, <2>2 DEF StopMore, StopMoreTo, Walk
    <3> QED
      BY <3>1, <3>2, <3>3 DEF STypeOK, cmdVars, phases
  <2> QED
    BY <2>1, <2>2
<1>15. CASE StopAll \/ Kill
  <2>1. CASE todo # <<>>
    BY <1>15, <2>1, WalkTyped DEF StopAll, Kill, Ending
  <2>2. CASE todo = <<>>
    BY <1>15, <2>2, GoTyped DEF StopAll, Kill, Walk, Go, STypeOK
  <2> QED
    BY <2>1, <2>2
<1>16. CASE Interrupt
  BY <1>16 DEF Interrupt, STypeOK, mainVars, cmdVars, phases
<1>17. CASE Clock
  <2>1. now' \in 0 .. MaxTime
    BY <1>17, SchedulerAssumption DEF Clock, STypeOK
  <2> QED
    BY <1>17, <2>1 DEF Clock, STypeOK, mainVars, cmdVars, phases
<1>18. ASSUME NEW c \in Commands, Thread(c) PROVE STypeOK'
  <2>1. event' \in {event, TRUE}
    BY <1>18 DEF Thread, Connects, Ends, Judges, Overruns, Garbles, Loses
  <2>2. PICK from \in Jobs \ {"none"}, to \in Jobs \ {"none"} : Job(c, from, to)
    BY <1>18 DEF Thread, Connects, Ends, Judges, Overruns, Garbles, Loses, Jobs
  <2>3. job' \in [Commands -> Jobs] /\ \A d \in Commands : job'[d] # "none" <=> job[d] # "none"
    BY <2>2 DEF Job, STypeOK
  <2>4. UNCHANGED <<now, mainVars, cmdVars, told, killed, phases>>
    BY <1>18 DEF Thread, Connects, Ends, Judges, Overruns, Garbles, Loses, Job
  <2>5. event' \in BOOLEAN
    BY <2>1 DEF STypeOK
  <2> QED
    BY <2>3, <2>4, <2>5 DEF STypeOK, mainVars, cmdVars, phases
<1>19. CASE UNCHANGED svars
  BY <1>19 DEF svars, STypeOK, mainVars, cmdVars, phases
<1> QED
  BY <1>1, <1>2, <1>3, <1>4, <1>5, <1>6, <1>7, <1>8, <1>9, <1>10, <1>11, <1>12, <1>13, <1>14,
     <1>15, <1>16, <1>17, <1>18, <1>19 DEF SNext, Main, Proceeds, Phase

-----------------------------------------------------------------------------
(* What a stop, a walk and a thread change.                                   *)
LEMMA StopEffect ==
  ASSUME NEW c \in Commands, NEW next, NEW kill, Stop(c, next, kill), STypeOK
  PROVE  /\ UNCHANGED <<now, event, tries, started, started_time, job, told, killed, unprepared, left>>
         /\ nxt' = None
         /\ \A d \in Commands : stopped[d] => stopped'[d]
         /\ \/ pc' = next /\ ret' = ret
            \/ pc' = "exec" /\ cur' = c /\ ret' = next
  BY DEF Stop, STypeOK, phases

LEMMA WalkEffect ==
  ASSUME NEW here, NEW kill, Walk(here, kill), STypeOK
  PROVE  /\ UNCHANGED <<now, event, tries, started, started_time, job, told, killed, unprepared, left>>
         /\ nxt' = None \/ nxt' = nxt
         /\ \A d \in Commands : stopped[d] => stopped'[d]
         /\ \/ pc' = here /\ ret' = ret
            \/ pc' = "exec" /\ cur' = Head(todo) /\ ret' = here
         /\ Head(todo) \in Commands
<1>1. Head(todo) \in Commands
  BY WalkOn DEF Walk, STypeOK
<1>2. CASE Alive(Head(todo))
  BY <1>1, <1>2, StopEffect DEF Walk
<1>3. CASE ~Alive(Head(todo))
  BY <1>1, <1>3 DEF Walk, Go, cmdVars, phases
<1> QED
  BY <1>2, <1>3

LEMMA ThreadEffect ==
  ASSUME NEW c \in Commands, Thread(c), STypeOK
  PROVE  /\ UNCHANGED <<now, mainVars, cmdVars, told, killed, phases>>
         /\ event => event'
         /\ \A d \in Commands : job[d] \in {"seen", "over"} => job'[d] \in {"seen", "over"}
  BY DEF Thread, Connects, Ends, Judges, Overruns, Garbles, Loses, Job, STypeOK

LEMMA PointNext == SchedulerInv /\ [SNext]_svars => PointInv'
<1> SUFFICES ASSUME SchedulerInv, [SNext]_svars PROVE PointInv'
  OBVIOUS
<1> USE DEF SchedulerInv
<1>1. ASSUME UNCHANGED <<pc, nxt, cur, ret, tries>> PROVE PointInv'
  BY <1>1 DEF PointInv
<1>2. ASSUME NEW here \in Ending, NEW kill, pc = here, Walk(here, kill) PROVE PointInv'
  <2>1. /\ tries' = tries
        /\ \/ pc' = here /\ ret' = ret
           \/ pc' = "exec" /\ cur' \in Commands /\ ret' = here
    BY <1>2, WalkEffect
  <2> QED
    BY <1>2, <2>1 DEF PointInv, Returns, Ending
<1>3. CASE Phase
  BY <1>3 DEF Phase, DeleteLogs, MakeDirs, InitCmds, CopyFiles, GetLogs, PostCmds, LocalPhase,
              OrRaise, PointInv
<1>4. CASE \/ Run \/ Top \/ Deps \/ ListStarts \/ ListStops \/ Sleep \/ Woken \/ Recheck
           \/ Drain \/ DrainSleep \/ More
  BY <1>4 DEF Run, Top, Deps, ListStarts, ListStops, Sleep, Woken, Recheck, Drain, DrainSleep,
              More, Go, Pause, PointInv
<1>5. CASE StartDependent
  <2>1. CASE todo # <<>> /\ ~started[Head(todo)]
    <3>1. Head(todo) \in Commands
      BY <2>1, WalkOn DEF STypeOK
    <3> QED
      BY <1>5, <2>1, <3>1 DEF StartDependent, Start, PointInv, Returns
  <2>2. CASE ~(todo # <<>> /\ ~started[Head(todo)])
    BY <1>5, <2>2 DEF StartDependent, Go, PointInv
  <2> QED
    BY <2>1, <2>2
<1>6. CASE StopDependent
  <2>1. CASE todo = <<>>
    BY <1>6, <2>1 DEF StopDependent, Go, PointInv
  <2>2. CASE todo # <<>>
    <3>1. Head(todo) \in Commands /\ Stop(Head(todo), "stopping", FALSE) /\ pc = "stopping"
      BY <1>6, <2>2, WalkOn DEF StopDependent, STypeOK
    <3>2. /\ tries' = tries
          /\ \/ pc' = "stopping" /\ ret' = ret
             \/ pc' = "exec" /\ cur' \in Commands /\ ret' = "stopping"
      BY <3>1, StopEffect
    <3> QED
      BY <3>1, <3>2 DEF PointInv, Returns
  <2> QED
    BY <2>1, <2>2
<1>7. CASE Pick
  <2>1. pc' = "sleep" => nxt' \in Entries
    BY <1>7, EntriesTyped DEF Pick, Earliest
  <2> QED
    BY <1>7, <2>1 DEF Pick, PointInv
<1>8. CASE Do
  <2>1. nxt.cmd \in Commands /\ pc = "do"
    BY <1>8 DEF Do, PointInv, Entries
  <2>2. CASE nxt.stop
    <3>1. /\ tries' = tries
          /\ \/ pc' = "top" /\ ret' = ret
             \/ pc' = "exec" /\ cur' \in Commands /\ ret' = "top"
      BY <1>8, <2>1, <2>2, StopEffect DEF Do
    <3> QED
      BY <2>1, <3>1 DEF PointInv, Returns
  <2>3. CASE ~nxt.stop
    BY <1>8, <2>1, <2>3 DEF Do, Go, Start, PointInv, Returns
  <2> QED
    BY <2>2, <2>3
<1>9. CASE Joined \/ Executed
  BY <1>9 DEF Joined, Executed, ExecutedThen, PointInv, Returns
<1>10. CASE StopAll
  <2>1. CASE todo # <<>>
    BY <1>2, <1>10, <2>1 DEF StopAll, Ending
  <2>2. CASE todo = <<>>
    BY <1>10, <2>2 DEF StopAll, Walk, Go, PointInv
  <2> QED
    BY <2>1, <2>2
<1>11. CASE StopMore
  <2>1. CASE todo # <<>>
    BY <1>2, <1>11, <2>1 DEF StopMore, StopMoreTo, Ending
  <2>2. CASE todo = <<>>
    BY <1>11, <2>2 DEF StopMore, StopMoreTo, Walk, PointInv
  <2> QED
    BY <2>1, <2>2
<1>12. CASE Kill
  <2>1. CASE todo # <<>>
    BY <1>2, <1>12, <2>1 DEF Kill, Ending
  <2>2. CASE todo = <<>>
    BY <1>12, <2>2 DEF Kill, Walk, Go, PointInv
  <2> QED
    BY <2>1, <2>2
<1>13. CASE Interrupt \/ Clock \/ UNCHANGED svars
  BY <1>1, <1>13 DEF Interrupt, Clock, svars, mainVars
<1>14. ASSUME NEW c \in Commands, Thread(c) PROVE PointInv'
  BY <1>1, <1>14, ThreadEffect DEF mainVars
<1> QED
  BY <1>3, <1>4, <1>5, <1>6, <1>7, <1>8, <1>9, <1>10, <1>11, <1>12, <1>13, <1>14 DEF SNext, Main, Proceeds

(* Once a phase has failed only phases follow: run_commands looks at the      *)
(* event first.                                                               *)
LEMMA PhaseNext == SchedulerInv /\ [SNext]_svars => PhaseInv'
<1> SUFFICES ASSUME SchedulerInv, [SNext]_svars PROVE PhaseInv'
  OBVIOUS
<1> DEFINE Before == {"delete", "mkdirs", "init", "copy", "run"}
<1> DEFINE After  == {"logs", "post", "done", "raised"}
<1> USE DEF SchedulerInv
<1>1. ASSUME pc \notin Before \cup After, pc' \notin Before, UNCHANGED <<unprepared, left>>
      PROVE  PhaseInv'
  BY <1>1 DEF PhaseInv
<1>2. ASSUME UNCHANGED <<pc, started, unprepared, left>>, event => event' PROVE PhaseInv'
  BY <1>2 DEF PhaseInv
<1>3. CASE DeleteLogs \/ MakeDirs \/ GetLogs
  <2>1. event => event'
    BY <1>3 DEF DeleteLogs, MakeDirs, GetLogs, OrRaise, STypeOK
  <2>2. /\ UNCHANGED <<started, unprepared, left>>
        /\ \/ pc \in {"delete", "mkdirs"} /\ pc' \in {"mkdirs", "init", "raised"}
           \/ pc = "logs" /\ pc' \in {"post", "raised"}
    BY <1>3 DEF DeleteLogs, MakeDirs, GetLogs, OrRaise, cmdVars, phases
  <2> QED
    BY <2>1, <2>2 DEF PhaseInv
<1>4. CASE InitCmds \/ CopyFiles
  BY <1>4 DEF InitCmds, CopyFiles, LocalPhase, cmdVars, phases, PhaseInv, STypeOK
<1>5. CASE PostCmds
  <2>1. left' \cap {"init", "copy"} = left \cap {"init", "copy"}
    BY <1>5 DEF PostCmds, LocalPhase, phases
  <2>2. /\ unprepared' = unprepared /\ (event => event') /\ pc = "post" /\ pc' = "done"
        /\ UNCHANGED started
    BY <1>5 DEF PostCmds, LocalPhase, cmdVars, phases, STypeOK
  <2> QED
    BY <2>1, <2>2 DEF PhaseInv
<1>6. CASE Run
  BY <1>6 DEF Run, Go, cmdVars, phases, PhaseInv
<1>7. CASE \/ Top \/ Deps \/ ListStarts \/ StartDependent \/ ListStops \/ Pick \/ Sleep \/ Woken
           \/ Recheck \/ Drain \/ DrainSleep \/ More
  <2>1. pc \notin Before \cup After /\ pc' \notin Before /\ UNCHANGED <<unprepared, left>>
    BY <1>7 DEF Top, Deps, ListStarts, StartDependent, ListStops, Pick, Sleep, Woken, Recheck,
                Drain, DrainSleep, More, Go, Pause, Start, phases
  <2> QED
    BY <1>1, <2>1
<1>8. CASE StopDependent
  <2>1. CASE todo = <<>>
    BY <1>1, <1>8, <2>1 DEF StopDependent, Go, phases
  <2>2. CASE todo # <<>>
    <3>1. Head(todo) \in Commands /\ Stop(Head(todo), "stopping", FALSE) /\ pc = "stopping"
      BY <1>8, <2>2, WalkOn DEF StopDependent, STypeOK
    <3>2. pc' \in {"stopping", "exec"} /\ UNCHANGED <<unprepared, left>>
      BY <3>1, StopEffect
    <3> QED
      BY <1>1, <3>1, <3>2
  <2> QED
    BY <2>1, <2>2
<1>9. CASE Do
  <2>1. CASE nxt.stop
    <3>1. nxt.cmd \in Commands /\ pc = "do"
      BY <1>9 DEF Do, PointInv, Entries
    <3>2. pc' \in {"top", "exec"} /\ UNCHANGED <<unprepared, left>>
      BY <1>9, <2>1, <3>1, StopEffect DEF Do
    <3> QED
      BY <1>1, <3>1, <3>2
  <2>2. CASE ~nxt.stop
    BY <1>1, <1>9, <2>2 DEF Do, Go, Start, phases
  <2> QED
    BY <2>1, <2>2
<1>10. CASE Joined \/ Executed
  <2>1. pc \in {"join", "exec"} /\ pc' = ret /\ UNCHANGED <<unprepared, left>>
    BY <1>10 DEF Joined, Executed, ExecutedThen, phases
  <2>2. pc' \notin Before
    BY <2>1 DEF PointInv, Returns
  <2> QED
    BY <1>1, <2>1, <2>2
<1>11. CASE StopAll \/ StopMore \/ Kill
  <2>1. pc \in Ending /\ pc' \in Ending \cup {"exec", "more", "logs"} /\ UNCHANGED <<unprepared, left>>
    BY <1>11, WalkEffect DEF StopAll, StopMore, StopMoreTo, Kill, Go, Ending, phases
  <2> QED
    BY <1>1, <2>1 DEF Ending
<1>12. CASE Interrupt \/ Clock \/ UNCHANGED svars
  BY <1>2, <1>12 DEF Interrupt, Clock, svars, mainVars, cmdVars, phases
<1>13. ASSUME NEW c \in Commands, Thread(c) PROVE PhaseInv'
  BY <1>2, <1>13, ThreadEffect DEF mainVars, cmdVars, phases
<1> QED
  BY <1>3, <1>4, <1>5, <1>6, <1>7, <1>8, <1>9, <1>10, <1>11, <1>12, <1>13 DEF SNext, Main, Proceeds, Phase

(* Nothing is undone: a command started is not started again, one that has    *)
(* exited has, and what is due stays due.                                     *)
Onwards ==
  /\ event => event'
  /\ now <= now' /\ now' \in 0 .. MaxTime
  /\ \A c \in Commands :
       /\ started[c] => started'[c] /\ started_time'[c] = started_time[c]
       /\ HasEnded(c) => HasEnded(c)'
       /\ stopped[c] => stopped'[c]
       /\ killed[c] => killed'[c]

LEMMA StartOnwards ==
  ASSUME NEW c \in Commands, NEW next, Start(c, next), ~started[c], STypeOK
  PROVE  Onwards
<1>1. \A d \in Commands : started[d] => started'[d] /\ started_time'[d] = started_time[d] /\ job'[d] = job[d]
  BY DEF Start, STypeOK
<1>2. UNCHANGED <<now, event, stopped, killed>>
  BY DEF Start
<1> QED
  BY <1>1, <1>2 DEF Onwards, HasEnded, Exited, STypeOK

LEMMA StopOnwards ==
  ASSUME STypeOK, UNCHANGED <<now, event, started, started_time, job, killed>>,
         \A d \in Commands : stopped[d] => stopped'[d]
  PROVE  Onwards
  BY DEF Onwards, HasEnded, Exited, STypeOK

LEMMA GoesOnwards == SchedulerInv /\ [SNext]_svars => Onwards
<1> SUFFICES ASSUME SchedulerInv, [SNext]_svars PROVE Onwards
  OBVIOUS
<1> USE DEF SchedulerInv
<1>1. ASSUME UNCHANGED <<started, started_time, stopped, job, killed>>, event => event',
             now <= now', now' \in 0 .. MaxTime
      PROVE  Onwards
  BY <1>1 DEF Onwards, HasEnded, Exited
<1>2. ASSUME UNCHANGED <<now, event, started, started_time, stopped, job, killed>> PROVE Onwards
  BY <1>2, StopOnwards
<1>3. CASE Phase
  <2>1. UNCHANGED <<now, started, started_time, stopped, job, killed>> /\ (event => event')
    BY <1>3 DEF Phase, DeleteLogs, MakeDirs, InitCmds, CopyFiles, GetLogs, PostCmds, LocalPhase,
                OrRaise, cmdVars, STypeOK
  <2> QED
    BY <1>1, <2>1 DEF STypeOK
<1>4. CASE \/ Run \/ Top \/ Deps \/ ListStarts \/ ListStops \/ Pick \/ Sleep \/ Woken \/ Recheck
           \/ Joined \/ Drain \/ DrainSleep \/ More \/ UNCHANGED svars
  BY <1>2, <1>4 DEF Run, Top, Deps, ListStarts, ListStops, Pick, Sleep, Woken, Recheck, Joined,
                    Drain, DrainSleep, More, Go, Pause, cmdVars, svars
<1>5. CASE StartDependent
  <2>1. CASE todo # <<>> /\ ~started[Head(todo)]
    <3>1. Head(todo) \in Commands
      BY <2>1, WalkOn DEF STypeOK
    <3> QED
      BY <1>5, <2>1, <3>1, StartOnwards DEF StartDependent
  <2>2. CASE ~(todo # <<>> /\ ~started[Head(todo)])
    BY <1>2, <1>5, <2>2 DEF StartDependent, Go, cmdVars
  <2> QED
    BY <2>1, <2>2
<1>6. CASE StopDependent
  <2>1. CASE todo # <<>>
    <3>1. Head(todo) \in Commands
      BY <2>1, WalkOn DEF STypeOK
    <3> QED
      BY <1>6, <2>1, <3>1, StopEffect, StopOnwards DEF StopDependent
  <2>2. CASE todo = <<>>
    BY <1>2, <1>6, <2>2 DEF StopDependent, Go, cmdVars
  <2> QED
    BY <2>1, <2>2
<1>7. CASE Do
  <2>1. nxt.cmd \in Commands
    BY <1>7 DEF Do, PointInv, Entries
  <2>2. CASE nxt.stop
    BY <1>7, <2>1, <2>2, StopEffect, StopOnwards DEF Do
  <2>3. CASE ~nxt.stop /\ started[nxt.cmd]
    BY <1>2, <1>7, <2>3 DEF Do, Go, cmdVars
  <2>4. CASE ~nxt.stop /\ ~started[nxt.cmd]
    BY <1>7, <2>1, <2>4, StartOnwards DEF Do
  <2> QED
    BY <2>2, <2>3, <2>4
<1>8. CASE Executed
  <2>1. /\ UNCHANGED <<now, event, started, started_time, job>>
        /\ \A d \in Commands : (stopped[d] => stopped'[d]) /\ (killed[d] => killed'[d])
    BY <1>8 DEF Executed, ExecutedThen, STypeOK
  <2> QED
    BY <2>1 DEF Onwards, HasEnded, Exited, STypeOK
<1>9. CASE StopAll \/ StopMore \/ Kill
  <2>1. CASE todo # <<>>
    BY <1>9, <2>1, WalkEffect, StopOnwards DEF StopAll, StopMore, StopMoreTo, Kill
  <2>2. CASE todo = <<>>
    BY <1>2, <1>9, <2>2 DEF StopAll, StopMore, StopMoreTo, Kill, Walk, Go, cmdVars
  <2> QED
    BY <2>1, <2>2
<1>10. CASE Interrupt \/ Clock
  <2>1. now <= now' /\ now' \in 0 .. MaxTime
    BY <1>10, SchedulerAssumption DEF Interrupt, Clock, STypeOK
  <2> QED
    BY <1>1, <1>10, <2>1 DEF Interrupt, Clock, cmdVars
<1>11. ASSUME NEW c \in Commands, Thread(c) PROVE Onwards
  <2>1. /\ event => event'
        /\ UNCHANGED <<now, started, started_time, stopped, killed>>
        /\ \A d \in Commands : job[d] \in {"seen", "over"} => job'[d] \in {"seen", "over"}
    BY <1>11, ThreadEffect DEF cmdVars
  <2> QED
    BY <2>1 DEF STypeOK, Onwards, HasEnded, Exited
<1> QED
  BY <1>3, <1>4, <1>5, <1>6, <1>7, <1>8, <1>9, <1>10, <1>11 DEF SNext, Main, Proceeds

LEMMA EndStays ==
  ASSUME STypeOK, Onwards, NEW c \in Commands, End(c) # None
  PROVE  End(c)' = End(c)
  BY DEF End, Onwards, STypeOK

LEMMA ReachedStays ==
  ASSUME STypeOK, Onwards, NEW t \in Nat, Reached(t)
  PROVE  Reached(t)'
<1>1. now \in 0 .. MaxTime /\ now' \in 0 .. MaxTime /\ now <= now' /\ MaxTime \in Nat
  BY SchedulerAssumption DEF Onwards, STypeOK
<1>2. CASE now >= t
  BY <1>1, <1>2 DEF Reached
<1>3. CASE now = MaxTime
  BY <1>1, <1>3 DEF Reached
<1> QED
  BY <1>2, <1>3 DEF Reached

LEMMA DueStays ==
  ASSUME STypeOK, Onwards, NEW c \in Commands, Due(c)
  PROVE  Due(c)'
<1>1. CASE event
  BY <1>1 DEF Onwards, Due
<1>2. CASE StopAfter[c] # None /\ HasEnded(StopAfter[c])
  <2>1. StopAfter[c] \in Commands
    BY <1>2, SchedulerAssumption
  <2> QED
    BY <1>2, <2>1 DEF Onwards, Due
<1>3. CASE End(c) # None /\ Reached(End(c))
  <2>1. PICK t \in Nat : t = End(c)
    BY <1>3, EndIsTime
  <2>2. End(c)' = t /\ Reached(t)'
    BY <1>3, <2>1, EndStays, ReachedStays
  <2> QED
    BY <1>3, <2>1, <2>2 DEF Due, Reached
<1> QED
  BY <1>1, <1>2, <1>3 DEF Due

LEMMA PlannedStays ==
  ASSUME STypeOK, Onwards, NEW e \in Entries, Planned(e)
  PROVE  Planned(e)'
<1>1. e.cmd \in Commands /\ Timed \subseteq Commands
  BY DEF Entries, Timed
<1>2. CASE e.stop
  BY <1>1, <1>2, EndStays DEF Planned
<1>3. CASE ~e.stop
  BY <1>1, <1>3 DEF Planned, Onwards
<1> QED
  BY <1>2, <1>3

LEMMA PlanKept ==
  ASSUME SchedulerInv, Onwards, UNCHANGED <<pc, nxt, todo, ret>>
  PROVE  PlanInv'
<1> USE DEF SchedulerInv
<1>1. ASSUME pc \in {"sleep", "wait", "do"}
      PROVE  Planned(nxt)' /\ (pc = "do" => Reached(nxt.time)')
  <2>1. PICK e \in Entries : e = nxt
    BY <1>1 DEF PointInv
  <2>2. Planned(e)'
    BY <1>1, <2>1, PlannedStays DEF PlanInv
  <2>3. ASSUME pc = "do" PROVE Reached(e.time)'
    <3>1. e.time \in Nat /\ Reached(e.time)
      BY <2>1, <2>3 DEF Entries, PlanInv
    <3> QED
      BY <3>1, ReachedStays
  <2> QED
    BY <2>1, <2>2, <2>3 DEF Planned, Reached
<1>2. ASSUME pc = "starting" \/ (pc = "join" /\ ret = "starting")
      PROVE  \A i \in 1 .. Len(todo) : todo[i] \notin Timed
  BY <1>2 DEF PlanInv
<1> QED
  BY <1>1, <1>2 DEF PlanInv

LEMMA PlanNext == SchedulerInv /\ [SNext]_svars => PlanInv'
<1> SUFFICES ASSUME SchedulerInv, [SNext]_svars PROVE PlanInv'
  OBVIOUS
<1> DEFINE Away == pc' \notin {"sleep", "wait", "do", "starting"} /\ ~(pc' = "join" /\ ret' = "starting")
<1> USE DEF SchedulerInv
<1>0. Onwards
  BY GoesOnwards
<1>1. ASSUME Away PROVE PlanInv'
  BY <1>1 DEF PlanInv
<1>2. CASE Phase \/ Run \/ Top \/ Deps \/ ListStops \/ Recheck \/ Drain \/ DrainSleep \/ More
  <2>1. Away
    BY <1>2 DEF Phase, DeleteLogs, MakeDirs, InitCmds, CopyFiles, GetLogs, PostCmds, LocalPhase, OrRaise,
                Run, Top, Deps, ListStops, Recheck, Drain, DrainSleep, More, Go, Pause
  <2> QED
    BY <1>1, <2>1
<1>3. CASE StopAll \/ StopMore \/ Kill
  <2>1. Away
    BY <1>3, WalkEffect DEF StopAll, StopMore, StopMoreTo, Kill, Go
  <2> QED
    BY <1>1, <2>1
<1>4. CASE ListStarts
  <2>1. /\ todo' \in SetToSeqs({c \in Commands : ReadyStart(c)})
        /\ pc' = "starting"
    BY <1>4 DEF ListStarts, Go
  <2>2. \A i \in 1 .. Len(todo') : todo'[i] \in {c \in Commands : ReadyStart(c)}
    BY <2>1, ListOfSome
  <2>3. \A c \in Commands : ReadyStart(c) => c \notin Timed
    BY SchedulerAssumption DEF ReadyStart, Timed
  <2> QED
    BY <2>1, <2>2, <2>3 DEF PlanInv
<1>5. CASE StartDependent
  <2>1. CASE todo = <<>>
    <3>1. Away
      BY <1>5, <2>1 DEF StartDependent, Go
    <3> QED
      BY <1>1, <3>1
  <2>2. CASE todo # <<>>
    <3>1. /\ pc = "starting" /\ todo' = Tail(todo)
          /\ pc' = "starting" \/ (pc' = "join" /\ ret' = "starting")
      BY <1>5, <2>2 DEF StartDependent, Go, Start
    <3>2. \A i \in 1 .. Len(todo) : todo[i] \notin Timed
      BY <3>1 DEF PlanInv
    <3>3. \A i \in 1 .. Len(todo') : todo'[i] \notin Timed
      BY <2>2, <3>1, <3>2, WalkOn DEF STypeOK
    <3> QED
      BY <3>1, <3>3 DEF PlanInv
  <2> QED
    BY <2>1, <2>2
<1>6. CASE StopDependent
  <2>1. Away
    <3>1. CASE todo = <<>>
      BY <1>6, <3>1 DEF StopDependent, Go
    <3>2. CASE todo # <<>>
      <4>1. Head(todo) \in Commands /\ Stop(Head(todo), "stopping", FALSE)
        BY <1>6, <3>2, WalkOn DEF StopDependent, STypeOK
      <4>2. pc' = "stopping" \/ pc' = "exec"
        BY <4>1, StopEffect
      <4> QED
        BY <4>2
    <3> QED
      BY <3>1, <3>2
  <2> QED
    BY <1>1, <2>1
<1>7. CASE Pick
  <2>1. CASE NextCommands = {}
    BY <1>1, <1>7, <2>1 DEF Pick
  <2>2. CASE NextCommands # {}
    <3>1. PICK e \in NextCommands : nxt' = e /\ \A f \in NextCommands : e.time <= f.time
      BY <1>7, <2>2 DEF Pick, Earliest
    <3>2. pc' = "sleep" /\ UNCHANGED <<started, started_time>>
      BY <1>7, <2>2 DEF Pick, cmdVars
    <3>3. ASSUME ~e.stop
          PROVE  /\ e.cmd \in Timed /\ e.time = Begin[e.cmd]
                 /\ \A c \in Timed : ~started[c] => e.time <= Begin[c]
      <4>1. e.cmd \in Timed /\ e.time = Begin[e.cmd]
        BY <3>3 DEF NextCommands
      <4>2. ASSUME NEW c \in Timed, ~started[c] PROVE e.time <= Begin[c]
        <5>1. [time |-> Begin[c], stop |-> FALSE, cmd |-> c] \in NextCommands
          BY <4>2 DEF NextCommands
        <5> QED
          BY <3>1, <5>1
      <4> QED
        BY <4>1, <4>2
    <3>4. ASSUME e.stop PROVE End(e.cmd) # None /\ End(e.cmd) = e.time
      BY <3>4 DEF NextCommands
    <3>5. Planned(e)'
      BY <3>2, <3>3, <3>4 DEF Planned, End
    <3> QED
      BY <3>1, <3>2, <3>5 DEF PlanInv, Planned
  <2> QED
    BY <2>1, <2>2
<1>8. CASE Sleep \/ Woken
  <2>1. pc \in {"sleep", "wait"} /\ UNCHANGED <<now, todo>>
    BY <1>8 DEF Sleep, Woken, Go, Pause
  <2>2. CASE pc' \in {"sleep", "wait", "do"}
    <3>1. nxt' = nxt
      BY <1>8, <2>2 DEF Sleep, Woken, Go, Pause
    <3>2. PICK e \in Entries : e = nxt
      BY <2>1 DEF PointInv
    <3>3. Planned(e)'
      BY <1>0, <2>1, <3>2, PlannedStays DEF PlanInv
    <3>4. pc' = "do" => Reached(nxt.time)
      BY <1>8 DEF Sleep, Woken, Go, Pause
    <3> QED
      BY <2>1, <2>2, <3>1, <3>2, <3>3, <3>4 DEF PlanInv, Planned, Reached
  <2>3. CASE pc' \notin {"sleep", "wait", "do"}
    <3>1. Away
      BY <1>8, <2>3 DEF Sleep, Woken, Go, Pause
    <3> QED
      BY <1>1, <3>1
  <2> QED
    BY <2>2, <2>3
<1>9. CASE Do
  <2>1. nxt.cmd \in Commands
    BY <1>9 DEF Do, PointInv, Entries
  <2>2. Away
    <3>1. CASE nxt.stop
      <4>1. pc' = "top" \/ pc' = "exec"
        BY <1>9, <2>1, <3>1, StopEffect DEF Do
      <4> QED
        BY <4>1
    <3>2. CASE ~nxt.stop
      BY <1>9, <3>2 DEF Do, Start, Go
    <3> QED
      BY <3>1, <3>2
  <2> QED
    BY <1>1, <2>2
<1>10. CASE Joined
  <2>1. pc = "join" /\ pc' = ret /\ ret \in {"top", "starting"} /\ todo' = todo
    BY <1>10 DEF Joined, PointInv
  <2>2. CASE ret = "top"
    BY <1>1, <2>1, <2>2
  <2>3. CASE ret = "starting"
    <3>1. \A i \in 1 .. Len(todo) : todo[i] \notin Timed
      BY <2>1, <2>3 DEF PlanInv
    <3> QED
      BY <2>1, <2>3, <3>1 DEF PlanInv
  <2> QED
    BY <2>1, <2>2, <2>3
<1>11. CASE Executed
  <2>1. Away
    BY <1>11 DEF Executed, ExecutedThen, PointInv, Returns
  <2> QED
    BY <1>1, <2>1
<1>12. CASE Interrupt \/ Clock
  BY <1>0, <1>12, PlanKept DEF Interrupt, Clock, mainVars
<1>13. ASSUME NEW c \in Commands, Thread(c) PROVE PlanInv'
  BY <1>0, <1>13, ThreadEffect, PlanKept DEF mainVars
<1>14. CASE UNCHANGED svars
  BY <1>0, <1>14, PlanKept DEF svars, mainVars
<1> QED
  BY <1>2, <1>3, <1>4, <1>5, <1>6, <1>7, <1>8, <1>9, <1>10, <1>11, <1>12, <1>13, <1>14 DEF SNext, Main, Proceeds

(* What is left of the plan is started in its order, for of two starts that   *)
(* are due the earlier one is picked; dependents are not of the plan.         *)
LEMMA OrderNext == SchedulerInv /\ [SNext]_svars => PlanInOrder'
<1> SUFFICES ASSUME SchedulerInv, [SNext]_svars PROVE PlanInOrder'
  OBVIOUS
<1> USE DEF SchedulerInv
<1>0. /\ \A c \in Commands : started[c] => started'[c]
      /\ Timed \subseteq Commands
  BY GoesOnwards DEF Onwards, Timed
<1>1. ASSUME \A c \in Timed : started'[c] => started[c]
      PROVE  PlanInOrder'
  BY <1>0, <1>1 DEF PlanInOrder
<1>2. CASE StartDependent
  <2>1. CASE todo # <<>> /\ ~started[Head(todo)]
    <3>1. Head(todo) \in Commands /\ Head(todo) \notin Timed
      BY <1>2, <2>1, WalkOn DEF StartDependent, STypeOK, PlanInv
    <3>2. \A c \in Timed : started'[c] = started[c]
      BY <1>0, <1>2, <2>1, <3>1 DEF StartDependent, Start, STypeOK
    <3> QED
      BY <1>1, <3>2
  <2>2. CASE ~(todo # <<>> /\ ~started[Head(todo)])
    BY <1>1, <1>2, <2>2 DEF StartDependent, Go, cmdVars
  <2> QED
    BY <2>1, <2>2
<1>3. CASE Do
  <2>1. CASE ~nxt.stop /\ ~started[nxt.cmd]
    <3>1. /\ nxt.cmd \in Timed /\ nxt.time = Begin[nxt.cmd]
          /\ \A c \in Timed : ~started[c] => nxt.time <= Begin[c]
      BY <1>3, <2>1 DEF Do, PlanInv, Planned
    <3>2. \A c \in Commands : started'[c] <=> started[c] \/ c = nxt.cmd
      BY <1>0, <1>3, <2>1, <3>1 DEF Do, Start, STypeOK
    <3>3. ASSUME NEW c \in Timed, NEW d \in Timed, Begin[c] < Begin[d], started'[d]
          PROVE  started'[c]
      <4>1. CASE started[d]
        BY <1>0, <3>2, <3>3, <4>1 DEF PlanInOrder
      <4>2. CASE d = nxt.cmd
        <5>1. Begin[c] \in Nat /\ Begin[d] \in Nat
          BY SchedulerAssumption DEF Timed
        <5>2. started[c]
          BY <3>1, <3>3, <4>2, <5>1
        <5> QED
          BY <1>0, <5>2
      <4> QED
        BY <1>0, <3>2, <3>3, <4>1, <4>2
    <3> QED
      BY <3>3 DEF PlanInOrder
  <2>2. CASE nxt.stop
    <3>1. nxt.cmd \in Commands
      BY <1>3 DEF Do, PointInv, Entries
    <3> QED
      BY <1>1, <1>3, <2>2, <3>1, StopEffect DEF Do
  <2>3. CASE ~nxt.stop /\ started[nxt.cmd]
    BY <1>1, <1>3, <2>3 DEF Do, Go, cmdVars
  <2> QED
    BY <2>1, <2>2, <2>3
<1>4. CASE StopDependent
  <2>1. started' = started
    <3>1. CASE todo = <<>>
      BY <1>4, <3>1 DEF StopDependent, Go, cmdVars
    <3>2. CASE todo # <<>>
      BY <1>4, <3>2, WalkOn, StopEffect DEF StopDependent, STypeOK
    <3> QED
      BY <3>1, <3>2
  <2> QED
    BY <1>1, <2>1
<1>5. CASE StopAll \/ StopMore \/ Kill
  <2>1. started' = started
    BY <1>5, WalkEffect DEF StopAll, StopMore, StopMoreTo, Kill, Go, cmdVars
  <2> QED
    BY <1>1, <2>1
<1>6. CASE \/ Phase \/ Run \/ Top \/ Deps \/ ListStarts \/ ListStops \/ Pick \/ Sleep \/ Woken
           \/ Recheck \/ Joined \/ Executed \/ Drain \/ DrainSleep \/ More \/ Interrupt \/ Clock
           \/ UNCHANGED svars
  <2>1. started' = started
    BY <1>6 DEF Phase, DeleteLogs, MakeDirs, InitCmds, CopyFiles, GetLogs, PostCmds, LocalPhase,
                OrRaise, Run, Top, Deps, ListStarts, ListStops, Pick, Sleep, Woken, Recheck, Joined,
                Executed, ExecutedThen, Drain, DrainSleep, More, Interrupt, Clock, Go, Pause, svars, cmdVars
  <2> QED
    BY <1>1, <2>1
<1>7. ASSUME NEW c \in Commands, Thread(c) PROVE PlanInOrder'
  BY <1>1, <1>7, ThreadEffect DEF cmdVars
<1> QED
  BY <1>2, <1>3, <1>4, <1>5, <1>6, <1>7 DEF SNext, Main, Proceeds

(* When nothing is started, what has ended stays so.                          *)
LEMMA AliveBefore ==
  ASSUME STypeOK, Onwards, started' = started, NEW c \in Commands, Alive(c)'
  PROVE  Alive(c)
<1>1. ~HasEnded(c)'
  BY DEF HasEnded, Alive
<1>2. ~HasEnded(c)
  BY <1>1 DEF Onwards
<1>3. started[c]
  BY DEF Alive
<1> QED
  BY <1>2, <1>3 DEF HasEnded, Alive

LEMMA EndingStays ==
  ASSUME STypeOK, Onwards, started' = started, event \/ ~AnyRunning
  PROVE  event' \/ ~AnyRunning'
  BY AliveBefore DEF Onwards, AnyRunning

LEMMA TriggersStay ==
  ASSUME Onwards
  PROVE  Triggered \subseteq Triggered'
<1>1. ASSUME NEW c \in Commands, StopAfter[c] # None, HasEnded(StopAfter[c])
      PROVE  HasEnded(StopAfter[c])'
  <2>1. PICK d \in Commands : d = StopAfter[c]
    BY <1>1, SchedulerAssumption
  <2>2. HasEnded(d)'
    BY <1>1, <2>1 DEF Onwards
  <2> QED
    BY <2>1, <2>2
<1> QED
  BY <1>1 DEF Triggered

LEMMA DuesStay ==
  ASSUME STypeOK, Onwards, StopsAreDue, told' = told
  PROVE  StopsAreDue'
<1>1. ASSUME NEW c \in Commands, told[c] PROVE Due(c)'
  BY <1>1, DueStays DEF StopsAreDue, Due
<1> QED
  BY <1>1 DEF StopsAreDue, Due

LEMMA StopKept ==
  ASSUME SchedulerInv, Onwards, UNCHANGED <<pc, ret, cur, todo, told, started>>
  PROVE  StopInv'
<1> USE DEF SchedulerInv
<1>1. ASSUME pc = "exec" PROVE Due(cur)'
  <2>1. PICK c \in Commands : c = cur
    BY <1>1 DEF PointInv
  <2>2. Due(c)'
    BY <1>1, <2>1, DueStays DEF StopInv
  <2> QED
    BY <2>1, <2>2 DEF Due, End
<1>2. ASSUME pc = "stopping" \/ (pc = "exec" /\ ret = "stopping"), NEW i \in 1 .. Len(todo)
      PROVE  todo[i] \in Triggered'
  BY <1>2, TriggersStay DEF StopInv
<1>3. ASSUME pc \in Ending \cup {"more"} \/ (pc = "exec" /\ ret \in Ending)
      PROVE  event' \/ ~AnyRunning'
  BY <1>3, EndingStays DEF StopInv
<1>4. StopsAreDue'
  BY DuesStay DEF StopInv
<1> QED
  BY <1>1, <1>2, <1>3, <1>4 DEF StopInv

(* A walk through all commands after the plan.                                *)
LEMMA StopWalk ==
  ASSUME SchedulerInv, Onwards, NEW here \in Ending, NEW kill \in BOOLEAN, pc = here, Walk(here, kill)
  PROVE  StopInv'
<1> USE DEF SchedulerInv
<1>1. /\ UNCHANGED <<event, started, job, told>>
      /\ pc' = here \/ (pc' = "exec" /\ cur' = Head(todo) /\ ret' = here)
      /\ Head(todo) \in Commands
  BY WalkEffect
<1>2. event \/ ~AnyRunning
  BY DEF StopInv
<1>3. ASSUME pc' = "exec" PROVE event'
  <2>1. Alive(Head(todo))
    BY <1>3 DEF Walk, Go, Ending
  <2> QED
    BY <1>1, <1>2, <2>1 DEF AnyRunning
<1>4. pc' = "exec" => Due(cur)'
  BY <1>3 DEF Due
<1>5. event' \/ ~AnyRunning'
  BY <1>1, <1>2, EndingStays
<1>6. StopsAreDue'
  BY <1>1, DuesStay DEF StopInv
<1> QED
  BY <1>1, <1>4, <1>5, <1>6 DEF StopInv, Ending

LEMMA StopNext == SchedulerInv /\ [SNext]_svars => StopInv'
<1> SUFFICES ASSUME SchedulerInv, [SNext]_svars PROVE StopInv'
  OBVIOUS
<1> DEFINE Away == pc' \notin Ending \cup {"more", "stopping", "exec"}
<1> USE DEF SchedulerInv
<1>0. Onwards
  BY GoesOnwards
<1>1. ASSUME told' = told PROVE StopsAreDue'
  BY <1>0, <1>1, DuesStay DEF StopInv
<1>2. ASSUME Away, told' = told PROVE StopInv'
  BY <1>1, <1>2 DEF StopInv, Ending
<1>3. CASE \/ Phase \/ Run \/ Top \/ Deps \/ ListStarts \/ StartDependent \/ Pick \/ Sleep \/ Woken
           \/ Recheck \/ Joined
  <2>1. Away /\ told' = told
    BY <1>3 DEF Phase, DeleteLogs, MakeDirs, InitCmds, CopyFiles, GetLogs, PostCmds, LocalPhase,
                OrRaise, Run, Top, Deps, ListStarts, StartDependent, Start, Pick, Sleep, Woken,
                Recheck, Joined, Go, Pause, Ending, PointInv
  <2> QED
    BY <1>2, <2>1
<1>4. CASE ListStops
  <2>1. /\ todo' \in SetToSeqs({c \in Commands : ReadyStop(c)})
        /\ pc' = "stopping" /\ UNCHANGED <<told, started, stopped, job>>
    BY <1>4 DEF ListStops, Go, cmdVars
  <2>2. \A i \in 1 .. Len(todo') : todo'[i] \in {c \in Commands : ReadyStop(c)}
    BY <2>1, ListOfSome
  <2>3. \A i \in 1 .. Len(todo') : todo'[i] \in Triggered
    BY <2>2 DEF ReadyStop, Triggered
  <2> QED
    BY <1>0, <1>1, <2>1, <2>3, TriggersStay DEF StopInv, Ending
<1>5. CASE StopDependent
  <2>1. CASE todo = <<>>
    <3>1. Away /\ told' = told
      BY <1>5, <2>1 DEF StopDependent, Go, Ending
    <3> QED
      BY <1>2, <3>1
  <2>2. CASE todo # <<>>
    <3>1. /\ Head(todo) \in Commands /\ Stop(Head(todo), "stopping", FALSE)
          /\ pc = "stopping" /\ todo' = Tail(todo)
      BY <1>5, <2>2, WalkOn DEF StopDependent, STypeOK
    <3>2. /\ told' = told
          /\ pc' = "stopping" \/ (pc' = "exec" /\ cur' = Head(todo) /\ ret' = "stopping")
      BY <3>1, StopEffect
    <3>3. \A i \in 1 .. Len(todo) : todo[i] \in Triggered'
      BY <1>0, <3>1, TriggersStay DEF StopInv
    <3>4. \A i \in 1 .. Len(todo') : todo'[i] \in Triggered'
      BY <2>2, <3>1, <3>3, WalkOn DEF STypeOK
    <3>5. PICK c \in Triggered' : c = Head(todo)
      BY <2>2, <3>3 DEF STypeOK
    <3>6. Due(c)'
      BY <3>5 DEF Triggered, Due
    <3>7. pc' = "exec" => Due(cur)'
      BY <3>2, <3>5, <3>6 DEF Due, End
    <3> QED
      BY <1>1, <3>2, <3>4, <3>7 DEF StopInv, Ending
  <2> QED
    BY <2>1, <2>2
<1>6. CASE Do
  <2>1. CASE ~nxt.stop
    <3>1. Away /\ told' = told
      BY <1>6, <2>1 DEF Do, Start, Go, Ending
    <3> QED
      BY <1>2, <3>1
  <2>2. CASE nxt.stop
    <3>1. PICK c \in Commands : c = nxt.cmd
      BY <1>6 DEF Do, PointInv, Entries
    <3>2. /\ told' = told
          /\ pc' = "top" \/ (pc' = "exec" /\ cur' = c /\ ret' = "top")
      BY <1>6, <2>2, <3>1, StopEffect DEF Do
    <3>3. Due(c)
      BY <1>6, <2>2, <3>1 DEF Do, PlanInv, Planned, Due
    <3>4. Due(c)'
      BY <1>0, <3>3, DueStays
    <3>5. pc' = "exec" => Due(cur)'
      BY <3>2, <3>4 DEF Due, End
    <3> QED
      BY <1>1, <3>2, <3>5 DEF StopInv, Ending
  <2> QED
    BY <2>1, <2>2
<1>7. CASE Executed
  <2>1. PICK c \in Commands : c = cur
    BY <1>7 DEF Executed, ExecutedThen, PointInv
  <2>2. /\ pc = "exec" /\ pc' = ret /\ UNCHANGED <<event, todo, started>>
        /\ \A d \in Commands : told'[d] => told[d] \/ d = c
    BY <1>7, <2>1 DEF Executed, ExecutedThen, STypeOK
  <2>3. Due(c)'
    BY <1>0, <2>1, <2>2, DueStays DEF StopInv
  <2>4. \A d \in Commands : told[d] => Due(d)'
    BY <1>0, DueStays DEF StopInv, StopsAreDue, Due
  <2>5. StopsAreDue'
    BY <2>2, <2>3, <2>4 DEF StopsAreDue, Due
  <2>6. ret = "stopping" => \A i \in 1 .. Len(todo) : todo[i] \in Triggered'
    BY <1>0, <2>2, TriggersStay DEF StopInv
  <2>7. ret \in Ending => event' \/ ~AnyRunning'
    BY <1>0, <2>2, EndingStays DEF StopInv
  <2>8. ret \in Returns
    BY DEF PointInv
  <2> QED
    BY <2>2, <2>5, <2>6, <2>7, <2>8 DEF StopInv, Ending, Returns
<1>8. CASE Drain \/ DrainSleep
  <2>1. /\ told' = told /\ started' = started
        /\ Away \/ (pc' = "stopAll" /\ (event \/ ~AnyRunning))
    BY <1>8 DEF Drain, DrainSleep, Go, Pause, cmdVars, Ending
  <2>2. pc' = "stopAll" => event' \/ ~AnyRunning'
    BY <1>0, <2>1, EndingStays DEF Ending
  <2> QED
    BY <1>1, <1>2, <2>1, <2>2 DEF StopInv, Ending
<1>9. CASE StopAll \/ More \/ StopMore \/ Kill
  <2>1. CASE todo # <<>> /\ ~More
    BY <1>0, <1>9, <2>1, StopWalk DEF StopAll, StopMore, StopMoreTo, Kill, Ending
  <2>2. CASE todo = <<>> \/ More
    <3>1. /\ pc \in Ending \cup {"more"} /\ told' = told /\ started' = started
          /\ pc' \in Ending \cup {"more", "logs"}
      BY <1>9, <2>2 DEF StopAll, More, StopMore, StopMoreTo, Kill, Walk, Go, cmdVars, Ending
    <3>2. event' \/ ~AnyRunning'
      BY <1>0, <3>1, EndingStays DEF StopInv
    <3> QED
      BY <1>1, <3>1, <3>2 DEF StopInv, Ending
  <2> QED
    BY <2>1, <2>2
<1>10. CASE Interrupt \/ Clock
  BY <1>0, <1>10, StopKept DEF Interrupt, Clock, mainVars, cmdVars
<1>11. ASSUME NEW c \in Commands, Thread(c) PROVE StopInv'
  BY <1>0, <1>11, ThreadEffect, StopKept DEF mainVars, cmdVars
<1>12. CASE UNCHANGED svars
  BY <1>0, <1>12, StopKept DEF svars, mainVars, cmdVars
<1> QED
  BY <1>3, <1>4, <1>5, <1>6, <1>7, <1>8, <1>9, <1>10, <1>11, <1>12 DEF SNext, Main, Proceeds

LEMMA KillKept ==
  ASSUME SchedulerInv, Onwards, started' = started, UNCHANGED <<pc, ret, cur, todo>>
  PROVE  KillInv'
<1> USE DEF SchedulerInv
<1>1. \A c \in Commands : /\ Alive(c)' => Alive(c)
                          /\ killed[c] => killed'[c]
  BY AliveBefore DEF Onwards
<1> QED
  BY <1>1 DEF KillInv, NothingLeftRunning

LEMMA KillNext == SchedulerInv /\ [SNext]_svars => KillInv'
<1> SUFFICES ASSUME SchedulerInv, [SNext]_svars PROVE KillInv'
  OBVIOUS
<1> DEFINE Away == pc' \notin {"kill", "logs", "post", "done"} /\ ~(pc' = "exec" /\ ret' = "kill")
<1> USE DEF SchedulerInv
<1>0. Onwards
  BY GoesOnwards
<1>1. ASSUME Away PROVE KillInv'
  BY <1>1 DEF KillInv, NothingLeftRunning
<1>2. ASSUME started' = started
      PROVE  \A c \in Commands : /\ Alive(c)' => Alive(c)
                                 /\ killed[c] => killed'[c]
  BY <1>0, <1>2, AliveBefore DEF Onwards
<1>3. CASE \/ Top \/ Deps \/ ListStarts \/ StartDependent \/ ListStops \/ Pick \/ Sleep \/ Woken
           \/ Recheck \/ Joined \/ Drain \/ DrainSleep
  <2>1. Away
    BY <1>3 DEF Top, Deps, ListStarts, StartDependent, Start, ListStops, Pick, Sleep, Woken,
                Recheck, Joined, Drain, DrainSleep, Go, Pause, PointInv
  <2> QED
    BY <1>1, <2>1
<1>4. CASE Phase
  <2>1. /\ started' = started
        /\ Away \/ (pc \in {"logs", "post"} /\ pc' \in {"post", "done"})
    BY <1>4 DEF Phase, DeleteLogs, MakeDirs, InitCmds, CopyFiles, GetLogs, PostCmds, LocalPhase,
                OrRaise, cmdVars
  <2> QED
    BY <1>1, <1>2, <2>1 DEF KillInv, NothingLeftRunning
<1>5. CASE Run
  <2>1. /\ \A c \in Commands : ~started[c]
        /\ started' = started /\ pc' \in {"logs", "top"}
    BY <1>5 DEF Run, Go, PhaseInv, cmdVars
  <2> QED
    BY <1>2, <2>1 DEF KillInv, NothingLeftRunning, Alive
<1>6. CASE StopDependent
  <2>1. CASE todo = <<>>
    <3>1. Away
      BY <1>6, <2>1 DEF StopDependent, Go
    <3> QED
      BY <1>1, <3>1
  <2>2. CASE todo # <<>>
    <3>1. Head(todo) \in Commands /\ Stop(Head(todo), "stopping", FALSE)
      BY <1>6, <2>2, WalkOn DEF StopDependent, STypeOK
    <3>2. pc' = "stopping" \/ (pc' = "exec" /\ ret' = "stopping")
      BY <3>1, StopEffect
    <3> QED
      BY <1>1, <3>2
  <2> QED
    BY <2>1, <2>2
<1>7. CASE Do
  <2>1. CASE ~nxt.stop
    <3>1. Away
      BY <1>7, <2>1 DEF Do, Start, Go
    <3> QED
      BY <1>1, <3>1
  <2>2. CASE nxt.stop
    <3>1. nxt.cmd \in Commands
      BY <1>7 DEF Do, PointInv, Entries
    <3>2. pc' = "top" \/ (pc' = "exec" /\ ret' = "top")
      BY <1>7, <2>2, <3>1, StopEffect DEF Do
    <3> QED
      BY <1>1, <3>2
  <2> QED
    BY <2>1, <2>2
<1>8. CASE Executed
  <2>1. PICK c \in Commands : c = cur
    BY <1>8 DEF Executed, ExecutedThen, PointInv
  <2>2. /\ pc = "exec" /\ pc' = ret /\ UNCHANGED <<todo, started>>
        /\ ret \in Returns
        /\ ret = "kill" => killed'[c]
    BY <1>8, <2>1 DEF Executed, ExecutedThen, STypeOK, PointInv
  <2>3. CASE ret = "kill"
    BY <1>2, <2>1, <2>2, <2>3 DEF KillInv, NothingLeftRunning
  <2>4. CASE ret # "kill"
    BY <1>1, <2>2, <2>4 DEF Returns
  <2> QED
    BY <2>3, <2>4
<1>9. CASE StopAll
  <2>1. CASE todo # <<>>
    <3>1. Walk("stopAll", FALSE)
      BY <1>9, <2>1 DEF StopAll
    <3>2. pc' = "stopAll" \/ (pc' = "exec" /\ ret' = "stopAll")
      BY <3>1, WalkEffect
    <3> QED
      BY <1>1, <3>2
  <2>2. CASE todo = <<>>
    <3>1. Away
      BY <1>9, <2>2 DEF StopAll, Walk, Go
    <3> QED
      BY <1>1, <3>1
  <2> QED
    BY <2>1, <2>2
<1>10. CASE More
  <2>1. todo' = Order /\ pc' \in {"stopMore", "kill"}
    BY <1>10 DEF More, Go
  <2> QED
    BY <2>1, OrderIsList DEF KillInv, NothingLeftRunning
<1>11. CASE StopMore
  <2>1. CASE todo # <<>>
    <3>1. Walk("stopMore", FALSE)
      BY <1>11, <2>1 DEF StopMore, StopMoreTo
    <3>2. pc' = "stopMore" \/ (pc' = "exec" /\ ret' = "stopMore")
      BY <3>1, WalkEffect
    <3> QED
      BY <1>1, <3>2
  <2>2. CASE todo = <<>>
    <3>1. (pc' = "kill" /\ todo' = Order) \/ pc' = "more"
      BY <1>11, <2>2 DEF StopMore, StopMoreTo, Walk
    <3> QED
      BY <3>1, OrderIsList DEF KillInv, NothingLeftRunning
  <2> QED
    BY <2>1, <2>2
<1>12. CASE Kill
  <2>1. CASE todo # <<>>
    <3>1. pc = "kill" /\ Walk("kill", TRUE) /\ todo' = Tail(todo)
      BY <1>12, <2>1 DEF Kill, Walk
    <3>2. started' = started
      BY <3>1, WalkEffect
    <3>3. PICK h \in Commands : h = Head(todo)
      BY <3>1, WalkEffect
    <3>4. \A i \in 1 .. Len(todo) : todo[i] = h \/ \E k \in 1 .. Len(todo') : todo'[k] = todo[i]
      BY <2>1, <3>1, <3>3, WalkOn DEF STypeOK
    <3>5. \A c \in Commands : Alive(c) =>
            killed[c] \/ c = h \/ \E k \in 1 .. Len(todo') : todo'[k] = c
      BY <3>1, <3>4 DEF KillInv
    <3>6. CASE Alive(h)
      <4>1. pc' = "exec" /\ cur' = h
        BY <3>1, <3>3, <3>6 DEF Walk, Stop, Alive
      <4> QED
        BY <1>2, <3>2, <3>5, <4>1 DEF KillInv, NothingLeftRunning
    <3>7. CASE ~Alive(h)
      <4>1. pc' = "kill"
        BY <3>1, <3>3, <3>7 DEF Walk, Go
      <4> QED
        BY <1>2, <3>2, <3>5, <3>7, <4>1 DEF KillInv, NothingLeftRunning
    <3> QED
      BY <3>6, <3>7
  <2>2. CASE todo = <<>>
    <3>1. pc = "kill" /\ pc' = "logs" /\ started' = started
      BY <1>12, <2>2 DEF Kill, Walk, Go, cmdVars
    <3>2. \A c \in Commands : Alive(c) => killed[c]
      BY <2>2, <3>1 DEF KillInv
    <3> QED
      BY <1>2, <3>1, <3>2 DEF KillInv, NothingLeftRunning
  <2> QED
    BY <2>1, <2>2
<1>13. CASE Interrupt \/ Clock
  BY <1>0, <1>13, KillKept DEF Interrupt, Clock, mainVars, cmdVars
<1>14. ASSUME NEW c \in Commands, Thread(c) PROVE KillInv'
  BY <1>0, <1>14, ThreadEffect, KillKept DEF mainVars, cmdVars
<1>15. CASE UNCHANGED svars
  BY <1>0, <1>15, KillKept DEF svars, mainVars, cmdVars
<1> QED
  BY <1>3, <1>4, <1>5, <1>6, <1>7, <1>8, <1>9, <1>10, <1>11, <1>12, <1>13, <1>14, <1>15 DEF SNext, Main, Proceeds

-----------------------------------------------------------------------------
(* The run begins at the earliest time of the plan.                           *)
LEMMA FirstOfPlan ==
  LET first == CHOOSE c \in Timed : \A d \in Timed : Begin[c] <= Begin[d]
  IN  first \in Timed /\ Begin[first] \in 0 .. MaxTime
<1> DEFINE Times == {Begin[c] : c \in Timed}
<1>1. Times \subseteq Nat
  BY SchedulerAssumption DEF Timed
<1>2. PICK a \in Timed : Begin[a] <= MaxTime
  BY SchedulerAssumption DEF Timed
<1>3. PICK t \in Times : \A u \in Times : ~(<<u, t>> \in OpToRel(<, Nat))
  <2>1. Times # {}
    BY <1>2
  <2> QED
    BY <1>1, <2>1, NatLessThanWellFounded, WFMin
<1>4. \A u \in Times : t <= u
  <2>1. ASSUME NEW u \in Times PROVE ~(u < t)
    BY <1>1, <1>3 DEF OpToRel
  <2> QED
    BY <1>1, <2>1
<1>5. PICK b \in Timed : \A d \in Timed : Begin[b] <= Begin[d]
  BY <1>4
<1> DEFINE first == CHOOSE c \in Timed : \A d \in Timed : Begin[c] <= Begin[d]
<1>6. first \in Timed /\ \A d \in Timed : Begin[first] <= Begin[d]
  BY <1>5
<1>7. Begin[first] \in Nat /\ Begin[a] \in Nat /\ MaxTime \in Nat
  BY <1>1, <1>6, SchedulerAssumption
<1> QED
  BY <1>2, <1>6, <1>7

LEMMA SchedulerInit == SInit => SchedulerInv
<1> SUFFICES ASSUME SInit PROVE SchedulerInv
  OBVIOUS
<1>1. now \in 0 .. MaxTime
  BY FirstOfPlan DEF SInit
<1>2. STypeOK
  <2>1. /\ started \in [Commands -> BOOLEAN] /\ stopped \in [Commands -> BOOLEAN]
        /\ started_time \in [Commands -> 0 .. MaxTime]
        /\ job \in [Commands -> Jobs]
        /\ told \in [Commands -> BOOLEAN] /\ killed \in [Commands -> BOOLEAN]
        /\ \A c \in Commands : started[c] <=> job[c] # "none"
    BY SchedulerAssumption DEF SInit, Jobs
  <2>2. todo \in Seq(Commands) /\ (event = FALSE) /\ (unprepared = FALSE)
    <3>1. <<>> \in Seq(Commands)
      OBVIOUS
    <3> QED
      BY <3>1, Zenon DEF SInit
  <2>3. /\ pc \in {"delete", "mkdirs"}
        /\ nxt \in Entries \cup {None} /\ wake \in Nat /\ cur \in Commands \cup {None}
        /\ tries \in 0 .. MaxStops + 1
        /\ left \subseteq {"init", "copy", "post"}
    BY SchedulerAssumption DEF SInit
  <2> QED
    BY <1>1, <2>1, <2>2, <2>3 DEF STypeOK
<1>3. PointInv
  BY SchedulerAssumption DEF SInit, PointInv, Returns
<1>4. \A c \in Commands : ~started[c] /\ ~told[c]
  BY DEF SInit
<1>5. PhaseInv /\ PlanInv /\ PlanInOrder
  BY <1>4 DEF SInit, PhaseInv, PlanInv, PlanInOrder, Timed
<1>6. StopInv /\ KillInv
  BY <1>4 DEF SInit, StopInv, StopsAreDue, KillInv, NothingLeftRunning, Ending
<1> QED
  BY <1>2, <1>3, <1>5, <1>6 DEF SchedulerInv

LEMMA SchedulerKept == SchedulerInv /\ [SNext]_svars => SchedulerInv'
  BY TypeNext, PointNext, PhaseNext, PlanNext, OrderNext, StopNext, KillNext DEF SchedulerInv

LEMMA SchedulerAlways == SSpec => []SchedulerInv
  BY SchedulerInit, SchedulerKept, PTL DEF SSpec

-----------------------------------------------------------------------------
(* When nothing of the plan is lost. A stop that has become due ends a sleep, *)
(* and is looked for again: in between the command may have ended by itself.  *)
(* In a plan where what stops a command also starts one, that one is found.   *)
EveryTriggerStarts ==
  \A c \in Commands : StopAfter[c] # None => \E d \in Commands : StartAfter[d] = StopAfter[c]

(* A dependent is started, or in hand to be started, only when the command it *)
(* waits for has ended.                                                       *)
Startable == {c \in Commands : StartAfter[c] # None /\ HasEnded(StartAfter[c])}

StartedAfterInv ==
  /\ \A d \in Commands : started[d] /\ StartAfter[d] # None => d \in Startable
  /\ pc = "starting" \/ (pc = "join" /\ ret = "starting") =>
       \A i \in 1 .. Len(todo) : todo[i] \in Startable

AfterPlan == {"drain", "drainSleep", "more", "logs", "post", "done"} \cup Ending

(* While the main thread sleeps, a command that could be stopped comes with   *)
(* one that can be started, which stays so, so the second look sees it.       *)
AwakeInv ==
  /\ pc \in {"pick", "sleep", "wait"} =>
       ((\E c \in Commands : ReadyStop(c)) => \E d \in Commands : ReadyStart(d))
  /\ pc = "recheck" => event \/ ~Unfinished \/ \E d \in Commands : ReadyStart(d)
  /\ pc \in AfterPlan \/ (pc = "exec" /\ ret \in Ending) => event \/ \A c \in Commands : started[c]

CompleteInv == StartedAfterInv /\ AwakeInv

LEMMA StartedAfterNext == SchedulerInv /\ StartedAfterInv /\ [SNext]_svars => StartedAfterInv'
<1> SUFFICES ASSUME SchedulerInv, StartedAfterInv, [SNext]_svars PROVE StartedAfterInv'
  OBVIOUS
<1> USE DEF SchedulerInv
<1> DEFINE Walking == pc = "starting" \/ (pc = "join" /\ ret = "starting")
<1>1. Onwards
  BY GoesOnwards
<1>2. ASSUME NEW c \in Startable PROVE c \in Startable'
  <2>1. c \in Commands /\ StartAfter[c] \in Commands
    BY SchedulerAssumption DEF Startable
  <2> QED
    BY <1>1, <2>1 DEF Onwards, Startable
<1>3. ASSUME started' = started, ~Walking' \/ (Walking /\ todo' = todo) PROVE StartedAfterInv'
  <2>1. \A d \in Commands : started'[d] /\ StartAfter[d] # None => d \in Startable'
    BY <1>2, <1>3 DEF StartedAfterInv
  <2>2. Walking' => \A i \in 1 .. Len(todo') : todo'[i] \in Startable'
    BY <1>2, <1>3 DEF StartedAfterInv
  <2> QED
    BY <2>1, <2>2 DEF StartedAfterInv
<1>4. CASE Phase \/ Run
  BY <1>3, <1>4 DEF Phase, DeleteLogs, MakeDirs, InitCmds, CopyFiles, GetLogs, PostCmds, LocalPhase,
                    OrRaise, Run, Go, cmdVars
<1>5. CASE Top \/ Deps \/ ListStops \/ Pick \/ Sleep \/ Woken \/ Recheck \/ Drain \/ DrainSleep \/ More
  BY <1>3, <1>5 DEF Top, Deps, ListStops, Pick, Sleep, Woken, Recheck, Drain, DrainSleep, More, Go,
                    Pause, cmdVars
<1>6. CASE ListStarts
  <2>1. PICK S \in SUBSET Commands : S = {c \in Commands : ReadyStart(c)}
    OBVIOUS
  <2>2. todo' \in SetToSeqs(S) /\ started' = started
    BY <1>6, <2>1 DEF ListStarts, Go, cmdVars
  <2>3. \A i \in 1 .. Len(todo') : todo'[i] \in S
    BY <2>2, ListOfSome
  <2>4. S \subseteq Startable
    BY <2>1 DEF ReadyStart, Startable
  <2>5. \A i \in 1 .. Len(todo') : todo'[i] \in Startable'
    BY <1>2, <2>3, <2>4
  <2>6. \A d \in Commands : started'[d] /\ StartAfter[d] # None => d \in Startable'
    BY <1>2, <2>2 DEF StartedAfterInv
  <2> QED
    BY <2>5, <2>6 DEF StartedAfterInv
<1>7. CASE StartDependent
  <2>1. CASE todo = <<>>
    BY <1>3, <1>7, <2>1 DEF StartDependent, Go, cmdVars
  <2>2. CASE todo # <<>>
    <3>1. PICK h \in Commands : h = Head(todo) /\ h = todo[1]
      BY <2>2, WalkOn DEF STypeOK
    <3>2. \A i \in 1 .. Len(Tail(todo)) : i + 1 \in 1 .. Len(todo) /\ Tail(todo)[i] = todo[i + 1]
      BY <2>2, WalkOn DEF STypeOK
    <3>3. pc = "starting" /\ todo' = Tail(todo)
          /\ \A d \in Commands : started'[d] => started[d] \/ d = h
      BY <1>7, <2>2, <3>1 DEF StartDependent, Start, Go, cmdVars, STypeOK
    <3>4. 1 \in 1 .. Len(todo)
      BY <2>2 DEF STypeOK
    <3>5. h \in Startable
      BY <3>1, <3>3, <3>4 DEF StartedAfterInv
    <3>6. \A i \in 1 .. Len(todo') : todo'[i] \in Startable'
      BY <1>2, <3>2, <3>3 DEF StartedAfterInv
    <3>7. \A d \in Commands : started'[d] /\ StartAfter[d] # None => d \in Startable'
      BY <1>2, <3>3, <3>5 DEF StartedAfterInv
    <3> QED
      BY <3>6, <3>7 DEF StartedAfterInv
  <2> QED
    BY <2>1, <2>2
<1>8. CASE StopDependent
  <2>1. CASE todo = <<>>
    BY <1>3, <1>8, <2>1 DEF StopDependent, Go, cmdVars
  <2>2. CASE todo # <<>>
    <3>1. Head(todo) \in Commands /\ Stop(Head(todo), "stopping", FALSE)
      BY <1>8, <2>2, WalkOn DEF StopDependent, STypeOK
    <3>2. started' = started /\ pc' \in {"stopping", "exec"}
      BY <3>1, StopEffect
    <3> QED
      BY <1>3, <3>2
  <2> QED
    BY <2>1, <2>2
<1>9. CASE Do
  <2>1. nxt.cmd \in Commands /\ pc = "do" /\ Planned(nxt)
    BY <1>9 DEF Do, PointInv, PlanInv, Entries
  <2>2. CASE nxt.stop
    <3>1. started' = started /\ pc' \in {"top", "exec"}
      BY <1>9, <2>1, <2>2, StopEffect DEF Do
    <3> QED
      BY <1>3, <3>1
  <2>3. CASE ~nxt.stop /\ started[nxt.cmd]
    BY <1>3, <1>9, <2>3 DEF Do, Go, cmdVars
  <2>4. CASE ~nxt.stop /\ ~started[nxt.cmd]
    <3>1. StartAfter[nxt.cmd] = None
      BY <2>1, <2>4, SchedulerAssumption DEF Planned, Timed
    <3>2. pc' = "top" \/ (pc' = "join" /\ ret' = "top")
      BY <1>9, <2>4 DEF Do, Start
    <3>3. \A d \in Commands : started'[d] => started[d] \/ d = nxt.cmd
      BY <1>9, <2>4 DEF Do, Start, STypeOK
    <3>4. \A d \in Commands : started'[d] /\ StartAfter[d] # None => d \in Startable'
      BY <1>2, <3>1, <3>3 DEF StartedAfterInv
    <3> QED
      BY <3>2, <3>4 DEF StartedAfterInv
  <2> QED
    BY <2>2, <2>3, <2>4
<1>10. CASE Joined \/ Executed
  BY <1>3, <1>10 DEF Joined, Executed, ExecutedThen, cmdVars, PointInv
<1>11. CASE StopAll \/ StopMore \/ Kill
  <2>1. started' = started /\ pc' \in Ending \cup {"exec", "more", "logs"}
    BY <1>11, WalkEffect DEF StopAll, StopMore, StopMoreTo, Kill, Go, Ending, cmdVars
  <2> QED
    BY <1>3, <2>1 DEF Ending
<1>12. CASE Interrupt \/ Clock \/ UNCHANGED svars
  BY <1>3, <1>12 DEF Interrupt, Clock, svars, mainVars, cmdVars
<1>13. ASSUME NEW c \in Commands, Thread(c) PROVE StartedAfterInv'
  BY <1>3, <1>13, ThreadEffect DEF mainVars, cmdVars
<1> QED
  BY <1>4, <1>5, <1>6, <1>7, <1>8, <1>9, <1>10, <1>11, <1>12, <1>13 DEF SNext, Main, Proceeds

(* What can be started stays so until the main thread starts it.              *)
LEMMA ReadyStays ==
  ASSUME Onwards, started' = started, NEW d \in Commands, ReadyStart(d)
  PROVE  ReadyStart(d)'
<1>1. StartAfter[d] \in Commands
  BY SchedulerAssumption DEF ReadyStart
<1> QED
  BY <1>1 DEF Onwards, ReadyStart

(* A trigger that ends while the main thread sleeps makes a dependent ready.  *)
LEMMA TriggerStarts ==
  ASSUME EveryTriggerStarts, STypeOK, StartedAfterInv, Onwards, started' = started,
         (\E c \in Commands : ReadyStop(c)) => \E d \in Commands : ReadyStart(d)
  PROVE  (\E c \in Commands : ReadyStop(c)') => \E d \in Commands : ReadyStart(d)'
<1> SUFFICES ASSUME NEW c \in Commands, ReadyStop(c)' PROVE \E d \in Commands : ReadyStart(d)'
  OBVIOUS
<1>1. PICK x \in Commands : x = StopAfter[c] /\ StopAfter[c] # None /\ HasEnded(x)' /\ Alive(c)'
  BY SchedulerAssumption DEF ReadyStop
<1>2. Alive(c)
  BY <1>1, AliveBefore
<1>3. CASE HasEnded(x)
  <2>1. ReadyStop(c)
    BY <1>1, <1>2, <1>3 DEF ReadyStop
  <2>2. PICK d \in Commands : ReadyStart(d)
    BY <2>1
  <2> QED
    BY <2>2, ReadyStays
<1>4. CASE ~HasEnded(x)
  <2>1. PICK d \in Commands : StartAfter[d] = x
    BY <1>1 DEF EveryTriggerStarts
  <2>2. x # None
    BY <1>1
  <2>3. ~started[d]
    BY <1>4, <2>1, <2>2 DEF StartedAfterInv, Startable
  <2>4. ~started'[d]
    BY <2>3
  <2>5. ReadyStart(d)'
    BY <1>1, <2>1, <2>2, <2>4 DEF ReadyStart
  <2> QED
    BY <2>5
<1> QED
  BY <1>3, <1>4

LEMMA AwakeKept ==
  ASSUME EveryTriggerStarts, SchedulerInv, StartedAfterInv, AwakeInv, Onwards,
         started' = started, pc' = pc, ret' = ret
  PROVE  AwakeInv'
<1> USE DEF SchedulerInv
<1>1. pc \in {"pick", "sleep", "wait"} =>
        ((\E c \in Commands : ReadyStop(c)') => \E d \in Commands : ReadyStart(d)')
  BY TriggerStarts DEF AwakeInv
<1>2. pc = "recheck" => event' \/ ~Unfinished' \/ \E d \in Commands : ReadyStart(d)'
  <2>1. event => event'
    BY DEF Onwards
  <2>2. ~Unfinished => ~Unfinished'
    <3> SUFFICES ASSUME ~Unfinished, NEW c \in Commands PROVE started'[c] /\ Exited(c)'
      BY DEF Unfinished
    <3>1. HasEnded(c)
      BY DEF Unfinished, HasEnded
    <3> QED
      BY <3>1 DEF Onwards, HasEnded
  <2>3. (\E d \in Commands : ReadyStart(d)) => \E d \in Commands : ReadyStart(d)'
    BY ReadyStays
  <2> QED
    BY <2>1, <2>2, <2>3 DEF AwakeInv
<1>3. pc \in AfterPlan \/ (pc = "exec" /\ ret \in Ending) => event' \/ \A c \in Commands : started'[c]
  BY DEF AwakeInv, Onwards
<1> QED
  BY <1>1, <1>2, <1>3 DEF AwakeInv

LEMMA AwakeNext == EveryTriggerStarts /\ SchedulerInv /\ CompleteInv /\ [SNext]_svars => AwakeInv'
<1> SUFFICES ASSUME EveryTriggerStarts, SchedulerInv, CompleteInv, [SNext]_svars PROVE AwakeInv'
  OBVIOUS
<1> USE DEF SchedulerInv, CompleteInv
<1> DEFINE Asleep == {"pick", "sleep", "wait"}
           Started == event \/ \A c \in Commands : started[c]
           Awake(p, r) == p \notin AfterPlan \cup Asleep \cup {"recheck"} /\ ~(p = "exec" /\ r \in Ending)
<1>1. Onwards
  BY GoesOnwards
<1>2. ASSUME Awake(pc', ret') PROVE AwakeInv'
  BY <1>2 DEF AwakeInv
<1>3. ASSUME Started, pc' \notin Asleep \cup {"recheck"} PROVE AwakeInv'
  BY <1>1, <1>3 DEF AwakeInv, Onwards
<1>4. ASSUME UNCHANGED <<started, pc, ret>> PROVE AwakeInv'
  BY <1>1, <1>4, AwakeKept
<1>5. ASSUME pc \in Asleep, started' = started, pc' \in Asleep PROVE AwakeInv'
  <2>1. (\E c \in Commands : ReadyStop(c)') => \E d \in Commands : ReadyStart(d)'
    BY <1>1, <1>5, TriggerStarts DEF AwakeInv
  <2> QED
    BY <1>5, <2>1 DEF AwakeInv, AfterPlan, Ending
<1>6. CASE DeleteLogs \/ MakeDirs \/ InitCmds \/ CopyFiles
  <2>1. pc' \in {"mkdirs", "init", "copy", "run", "raised"}
    BY <1>6 DEF DeleteLogs, MakeDirs, InitCmds, CopyFiles, LocalPhase, OrRaise
  <2> QED
    BY <1>2, <2>1 DEF AfterPlan, Ending
<1>7. CASE GetLogs \/ PostCmds
  <2>1. pc \in {"logs", "post"} /\ pc' \in {"post", "done", "raised"}
    BY <1>7 DEF GetLogs, PostCmds, LocalPhase, OrRaise
  <2>2. Started
    BY <2>1 DEF AwakeInv, AfterPlan
  <2> QED
    BY <1>3, <2>1, <2>2
<1>8. CASE Run
  <2>1. (event /\ pc' = "logs") \/ pc' = "top"
    BY <1>8 DEF Run, Go
  <2> QED
    BY <1>2, <1>3, <2>1 DEF AfterPlan, Ending
<1>9. CASE Top
  <2>1. (~Unfinished /\ pc' = "drain") \/ pc' = "deps"
    BY <1>9 DEF Top, Go
  <2>2. ~Unfinished => Started
    BY DEF Unfinished
  <2> QED
    BY <1>2, <1>3, <2>1, <2>2 DEF AfterPlan, Ending
<1>10. CASE Deps
  <2>1. CASE Waiting
    <3>1. pc' = "listStarts"
      BY <1>10, <2>1 DEF Deps, Go
    <3> QED
      BY <1>2, <3>1 DEF AfterPlan, Ending
  <2>2. CASE ~Waiting
    <3>1. pc' = "pick" /\ UNCHANGED <<started, stopped, job>>
      BY <1>10, <2>2 DEF Deps, Go, cmdVars
    <3>2. \A c \in Commands : ~ReadyStop(c)'
      BY <2>2, <3>1 DEF Waiting, ReadyStop, HasEnded, Alive, Exited
    <3> QED
      BY <3>1, <3>2 DEF AwakeInv, AfterPlan, Ending
  <2> QED
    BY <2>1, <2>2
<1>11. CASE ListStarts \/ StartDependent \/ ListStops
  <2>1. pc' \in {"starting", "join", "listStops", "stopping"}
    BY <1>11 DEF ListStarts, StartDependent, ListStops, Go, Start
  <2> QED
    BY <1>2, <2>1 DEF AfterPlan, Ending
<1>12. CASE StopDependent
  <2>1. CASE todo = <<>>
    <3>1. pc' = "deps"
      BY <1>12, <2>1 DEF StopDependent, Go
    <3> QED
      BY <1>2, <3>1 DEF AfterPlan, Ending
  <2>2. CASE todo # <<>>
    <3>1. Head(todo) \in Commands /\ Stop(Head(todo), "stopping", FALSE)
      BY <1>12, <2>2, WalkOn DEF StopDependent, STypeOK
    <3>2. pc' = "stopping" \/ (pc' = "exec" /\ ret' = "stopping")
      BY <3>1, StopEffect
    <3> QED
      BY <1>2, <3>2 DEF AfterPlan, Ending
  <2> QED
    BY <2>1, <2>2
<1>13. CASE Pick \/ Sleep
  <2>1. pc \in Asleep /\ started' = started /\ pc' \in Asleep \cup {"top", "do"}
    BY <1>13 DEF Pick, Sleep, Go, Pause, cmdVars
  <2> QED
    BY <1>2, <1>5, <2>1 DEF AfterPlan, Ending
<1>14. CASE Woken
  <2>1. pc = "wait" /\ UNCHANGED <<event, started, stopped, job>>
    BY <1>14 DEF Woken, Go, cmdVars
  <2>2. CASE event \/ ~Unfinished \/ Waiting
    <3>1. pc' = "recheck"
      BY <1>14, <2>2 DEF Woken, Go
    <3>2. event \/ ~Unfinished \/ \E d \in Commands : ReadyStart(d)
      BY <2>1, <2>2 DEF AwakeInv, Waiting
    <3>3. event' \/ ~Unfinished' \/ \E d \in Commands : ReadyStart(d)'
      BY <2>1, <3>2 DEF Unfinished, ReadyStart, HasEnded, Exited
    <3> QED
      BY <3>1, <3>3 DEF AwakeInv, AfterPlan, Ending
  <2>3. CASE ~(event \/ ~Unfinished \/ Waiting)
    <3>1. pc' = "sleep"
      BY <1>14, <2>3 DEF Woken, Go
    <3> QED
      BY <1>5, <2>1, <3>1
  <2> QED
    BY <2>2, <2>3
<1>15. CASE Recheck
  <2>1. CASE Waiting
    <3>1. pc' = "top"
      BY <1>15, <2>1 DEF Recheck, Go
    <3> QED
      BY <1>2, <3>1 DEF AfterPlan, Ending
  <2>2. CASE ~Waiting
    <3>1. pc = "recheck" /\ pc' = "drain"
      BY <1>15, <2>2 DEF Recheck, Go
    <3>2. event \/ ~Unfinished
      BY <2>2, <3>1 DEF AwakeInv, Waiting
    <3>3. Started
      BY <3>2 DEF Unfinished
    <3> QED
      BY <1>3, <3>1, <3>3
  <2> QED
    BY <2>1, <2>2
<1>16. CASE Do
  <2>1. nxt.cmd \in Commands
    BY <1>16 DEF Do, PointInv, Entries
  <2>2. CASE nxt.stop
    <3>1. pc' = "top" \/ (pc' = "exec" /\ ret' = "top")
      BY <1>16, <2>1, <2>2, StopEffect DEF Do
    <3> QED
      BY <1>2, <3>1 DEF AfterPlan, Ending
  <2>3. CASE ~nxt.stop
    <3>1. pc' \in {"top", "join"}
      BY <1>16, <2>3 DEF Do, Go, Start
    <3> QED
      BY <1>2, <3>1 DEF AfterPlan, Ending
  <2> QED
    BY <2>2, <2>3
<1>17. CASE Joined \/ Executed
  <2>1. pc \in {"join", "exec"} /\ pc' = ret /\ ret \in Returns
    BY <1>17 DEF Joined, Executed, ExecutedThen, PointInv
  <2>2. CASE ret \in Ending
    <3>1. pc = "exec"
      BY <2>1, <2>2 DEF PointInv, Ending
    <3> QED
      BY <1>3, <2>1, <2>2, <3>1 DEF AwakeInv, Ending
  <2>3. CASE ret \notin Ending
    BY <1>2, <2>1, <2>3 DEF Returns, AfterPlan, Ending
  <2> QED
    BY <2>2, <2>3
<1>18. CASE Drain \/ DrainSleep \/ StopAll \/ More \/ StopMore \/ Kill
  <2>1. pc \in AfterPlan /\ pc' \in AfterPlan \cup {"exec"}
    BY <1>18, WalkEffect DEF Drain, DrainSleep, StopAll, More, StopMore, StopMoreTo, Kill, Go, Pause,
                             AfterPlan, Ending
  <2>2. Started
    BY <2>1 DEF AwakeInv
  <2> QED
    BY <1>3, <2>1, <2>2 DEF AfterPlan, Ending
<1>19. CASE Interrupt \/ Clock \/ UNCHANGED svars
  BY <1>4, <1>19 DEF Interrupt, Clock, svars, mainVars, cmdVars
<1>20. ASSUME NEW c \in Commands, Thread(c) PROVE AwakeInv'
  BY <1>4, <1>20, ThreadEffect DEF mainVars, cmdVars
<1> QED
  BY <1>6, <1>7, <1>8, <1>9, <1>10, <1>11, <1>12, <1>13, <1>14, <1>15, <1>16, <1>17, <1>18, <1>19,
     <1>20 DEF SNext, Main, Proceeds, Phase

LEMMA CompleteInit == SInit => CompleteInv
  BY DEF SInit, CompleteInv, StartedAfterInv, AwakeInv, AfterPlan, Ending

(* Each variable keeps to its range, whatever the plan, the programs and the  *)
(* user do.                                                                   *)
THEOREM SchedulerTyped == SSpec => []STypeOK
<1>1. SchedulerInv => STypeOK
  BY DEF SchedulerInv
<1> QED
  BY <1>1, SchedulerAlways, PTL

(* The plan is executed in its order (next_commands sorts, sleep_for and      *)
(* start act on the entry it gave first), however late the main thread is and *)
(* whatever the dependents do in between.                                     *)
THEOREM PlanRunsInOrder == SSpec => []PlanInOrder
<1>1. SchedulerInv => PlanInOrder
  BY DEF SchedulerInv
<1> QED
  BY <1>1, SchedulerAlways, PTL

(* No command is started after a phase that failed, or that left a program    *)
(* of its own running: the event its LocalProcess has set, or was stopped by, *)
(* is what run_commands looks at first.                                       *)
THEOREM NothingStartsUnprepared == SSpec => []PreparedFirst
<1>1. SchedulerInv => PreparedFirst
  BY DEF SchedulerInv, PhaseInv, PreparedFirst
<1> QED
  BY <1>1, SchedulerAlways, PTL

(* A stop command reaches a host only when the command is due to end: at its  *)
(* time, after the command it waits for, or because something failed.         *)
THEOREM StopsOnlyWhatIsDue == SSpec => []StopsAreDue
<1>1. SchedulerInv => StopsAreDue
  BY DEF SchedulerInv, StopInv
<1> QED
  BY <1>1, SchedulerAlways, PTL

(* run_commands returns with no program running that kill -9 was not tried    *)
(* on, however many stops had no effect.                                      *)
THEOREM LeavesNothingRunning == SSpec => []NothingLeftRunning
<1>1. SchedulerInv => NothingLeftRunning
  BY DEF SchedulerInv, KillInv
<1> QED
  BY <1>1, SchedulerAlways, PTL

(* In a plan where every command that stops another also starts one, a run    *)
(* that reports success has started every command (the two looks of           *)
(* shremote.py:783 and 818), whatever ends in between.                        *)
THEOREM PlanIsComplete ==
  ASSUME EveryTriggerStarts
  PROVE  SSpec => []CompleteUnlessHalted
<1>1. CompleteInv => CompleteUnlessHalted
  BY DEF CompleteInv, AwakeInv, AfterPlan, CompleteUnlessHalted
<1>2. SchedulerInv /\ CompleteInv /\ [SNext]_svars => CompleteInv'
  BY StartedAfterNext, AwakeNext DEF CompleteInv
<1> QED
  BY <1>1, <1>2, CompleteInit, SchedulerAlways, PTL DEF SSpec

-----------------------------------------------------------------------------
(* The thread of each command, as JobThread describes one. A program with a   *)
(* stop command has no limit that its thread knows of (shremote.py:479).      *)
(* Output that cannot be decoded may come at any time.                        *)
T(c) == INSTANCE JobThread WITH
  job <- job[c], began <- started_time[c], garbled <- TRUE, others <- FALSE,
  Limit <- IF c \in HasStop THEN None ELSE MaxDur[c]

(* What the threads do here is what JobThread says a thread may do, no more   *)
(* and no less, and nothing else of the state is touched by it. That the code *)
(* of the thread does no more is ThreadImplementsJob, of RemoteProcess.       *)
THEOREM ThreadsAreJobs ==
  ASSUME STypeOK, NEW c \in Commands
  PROVE  Thread(c) <=>
           /\ T(c)!Thread
           /\ job' = [job EXCEPT ![c] = job[c]']
           /\ UNCHANGED <<mainVars, cmdVars, told, killed, phases>>
<1> DEFINE Rest == UNCHANGED <<now, mainVars, cmdVars, told, killed, phases>>
           Only == job' = [job EXCEPT ![c] = job[c]']
<1>t. /\ job \in [Commands -> Jobs] /\ now \in Nat /\ event \in BOOLEAN
      /\ MaxDur[c] \in Nat \cup {None} /\ started_time[c] \in Nat
  BY SchedulerAssumption DEF STypeOK
<1>j. ASSUME NEW from, NEW to
      PROVE  Job(c, from, to) <=> T(c)!Moves(from, to) /\ Only /\ Rest
  BY <1>t, Zenon DEF Job, T!Moves, cmdVars
<1>k. ASSUME NEW from, NEW to
      PROVE  T(c)!Turns(from, to) <=> T(c)!Moves(from, to)
  BY DEF T!Turns
<1>1. Connects(c) <=> T(c)!Connects /\ Only /\ Rest
  BY <1>j, <1>k DEF Connects, T!Connects
<1>2. Ends(c) <=> T(c)!Ends /\ Only /\ Rest
  BY <1>j, <1>k DEF Ends, T!Ends
<1>3. Judges(c) <=> T(c)!Judges /\ Only /\ Rest
  BY <1>j, <1>k DEF Judges, T!Judges
<1>4. Overruns(c) <=> T(c)!Overruns /\ Only /\ Rest
  <2>1. Job(c, "up", "up") <=> job[c] = "up" /\ job[c]' = "up" /\ Only /\ Rest
    BY <1>t, Zenon DEF Job
  <2>2. T(c)!Overruns <=>
          /\ (IF c \in HasStop THEN None ELSE MaxDur[c]) # None
          /\ job[c] = "up" /\ ~event
          /\ Reached(started_time[c] + (IF c \in HasStop THEN None ELSE MaxDur[c]))
          /\ event' = TRUE
          /\ UNCHANGED <<now, job[c], started_time[c]>>
    BY DEF T!Overruns, Reached
  <2> QED
    BY <2>1, <2>2 DEF Overruns, cmdVars
<1>5. Garbles(c) <=> T(c)!Garbles /\ Only /\ Rest
  BY <1>j DEF Garbles, T!Garbles
<1>6. Loses(c) <=> T(c)!Loses /\ Only /\ Rest
  BY <1>j DEF Loses, T!Loses
<1>7. T(c)!Thread <=> \/ T(c)!Connects \/ T(c)!Ends \/ T(c)!Judges
                      \/ T(c)!Overruns \/ T(c)!Garbles \/ T(c)!Loses
  BY DEF T!Thread
<1>8. T(c)!Thread => UNCHANGED now
  BY DEF T!Thread, T!Connects, T!Ends, T!Judges, T!Overruns, T!Garbles, T!Loses,
         T!Turns, T!Moves
<1> HIDE DEF Rest, Only
<1>9. Thread(c) <=> T(c)!Thread /\ Only /\ Rest
  BY <1>1, <1>2, <1>3, <1>4, <1>5, <1>6, <1>7 DEF Thread
<1> QED
  BY <1>8, <1>9 DEF Rest, Only
=============================================================================
