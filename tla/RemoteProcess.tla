--------------------------- MODULE RemoteProcess ---------------------------
(* One program started over SSH and the thread that watches it:               *)
(* RemoteProcess (src/Shremote/shlib/remote_process.py) with monitor_process  *)
(* (checked_process.py), between exec_cmd and the end of the thread, which is *)
(* what proc.join() of the main thread waits for.                             *)
(*                                                                            *)
(* The thread is taken to be prompt: time passes only while it waits. One     *)
(* tick is the shortest wait of monitor_process, 0.05 seconds.                *)
EXTENDS Integers, Sequences

CONSTANTS
  NoValue,      \* None
  MaxDuration,  \* max_duration, or NoValue
  MinDuration,  \* min_duration, or NoValue
  CheckedRtn,   \* checked_rtn, or NoValue
  Interval,     \* CHECK_CALL_INTERVAL
  Codes,        \* exit codes of the program
  MaxOut,       \* bound of the model: chunks of output after the PID
  MaxErr,       \* bound of the model: chunks of error output
  MaxGarbled,   \* bound of the model: reads that cannot be decoded
  MaxTime       \* bound of the model: the clock stops here, and waits are over

ASSUME ProcessAssumption ==
  /\ MaxDuration \in Nat \cup {NoValue} /\ MinDuration \in Nat \cup {NoValue}
  /\ CheckedRtn \in Codes \cup {NoValue}
  /\ Interval \in Nat \ {0} /\ MaxOut \in Nat /\ MaxErr \in Nat
  /\ MaxGarbled \in Nat /\ MaxTime \in Nat

VARIABLES
  now,
  event,       \* error_event, shared with every other thread of Shremote
  pc,          \* where the monitor thread is
  stage,       \* it is in monitor_process, or past it and waits for the end of
               \* the program, in the loop of run_process_monitor or its except
  ready,       \* `exited`, the local variable of poll
  exited,      \* self.exited
  rtn_code,    \* what poll returned at last
  first_line,  \* self.first_line
  start_time, duration, wake,
  remote,      \* the program: "none", "up" or "gone"
  code, gone,  \* its exit code, and when it ended
  written,     \* chunks it has written to its output
  outQ, errQ,  \* output and error output the channel holds
  garbled,     \* history: reads that could not be decoded
  connFailed,  \* history: connect or exec_command raised
  otherFailed  \* history: another thread has set the event

remoteVars  == <<remote, code, gone, written, errQ>>
monitorVars == <<pc, stage, ready, exited, rtn_code, first_line, start_time,
                 duration, wake, garbled, connFailed>>
vars == <<now, event, monitorVars, remoteVars, outQ, otherFailed>>

Lines == {"pid", "out"}

PTypeOK ==
  /\ now \in 0 .. MaxTime /\ event \in BOOLEAN
  /\ pc \in {"connect", "start", "poll", "recv", "loop", "sleep", "verify", "end"}
  /\ stage \in {"monitor", "wait", "except"} /\ ready \in BOOLEAN /\ exited \in BOOLEAN
  /\ exited => remote = "gone" /\ rtn_code = code
  /\ rtn_code \in Codes \cup {NoValue} /\ first_line \in Lines \cup {NoValue}
  /\ start_time \in 0 .. now /\ duration \in 0 .. now /\ wake \in 0 .. MaxTime + Interval
  /\ remote \in {"none", "up", "gone"} /\ code \in Codes \cup {NoValue}
  /\ gone \in 0 .. now /\ written \in 0 .. MaxOut + 1
  /\ outQ \in Seq(Lines) /\ errQ \in 0 .. MaxErr
  /\ garbled \in 0 .. MaxGarbled
  /\ connFailed \in BOOLEAN /\ otherFailed \in BOOLEAN

PInit ==
  /\ now = 0 /\ event = FALSE
  /\ pc = "connect" /\ stage = "monitor" /\ ready = FALSE /\ exited = FALSE
  /\ rtn_code = NoValue /\ first_line = NoValue
  /\ start_time = 0 /\ duration = 0 /\ wake = 0
  /\ remote = "none" /\ code = NoValue /\ gone = 0
  /\ written = 0 /\ outQ = <<>> /\ errQ = 0
  /\ garbled = 0 /\ connFailed = FALSE /\ otherFailed = FALSE

-----------------------------------------------------------------------------
(* connect and start: an exception sets the event and ends the thread.        *)
Connect ==
  /\ pc = "connect" /\ pc' = "start"
  /\ UNCHANGED <<now, event, stage, ready, exited, rtn_code, first_line, start_time,
                 duration, wake, garbled, connFailed, remoteVars, outQ, otherFailed>>

FailsWith(error) ==
  /\ pc \in {"connect", "start"} /\ pc' = "end"
  /\ event' = error /\ connFailed' = TRUE
  /\ UNCHANGED <<now, stage, ready, exited, rtn_code, first_line, start_time,
                 duration, wake, garbled, remoteVars, outQ, otherFailed>>

(* Mutant: the thread ends without a word.                                    *)
FailsQuietly == FailsWith(event)

ConnectFails == FailsWith(TRUE)

StartProgram ==
  /\ pc = "start" /\ pc' = "poll"
  /\ remote' = "up" /\ start_time' = now
  /\ UNCHANGED <<now, event, stage, ready, exited, rtn_code, first_line, duration, wake,
                 garbled, connFailed, code, gone, written, errQ, outQ, otherFailed>>

(* A read takes a piece of the output. Only its first line, the PID, is known *)
(* to be text.                                                                *)
Pieces == 1 .. Len(outQ)

Takes(k) == outQ' = SubSeq(outQ, k + 1, Len(outQ))

(* decode raises: a character that is none, or is cut in two by the read. The *)
(* piece is gone. In the `try` of run_process_monitor the event is set and    *)
(* the thread goes on to wait in the `except`; there, it is over.             *)
Garbles ==
  /\ garbled < MaxGarbled /\ garbled' = garbled + 1
  /\ \E k \in Pieces : (\E i \in 1 .. k : outQ[i] = "out") /\ Takes(k)
  /\ IF stage = "except" THEN pc' = "end" /\ UNCHANGED <<event, stage>>
                         ELSE pc' = "poll" /\ event' = TRUE /\ stage' = "except"
  /\ UNCHANGED <<exited, rtn_code, first_line>>

(* The last lines of poll, and where its caller goes on: the loop of          *)
(* monitor_process, or a loop that only waits for the end.                    *)
PollReturns(isReady) ==
  /\ exited' = isReady
  /\ rtn_code' = IF isReady THEN code ELSE NoValue
  /\ pc' = IF isReady THEN "verify" ELSE IF stage = "monitor" THEN "loop" ELSE "poll"
  /\ UNCHANGED <<event, stage, garbled>>

(* When error output waits, log_output calls recv, which reads OUTPUT and may *)
(* block.                                                                     *)
Logged(isReady) ==
  IF errQ = 0 THEN PollReturns(isReady)
  ELSE pc' = "recv" /\ UNCHANGED <<exited, rtn_code, event, stage, garbled>>

(* poll: whether the program has ended is read first, then log_output takes a *)
(* piece of the output, whose first line ever becomes first_line.             *)
Poll ==
  /\ pc = "poll" /\ ready' = (remote = "gone")
  /\ \/ outQ = <<>> /\ Logged(ready') /\ UNCHANGED <<outQ, first_line>>
     \/ /\ \E k \in Pieces : Takes(k)
        /\ first_line' = IF first_line = NoValue THEN Head(outQ) ELSE first_line
        /\ Logged(ready')
     \/ Garbles
  /\ UNCHANGED <<now, start_time, duration, wake, connFailed, remoteVars, otherFailed>>

(* stderr.channel.recv: it returns with output, or empty when the channel has *)
(* been closed. The error output is still there at the next poll.             *)
Recv ==
  /\ pc = "recv"
  /\ \/ (\E k \in Pieces : Takes(k)) /\ PollReturns(ready) /\ UNCHANGED first_line
     \/ /\ outQ = <<>> /\ remote = "gone"
        /\ PollReturns(ready) /\ UNCHANGED <<outQ, first_line>>
     \/ Garbles
  /\ UNCHANGED <<now, ready, start_time, duration, wake, connFailed, remoteVars,
                 otherFailed>>

LoopBody(overrun, step) ==
  /\ pc = "loop"
  /\ duration' = now - start_time
  /\ IF overrun
       THEN event' = TRUE /\ pc' = "poll" /\ stage' = "except" /\ UNCHANGED wake
       ELSE /\ pc' = "sleep" /\ wake' = now + step
            /\ UNCHANGED <<event, stage>>
  /\ UNCHANGED <<now, ready, exited, rtn_code, first_line, start_time, garbled,
                 connFailed, remoteVars, outQ, otherFailed>>

Overrun == MaxDuration # NoValue /\ now - start_time > MaxDuration

(* The wait: until max_duration, at most CHECK_CALL_INTERVAL, at least a tick. *)
Step ==
  LET left == MaxDuration - (now - start_time)
  IN  IF MaxDuration = NoValue \/ left > Interval THEN Interval
      ELSE IF left < 1 THEN 1 ELSE left

(* Mutant: an interval too many is counted.                                   *)
LoopShorter == LoopBody(MaxDuration # NoValue /\ now - start_time + Interval > MaxDuration,
                        Step)

(* The body of the loop of monitor_process up to the wait. A program that ran *)
(* too long is an error: the exception sets the event, and the thread goes on *)
(* to wait for the end of the program (a remote one is not STOPPABLE).        *)
Loop == LoopBody(Overrun, Step)

SleepThen(next) ==
  /\ pc = "sleep" /\ (event \/ now >= wake \/ now = MaxTime)
  /\ pc' = next /\ stage' = IF event THEN "wait" ELSE "monitor"
  /\ UNCHANGED <<now, event, ready, exited, rtn_code, first_line, start_time, duration,
                 wake, garbled, connFailed, remoteVars, outQ, otherFailed>>

(* Mutants: the thread ends with the event; it goes on without a poll.        *)
SleepLeaves    == SleepThen(IF event THEN "end" ELSE "poll")
SleepContinues == SleepThen(IF event THEN "loop" ELSE "poll")

(* event.wait: over at its time, or when the event is set, which makes        *)
(* monitor_process return without a verdict on the program.                   *)
Sleep == SleepThen("poll")

WrongCode == CheckedRtn # NoValue /\ rtn_code # CheckedRtn
TooShort  == MinDuration # NoValue /\ duration < MinDuration

VerifyWith(isBad) ==
  /\ pc = "verify" /\ pc' = "end"
  /\ event' = (event \/ isBad)
  /\ UNCHANGED <<now, stage, ready, exited, rtn_code, first_line, start_time, duration,
                 wake, garbled, connFailed, remoteVars, outQ, otherFailed>>

(* The end of monitor_process, and of the thread; past monitor_process the    *)
(* end is not judged. Until here `exited` is TRUE and the event may not be    *)
(* set yet: other threads see a program that has ended well.                  *)
Verify == VerifyWith(stage = "monitor" /\ (WrongCode \/ TooShort))

Monitor == Connect \/ StartProgram \/ Poll \/ Recv \/ Loop \/ Sleep \/ Verify

-----------------------------------------------------------------------------
(* The program. insert_exec puts `echo $$ &&` before it, so that its first    *)
(* line of output is its PID; error output may come at any time.              *)
Writes ==
  /\ remote = "up" /\ written <= MaxOut
  /\ written' = written + 1
  /\ outQ' = Append(outQ, IF written = 0 THEN "pid" ELSE "out")
  /\ UNCHANGED <<now, event, monitorVars, remote, code, gone, errQ, otherFailed>>

WritesError ==
  /\ remote = "up" /\ errQ < MaxErr
  /\ errQ' = errQ + 1
  /\ UNCHANGED <<now, event, monitorVars, remote, code, gone, written, outQ, otherFailed>>

Exits ==
  /\ remote = "up" /\ remote' = "gone" /\ gone' = now
  /\ code' \in Codes
  /\ UNCHANGED <<now, event, monitorVars, written, errQ, outQ, otherFailed>>

OthersFail ==
  /\ ~event /\ event' = TRUE /\ otherFailed' = TRUE
  /\ UNCHANGED <<now, monitorVars, remoteVars, outQ>>

(* Time passes while the thread waits: for its interval, for output, for the  *)
(* end of the program (0.1 s between two polls), or for nothing any more.     *)
Waiting ==
  \/ pc = "sleep" /\ now < wake /\ ~event
  \/ pc = "recv" /\ outQ = <<>> /\ remote # "gone"
  \/ pc = "poll" /\ stage # "monitor" /\ remote # "gone"
  \/ pc \in {"connect", "start", "end"}

Passes ==
  /\ now < MaxTime /\ Waiting
  /\ now' = now + 1
  /\ UNCHANGED <<event, monitorVars, remoteVars, outQ, otherFailed>>

Over == pc = "end" /\ remote # "up" /\ UNCHANGED vars

PNext == \/ Monitor \/ ConnectFails \/ Writes \/ WritesError \/ Exits
         \/ OthersFail \/ Passes \/ Over

PSpec == PInit /\ [][PNext]_vars

(* The thread runs and time passes. The program may run for ever.             *)
PFair == PSpec /\ WF_vars(Monitor) /\ WF_vars(Passes)
-----------------------------------------------------------------------------
Ran == (IF remote = "gone" THEN gone ELSE now) - start_time

(* join() of the main thread returns only after the program has ended, or has *)
(* never been started: both exits of monitor_process wait for the end. Only   *)
(* output that cannot be decoded while the thread waits after an error of its *)
(* own, an earlier such piece or an overrun, ends it before.                  *)
EndsAfterProgram ==
  pc = "end" =>
    \/ remote = "gone" \/ connFailed
    \/ garbled > 1
    \/ garbled = 1 /\ MaxDuration # NoValue /\ duration > MaxDuration

(* A program that ended with another code than checked_rtn is known to the    *)
(* scheduler once its thread is over, whichever error came first.             *)
FailureReported ==
  (pc = "end" /\ remote = "gone" /\ CheckedRtn # NoValue /\ code # CheckedRtn) => event

(* Nothing but a real failure sets the event, or output that is not text. The *)
(* duration is measured before the last wait, so a program may be called      *)
(* short that ran up to an interval longer than min_duration.                 *)
NoFalseAlarm ==
  (event /\ ~otherFailed) =>
    \/ connFailed \/ garbled > 0
    \/ CheckedRtn # NoValue /\ remote = "gone" /\ code # CheckedRtn
    \/ MaxDuration # NoValue /\ Ran > MaxDuration
    \/ MinDuration # NoValue /\ remote = "gone" /\ Ran < MinDuration + Interval

(* A program that runs a tick longer than max_duration has set the event, but *)
(* while its thread is blocked in recv (see Recv), or has just come from it:  *)
(* nothing else delays the report, whatever has been written.                 *)
OverrunReported ==
  (MaxDuration # NoValue /\ remote = "up" /\ Ran > MaxDuration + 1)
    => event \/ pc \in {"recv", "loop"}

(* The event says that something has failed when it has, and, as far as the   *)
(* code can tell, only then.                                                  *)
VerdictIsRight == FailureReported /\ NoFalseAlarm /\ OverrunReported

(* first_line is the PID of the program, which is what stop commands and the  *)
(* last kill -9 are given (remote_process.py:110).                            *)
FirstLineIsPid == first_line # NoValue => first_line = "pid"

(* What the main thread sees of the program and its thread.                   *)
Job == IF pc \in {"connect", "start"} THEN "conn"
       ELSE IF connFailed THEN "failed"
       ELSE IF exited THEN (IF pc = "end" THEN "over" ELSE "seen")
       ELSE IF pc = "end" THEN "lost" ELSE "up"

J == INSTANCE JobThread WITH
  None <- NoValue, Limit <- MaxDuration, job <- Job, began <- 0,
  garbled <- garbled > 0, others <- otherFailed

(* It is what the main thread takes it for: while the program runs the event  *)
(* is set for no more than the limit or output that is not text, `exited`     *)
(* comes before the verdict and is never taken back, and the thread ends      *)
(* without it only with the event set, and only when it could not connect or  *)
(* could not decode.                                                          *)
SeenAsJob == J!Spec

(* The thread ends once its program has, whatever that has written and        *)
(* whatever else fails: no wait of its own outlasts the program.              *)
MonitorEnds == remote = "gone" ~> pc = "end"
=============================================================================
