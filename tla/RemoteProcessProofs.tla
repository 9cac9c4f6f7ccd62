------------------------ MODULE RemoteProcessProofs ------------------------
(* Theorems about one watched program, for every limit, interval, exit code   *)
(* and amount of output, and whatever other threads do to the event.          *)
EXTENDS RemoteProcess, TLAPS

(* The thread has reported that its program runs too long.                    *)
HasOverrun == MaxDuration # NoValue /\ duration > MaxDuration

(* Where the program can be when the thread is at its points, and what the    *)
(* event is by then. Nothing resets the event, and a program ends once. The   *)
(* thread is in its `except`, or over before the program, for a reason.       *)
ShapeInv ==
  /\ pc \in {"connect", "start"} <=> remote = "none" /\ ~connFailed
  /\ connFailed => event /\ pc = "end" /\ remote = "none"
  /\ stage # "monitor" => event
  /\ pc \in {"loop", "sleep"} => stage = "monitor"
  /\ ready => remote = "gone"
  /\ pc = "recv" => errQ > 0
  /\ pc = "verify" => exited
  /\ exited => pc \in {"verify", "end"}
  /\ stage = "except" => garbled > 0 \/ HasOverrun
  /\ pc = "end" /\ ~connFailed /\ ~exited
       => event /\ (garbled > 1 \/ (garbled = 1 /\ HasOverrun))
  /\ remote = "none" /\ event => otherFailed \/ connFailed

(* How old what the thread knows is: it polls at once when its wait is over,  *)
(* and while it is blocked in recv the program has not ended.                 *)
AgeInv ==
  /\ remote = "gone" /\ (pc = "loop" \/ (pc = "recv" /\ ~ready)) => gone = now
  /\ pc = "sleep" => now <= wake /\ wake <= start_time + duration + Interval
  /\ pc = "poll" /\ stage = "monitor" => now <= start_time + duration + Interval
  /\ pc = "recv" /\ ready /\ stage = "monitor" => gone <= start_time + duration + Interval
  /\ pc = "verify" /\ stage = "monitor" => gone <= start_time + duration + Interval
  /\ remote = "gone" => start_time <= gone

(* Before the event is set the thread is late for max_duration by a tick at   *)
(* most, except while it is blocked in recv and until it has looked again.    *)
LimitInv ==
  MaxDuration # NoValue /\ ~event =>
    /\ pc = "poll" => now <= start_time + MaxDuration + 1
    /\ pc = "sleep" => wake <= start_time + MaxDuration + 1

(* The inductive invariant.                                                   *)
ProcessInv ==
  /\ PTypeOK
  /\ ShapeInv /\ AgeInv /\ LimitInv
  /\ FailureReported /\ NoFalseAlarm

-----------------------------------------------------------------------------
(* What is left of the output when a piece of it has been read.               *)
LEMMA PieceTaken ==
  ASSUME outQ \in Seq(Lines), NEW k \in Pieces, Takes(k)
  PROVE  outQ' \in Seq(Lines)
  BY DEF Pieces, Takes

(* The outcomes of a poll and of recv: it returns, or (poll) goes on to recv. *)
Returned ==
  /\ exited' = ready' /\ rtn_code' = IF ready' THEN code ELSE NoValue
  /\ \/ pc' = "verify" /\ ready'
     \/ pc' = "loop" /\ ~ready' /\ stage = "monitor"
     \/ pc' = "poll" /\ ~ready' /\ stage # "monitor"
  /\ UNCHANGED <<event, stage, garbled>>

Blocked ==
  /\ pc = "poll" /\ pc' = "recv" /\ errQ > 0
  /\ UNCHANGED <<exited, rtn_code, event, stage, garbled>>

LEMMA ReadKeeps ==
  ASSUME ProcessInv,
         pc \in {"poll", "recv"}, Returned \/ Blocked \/ Garbles,
         pc = "poll" => (ready' <=> remote = "gone"),
         pc = "recv" => ready' = ready, ready' \in BOOLEAN,
         outQ' \in Seq(Lines), first_line' \in Lines \cup {NoValue},
         UNCHANGED <<now, start_time, duration, wake, remoteVars, connFailed, otherFailed>>
  PROVE  ProcessInv'
<1> USE ProcessAssumption DEF remoteVars
<1>1. PTypeOK'
  <2>1. CASE Returned
    BY <2>1 DEF Returned, ProcessInv, PTypeOK, ShapeInv
  <2>2. CASE Blocked
    BY <2>2 DEF Blocked, ProcessInv, PTypeOK, ShapeInv
  <2>3. CASE Garbles
    <3>1. garbled' \in 0 .. MaxGarbled
      BY <2>3 DEF Garbles, ProcessInv, PTypeOK
    <3>2. /\ UNCHANGED <<exited, rtn_code, first_line>>
          /\ pc' \in {"end", "poll"} /\ stage' = "except"
          /\ event' \in {event, TRUE}
      BY <2>3 DEF Garbles
    <3> QED
      BY <3>1, <3>2 DEF ProcessInv, PTypeOK, ShapeInv
  <2> QED
    BY <2>1, <2>2, <2>3
<1>2. ShapeInv'
  <2>1. CASE Returned
    BY <2>1 DEF Returned, ProcessInv, PTypeOK, ShapeInv, HasOverrun
  <2>2. CASE Blocked
    BY <2>2 DEF Blocked, ProcessInv, PTypeOK, ShapeInv, HasOverrun
  <2>3. CASE Garbles
    <3>1. garbled' = garbled + 1 /\ garbled \in Nat
      BY <2>3 DEF Garbles, ProcessInv, PTypeOK
    <3>2. stage = "except" => garbled > 0 \/ HasOverrun
      BY DEF ProcessInv, ShapeInv
    <3>3. HasOverrun' <=> HasOverrun
      BY DEF HasOverrun
    <3>4. stage = "except" => garbled' > 1 \/ (garbled' = 1 /\ HasOverrun')
      BY <3>1, <3>2, <3>3
    <3>5. garbled' > 0
      BY <3>1
    <3> HIDE DEF HasOverrun
    <3> QED
      BY <2>3, <3>4, <3>5 DEF Garbles, ProcessInv, PTypeOK, ShapeInv
  <2> QED
    BY <2>1, <2>2, <2>3
<1>3. AgeInv'
  BY DEF Returned, Blocked, Garbles, ProcessInv, PTypeOK, ShapeInv, HasOverrun, AgeInv
<1>4. LimitInv'
  BY DEF Returned, Blocked, Garbles, ProcessInv, PTypeOK, ShapeInv, HasOverrun, LimitInv
<1>5. FailureReported'
  BY DEF Returned, Blocked, Garbles, ProcessInv, PTypeOK, ShapeInv, HasOverrun, FailureReported
<1>6. NoFalseAlarm'
  <2>1. CASE Garbles
    BY <2>1 DEF Garbles, ProcessInv, PTypeOK, NoFalseAlarm
  <2>2. CASE Returned \/ Blocked
    BY <2>2 DEF Returned, Blocked, ProcessInv, PTypeOK, ShapeInv, HasOverrun, NoFalseAlarm, Ran
  <2> QED
    BY <2>1, <2>2
<1> QED
  BY <1>1, <1>2, <1>3, <1>4, <1>5, <1>6 DEF ProcessInv

LEMMA ProcessInitInv == PInit => ProcessInv
<1> SUFFICES ASSUME PInit PROVE ProcessInv
  OBVIOUS
<1>1. PTypeOK
  <2>1. <<>> \in Seq(Lines)
    OBVIOUS
  <2>2. 0 \in 0 .. MaxTime /\ 0 \in 0 .. MaxTime + Interval /\ 0 \in 0 .. MaxOut + 1 /\ 0 \in 0 .. MaxErr
        /\ 0 \in 0 .. MaxGarbled /\ 0 \in 0 .. 0
    BY ProcessAssumption
  <2> QED
    BY <2>1, <2>2, Zenon DEF PInit, PTypeOK
<1>2. ShapeInv /\ AgeInv /\ LimitInv
  BY DEF PInit, ShapeInv, AgeInv, LimitInv, HasOverrun
<1>3. FailureReported /\ NoFalseAlarm
  BY DEF PInit, FailureReported, NoFalseAlarm
<1> QED
  BY <1>1, <1>2, <1>3 DEF ProcessInv

LEMMA ProcessNextInv == ProcessInv /\ [PNext]_vars => ProcessInv'
<1> SUFFICES ASSUME ProcessInv, [PNext]_vars PROVE ProcessInv'
  OBVIOUS
<1> USE ProcessAssumption
<1>1. CASE Connect
  <2>1. PTypeOK'
    BY <1>1 DEF ProcessInv, PTypeOK, ShapeInv, HasOverrun, Lines, Connect, remoteVars, monitorVars
  <2>2. ShapeInv'
    BY <1>1 DEF ProcessInv, PTypeOK, ShapeInv, HasOverrun, Connect, remoteVars, monitorVars
  <2>3. AgeInv'
    BY <1>1 DEF ProcessInv, PTypeOK, ShapeInv, HasOverrun, AgeInv, Connect, remoteVars, monitorVars
  <2>4. LimitInv'
    BY <1>1 DEF ProcessInv, PTypeOK, ShapeInv, HasOverrun, LimitInv, Connect, remoteVars, monitorVars
  <2>5. FailureReported'
    BY <1>1 DEF ProcessInv, PTypeOK, ShapeInv, HasOverrun, FailureReported, Connect, remoteVars, monitorVars
  <2>6. NoFalseAlarm'
    BY <1>1 DEF ProcessInv, PTypeOK, ShapeInv, HasOverrun, AgeInv, NoFalseAlarm, Ran, Connect, remoteVars, monitorVars
  <2> QED
    BY <2>1, <2>2, <2>3, <2>4, <2>5, <2>6 DEF ProcessInv
<1>2. CASE ConnectFails
  <2>1. PTypeOK'
    BY <1>2 DEF ProcessInv, PTypeOK, ShapeInv, HasOverrun, Lines, ConnectFails, FailsWith, remoteVars, monitorVars
  <2>2. ShapeInv'
    BY <1>2 DEF ProcessInv, PTypeOK, ShapeInv, HasOverrun, ConnectFails, FailsWith, remoteVars, monitorVars
  <2>3. AgeInv'
    BY <1>2 DEF ProcessInv, PTypeOK, ShapeInv, HasOverrun, AgeInv, ConnectFails, FailsWith, remoteVars, monitorVars
  <2>4. LimitInv'
    BY <1>2 DEF ProcessInv, PTypeOK, ShapeInv, HasOverrun, LimitInv, ConnectFails, FailsWith, remoteVars, monitorVars
  <2>5. FailureReported'
    BY <1>2 DEF ProcessInv, PTypeOK, ShapeInv, HasOverrun, FailureReported, ConnectFails, FailsWith, remoteVars, monitorVars
  <2>6. NoFalseAlarm'
    BY <1>2 DEF ProcessInv, PTypeOK, ShapeInv, HasOverrun, AgeInv, NoFalseAlarm, Ran, ConnectFails, FailsWith, remoteVars, monitorVars
  <2> QED
    BY <2>1, <2>2, <2>3, <2>4, <2>5, <2>6 DEF ProcessInv
<1>3. CASE StartProgram
  <2>1. PTypeOK'
    BY <1>3 DEF ProcessInv, PTypeOK, ShapeInv, HasOverrun, Lines, StartProgram, remoteVars, monitorVars
  <2>2. ShapeInv'
    BY <1>3 DEF ProcessInv, PTypeOK, ShapeInv, HasOverrun, StartProgram, remoteVars, monitorVars
  <2>3. AgeInv'
    BY <1>3 DEF ProcessInv, PTypeOK, ShapeInv, HasOverrun, AgeInv, StartProgram, remoteVars, monitorVars
  <2>4. LimitInv'
    BY <1>3 DEF ProcessInv, PTypeOK, ShapeInv, HasOverrun, LimitInv, StartProgram, remoteVars, monitorVars
  <2>5. FailureReported'
    BY <1>3 DEF ProcessInv, PTypeOK, ShapeInv, HasOverrun, FailureReported, StartProgram, remoteVars, monitorVars
  <2>6. NoFalseAlarm'
    BY <1>3 DEF ProcessInv, PTypeOK, ShapeInv, HasOverrun, AgeInv, NoFalseAlarm, Ran, StartProgram, remoteVars, monitorVars
  <2> QED
    BY <2>1, <2>2, <2>3, <2>4, <2>5, <2>6 DEF ProcessInv
<1>4. CASE Poll
  <2>1. /\ pc = "poll" /\ (ready' <=> remote = "gone") /\ UNCHANGED connFailed
        /\ UNCHANGED <<now, start_time, duration, wake, remoteVars, otherFailed>>
    BY <1>4 DEF Poll
  <2>2. Returned \/ Blocked \/ Garbles
    BY <1>4, <2>1 DEF Poll, Logged, PollReturns, Returned, Blocked, ProcessInv, PTypeOK
  <2>3. outQ' \in Seq(Lines) /\ first_line' \in Lines \cup {NoValue}
    <3>1. CASE UNCHANGED <<outQ, first_line>>
      BY <3>1 DEF ProcessInv, PTypeOK
    <3>2. CASE Garbles
      BY <3>2, PieceTaken DEF Garbles, ProcessInv, PTypeOK
    <3>3. CASE /\ \E k \in Pieces : Takes(k)
               /\ first_line' = IF first_line = NoValue THEN Head(outQ) ELSE first_line
      <4>1. outQ' \in Seq(Lines) /\ outQ # <<>> /\ outQ \in Seq(Lines)
        BY <3>3, PieceTaken DEF ProcessInv, PTypeOK, Pieces
      <4>2. Head(outQ) \in Lines
        BY <4>1
      <4> QED
        BY <3>3, <4>1, <4>2 DEF ProcessInv, PTypeOK
    <3> QED
      BY <1>4, <3>1, <3>2, <3>3 DEF Poll
  <2> QED
    BY <2>1, <2>2, <2>3, ReadKeeps
<1>5. CASE Recv
  <2>1. /\ pc = "recv" /\ UNCHANGED <<ready, first_line, connFailed>>
        /\ UNCHANGED <<now, start_time, duration, wake, remoteVars, otherFailed>>
    BY <1>5 DEF Recv, Garbles
  <2>2. Returned \/ Garbles
    BY <1>5, <2>1 DEF Recv, PollReturns, Returned, ProcessInv, PTypeOK
  <2>3. outQ' \in Seq(Lines)
    BY <1>5, PieceTaken DEF Recv, Garbles, ProcessInv, PTypeOK
  <2>4. first_line' \in Lines \cup {NoValue} /\ ready' \in BOOLEAN
    BY <2>1 DEF ProcessInv, PTypeOK
  <2> QED
    BY <2>1, <2>2, <2>3, <2>4, ReadKeeps
<1>6. CASE Loop
  <2>1. PTypeOK'
    <3>1. ~Overrun => Step \in 1 .. Interval
      BY DEF ProcessInv, PTypeOK, Overrun, Step
    <3>2. duration' \in 0 .. now /\ wake' \in 0 .. MaxTime + Interval
      <4>1. CASE Overrun
        BY <1>6, <4>1 DEF ProcessInv, PTypeOK, Loop, LoopBody
      <4>2. CASE ~Overrun
        BY <1>6, <3>1, <4>2 DEF ProcessInv, PTypeOK, Loop, LoopBody
      <4> QED
        BY <4>1, <4>2
    <3>3. event' \in BOOLEAN /\ stage' \in {"monitor", "wait", "except"} /\ pc' \in {"poll", "sleep"}
      BY <1>6 DEF ProcessInv, PTypeOK, Loop, LoopBody
    <3> QED
      BY <1>6, <3>2, <3>3 DEF ProcessInv, PTypeOK, Loop, LoopBody, remoteVars
  <2>2. ShapeInv'
    BY <1>6 DEF ProcessInv, PTypeOK, ShapeInv, HasOverrun, Loop, LoopBody, Overrun, Step, remoteVars, monitorVars
  <2>3. AgeInv'
    BY <1>6 DEF ProcessInv, PTypeOK, ShapeInv, HasOverrun, AgeInv, Loop, LoopBody, Overrun, Step, remoteVars, monitorVars
  <2>4. LimitInv'
    BY <1>6 DEF ProcessInv, PTypeOK, ShapeInv, HasOverrun, LimitInv, Loop, LoopBody, Overrun, Step, remoteVars, monitorVars
  <2>5. FailureReported'
    BY <1>6 DEF ProcessInv, PTypeOK, ShapeInv, HasOverrun, FailureReported, Loop, LoopBody, Overrun, Step, remoteVars, monitorVars
  <2>6. NoFalseAlarm'
    BY <1>6 DEF ProcessInv, PTypeOK, ShapeInv, HasOverrun, AgeInv, NoFalseAlarm, Ran, Loop, LoopBody, Overrun, Step, remoteVars, monitorVars
  <2> QED
    BY <2>1, <2>2, <2>3, <2>4, <2>5, <2>6 DEF ProcessInv
<1>7. CASE Sleep
  <2>1. PTypeOK'
    BY <1>7 DEF ProcessInv, PTypeOK, ShapeInv, HasOverrun, Lines, Sleep, SleepThen, remoteVars, monitorVars
  <2>2. ShapeInv'
    BY <1>7 DEF ProcessInv, PTypeOK, ShapeInv, HasOverrun, Sleep, SleepThen, remoteVars, monitorVars
  <2>3. AgeInv'
    BY <1>7 DEF ProcessInv, PTypeOK, ShapeInv, HasOverrun, AgeInv, Sleep, SleepThen, remoteVars, monitorVars
  <2>4. LimitInv'
    BY <1>7 DEF ProcessInv, PTypeOK, ShapeInv, HasOverrun, AgeInv, LimitInv, Sleep, SleepThen, remoteVars, monitorVars
  <2>5. FailureReported'
    BY <1>7 DEF ProcessInv, PTypeOK, ShapeInv, HasOverrun, FailureReported, Sleep, SleepThen, remoteVars, monitorVars
  <2>6. NoFalseAlarm'
    BY <1>7 DEF ProcessInv, PTypeOK, ShapeInv, HasOverrun, AgeInv, NoFalseAlarm, Ran, Sleep, SleepThen, remoteVars, monitorVars
  <2> QED
    BY <2>1, <2>2, <2>3, <2>4, <2>5, <2>6 DEF ProcessInv
<1>8. CASE Verify
  <2>1. PTypeOK'
    BY <1>8 DEF ProcessInv, PTypeOK, ShapeInv, HasOverrun, Lines, Verify, VerifyWith, WrongCode, TooShort, remoteVars, monitorVars
  <2>2. ShapeInv'
    BY <1>8 DEF ProcessInv, PTypeOK, ShapeInv, HasOverrun, Verify, VerifyWith, WrongCode, TooShort, remoteVars, monitorVars
  <2>3. AgeInv'
    BY <1>8 DEF ProcessInv, PTypeOK, ShapeInv, HasOverrun, AgeInv, Verify, VerifyWith, WrongCode, TooShort, remoteVars, monitorVars
  <2>4. LimitInv'
    BY <1>8 DEF ProcessInv, PTypeOK, ShapeInv, HasOverrun, LimitInv, Verify, VerifyWith, WrongCode, TooShort, remoteVars, monitorVars
  <2>5. FailureReported'
    BY <1>8 DEF ProcessInv, PTypeOK, ShapeInv, HasOverrun, FailureReported, Verify, VerifyWith, WrongCode, TooShort, remoteVars, monitorVars
  <2>6. NoFalseAlarm'
    BY <1>8 DEF ProcessInv, PTypeOK, ShapeInv, HasOverrun, AgeInv, NoFalseAlarm, Ran, Verify, VerifyWith, WrongCode, TooShort, remoteVars, monitorVars
  <2> QED
    BY <2>1, <2>2, <2>3, <2>4, <2>5, <2>6 DEF ProcessInv
<1>9. CASE Writes
  <2>1. PTypeOK'
    BY <1>9 DEF ProcessInv, PTypeOK, ShapeInv, HasOverrun, Lines, Writes, remoteVars, monitorVars
  <2>2. ShapeInv'
    BY <1>9 DEF ProcessInv, PTypeOK, ShapeInv, HasOverrun, Writes, remoteVars, monitorVars
  <2>3. AgeInv'
    BY <1>9 DEF ProcessInv, PTypeOK, ShapeInv, HasOverrun, AgeInv, Writes, remoteVars, monitorVars
  <2>4. LimitInv'
    BY <1>9 DEF ProcessInv, PTypeOK, ShapeInv, HasOverrun, LimitInv, Writes, remoteVars, monitorVars
  <2>5. FailureReported'
    BY <1>9 DEF ProcessInv, PTypeOK, ShapeInv, HasOverrun, FailureReported, Writes, remoteVars, monitorVars
  <2>6. NoFalseAlarm'
    BY <1>9 DEF ProcessInv, PTypeOK, ShapeInv, HasOverrun, AgeInv, NoFalseAlarm, Ran, Writes, remoteVars, monitorVars
  <2> QED
    BY <2>1, <2>2, <2>3, <2>4, <2>5, <2>6 DEF ProcessInv
<1>10. CASE WritesError
  <2>1. PTypeOK'
    BY <1>10 DEF ProcessInv, PTypeOK, ShapeInv, HasOverrun, Lines, WritesError, remoteVars, monitorVars
  <2>2. ShapeInv'
    BY <1>10 DEF ProcessInv, PTypeOK, ShapeInv, HasOverrun, WritesError, remoteVars, monitorVars
  <2>3. AgeInv'
    BY <1>10 DEF ProcessInv, PTypeOK, ShapeInv, HasOverrun, AgeInv, WritesError, remoteVars, monitorVars
  <2>4. LimitInv'
    BY <1>10 DEF ProcessInv, PTypeOK, ShapeInv, HasOverrun, LimitInv, WritesError, remoteVars, monitorVars
  <2>5. FailureReported'
    BY <1>10 DEF ProcessInv, PTypeOK, ShapeInv, HasOverrun, FailureReported, WritesError, remoteVars, monitorVars
  <2>6. NoFalseAlarm'
    BY <1>10 DEF ProcessInv, PTypeOK, ShapeInv, HasOverrun, AgeInv, NoFalseAlarm, Ran, WritesError, remoteVars, monitorVars
  <2> QED
    BY <2>1, <2>2, <2>3, <2>4, <2>5, <2>6 DEF ProcessInv
<1>11. CASE Exits
  <2>1. PTypeOK'
    BY <1>11 DEF ProcessInv, PTypeOK, ShapeInv, HasOverrun, Lines, Exits, remoteVars, monitorVars
  <2>2. ShapeInv'
    BY <1>11 DEF ProcessInv, PTypeOK, ShapeInv, HasOverrun, Exits, remoteVars, monitorVars
  <2>3. AgeInv'
    BY <1>11 DEF ProcessInv, PTypeOK, ShapeInv, HasOverrun, AgeInv, Exits, remoteVars, monitorVars
  <2>4. LimitInv'
    BY <1>11 DEF ProcessInv, PTypeOK, ShapeInv, HasOverrun, LimitInv, Exits, remoteVars, monitorVars
  <2>5. FailureReported'
    BY <1>11 DEF ProcessInv, PTypeOK, ShapeInv, HasOverrun, FailureReported, Exits, remoteVars, monitorVars
  <2>6. NoFalseAlarm'
    BY <1>11 DEF ProcessInv, PTypeOK, ShapeInv, HasOverrun, AgeInv, NoFalseAlarm, Ran, Exits, remoteVars, monitorVars
  <2> QED
    BY <2>1, <2>2, <2>3, <2>4, <2>5, <2>6 DEF ProcessInv
<1>12. CASE OthersFail
  <2>1. PTypeOK'
    BY <1>12 DEF ProcessInv, PTypeOK, ShapeInv, HasOverrun, Lines, OthersFail, remoteVars, monitorVars
  <2>2. ShapeInv'
    BY <1>12 DEF ProcessInv, PTypeOK, ShapeInv, HasOverrun, OthersFail, remoteVars, monitorVars
  <2>3. AgeInv'
    BY <1>12 DEF ProcessInv, PTypeOK, ShapeInv, HasOverrun, AgeInv, OthersFail, remoteVars, monitorVars
  <2>4. LimitInv'
    BY <1>12 DEF ProcessInv, PTypeOK, ShapeInv, HasOverrun, LimitInv, OthersFail, remoteVars, monitorVars
  <2>5. FailureReported'
    BY <1>12 DEF ProcessInv, PTypeOK, ShapeInv, HasOverrun, FailureReported, OthersFail, remoteVars, monitorVars
  <2>6. NoFalseAlarm'
    BY <1>12 DEF ProcessInv, PTypeOK, ShapeInv, HasOverrun, AgeInv, NoFalseAlarm, Ran, OthersFail, remoteVars, monitorVars
  <2> QED
    BY <2>1, <2>2, <2>3, <2>4, <2>5, <2>6 DEF ProcessInv
<1>13. CASE Passes
  <2>1. PTypeOK'
    BY <1>13 DEF ProcessInv, PTypeOK, ShapeInv, HasOverrun, Lines, Passes, Waiting, remoteVars, monitorVars
  <2>2. ShapeInv'
    BY <1>13 DEF ProcessInv, PTypeOK, ShapeInv, HasOverrun, Passes, Waiting, remoteVars, monitorVars
  <2>3. AgeInv'
    BY <1>13 DEF ProcessInv, PTypeOK, ShapeInv, HasOverrun, AgeInv, Passes, Waiting, remoteVars, monitorVars
  <2>4. LimitInv'
    BY <1>13 DEF ProcessInv, PTypeOK, ShapeInv, HasOverrun, LimitInv, Passes, Waiting, remoteVars, monitorVars
  <2>5. FailureReported'
    BY <1>13 DEF ProcessInv, PTypeOK, ShapeInv, HasOverrun, FailureReported, Passes, Waiting, remoteVars, monitorVars
  <2>6. NoFalseAlarm'
    BY <1>13 DEF ProcessInv, PTypeOK, ShapeInv, HasOverrun, AgeInv, NoFalseAlarm, Ran, Passes, Waiting, remoteVars, monitorVars
  <2> QED
    BY <2>1, <2>2, <2>3, <2>4, <2>5, <2>6 DEF ProcessInv
<1>14. CASE UNCHANGED vars
  <2>1. PTypeOK'
    BY <1>14 DEF ProcessInv, PTypeOK, ShapeInv, HasOverrun, Lines, vars, remoteVars, monitorVars
  <2>2. ShapeInv'
    BY <1>14 DEF ProcessInv, PTypeOK, ShapeInv, HasOverrun, vars, remoteVars, monitorVars
  <2>3. AgeInv'
    BY <1>14 DEF ProcessInv, PTypeOK, ShapeInv, HasOverrun, AgeInv, vars, remoteVars, monitorVars
  <2>4. LimitInv'
    BY <1>14 DEF ProcessInv, PTypeOK, ShapeInv, HasOverrun, LimitInv, vars, remoteVars, monitorVars
  <2>5. FailureReported'
    BY <1>14 DEF ProcessInv, PTypeOK, ShapeInv, HasOverrun, FailureReported, vars, remoteVars, monitorVars
  <2>6. NoFalseAlarm'
    BY <1>14 DEF ProcessInv, PTypeOK, ShapeInv, HasOverrun, AgeInv, NoFalseAlarm, Ran, vars, remoteVars, monitorVars
  <2> QED
    BY <2>1, <2>2, <2>3, <2>4, <2>5, <2>6 DEF ProcessInv
<1> QED
  BY <1>1, <1>2, <1>3, <1>4, <1>5, <1>6, <1>7, <1>8, <1>9, <1>10, <1>11, <1>12, <1>13, <1>14 DEF PNext, Monitor, Over

LEMMA ProcessKept == PSpec => []ProcessInv
<1>1. PInit => ProcessInv
  BY ProcessInitInv
<1>2. ProcessInv /\ [PNext]_vars => ProcessInv'
  BY ProcessNextInv
<1> QED
  BY <1>1, <1>2, PTL DEF PSpec

(* The thread reads what it stores, for every limit (remote_process.py).      *)
THEOREM ProcessTyped == PSpec => []PTypeOK
<1>1. ProcessInv => PTypeOK
  BY DEF ProcessInv
<1> QED
  BY <1>1, ProcessKept, PTL

(* join() of the main thread returns only after the program has ended, or has *)
(* never been started (remote_process.py:61-71), unless a piece of output     *)
(* could not be decoded while the thread waited in the `except`, after        *)
(* another such piece or an overrun. No error of others takes it that far.    *)
THEOREM ThreadOutlivesProgram == PSpec => []EndsAfterProgram
<1>1. ProcessInv => EndsAfterProgram
  BY DEF ProcessInv, PTypeOK, ShapeInv, HasOverrun, EndsAfterProgram
<1> QED
  BY <1>1, ProcessKept, PTL

(* For all limits and intervals (checked_process.py:22-66): a failed program  *)
(* sets the event; one that runs too long does, unless its thread is blocked  *)
(* in recv; and the event is set for nothing else but a failed connection,    *)
(* output that cannot be decoded, or another thread.                          *)
THEOREM VerdictRight == PSpec => []VerdictIsRight
<1>1. ProcessInv => OverrunReported
  BY ProcessAssumption
  DEF ProcessInv, PTypeOK, ShapeInv, AgeInv, LimitInv, OverrunReported, Ran
<1>2. ProcessInv => VerdictIsRight
  BY <1>1 DEF ProcessInv, VerdictIsRight
<1> QED
  BY <1>2, ProcessKept, PTL

(* What the main thread sees of the thread at each of its points.             *)
LEMMA JobAtThePoints ==
  ProcessInv =>
    /\ pc \in {"connect", "start"} => Job = "conn"
    /\ pc \in {"poll", "recv", "loop", "sleep"} => Job = "up"
    /\ pc = "verify" => Job = "seen"
    /\ pc = "end" => Job = IF connFailed THEN "failed"
                            ELSE IF exited THEN "over" ELSE "lost"
  BY DEF ProcessInv, PTypeOK, ShapeInv, HasOverrun, Job

(* Each step of the program, of its thread and of the others is one that the  *)
(* main thread takes a thread for, or is not seen by it.                      *)
LEMMA StepsAreSeenAsJob ==
  ProcessInv /\ ProcessInv' /\ [PNext]_vars
    => [J!Thread \/ J!OthersFail \/ J!Clock]_(J!tvars)
<1> SUFFICES ASSUME ProcessInv, ProcessInv', [PNext]_vars
             PROVE  [J!Thread \/ J!OthersFail \/ J!Clock]_(J!tvars)
  OBVIOUS
<1>a. /\ pc \in {"connect", "start"} => Job = "conn"
      /\ pc \in {"poll", "recv", "loop", "sleep"} => Job = "up"
      /\ pc = "verify" => Job = "seen"
      /\ pc = "end" => Job = IF connFailed THEN "failed"
                              ELSE IF exited THEN "over" ELSE "lost"
  BY JobAtThePoints
<1>b. /\ pc' \in {"connect", "start"} => Job' = "conn"
      /\ pc' \in {"poll", "recv", "loop", "sleep"} => Job' = "up"
      /\ pc' = "verify" => Job' = "seen"
      /\ pc' = "end" => Job' = IF connFailed' THEN "failed"
                                ELSE IF exited' THEN "over" ELSE "lost"
  BY DEF ProcessInv, PTypeOK, ShapeInv, HasOverrun, Job
<1>t. /\ event \in BOOLEAN /\ now \in Nat /\ start_time \in Nat
      /\ pc \notin {"connect", "start", "end"} => ~connFailed
  BY DEF ProcessInv, PTypeOK, ShapeInv
<1>u. ASSUME UNCHANGED <<now, event, Job, garbled, otherFailed>> PROVE UNCHANGED J!tvars
  BY <1>u DEF J!tvars
<1> USE DEF J!Turns, J!Moves
<1>g. ASSUME pc \in {"poll", "recv"}, Garbles,
             UNCHANGED <<now, connFailed, otherFailed>>
      PROVE  J!Garbles \/ J!Loses
  <2>1. garbled' > 0 /\ Job = "up"
    BY <1>g, <1>a DEF Garbles, ProcessInv, PTypeOK
  <2>2. CASE stage = "except"
    <3>1. event /\ ~exited /\ ~connFailed
      BY <1>g, <2>2 DEF ProcessInv, PTypeOK, ShapeInv
    <3>2. pc' = "end" /\ UNCHANGED <<event, exited, connFailed>>
      BY <1>g, <2>2 DEF Garbles
    <3>3. Job' = "lost"
      BY <3>1, <3>2, <1>b
    <3> QED
      BY <1>g, <2>1, <3>1, <3>2, <3>3 DEF J!Loses
  <2>3. CASE stage # "except"
    <3>1. pc' = "poll" /\ event' = TRUE
      BY <1>g, <2>3 DEF Garbles
    <3>2. Job' = "up"
      BY <3>1, <1>b
    <3> QED
      BY <1>g, <2>1, <3>1, <3>2 DEF J!Garbles
  <2> QED
    BY <2>2, <2>3
<1>1. CASE Connect
  BY <1>1, <1>a, <1>b, <1>u DEF Connect
<1>2. CASE ConnectFails
  BY <1>2, <1>a, <1>b DEF ConnectFails, FailsWith, J!Thread, J!Connects
<1>3. CASE StartProgram
  BY <1>3, <1>a, <1>b DEF StartProgram, J!Thread, J!Connects
<1>4. CASE Poll \/ Recv
  <2>1. /\ pc \in {"poll", "recv"}
        /\ UNCHANGED <<now, connFailed, otherFailed>>
    BY <1>4 DEF Poll, Recv
  <2>2. CASE Garbles
    BY <2>1, <2>2, <1>g DEF J!Thread
  <2>3. CASE ~Garbles
    <3>1. /\ pc' \in {"verify", "poll", "loop", "recv"}
          /\ UNCHANGED <<event, garbled>>
      BY <1>4, <2>3 DEF Poll, Recv, Logged, PollReturns
    <3>2. CASE pc' = "verify"
      BY <2>1, <3>1, <3>2, <1>a, <1>b DEF J!Thread, J!Ends
    <3>3. CASE pc' # "verify"
      BY <2>1, <3>1, <3>3, <1>a, <1>b, <1>u
    <3> QED
      BY <3>2, <3>3
  <2> QED
    BY <2>2, <2>3
<1>6. CASE Loop
  <2>1. /\ pc = "loop" /\ pc' \in {"poll", "sleep"}
        /\ UNCHANGED <<now, garbled, otherFailed>>
        /\ event' = event \/ (Overrun /\ event' = TRUE)
    BY <1>6 DEF Loop, LoopBody
  <2>2. CASE event' = event
    BY <2>1, <2>2, <1>a, <1>b, <1>u
  <2>3. CASE event' # event
    <3>1. MaxDuration # NoValue /\ now >= 0 + MaxDuration
      BY <2>1, <2>3, <1>t, ProcessAssumption DEF Overrun
    <3> QED
      BY <2>1, <2>3, <3>1, <1>a, <1>b, <1>t DEF J!Thread, J!Overruns
  <2> QED
    BY <2>2, <2>3
<1>7. CASE Sleep
  BY <1>7, <1>a, <1>b, <1>u DEF Sleep, SleepThen
<1>8. CASE Verify
  <2>1. /\ pc = "verify" /\ pc' = "end" /\ exited'
        /\ UNCHANGED <<now, garbled, connFailed, otherFailed>>
        /\ event' \in {event, TRUE}
    BY <1>8, <1>t DEF Verify, VerifyWith, ProcessInv, ShapeInv
  <2> QED
    BY <2>1, <1>a, <1>b, <1>t DEF J!Thread, J!Judges
<1>9. CASE Writes \/ WritesError \/ Exits
  BY <1>9, <1>u DEF Writes, WritesError, Exits, monitorVars, Job
<1>10. CASE OthersFail
  BY <1>10 DEF OthersFail, monitorVars, Job, J!OthersFail
<1>11. CASE Passes
  BY <1>11 DEF Passes, monitorVars, Job, J!Clock
<1>12. CASE UNCHANGED vars
  BY <1>12, <1>u DEF vars, monitorVars, Job
<1> QED
  BY <1>1, <1>2, <1>3, <1>4, <1>6, <1>7, <1>8, <1>9, <1>10, <1>11, <1>12
     DEF PNext, Monitor, Over

(* A program and its monitor thread, with all the points of the thread, its   *)
(* polls, its waits and the output in between (remote_process.py:61-126,      *)
(* checked_process.py), are a thread as the scheduler takes it for, whatever  *)
(* the limits, the interval and the output.                                   *)
THEOREM ThreadImplementsJob == PSpec => SeenAsJob
<1>1. PInit => J!Init
  BY DEF PInit, Job, J!Init
<1>2. ProcessInv /\ ProcessInv' /\ [PNext]_vars
        => [J!Thread \/ J!OthersFail \/ J!Clock]_(J!tvars)
  BY StepsAreSeenAsJob
<1> QED
  BY <1>1, <1>2, ProcessKept, PTL DEF PSpec, SeenAsJob, J!Spec
=============================================================================
