----------------------------- MODULE JobThread -----------------------------
(* A started program and its monitor thread as the main thread of Shremote    *)
(* sees them: through the event all threads share, and through `exited`. It   *)
(* is what Scheduler takes a thread for, and what RemoteProcess implements.   *)
EXTENDS Integers

CONSTANTS
  None,
  Limit,   \* max_duration that the thread watches, or None
  MaxTime  \* bound of the models: the clock stops here, and all is due

VARIABLES
  now,
  event,  \* error_event
  job,    \* "conn"ecting, "failed" to, "up", "seen" to have ended, "over",
          \* or "lost": the thread is over, and its program may go on
  began,  \* when it was started
  garbled, \* history: it could not decode a piece of output
  others  \* history: something else has set the event

tvars == <<now, event, job, began, garbled, others>>

Init ==
  /\ job = "conn" /\ began = now /\ event = FALSE
  /\ garbled = FALSE /\ others = FALSE

Moves(from, to) == job = from /\ job' = to /\ UNCHANGED <<now, began, others>>

Turns(from, to) == Moves(from, to) /\ UNCHANGED garbled

(* A thread that cannot connect, or run its command, is over with the event.  *)
Connects == \/ Turns("conn", "up") /\ UNCHANGED event
            \/ Turns("conn", "failed") /\ event' = TRUE

(* `exited` is TRUE before the end is judged: in between, a program that has  *)
(* failed looks like one that has ended well.                                 *)
Ends   == Turns("up", "seen") /\ UNCHANGED event
Judges == Turns("seen", "over") /\ event' \in {event, TRUE}

(* A program that runs too long is reported, and is left running.             *)
Overruns ==
  /\ Limit # None /\ job = "up" /\ ~event
  /\ now >= began + Limit \/ now = MaxTime
  /\ event' = TRUE /\ UNCHANGED <<now, job, began, garbled, others>>

(* So is output that cannot be decoded, though nothing has failed; and when   *)
(* that happens once the event is set, the thread may be over for it.         *)
Garbles == Moves("up", "up") /\ event' = TRUE /\ garbled' = TRUE
Loses   == Moves("up", "lost") /\ event /\ UNCHANGED event /\ garbled' = TRUE

Thread == Connects \/ Ends \/ Judges \/ Overruns \/ Garbles \/ Loses

OthersFail ==
  /\ ~event /\ event' = TRUE /\ others' = TRUE
  /\ UNCHANGED <<now, job, began, garbled>>

Clock == now' = now + 1 /\ UNCHANGED <<event, job, began, garbled, others>>

Spec == Init /\ [][Thread \/ OthersFail \/ Clock]_tvars
=============================================================================
