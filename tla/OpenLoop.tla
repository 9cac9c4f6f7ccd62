------------------------------ MODULE OpenLoop ------------------------------
(* What an open-loop generator promises of the requests it offers. The i-th   *)
(* request is due at the start time plus the first i gaps: the schedule is    *)
(* fixed before the first request and moves neither with the responses nor    *)
(* with the requests that were given up. Each request, in order, is either    *)
(* offered, never before it is due and stamped with the time it was due, or   *)
(* given up, and only once it is late.                                        *)
EXTENDS Integers, Sequences

CONSTANTS n, Late

VARIABLES now, gaps, started, start, i, offered, given_up,
  out   \* offered requests that have not left yet, oldest first

vars == <<now, gaps, started, start, i, offered, given_up, out>>

(* The time from the start to the k-th request.                               *)
Due[k \in 0 .. n - 1] ==
  IF k = 0 THEN gaps[0] ELSE Due[k - 1] + gaps[k]

Init ==
  /\ now = 0 /\ gaps \in [0 .. n - 1 -> Nat]
  /\ started = FALSE /\ start = 0
  /\ i = 0 /\ offered = 0 /\ given_up = 0 /\ out = <<>>

Start ==
  /\ ~started /\ started' = TRUE /\ start' = now
  /\ UNCHANGED <<now, gaps, i, offered, given_up, out>>

Offer ==
  /\ started /\ i < n /\ now >= start + Due[i]
  /\ i' = i + 1 /\ offered' = offered + 1
  /\ out' = Append(out, [req |-> i, send |-> start + Due[i]])
  /\ UNCHANGED <<now, gaps, started, start, given_up>>

GiveUp ==
  /\ started /\ i < n /\ now > start + Due[i] + Late
  /\ i' = i + 1 /\ given_up' = given_up + 1
  /\ UNCHANGED <<now, gaps, started, start, offered, out>>

Leave ==
  /\ out # <<>> /\ out' = Tail(out)
  /\ UNCHANGED <<now, gaps, started, start, i, offered, given_up>>

Pass == now' = now + 1 /\ UNCHANGED <<gaps, started, start, i, offered, given_up, out>>

Next == Start \/ Offer \/ GiveUp \/ Leave \/ Pass

Spec == Init /\ [][Next]_vars
=============================================================================
