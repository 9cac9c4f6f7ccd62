----------------------------- MODULE AnswerLog -----------------------------
(* What the receiving half promises: it is one queue from the NIC to the log. *)
(* Packets enter it in bursts, each stamped with the present time, and no     *)
(* answer was sent later than that; they leave it one by one, in the order    *)
(* they came; what is UDP with a payload, and nothing else, is logged.        *)
EXTENDS Integers, Sequences

VARIABLES now, pending, log

vars == <<now, pending, log>>

Init == now = 0 /\ pending = <<>> /\ log = <<>>

Receive ==
  /\ Len(pending') > Len(pending)
  /\ SubSeq(pending', 1, Len(pending)) = pending
  /\ \A k \in Len(pending) + 1 .. Len(pending') :
       /\ pending'[k].recv = now
       /\ pending'[k].kind = "answer" => pending'[k].send <= now
  /\ UNCHANGED <<now, log>>

Record ==
  /\ pending # <<>>
  /\ pending' = Tail(pending)
  /\ LET p == Head(pending) IN
       log' = IF p.kind = "other" THEN log
              ELSE Append(log, [timestamp_tx |-> p.send, timestamp_rx |-> p.recv,
                                own |-> p.kind = "answer"])
  /\ UNCHANGED now

Pass == now' = now + 1 /\ UNCHANGED <<pending, log>>

Next == Receive \/ Record \/ Pass

Spec == Init /\ [][Next]_vars
=============================================================================
