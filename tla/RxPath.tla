------------------------------- MODULE RxPath -------------------------------
(* The receiving half of the generator (src/src/main.c:62-188): lcore_rx      *)
(* takes bursts from the NIC, stamps them and passes them through rx_ring to  *)
(* lcore_rx_ring, which records the answers in incoming_array and frees the   *)
(* mbufs. The two lcores share the ring, the RX mbuf pool and the quit flags. *)
EXTENDS Eal

CONSTANTS
  BURST_SIZE,     \* packets in a burst
  RING_ELEMENTS,  \* size of rx_ring; a ring of n elements holds n - 1
  RxDesc,         \* descriptors of the RX queue (nb_rxd), one mbuf in each
  PoolRx,         \* mbufs of pktmbuf_pool_rx (PKTMBUF_POOL_ELEMENTS)
  IncomingSize,   \* nodes of incoming_array (rate * duration)
  ForeignTimes,   \* what SEND_TIME of a frame of somebody else may read as
  MaxRx           \* bound of the model: packets that arrive

ASSUME RxAssumption ==
  /\ BURST_SIZE \in Nat \ {0}
  /\ MaxRx \in Nat /\ IncomingSize \in Nat /\ ForeignTimes \subseteq Nat
  /\ RING_ELEMENTS \in Nat /\ RxDesc \in Nat \ {0} /\ PoolRx \in Nat
  /\ RxDesc < PoolRx /\ PoolRx < RING_ELEMENTS

VARIABLES
  nicRx,     \* packets in the RX queue of the NIC, oldest first
  poolRx,    \* free mbufs of the RX pool
  rxPc,      \* where lcore_rx is
  rxPkts,    \* its burst: taken from the NIC, not yet in the ring
  rxStart, tot_nb_rx,
  rx_ring,
  ringPc,    \* where lcore_rx_ring is
  ringPkts,  \* the part of its burst it has not processed yet
  incoming,  \* incoming_array up to incoming_idx
  q_rx       \* the RX half of q_rps[qid]

rxLcore   == <<rxPc, rxPkts, rxStart, tot_nb_rx, q_rx>>
ringLcore == <<ringPc, ringPkts, incoming>>
rxOwn  == <<nicRx, poolRx, rx_ring, rxLcore, ringLcore>>
rxVars == <<ealVars, rxOwn>>

(* A packet from the network. An "answer" is the first answer to a request of *)
(* this process and carries its time stamp (SEND_TIME). "foreign" is whatever *)
(* else passes for UDP with a payload: a datagram of somebody else, or a      *)
(* second copy of an answer. Any "other" is no UDP, or empty. The code cannot *)
(* tell the first two apart; `own` of a node, which is history and not in     *)
(* node_t, remembers which it was.                                            *)
Kinds   == {"answer", "foreign", "other"}
Packets == [kind : Kinds, send : Nat]
Stamped == [kind : Kinds, send : Nat, recv : Nat]
Nodes   == [timestamp_tx : Nat, timestamp_rx : Nat, own : BOOLEAN]

RxTypeOK ==
  /\ EalTypeOK
  /\ nicRx \in Seq(Packets)
  /\ poolRx \in 0 .. PoolRx - RxDesc
  /\ rxPc \in {"idle", "loop", "poll", "forward", "done"}
  /\ rxPkts \in Seq(Packets)
  /\ rxStart \in 0 .. clock /\ tot_nb_rx \in Nat
  /\ rx_ring \in Seq(Stamped)
  /\ ringPc \in {"idle", "loop", "drain", "done"}
  /\ ringPkts \in Seq(Stamped)
  /\ incoming \in Seq(Nodes)
  /\ q_rx \in [tot_rx : Nat, rps_reached : Nat]

RxInit ==
  /\ EalInit
  /\ nicRx = <<>>
  /\ poolRx = PoolRx - RxDesc
  /\ rxPc = "idle" /\ rxPkts = <<>> /\ rxStart = 0 /\ tot_nb_rx = 0
  /\ rx_ring = <<>>
  /\ ringPc = "idle" /\ ringPkts = <<>> /\ incoming = <<>>
  /\ q_rx = [tot_rx |-> 0, rps_reached |-> 0]

SmallerOf(a, b) == IF a < b THEN a ELSE b

First(s, k)   == SubSeq(s, 1, k)
Without(s, k) == SubSeq(s, k + 1, Len(s))

-----------------------------------------------------------------------------
(* External: the NIC puts a packet into a free descriptor; a packet that      *)
(* finds none is lost (imissed), which for the generator is a packet that     *)
(* never came.                                                                *)
Arrive(p) ==
  /\ Running /\ Len(nicRx) < RxDesc
  /\ tot_nb_rx + Len(nicRx) < MaxRx
  /\ nicRx' = Append(nicRx, p)
  /\ UNCHANGED <<ealVars, poolRx, rx_ring, rxLcore, ringLcore>>

RxLaunch ==
  /\ Running /\ rxPc = "idle"
  /\ rxPc' = "loop" /\ rxStart' = clock
  /\ UNCHANGED <<ealVars, nicRx, poolRx, rx_ring, rxPkts, tot_nb_rx, q_rx,
                 ringLcore>>

RxLoop ==
  /\ Running /\ rxPc = "loop" /\ ~quit_rx
  /\ rxPc' = "poll"
  /\ UNCHANGED <<ealVars, nicRx, poolRx, rx_ring, rxPkts, rxStart, tot_nb_rx,
                 q_rx, ringLcore>>

(* Mutant of RxPoll: a burst is counted as one packet.                        *)
RxPollCountsBursts ==
  /\ Running /\ rxPc = "poll"
  /\ \E k \in 0 .. SmallerOf(BURST_SIZE, SmallerOf(Len(nicRx), poolRx)) :
       /\ rxPkts' = First(nicRx, k) /\ nicRx' = Without(nicRx, k)
       /\ poolRx' = poolRx - k
       /\ tot_nb_rx' = tot_nb_rx + (IF k = 0 THEN 0 ELSE 1)
       /\ rxPc' = IF k = 0 THEN "loop" ELSE "forward"
  /\ UNCHANGED <<ealVars, rx_ring, rxStart, q_rx, ringLcore>>

(* rte_eth_rx_burst. For each packet it returns, the driver puts a fresh mbuf *)
(* into the descriptor, so it returns no more than the pool has left; it may  *)
(* return fewer (the mbufs in the cache of the other lcore are out of reach). *)
RxPoll ==
  /\ Running /\ rxPc = "poll"
  /\ \E k \in 0 .. SmallerOf(BURST_SIZE, SmallerOf(Len(nicRx), poolRx)) :
       /\ rxPkts' = First(nicRx, k) /\ nicRx' = Without(nicRx, k)
       /\ poolRx' = poolRx - k
       /\ tot_nb_rx' = tot_nb_rx + k
       /\ rxPc' = IF k = 0 THEN "loop" ELSE "forward"
  /\ UNCHANGED <<ealVars, rx_ring, rxStart, q_rx, ringLcore>>

(* Mutant of RecvTime: the clock is read once, before the loop.               *)
RecvTimeHoisted == rxStart

(* `now`, read after the burst has been taken (main.c:168).                   *)
RecvTime == clock

StampAll(s) ==
  [k \in 1 .. Len(s) |-> [kind |-> s[k].kind, send |-> s[k].send,
                          recv |-> RecvTime]]

RingFree == RING_ELEMENTS - 1 - Len(rx_ring)

(* The burst is stamped and enqueued. The enqueue takes what there is room    *)
(* for, and the process is given up unless that is the whole burst.           *)
RxForward ==
  /\ Running /\ rxPc = "forward"
  /\ LET k == SmallerOf(Len(rxPkts), RingFree) IN
       /\ rx_ring' = rx_ring \o StampAll(First(rxPkts, k))
       /\ IF k = Len(rxPkts)
          THEN rxPc' = "loop" /\ UNCHANGED status
          ELSE status' = "rte_exit" /\ UNCHANGED rxPc
       /\ rxPkts' = Without(rxPkts, k)
  /\ UNCHANGED <<clock, quit_tx, quit_rx, quit_rx_ring, nicRx, poolRx, rxStart,
                 tot_nb_rx, q_rx, ringLcore>>

RxFinish ==
  /\ Running /\ rxPc = "loop" /\ quit_rx
  /\ IF Seconds(rxStart) = 0
     THEN status' = "sigfpe" /\ UNCHANGED <<rxPc, q_rx>>
     ELSE /\ rxPc' = "done"
          /\ q_rx' = [tot_rx |-> tot_nb_rx,
                      rps_reached |-> tot_nb_rx \div Seconds(rxStart)]
          /\ UNCHANGED status
  /\ UNCHANGED <<clock, quit_tx, quit_rx, quit_rx_ring, nicRx, poolRx, rx_ring,
                 rxPkts, rxStart, tot_nb_rx, ringLcore>>

-----------------------------------------------------------------------------
RingLaunch ==
  /\ Running /\ ringPc = "idle"
  /\ ringPc' = "loop" /\ incoming' = <<>>
  /\ UNCHANGED <<ealVars, nicRx, poolRx, rx_ring, rxLcore, ringPkts>>

(* A dequeue of either loop; an empty one is RingQuit, RingDone or no step.   *)
(* In the first loop the flag has just been read as FALSE. That it may be     *)
(* raised between that read and the dequeue adds nothing: the step would be   *)
(* the first one of the second loop.                                          *)
RingDequeue ==
  /\ Running /\ ringPkts = <<>> /\ rx_ring # <<>>
  /\ ringPc = "drain" \/ (ringPc = "loop" /\ ~quit_rx_ring)
  /\ LET k == SmallerOf(BURST_SIZE, Len(rx_ring)) IN
       ringPkts' = First(rx_ring, k) /\ rx_ring' = Without(rx_ring, k)
  /\ UNCHANGED <<ealVars, nicRx, poolRx, rxLcore, ringPc, incoming>>

(* process_rx_pkt: every UDP packet with a payload gets a node, whatever port *)
(* and flow it is for.                                                        *)
Recorded(p) == p.kind # "other"

NodeOf(p) ==
  [timestamp_tx |-> p.send, timestamp_rx |-> p.recv, own |-> p.kind = "answer"]

(* Mutants of RingProcess: only a packet that was recorded is freed; a packet *)
(* is freed by process_rx_pkt and by its caller; the burst is processed from  *)
(* its end.                                                                   *)
RingProcessLeaks ==
  /\ Running /\ ringPkts # <<>>
  /\ incoming' = IF Recorded(Head(ringPkts))
                 THEN Append(incoming, NodeOf(Head(ringPkts))) ELSE incoming
  /\ ringPkts' = Tail(ringPkts)
  /\ poolRx' = IF Recorded(Head(ringPkts)) THEN poolRx + 1 ELSE poolRx
  /\ UNCHANGED <<ealVars, nicRx, rx_ring, rxLcore, ringPc>>

RingProcessFreesTwice ==
  /\ Running /\ ringPkts # <<>>
  /\ incoming' = IF Recorded(Head(ringPkts))
                 THEN Append(incoming, NodeOf(Head(ringPkts))) ELSE incoming
  /\ ringPkts' = Tail(ringPkts)
  /\ poolRx' = poolRx + 2
  /\ UNCHANGED <<ealVars, nicRx, rx_ring, rxLcore, ringPc>>

RingProcessBackwards ==
  LET last == ringPkts[Len(ringPkts)] IN
  /\ Running /\ ringPkts # <<>>
  /\ incoming' = IF Recorded(last)
                 THEN Append(incoming, NodeOf(last)) ELSE incoming
  /\ ringPkts' = First(ringPkts, Len(ringPkts) - 1)
  /\ poolRx' = poolRx + 1
  /\ UNCHANGED <<ealVars, nicRx, rx_ring, rxLcore, ringPc>>

(* One packet of the burst is processed, and its mbuf freed in any case. The  *)
(* index of incoming_array is not tested: once the array is full the node is  *)
(* written behind its end, where the write may do no harm that shows, or end  *)
(* the process.                                                               *)
RingProcess ==
  /\ Running /\ ringPkts # <<>>
  /\ \/ /\ incoming' = IF Recorded(Head(ringPkts))
                       THEN Append(incoming, NodeOf(Head(ringPkts)))
                       ELSE incoming
        /\ ringPkts' = Tail(ringPkts)
        /\ poolRx' = poolRx + 1
        /\ UNCHANGED status
     \/ /\ Recorded(Head(ringPkts)) /\ Len(incoming) >= IncomingSize
        /\ status' = "crashed"
        /\ UNCHANGED <<incoming, ringPkts, poolRx>>
  /\ UNCHANGED <<clock, quit_tx, quit_rx, quit_rx_ring, nicRx, rx_ring, rxLcore,
                 ringPc>>

(* Mutant of RingQuit: the ring is reset, not drained.                        *)
RingQuitResets ==
  /\ Running /\ ringPc = "loop" /\ ringPkts = <<>> /\ quit_rx_ring
  /\ ringPc' = "drain" /\ rx_ring' = <<>>
  /\ UNCHANGED <<ealVars, nicRx, poolRx, rxLcore, ringPkts, incoming>>

RingQuit ==
  /\ Running /\ ringPc = "loop" /\ ringPkts = <<>> /\ quit_rx_ring
  /\ ringPc' = "drain"
  /\ UNCHANGED <<ealVars, nicRx, poolRx, rx_ring, rxLcore, ringPkts, incoming>>

(* The drain loop ends with the first dequeue that finds the ring empty.      *)
RingDone ==
  /\ Running /\ ringPc = "drain" /\ ringPkts = <<>> /\ rx_ring = <<>>
  /\ ringPc' = "done"
  /\ UNCHANGED <<ealVars, nicRx, poolRx, rx_ring, rxLcore, ringPkts, incoming>>

-----------------------------------------------------------------------------
RxThread   == RxLoop \/ RxPoll \/ RxForward \/ RxFinish
RingThread == RingDequeue \/ RingProcess \/ RingQuit \/ RingDone

(* An answer to a request of this process carries a past time; what a frame   *)
(* of somebody else has at the place of SEND_TIME is anything.                *)
Network ==
  \/ \E send \in 0 .. clock : Arrive([kind |-> "answer", send |-> send])
  \/ \E send \in ForeignTimes : Arrive([kind |-> "foreign", send |-> send])
  \/ Arrive([kind |-> "other", send |-> 0])

RxNext ==
  \/ Network
  \/ RxLaunch \/ RxThread \/ RingLaunch \/ RingThread
  \/ Tick /\ UNCHANGED rxOwn
  \/ ProcessStep /\ UNCHANGED rxOwn

RxSpec == RxInit /\ [][RxNext]_rxVars

-----------------------------------------------------------------------------
(* The mbufs of the RX pool that are not in a descriptor are free, in the     *)
(* burst of lcore_rx, in the ring, or in the burst of lcore_rx_ring: the two  *)
(* lcores neither leak one (a packet that is no answer is freed as well,      *)
(* main.c:123-125) nor free one twice.                                        *)
RxMbufsConserved ==
  poolRx + Len(rxPkts) + Len(rx_ring) + Len(ringPkts) = PoolRx - RxDesc

(* The enqueue of main.c:174 never finds the ring too full for the burst,     *)
(* however far lcore_rx_ring falls behind: the pool runs dry first. So the    *)
(* rte_exit behind it, which would lose the whole measurement, is never met.  *)
RingHasRoom == rxPc = "forward" => Len(rxPkts) <= RingFree

(* The RX pool is neither leaked, nor handed over faster than it is taken.    *)
RxMbufsSafe == RxMbufsConserved /\ RingHasRoom

(* The assertion that util.c:334 has commented out, for the nodes of answers  *)
(* to this process: it was not received before it was sent, so get_delta_ns   *)
(* subtracts without wrapping. Of the other nodes it does not hold.           *)
NoNegativeLatency ==
  \A k \in 1 .. Len(incoming) :
    incoming[k].own => incoming[k].timestamp_tx <= incoming[k].timestamp_rx

(* The nodes are in the order of their receive times, which is what makes     *)
(* "the first 10%" of the array (util.c:359) the packets of the warm-up.      *)
LoggedInOrder ==
  \A j, k \in 1 .. Len(incoming) :
    j <= k => incoming[j].timestamp_rx <= incoming[k].timestamp_rx

(* The times in the array are in order, and the time stamps lcore_tx sent     *)
(* come back in it before the time stamps lcore_rx gave.                      *)
LogIsSound == NoNegativeLatency /\ LoggedInOrder

(* No packet is taken twice, and what lcore_rx reports as received is all     *)
(* that ever reached the array or is still on its way (main.c:165, 185).      *)
RxAccounting ==
  /\ Len(rxPkts) + Len(rx_ring) + Len(ringPkts) + Len(incoming) <= tot_nb_rx
  /\ rxPc = "done" => q_rx.tot_rx = tot_nb_rx

(* Ring, bursts and array of the two lcores (main.c:111-188) are, seen from   *)
(* outside, one queue that loses, duplicates and reorders nothing.            *)
Queue == INSTANCE AnswerLog WITH
  now <- clock, pending <- ringPkts \o rx_ring, log <- incoming

QueueKept == Queue!Spec
=============================================================================
