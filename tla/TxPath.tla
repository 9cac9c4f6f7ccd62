------------------------------- MODULE TxPath -------------------------------
(* lcore_tx (src/src/main.c:191-265): the open-loop sender. Request i is due  *)
(* at next_tsc, the start time plus the interarrival gaps up to i. A request  *)
(* more than LateTicks behind is given up; any other is built in an mbuf of   *)
(* the TX pool, held until its time and handed to the TX queue of the NIC.    *)
EXTENDS Eal

CONSTANTS
  nr_elements,  \* rate * duration: the number of requests
  Gaps,         \* the values interarrival_array may hold
  LateTicks,    \* 5 * TICKS_PER_US
  TxDesc,       \* descriptors of the TX queue (nb_txd)
  PoolTx        \* mbufs of pktmbuf_pool_tx (PKTMBUF_POOL_ELEMENTS)

ASSUME TxAssumption ==
  /\ nr_elements \in Nat /\ LateTicks \in Nat
  /\ Gaps \subseteq Nat
  /\ TxDesc \in Nat \ {0} /\ PoolTx \in Nat /\ PoolTx > TxDesc

VARIABLES
  interarrival_array,  \* gap before each request
  txPc,                \* where the TX lcore is
  txI,                 \* i: the request the loop is at
  txStart, next_tsc,
  tot_nb_tx, nr_never_sent,
  poolTx,              \* free mbufs of the TX pool
  nicTx,               \* packets the NIC has not sent yet, oldest first
  txSent,              \* packets sent whose mbuf the driver has not freed
  q_tx                 \* the TX half of q_rps[qid]

txLocal == <<txI, txStart, next_tsc, tot_nb_tx, nr_never_sent>>
txNic   == <<poolTx, nicTx, txSent>>
txOwn   == <<interarrival_array, txPc, txLocal, txNic, q_tx>>
txVars  == <<ealVars, txOwn>>

Requests == 0 .. nr_elements - 1

TxTypeOK ==
  /\ EalTypeOK
  /\ interarrival_array \in [Requests -> Gaps]
  /\ txPc \in {"idle", "loop", "pick", "spin", "done"}
  /\ txI \in 0 .. nr_elements
  /\ txPc \in {"pick", "spin"} => txI < nr_elements
  /\ txStart \in 0 .. clock
  /\ next_tsc \in Nat
  /\ tot_nb_tx \in Nat /\ nr_never_sent \in Nat
  /\ poolTx \in 0 .. PoolTx
  /\ nicTx \in Seq([req : Requests, send : Nat])
  /\ txSent \in Nat
  /\ q_tx \in [tot_tx : Nat, rps_offered : Nat]

TxInit ==
  /\ EalInit
  /\ interarrival_array \in [Requests -> Gaps]
  /\ txPc = "idle"
  /\ txI = 0 /\ txStart = 0 /\ next_tsc = 0
  /\ tot_nb_tx = 0 /\ nr_never_sent = 0
  /\ poolTx = PoolTx /\ nicTx = <<>> /\ txSent = 0
  /\ q_tx = [tot_tx |-> 0, rps_offered |-> 0]

-----------------------------------------------------------------------------
(* The lcore starts lcore_tx (rte_eal_remote_launch, main.c:317).             *)
TxLaunch ==
  /\ Running /\ txPc = "idle"
  /\ txPc' = "loop"
  /\ txStart' = clock /\ next_tsc' = clock
  /\ UNCHANGED <<ealVars, interarrival_array, txI, tot_nb_tx, nr_never_sent,
                 txNic, q_tx>>

(* The head of the for loop, and the request's due time. The flag is read     *)
(* here and not again before the request has been sent or given up.           *)
TxLoop ==
  /\ Running /\ txPc = "loop"
  /\ txI < nr_elements /\ ~quit_tx
  /\ txPc' = "pick"
  /\ next_tsc' = next_tsc + interarrival_array[txI]
  /\ UNCHANGED <<ealVars, interarrival_array, txI, txStart, tot_nb_tx,
                 nr_never_sent, txNic, q_tx>>

TooLate == clock > next_tsc + LateTicks

(* Mutants of TxSkip: the mbuf is taken before the test for lateness and not  *)
(* given back; nr_never_sent is not counted; the schedule is moved by the     *)
(* line main.c:213 has commented out.                                         *)
TxSkipLeaks ==
  /\ Running /\ txPc = "pick" /\ TooLate /\ poolTx > 0
  /\ txPc' = "loop" /\ txI' = txI + 1
  /\ nr_never_sent' = nr_never_sent + 1
  /\ poolTx' = poolTx - 1
  /\ UNCHANGED <<ealVars, interarrival_array, txStart, next_tsc, tot_nb_tx,
                 nicTx, txSent, q_tx>>

TxSkipUncounted ==
  /\ Running /\ txPc = "pick" /\ TooLate
  /\ txPc' = "loop" /\ txI' = txI + 1
  /\ UNCHANGED <<ealVars, interarrival_array, txStart, next_tsc, tot_nb_tx,
                 nr_never_sent, txNic, q_tx>>

TxSkipMovesSchedule ==
  /\ Running /\ txPc = "pick" /\ TooLate
  /\ txPc' = "loop" /\ txI' = txI + 1
  /\ nr_never_sent' = nr_never_sent + 1
  /\ next_tsc' = next_tsc + interarrival_array[txI] + 1
  /\ UNCHANGED <<ealVars, interarrival_array, txStart, tot_nb_tx, txNic, q_tx>>

(* `continue` of main.c:214: the request is given up, its gap stays counted.  *)
TxSkip ==
  /\ Running /\ txPc = "pick" /\ TooLate
  /\ txPc' = "loop" /\ txI' = txI + 1
  /\ nr_never_sent' = nr_never_sent + 1
  /\ UNCHANGED <<ealVars, interarrival_array, txStart, next_tsc, tot_nb_tx,
                 txNic, q_tx>>

(* Mutant of TxFill: one mbuf used over and over, given back by every send.   *)
TxFillReuses ==
  /\ Running /\ txPc = "pick" /\ ~TooLate
  /\ txPc' = "spin"
  /\ UNCHANGED <<ealVars, interarrival_array, txLocal, txNic, q_tx>>

(* The mbuf is allocated and filled. The result of rte_pktmbuf_alloc is not   *)
(* tested: fill_udp_packet writes through it, NULL or not.                    *)
TxFill ==
  /\ Running /\ txPc = "pick" /\ ~TooLate
  /\ IF poolTx = 0
     THEN status' = "segv" /\ UNCHANGED <<txPc, poolTx>>
     ELSE txPc' = "spin" /\ poolTx' = poolTx - 1 /\ UNCHANGED status
  /\ UNCHANGED <<clock, quit_tx, quit_rx, quit_rx_ring, interarrival_array,
                 txLocal, nicTx, txSent, q_tx>>

(* The spin of main.c:247 is over once the clock reads next_tsc.              *)
SpinOver == clock >= next_tsc

(* rte_eth_tx_burst of one packet. The driver first frees the mbufs of some   *)
(* of the descriptors already sent (how many is its own choice), then takes   *)
(* the packet if a descriptor is free; the caller gives up the whole process  *)
(* when it is not.                                                            *)
TxSend ==
  /\ Running /\ txPc = "spin" /\ SpinOver
  /\ \E r \in 0 .. txSent :
       /\ txSent' = txSent - r
       /\ poolTx' = poolTx + r
       /\ IF Len(nicTx) + txSent - r < TxDesc
          THEN /\ nicTx' = Append(nicTx, [req |-> txI, send |-> next_tsc])
               /\ tot_nb_tx' = tot_nb_tx + 1
               /\ txI' = txI + 1 /\ txPc' = "loop"
               /\ UNCHANGED status
          ELSE /\ status' = "rte_exit"
               /\ UNCHANGED <<nicTx, tot_nb_tx, txI, txPc>>
  /\ UNCHANGED <<clock, quit_tx, quit_rx, quit_rx_ring, interarrival_array,
                 txStart, next_tsc, nr_never_sent, q_tx>>

(* The rates are divided by the whole seconds the loop took: a loop shorter   *)
(* than a second divides by zero.                                             *)
TxFinish ==
  /\ Running /\ txPc = "loop"
  /\ txI = nr_elements \/ quit_tx
  /\ IF Seconds(txStart) = 0
     THEN status' = "sigfpe" /\ UNCHANGED <<txPc, q_tx>>
     ELSE /\ txPc' = "done"
          /\ q_tx' = [tot_tx |-> tot_nb_tx,
                      rps_offered |-> tot_nb_tx \div Seconds(txStart)]
          /\ UNCHANGED status
  /\ UNCHANGED <<clock, quit_tx, quit_rx, quit_rx_ring, interarrival_array,
                 txLocal, txNic>>

(* External: the NIC sends the oldest packet of its TX queue. Its mbuf goes   *)
(* back to the pool only when the driver reclaims the descriptor.             *)
NicTransmit ==
  /\ Running /\ nicTx # <<>>
  /\ nicTx' = Tail(nicTx) /\ txSent' = txSent + 1
  /\ UNCHANGED <<ealVars, interarrival_array, txPc, txLocal, poolTx, q_tx>>

TxThread == TxLoop \/ TxSkip \/ TxFill \/ TxSend \/ TxFinish

TxNext ==
  \/ TxLaunch \/ TxThread \/ NicTransmit
  \/ Tick /\ UNCHANGED txOwn
  \/ ProcessStep /\ UNCHANGED txOwn

TxSpec == TxInit /\ [][TxNext]_txVars

-----------------------------------------------------------------------------
(* An mbuf of the TX pool is free, in the hands of the loop, queued at the    *)
(* NIC, or sent and waiting to be reclaimed; a request that is given up       *)
(* costs none (main.c:210-221).                                               *)
TxMbufsConserved ==
  poolTx + Len(nicTx) + txSent + (IF txPc = "spin" THEN 1 ELSE 0) = PoolTx

(* rte_pktmbuf_alloc, whose result lcore_tx never tests (main.c:221), always  *)
(* finds an mbuf: the queue of the NIC is full long before the pool is empty. *)
AllocNeverFails == status # "segv"

(* The TX pool is neither leaked nor overdrawn.                               *)
TxMbufsSafe == TxMbufsConserved /\ AllocNeverFails

(* Each request the loop has passed is counted once, as sent or as given up;  *)
(* the total that is reported is the number of packets handed to the NIC; and *)
(* a loop that was not told to quit has passed every request.                 *)
TxAccounting ==
  /\ tot_nb_tx + nr_never_sent = txI
  /\ tot_nb_tx >= Len(nicTx) + txSent
  /\ txPc = "done" => /\ q_tx.tot_tx = tot_nb_tx
                      /\ quit_tx \/ q_tx.tot_tx + nr_never_sent = nr_elements

(* lcore_tx keeps the promise of an open-loop generator (main.c:205-257): the *)
(* schedule it follows, and stamps on the packets, is the one of the gaps     *)
(* alone, whatever was late or given up before.                               *)
Promise == INSTANCE OpenLoop WITH
  n <- nr_elements, Late <- LateTicks, now <- clock, gaps <- interarrival_array,
  started <- (txPc # "idle"), start <- txStart, i <- txI,
  offered <- tot_nb_tx, given_up <- nr_never_sent, out <- nicTx

OpenLoopKept == Promise!Spec
=============================================================================
