---------------------------- MODULE LcoreProofs ----------------------------
(* Theorems about the two halves of the generator, each in an environment     *)
(* that may be any other process: lcore_tx, for every number of requests,     *)
(* every schedule and every size of the TX queue and pool; lcore_rx and       *)
(* lcore_rx_ring, for every size of burst, ring, RX queue and pool that the   *)
(* assumptions of RxPath allow.                                               *)
EXTENDS TxPath, RxPath, SequenceTheorems, WellFoundedInduction, TLAPS

(* The packets of the queue and the sent ones fit the descriptors: this is    *)
(* what keeps the pool, which is larger, from running dry.                    *)
TxQueueBounded == Len(nicTx) + txSent <= TxDesc

(* A packet at the NIC was handed over at or after the time stamp it carries. *)
NeverEarly == \A k \in 1 .. Len(nicTx) : nicTx[k].send <= clock

(* The inductive invariant.                                                   *)
TxInv ==
  /\ TxTypeOK
  /\ TxMbufsConserved
  /\ TxQueueBounded
  /\ AllocNeverFails
  /\ NeverEarly
  /\ TxAccounting

-----------------------------------------------------------------------------
(* Division of a clock difference by Hz gives a natural number.               *)
LEMMA SecondsNat ==
  ASSUME NEW start \in Nat, clock \in Nat, start <= clock
  PROVE  Seconds(start) \in Nat
  BY EalAssumption DEF Seconds

LEMMA QuotientNat ==
  ASSUME NEW a \in Nat, NEW b \in Nat, b # 0
  PROVE  a \div b \in Nat
  OBVIOUS

LEMMA TxInitInv == TxInit => TxInv
<1> SUFFICES ASSUME TxInit PROVE TxInv
  OBVIOUS
<1> USE EalAssumption, TxAssumption DEF EalInit, TxInit
<1>1. TxTypeOK
  <2>1. nicTx \in Seq([req : Requests, send : Nat])
    BY EmptySeq
  <2>2. EalTypeOK
    <3>1. quit_tx \in BOOLEAN /\ quit_rx \in BOOLEAN /\ quit_rx_ring \in BOOLEAN
      BY Zenon
    <3> QED
      BY <3>1 DEF EalTypeOK, Status
  <2> QED
    BY <2>1, <2>2 DEF TxTypeOK
<1>2. TxMbufsConserved /\ TxQueueBounded /\ AllocNeverFails /\ NeverEarly
  BY DEF TxMbufsConserved, TxQueueBounded, AllocNeverFails, NeverEarly
<1>3. TxAccounting
  BY DEF TxAccounting
<1> QED
  BY <1>1, <1>2, <1>3 DEF TxInv

-----------------------------------------------------------------------------
LEMMA TxLaunchInv == TxInv /\ TxLaunch => TxInv'
<1> SUFFICES ASSUME TxInv, TxLaunch PROVE TxInv'
  OBVIOUS
<1> USE EalAssumption, TxAssumption
    DEF TxInv, TxLaunch, ealVars, txNic, Running
<1>1. TxTypeOK'
  BY DEF TxTypeOK, EalTypeOK
<1>2. (TxMbufsConserved /\ TxQueueBounded /\ AllocNeverFails /\ NeverEarly)'
  BY DEF TxMbufsConserved, TxQueueBounded, AllocNeverFails, NeverEarly
<1>3. TxAccounting'
  BY DEF TxAccounting
<1> QED
  BY <1>1, <1>2, <1>3 DEF TxInv

LEMMA TxLoopInv == TxInv /\ TxLoop => TxInv'
<1> SUFFICES ASSUME TxInv, TxLoop PROVE TxInv'
  OBVIOUS
<1> USE EalAssumption, TxAssumption DEF TxInv, TxLoop, ealVars, txNic, Running
<1>1. TxTypeOK'
  <2>1. txI \in Requests
    BY DEF TxTypeOK, Requests
  <2>2. interarrival_array[txI] \in Nat
    BY <2>1 DEF TxTypeOK
  <2> QED
    BY <2>2 DEF TxTypeOK, EalTypeOK
<1>2. (TxMbufsConserved /\ TxQueueBounded /\ AllocNeverFails /\ NeverEarly)'
  BY DEF TxMbufsConserved, TxQueueBounded, AllocNeverFails, NeverEarly
<1>3. TxAccounting'
  BY DEF TxAccounting
<1> QED
  BY <1>1, <1>2, <1>3 DEF TxInv

LEMMA TxSkipInv == TxInv /\ TxSkip => TxInv'
<1> SUFFICES ASSUME TxInv, TxSkip PROVE TxInv'
  OBVIOUS
<1> USE EalAssumption, TxAssumption DEF TxInv, TxSkip, ealVars, txNic, Running
<1>1. TxTypeOK'
  BY DEF TxTypeOK, EalTypeOK
<1>2. (TxMbufsConserved /\ TxQueueBounded /\ AllocNeverFails /\ NeverEarly)'
  BY DEF TxMbufsConserved, TxQueueBounded, AllocNeverFails, NeverEarly
<1>3. TxAccounting'
  BY DEF TxAccounting, TxTypeOK
<1> QED
  BY <1>1, <1>2, <1>3 DEF TxInv

(* The allocation: the mbufs that are not free fit the descriptors, and the   *)
(* pool has more mbufs than there are descriptors.                            *)
LEMMA TxFillInv == TxInv /\ TxFill => TxInv'
<1> SUFFICES ASSUME TxInv, TxFill PROVE TxInv'
  OBVIOUS
<1> USE EalAssumption, TxAssumption DEF TxInv, TxFill, txLocal, Running
<1>1. poolTx # 0
  <2>1. Len(nicTx) \in Nat
    BY DEF TxTypeOK
  <2> QED
    BY <2>1 DEF TxMbufsConserved, TxQueueBounded, TxTypeOK
<1>2. txPc' = "spin" /\ poolTx' = poolTx - 1 /\ status' = status
  BY <1>1
<1>3. TxTypeOK'
  BY <1>1, <1>2 DEF TxTypeOK, EalTypeOK
<1>4. (TxQueueBounded /\ AllocNeverFails /\ NeverEarly)'
  BY <1>2 DEF TxQueueBounded, AllocNeverFails, NeverEarly
<1>5. TxMbufsConserved'
  <2>1. Len(nicTx) \in Nat
    BY DEF TxTypeOK
  <2> QED
    BY <1>2, <2>1 DEF TxMbufsConserved, TxTypeOK
<1>6. TxAccounting'
  BY <1>2 DEF TxAccounting
<1> QED
  BY <1>3, <1>4, <1>5, <1>6 DEF TxInv

(* A descriptor is taken only when one is free, whatever was reclaimed before.*)
LEMMA TxSendInv == TxInv /\ TxSend => TxInv'
<1> SUFFICES ASSUME TxInv, TxSend PROVE TxInv'
  OBVIOUS
<1> DEFINE pkt == [req |-> txI, send |-> next_tsc]
           P == [req : Requests, send : Nat]
<1>1. PICK r \in 0 .. txSent :
        /\ txSent' = txSent - r
        /\ poolTx' = poolTx + r
        /\ IF Len(nicTx) + txSent - r < TxDesc
           THEN /\ nicTx' = Append(nicTx, pkt)
                /\ tot_nb_tx' = tot_nb_tx + 1
                /\ txI' = txI + 1 /\ txPc' = "loop"
                /\ UNCHANGED status
           ELSE /\ status' = "rte_exit"
                /\ UNCHANGED <<nicTx, tot_nb_tx, txI, txPc>>
  BY Zenon DEF TxSend
<1>2. /\ status = "running" /\ txPc = "spin" /\ clock >= next_tsc
      /\ UNCHANGED <<clock, quit_tx, quit_rx, quit_rx_ring, interarrival_array,
                     txStart, next_tsc, nr_never_sent, q_tx>>
  BY DEF TxSend, Running, SpinOver
<1>3. /\ TxTypeOK /\ NeverEarly /\ TxAccounting /\ AllocNeverFails
      /\ poolTx + Len(nicTx) + txSent + 1 = PoolTx
      /\ Len(nicTx) + txSent <= TxDesc
  BY <1>2 DEF TxInv, TxMbufsConserved, TxQueueBounded
<1>4. /\ r \in Nat /\ r <= txSent /\ txSent \in Nat /\ poolTx \in Nat
      /\ Len(nicTx) \in Nat /\ nicTx \in Seq(P)
      /\ pkt \in P /\ pkt.send <= clock
      /\ PoolTx \in Nat /\ TxDesc \in Nat
      /\ txI \in Nat /\ txI + 1 \in 0 .. nr_elements /\ txI \in 0 .. nr_elements
      /\ tot_nb_tx \in Nat /\ nr_never_sent \in Nat
  BY <1>2, <1>3, TxAssumption DEF TxTypeOK, EalTypeOK, Requests
<1> HIDE DEF pkt, P
<1>0. txSent' = txSent - r /\ poolTx' = poolTx + r
  BY <1>1
<1>5. txSent' \in Nat /\ poolTx' \in 0 .. PoolTx
  BY <1>0, <1>3, <1>4
<1>6. CASE Len(nicTx) + txSent - r < TxDesc
  <2>1. /\ nicTx' = Append(nicTx, pkt) /\ tot_nb_tx' = tot_nb_tx + 1
        /\ txI' = txI + 1 /\ txPc' = "loop" /\ status' = status
    BY <1>1, <1>6
  <2>2. /\ nicTx' \in Seq(P)
        /\ Len(nicTx') = Len(nicTx) + 1
        /\ \A k \in 1 .. Len(nicTx) : nicTx'[k] = nicTx[k]
        /\ nicTx'[Len(nicTx) + 1] = pkt
    BY <2>1, <1>4, AppendProperties
  <2>3. TxTypeOK'
    <3>1. nicTx' \in Seq([req : Requests, send : Nat])
      BY <2>2 DEF P
    <3>2. EalTypeOK'
      BY <1>2, <1>3, <2>1 DEF TxTypeOK, EalTypeOK
    <3>3. txI' \in 0 .. nr_elements /\ tot_nb_tx' \in Nat
      BY <1>4, <2>1
    <3>4. /\ txPc' = "loop" /\ nr_never_sent' \in Nat /\ next_tsc' \in Nat
          /\ interarrival_array' \in [Requests -> Gaps] /\ txStart' \in 0 .. clock'
          /\ q_tx' \in [tot_tx : Nat, rps_offered : Nat]
      BY <1>2, <1>3, <2>1 DEF TxTypeOK
    <3> QED
      BY <1>5, <3>1, <3>2, <3>3, <3>4 DEF TxTypeOK
  <2>4. TxMbufsConserved'
    <3>1. \A p, n, t \in Nat : (p + r) + (n + 1) + (t - r) = p + n + t + 1
      BY <1>4
    <3>2. Len(nicTx') = Len(nicTx) + 1
      BY <2>2
    <3>3. (poolTx + r) + (Len(nicTx) + 1) + (txSent - r) = PoolTx
      <4>1. (poolTx + r) + (Len(nicTx) + 1) + (txSent - r) = poolTx + Len(nicTx) + txSent + 1
        BY <1>4, <3>1
      <4> QED
        BY <1>3, <4>1, Zenon
    <3>4. poolTx' + Len(nicTx') + txSent' = PoolTx
      BY <1>0, <3>2, <3>3
    <3> QED
      BY <2>1, <3>4, <1>4, <1>5, <2>2 DEF TxMbufsConserved
  <2>5. TxQueueBounded'
    BY <1>1, <1>4, <1>6, <2>2 DEF TxQueueBounded
  <2>6. AllocNeverFails'
    BY <1>3, <2>1 DEF AllocNeverFails
  <2>7. NeverEarly'
    <3>1. ASSUME NEW k \in 1 .. Len(nicTx') PROVE nicTx'[k].send <= clock'
      <4>1. CASE k = Len(nicTx) + 1
        BY <4>1, <1>2, <1>4, <2>2
      <4>2. CASE k \in 1 .. Len(nicTx)
        BY <4>2, <1>2, <1>3, <2>2 DEF NeverEarly
      <4> QED
        BY <4>1, <4>2, <1>4, <2>2
    <3> QED
      BY <3>1 DEF NeverEarly
  <2>8. TxAccounting'
    BY <1>1, <1>2, <1>3, <1>4, <2>1, <2>2 DEF TxAccounting
  <2> QED
    BY <2>3, <2>4, <2>5, <2>6, <2>7, <2>8 DEF TxInv
<1>7. CASE ~ (Len(nicTx) + txSent - r < TxDesc)
  <2>1. status' = "rte_exit" /\ UNCHANGED <<nicTx, tot_nb_tx, txI, txPc>>
    BY <1>1, <1>7
  <2>2. TxTypeOK'
    BY <1>2, <1>3, <1>5, <2>1 DEF TxTypeOK, EalTypeOK, Status
  <2>3. (TxMbufsConserved /\ TxQueueBounded)'
    BY <1>1, <1>2, <1>3, <1>4, <2>1 DEF TxMbufsConserved, TxQueueBounded
  <2>4. (AllocNeverFails /\ NeverEarly)'
    BY <1>2, <1>3, <2>1 DEF AllocNeverFails, NeverEarly
  <2>5. TxAccounting'
    BY <1>1, <1>2, <1>3, <1>4, <2>1 DEF TxAccounting
  <2> QED
    BY <2>2, <2>3, <2>4, <2>5 DEF TxInv
<1> QED
  BY <1>6, <1>7

LEMMA TxFinishInv == TxInv /\ TxFinish => TxInv'
<1> SUFFICES ASSUME TxInv, TxFinish PROVE TxInv'
  OBVIOUS
<1> USE EalAssumption, TxAssumption DEF TxInv, TxFinish, txLocal, txNic, Running
<1>1. (TxMbufsConserved /\ TxQueueBounded /\ NeverEarly)'
  BY DEF TxMbufsConserved, TxQueueBounded, NeverEarly
<1>2. CASE Seconds(txStart) = 0
  <2>1. status' = "sigfpe" /\ UNCHANGED <<txPc, q_tx>>
    BY <1>2
  <2>2. TxTypeOK'
    BY <2>1 DEF TxTypeOK, EalTypeOK, Status
  <2>3. AllocNeverFails' /\ TxAccounting'
    BY <2>1 DEF AllocNeverFails, TxAccounting
  <2> QED
    BY <1>1, <2>2, <2>3 DEF TxInv
<1>3. CASE Seconds(txStart) # 0
  <2>1. /\ txPc' = "done" /\ status' = status
        /\ q_tx' = [tot_tx |-> tot_nb_tx,
                    rps_offered |-> tot_nb_tx \div Seconds(txStart)]
    BY <1>3
  <2>2. tot_nb_tx \div Seconds(txStart) \in Nat
    <3>1. Seconds(txStart) \in Nat
      BY SecondsNat DEF TxTypeOK, EalTypeOK
    <3> QED
      BY <1>3, <3>1, QuotientNat DEF TxTypeOK
  <2>3. TxTypeOK'
    BY <2>1, <2>2 DEF TxTypeOK, EalTypeOK
  <2>4. AllocNeverFails' /\ TxAccounting'
    BY <2>1 DEF AllocNeverFails, TxAccounting
  <2> QED
    BY <1>1, <2>3, <2>4 DEF TxInv
<1> QED
  BY <1>2, <1>3

LEMMA NicTransmitInv == TxInv /\ NicTransmit => TxInv'
<1> SUFFICES ASSUME TxInv, NicTransmit PROVE TxInv'
  OBVIOUS
<1> DEFINE P == [req : Requests, send : Nat]
<1>1. /\ nicTx # <<>> /\ nicTx' = Tail(nicTx) /\ txSent' = txSent + 1
      /\ UNCHANGED <<ealVars, interarrival_array, txPc, txLocal, poolTx, q_tx>>
  BY DEF NicTransmit
<1>2. TxTypeOK /\ nicTx \in Seq(P) /\ txSent \in Nat
  BY DEF TxInv, TxTypeOK
<1> HIDE DEF P
<1>3. /\ nicTx' \in Seq(P) /\ Len(nicTx') = Len(nicTx) - 1
      /\ Len(nicTx) \in Nat
      /\ \A k \in 1 .. Len(nicTx') : nicTx'[k] = nicTx[k + 1]
  BY <1>1, <1>2, HeadTailProperties
<1>4. TxTypeOK'
  <2>1. nicTx' \in Seq([req : Requests, send : Nat])
    BY <1>3 DEF P
  <2>2. EalTypeOK'
    BY <1>1, <1>2 DEF TxTypeOK, EalTypeOK, ealVars
  <2> QED
    BY <1>1, <1>2, <2>1, <2>2 DEF TxTypeOK, ealVars, txLocal
<1>5. Len(nicTx') + txSent' = Len(nicTx) + txSent
  BY <1>1, <1>2, <1>3
<1>7. (TxQueueBounded /\ AllocNeverFails /\ TxAccounting)'
  BY <1>1, <1>5 DEF TxInv, TxQueueBounded, AllocNeverFails, TxAccounting,
                    ealVars, txLocal
<1>8. TxMbufsConserved'
  <2>1. poolTx \in Nat
    BY <1>2 DEF TxTypeOK
  <2> QED
    BY <1>1, <1>2, <1>3, <1>4, <2>1 DEF TxInv, TxMbufsConserved
<1>6. NeverEarly'
  <2>1. ASSUME NEW k \in 1 .. Len(nicTx') PROVE nicTx'[k].send <= clock'
    <3>1. k + 1 \in 1 .. Len(nicTx) /\ nicTx'[k] = nicTx[k + 1]
      BY <1>3
    <3> QED
      BY <1>1, <3>1 DEF TxInv, NeverEarly, ealVars
  <2> QED
    BY <2>1 DEF NeverEarly
<1> QED
  BY <1>4, <1>6, <1>7, <1>8 DEF TxInv

LEMMA TxTickInv == TxInv /\ Tick /\ UNCHANGED txOwn => TxInv'
<1> SUFFICES ASSUME TxInv, Tick, UNCHANGED txOwn PROVE TxInv'
  OBVIOUS
<1> USE EalAssumption DEF TxInv, Tick, txOwn, txLocal, txNic, Running
<1>1. TxTypeOK'
  BY DEF TxTypeOK, EalTypeOK
<1>2. (TxMbufsConserved /\ TxQueueBounded /\ AllocNeverFails /\ TxAccounting)'
  BY DEF TxMbufsConserved, TxQueueBounded, AllocNeverFails, TxAccounting
<1>3. NeverEarly'
  <2>1. ASSUME NEW k \in 1 .. Len(nicTx) PROVE nicTx[k].send <= clock + 1
    <3>1. nicTx[k].send <= clock /\ nicTx[k].send \in Nat
      <4>1. nicTx[k] \in [req : Requests, send : Nat]
        BY ElementOfSeq DEF TxTypeOK
      <4> QED
        BY <4>1 DEF NeverEarly
    <3> QED
      BY <3>1 DEF TxTypeOK, EalTypeOK
  <2> QED
    BY <2>1 DEF NeverEarly
<1> QED
  BY <1>1, <1>2, <1>3 DEF TxInv

LEMMA TxProcessInv == TxInv /\ ProcessStep /\ UNCHANGED txOwn => TxInv'
<1> SUFFICES ASSUME TxInv, ProcessStep, UNCHANGED txOwn PROVE TxInv'
  OBVIOUS
<1> USE DEF TxInv, ProcessStep, txOwn, txLocal, txNic, Running
<1>1. TxTypeOK'
  <2>1. (quit_tx \in BOOLEAN /\ quit_rx \in BOOLEAN /\ quit_rx_ring \in BOOLEAN)'
    BY Zenon DEF TxTypeOK, EalTypeOK
  <2>2. EalTypeOK'
    BY <2>1 DEF TxTypeOK, EalTypeOK, Status
  <2> QED
    BY <2>2 DEF TxTypeOK
<1>2. (TxMbufsConserved /\ TxQueueBounded /\ AllocNeverFails /\ NeverEarly)'
  BY DEF TxMbufsConserved, TxQueueBounded, AllocNeverFails, NeverEarly
<1>3. TxAccounting'
  <2>1. quit_tx => quit_tx'
    BY Zenon
  <2> QED
    BY <2>1 DEF TxAccounting
<1> QED
  BY <1>1, <1>2, <1>3 DEF TxInv

-----------------------------------------------------------------------------
(* The invariant is inductive.                                                *)
LEMMA TxStepInv == TxInv /\ [TxNext]_txVars => TxInv'
<1> SUFFICES ASSUME TxInv, [TxNext]_txVars PROVE TxInv'
  OBVIOUS
<1>1. CASE TxLaunch
  BY <1>1, TxLaunchInv
<1>2. CASE TxThread
  BY <1>2, TxLoopInv, TxSkipInv, TxFillInv, TxSendInv, TxFinishInv DEF TxThread
<1>3. CASE NicTransmit
  BY <1>3, NicTransmitInv
<1>4. CASE Tick /\ UNCHANGED txOwn
  BY <1>4, TxTickInv
<1>5. CASE ProcessStep /\ UNCHANGED txOwn
  BY <1>5, TxProcessInv
<1>6. CASE UNCHANGED txVars
  BY <1>6 DEF TxInv, TxTypeOK, EalTypeOK, TxMbufsConserved, TxQueueBounded,
              AllocNeverFails, NeverEarly, TxAccounting,
              txVars, txOwn, txLocal, txNic, ealVars
<1> QED
  BY <1>1, <1>2, <1>3, <1>4, <1>5, <1>6 DEF TxNext

THEOREM TxInvariant == TxSpec => []TxInv
<1>1. TxInit => TxInv
  BY TxInitInv
<1>2. TxInv /\ [TxNext]_txVars => TxInv'
  BY TxStepInv
<1> QED
  BY <1>1, <1>2, PTL DEF TxSpec

(* The variables of lcore_tx keep their types.                                *)
THEOREM TxTyped == TxSpec => []TxTypeOK
<1>1. TxInv => TxTypeOK
  BY DEF TxInv
<1> QED
  BY <1>1, TxInvariant, PTL

(* No mbuf of the TX pool is leaked or freed twice (main.c:221, 251).         *)
THEOREM TxPoolConserved == TxSpec => []TxMbufsConserved
<1>1. TxInv => TxMbufsConserved
  BY DEF TxInv
<1> QED
  BY <1>1, TxInvariant, PTL

(* The allocation lcore_tx does not test always succeeds, for every pool that *)
(* is larger than the TX queue (main.c:221).                                  *)
THEOREM TxAllocSafe == TxSpec => []AllocNeverFails
<1>1. TxInv => AllocNeverFails
  BY DEF TxInv
<1> QED
  BY <1>1, TxInvariant, PTL

(* The TX pool is neither leaked nor overdrawn, however late requests are     *)
(* (main.c:210-257).                                                          *)
THEOREM TxMbufsKept == TxSpec => []TxMbufsSafe
<1>1. TxMbufsConserved /\ AllocNeverFails => TxMbufsSafe
  BY DEF TxMbufsSafe
<1> QED
  BY <1>1, TxPoolConserved, TxAllocSafe, PTL

(* Every request passed is counted once, as sent or as given up.              *)
THEOREM TxCountsRight == TxSpec => []TxAccounting
<1>1. TxInv => TxAccounting
  BY DEF TxInv
<1> QED
  BY <1>1, TxInvariant, PTL

-----------------------------------------------------------------------------
(* The promise of an open-loop generator: when the requests of a schedule are *)
(* due is a sum over its gaps.                                                *)
DueIn(g) ==
  LET Due[k \in 0 .. nr_elements - 1] == IF k = 0 THEN g[0] ELSE Due[k - 1] + g[k]
  IN  Due

(* A set of natural numbers that is not empty has a least one.                *)
LEMMA LeastOf ==
  ASSUME NEW S, S \subseteq Nat, S # {}
  PROVE  \E n \in S : \A m \in S : n <= m
<1>1. PICK n \in S : \A m \in S : ~(<<m, n>> \in OpToRel(<, Nat))
  BY NatLessThanWellFounded, WFMin
<1>2. ASSUME NEW m \in S PROVE n <= m
  <2>1. ~(m < n)
    BY <1>1 DEF OpToRel
  <2> QED
    BY <2>1
<1> QED
  BY <1>2

(* d says when the requests up to the m-th are due.                           *)
DueUpto(g, m, d) ==
  /\ d \in [0 .. m -> Nat] /\ d[0] = g[0]
  /\ \A k \in 1 .. m : d[k] = d[k - 1] + g[k]

(* Such a d there is: a least m without one would follow on an m with one.    *)
LEMMA DueExists ==
  ASSUME NEW g \in [Requests -> Nat], NEW m \in Requests
  PROVE  \E d : DueUpto(g, m, d)
<1> DEFINE None == {k \in Requests : ~ \E d : DueUpto(g, k, d)}
<1>0. nr_elements \in Nat /\ Requests \subseteq Nat
  BY TxAssumption DEF Requests
<1>1. SUFFICES ASSUME None # {} PROVE FALSE
  BY <1>1
<1>2. None \subseteq Nat
  BY <1>0
<1>3. PICK k \in None : \A j \in None : k <= j
  BY <1>1, <1>2, LeastOf
<1>4. CASE k = 0
  <2>1. DueUpto(g, 0, [j \in 0 .. 0 |-> g[0]])
    BY <1>3, <1>4 DEF DueUpto
  <2> QED
    BY <1>3, <1>4, <2>1
<1>5. CASE k # 0
  <2>1. k - 1 \in Requests /\ k - 1 \in Nat /\ k \in Nat /\ k \in Requests /\ k - 1 < k
    BY <1>0, <1>3, <1>5 DEF Requests
  <2>2. k - 1 \notin None
    <3> HIDE DEF None
    <3> QED
      BY <1>3, <2>1
  <2>3. PICK d : DueUpto(g, k - 1, d)
    BY <2>1, <2>2
  <2> DEFINE e == [j \in 0 .. k |-> IF j < k THEN d[j] ELSE d[k - 1] + g[k]]
  <2>4. g[k] \in Nat /\ d[k - 1] \in Nat
    BY <2>1, <2>3 DEF DueUpto
  <2>5. e \in [0 .. k -> Nat]
    <3>1. ASSUME NEW j \in 0 .. k PROVE e[j] \in Nat
      <4>1. CASE j < k
        BY <2>1, <2>3, <4>1 DEF DueUpto
      <4>2. CASE ~(j < k)
        BY <2>4, <4>2
      <4> QED
        BY <4>1, <4>2
    <3> QED
      BY <3>1
  <2>6. e[0] = g[0]
    BY <2>1, <2>3, <1>5 DEF DueUpto
  <2>7. ASSUME NEW j \in 1 .. k PROVE e[j] = e[j - 1] + g[j]
    <3>1. CASE j < k
      BY <2>1, <2>3, <3>1 DEF DueUpto
    <3>2. CASE j = k
      BY <2>1, <3>2
    <3> QED
      BY <2>1, <3>1, <3>2
  <2>8. DueUpto(g, k, e)
    BY <2>5, <2>6, <2>7 DEF DueUpto
  <2> QED
    BY <1>3, <2>8
<1> QED
  BY <1>4, <1>5

(* The definition is met: the first request is due after the first gap, and   *)
(* each other one a gap after the one before it.                              *)
LEMMA DueIs ==
  ASSUME NEW g \in [Requests -> Nat], NEW k \in Requests
  PROVE  /\ DueIn(g)[k] = IF k = 0 THEN g[0] ELSE DueIn(g)[k - 1] + g[k]
         /\ k # 0 => k - 1 \in Requests
<1> DEFINE Step(d) == [j \in 0 .. nr_elements - 1 |-> IF j = 0 THEN g[0] ELSE d[j - 1] + g[j]]
<1>0. nr_elements \in Nat /\ nr_elements - 1 \in Requests
  BY TxAssumption DEF Requests
<1>1. PICK d : DueUpto(g, nr_elements - 1, d)
  BY <1>0, DueExists
<1>2. d = Step(d)
  <2>1. d \in [0 .. nr_elements - 1 -> Nat]
    BY <1>1 DEF DueUpto
  <2>2. ASSUME NEW j \in 0 .. nr_elements - 1 PROVE d[j] = Step(d)[j]
    BY <1>0, <1>1 DEF DueUpto
  <2> QED
    BY <2>1, <2>2
<1>3. DueIn(g) = Step(DueIn(g))
  BY <1>2 DEF DueIn
<1>4. k \in 0 .. nr_elements - 1 /\ (k # 0 => k - 1 \in Requests)
  BY <1>0 DEF Requests
<1> HIDE DEF Step
<1>5. DueIn(g)[k] = Step(DueIn(g))[k]
  BY <1>3
<1> QED
  BY <1>4, <1>5 DEF Step

(* A sum of gaps is a natural number.                                         *)
LEMMA DueNat ==
  ASSUME NEW g \in [Requests -> Nat], NEW k \in Requests
  PROVE  DueIn(g)[k] \in Nat
<1> DEFINE Bad == {j \in Requests : DueIn(g)[j] \notin Nat}
<1>0. nr_elements \in Nat /\ Requests \subseteq Nat
  BY TxAssumption DEF Requests
<1>1. SUFFICES ASSUME Bad # {} PROVE FALSE
  BY <1>1
<1>2. Bad \subseteq Nat
  BY <1>0
<1>3. PICK j \in Bad : \A i \in Bad : j <= i
  BY <1>1, <1>2, LeastOf
<1>4. j \in Requests /\ j \in Nat /\ g[j] \in Nat
  BY <1>0, <1>3
<1>5. CASE j = 0
  BY <1>3, <1>4, <1>5, DueIs
<1>6. CASE j # 0
  <2>1. j - 1 \in Requests /\ DueIn(g)[j] = DueIn(g)[j - 1] + g[j]
    BY <1>4, <1>6, DueIs
  <2>2. j - 1 \notin Bad
    <3>1. j - 1 < j
      BY <1>4
    <3> HIDE DEF Bad
    <3> QED
      BY <1>0, <1>3, <1>4, <2>1, <3>1
  <2>3. DueIn(g)[j - 1] \in Nat
    BY <2>1, <2>2
  <2> QED
    BY <1>3, <1>4, <2>1, <2>3
<1> QED
  BY <1>5, <1>6

(* The time lcore_tx is at is the one the schedule says: that of the request  *)
(* it has picked, or of the one before while it is at the head of its loop.   *)
ScheduleInv ==
  /\ txPc = "idle" => txI = 0
  /\ txPc = "loop" =>
       next_tsc = txStart + (IF txI = 0 THEN 0 ELSE DueIn(interarrival_array)[txI - 1])
  /\ txPc \in {"pick", "spin"} =>
       next_tsc = txStart + DueIn(interarrival_array)[txI]

(* Only the head of the loop moves next_tsc, by the gap of the request picked; *)
(* skipping and sending go on to the next request.                            *)
LEMMA ScheduleStep == TxInv /\ ScheduleInv /\ [TxNext]_txVars => ScheduleInv'
<1> SUFFICES ASSUME TxInv, ScheduleInv, [TxNext]_txVars PROVE ScheduleInv'
  OBVIOUS
<1>1. interarrival_array' = interarrival_array
  BY DEF TxNext, TxLaunch, TxThread, TxLoop, TxSkip, TxFill, TxSend, TxFinish, NicTransmit,
         txOwn, txVars
<1> DEFINE g == interarrival_array
           D == DueIn(interarrival_array)
<1>2. g \in [Requests -> Nat] /\ txI \in Nat /\ nr_elements \in Nat /\ txStart \in Nat
      /\ next_tsc \in Nat /\ clock \in Nat
  <2>1. g \in [Requests -> Gaps] /\ Gaps \subseteq Nat
    BY TxAssumption DEF TxInv, TxTypeOK
  <2>2. g \in [Requests -> Nat]
    BY <2>1
  <2> QED
    BY <2>2, TxAssumption, EalAssumption DEF TxInv, TxTypeOK, EalTypeOK
<1>3. ScheduleInv' =
        /\ txPc' = "idle" => txI' = 0
        /\ txPc' = "loop" => next_tsc' = txStart' + (IF txI' = 0 THEN 0 ELSE D[txI' - 1])
        /\ txPc' \in {"pick", "spin"} => next_tsc' = txStart' + D[txI']
  BY <1>1 DEF ScheduleInv
<1> HIDE DEF g, D
<1>4. CASE TxLaunch
  BY <1>2, <1>3, <1>4 DEF TxLaunch, ScheduleInv
<1>5. CASE TxLoop
  <2>1. txPc = "loop" /\ txPc' = "pick" /\ txI' = txI /\ txStart' = txStart
        /\ txI < nr_elements /\ next_tsc' = next_tsc + g[txI]
    BY <1>5 DEF TxLoop, g
  <2>2. txI \in Requests
    BY <1>2, <2>1 DEF Requests
  <2>3. next_tsc = txStart + (IF txI = 0 THEN 0 ELSE D[txI - 1])
    BY <2>1 DEF ScheduleInv, D
  <2>4. /\ D[txI] = IF txI = 0 THEN g[0] ELSE D[txI - 1] + g[txI]
        /\ txI # 0 => txI - 1 \in Requests
    BY <1>2, <2>2, DueIs DEF D, g
  <2>5. D[txI] \in Nat /\ (txI # 0 => D[txI - 1] \in Nat) /\ g[txI] \in Nat
    BY <1>2, <2>2, <2>4, DueNat DEF D, g
  <2>6. next_tsc' = txStart + D[txI]
    BY <1>2, <2>1, <2>3, <2>4, <2>5
  <2> QED
    BY <1>3, <2>1, <2>6
<1>6. CASE TxSkip
  <2>1. txPc = "pick" /\ txPc' = "loop" /\ txI' = txI + 1 /\ UNCHANGED <<txStart, next_tsc>>
    BY <1>6 DEF TxSkip
  <2>2. next_tsc = txStart + D[txI]
    BY <2>1 DEF ScheduleInv, D
  <2> QED
    BY <1>2, <1>3, <2>1, <2>2
<1>7. CASE TxFill
  <2>1. txPc = "pick" /\ txPc' \in {"pick", "spin"} /\ UNCHANGED <<txI, txStart, next_tsc>>
    BY <1>7 DEF TxFill, txLocal
  <2>2. next_tsc = txStart + D[txI]
    BY <2>1 DEF ScheduleInv, D
  <2> QED
    BY <1>3, <2>1, <2>2
<1>8. CASE TxSend
  <2>1. /\ txPc = "spin" /\ UNCHANGED <<txStart, next_tsc>>
        /\ \/ txI' = txI + 1 /\ txPc' = "loop"
           \/ UNCHANGED <<txI, txPc>>
    BY <1>8 DEF TxSend
  <2>2. next_tsc = txStart + D[txI]
    BY <2>1 DEF ScheduleInv, D
  <2> QED
    BY <1>2, <1>3, <2>1, <2>2
<1>9. CASE TxFinish
  <2>1. UNCHANGED <<txI, txStart, next_tsc>> /\ (txPc' = "done" \/ txPc' = txPc)
    BY <1>9 DEF TxFinish, txLocal
  <2> QED
    BY <1>3, <2>1 DEF ScheduleInv, D
<1>10. CASE NicTransmit \/ UNCHANGED txOwn \/ UNCHANGED txVars
  <2>1. UNCHANGED <<txPc, txI, txStart, next_tsc>>
    BY <1>10 DEF NicTransmit, txOwn, txVars, txLocal
  <2> QED
    BY <1>3, <2>1 DEF ScheduleInv, D
<1> QED
  BY <1>4, <1>5, <1>6, <1>7, <1>8, <1>9, <1>10 DEF TxNext, TxThread

(* Every step of lcore_tx is one the promise allows: a request that is sent   *)
(* is offered, one that is skipped given up, and the rest does not show.      *)
LEMMA PromiseStep == TxInv /\ ScheduleInv /\ [TxNext]_txVars => [Promise!Next]_(Promise!vars)
<1> SUFFICES ASSUME TxInv, ScheduleInv, [TxNext]_txVars
             PROVE  Promise!Next \/ UNCHANGED Promise!vars
  OBVIOUS
<1>0. Promise!Due = DueIn(interarrival_array)
  BY DEF Promise!Due, DueIn
<1>1. CASE TxLaunch
  BY <1>1 DEF TxLaunch, ealVars, txNic, Promise!Next, Promise!Start
<1>2. CASE TxLoop
  BY <1>2 DEF TxLoop, ealVars, txNic, Promise!vars
<1>3. CASE TxSkip
  <2>1. next_tsc = txStart + Promise!Due[txI] /\ txI < nr_elements
    BY <1>0, <1>3 DEF TxSkip, ScheduleInv, TxInv, TxTypeOK
  <2>2. clock > txStart + Promise!Due[txI] + LateTicks
    BY <1>3, <2>1 DEF TxSkip, TooLate
  <2>3. Promise!GiveUp
    BY <1>3, <2>1, <2>2 DEF TxSkip, ealVars, txNic, Promise!GiveUp
  <2> QED
    BY <2>3 DEF Promise!Next
<1>4. CASE TxFill
  BY <1>4 DEF TxFill, txLocal, Promise!vars
<1>5. CASE TxSend
  <2>1. next_tsc = txStart + Promise!Due[txI] /\ txI < nr_elements
    BY <1>0, <1>5 DEF TxSend, ScheduleInv, TxInv, TxTypeOK
  <2>2. txPc = "spin" /\ clock >= next_tsc
        /\ UNCHANGED <<clock, interarrival_array, txStart, nr_never_sent>>
    BY <1>5 DEF TxSend, SpinOver
  <2>3. CASE /\ nicTx' = Append(nicTx, [req |-> txI, send |-> next_tsc])
             /\ tot_nb_tx' = tot_nb_tx + 1 /\ txI' = txI + 1 /\ txPc' = "loop"
    <3>1. Promise!Offer
      BY <2>1, <2>2, <2>3 DEF Promise!Offer
    <3> QED
      BY <3>1 DEF Promise!Next
  <2>4. CASE UNCHANGED <<nicTx, tot_nb_tx, txI, txPc>>
    BY <2>2, <2>4 DEF Promise!vars
  <2> QED
    BY <1>5, <2>3, <2>4 DEF TxSend
<1>6. CASE TxFinish
  BY <1>6 DEF TxFinish, txLocal, txNic, Promise!vars
<1>7. CASE NicTransmit
  BY <1>7 DEF NicTransmit, ealVars, txLocal, Promise!Next, Promise!Leave
<1>8. CASE Tick /\ UNCHANGED txOwn
  BY <1>8 DEF Tick, txOwn, txLocal, txNic, Promise!Next, Promise!Pass
<1>9. CASE ProcessStep /\ UNCHANGED txOwn
  BY <1>9 DEF ProcessStep, txOwn, txLocal, txNic, Promise!vars
<1>10. CASE UNCHANGED txVars
  BY <1>10 DEF txVars, ealVars, txOwn, txLocal, txNic, Promise!vars
<1> QED
  BY <1>1, <1>2, <1>3, <1>4, <1>5, <1>6, <1>7, <1>8, <1>9, <1>10 DEF TxNext, TxThread

(* lcore_tx keeps the promise of an open-loop generator: for every schedule,  *)
(* what it stamps on the packets and when it sends or gives up a request      *)
(* follows from the gaps alone (main.c:205-257).                              *)
THEOREM TxImplementsOpenLoop == TxSpec => OpenLoopKept
<1>1. TxInit => Promise!Init
  <2>1. ASSUME TxInit PROVE interarrival_array \in [0 .. nr_elements - 1 -> Nat]
    BY <2>1, TxAssumption DEF TxInit, Requests
  <2> QED
    BY <2>1 DEF TxInit, EalInit, Promise!Init
<1>2. TxInit => ScheduleInv
  BY DEF TxInit, ScheduleInv
<1>3. TxInv /\ ScheduleInv /\ [TxNext]_txVars => ScheduleInv'
  BY ScheduleStep
<1>4. TxInv /\ ScheduleInv /\ [TxNext]_txVars => [Promise!Next]_(Promise!vars)
  BY PromiseStep
<1> QED
  BY <1>1, <1>2, <1>3, <1>4, TxInvariant, PTL DEF TxSpec, OpenLoopKept, Promise!Spec

-----------------------------------------------------------------------------
(* The receiving half.                                                        *)

(* What the pieces of a burst are.                                            *)
LEMMA FirstProps ==
  ASSUME NEW S, NEW s \in Seq(S), NEW k \in 0 .. Len(s)
  PROVE  /\ First(s, k) \in Seq(S)
         /\ Len(First(s, k)) = k
         /\ \A i \in 1 .. k : First(s, k)[i] = s[i]
<1>1. \A i \in 1 .. k : s[i] \in S
  BY ElementOfSeq
<1>2. k \in Int /\ 1 \in Int
  BY LenProperties
<1> QED
  BY <1>1, <1>2, SubSeqProperties, LenProperties DEF First

LEMMA WithoutProps ==
  ASSUME NEW S, NEW s \in Seq(S), NEW k \in 0 .. Len(s)
  PROVE  /\ Without(s, k) \in Seq(S)
         /\ Len(Without(s, k)) = Len(s) - k
         /\ \A i \in 1 .. Len(s) - k : Without(s, k)[i] = s[k + i]
<1>1. Len(s) \in Nat /\ k \in Nat
  BY LenProperties
<1>2. \A i \in k + 1 .. Len(s) : s[i] \in S
  BY <1>1, ElementOfSeq
<1>3. /\ SubSeq(s, k + 1, Len(s)) \in Seq(S)
      /\ Len(SubSeq(s, k + 1, Len(s))) =
           IF k + 1 <= Len(s) THEN Len(s) - (k + 1) + 1 ELSE 0
      /\ \A i \in 1 .. Len(s) - (k + 1) + 1 :
           SubSeq(s, k + 1, Len(s))[i] = s[(k + 1) + i - 1]
  BY <1>1, <1>2, SubSeqProperties
<1> QED
  BY <1>1, <1>3 DEF Without

LEMMA SplitConcat ==
  ASSUME NEW S, NEW s \in Seq(S), NEW k \in 0 .. Len(s)
  PROVE  First(s, k) \o Without(s, k) = s
<1> DEFINE a == First(s, k)
           b == Without(s, k)
<1>1. k \in Nat /\ Len(s) \in Nat /\ k <= Len(s)
  BY LenProperties
<1>2. /\ a \in Seq(S) /\ Len(a) = k
      /\ \A i \in 1 .. k : a[i] = s[i]
  BY FirstProps
<1>3. /\ b \in Seq(S) /\ Len(b) = Len(s) - k
      /\ \A i \in 1 .. Len(s) - k : b[i] = s[k + i]
  BY WithoutProps
<1> HIDE DEF a, b
<1>4. /\ a \o b \in Seq(S) /\ Len(a \o b) = Len(a) + Len(b)
      /\ \A i \in 1 .. Len(a) + Len(b) :
           (a \o b)[i] = IF i <= Len(a) THEN a[i] ELSE b[i - Len(a)]
  BY <1>2, <1>3, ConcatProperties
<1>5. ASSUME NEW i \in 1 .. Len(s) PROVE (a \o b)[i] = s[i]
  <2>1. CASE i <= k
    BY <2>1, <1>1, <1>2, <1>3, <1>4
  <2>2. CASE i > k
    <3>1. i - k \in 1 .. Len(s) - k /\ k + (i - k) = i
      BY <2>2, <1>1
    <3> QED
      BY <2>2, <3>1, <1>1, <1>2, <1>3, <1>4
  <2>3. i <= k \/ i > k
    BY <1>1
  <2> QED
    BY ONLY <2>1, <2>2, <2>3
<1>6. Len(a \o b) = Len(s)
  BY <1>1, <1>2, <1>3, <1>4
<1>7. \A i \in 1 .. Len(a \o b) : (a \o b)[i] = s[i]
  BY <1>5, <1>6, Zenon
<1>8. a \o b = s
  BY <1>4, <1>6, <1>7, SeqEqual
<1> QED
  BY <1>8 DEF a, b

LEMMA SplitConcat2 ==
  ASSUME NEW S, NEW p \in Seq(S), NEW q \in Seq(S), p # <<>>
  PROVE  Tail(p) \o q = Tail(p \o q) /\ Head(p) = (p \o q)[1] /\ p \o q # <<>>
<1>1. /\ Len(p) \in Nat \ {0} /\ Len(q) \in Nat
  BY EmptySeq, LenProperties
<1>2. /\ p \o q \in Seq(S) /\ Len(p \o q) = Len(p) + Len(q)
      /\ \A i \in 1 .. Len(p) + Len(q) :
           (p \o q)[i] = IF i <= Len(p) THEN p[i] ELSE q[i - Len(p)]
  BY ConcatProperties
<1>3. p \o q # <<>>
  BY <1>1, <1>2, EmptySeq
<1>4. /\ Tail(p) \in Seq(S) /\ Len(Tail(p)) = Len(p) - 1
      /\ \A i \in 1 .. Len(Tail(p)) : Tail(p)[i] = p[i + 1]
  BY HeadTailProperties
<1>5. /\ Tail(p \o q) \in Seq(S) /\ Len(Tail(p \o q)) = Len(p \o q) - 1
      /\ \A i \in 1 .. Len(Tail(p \o q)) : Tail(p \o q)[i] = (p \o q)[i + 1]
  BY <1>2, <1>3, HeadTailProperties
<1>6. /\ Tail(p) \o q \in Seq(S)
      /\ Len(Tail(p) \o q) = Len(Tail(p)) + Len(q)
      /\ \A i \in 1 .. Len(Tail(p)) + Len(q) :
           (Tail(p) \o q)[i] =
             IF i <= Len(Tail(p)) THEN Tail(p)[i] ELSE q[i - Len(Tail(p))]
  BY <1>4, ConcatProperties
<1>7. ASSUME NEW i \in 1 .. Len(p) + Len(q) - 1
      PROVE  (Tail(p) \o q)[i] = Tail(p \o q)[i]
  <2>1. Tail(p \o q)[i] = (p \o q)[i + 1]
    BY <1>1, <1>2, <1>5
  <2>2. CASE i <= Len(p) - 1
    BY <2>1, <2>2, <1>1, <1>2, <1>4, <1>6
  <2>3. CASE i > Len(p) - 1
    <3>1. i + 1 > Len(p) /\ i - (Len(p) - 1) = (i + 1) - Len(p)
      BY <2>3, <1>1
    <3> QED
      BY <2>1, <2>3, <3>1, <1>1, <1>2, <1>4, <1>6
  <2> QED
    BY <2>2, <2>3, <1>1
<1>8. Tail(p) \o q = Tail(p \o q)
  BY <1>1, <1>2, <1>4, <1>5, <1>6, <1>7, SeqEqual
<1>9. Head(p) = (p \o q)[1]
  BY <1>1, <1>2
<1> QED
  BY <1>3, <1>8, <1>9

LEMMA StampProps ==
  ASSUME NEW s \in Seq(Packets), clock \in Nat
  PROVE  /\ StampAll(s) \in Seq(Stamped)
         /\ Len(StampAll(s)) = Len(s)
         /\ \A i \in 1 .. Len(s) : /\ StampAll(s)[i].kind = s[i].kind
                                   /\ StampAll(s)[i].send = s[i].send
                                   /\ StampAll(s)[i].recv = clock
<1>1. \A i \in 1 .. Len(s) : s[i] \in Packets
  BY ElementOfSeq
<1>2. Len(s) \in Nat
  BY LenProperties
<1>3. StampAll(s) \in [1 .. Len(s) -> Stamped]
  BY <1>1 DEF StampAll, RecvTime, Packets, Stamped
<1>4. StampAll(s) \in Seq(Stamped)
  BY <1>2, <1>3, SeqDef
<1>5. Len(StampAll(s)) = Len(s)
  <2>1. DOMAIN StampAll(s) = 1 .. Len(StampAll(s)) /\ Len(StampAll(s)) \in Nat
    BY <1>4, LenProperties
  <2>2. DOMAIN StampAll(s) = 1 .. Len(s)
    BY <1>3
  <2> QED
    BY <1>2, <2>1, <2>2
<1> QED
  BY <1>4, <1>5 DEF StampAll, RecvTime

-----------------------------------------------------------------------------
(* The packets on their way from lcore_rx to the array, oldest first.         *)
pending == ringPkts \o rx_ring

(* Outside the forwarding of a burst lcore_rx holds none.                     *)
BurstHeld == rxPc # "forward" => rxPkts = <<>>

(* A packet that answers a request of this process.                           *)
Own(p) == p.kind = "answer"

SentInPast ==
  /\ \A k \in 1 .. Len(nicRx)  : Own(nicRx[k]) => nicRx[k].send <= clock
  /\ \A k \in 1 .. Len(rxPkts) : Own(rxPkts[k]) => rxPkts[k].send <= clock

(* Stamps of pending packets: not before the request was sent, not after now, *)
(* and in the order of the queue.                                             *)
PendingStamped ==
  \A k \in 1 .. Len(pending) :
    /\ Own(pending[k]) => pending[k].send <= pending[k].recv
    /\ pending[k].recv <= clock

PendingInOrder ==
  \A j, k \in 1 .. Len(pending) : j <= k => pending[j].recv <= pending[k].recv

LogBeforePending ==
  /\ \A j \in 1 .. Len(incoming) : incoming[j].timestamp_rx <= clock
  /\ \A j \in 1 .. Len(incoming), k \in 1 .. Len(pending) :
       incoming[j].timestamp_rx <= pending[k].recv

(* The part of the invariant that is about the queue and the log.             *)
QueueInv ==
  /\ PendingStamped /\ PendingInOrder
  /\ NoNegativeLatency /\ LoggedInOrder /\ LogBeforePending

(* The part that is about numbers of packets.                                 *)
CountInv == RxMbufsConserved /\ BurstHeld /\ RxAccounting

RxInv == RxTypeOK /\ CountInv /\ SentInPast /\ QueueInv

-----------------------------------------------------------------------------
LEMMA RxSecondsNat ==
  ASSUME NEW start \in Nat, clock \in Nat, start <= clock, NEW a \in Nat,
         Seconds(start) # 0
  PROVE  a \div Seconds(start) \in Nat
<1>1. Seconds(start) \in Nat
  BY EalAssumption DEF Seconds
<1> QED
  BY <1>1

(* What typing says of the sequences.                                         *)
LEMMA RxSequences ==
  ASSUME RxTypeOK
  PROVE  /\ nicRx \in Seq(Packets) /\ rxPkts \in Seq(Packets)
         /\ rx_ring \in Seq(Stamped) /\ ringPkts \in Seq(Stamped)
         /\ incoming \in Seq(Nodes)
         /\ Len(nicRx) \in Nat /\ Len(rxPkts) \in Nat /\ Len(rx_ring) \in Nat
         /\ Len(ringPkts) \in Nat /\ Len(incoming) \in Nat
         /\ pending \in Seq(Stamped)
         /\ Len(pending) = Len(ringPkts) + Len(rx_ring)
  BY LenProperties, ConcatProperties DEF RxTypeOK, pending

(* The clock is a natural number, and the queue holds stamps.                 *)
LEMMA PendingTyped ==
  ASSUME RxTypeOK, NEW k \in 1 .. Len(pending)
  PROVE  pending[k] \in Stamped
  BY RxSequences, ElementOfSeq

(* A step that leaves queue, log and clock alone keeps QueueInv.              *)
LEMMA QueueUnchanged ==
  QueueInv /\ UNCHANGED <<clock, ringPkts, rx_ring, incoming>> => QueueInv'
  BY DEF QueueInv, PendingStamped, PendingInOrder, NoNegativeLatency,
         LoggedInOrder, LogBeforePending, pending

LEMMA EalStays ==
  EalTypeOK /\ UNCHANGED ealVars => EalTypeOK'
  BY DEF EalTypeOK, ealVars

LEMMA RxInitInv == RxInit => RxInv
<1> SUFFICES ASSUME RxInit PROVE RxInv
  OBVIOUS
<1> USE EalAssumption, RxAssumption DEF EalInit, RxInit
<1>1. RxTypeOK
  <2>1. nicRx \in Seq(Packets) /\ rxPkts \in Seq(Packets)
    BY EmptySeq
  <2>2. rx_ring \in Seq(Stamped) /\ ringPkts \in Seq(Stamped)
    BY EmptySeq
  <2>3. incoming \in Seq(Nodes)
    BY EmptySeq
  <2>4. EalTypeOK
    <3>1. quit_tx \in BOOLEAN /\ quit_rx \in BOOLEAN /\ quit_rx_ring \in BOOLEAN
      BY Zenon
    <3> QED
      BY <3>1 DEF EalTypeOK, Status
  <2> QED
    BY <2>1, <2>2, <2>3, <2>4 DEF RxTypeOK
<1>2. CountInv
  BY DEF CountInv, RxMbufsConserved, BurstHeld, RxAccounting
<1>3. SentInPast
  BY DEF SentInPast
<1>4. Len(pending) = 0 /\ Len(incoming) = 0
  BY <1>1, RxSequences
<1>5. QueueInv
  BY <1>4 DEF QueueInv, PendingStamped, PendingInOrder, NoNegativeLatency,
              LoggedInOrder, LogBeforePending
<1> QED
  BY <1>1, <1>2, <1>3, <1>5 DEF RxInv

-----------------------------------------------------------------------------
(* What the network brings: of the answers to this process, no future one.    *)
LEMMA NetworkSends ==
  ASSUME RxTypeOK, Network
  PROVE  \E p \in Packets : Arrive(p) /\ (Own(p) => p.send <= clock)
<1>1. clock \in Nat /\ ForeignTimes \subseteq Nat
  BY RxAssumption DEF RxTypeOK, EalTypeOK
<1>2. ASSUME NEW kind \in Kinds, NEW send \in Nat,
             kind = "answer" => send <= clock, Arrive([kind |-> kind, send |-> send])
      PROVE  \E p \in Packets : Arrive(p) /\ (Own(p) => p.send <= clock)
  <2> DEFINE q == [kind |-> kind, send |-> send]
  <2>1. q \in Packets /\ Arrive(q) /\ (Own(q) => q.send <= clock)
    BY <1>2 DEF Packets, Own
  <2> QED
    BY <2>1
<1>3. CASE \E send \in 0 .. clock : Arrive([kind |-> "answer", send |-> send])
  <2>1. PICK send \in 0 .. clock : Arrive([kind |-> "answer", send |-> send])
    BY <1>3
  <2> QED
    BY <1>1, <1>2, <2>1 DEF Kinds
<1>4. CASE \E send \in ForeignTimes : Arrive([kind |-> "foreign", send |-> send])
  <2>1. PICK send \in ForeignTimes : Arrive([kind |-> "foreign", send |-> send])
    BY <1>4
  <2> QED
    BY <1>1, <1>2, <2>1 DEF Kinds
<1>5. CASE Arrive([kind |-> "other", send |-> 0])
  BY <1>2, <1>5 DEF Kinds
<1> QED
  BY <1>3, <1>4, <1>5 DEF Network

LEMMA ArriveInv ==
  ASSUME RxInv, NEW p \in Packets, Own(p) => p.send <= clock, Arrive(p)
  PROVE  RxInv'
<1>1. /\ nicRx' = Append(nicRx, p)
      /\ UNCHANGED <<ealVars, poolRx, rx_ring, rxLcore, ringLcore>>
  BY DEF Arrive
<1>2. RxTypeOK /\ nicRx \in Seq(Packets) /\ Len(nicRx) \in Nat
  BY RxSequences DEF RxInv
<1>3. /\ nicRx' \in Seq(Packets) /\ Len(nicRx') = Len(nicRx) + 1
      /\ \A i \in 1 .. Len(nicRx) : nicRx'[i] = nicRx[i]
      /\ nicRx'[Len(nicRx) + 1] = p
  BY <1>1, <1>2, AppendProperties
<1>4. RxTypeOK'
  BY <1>1, <1>2, <1>3, EalStays
  DEF RxTypeOK, rxLcore, ringLcore, ealVars
<1>5. CountInv'
  BY <1>1 DEF RxInv, CountInv, RxMbufsConserved, BurstHeld, RxAccounting,
              rxLcore, ringLcore
<1>6. SentInPast'
  <2>1. ASSUME NEW k \in 1 .. Len(nicRx')
        PROVE  Own(nicRx'[k]) => nicRx'[k].send <= clock
    <3>1. CASE k = Len(nicRx) + 1
      BY <3>1, <1>3
    <3>2. CASE k \in 1 .. Len(nicRx)
      BY <3>2, <1>3 DEF RxInv, SentInPast
    <3> QED
      BY <3>1, <3>2, <1>2, <1>3
  <2> QED
    BY <2>1, <1>1 DEF RxInv, SentInPast, rxLcore, ealVars
<1>7. QueueInv'
  BY <1>1, QueueUnchanged DEF RxInv, ealVars, ringLcore
<1> QED
  BY <1>4, <1>5, <1>6, <1>7 DEF RxInv

LEMMA RxLaunchInv == RxInv /\ RxLaunch => RxInv'
<1> SUFFICES ASSUME RxInv, RxLaunch PROVE RxInv'
  OBVIOUS
<1> USE DEF RxInv, RxLaunch, ringLcore, ealVars
<1>1. RxTypeOK'
  BY DEF RxTypeOK, EalTypeOK
<1>2. CountInv' /\ SentInPast'
  BY DEF CountInv, RxMbufsConserved, BurstHeld, RxAccounting, SentInPast
<1>3. QueueInv'
  BY QueueUnchanged
<1> QED
  BY <1>1, <1>2, <1>3

LEMMA RxLoopInv == RxInv /\ RxLoop => RxInv'
<1> SUFFICES ASSUME RxInv, RxLoop PROVE RxInv'
  OBVIOUS
<1> USE DEF RxInv, RxLoop, ringLcore, ealVars
<1>1. RxTypeOK'
  BY DEF RxTypeOK, EalTypeOK
<1>2. CountInv' /\ SentInPast'
  BY DEF CountInv, RxMbufsConserved, BurstHeld, RxAccounting, SentInPast
<1>3. QueueInv'
  BY QueueUnchanged
<1> QED
  BY <1>1, <1>2, <1>3

(* The driver replaces each mbuf it returns: what the burst gains, the pool   *)
(* loses.                                                                     *)
LEMMA RxPollInv == RxInv /\ RxPoll => RxInv'
<1> SUFFICES ASSUME RxInv, RxPoll PROVE RxInv'
  OBVIOUS
<1>1. PICK k \in 0 .. SmallerOf(BURST_SIZE, SmallerOf(Len(nicRx), poolRx)) :
        /\ rxPkts' = First(nicRx, k) /\ nicRx' = Without(nicRx, k)
        /\ poolRx' = poolRx - k
        /\ tot_nb_rx' = tot_nb_rx + k
        /\ rxPc' = IF k = 0 THEN "loop" ELSE "forward"
  BY DEF RxPoll
<1>2. /\ rxPc = "poll"
      /\ UNCHANGED <<clock, status, quit_tx, quit_rx, quit_rx_ring>>
      /\ UNCHANGED <<rx_ring, rxStart, q_rx, ringPc, ringPkts, incoming>>
  BY DEF RxPoll, ealVars, ringLcore
<1>3. /\ RxTypeOK /\ nicRx \in Seq(Packets) /\ Len(nicRx) \in Nat
      /\ poolRx \in Nat /\ tot_nb_rx \in Nat /\ BURST_SIZE \in Nat
      /\ Len(rx_ring) \in Nat /\ Len(ringPkts) \in Nat /\ Len(incoming) \in Nat
  BY RxSequences, RxAssumption DEF RxInv, RxTypeOK
<1>4. k \in 0 .. Len(nicRx) /\ k <= poolRx /\ k \in Nat
  BY <1>3 DEF SmallerOf
<1>5. /\ rxPkts' \in Seq(Packets) /\ Len(rxPkts') = k
      /\ \A i \in 1 .. k : rxPkts'[i] = nicRx[i]
  BY <1>1, <1>3, <1>4, FirstProps
<1>6. /\ nicRx' \in Seq(Packets) /\ Len(nicRx') = Len(nicRx) - k
      /\ \A i \in 1 .. Len(nicRx) - k : nicRx'[i] = nicRx[k + i]
  BY <1>1, <1>3, <1>4, WithoutProps
<1>7. rxPkts = <<>> /\ Len(rxPkts) = 0
  BY <1>2, EmptySeq DEF RxInv, CountInv, BurstHeld
<1>8. CountInv'
  <2>1. (k = 0 => rxPkts' = <<>>)
    BY <1>5, EmptySeq
  <2>2. BurstHeld'
    BY <1>1, <2>1 DEF BurstHeld
  <2>3. RxMbufsConserved'
    BY <1>1, <1>2, <1>3, <1>4, <1>5, <1>7 DEF RxInv, CountInv, RxMbufsConserved
  <2>4. RxAccounting'
    BY <1>1, <1>2, <1>3, <1>4, <1>5, <1>7 DEF RxInv, CountInv, RxAccounting
  <2> QED
    BY <2>2, <2>3, <2>4 DEF CountInv
<1>9. RxTypeOK'
  <2>1. poolRx' \in 0 .. PoolRx - RxDesc
    BY <1>1, <1>3, <1>4, RxAssumption DEF RxTypeOK
  <2>2. EalTypeOK'
    BY <1>2, <1>3, EalStays DEF RxTypeOK, ealVars
  <2>3. tot_nb_rx' \in Nat /\ rxPc' \in {"idle", "loop", "poll", "forward", "done"}
    BY <1>1, <1>3, <1>4
  <2> QED
    BY <1>2, <1>3, <1>5, <1>6, <2>1, <2>2, <2>3 DEF RxTypeOK
<1>10. SentInPast'
  <2>1. \A i \in 1 .. k : Own(rxPkts'[i]) => rxPkts'[i].send <= clock'
    BY <1>2, <1>3, <1>4, <1>5 DEF RxInv, SentInPast
  <2>2. \A i \in 1 .. Len(nicRx) - k : Own(nicRx'[i]) => nicRx'[i].send <= clock'
    BY <1>2, <1>3, <1>4, <1>6 DEF RxInv, SentInPast
  <2> QED
    BY <2>1, <2>2, <1>5, <1>6 DEF SentInPast
<1>11. QueueInv'
  BY <1>2, QueueUnchanged DEF RxInv
<1> QED
  BY <1>8, <1>9, <1>10, <1>11 DEF RxInv

(* The ring has room: the burst and the ring together hold no more mbufs than *)
(* the pool, which is smaller than the ring.                                  *)
LEMMA RoomFromConservation ==
  ASSUME RxTypeOK, RxMbufsConserved
  PROVE  Len(rxPkts) <= RingFree /\ RingFree \in Int
<1>1. /\ Len(rxPkts) \in Nat /\ Len(rx_ring) \in Nat /\ Len(ringPkts) \in Nat
      /\ poolRx \in Nat
  BY RxSequences, RxAssumption DEF RxTypeOK
<1> QED
  BY <1>1, RxAssumption DEF RxMbufsConserved, RingFree

LEMMA RxForwardInv == RxInv /\ RxForward => RxInv'
<1> SUFFICES ASSUME RxInv, RxForward PROVE RxInv'
  OBVIOUS
<1> DEFINE k == SmallerOf(Len(rxPkts), RingFree)
           b == First(rxPkts, k)
           r == StampAll(b)
<1>1. /\ rx_ring' = rx_ring \o r
      /\ IF k = Len(rxPkts)
         THEN rxPc' = "loop" /\ UNCHANGED status
         ELSE status' = "rte_exit" /\ UNCHANGED rxPc
      /\ rxPkts' = Without(rxPkts, k)
  BY DEF RxForward
<1>2. /\ rxPc = "forward"
      /\ UNCHANGED <<clock, quit_tx, quit_rx, quit_rx_ring, nicRx, poolRx,
                     rxStart, tot_nb_rx, q_rx, ringPc, ringPkts, incoming>>
  BY DEF RxForward, ringLcore
<1>3. /\ RxTypeOK /\ rxPkts \in Seq(Packets) /\ rx_ring \in Seq(Stamped)
      /\ ringPkts \in Seq(Stamped)
      /\ Len(rxPkts) \in Nat /\ Len(rx_ring) \in Nat /\ Len(ringPkts) \in Nat
      /\ Len(incoming) \in Nat /\ clock \in Nat /\ Len(pending) \in Nat
      /\ poolRx \in Nat /\ tot_nb_rx \in Nat
      /\ pending \in Seq(Stamped)
      /\ Len(pending) = Len(ringPkts) + Len(rx_ring)
  BY RxSequences DEF RxInv, RxTypeOK, EalTypeOK
<1>4. k = Len(rxPkts)
  <2>1. Len(rxPkts) <= RingFree /\ RingFree \in Int
    BY RoomFromConservation DEF RxInv, CountInv
  <2> QED
    BY <2>1, <1>3 DEF SmallerOf
<1> HIDE DEF k
<1>17. k \in 0 .. Len(rxPkts)
  BY <1>3, <1>4
<1>5. /\ b \in Seq(Packets) /\ Len(b) = Len(rxPkts)
      /\ \A i \in 1 .. Len(rxPkts) : b[i] = rxPkts[i]
  BY <1>3, <1>4, <1>17, FirstProps
<1> HIDE DEF b
<1>6. /\ r \in Seq(Stamped) /\ Len(r) = Len(rxPkts)
      /\ \A i \in 1 .. Len(rxPkts) :
           /\ r[i].kind = rxPkts[i].kind /\ r[i].send = rxPkts[i].send
           /\ r[i].recv = clock
  BY <1>3, <1>5, StampProps
<1> HIDE DEF r
<1>7. rxPkts' = <<>> /\ rxPkts' \in Seq(Packets) /\ Len(rxPkts') = 0
  <2>1. Without(rxPkts, k) \in Seq(Packets) /\ Len(Without(rxPkts, k)) = 0
    BY <1>3, <1>4, <1>17, WithoutProps
  <2> QED
    BY <1>1, <2>1, EmptySeq
<1>8. /\ rx_ring' \in Seq(Stamped)
      /\ Len(rx_ring') = Len(rx_ring) + Len(rxPkts)
  <2>1. rx_ring \o r \in Seq(Stamped) /\ Len(rx_ring \o r) = Len(rx_ring) + Len(r)
    <3>1. rx_ring \in Seq(Stamped) /\ r \in Seq(Stamped)
      BY <1>3, <1>6
    <3> QED
      BY ONLY <3>1, ConcatProperties
  <2> QED
    BY <2>1, <1>1, <1>6
<1>9. rxPc' = "loop" /\ status' = status
  BY <1>1, <1>4
<1>10. RxTypeOK'
  <2>1. EalTypeOK'
    BY <1>2, <1>3, <1>9, EalStays DEF RxTypeOK, ealVars
  <2> QED
    BY <1>2, <1>3, <1>7, <1>8, <1>9, <2>1 DEF RxTypeOK
<1>11. CountInv'
  <2>1. BurstHeld'
    BY <1>7 DEF BurstHeld
  <2>2. RxMbufsConserved' /\ RxAccounting'
    BY <1>2, <1>3, <1>7, <1>8, <1>9
    DEF RxInv, CountInv, RxMbufsConserved, RxAccounting
  <2> QED
    BY <2>1, <2>2 DEF CountInv
<1>12. SentInPast'
  BY <1>2, <1>7 DEF RxInv, SentInPast
<1>13. /\ pending' \in Seq(Stamped)
       /\ Len(pending') = Len(pending) + Len(rxPkts)
       /\ \A i \in 1 .. Len(pending) : pending'[i] = pending[i]
       /\ \A i \in 1 .. Len(pending') :
            i > Len(pending) => /\ i - Len(pending) \in 1 .. Len(rxPkts)
                                /\ pending'[i] = r[i - Len(pending)]
  <2>1. pending' = pending \o r
    <3>1. pending' = ringPkts \o (rx_ring \o r)
      BY <1>1, <1>2 DEF pending
    <3>2. (ringPkts \o rx_ring) \o r = ringPkts \o (rx_ring \o r)
      <4>1. ringPkts \in Seq(Stamped) /\ rx_ring \in Seq(Stamped) /\ r \in Seq(Stamped)
        BY <1>3, <1>6
      <4> QED
        BY ONLY <4>1, ConcatAssociative
    <3> QED
      BY <3>1, <3>2 DEF pending
  <2>2. /\ pending \o r \in Seq(Stamped)
        /\ Len(pending \o r) = Len(pending) + Len(r)
        /\ \A i \in 1 .. Len(pending) + Len(r) :
             (pending \o r)[i] =
               IF i <= Len(pending) THEN pending[i] ELSE r[i - Len(pending)]
    <3>1. pending \in Seq(Stamped) /\ r \in Seq(Stamped)
      BY <1>3, <1>6
    <3> QED
      BY ONLY <3>1, ConcatProperties
  <2>3. /\ pending' \in Seq(Stamped)
        /\ Len(pending') = Len(pending) + Len(rxPkts)
        /\ \A i \in 1 .. Len(pending) + Len(rxPkts) :
             pending'[i] =
               IF i <= Len(pending) THEN pending[i] ELSE r[i - Len(pending)]
    BY <2>1, <2>2, <1>6
  <2> QED
    BY <2>3, <1>3
<1>14. ASSUME NEW i \in 1 .. Len(pending'), i > Len(pending)
       PROVE  /\ Own(pending'[i]) => pending'[i].send <= clock
              /\ pending'[i].recv = clock
  <2>1. /\ i - Len(pending) \in 1 .. Len(rxPkts)
        /\ pending'[i] = r[i - Len(pending)]
    BY <1>13, <1>14
  <2>2. Own(rxPkts[i - Len(pending)]) => rxPkts[i - Len(pending)].send <= clock
    BY <2>1 DEF RxInv, SentInPast
  <2> QED
    BY <2>1, <2>2, <1>6 DEF Own
<1>15. ASSUME NEW i \in 1 .. Len(pending'), i <= Len(pending)
       PROVE  /\ i \in 1 .. Len(pending)
              /\ pending'[i] = pending[i]
              /\ Own(pending[i]) => pending[i].send <= pending[i].recv
              /\ pending[i].recv <= clock
  <2>1. i \in 1 .. Len(pending)
    BY <1>13, <1>15, <1>3
  <2>2. PendingStamped
    BY DEF RxInv, QueueInv
  <2> QED
    BY <2>1, <2>2, <1>13 DEF PendingStamped
<1>16. QueueInv'
  <2>1. PendingStamped'
    <3>1. ASSUME NEW i \in 1 .. Len(pending')
          PROVE  /\ Own(pending'[i]) => pending'[i].send <= pending'[i].recv
                 /\ pending'[i].recv <= clock
      <4>1. CASE i <= Len(pending)
        BY <4>1, <1>15
      <4>2. CASE i > Len(pending)
        BY <4>2, <1>14, <1>3
      <4> QED
        BY <4>1, <4>2, <1>3, <1>13
    <3> QED
      BY <3>1, <1>2 DEF PendingStamped
  <2>2. PendingInOrder'
    <3>1. ASSUME NEW i \in 1 .. Len(pending'), NEW j \in 1 .. Len(pending'), i <= j
          PROVE  pending'[i].recv <= pending'[j].recv
      <4>1. CASE j <= Len(pending)
        <5>1. i \in 1 .. Len(pending) /\ pending'[i] = pending[i]
          BY <4>1, <3>1, <1>3, <1>13, <1>15
        <5>2. j \in 1 .. Len(pending) /\ pending'[j] = pending[j]
          BY <4>1, <1>15
        <5> QED
          BY <5>1, <5>2, <3>1 DEF RxInv, QueueInv, PendingInOrder
      <4>2. CASE j > Len(pending) /\ i <= Len(pending)
        BY <4>2, <1>14, <1>15
      <4>3. CASE j > Len(pending) /\ i > Len(pending)
        BY <4>3, <1>14, <1>3
      <4> QED
        BY <4>1, <4>2, <4>3, <1>3, <1>13
    <3> QED
      BY <3>1 DEF PendingInOrder
  <2>3. (NoNegativeLatency /\ LoggedInOrder)'
    BY <1>2 DEF RxInv, QueueInv, NoNegativeLatency, LoggedInOrder
  <2>4. LogBeforePending'
    <3>1. ASSUME NEW i \in 1 .. Len(incoming), NEW j \in 1 .. Len(pending')
          PROVE  incoming[i].timestamp_rx <= pending'[j].recv
      <4>1. CASE j <= Len(pending)
        BY <4>1, <1>15 DEF RxInv, QueueInv, LogBeforePending
      <4>2. CASE j > Len(pending)
        BY <4>2, <1>14 DEF RxInv, QueueInv, LogBeforePending
      <4> QED
        BY <4>1, <4>2, <1>3, <1>13
    <3>2. \A i \in 1 .. Len(incoming) : incoming[i].timestamp_rx <= clock
      BY DEF RxInv, QueueInv, LogBeforePending
    <3> QED
      BY <3>1, <3>2, <1>2 DEF LogBeforePending
  <2> QED
    BY <2>1, <2>2, <2>3, <2>4 DEF QueueInv
<1> QED
  BY <1>10, <1>11, <1>12, <1>16 DEF RxInv

LEMMA RxFinishInv == RxInv /\ RxFinish => RxInv'
<1> SUFFICES ASSUME RxInv, RxFinish PROVE RxInv'
  OBVIOUS
<1>1. /\ rxPc = "loop"
      /\ UNCHANGED <<clock, quit_tx, quit_rx, quit_rx_ring, nicRx, poolRx,
                     rx_ring, rxPkts, rxStart, tot_nb_rx, ringPc, ringPkts,
                     incoming>>
  BY DEF RxFinish, ringLcore
<1>2. QueueInv'
  BY <1>1, QueueUnchanged DEF RxInv
<1>3. SentInPast'
  BY <1>1 DEF RxInv, SentInPast
<1>4. CASE Seconds(rxStart) = 0
  <2>1. status' = "sigfpe" /\ UNCHANGED <<rxPc, q_rx>>
    BY <1>4 DEF RxFinish
  <2>2. RxTypeOK' /\ CountInv'
    BY <1>1, <2>1 DEF RxInv, RxTypeOK, EalTypeOK, Status, CountInv,
                      RxMbufsConserved, BurstHeld, RxAccounting
  <2> QED
    BY <1>2, <1>3, <2>2 DEF RxInv
<1>5. CASE Seconds(rxStart) # 0
  <2>1. /\ rxPc' = "done" /\ status' = status
        /\ q_rx' = [tot_rx |-> tot_nb_rx,
                    rps_reached |-> tot_nb_rx \div Seconds(rxStart)]
    BY <1>5 DEF RxFinish
  <2>2. tot_nb_rx \div Seconds(rxStart) \in Nat
    <3>1. rxStart \in Nat /\ clock \in Nat /\ rxStart <= clock /\ tot_nb_rx \in Nat
      BY DEF RxInv, RxTypeOK, EalTypeOK
    <3> QED
      BY <3>1, <1>5, RxSecondsNat
  <2>3. RxTypeOK'
    BY <1>1, <2>1, <2>2 DEF RxInv, RxTypeOK, EalTypeOK
  <2>4. CountInv'
    BY <1>1, <2>1 DEF RxInv, CountInv, RxMbufsConserved, BurstHeld, RxAccounting
  <2> QED
    BY <1>2, <1>3, <2>3, <2>4 DEF RxInv
<1> QED
  BY <1>4, <1>5

-----------------------------------------------------------------------------
LEMMA RingLaunchInv == RxInv /\ RingLaunch => RxInv'
<1> SUFFICES ASSUME RxInv, RingLaunch PROVE RxInv'
  OBVIOUS
<1>1. /\ ringPc' = "loop" /\ incoming' = <<>>
      /\ UNCHANGED <<clock, status, quit_tx, quit_rx, quit_rx_ring, nicRx,
                     poolRx, rx_ring, rxPc, rxPkts, rxStart, tot_nb_rx, q_rx,
                     ringPkts>>
  BY DEF RingLaunch, ealVars, rxLcore
<1>2. incoming' \in Seq(Nodes) /\ Len(incoming') = 0
  BY <1>1, EmptySeq
<1>3. RxTypeOK'
  BY <1>1, <1>2 DEF RxInv, RxTypeOK, EalTypeOK
<1>4. /\ Len(rxPkts) \in Nat /\ Len(rx_ring) \in Nat /\ Len(ringPkts) \in Nat
      /\ Len(incoming) \in Nat /\ tot_nb_rx \in Nat
  BY RxSequences DEF RxInv, RxTypeOK
<1>5. CountInv' /\ SentInPast'
  BY <1>1, <1>2, <1>4 DEF RxInv, CountInv, RxMbufsConserved, BurstHeld,
                          RxAccounting, SentInPast
<1>6. QueueInv'
  BY <1>1, <1>2 DEF RxInv, QueueInv, PendingStamped, PendingInOrder, pending,
                    NoNegativeLatency, LoggedInOrder, LogBeforePending
<1> QED
  BY <1>3, <1>5, <1>6 DEF RxInv

(* A dequeue splits the ring: the queue of pending packets stays the same.    *)
LEMMA DequeueKeepsPending ==
  ASSUME RxTypeOK, RingDequeue
  PROVE  /\ pending' = pending
         /\ rx_ring' \in Seq(Stamped) /\ ringPkts' \in Seq(Stamped)
         /\ Len(ringPkts') + Len(rx_ring') = Len(ringPkts) + Len(rx_ring)
<1> DEFINE k == SmallerOf(BURST_SIZE, Len(rx_ring))
<1>1. /\ ringPkts = <<>>
      /\ ringPkts' = First(rx_ring, k) /\ rx_ring' = Without(rx_ring, k)
  BY DEF RingDequeue
<1>2. rx_ring \in Seq(Stamped) /\ Len(rx_ring) \in Nat /\ Len(ringPkts) = 0
  BY <1>1, RxSequences, EmptySeq
<1>3. k \in 0 .. Len(rx_ring)
  BY <1>2, RxAssumption DEF SmallerOf
<1> HIDE DEF k
<1>4. /\ ringPkts' \in Seq(Stamped) /\ Len(ringPkts') = k
      /\ rx_ring' \in Seq(Stamped) /\ Len(rx_ring') = Len(rx_ring) - k
  BY <1>1, <1>2, <1>3, FirstProps, WithoutProps
<1>5. pending' = rx_ring
  BY <1>1, <1>2, <1>3, SplitConcat DEF pending
<1>6. pending = rx_ring
  BY <1>1, <1>2, ConcatEmptySeq DEF pending
<1> QED
  BY <1>2, <1>3, <1>4, <1>5, <1>6

LEMMA RingDequeueInv == RxInv /\ RingDequeue => RxInv'
<1> SUFFICES ASSUME RxInv, RingDequeue PROVE RxInv'
  OBVIOUS
<1>1. UNCHANGED <<clock, status, quit_tx, quit_rx, quit_rx_ring, nicRx, poolRx,
                  rxPc, rxPkts, rxStart, tot_nb_rx, q_rx, ringPc, incoming>>
  BY DEF RingDequeue, ealVars, rxLcore
<1>2. /\ pending' = pending
      /\ rx_ring' \in Seq(Stamped) /\ ringPkts' \in Seq(Stamped)
      /\ Len(ringPkts') + Len(rx_ring') = Len(ringPkts) + Len(rx_ring)
  BY DequeueKeepsPending DEF RxInv
<1>3. RxTypeOK'
  BY <1>1, <1>2 DEF RxInv, RxTypeOK, EalTypeOK
<1>4. /\ Len(rxPkts) \in Nat /\ Len(rx_ring) \in Nat /\ Len(ringPkts) \in Nat
      /\ Len(incoming) \in Nat /\ tot_nb_rx \in Nat /\ poolRx \in Nat
      /\ Len(rx_ring') \in Nat /\ Len(ringPkts') \in Nat
  BY <1>2, RxSequences, LenProperties DEF RxInv, RxTypeOK
<1>5. CountInv'
  BY <1>1, <1>2, <1>4 DEF RxInv, CountInv, RxMbufsConserved, BurstHeld,
                          RxAccounting
<1>6. SentInPast'
  BY <1>1 DEF RxInv, SentInPast
<1>7. QueueInv'
  <2> HIDE DEF pending
  <2> QED
    BY <1>1, <1>2 DEF RxInv, QueueInv, PendingStamped, PendingInOrder,
                      NoNegativeLatency, LoggedInOrder, LogBeforePending
<1> QED
  BY <1>3, <1>5, <1>6, <1>7 DEF RxInv

(* One packet leaves the queue at its head, and is logged if it is an answer. *)
(* One packet processed: it is out of the burst, or the process has crashed.  *)
RingRecords ==
  /\ ringPkts # <<>>
  /\ incoming' = IF Recorded(Head(ringPkts))
                 THEN Append(incoming, NodeOf(Head(ringPkts))) ELSE incoming
  /\ ringPkts' = Tail(ringPkts) /\ poolRx' = poolRx + 1
  /\ UNCHANGED <<ealVars, nicRx, rx_ring, rxLcore, ringPc>>

LEMMA RingProcessCases ==
  ASSUME RingProcess
  PROVE  RingRecords \/ (ProcessStep /\ UNCHANGED rxOwn)
<1>1. CASE UNCHANGED status
  BY <1>1 DEF RingProcess, RingRecords, ealVars, Running
<1>2. CASE status' = "crashed" /\ UNCHANGED <<incoming, ringPkts, poolRx>>
  <2>1. /\ Running /\ status' \in Status \ {"segv"}
        /\ UNCHANGED <<clock, quit_tx, quit_rx, quit_rx_ring>>
    BY <1>2 DEF RingProcess, Status
  <2>2. ProcessStep
    BY <2>1, Zenon DEF ProcessStep
  <2>3. UNCHANGED rxOwn
    BY <1>2 DEF RingProcess, rxOwn, ringLcore
  <2> QED
    BY <2>2, <2>3
<1> QED
  BY <1>1, <1>2 DEF RingProcess

LEMMA RingRecordsInv == RxInv /\ RingRecords => RxInv'
<1> SUFFICES ASSUME RxInv, RingRecords PROVE RxInv'
  OBVIOUS
<1> DEFINE p == Head(ringPkts)
<1>1. /\ ringPkts # <<>>
      /\ incoming' = IF Recorded(p) THEN Append(incoming, NodeOf(p)) ELSE incoming
      /\ ringPkts' = Tail(ringPkts) /\ poolRx' = poolRx + 1
      /\ UNCHANGED <<clock, status, quit_tx, quit_rx, quit_rx_ring, nicRx,
                     rx_ring, rxPc, rxPkts, rxStart, tot_nb_rx, q_rx, ringPc>>
  BY DEF RingRecords, ealVars, rxLcore
<1>2. /\ RxTypeOK /\ ringPkts \in Seq(Stamped) /\ rx_ring \in Seq(Stamped)
      /\ incoming \in Seq(Nodes) /\ Len(incoming) \in Nat
      /\ Len(rxPkts) \in Nat /\ Len(rx_ring) \in Nat /\ Len(ringPkts) \in Nat
      /\ poolRx \in Nat /\ tot_nb_rx \in Nat /\ clock \in Nat
      /\ pending \in Seq(Stamped) /\ Len(pending) \in Nat
      /\ Len(pending) = Len(ringPkts) + Len(rx_ring)
  BY RxSequences, LenProperties DEF RxInv, RxTypeOK, EalTypeOK
<1>3. /\ ringPkts' \in Seq(Stamped) /\ Len(ringPkts') = Len(ringPkts) - 1
      /\ Len(ringPkts) >= 1 /\ p \in Stamped
  BY <1>1, <1>2, HeadTailProperties, EmptySeq
<1>4. pending' = Tail(pending) /\ p = pending[1] /\ pending # <<>>
  BY <1>1, <1>2, SplitConcat2 DEF pending
<1> HIDE DEF p
<1>5. /\ Len(pending') = Len(pending) - 1 /\ Len(pending) >= 1
      /\ \A i \in 1 .. Len(pending') : pending'[i] = pending[i + 1]
  <2>1. /\ Len(Tail(pending)) = Len(pending) - 1
        /\ \A i \in 1 .. Len(Tail(pending)) : Tail(pending)[i] = pending[i + 1]
    BY ONLY <1>2, <1>4, HeadTailProperties
  <2>2. Len(pending) >= 1
    BY <1>2, <1>3
  <2> QED
    BY <2>1, <2>2, <1>4
<1>6. ASSUME NEW i \in 1 .. Len(pending')
      PROVE  i + 1 \in 1 .. Len(pending) /\ pending'[i] = pending[i + 1]
  BY <1>2, <1>5
<1>7. NodeOf(p) \in Nodes
  BY <1>3 DEF NodeOf, Nodes, Stamped
<1>8. /\ NodeOf(p).own => NodeOf(p).timestamp_tx <= NodeOf(p).timestamp_rx
      /\ NodeOf(p).timestamp_rx <= clock
      /\ NodeOf(p).timestamp_rx = pending[1].recv
  <2>1. 1 \in 1 .. Len(pending)
    BY <1>2, <1>5
  <2> QED
    BY <2>1, <1>4 DEF RxInv, QueueInv, PendingStamped, NodeOf, Own
<1>9. \A j \in 1 .. Len(incoming) :
        /\ incoming[j].own => incoming[j].timestamp_tx <= incoming[j].timestamp_rx
        /\ incoming[j].timestamp_rx <= clock
        /\ incoming[j].timestamp_rx <= NodeOf(p).timestamp_rx
  <2>1. 1 \in 1 .. Len(pending)
    BY <1>2, <1>5
  <2> QED
    BY <2>1, <1>8 DEF RxInv, QueueInv, NoNegativeLatency, LogBeforePending
<1>10. \A i \in 1 .. Len(pending') :
         NodeOf(p).timestamp_rx <= pending'[i].recv
  <2>1. ASSUME NEW i \in 1 .. Len(pending')
        PROVE  NodeOf(p).timestamp_rx <= pending'[i].recv
    <3>1. 1 \in 1 .. Len(pending) /\ 1 <= i + 1
      BY <1>2, <1>5
    <3> QED
      BY <3>1, <1>6, <1>8 DEF RxInv, QueueInv, PendingInOrder
  <2> QED
    BY <2>1
<1>11. /\ incoming' \in Seq(Nodes)
       /\ Len(incoming') \in {Len(incoming), Len(incoming) + 1}
       /\ \A j \in 1 .. Len(incoming') :
            \/ j \in 1 .. Len(incoming) /\ incoming'[j] = incoming[j]
            \/ j = Len(incoming) + 1 /\ incoming'[j] = NodeOf(p)
  <2>1. CASE Recorded(p)
    <3>1. incoming' = Append(incoming, NodeOf(p))
      BY <2>1, <1>1 DEF p
    <3>2. /\ incoming' \in Seq(Nodes) /\ Len(incoming') = Len(incoming) + 1
          /\ \A j \in 1 .. Len(incoming) : incoming'[j] = incoming[j]
          /\ incoming'[Len(incoming) + 1] = NodeOf(p)
      BY <3>1, <1>2, <1>7, AppendProperties
    <3>3. ASSUME NEW j \in 1 .. Len(incoming')
          PROVE  j \in 1 .. Len(incoming) \/ j = Len(incoming) + 1
      BY <3>2, <1>2
    <3> QED
      BY <3>2, <3>3
  <2>2. CASE ~Recorded(p)
    <3>1. incoming' = incoming
      BY <2>2, <1>1 DEF p
    <3> QED
      BY <3>1, <1>2
  <2> QED
    BY <2>1, <2>2
<1>12. CountInv'
  <2>1. RxMbufsConserved' /\ BurstHeld'
    BY <1>1, <1>2, <1>3 DEF RxInv, CountInv, RxMbufsConserved, BurstHeld
  <2>2. Len(incoming') <= Len(incoming) + 1 /\ Len(incoming') \in Nat
    BY <1>2, <1>11
  <2>3. Len(rxPkts) + Len(rx_ring) + Len(ringPkts') + Len(incoming')
          <= Len(rxPkts) + Len(rx_ring) + Len(ringPkts) + Len(incoming)
    BY <2>2, <1>2, <1>3
  <2>4. RxAccounting'
    <3>1. UNCHANGED <<rxPkts, rx_ring, rxPc, tot_nb_rx, q_rx>>
      BY <1>1
    <3>2. Len(ringPkts') \in Nat
      BY <1>2, <1>3
    <3>3. Len(rxPkts) + Len(rx_ring) + Len(ringPkts) + Len(incoming) <= tot_nb_rx
      BY DEF RxInv, CountInv, RxAccounting
    <3>4. Len(rxPkts) + Len(rx_ring) + Len(ringPkts') + Len(incoming') <= tot_nb_rx
      BY <2>2, <2>3, <3>2, <3>3, <1>2
    <3> QED
      BY <3>1, <3>4 DEF RxInv, CountInv, RxAccounting
  <2> QED
    BY <2>1, <2>4 DEF CountInv
<1>13. RxTypeOK'
  <2>1. EalTypeOK'
    BY <1>1, <1>2, EalStays DEF RxTypeOK, ealVars
  <2>2. poolRx' \in 0 .. PoolRx - RxDesc
    BY <1>1, <1>2, <1>3, <1>12, RxAssumption DEF CountInv, RxMbufsConserved
  <2> QED
    BY <1>1, <1>2, <1>3, <1>11, <2>1, <2>2 DEF RxTypeOK
<1>14. SentInPast'
  BY <1>1 DEF RxInv, SentInPast
<1>15. (PendingStamped /\ PendingInOrder)'
  <2>1. PendingStamped'
    BY <1>1, <1>6 DEF RxInv, QueueInv, PendingStamped
  <2>2. ASSUME NEW i \in 1 .. Len(pending'), NEW j \in 1 .. Len(pending'), i <= j
        PROVE  pending'[i].recv <= pending'[j].recv
    <3>1. i + 1 <= j + 1
      BY <2>2, <1>5, <1>2
    <3> QED
      BY <3>1, <1>6 DEF RxInv, QueueInv, PendingInOrder
  <2> QED
    BY <2>1, <2>2 DEF PendingInOrder
<1>16. (NoNegativeLatency /\ LogBeforePending)'
  <2>1. ASSUME NEW j \in 1 .. Len(incoming')
        PROVE  /\ incoming'[j].own =>
                    incoming'[j].timestamp_tx <= incoming'[j].timestamp_rx
               /\ incoming'[j].timestamp_rx <= clock
               /\ \A i \in 1 .. Len(pending') :
                    incoming'[j].timestamp_rx <= pending'[i].recv
    <3>1. CASE j \in 1 .. Len(incoming) /\ incoming'[j] = incoming[j]
      <4>1. ASSUME NEW i \in 1 .. Len(pending')
            PROVE  incoming[j].timestamp_rx <= pending'[i].recv
        BY <3>1, <1>6 DEF RxInv, QueueInv, LogBeforePending
      <4> QED
        BY <3>1, <4>1, <1>9
    <3>2. CASE j = Len(incoming) + 1 /\ incoming'[j] = NodeOf(p)
      BY <3>2, <1>8, <1>10
    <3> QED
      BY <3>1, <3>2, <1>11
  <2> QED
    BY <2>1, <1>1 DEF NoNegativeLatency, LogBeforePending
<1>17. LoggedInOrder'
  <2>1. ASSUME NEW i \in 1 .. Len(incoming'), NEW j \in 1 .. Len(incoming'), i <= j
        PROVE  incoming'[i].timestamp_rx <= incoming'[j].timestamp_rx
    <3>1. CASE j \in 1 .. Len(incoming) /\ incoming'[j] = incoming[j]
      <4>1. i \in 1 .. Len(incoming) /\ incoming'[i] = incoming[i]
        BY <3>1, <2>1, <1>2, <1>11
      <4> QED
        BY <3>1, <4>1, <2>1 DEF RxInv, QueueInv, LoggedInOrder
    <3>2. CASE j = Len(incoming) + 1 /\ incoming'[j] = NodeOf(p)
      <4>1. CASE i \in 1 .. Len(incoming) /\ incoming'[i] = incoming[i]
        BY <4>1, <3>2, <1>9
      <4>2. CASE i = Len(incoming) + 1 /\ incoming'[i] = NodeOf(p)
        BY <4>2, <3>2, <1>7 DEF Nodes
      <4> QED
        BY <4>1, <4>2, <1>11
    <3> QED
      BY <3>1, <3>2, <1>11
  <2> QED
    BY <2>1 DEF LoggedInOrder
<1> QED
  BY <1>12, <1>13, <1>14, <1>15, <1>16, <1>17 DEF RxInv, QueueInv

LEMMA RingQuitInv == RxInv /\ (RingQuit \/ RingDone) => RxInv'
<1> SUFFICES ASSUME RxInv, RingQuit \/ RingDone PROVE RxInv'
  OBVIOUS
<1>1. /\ ringPc' \in {"drain", "done"}
      /\ UNCHANGED <<clock, status, quit_tx, quit_rx, quit_rx_ring, nicRx,
                     poolRx, rx_ring, rxPc, rxPkts, rxStart, tot_nb_rx, q_rx,
                     ringPkts, incoming>>
  BY DEF RingQuit, RingDone, ealVars, rxLcore
<1>2. RxTypeOK'
  BY <1>1 DEF RxInv, RxTypeOK, EalTypeOK
<1>3. CountInv' /\ SentInPast'
  BY <1>1 DEF RxInv, CountInv, RxMbufsConserved, BurstHeld, RxAccounting,
              SentInPast
<1>4. QueueInv'
  BY <1>1, QueueUnchanged DEF RxInv
<1> QED
  BY <1>2, <1>3, <1>4 DEF RxInv

-----------------------------------------------------------------------------
LEMMA RxTickInv == RxInv /\ Tick /\ UNCHANGED rxOwn => RxInv'
<1> SUFFICES ASSUME RxInv, Tick, UNCHANGED rxOwn PROVE RxInv'
  OBVIOUS
<1>1. /\ clock < MaxClock /\ clock' = clock + 1
      /\ UNCHANGED <<status, quit_tx, quit_rx, quit_rx_ring>>
      /\ UNCHANGED <<nicRx, poolRx, rx_ring, rxPc, rxPkts, rxStart, tot_nb_rx,
                     q_rx, ringPc, ringPkts, incoming>>
  BY DEF Tick, rxOwn, rxLcore, ringLcore
<1>2. /\ clock \in Nat /\ MaxClock \in Nat /\ clock + 1 \in 0 .. MaxClock
      /\ pending' = pending
  BY <1>1, EalAssumption DEF RxInv, RxTypeOK, EalTypeOK, pending
<1>3. RxTypeOK'
  BY <1>1, <1>2 DEF RxInv, RxTypeOK, EalTypeOK
<1>4. CountInv'
  BY <1>1 DEF RxInv, CountInv, RxMbufsConserved, BurstHeld, RxAccounting
<1>5. SentInPast'
  <2>1. ASSUME NEW k \in 1 .. Len(nicRx)
        PROVE  Own(nicRx[k]) => nicRx[k].send <= clock + 1
    <3>1. nicRx[k] \in Packets
      BY RxSequences, ElementOfSeq DEF RxInv
    <3> QED
      BY <3>1, <1>2 DEF RxInv, SentInPast, Packets
  <2>2. ASSUME NEW k \in 1 .. Len(rxPkts)
        PROVE  Own(rxPkts[k]) => rxPkts[k].send <= clock + 1
    <3>1. rxPkts[k] \in Packets
      BY RxSequences, ElementOfSeq DEF RxInv
    <3> QED
      BY <3>1, <1>2 DEF RxInv, SentInPast, Packets
  <2> QED
    BY <2>1, <2>2, <1>1 DEF SentInPast
<1>6. PendingStamped'
  <2>1. ASSUME NEW k \in 1 .. Len(pending)
        PROVE  /\ Own(pending[k]) => pending[k].send <= pending[k].recv
               /\ pending[k].recv <= clock + 1
    <3>1. pending[k] \in Stamped
      BY PendingTyped DEF RxInv
    <3>2. /\ Own(pending[k]) => pending[k].send <= pending[k].recv
          /\ pending[k].recv <= clock
      BY DEF RxInv, QueueInv, PendingStamped
    <3>3. pending[k].recv \in Nat
      BY <3>1 DEF Stamped
    <3> QED
      BY <3>2, <3>3, <1>2
  <2> QED
    BY <2>1, <1>1, <1>2 DEF PendingStamped
<1>7. LogBeforePending'
  <2>1. ASSUME NEW j \in 1 .. Len(incoming)
        PROVE  incoming[j].timestamp_rx <= clock + 1
    <3>1. incoming[j] \in Nodes
      BY RxSequences, ElementOfSeq DEF RxInv
    <3>2. incoming[j].timestamp_rx \in Nat
      BY <3>1 DEF Nodes
    <3>3. incoming[j].timestamp_rx <= clock
      BY DEF RxInv, QueueInv, LogBeforePending
    <3> QED
      BY <3>2, <3>3, <1>2
  <2> QED
    BY <2>1, <1>1, <1>2 DEF RxInv, QueueInv, LogBeforePending
<1>8. (PendingInOrder /\ NoNegativeLatency /\ LoggedInOrder)'
  BY <1>1, <1>2 DEF RxInv, QueueInv, PendingInOrder, NoNegativeLatency,
                    LoggedInOrder
<1> QED
  BY <1>3, <1>4, <1>5, <1>6, <1>7, <1>8 DEF RxInv, QueueInv

LEMMA RxProcessInv == RxInv /\ ProcessStep /\ UNCHANGED rxOwn => RxInv'
<1> SUFFICES ASSUME RxInv, ProcessStep, UNCHANGED rxOwn PROVE RxInv'
  OBVIOUS
<1>1. /\ clock' = clock /\ status' \in Status
      /\ UNCHANGED <<nicRx, poolRx, rx_ring, rxPc, rxPkts, rxStart, tot_nb_rx,
                     q_rx, ringPc, ringPkts, incoming>>
  BY DEF ProcessStep, rxOwn, rxLcore, ringLcore
<1>2. (quit_tx \in BOOLEAN /\ quit_rx \in BOOLEAN /\ quit_rx_ring \in BOOLEAN)'
  BY Zenon DEF ProcessStep, RxInv, RxTypeOK, EalTypeOK
<1>3. RxTypeOK'
  BY <1>1, <1>2 DEF RxInv, RxTypeOK, EalTypeOK
<1>4. CountInv' /\ SentInPast'
  BY <1>1 DEF RxInv, CountInv, RxMbufsConserved, BurstHeld, RxAccounting,
              SentInPast
<1>5. QueueInv'
  BY <1>1, QueueUnchanged DEF RxInv
<1> QED
  BY <1>3, <1>4, <1>5 DEF RxInv

-----------------------------------------------------------------------------
(* The invariant is inductive.                                                *)
LEMMA RxStepInv == RxInv /\ [RxNext]_rxVars => RxInv'
<1> SUFFICES ASSUME RxInv, [RxNext]_rxVars PROVE RxInv'
  OBVIOUS
<1>1. CASE Network
  <2>1. PICK p \in Packets : Arrive(p) /\ (Own(p) => p.send <= clock)
    BY <1>1, NetworkSends DEF RxInv
  <2> QED
    BY <2>1, ArriveInv
<1>2. CASE RxLaunch
  BY <1>2, RxLaunchInv
<1>3. CASE RxThread
  BY <1>3, RxLoopInv, RxPollInv, RxForwardInv, RxFinishInv DEF RxThread
<1>4. CASE RingLaunch
  BY <1>4, RingLaunchInv
<1>5. CASE RingThread
  BY <1>5, RingDequeueInv, RingProcessCases, RingRecordsInv, RxProcessInv,
     RingQuitInv DEF RingThread
<1>6. CASE Tick /\ UNCHANGED rxOwn
  BY <1>6, RxTickInv
<1>7. CASE ProcessStep /\ UNCHANGED rxOwn
  BY <1>7, RxProcessInv
<1>8. CASE UNCHANGED rxVars
  <2>1. /\ UNCHANGED <<clock, status, quit_tx, quit_rx, quit_rx_ring>>
        /\ UNCHANGED <<nicRx, poolRx, rx_ring, rxPc, rxPkts, rxStart, tot_nb_rx,
                       q_rx, ringPc, ringPkts, incoming>>
    BY <1>8 DEF rxVars, rxOwn, rxLcore, ringLcore, ealVars
  <2>2. RxTypeOK' /\ CountInv' /\ SentInPast'
    BY <2>1 DEF RxInv, RxTypeOK, EalTypeOK, CountInv, RxMbufsConserved,
                BurstHeld, RxAccounting, SentInPast
  <2>3. QueueInv'
    BY <2>1, QueueUnchanged DEF RxInv
  <2> QED
    BY <2>2, <2>3 DEF RxInv
<1> QED
  BY <1>1, <1>2, <1>3, <1>4, <1>5, <1>6, <1>7, <1>8 DEF RxNext

THEOREM RxInvariant == RxSpec => []RxInv
<1>1. RxInit => RxInv
  BY RxInitInv
<1>2. RxInv /\ [RxNext]_rxVars => RxInv'
  BY RxStepInv
<1> QED
  BY <1>1, <1>2, PTL DEF RxSpec

(* The variables of the receiving half keep their types.                      *)
THEOREM RxTyped == RxSpec => []RxTypeOK
<1>1. RxInv => RxTypeOK
  BY DEF RxInv
<1> QED
  BY <1>1, RxInvariant, PTL

(* The two lcores neither leak an mbuf nor free one twice (main.c:123-138).   *)
THEOREM RxPoolConserved == RxSpec => []RxMbufsConserved
<1>1. RxInv => RxMbufsConserved
  BY DEF RxInv, CountInv
<1> QED
  BY <1>1, RxInvariant, PTL

(* rx_ring always has room for the burst, so the rte_exit of main.c:176 is    *)
(* dead code, for every pool smaller than the ring.                           *)
THEOREM RxRingHasRoom == RxSpec => []RingHasRoom
<1>1. RxInv => RingHasRoom
  BY RoomFromConservation DEF RxInv, CountInv, RingHasRoom
<1> QED
  BY <1>1, RxInvariant, PTL

(* The mbufs of the receivers are conserved, and the ring takes them.         *)
THEOREM RxMbufsKept == RxSpec => []RxMbufsSafe
<1>1. RxMbufsConserved /\ RingHasRoom => RxMbufsSafe
  BY DEF RxMbufsSafe
<1> QED
  BY <1>1, RxPoolConserved, RxRingHasRoom, PTL

(* The assertion of util.c:334 holds of every node of an answer to this       *)
(* process, whatever other frames are recorded before and after it.           *)
THEOREM RxNoNegativeLatency == RxSpec => []NoNegativeLatency
<1>1. RxInv => NoNegativeLatency
  BY DEF RxInv, QueueInv
<1> QED
  BY <1>1, RxInvariant, PTL

(* The array is in the order of the receive times.                            *)
THEOREM RxLoggedInOrder == RxSpec => []LoggedInOrder
<1>1. RxInv => LoggedInOrder
  BY DEF RxInv, QueueInv
<1> QED
  BY <1>1, RxInvariant, PTL

(* The time stamps of the array: each pair, and one node after another.       *)
THEOREM RxLogSound == RxSpec => []LogIsSound
<1>1. NoNegativeLatency /\ LoggedInOrder => LogIsSound
  BY DEF LogIsSound
<1> QED
  BY <1>1, RxNoNegativeLatency, RxLoggedInOrder, PTL

(* What is reported as received covers what reached the array.                *)
THEOREM RxCountsRight == RxSpec => []RxAccounting
<1>1. RxInv => RxAccounting
  BY DEF RxInv, CountInv
<1> QED
  BY <1>1, RxInvariant, PTL

-----------------------------------------------------------------------------
(* The implementation of AnswerLog. Until lcore_rx_ring has started, nothing  *)
(* is logged: the reset of the index by main.c:115 forgets nothing.           *)
IdleLog == ringPc = "idle" => incoming = <<>> /\ ringPkts = <<>>

LEMMA IdleLogInv == RxInv /\ IdleLog /\ [RxNext]_rxVars => IdleLog'
  BY DEF IdleLog, RxNext, Arrive, RxLaunch, RxThread, RxLoop, RxPoll, RxForward,
         RxFinish, RingLaunch, RingThread, RingDequeue, RingProcess, RingQuit,
         RingDone, Network, Tick, ProcessStep, rxVars, rxOwn, rxLcore, ringLcore

LEMMA ForwardIsReceive ==
  ASSUME RxInv, RxForward
  PROVE  Queue!Receive \/ UNCHANGED Queue!vars
<1> DEFINE k == SmallerOf(Len(rxPkts), RingFree)
           b == First(rxPkts, k)
           r == StampAll(b)
<1>1. /\ rx_ring' = rx_ring \o r
      /\ UNCHANGED <<clock, ringPkts, incoming>>
  BY DEF RxForward, ringLcore
<1>2. /\ rxPkts \in Seq(Packets) /\ rx_ring \in Seq(Stamped)
      /\ ringPkts \in Seq(Stamped) /\ Len(rxPkts) \in Nat /\ clock \in Nat
      /\ pending \in Seq(Stamped) /\ Len(pending) \in Nat
  BY RxSequences, LenProperties DEF RxInv, RxTypeOK, EalTypeOK
<1>3. k \in 0 .. Len(rxPkts)
  <2>1. Len(rxPkts) <= RingFree /\ RingFree \in Int
    BY RoomFromConservation DEF RxInv, CountInv
  <2> QED
    BY <2>1, <1>2 DEF SmallerOf
<1> HIDE DEF k
<1>4. /\ b \in Seq(Packets) /\ Len(b) = k
      /\ \A i \in 1 .. k : b[i] = rxPkts[i]
  BY <1>2, <1>3, FirstProps
<1> HIDE DEF b
<1>5. /\ r \in Seq(Stamped) /\ Len(r) = k
      /\ \A i \in 1 .. k :
           r[i].kind = b[i].kind /\ r[i].send = b[i].send /\ r[i].recv = clock
  BY <1>2, <1>4, StampProps
<1> HIDE DEF r
<1>6. pending' = pending \o r
  <2>1. (ringPkts \o rx_ring) \o r = ringPkts \o (rx_ring \o r)
    <3>1. ringPkts \in Seq(Stamped) /\ rx_ring \in Seq(Stamped) /\ r \in Seq(Stamped)
      BY <1>2, <1>5
    <3> QED
      BY ONLY <3>1, ConcatAssociative
  <2> QED
    BY <2>1, <1>1 DEF pending
<1>7. /\ pending \o r \in Seq(Stamped)
      /\ Len(pending \o r) = Len(pending) + Len(r)
      /\ \A i \in 1 .. Len(pending) + Len(r) :
           (pending \o r)[i] =
             IF i <= Len(pending) THEN pending[i] ELSE r[i - Len(pending)]
  <2>1. pending \in Seq(Stamped) /\ r \in Seq(Stamped)
    BY <1>2, <1>5
  <2> QED
    BY ONLY <2>1, ConcatProperties
<1>8. /\ pending' \in Seq(Stamped) /\ Len(pending') = Len(pending) + k
      /\ \A i \in 1 .. Len(pending) + k :
           pending'[i] =
             IF i <= Len(pending) THEN pending[i] ELSE r[i - Len(pending)]
  BY <1>5, <1>6, <1>7
<1>9. CASE k = 0
  <2>1. r = <<>>
    BY <1>5, <1>9, EmptySeq
  <2>2. pending' = pending
    BY <1>2, <1>6, <2>1, ConcatEmptySeq
  <2> QED
    BY <2>2, <1>1 DEF Queue!vars, pending
<1>10. CASE k > 0
  <2>1. Len(pending') > Len(pending)
    BY <1>2, <1>3, <1>8, <1>10
  <2>2. SubSeq(pending', 1, Len(pending)) = pending
    <3> DEFINE q == SubSeq(pending', 1, Len(pending))
    <3>1. \A i \in 1 .. Len(pending) : pending'[i] = pending[i] /\ pending'[i] \in Stamped
      <4>1. ASSUME NEW i \in 1 .. Len(pending) PROVE pending'[i] = pending[i]
        BY <1>2, <1>3, <1>8
      <4>2. ASSUME NEW i \in 1 .. Len(pending) PROVE pending[i] \in Stamped
        BY <1>2, ElementOfSeq
      <4> QED
        BY <4>1, <4>2
    <3>2. /\ q \in Seq(Stamped) /\ Len(q) = Len(pending)
          /\ \A i \in 1 .. Len(pending) : q[i] = pending'[i]
      BY <1>2, <3>1, SubSeqProperties
    <3> HIDE DEF q
    <3>3. q = pending
      BY <1>2, <3>1, <3>2, SeqEqual
    <3> QED
      BY <3>3 DEF q
  <2>3. ASSUME NEW i \in Len(pending) + 1 .. Len(pending')
        PROVE  /\ pending'[i].recv = clock
               /\ pending'[i].kind = "answer" => pending'[i].send <= clock
    <3>1. /\ i - Len(pending) \in 1 .. k
          /\ pending'[i] = r[i - Len(pending)]
      BY <1>2, <1>3, <1>8
    <3>2. i - Len(pending) \in 1 .. Len(rxPkts)
      BY <3>1, <1>2, <1>3
    <3>3. Own(rxPkts[i - Len(pending)]) => rxPkts[i - Len(pending)].send <= clock
      BY <3>2 DEF RxInv, SentInPast
    <3> QED
      BY <3>1, <3>3, <1>4, <1>5 DEF Own
  <2>4. Queue!Receive
    BY <2>1, <2>2, <2>3, <1>1 DEF Queue!Receive, pending
  <2> QED
    BY <2>4
<1> QED
  BY <1>3, <1>9, <1>10

LEMMA ProcessIsRecord ==
  ASSUME RxInv, RingRecords
  PROVE  Queue!Record
<1>1. /\ ringPkts # <<>> /\ ringPkts' = Tail(ringPkts)
      /\ incoming' = IF Recorded(Head(ringPkts))
                     THEN Append(incoming, NodeOf(Head(ringPkts))) ELSE incoming
      /\ UNCHANGED <<clock, rx_ring>>
  BY DEF RingRecords, ealVars
<1>2. ringPkts \in Seq(Stamped) /\ rx_ring \in Seq(Stamped)
  BY RxSequences DEF RxInv
<1>3. /\ Tail(ringPkts) \o rx_ring = Tail(ringPkts \o rx_ring)
      /\ Head(ringPkts) = (ringPkts \o rx_ring)[1] /\ ringPkts \o rx_ring # <<>>
  BY <1>1, <1>2, SplitConcat2
<1>4. Head(ringPkts \o rx_ring) = Head(ringPkts)
  BY <1>3
<1> QED
  BY <1>1, <1>3, <1>4 DEF Queue!Record, Recorded, NodeOf

LEMMA StepIsQueueStep ==
  RxInv /\ IdleLog /\ [RxNext]_rxVars => [Queue!Next]_(Queue!vars)
<1> SUFFICES ASSUME RxInv, IdleLog, [RxNext]_rxVars
             PROVE  Queue!Next \/ UNCHANGED Queue!vars
  OBVIOUS
<1> USE DEF Queue!vars
<1>1. CASE RxForward
  BY <1>1, ForwardIsReceive DEF Queue!Next
<1>2. CASE RingProcess
  <2>1. CASE RingRecords
    BY <2>1, ProcessIsRecord DEF Queue!Next
  <2>2. CASE ProcessStep /\ UNCHANGED rxOwn
    BY <2>2 DEF ProcessStep, rxOwn, ringLcore
  <2> QED
    BY <1>2, <2>1, <2>2, RingProcessCases
<1>3. CASE RingDequeue
  BY <1>3, DequeueKeepsPending DEF RxInv, pending, RingDequeue, ealVars
<1>4. CASE RingLaunch
  BY <1>4 DEF RingLaunch, IdleLog, ealVars
<1>5. CASE Tick /\ UNCHANGED rxOwn
  BY <1>5 DEF Tick, rxOwn, ringLcore, Queue!Next, Queue!Pass
<1>6. CASE \/ Network
           \/ RxLaunch \/ RxLoop \/ RxPoll \/ RxFinish \/ RingQuit \/ RingDone
           \/ (ProcessStep /\ UNCHANGED rxOwn) \/ UNCHANGED rxVars
  BY <1>6 DEF Network, Arrive, RxLaunch, RxLoop, RxPoll, RxFinish, RingQuit, RingDone,
              ProcessStep, rxVars, rxOwn, ringLcore, ealVars
<1> QED
  BY <1>1, <1>2, <1>3, <1>4, <1>5, <1>6 DEF RxNext, RxThread, RingThread

(* Ring, bursts and array implement one queue into the log.                   *)
THEOREM RxImplementsQueue == RxSpec => QueueKept
<1>1. RxInit => Queue!Init /\ IdleLog
  <2>1. <<>> \o <<>> = <<>>
    BY EmptySeq, ConcatEmptySeq
  <2> QED
    BY <2>1 DEF EalInit, RxInit, Queue!Init, IdleLog
<1>2. RxSpec => []IdleLog
  BY <1>1, IdleLogInv, RxInvariant, PTL DEF RxSpec
<1> QED
  BY <1>1, <1>2, StepIsQueueStep, RxInvariant, PTL DEF RxSpec, QueueKept, Queue!Spec
=============================================================================
