-------------------------- MODULE GeneratorProofs --------------------------
(* Theorems about the whole generator process: seen from each half, the rest  *)
(* of the process is the environment that half was proved correct in. So the  *)
(* invariants of both hold of the composition. From them, what the process    *)
(* reports: its types, that no answer is lost and how far incoming_array can  *)
(* be overrun, and that the numbers and latencies printed are those of what   *)
(* happened, by a count of the frames on their way, wherever they are.        *)
EXTENDS Generator, LcoreProofs, FiniteSetTheorems

(* A request on the wire carries a time that has come.                        *)
WireInPast ==
  /\ wire \subseteq [req : Requests, send : Nat]
  /\ \A w \in wire : w.send <= clock

HalvesInv == TxInv /\ RxInv /\ WireInPast

-----------------------------------------------------------------------------
(* What main does is, for either half, a step of the rest of the process.     *)
LEMMA MainIsProcessStep ==
  ASSUME Main
  PROVE  /\ ProcessStep \/ UNCHANGED ealVars
         /\ UNCHANGED <<txOwn, rxOwn, wire>>
<1> USE DEF ealVars, netOwn
<1>1. CASE MainLaunch \/ MainSleep \/ MainJoin
  BY <1>1 DEF MainLaunch, MainSleep, MainJoin
<1>2. CASE MainQuitTx
  BY <1>2, Zenon DEF MainQuitTx, ProcessStep, Running, Status
<1>3. CASE MainQuitRx
  BY <1>3, Zenon DEF MainQuitRx, ProcessStep, Running, Status
<1>4. CASE MainQuitRing
  BY <1>4, Zenon DEF MainQuitRing, ProcessStep, Running, Status
<1>5. CASE MainPrint
  <2>1. /\ status' \in Status \ {"segv"} /\ Running
        /\ UNCHANGED <<clock, quit_tx, quit_rx, quit_rx_ring, txOwn, rxOwn, wire>>
    BY <1>5 DEF MainPrint, Running, Status
  <2> QED
    BY <2>1, Zenon DEF ProcessStep
<1>6. CASE MainReturn
  <2>1. /\ status' \in Status \ {"segv"} /\ Running
        /\ UNCHANGED <<clock, quit_tx, quit_rx, quit_rx_ring, txOwn, rxOwn, wire>>
    BY <1>6 DEF MainReturn, Running, Status
  <2> QED
    BY <2>1, Zenon DEF ProcessStep
<1> QED
  BY <1>1, <1>2, <1>3, <1>4, <1>5, <1>6 DEF Main

(* A worker touches no quit flag and not the clock, and it may end the        *)
(* process; what lcore_tx cannot do to it is TxInv's to say.                  *)
LEMMA RxWorkerIsProcessStep ==
  ASSUME RxThread
  PROVE  ProcessStep
<1>1. /\ Running /\ status' \in Status \ {"segv"}
      /\ UNCHANGED <<clock, quit_tx, quit_rx, quit_rx_ring>>
  <2>1. CASE RxLoop
    BY <2>1 DEF RxLoop, ealVars, Running, Status
  <2>2. CASE RxPoll
    BY <2>2 DEF RxPoll, ealVars, Running, Status
  <2>3. CASE RxForward
    BY <2>3 DEF RxForward, Running, Status
  <2>4. CASE RxFinish
    BY <2>4 DEF RxFinish, Running, Status
  <2> QED
    BY <2>1, <2>2, <2>3, <2>4 DEF RxThread
<1> QED
  BY <1>1, Zenon DEF ProcessStep

LEMMA TxWorkerIsProcessStep ==
  ASSUME TxThread, AllocNeverFails'
  PROVE  ProcessStep
<1>1. /\ Running /\ status' \in Status \ {"segv"}
      /\ UNCHANGED <<clock, quit_tx, quit_rx, quit_rx_ring>>
  <2> USE DEF Running, Status, ealVars, AllocNeverFails
  <2>1. CASE TxLoop \/ TxSkip
    BY <2>1 DEF TxLoop, TxSkip
  <2>2. CASE TxFill
    BY <2>2 DEF TxFill
  <2>3. CASE TxSend
    BY <2>3 DEF TxSend
  <2>4. CASE TxFinish
    BY <2>4 DEF TxFinish
  <2> QED
    BY <2>1, <2>2, <2>3, <2>4 DEF TxThread
<1> QED
  BY <1>1, Zenon DEF ProcessStep

(* lcore_rx_ring ends the process at most, by a write behind the array.       *)
LEMMA RingWorkerIsProcessStep ==
  ASSUME RingThread \/ RingLaunch
  PROVE  /\ UNCHANGED ealVars \/ ProcessStep
         /\ UNCHANGED <<clock, quit_tx, quit_rx, quit_rx_ring>>
<1>1. CASE RingLaunch \/ RingDequeue \/ RingQuit \/ RingDone
  BY <1>1 DEF RingLaunch, RingDequeue, RingQuit, RingDone, ealVars
<1>2. CASE RingProcess
  <2>1. UNCHANGED <<clock, quit_tx, quit_rx, quit_rx_ring>>
    BY <1>2 DEF RingProcess
  <2>2. UNCHANGED ealVars \/ ProcessStep
    BY <1>2, RingProcessCases DEF RingRecords
  <2> QED
    BY <2>1, <2>2
<1> QED
  BY <1>1, <1>2 DEF RingThread

-----------------------------------------------------------------------------
(* What comes in at the port.                                                 *)
FromOutside ==
  (\E w \in wire : Answer(w)) \/ Stray \/ (\E t \in ForeignTimes : Foreign(t))

(* A step of the process is a step of the sending half.                       *)
LEMMA GenStepIsTxStep == [GenNext]_genVars => [TxNext]_txVars
<1> SUFFICES ASSUME [GenNext]_genVars PROVE TxNext \/ UNCHANGED txVars
  OBVIOUS
<1> USE DEF txVars
<1>1. CASE Main
  BY <1>1, MainIsProcessStep DEF TxNext
<1>2. CASE TxWorker
  BY <1>2 DEF TxWorker, TxNext
<1>3. CASE RxWorker
  <2>1. CASE RxThread
    BY <1>3, <2>1, RxWorkerIsProcessStep DEF RxWorker, TxNext
  <2>2. CASE RxLaunch
    BY <1>3, <2>2 DEF RxWorker, RxLaunch
  <2> QED
    BY <1>3, <2>1, <2>2 DEF RxWorker
<1>4. CASE RingWorker
  BY <1>4, RingWorkerIsProcessStep DEF RingWorker, TxNext
<1>5. CASE Transmit
  BY <1>5 DEF Transmit, TxNext
<1>6. CASE FromOutside
  BY <1>6 DEF FromOutside, Answer, Stray, Foreign, Arrive
<1>7. CASE Time
  BY <1>7 DEF Time, TxNext
<1>8. CASE UNCHANGED genVars
  BY <1>8 DEF genVars
<1> QED
  BY <1>1, <1>2, <1>3, <1>4, <1>5, <1>6, <1>7, <1>8 DEF GenNext, FromOutside

(* A step of the process is a step of the receiving half, while lcore_tx does *)
(* not crash and the packets on the wire were sent in the past.               *)
LEMMA GenStepIsRxStep ==
  ASSUME [GenNext]_genVars, WireInPast, AllocNeverFails', clock \in Nat
  PROVE  [RxNext]_rxVars
<1> SUFFICES RxNext \/ UNCHANGED rxVars
  OBVIOUS
<1> USE DEF rxVars
<1>1. CASE Main
  BY <1>1, MainIsProcessStep DEF RxNext
<1>2. CASE TxWorker
  <2>1. CASE TxThread
    BY <1>2, <2>1, TxWorkerIsProcessStep DEF TxWorker, RxNext
  <2>2. CASE TxLaunch
    BY <1>2, <2>2 DEF TxWorker, TxLaunch
  <2> QED
    BY <1>2, <2>1, <2>2 DEF TxWorker
<1>3. CASE RxWorker
  BY <1>3 DEF RxWorker, RxNext
<1>4. CASE RingWorker
  BY <1>4 DEF RingWorker, RxNext
<1>5. CASE Transmit
  BY <1>5 DEF Transmit, NicTransmit
<1>6. CASE \E w \in wire : Answer(w)
  <2>1. PICK w \in wire : Answer(w)
    BY <1>6
  <2>2. w.send \in 0 .. clock
    BY DEF WireInPast
  <2> QED
    BY <2>1, <2>2 DEF Answer, Network, RxNext
<1>7. CASE Stray \/ (\E t \in ForeignTimes : Foreign(t))
  BY <1>7 DEF Stray, Foreign, Network, RxNext
<1>8. CASE Time
  BY <1>8 DEF Time, RxNext
<1>9. CASE UNCHANGED genVars
  BY <1>9 DEF genVars
<1> QED
  BY <1>1, <1>2, <1>3, <1>4, <1>5, <1>6, <1>7, <1>8, <1>9 DEF GenNext

(* What the NIC sends was sent when it was due, and the clock does not go     *)
(* back: so the wire stays in the past.                                       *)
LEMMA WireStep ==
  ASSUME TxInv, TxInv', WireInPast, [GenNext]_genVars
  PROVE  WireInPast'
<1>1. clock \in Nat /\ clock' \in Nat
  BY EalAssumption DEF TxInv, TxTypeOK, EalTypeOK
<1>2. clock' >= clock
  <2>1. CASE Main
    <3>1. clock' = clock
      <4>1. CASE ProcessStep
        BY <4>1 DEF ProcessStep
      <4>2. CASE UNCHANGED ealVars
        BY <4>2 DEF ealVars
      <4> QED
        BY <2>1, <4>1, <4>2, MainIsProcessStep
    <3> QED
      BY <1>1, <3>1
  <2>2. CASE TxWorker
    <3>1. CASE TxThread
      BY <1>1, <3>1, TxWorkerIsProcessStep DEF TxInv, ProcessStep
    <3>2. CASE TxLaunch
      BY <1>1, <3>2 DEF TxLaunch, ealVars
    <3> QED
      BY <2>2, <3>1, <3>2 DEF TxWorker
  <2>3. CASE RxWorker
    <3>1. CASE RxThread
      BY <1>1, <3>1, RxWorkerIsProcessStep DEF ProcessStep
    <3>2. CASE RxLaunch
      BY <1>1, <3>2 DEF RxLaunch, ealVars
    <3> QED
      BY <2>3, <3>1, <3>2 DEF RxWorker
  <2>4. CASE RingWorker
    BY <1>1, <2>4, RingWorkerIsProcessStep DEF RingWorker
  <2>5. CASE Transmit \/ FromOutside
    <3>1. UNCHANGED ealVars
      BY <2>5 DEF FromOutside, Transmit, NicTransmit, Answer, Stray, Foreign, Arrive
    <3> QED
      BY <1>1, <3>1 DEF ealVars
  <2>6. CASE Time
    BY <1>1, <2>6 DEF Time, Tick
  <2>7. CASE UNCHANGED genVars
    BY <1>1, <2>7 DEF genVars, ealVars
  <2> QED
    BY <2>1, <2>2, <2>3, <2>4, <2>5, <2>6, <2>7 DEF GenNext, FromOutside
<1>3. CASE wire' \subseteq wire
  BY <1>1, <1>2, <1>3 DEF WireInPast
<1>4. CASE Transmit
  <2>1. /\ nicTx \in Seq([req : Requests, send : Nat]) /\ nicTx # <<>>
        /\ wire' = wire \cup {Head(nicTx)} /\ clock' = clock
    BY <1>4 DEF TxInv, TxTypeOK, Transmit, NicTransmit, ealVars
  <2>2. Len(nicTx) \in Nat /\ 1 \in 1 .. Len(nicTx) /\ Head(nicTx) = nicTx[1]
    BY <2>1, EmptySeq, LenProperties
  <2>3. nicTx[1] \in [req : Requests, send : Nat]
    BY <2>1, <2>2, ElementOfSeq
  <2>4. nicTx[1].send <= clock
    BY <2>2 DEF TxInv, NeverEarly
  <2> QED
    BY <2>1, <2>2, <2>3, <2>4 DEF WireInPast
<1>5. wire' \subseteq wire \/ Transmit
  BY MainIsProcessStep
  DEF GenNext, genVars, TxWorker, RxWorker, RingWorker, Answer, Stray, Foreign, Time, netOwn
<1> QED
  BY <1>3, <1>4, <1>5

LEMMA HalvesInitInv == GenInit => HalvesInv
  BY TxInitInv, RxInitInv DEF GenInit, HalvesInv, WireInPast

LEMMA HalvesStepInv == HalvesInv /\ [GenNext]_genVars => HalvesInv'
<1> SUFFICES ASSUME HalvesInv, [GenNext]_genVars PROVE HalvesInv'
  OBVIOUS
<1>1. TxInv'
  BY GenStepIsTxStep, TxStepInv DEF HalvesInv
<1>2. WireInPast'
  BY <1>1, WireStep DEF HalvesInv
<1>3. RxInv'
  <2>1. clock \in Nat
    BY DEF HalvesInv, TxInv, TxTypeOK, EalTypeOK
  <2>2. AllocNeverFails'
    BY <1>1 DEF TxInv
  <2> QED
    BY <2>1, <2>2, GenStepIsRxStep, RxStepInv DEF HalvesInv
<1> QED
  BY <1>1, <1>2, <1>3 DEF HalvesInv

THEOREM HalvesInvariant == GenSpec => []HalvesInv
  BY HalvesInitInv, HalvesStepInv, PTL DEF GenSpec

(* The composition implements the sending half (main.c:191-265): everything   *)
(* proved of TxSpec holds of the process.                                     *)
THEOREM GenImplementsTx == GenSpec => TxSpec
<1>1. GenInit => TxInit
  BY DEF GenInit
<1> QED
  BY <1>1, GenStepIsTxStep, PTL DEF GenSpec, TxSpec

(* The composition implements the receiving half (main.c:62-188), although    *)
(* the other lcore shares its clock, its flags and its process: for the       *)
(* packets it sent carry past times, and it does not crash.                   *)
THEOREM GenImplementsRx == GenSpec => RxSpec
<1>1. GenInit => RxInit
  BY DEF GenInit
<1>2. HalvesInv /\ HalvesInv' /\ [GenNext]_genVars => [RxNext]_rxVars
  <2> SUFFICES ASSUME HalvesInv, HalvesInv', [GenNext]_genVars
               PROVE  [RxNext]_rxVars
    OBVIOUS
  <2>1. clock \in Nat /\ WireInPast /\ AllocNeverFails'
    BY DEF HalvesInv, TxInv, TxTypeOK, EalTypeOK
  <2> QED
    BY <2>1, GenStepIsRxStep
<1> QED
  BY <1>1, <1>2, HalvesInvariant, PTL DEF GenSpec, RxSpec

-----------------------------------------------------------------------------
(* The order of the quit flags, and what each thread concludes from its own.  *)
FlagsInOrder ==
  /\ quit_rx_ring => quit_rx
  /\ mainPc \in {"quit_ring", "wait", "print", "stats", "end"} => quit_rx
  /\ ringPc \in {"drain", "done"} => quit_rx_ring

(* Once lcore_rx_ring is done lcore_rx begins no burst: there is the one it   *)
(* holds or is taking, and the ring is empty until that one is in it.         *)
LastBurst ==
  /\ Len(rxPkts) <= BURST_SIZE
  /\ ringPc = "done" => /\ Len(rx_ring) <= BURST_SIZE
                        /\ rxPc \in {"poll", "forward"} => rx_ring = <<>>

OrderInv == FlagsInOrder /\ LastBurst

(* Each action of the composition, and what it leaves of the two halves.      *)
LEMMA RxThreadLeaves ==
  ASSUME RxThread \/ RxLaunch
  PROVE  UNCHANGED <<quit_tx, quit_rx, quit_rx_ring, ringPc, ringPkts, incoming>>
  BY DEF RxThread, RxLaunch, RxLoop, RxPoll, RxForward, RxFinish, ealVars, ringLcore

LEMMA TxThreadLeaves ==
  ASSUME TxThread \/ TxLaunch
  PROVE  UNCHANGED <<quit_tx, quit_rx, quit_rx_ring>>
  BY DEF TxThread, TxLaunch, TxLoop, TxSkip, TxFill, TxSend, TxFinish, ealVars

LEMMA OutsideLeaves ==
  ASSUME Transmit \/ FromOutside \/ Time \/ UNCHANGED genVars
  PROVE  /\ UNCHANGED <<status, quit_tx, quit_rx, quit_rx_ring>>
         /\ UNCHANGED <<mainOwn, txPc, q_tx, nr_never_sent, rx_ring, rxLcore, ringLcore>>
  BY DEF FromOutside, Transmit, NicTransmit, Answer, Stray, Foreign, Arrive, Time, Tick,
         genVars, ealVars, txOwn, txLocal, rxOwn

LEMMA FlagsStep == FlagsInOrder /\ [GenNext]_genVars => FlagsInOrder'
<1> SUFFICES ASSUME FlagsInOrder, [GenNext]_genVars PROVE FlagsInOrder'
  OBVIOUS
<1>1. CASE UNCHANGED <<quit_rx, quit_rx_ring, mainPc, ringPc>>
  BY <1>1 DEF FlagsInOrder
<1>2. CASE Main
  <2>1. ringPc' = ringPc
    BY <1>2, MainIsProcessStep DEF rxOwn, ringLcore
  <2>2. CASE MainLaunch \/ MainSleep \/ MainJoin
    BY <2>1, <2>2 DEF MainLaunch, MainSleep, MainJoin, ealVars, FlagsInOrder
  <2>3. CASE MainQuitTx
    BY <2>1, <2>3 DEF MainQuitTx, FlagsInOrder
  <2>4. CASE MainQuitRx
    BY <2>1, <2>4 DEF MainQuitRx, FlagsInOrder
  <2>5. CASE MainQuitRing
    BY <2>1, <2>5 DEF MainQuitRing, FlagsInOrder
  <2>6. CASE MainPrint \/ MainReturn
    BY <2>1, <2>6 DEF MainPrint, MainReturn, FlagsInOrder
  <2> QED
    BY <1>2, <2>2, <2>3, <2>4, <2>5, <2>6 DEF Main
<1>3. CASE TxWorker
  BY <1>1, <1>3, TxThreadLeaves DEF TxWorker, rxOwn, ringLcore, mainOwn
<1>4. CASE RxWorker
  BY <1>1, <1>4, RxThreadLeaves DEF RxWorker, mainOwn
<1>5. CASE RingWorker
  <2>1. UNCHANGED <<quit_rx, quit_rx_ring, mainPc>>
    BY <1>5, RingWorkerIsProcessStep DEF RingWorker, mainOwn
  <2>2. ringPc' \in {"drain", "done"} => ringPc \in {"drain", "done"} \/ quit_rx_ring
    BY <1>5 DEF RingWorker, RingThread, RingLaunch, RingDequeue, RingProcess,
                RingQuit, RingDone
  <2> QED
    BY <2>1, <2>2 DEF FlagsInOrder
<1>6. CASE Transmit \/ FromOutside \/ Time \/ UNCHANGED genVars
  BY <1>1, <1>6, OutsideLeaves DEF mainOwn, ringLcore
<1> QED
  BY <1>2, <1>3, <1>4, <1>5, <1>6 DEF GenNext, FromOutside

(* A burst of lcore_rx is within BURST_SIZE, and goes into the ring whole.    *)
LEMMA PollTakesABurst ==
  ASSUME RxInv, RxPoll
  PROVE  Len(rxPkts') <= BURST_SIZE /\ rx_ring' = rx_ring
<1>1. PICK k \in 0 .. SmallerOf(BURST_SIZE, SmallerOf(Len(nicRx), poolRx)) :
        rxPkts' = First(nicRx, k)
  BY DEF RxPoll
<1>2. /\ nicRx \in Seq(Packets) /\ Len(nicRx) \in Nat
      /\ poolRx \in Nat /\ BURST_SIZE \in Nat
  BY RxSequences, RxAssumption DEF RxInv, RxTypeOK
<1>3. k \in 0 .. Len(nicRx) /\ k <= BURST_SIZE
  BY <1>2 DEF SmallerOf
<1>4. Len(First(nicRx, k)) = k
  BY <1>2, <1>3, FirstProps
<1> QED
  BY <1>1, <1>3, <1>4 DEF RxPoll

LEMMA ForwardEmptiesTheBurst ==
  ASSUME RxInv, RxForward
  PROVE  /\ rxPc' = "loop" /\ Len(rxPkts') = 0
         /\ rx_ring = <<>> => Len(rx_ring') = Len(rxPkts)
<1> DEFINE k == SmallerOf(Len(rxPkts), RingFree)
<1>1. /\ rx_ring' = rx_ring \o StampAll(First(rxPkts, k))
      /\ k = Len(rxPkts) => rxPc' = "loop"
      /\ rxPkts' = Without(rxPkts, k)
  BY DEF RxForward
<1>2. /\ rxPkts \in Seq(Packets) /\ rx_ring \in Seq(Stamped)
      /\ Len(rxPkts) \in Nat /\ Len(rx_ring) \in Nat /\ clock \in Nat
  BY RxSequences DEF RxInv, RxTypeOK, EalTypeOK
<1>3. k = Len(rxPkts)
  <2>1. Len(rxPkts) <= RingFree /\ RingFree \in Int
    BY RoomFromConservation DEF RxInv, CountInv
  <2> QED
    BY <2>1, <1>2 DEF SmallerOf
<1> HIDE DEF k
<1>4. k \in 0 .. Len(rxPkts)
  BY <1>2, <1>3
<1>5. First(rxPkts, k) \in Seq(Packets) /\ Len(First(rxPkts, k)) = k
  BY <1>2, <1>4, FirstProps
<1>6. /\ StampAll(First(rxPkts, k)) \in Seq(Stamped)
      /\ Len(StampAll(First(rxPkts, k))) = k
  BY <1>2, <1>5, StampProps
<1>7. Len(Without(rxPkts, k)) = 0
  <2>1. Len(Without(rxPkts, k)) = Len(rxPkts) - k
    BY <1>2, <1>4, WithoutProps
  <2> QED
    BY <2>1, <1>2, <1>3
<1>8. rx_ring = <<>> => Len(rx_ring') = k
  BY <1>1, <1>6, ConcatEmptySeq
<1> QED
  BY <1>1, <1>3, <1>7, <1>8

LEMMA LastBurstStep ==
  ASSUME RxInv, FlagsInOrder, LastBurst, [GenNext]_genVars
  PROVE  LastBurst'
<1>1. CASE UNCHANGED <<rx_ring, rxPc, rxPkts, ringPc>>
  BY <1>1 DEF LastBurst
<1>2. CASE Main
  BY <1>1, <1>2, MainIsProcessStep DEF rxOwn, rxLcore, ringLcore
<1>3. CASE TxWorker
  BY <1>1, <1>3 DEF TxWorker, rxOwn, rxLcore, ringLcore
<1>4. CASE RxLaunch
  BY <1>4 DEF RxLaunch, LastBurst, ringLcore
<1>5. CASE RxLoop
  <2>1. ringPc # "done"
    BY <1>5 DEF RxLoop, FlagsInOrder
  <2> QED
    BY <1>5, <2>1 DEF RxLoop, LastBurst, ringLcore
<1>6. CASE RxPoll
  BY <1>6, PollTakesABurst DEF RxPoll, LastBurst, ringLcore
<1>7. CASE RxForward
  <2>1. ringPc' = ringPc /\ rxPc = "forward" /\ rxPc' = "loop" /\ Len(rxPkts') = 0
    BY <1>7, ForwardEmptiesTheBurst DEF RxForward, ringLcore
  <2>2. ringPc = "done" => Len(rx_ring') <= BURST_SIZE
    BY <1>7, <2>1, ForwardEmptiesTheBurst DEF LastBurst
  <2>3. BURST_SIZE \in Nat
    BY RxAssumption
  <2> QED
    BY <2>1, <2>2, <2>3 DEF LastBurst
<1>8. CASE RxFinish
  BY <1>8 DEF RxFinish, LastBurst, ringLcore
<1>9. CASE RingWorker
  <2>1. UNCHANGED <<rxPc, rxPkts>>
    BY <1>9 DEF RingWorker, RingThread, RingLaunch, RingDequeue, RingProcess,
                RingQuit, RingDone, rxLcore
  <2>2. ringPc' = "done" => \/ rx_ring' = <<>>
                            \/ ringPc = "done" /\ rx_ring' = rx_ring
    BY <1>9 DEF RingWorker, RingThread, RingLaunch, RingDequeue, RingProcess,
                RingQuit, RingDone
  <2>3. BURST_SIZE \in Nat /\ Len(<<>>) = 0
    BY RxAssumption
  <2> QED
    BY <2>1, <2>2, <2>3 DEF LastBurst
<1>10. CASE Transmit \/ FromOutside \/ Time \/ UNCHANGED genVars
  BY <1>1, <1>10, OutsideLeaves DEF rxLcore, ringLcore
<1> QED
  BY <1>2, <1>3, <1>4, <1>5, <1>6, <1>7, <1>8, <1>9, <1>10
  DEF GenNext, FromOutside, RxWorker, RxThread

LEMMA OrderInitInv == GenInit => OrderInv
<1> SUFFICES ASSUME GenInit PROVE OrderInv
  OBVIOUS
<1>1. FlagsInOrder
  BY DEF GenInit, EalInit, RxInit, FlagsInOrder
<1>2. LastBurst
  BY RxAssumption DEF GenInit, RxInit, LastBurst
<1> QED
  BY <1>1, <1>2 DEF OrderInv

THEOREM OrderInvariant == GenSpec => []OrderInv
<1>1. HalvesInv /\ OrderInv /\ [GenNext]_genVars => OrderInv'
  BY FlagsStep, LastBurstStep DEF HalvesInv, OrderInv
<1> QED
  BY <1>1, OrderInitInv, HalvesInvariant, PTL DEF GenSpec

(* The order in which wait_timeout raises the flags (util.c:320-322) leaves   *)
(* at most one burst in rx_ring when both receiving lcores are done.          *)
THEOREM AtMostOneBurst == GenSpec => []AtMostOneBurstLeft
<1>1. OrderInv => AtMostOneBurstLeft
  BY DEF OrderInv, LastBurst, AtMostOneBurstLeft
<1> QED
  BY <1>1, OrderInvariant, PTL

-----------------------------------------------------------------------------
(* What main's progress says of the workers. A role that runs was launched,   *)
(* and main leaves rte_eal_wait_lcore only when all of them are done.         *)
RolesInv ==
  /\ mainPc # "launch" => launched = 3
  /\ ringPc # "idle" => RoleRuns(1)
  /\ rxPc # "idle" => RoleRuns(2)
  /\ txPc # "idle" => RoleRuns(3)
  /\ ringPc \in {"idle", "done"} => ringPkts = <<>>
  /\ Joined => AllJoined
  /\ launched \in 0 .. 3

(* A joined process: every role is done or was never started.                 *)
LEMMA JoinedWorkersRest ==
  ASSUME RolesInv, Joined
  PROVE  /\ ~TxWorker /\ ~RxWorker /\ ~RingWorker
<1>1. /\ RoleRuns(1) => ringPc = "done"
      /\ RoleRuns(2) => rxPc = "done"
      /\ RoleRuns(3) => txPc = "done"
  BY DEF RolesInv, AllJoined
<1>2. ~TxWorker
  BY <1>1 DEF RolesInv, TxWorker, TxThread, TxLaunch, TxLoop, TxSkip, TxFill, TxSend,
              TxFinish
<1>3. ~RxWorker
  BY <1>1 DEF RolesInv, RxWorker, RxThread, RxLaunch, RxLoop, RxPoll, RxForward,
              RxFinish
<1>4. ~RingWorker
  <2>1. ringPc \in {"idle", "done"} /\ ringPkts = <<>>
    BY <1>1 DEF RolesInv
  <2> QED
    BY <1>1, <2>1 DEF RolesInv, RingWorker, RingThread, RingLaunch, RingDequeue,
                      RingProcess, RingQuit, RingDone
<1> QED
  BY <1>2, <1>3, <1>4

LEMMA RolesStep == RolesInv /\ [GenNext]_genVars => RolesInv'
<1> SUFFICES ASSUME RolesInv, [GenNext]_genVars PROVE RolesInv'
  OBVIOUS
<1> USE GeneratorAssumption
<1>1. CASE Main
  <2>1. UNCHANGED <<ringPc, rxPc, txPc, ringPkts>>
    BY <1>1, MainIsProcessStep DEF txOwn, rxOwn, rxLcore, ringLcore
  <2>2. CASE MainLaunch
    BY <2>1, <2>2 DEF MainLaunch, RolesInv, RoleRuns, Joined
  <2>3. CASE MainSleep
    BY <2>1, <2>3 DEF MainSleep, RolesInv, RoleRuns, Joined
  <2>4. CASE MainQuitTx \/ MainQuitRx \/ MainQuitRing
    BY <2>1, <2>4 DEF MainQuitTx, MainQuitRx, MainQuitRing, RolesInv, RoleRuns, Joined
  <2>5. CASE MainJoin
    BY <2>1, <2>5 DEF MainJoin, RolesInv, RoleRuns, Joined, AllJoined
  <2>6. CASE MainPrint
    BY <2>1, <2>6 DEF MainPrint, RolesInv, RoleRuns, Joined, AllJoined
  <2>7. CASE MainReturn
    BY <2>1, <2>7 DEF MainReturn, RolesInv, RoleRuns, Joined
  <2> QED
    BY <1>1, <2>2, <2>3, <2>4, <2>5, <2>6, <2>7 DEF Main
<1>2. CASE TxWorker \/ RxWorker \/ RingWorker
  <2>1. ~Joined /\ UNCHANGED <<mainPc, launched>>
    BY <1>2, JoinedWorkersRest DEF TxWorker, RxWorker, RingWorker, mainOwn
  <2>2. ~Joined'
    BY <2>1 DEF Joined
  <2>3. CASE TxWorker
    <3>1. UNCHANGED <<ringPc, rxPc, ringPkts>> /\ RoleRuns(3)
      BY <2>3 DEF RolesInv, TxWorker, TxThread, TxLoop, TxSkip, TxFill, TxSend,
                  TxFinish, rxOwn, rxLcore, ringLcore
    <3> QED
      BY <2>1, <2>2, <3>1 DEF RolesInv, RoleRuns
  <2>4. CASE RxWorker
    <3>1. UNCHANGED <<ringPc, txPc, ringPkts>> /\ RoleRuns(2)
      BY <2>4, RxThreadLeaves DEF RolesInv, RxWorker, RxThread, RxLoop, RxPoll,
                                  RxForward, RxFinish, txOwn
    <3> QED
      BY <2>1, <2>2, <3>1 DEF RolesInv, RoleRuns
  <2>5. CASE RingWorker
    <3>1. UNCHANGED <<rxPc, txPc>> /\ RoleRuns(1)
      <4>1. ringPkts # <<>> => ringPc # "idle"
        BY DEF RolesInv
      <4>2. RoleRuns(1)
        BY <2>5, <4>1 DEF RolesInv, RingWorker, RingThread, RingDequeue,
                          RingProcess, RingQuit, RingDone
      <4> QED
        BY <2>5, <4>2 DEF RingWorker, RingThread, RingLaunch, RingDequeue,
                          RingProcess, RingQuit, RingDone, rxLcore, txOwn
    <3>2. ringPc' \in {"idle", "done"} => ringPkts' = <<>>
      BY <2>5 DEF RolesInv, RingWorker, RingThread, RingLaunch, RingDequeue,
                  RingProcess, RingQuit, RingDone
    <3> QED
      BY <2>1, <2>2, <3>1, <3>2 DEF RolesInv, RoleRuns
  <2> QED
    BY <1>2, <2>3, <2>4, <2>5
<1>3. CASE Transmit \/ FromOutside \/ Time \/ UNCHANGED genVars
  BY <1>3, OutsideLeaves
  DEF RolesInv, RoleRuns, Joined, AllJoined, mainOwn, rxLcore, ringLcore
<1> QED
  BY <1>1, <1>2, <1>3 DEF GenNext, FromOutside

THEOREM RolesInvariant == GenSpec => []RolesInv
<1>1. GenInit => RolesInv
  BY DEF GenInit, TxInit, RxInit, RolesInv, Joined
<1> QED
  BY <1>1, RolesStep, PTL DEF GenSpec

(* What main prints is final when it prints it (main.c:325-331): no worker    *)
(* writes the array or a counter any more.                                    *)
THEOREM NothingMovesAfterJoin == GenSpec => ReportStable
<1>1. RolesInv /\ [GenNext]_genVars
        => [Joined => UNCHANGED <<incoming, q_rx, q_tx, nr_never_sent>>]_genVars
  <2> SUFFICES ASSUME RolesInv, [GenNext]_genVars, Joined
               PROVE  UNCHANGED <<incoming, q_rx, q_tx, nr_never_sent>>
    OBVIOUS
  <2>1. CASE Main
    BY <2>1, MainIsProcessStep DEF txOwn, txLocal, rxOwn, rxLcore, ringLcore
  <2>2. CASE TxWorker \/ RxWorker \/ RingWorker
    BY <2>2, JoinedWorkersRest
  <2>3. CASE Transmit \/ FromOutside \/ Time \/ UNCHANGED genVars
    BY <2>3, OutsideLeaves DEF rxLcore, ringLcore
  <2> QED
    BY <2>1, <2>2, <2>3 DEF GenNext, FromOutside
<1> QED
  BY <1>1, RolesInvariant, PTL DEF GenSpec, ReportStable

-----------------------------------------------------------------------------
(* The frames of a queue or a burst that get a node, and how many there are.  *)
RecordedAt(s)  == {k \in 1 .. Len(s) : Recorded(s[k])}
NumRecorded(s) == Cardinality(RecordedAt(s))

LEMMA NumRecordedType ==
  ASSUME NEW S, NEW s \in Seq(S)
  PROVE  /\ IsFiniteSet(RecordedAt(s))
         /\ NumRecorded(s) \in Nat /\ NumRecorded(s) <= Len(s)
<1>1. Len(s) \in Nat
  BY LenProperties
<1>2. IsFiniteSet(1 .. Len(s)) /\ Cardinality(1 .. Len(s)) = Len(s)
  <2>1. \A n \in Nat : IsFiniteSet(1 .. n) /\ Cardinality(1 .. n) = n
    BY FS_Interval
  <2> QED
    BY <1>1, <2>1, Zenon
<1>3. RecordedAt(s) \in SUBSET (1 .. Len(s))
  BY DEF RecordedAt
<1>4. IsFiniteSet(RecordedAt(s)) /\ Cardinality(RecordedAt(s)) <= Len(s)
  BY <1>2, <1>3, FS_Subset
<1> QED
  BY <1>4, FS_CardinalityType DEF NumRecorded

LEMMA NoneInEmpty == NumRecorded(<<>>) = 0
<1>1. RecordedAt(<<>>) = {}
  BY DEF RecordedAt
<1> QED
  BY <1>1, FS_EmptySet DEF NumRecorded

LEMMA NumRecordedAppend ==
  ASSUME NEW S, NEW s \in Seq(S), NEW p \in S
  PROVE  NumRecorded(Append(s, p)) = NumRecorded(s) + (IF Recorded(p) THEN 1 ELSE 0)
<1>1. /\ Len(s) \in Nat /\ Len(Append(s, p)) = Len(s) + 1
      /\ \A k \in 1 .. Len(s) : Append(s, p)[k] = s[k]
      /\ Append(s, p)[Len(s) + 1] = p
  BY AppendProperties, LenProperties
<1>2. IsFiniteSet(RecordedAt(s)) /\ NumRecorded(s) \in Nat
  BY NumRecordedType
<1>3. CASE Recorded(p)
  <2>1. RecordedAt(Append(s, p)) = RecordedAt(s) \cup {Len(s) + 1}
    BY <1>1, <1>3 DEF RecordedAt
  <2>2. Len(s) + 1 \notin RecordedAt(s)
    BY <1>1 DEF RecordedAt
  <2> QED
    BY <1>2, <1>3, <2>1, <2>2, FS_AddElement DEF NumRecorded
<1>4. CASE ~Recorded(p)
  <2>1. RecordedAt(Append(s, p)) = RecordedAt(s)
    BY <1>1, <1>4 DEF RecordedAt
  <2> QED
    BY <1>2, <1>4, <2>1 DEF NumRecorded
<1> QED
  BY <1>3, <1>4

(* The answers of two queues, one behind the other.                           *)
LEMMA NumRecordedConcat ==
  ASSUME NEW S, NEW s \in Seq(S), NEW t \in Seq(S)
  PROVE  NumRecorded(s \o t) = NumRecorded(s) + NumRecorded(t)
<1> DEFINE A == RecordedAt(s)
           B == RecordedAt(t)
           C == {k \in Len(s) + 1 .. Len(s) + Len(t) : k - Len(s) \in B}
           f == [k \in B |-> Len(s) + k]
<1>1. /\ Len(s) \in Nat /\ Len(t) \in Nat
      /\ Len(s \o t) = Len(s) + Len(t)
      /\ \A k \in 1 .. Len(s) + Len(t) :
           (s \o t)[k] = IF k <= Len(s) THEN s[k] ELSE t[k - Len(s)]
  BY ConcatProperties, LenProperties
<1>2. IsFiniteSet(A) /\ IsFiniteSet(B)
  BY NumRecordedType
<1>3. B \subseteq 1 .. Len(t)
  BY DEF RecordedAt
<1>4. f \in Bijection(B, C)
  <2>1. f \in [B -> C]
    BY <1>1, <1>3
  <2>2. \A i, j \in B : f[i] = f[j] => i = j
    BY <1>1, <1>3
  <2>3. \A k \in C : \E j \in B : f[j] = k
    <3> SUFFICES ASSUME NEW k \in C PROVE \E j \in B : f[j] = k
      OBVIOUS
    <3>1. k - Len(s) \in B /\ f[k - Len(s)] = k
      BY <1>1
    <3> QED
      BY <3>1
  <2> QED
    BY <2>1, <2>2, <2>3 DEF Bijection, Injection, Surjection, IsInjective
<1>5. IsFiniteSet(C) /\ Cardinality(C) = Cardinality(B)
  BY <1>2, <1>4, FS_Bijection DEF ExistsBijection
<1>6. RecordedAt(s \o t) = A \cup C
  <2>1. \A k \in 1 .. Len(s) : (s \o t)[k] = s[k]
    BY <1>1
  <2>2. \A k \in Len(s) + 1 .. Len(s) + Len(t) :
          (s \o t)[k] = t[k - Len(s)] /\ k - Len(s) \in 1 .. Len(t)
    BY <1>1
  <2> QED
    BY <1>1, <2>1, <2>2 DEF RecordedAt
<1>7. A \cap C = {}
  BY <1>1 DEF RecordedAt
<1> HIDE DEF A, B, C, f
<1>8. Cardinality(A \cup C) = Cardinality(A) + Cardinality(C) - Cardinality(A \cap C)
  BY <1>2, <1>5, FS_Union
<1>9. Cardinality(A) \in Nat /\ Cardinality(B) \in Nat
  BY <1>2, FS_CardinalityType
<1>10. Cardinality(A \cup C) = Cardinality(A) + Cardinality(B)
  <2>1. Cardinality(A \cap C) = 0
    BY <1>7, FS_EmptySet, Zenon
  <2> QED
    BY <1>5, <1>8, <1>9, <2>1
<1> QED
  BY <1>6, <1>10 DEF NumRecorded, A, B

(* A burst that is split, as the polls and the dequeues do.                   *)
LEMMA NumRecordedSplit ==
  ASSUME NEW S, NEW s \in Seq(S), NEW k \in 0 .. Len(s)
  PROVE  NumRecorded(First(s, k)) + NumRecorded(Without(s, k)) = NumRecorded(s)
<1> DEFINE a == First(s, k)
           b == Without(s, k)
<1>1. a \in Seq(S) /\ b \in Seq(S) /\ a \o b = s
  BY FirstProps, WithoutProps, SplitConcat
<1> HIDE DEF a, b
<1>2. NumRecorded(a \o b) = NumRecorded(a) + NumRecorded(b)
  BY <1>1, NumRecordedConcat
<1> QED
  BY <1>1, <1>2 DEF a, b

(* Stamping changes no kind.                                                  *)
LEMMA NumRecordedStamped ==
  ASSUME NEW s \in Seq(Packets), clock \in Nat
  PROVE  NumRecorded(StampAll(s)) = NumRecorded(s)
<1>1. Len(StampAll(s)) = Len(s)
  BY StampProps
<1>2. \A k \in 1 .. Len(s) : StampAll(s)[k].kind = s[k].kind
  BY DEF StampAll
<1>3. RecordedAt(StampAll(s)) = RecordedAt(s)
  BY <1>1, <1>2 DEF RecordedAt, Recorded
<1> QED
  BY <1>3 DEF NumRecorded

(* A packet that is processed leaves the burst.                               *)
LEMMA NumRecordedTail ==
  ASSUME NEW S, NEW s \in Seq(S), s # <<>>
  PROVE  NumRecorded(s) = NumRecorded(Tail(s)) + (IF Recorded(Head(s)) THEN 1 ELSE 0)
<1>1. /\ Len(s) \in Nat \ {0} /\ Head(s) \in S /\ Head(s) = s[1]
      /\ Tail(s) \in Seq(S) /\ Len(Tail(s)) = Len(s) - 1
      /\ \A k \in 1 .. Len(Tail(s)) : Tail(s)[k] = s[k + 1]
  BY EmptySeq, LenProperties, HeadTailProperties
<1> DEFINE h == Append(<<>>, Head(s))
<1>2. <<>> \in Seq(S) /\ Len(<<>>) = 0
  BY EmptySeq
<1>3. /\ h \in Seq(S) /\ Len(h) = 1 /\ h[1] = Head(s)
      /\ NumRecorded(h) = IF Recorded(Head(s)) THEN 1 ELSE 0
  <2>1. h \in Seq(S) /\ Len(h) = 0 + 1 /\ h[0 + 1] = Head(s)
    BY <1>1, <1>2, AppendProperties
  <2>2. NumRecorded(h) = NumRecorded(<<>>) + (IF Recorded(Head(s)) THEN 1 ELSE 0)
    BY <1>1, <1>2, NumRecordedAppend
  <2> QED
    BY <2>1, <2>2, NoneInEmpty
<1> HIDE DEF h
<1>4. /\ h \o Tail(s) \in Seq(S)
      /\ Len(h \o Tail(s)) = Len(s)
      /\ \A k \in 1 .. Len(s) :
           (h \o Tail(s))[k] = IF k <= 1 THEN h[k] ELSE Tail(s)[k - 1]
  <2>1. /\ h \o Tail(s) \in Seq(S)
        /\ Len(h \o Tail(s)) = Len(h) + Len(Tail(s))
        /\ \A k \in 1 .. Len(h) + Len(Tail(s)) :
             (h \o Tail(s))[k] = IF k <= Len(h) THEN h[k] ELSE Tail(s)[k - Len(h)]
    BY <1>1, <1>3, ConcatProperties
  <2>2. Len(h) = 1 /\ Len(h) + Len(Tail(s)) = Len(s)
    BY <1>1, <1>3
  <2> QED
    BY <2>1, <2>2
<1>5. ASSUME NEW k \in 1 .. Len(s) PROVE (h \o Tail(s))[k] = s[k]
  <2>1. CASE k = 1
    BY <2>1, <1>1, <1>3, <1>4
  <2>2. CASE k # 1
    <3>1. k - 1 \in 1 .. Len(Tail(s)) /\ (k - 1) + 1 = k /\ ~(k <= 1)
      BY <1>1, <2>2
    <3> QED
      BY <3>1, <1>1, <1>4
  <2> QED
    BY <2>1, <2>2
<1>6. h \o Tail(s) = s
  BY <1>4, <1>5, SeqEqual
<1>7. NumRecorded(h \o Tail(s)) = NumRecorded(h) + NumRecorded(Tail(s))
  BY <1>1, <1>3, NumRecordedConcat
<1>8. NumRecorded(Tail(s)) \in Nat
  BY <1>1, NumRecordedType
<1>9. NumRecorded(h \o Tail(s)) = NumRecorded(s)
  BY <1>6, Zenon
<1> QED
  BY <1>3, <1>7, <1>8, <1>9

-----------------------------------------------------------------------------
(* The frames for the array between the NIC and the array.                    *)
UnderWay ==
  NumRecorded(nicRx) + NumRecorded(rxPkts) + NumRecorded(rx_ring)
    + NumRecorded(ringPkts)

(* A request has one first answer: those that wait at the NIC or are on the   *)
(* wire, and the answers of the others, are at most the requests sent; so all *)
(* that is recorded beyond that is foreign.                                   *)
AnsweredOnce ==
  /\ IsFiniteSet(wire)
  /\ Len(nicTx) + Cardinality(wire) + UnderWay + Len(incoming)
       <= tot_nb_tx + foreign

(* Every frame that came, counted already or still at the NIC, is a stray, or *)
(* it is in the array or on its way there.                                    *)
FramesCounted == tot_nb_rx + Len(nicRx) = strays + UnderWay + Len(incoming)

(* A role that was never started has done nothing.                            *)
UnstartedIdle ==
  /\ txPc = "idle" => tot_nb_tx = 0
  /\ rxPc = "idle" => tot_nb_rx = 0 /\ q_rx.tot_rx = 0
  /\ ringPc = "idle" => incoming = <<>>

StraysBounded == strays \in Nat /\ foreign \in Nat /\ strays + foreign <= MaxStray

TallyInv == AnsweredOnce /\ FramesCounted /\ UnstartedIdle /\ StraysBounded

(* The variables the tallies are of.                                          *)
tallied == <<nicTx, tot_nb_tx, wire, nicRx, rxPkts, rx_ring, ringPkts, incoming,
             tot_nb_rx, strays, foreign>>

LEMMA TalliesAreNumbers ==
  ASSUME HalvesInv, IsFiniteSet(wire)
  PROVE  /\ nicTx \in Seq([req : Requests, send : Nat])
         /\ Len(nicTx) \in Nat /\ tot_nb_tx \in Nat /\ Cardinality(wire) \in Nat
         /\ Len(nicRx) \in Nat /\ tot_nb_rx \in Nat /\ Len(incoming) \in Nat
         /\ NumRecorded(nicRx) \in Nat /\ NumRecorded(rxPkts) \in Nat
         /\ NumRecorded(rx_ring) \in Nat /\ NumRecorded(ringPkts) \in Nat
         /\ UnderWay \in Nat
<1>1. RxTypeOK /\ TxTypeOK
  BY DEF HalvesInv, RxInv, TxInv
<1>2. /\ nicRx \in Seq(Packets) /\ rxPkts \in Seq(Packets)
      /\ rx_ring \in Seq(Stamped) /\ ringPkts \in Seq(Stamped)
      /\ Len(nicRx) \in Nat /\ Len(incoming) \in Nat /\ tot_nb_rx \in Nat
  BY <1>1, RxSequences DEF RxTypeOK
<1>3. /\ nicTx \in Seq([req : Requests, send : Nat])
      /\ Len(nicTx) \in Nat /\ tot_nb_tx \in Nat
  BY <1>1, LenProperties DEF TxTypeOK
<1>4. /\ NumRecorded(nicRx) \in Nat /\ NumRecorded(rxPkts) \in Nat
      /\ NumRecorded(rx_ring) \in Nat /\ NumRecorded(ringPkts) \in Nat
  BY <1>2, NumRecordedType
<1>5. UnderWay \in Nat
  BY <1>4 DEF UnderWay
<1>6. Cardinality(wire) \in Nat
  BY FS_CardinalityType
<1> QED
  BY <1>2, <1>3, <1>4, <1>5, <1>6

-----------------------------------------------------------------------------
(* One lemma for each action that moves a packet.                             *)
LEMMA SendTally ==
  ASSUME HalvesInv, TallyInv, TxWorker
  PROVE  AnsweredOnce' /\ FramesCounted'
<1>1. UNCHANGED <<wire, nicRx, rxPkts, rx_ring, ringPkts, incoming, tot_nb_rx,
                  strays, foreign>>
  BY DEF TxWorker, rxOwn, rxLcore, ringLcore, netOwn
<1>2. UnderWay' = UnderWay
  BY <1>1 DEF UnderWay
<1>3. /\ Len(nicTx) \in Nat /\ tot_nb_tx \in Nat
      /\ nicTx \in Seq([req : Requests, send : Nat])
  BY TalliesAreNumbers DEF TallyInv, AnsweredOnce
<1>4. \E k \in Nat : Len(nicTx') = Len(nicTx) + k /\ tot_nb_tx' = tot_nb_tx + k
  <2>1. CASE UNCHANGED <<nicTx, tot_nb_tx>>
    <3>1. Len(nicTx') = Len(nicTx) + 0 /\ tot_nb_tx' = tot_nb_tx + 0
      BY <1>3, <2>1
    <3> QED
      BY <3>1
  <2>2. CASE TxSend
    <3>1. \/ /\ nicTx' = Append(nicTx, [req |-> txI, send |-> next_tsc])
             /\ tot_nb_tx' = tot_nb_tx + 1
          \/ UNCHANGED <<nicTx, tot_nb_tx>>
      BY <2>2 DEF TxSend
    <3>2. txI \in Requests /\ next_tsc \in Nat
      BY <2>2, TxAssumption DEF TxSend, HalvesInv, TxInv, TxTypeOK, Requests
    <3>3. [req |-> txI, send |-> next_tsc] \in [req : Requests, send : Nat]
      BY <3>2
    <3>4. Len(Append(nicTx, [req |-> txI, send |-> next_tsc])) = Len(nicTx) + 1
      BY <1>3, <3>3, AppendProperties
    <3>5. CASE UNCHANGED <<nicTx, tot_nb_tx>>
      BY <2>1, <3>5
    <3>6. CASE ~ UNCHANGED <<nicTx, tot_nb_tx>>
      <4>1. Len(nicTx') = Len(nicTx) + 1 /\ tot_nb_tx' = tot_nb_tx + 1
        BY <3>1, <3>4, <3>6, Zenon
      <4> QED
        BY <4>1
    <3> QED
      BY <3>5, <3>6
  <2>3. UNCHANGED <<nicTx, tot_nb_tx>> \/ TxSend
    BY DEF TxWorker, TxThread, TxLaunch, TxLoop, TxSkip, TxFill, TxFinish, txNic,
           txLocal
  <2> QED
    BY <2>1, <2>2, <2>3
<1>5. Cardinality(wire) \in Nat /\ UnderWay \in Nat /\ Len(incoming) \in Nat
  BY TalliesAreNumbers DEF TallyInv, AnsweredOnce
<1>6. IsFiniteSet(wire)'
  BY <1>1 DEF TallyInv, AnsweredOnce
<1>7. AnsweredOnce'
  <2> DEFINE n == Len(nicTx)
             w == Cardinality(wire)
             i == Len(incoming)
  <2>1. n + w + UnderWay + i <= tot_nb_tx + foreign
    BY DEF TallyInv, AnsweredOnce
  <2>2. /\ n \in Nat /\ w \in Nat /\ i \in Nat
        /\ tot_nb_tx \in Nat /\ UnderWay \in Nat /\ foreign \in Nat
    BY <1>3, <1>5 DEF TallyInv, StraysBounded
  <2>3. w' = w /\ i' = i /\ UnderWay' = UnderWay /\ foreign' = foreign
    BY <1>1, <1>2
  <2> PICK k \in Nat : n' = n + k /\ tot_nb_tx' = tot_nb_tx + k
    BY <1>4
  <2> HIDE DEF n, w, i
  <2>4. n' + w' + UnderWay' + i' <= tot_nb_tx' + foreign'
    BY <2>1, <2>2, <2>3
  <2> QED
    BY <1>6, <2>4 DEF AnsweredOnce, n, w, i
<1>8. FramesCounted'
  <2>1. tot_nb_rx' = tot_nb_rx /\ nicRx' = nicRx /\ strays' = strays /\ incoming' = incoming
    BY <1>1
  <2> QED
    BY <1>2, <2>1, Zenon DEF TallyInv, FramesCounted
<1> QED
  BY <1>7, <1>8

LEMMA TransmitTally ==
  ASSUME HalvesInv, TallyInv, Transmit
  PROVE  AnsweredOnce' /\ FramesCounted'
<1>1. /\ nicTx # <<>> /\ nicTx' = Tail(nicTx)
      /\ wire' = wire \cup {Head(nicTx)}
      /\ UNCHANGED <<tot_nb_tx, nicRx, rxPkts, rx_ring, ringPkts, incoming,
                     tot_nb_rx, strays, foreign>>
  BY DEF Transmit, NicTransmit, txLocal, rxOwn, rxLcore, ringLcore
<1>2. UnderWay' = UnderWay
  BY <1>1 DEF UnderWay
<1>3. /\ IsFiniteSet(wire) /\ nicTx \in Seq([req : Requests, send : Nat])
      /\ Len(nicTx) \in Nat /\ tot_nb_tx \in Nat /\ UnderWay \in Nat
      /\ Len(incoming) \in Nat /\ Cardinality(wire) \in Nat
  BY TalliesAreNumbers DEF TallyInv, AnsweredOnce
<1>4. Len(nicTx) = Len(nicTx') + 1 /\ Len(nicTx') \in Nat
  BY <1>1, <1>3, HeadTailProperties, EmptySeq
<1>5. /\ IsFiniteSet(wire') /\ Cardinality(wire') \in Nat
      /\ Cardinality(wire') <= Cardinality(wire) + 1
  <2> DEFINE h == Head(nicTx)
  <2>1. wire' = wire \cup {h}
    BY <1>1
  <2> HIDE DEF h
  <2>2. /\ IsFiniteSet(wire \cup {h})
        /\ \/ Cardinality(wire \cup {h}) = Cardinality(wire) + 1
           \/ Cardinality(wire \cup {h}) = Cardinality(wire)
    BY <1>3, FS_AddElement
  <2>3. /\ IsFiniteSet(wire')
        /\ \/ Cardinality(wire') = Cardinality(wire) + 1
           \/ Cardinality(wire') = Cardinality(wire)
    BY <2>1, <2>2, Zenon
  <2> QED
    BY <1>3, <2>3
<1>6. /\ tot_nb_tx' = tot_nb_tx /\ Len(incoming)' = Len(incoming)
      /\ Len(nicRx)' = Len(nicRx) /\ tot_nb_rx' = tot_nb_rx /\ strays' = strays
  BY <1>1
<1>7. AnsweredOnce'
  <2> DEFINE n == Len(nicTx)
             w == Cardinality(wire)
             i == Len(incoming)
  <2>1. n + w + UnderWay + i <= tot_nb_tx + foreign
    BY DEF TallyInv, AnsweredOnce
  <2>2. /\ n' \in Nat /\ w \in Nat /\ w' \in Nat /\ i \in Nat
        /\ tot_nb_tx \in Nat /\ UnderWay \in Nat /\ foreign \in Nat
    BY <1>3, <1>4, <1>5 DEF TallyInv, StraysBounded
  <2>3. /\ i' = i /\ UnderWay' = UnderWay /\ tot_nb_tx' = tot_nb_tx
        /\ foreign' = foreign
    BY <1>1, <1>2, <1>6
  <2>4. n = n' + 1 /\ w' <= w + 1
    BY <1>4, <1>5
  <2> HIDE DEF n, w, i
  <2>5. PICK n2, w2 : n2 = n' /\ w2 = w'
    OBVIOUS
  <2>6. /\ n2 \in Nat /\ w2 \in Nat
        /\ n = n2 + 1 /\ w2 <= w + 1
    BY <2>2, <2>4, <2>5, Zenon
  <2>7. n2 + w2 + UnderWay + i <= tot_nb_tx + foreign
    BY <2>1, <2>2, <2>6
  <2>8. n' + w' + UnderWay' + i' <= tot_nb_tx' + foreign'
    BY <2>3, <2>5, <2>7, Zenon
  <2> QED
    BY <1>5, <2>8 DEF AnsweredOnce, n, w, i
<1>8. FramesCounted'
  <2>1. UNCHANGED <<tot_nb_rx, nicRx, strays, incoming>>
    BY <1>1
  <2> QED
    BY <1>2, <2>1, Zenon DEF TallyInv, FramesCounted
<1> QED
  BY <1>7, <1>8

LEMMA AnswerTally ==
  ASSUME HalvesInv, TallyInv, NEW w \in wire, Answer(w)
  PROVE  AnsweredOnce' /\ FramesCounted'
<1> DEFINE p == [kind |-> "answer", send |-> w.send]
<1>1. /\ nicRx' = Append(nicRx, p) /\ wire' = wire \ {w}
      /\ UNCHANGED <<nicTx, tot_nb_tx, rxPkts, rx_ring, ringPkts, incoming,
                     tot_nb_rx, strays, foreign>>
  BY DEF Answer, Arrive, txOwn, txLocal, txNic, rxLcore, ringLcore
<1>2. p \in Packets /\ Recorded(p) /\ foreign \in Nat
  BY DEF Packets, Kinds, Recorded, HalvesInv, WireInPast, TallyInv, StraysBounded
<1>3. /\ IsFiniteSet(wire) /\ nicRx \in Seq(Packets)
      /\ Len(nicTx) \in Nat /\ tot_nb_tx \in Nat /\ Len(nicRx) \in Nat
      /\ Len(incoming) \in Nat /\ Cardinality(wire) \in Nat /\ tot_nb_rx \in Nat
      /\ NumRecorded(nicRx) \in Nat /\ NumRecorded(rxPkts) \in Nat
      /\ NumRecorded(rx_ring) \in Nat /\ NumRecorded(ringPkts) \in Nat
  BY TalliesAreNumbers DEF TallyInv, AnsweredOnce, HalvesInv, RxInv, RxTypeOK
<1> HIDE DEF p
<1>4. Len(nicRx') = Len(nicRx) + 1 /\ NumRecorded(nicRx') = NumRecorded(nicRx) + 1
  <2>1. Len(nicRx') = Len(nicRx) + 1
    BY <1>1, <1>2, <1>3, AppendProperties
  <2>2. NumRecorded(nicRx') = NumRecorded(nicRx) + (IF Recorded(p) THEN 1 ELSE 0)
    BY <1>1, <1>2, <1>3, NumRecordedAppend
  <2> QED
    BY <1>2, <2>1, <2>2
<1>5. /\ Len(nicTx)' = Len(nicTx) /\ tot_nb_tx' = tot_nb_tx
      /\ Len(incoming)' = Len(incoming) /\ tot_nb_rx' = tot_nb_rx /\ strays' = strays
  BY <1>1
<1>6. UnderWay' = UnderWay + 1 /\ UnderWay \in Nat
  <2> DEFINE a == NumRecorded(nicRx)
             b == NumRecorded(rxPkts)
             c == NumRecorded(rx_ring)
             d == NumRecorded(ringPkts)
  <2>1. UNCHANGED <<rxPkts, rx_ring, ringPkts>>
    BY <1>1
  <2>2. a' = a + 1 /\ b' = b /\ c' = c /\ d' = d
    BY <1>4, <2>1
  <2>3. UnderWay' = a' + b' + c' + d' /\ UnderWay = a + b + c + d
    BY DEF UnderWay
  <2>4. a \in Nat /\ b \in Nat /\ c \in Nat /\ d \in Nat
    BY <1>3
  <2> HIDE DEF a, b, c, d
  <2> QED
    BY <2>2, <2>3, <2>4
<1>7. /\ IsFiniteSet(wire') /\ Cardinality(wire') \in Nat
      /\ Cardinality(wire) = Cardinality(wire') + 1
  <2> DEFINE left == wire \ {w}
  <2>1. /\ IsFiniteSet(left) /\ Cardinality(left) = Cardinality(wire) - 1
        /\ Cardinality(left) \in Nat
    BY <1>3, FS_RemoveElement, FS_CardinalityType
  <2>2. wire' = left
    BY <1>1
  <2> HIDE DEF left
  <2>3. Cardinality(wire) = Cardinality(left) + 1
    BY <1>3, <2>1
  <2> QED
    BY <2>1, <2>2, <2>3, Zenon
<1> DEFINE n == Len(nicTx)
           x == Len(nicRx)
           i == Len(incoming)
           c == Cardinality(wire)
<1>8. /\ n \in Nat /\ x \in Nat /\ i \in Nat /\ c' \in Nat /\ tot_nb_tx \in Nat
      /\ tot_nb_rx \in Nat /\ UnderWay \in Nat /\ strays \in Nat
  BY <1>3, <1>6, <1>7 DEF TallyInv, StraysBounded
<1>9. /\ n' = n /\ tot_nb_tx' = tot_nb_tx /\ i' = i /\ tot_nb_rx' = tot_nb_rx
      /\ strays' = strays /\ UnderWay' = UnderWay + 1 /\ c = c' + 1 /\ x' = x + 1
  BY <1>4, <1>5, <1>6, <1>7
<1>10. AnsweredOnce'
  <2>1. n + c + UnderWay + i <= tot_nb_tx + foreign /\ foreign' = foreign
    BY <1>1 DEF TallyInv, AnsweredOnce
  <2> HIDE DEF n, x, i, c
  <2>2. PICK c2 : c2 = c'
    OBVIOUS
  <2>3. c2 \in Nat /\ c = c2 + 1
    BY <1>8, <1>9, <2>2, Zenon
  <2>4. n + c2 + (UnderWay + 1) + i <= tot_nb_tx + foreign
    BY <1>2, <1>8, <2>1, <2>3
  <2>5. n' + c' + UnderWay' + i' <= tot_nb_tx' + foreign'
    BY <1>9, <2>1, <2>2, <2>4, Zenon
  <2> QED
    BY <1>7, <2>5 DEF AnsweredOnce, n, c, i
<1>11. FramesCounted'
  <2>1. tot_nb_rx + x = strays + UnderWay + i
    BY DEF TallyInv, FramesCounted
  <2> HIDE DEF n, x, i, c
  <2>2. tot_nb_rx' + x' = strays' + UnderWay' + i'
    BY <1>8, <1>9, <2>1
  <2> QED
    BY <2>2 DEF FramesCounted, x, i
<1> QED
  BY <1>10, <1>11

LEMMA StrayTally ==
  ASSUME HalvesInv, TallyInv, Stray
  PROVE  AnsweredOnce' /\ FramesCounted'
<1> DEFINE p == [kind |-> "other", send |-> 0]
<1>1. /\ nicRx' = Append(nicRx, p) /\ strays' = strays + 1
      /\ UNCHANGED <<nicTx, tot_nb_tx, wire, rxPkts, rx_ring, ringPkts, incoming,
                     tot_nb_rx, foreign>>
  BY DEF Stray, Arrive, txOwn, txLocal, txNic, rxLcore, ringLcore
<1>2. p \in Packets /\ ~Recorded(p)
  BY DEF Packets, Kinds, Recorded
<1>3. /\ nicRx \in Seq(Packets) /\ Len(nicRx) \in Nat
      /\ Len(incoming) \in Nat /\ tot_nb_rx \in Nat
      /\ NumRecorded(nicRx) \in Nat /\ NumRecorded(rxPkts) \in Nat
      /\ NumRecorded(rx_ring) \in Nat /\ NumRecorded(ringPkts) \in Nat
      /\ strays \in Nat
  BY TalliesAreNumbers
  DEF TallyInv, AnsweredOnce, StraysBounded, HalvesInv, RxInv, RxTypeOK
<1> HIDE DEF p
<1>4. Len(nicRx') = Len(nicRx) + 1 /\ NumRecorded(nicRx') = NumRecorded(nicRx)
  <2>1. Len(nicRx') = Len(nicRx) + 1
    BY <1>1, <1>2, <1>3, AppendProperties
  <2>2. NumRecorded(nicRx') = NumRecorded(nicRx) + (IF Recorded(p) THEN 1 ELSE 0)
    BY <1>1, <1>2, <1>3, NumRecordedAppend
  <2> QED
    BY <1>2, <1>3, <2>1, <2>2
<1>5. UnderWay' = UnderWay /\ UnderWay \in Nat
  BY <1>1, <1>3, <1>4 DEF UnderWay
<1>6. AnsweredOnce'
  <2>1. UNCHANGED <<nicTx, tot_nb_tx, wire, incoming, foreign>>
    BY <1>1
  <2> QED
    BY <1>5, <2>1 DEF TallyInv, AnsweredOnce
<1>7. FramesCounted'
  <2>1. tot_nb_rx' = tot_nb_rx /\ incoming' = incoming /\ strays' = strays + 1
    BY <1>1
  <2> QED
    BY <1>3, <1>4, <1>5, <2>1 DEF TallyInv, FramesCounted
<1> QED
  BY <1>6, <1>7

(* A foreign frame is for the array like an answer, and is not one.           *)
LEMMA ForeignTally ==
  ASSUME HalvesInv, TallyInv, NEW t \in ForeignTimes, Foreign(t)
  PROVE  AnsweredOnce' /\ FramesCounted'
<1> DEFINE p == [kind |-> "foreign", send |-> t]
<1>1. /\ nicRx' = Append(nicRx, p) /\ foreign' = foreign + 1
      /\ UNCHANGED <<nicTx, tot_nb_tx, wire, rxPkts, rx_ring, ringPkts, incoming,
                     tot_nb_rx, strays>>
  BY DEF Foreign, Arrive, txOwn, txLocal, txNic, rxLcore, ringLcore
<1>2. p \in Packets /\ Recorded(p)
  BY RxAssumption DEF Packets, Kinds, Recorded
<1>3. /\ nicRx \in Seq(Packets) /\ Len(nicRx) \in Nat
      /\ Len(nicTx) \in Nat /\ tot_nb_tx \in Nat /\ Cardinality(wire) \in Nat
      /\ Len(incoming) \in Nat /\ tot_nb_rx \in Nat
      /\ NumRecorded(nicRx) \in Nat /\ NumRecorded(rxPkts) \in Nat
      /\ NumRecorded(rx_ring) \in Nat /\ NumRecorded(ringPkts) \in Nat
      /\ strays \in Nat /\ foreign \in Nat
  BY TalliesAreNumbers
  DEF TallyInv, AnsweredOnce, StraysBounded, HalvesInv, RxInv, RxTypeOK
<1> HIDE DEF p
<1>4. Len(nicRx') = Len(nicRx) + 1 /\ NumRecorded(nicRx') = NumRecorded(nicRx) + 1
  <2>1. Len(nicRx') = Len(nicRx) + 1
    BY <1>1, <1>2, <1>3, AppendProperties
  <2>2. NumRecorded(nicRx') = NumRecorded(nicRx) + (IF Recorded(p) THEN 1 ELSE 0)
    BY <1>1, <1>2, <1>3, NumRecordedAppend
  <2> QED
    BY <1>2, <2>1, <2>2
<1>5. UnderWay' = UnderWay + 1 /\ UnderWay \in Nat
  <2> DEFINE a == NumRecorded(nicRx)
             b == NumRecorded(rxPkts)
             c == NumRecorded(rx_ring)
             d == NumRecorded(ringPkts)
  <2>1. UNCHANGED <<rxPkts, rx_ring, ringPkts>>
    BY <1>1
  <2>2. a' = a + 1 /\ b' = b /\ c' = c /\ d' = d
    BY <1>4, <2>1
  <2>3. UnderWay' = a' + b' + c' + d' /\ UnderWay = a + b + c + d
    BY DEF UnderWay
  <2>4. a \in Nat /\ b \in Nat /\ c \in Nat /\ d \in Nat
    BY <1>3
  <2> HIDE DEF a, b, c, d
  <2> QED
    BY <2>2, <2>3, <2>4
<1> DEFINE n == Len(nicTx)
           x == Len(nicRx)
           i == Len(incoming)
           w == Cardinality(wire)
<1>6. /\ n \in Nat /\ x \in Nat /\ i \in Nat /\ w \in Nat /\ tot_nb_tx \in Nat
      /\ tot_nb_rx \in Nat /\ UnderWay \in Nat
  BY <1>3, <1>5
<1>7. /\ n' = n /\ w' = w /\ i' = i /\ tot_nb_tx' = tot_nb_tx /\ x' = x + 1
      /\ tot_nb_rx' = tot_nb_rx /\ strays' = strays
  BY <1>1, <1>4
<1>8. AnsweredOnce'
  <2>1. n + w + UnderWay + i <= tot_nb_tx + foreign /\ IsFiniteSet(wire)'
    BY <1>1 DEF TallyInv, AnsweredOnce
  <2> HIDE DEF n, x, i, w
  <2>2. n + w + (UnderWay + 1) + i <= tot_nb_tx + (foreign + 1)
    BY <1>3, <1>6, <2>1
  <2>3. n' + w' + UnderWay' + i' <= tot_nb_tx' + foreign'
    BY <1>1, <1>5, <1>7, <2>2, Zenon
  <2> QED
    BY <2>1, <2>3 DEF AnsweredOnce, n, w, i
<1>9. FramesCounted'
  <2>1. tot_nb_rx + x = strays + UnderWay + i
    BY DEF TallyInv, FramesCounted
  <2> HIDE DEF n, x, i, w
  <2>2. tot_nb_rx' + x' = strays' + UnderWay' + i'
    BY <1>3, <1>5, <1>6, <1>7, <2>1
  <2> QED
    BY <2>2 DEF FramesCounted, x, i
<1> QED
  BY <1>8, <1>9

LEMMA PollTally ==
  ASSUME HalvesInv, TallyInv, RxPoll, UNCHANGED <<txOwn, netOwn>>
  PROVE  AnsweredOnce' /\ FramesCounted'
<1>1. PICK k \in 0 .. SmallerOf(BURST_SIZE, SmallerOf(Len(nicRx), poolRx)) :
        /\ rxPkts' = First(nicRx, k) /\ nicRx' = Without(nicRx, k)
        /\ tot_nb_rx' = tot_nb_rx + k
  BY DEF RxPoll
<1>2. UNCHANGED <<nicTx, tot_nb_tx, wire, rx_ring, ringPkts, incoming, strays, foreign>>
  BY DEF RxPoll, txOwn, txLocal, txNic, netOwn, ringLcore
<1>3. /\ nicRx \in Seq(Packets) /\ Len(nicRx) \in Nat
      /\ Len(incoming) \in Nat /\ tot_nb_rx \in Nat
      /\ NumRecorded(nicRx) \in Nat
      /\ NumRecorded(rx_ring) \in Nat /\ NumRecorded(ringPkts) \in Nat
      /\ strays \in Nat
  BY TalliesAreNumbers
  DEF TallyInv, AnsweredOnce, StraysBounded, HalvesInv, RxInv, RxTypeOK
<1>4. rxPkts = <<>> /\ NumRecorded(rxPkts) = 0
  <2>1. rxPkts = <<>>
    BY DEF RxPoll, HalvesInv, RxInv, CountInv, BurstHeld
  <2> QED
    BY <2>1, NoneInEmpty
<1>5. k \in 0 .. Len(nicRx)
  <2>1. poolRx \in Nat /\ BURST_SIZE \in Nat
    BY RxAssumption DEF HalvesInv, RxInv, RxTypeOK
  <2> QED
    BY <2>1, <1>3 DEF SmallerOf
<1>6. /\ rxPkts' \in Seq(Packets) /\ nicRx' \in Seq(Packets)
      /\ Len(nicRx') = Len(nicRx) - k
      /\ NumRecorded(rxPkts') + NumRecorded(nicRx') = NumRecorded(nicRx)
  BY <1>1, <1>3, <1>5, FirstProps, WithoutProps, NumRecordedSplit
<1>7. NumRecorded(rxPkts') \in Nat /\ NumRecorded(nicRx') \in Nat
  BY <1>6, NumRecordedType
<1>8. UnderWay' = UnderWay
  BY <1>2, <1>3, <1>4, <1>6, <1>7 DEF UnderWay
<1>9. AnsweredOnce'
  BY <1>2, <1>8 DEF TallyInv, AnsweredOnce
<1>10. FramesCounted'
  BY <1>1, <1>2, <1>3, <1>5, <1>6, <1>8 DEF TallyInv, FramesCounted
<1> QED
  BY <1>9, <1>10

(* The burst goes into the ring whole: the ring has room for it.              *)
LEMMA ForwardTally ==
  ASSUME HalvesInv, TallyInv, RxForward, UNCHANGED <<txOwn, netOwn>>
  PROVE  AnsweredOnce' /\ FramesCounted'
<1> DEFINE k == SmallerOf(Len(rxPkts), RingFree)
           b == StampAll(First(rxPkts, k))
<1>1. UNCHANGED <<nicTx, tot_nb_tx, wire, nicRx, ringPkts, incoming, tot_nb_rx,
                  strays, foreign>>
  BY DEF RxForward, txOwn, txLocal, txNic, netOwn, ringLcore
<1>2. /\ rxPkts \in Seq(Packets) /\ rx_ring \in Seq(Stamped)
      /\ Len(rxPkts) \in Nat /\ clock \in Nat
  BY RxSequences DEF HalvesInv, RxInv, RxTypeOK, EalTypeOK
<1>3. k = Len(rxPkts)
  <2>1. Len(rxPkts) <= RingFree /\ RingFree \in Int
    BY RoomFromConservation DEF HalvesInv, RxInv, CountInv
  <2> QED
    BY <2>1, <1>2 DEF SmallerOf
<1>4. rx_ring' = rx_ring \o b /\ rxPkts' = Without(rxPkts, k)
  BY DEF RxForward
<1> HIDE DEF k
<1>5. k \in 0 .. Len(rxPkts)
  BY <1>2, <1>3
<1>6. /\ First(rxPkts, k) \in Seq(Packets)
      /\ Without(rxPkts, k) \in Seq(Packets)
      /\ NumRecorded(First(rxPkts, k)) + NumRecorded(Without(rxPkts, k))
           = NumRecorded(rxPkts)
  BY <1>2, <1>5, FirstProps, WithoutProps, NumRecordedSplit
<1>7. /\ b \in Seq(Stamped)
      /\ NumRecorded(b) = NumRecorded(First(rxPkts, k))
  BY <1>2, <1>6, StampProps, NumRecordedStamped
<1> HIDE DEF b
<1>8. NumRecorded(rx_ring \o b) = NumRecorded(rx_ring) + NumRecorded(b)
  BY <1>2, <1>7, NumRecordedConcat
<1>9. /\ NumRecorded(rx_ring)' = NumRecorded(rx_ring) + NumRecorded(b)
      /\ NumRecorded(rxPkts)' = NumRecorded(Without(rxPkts, k))
      /\ NumRecorded(nicRx)' = NumRecorded(nicRx)
      /\ NumRecorded(ringPkts)' = NumRecorded(ringPkts)
  BY <1>1, <1>4, <1>8, Zenon
<1>10. UnderWay' = UnderWay
  <2>1. /\ NumRecorded(nicRx) \in Nat /\ NumRecorded(rxPkts) \in Nat
        /\ NumRecorded(rx_ring) \in Nat /\ NumRecorded(ringPkts) \in Nat
    BY TalliesAreNumbers DEF TallyInv, AnsweredOnce
  <2>2. /\ NumRecorded(First(rxPkts, k)) \in Nat
        /\ NumRecorded(Without(rxPkts, k)) \in Nat
    BY <1>6, NumRecordedType
  <2>3. /\ NumRecorded(b) \in Nat
        /\ NumRecorded(b) + NumRecorded(Without(rxPkts, k)) = NumRecorded(rxPkts)
    BY <1>6, <1>7, <2>2
  <2> QED
    BY <1>9, <2>1, <2>2, <2>3 DEF UnderWay
<1> QED
  BY <1>1, <1>10 DEF TallyInv, AnsweredOnce, FramesCounted

LEMMA RingLaunchTally ==
  ASSUME TallyInv, RingLaunch, UNCHANGED <<txOwn, netOwn>>
  PROVE  AnsweredOnce' /\ FramesCounted'
<1>1. incoming' = incoming
  BY DEF RingLaunch, TallyInv, UnstartedIdle
<1>2. UNCHANGED <<nicTx, tot_nb_tx, wire, nicRx, rxPkts, rx_ring, ringPkts,
                  tot_nb_rx, strays, foreign>>
  BY DEF RingLaunch, txOwn, txLocal, txNic, netOwn, rxLcore
<1> QED
  BY <1>1, <1>2 DEF TallyInv, AnsweredOnce, FramesCounted, UnderWay

LEMMA DequeueTally ==
  ASSUME HalvesInv, TallyInv, RingDequeue, UNCHANGED <<txOwn, netOwn>>
  PROVE  AnsweredOnce' /\ FramesCounted'
<1> DEFINE k == SmallerOf(BURST_SIZE, Len(rx_ring))
<1>1. UNCHANGED <<nicTx, tot_nb_tx, wire, nicRx, rxPkts, incoming, tot_nb_rx,
                  strays, foreign>>
  BY DEF RingDequeue, txOwn, txLocal, txNic, netOwn, rxLcore
<1>2. /\ ringPkts' = First(rx_ring, k) /\ rx_ring' = Without(rx_ring, k)
      /\ ringPkts = <<>>
  BY DEF RingDequeue
<1>3. rx_ring \in Seq(Stamped) /\ k \in 0 .. Len(rx_ring)
  <2>1. rx_ring \in Seq(Stamped) /\ Len(rx_ring) \in Nat /\ BURST_SIZE \in Nat
    BY RxSequences, RxAssumption DEF HalvesInv, RxInv
  <2> QED
    BY <2>1 DEF SmallerOf
<1> HIDE DEF k
<1>4. /\ First(rx_ring, k) \in Seq(Stamped)
      /\ Without(rx_ring, k) \in Seq(Stamped)
      /\ NumRecorded(First(rx_ring, k)) + NumRecorded(Without(rx_ring, k))
           = NumRecorded(rx_ring)
  BY <1>3, FirstProps, WithoutProps, NumRecordedSplit
<1>5. /\ NumRecorded(ringPkts)' = NumRecorded(First(rx_ring, k))
      /\ NumRecorded(rx_ring)' = NumRecorded(Without(rx_ring, k))
      /\ NumRecorded(nicRx)' = NumRecorded(nicRx)
      /\ NumRecorded(rxPkts)' = NumRecorded(rxPkts)
      /\ NumRecorded(ringPkts) = 0
  <2>1. NumRecorded(ringPkts) = 0
    BY <1>2, NoneInEmpty, Zenon
  <2> QED
    BY <1>1, <1>2, <2>1, Zenon
<1>6. UnderWay' = UnderWay
  <2>1. /\ NumRecorded(nicRx) \in Nat /\ NumRecorded(rxPkts) \in Nat
        /\ NumRecorded(rx_ring) \in Nat
    BY TalliesAreNumbers DEF TallyInv, AnsweredOnce
  <2>2. /\ NumRecorded(First(rx_ring, k)) \in Nat
        /\ NumRecorded(Without(rx_ring, k)) \in Nat
    BY <1>4, NumRecordedType
  <2> QED
    BY <1>4, <1>5, <2>1, <2>2 DEF UnderWay
<1> QED
  BY <1>1, <1>6 DEF TallyInv, AnsweredOnce, FramesCounted

(* An answer that leaves the burst is in the array, any other frame is freed. *)
LEMMA ProcessTally ==
  ASSUME HalvesInv, TallyInv, RingRecords, UNCHANGED <<txOwn, netOwn>>
  PROVE  AnsweredOnce' /\ FramesCounted'
<1> DEFINE p == Head(ringPkts)
<1>1. UNCHANGED <<nicTx, tot_nb_tx, wire, nicRx, rxPkts, rx_ring, tot_nb_rx,
                  strays, foreign>>
  BY DEF RingRecords, txOwn, txLocal, txNic, netOwn, rxLcore
<1>2. /\ ringPkts # <<>> /\ ringPkts' = Tail(ringPkts)
      /\ incoming' = IF Recorded(p) THEN Append(incoming, NodeOf(p)) ELSE incoming
  BY DEF RingRecords
<1>3. /\ ringPkts \in Seq(Stamped) /\ incoming \in Seq(Nodes)
      /\ Len(incoming) \in Nat
  BY RxSequences DEF HalvesInv, RxInv
<1>4. p \in Stamped /\ Tail(ringPkts) \in Seq(Stamped)
  BY <1>2, <1>3, HeadTailProperties, EmptySeq
<1> DEFINE n == IF Recorded(p) THEN 1 ELSE 0
<1>5. NumRecorded(ringPkts) = NumRecorded(Tail(ringPkts)) + n
  BY <1>2, <1>3, NumRecordedTail
<1>6. n \in Nat
  OBVIOUS
<1> HIDE DEF p
<1>7. Len(incoming') = Len(incoming) + n
  <2>1. NodeOf(p) \in Nodes
    BY <1>4 DEF NodeOf, Stamped, Nodes
  <2>2. Len(Append(incoming, NodeOf(p))) = Len(incoming) + 1
    BY <1>3, <2>1, AppendProperties
  <2>3. CASE Recorded(p)
    <3>1. incoming' = Append(incoming, NodeOf(p))
      BY <1>2, <2>3
    <3>2. Len(incoming') = Len(incoming) + 1
      BY <2>2, <3>1, Zenon
    <3> QED
      BY <2>3, <3>2
  <2>4. CASE ~Recorded(p)
    BY <1>2, <1>3, <2>4
  <2> QED
    BY <2>3, <2>4
<1> HIDE DEF n
<1>8. /\ NumRecorded(ringPkts)' = NumRecorded(Tail(ringPkts))
      /\ NumRecorded(rx_ring)' = NumRecorded(rx_ring)
      /\ NumRecorded(nicRx)' = NumRecorded(nicRx)
      /\ NumRecorded(rxPkts)' = NumRecorded(rxPkts)
  BY <1>1, <1>2, Zenon
<1>9. /\ NumRecorded(nicRx) \in Nat /\ NumRecorded(rxPkts) \in Nat
      /\ NumRecorded(rx_ring) \in Nat /\ NumRecorded(Tail(ringPkts)) \in Nat
      /\ Len(nicTx) \in Nat /\ Cardinality(wire) \in Nat /\ tot_nb_tx \in Nat
      /\ strays \in Nat /\ tot_nb_rx \in Nat /\ Len(nicRx) \in Nat
  <2>1. NumRecorded(Tail(ringPkts)) \in Nat
    BY <1>4, NumRecordedType
  <2> QED
    BY <2>1, TalliesAreNumbers DEF TallyInv, AnsweredOnce, StraysBounded
<1>10. UnderWay = UnderWay' + n /\ UnderWay' \in Nat
  <2> DEFINE a == NumRecorded(nicRx)
             b == NumRecorded(rxPkts)
             c == NumRecorded(rx_ring)
             d == NumRecorded(Tail(ringPkts))
  <2>1. a \in Nat /\ b \in Nat /\ c \in Nat /\ d \in Nat
    BY <1>9
  <2>2. UnderWay' = a + b + c + d
    BY <1>8 DEF UnderWay
  <2>3. UnderWay = a + b + c + (d + n)
    BY <1>5 DEF UnderWay
  <2> HIDE DEF a, b, c, d
  <2> QED
    BY <1>6, <2>1, <2>2, <2>3
<1> DEFINE t == Len(nicTx)
           x == Len(nicRx)
           i == Len(incoming)
           c == Cardinality(wire)
<1>11. /\ t \in Nat /\ x \in Nat /\ i \in Nat /\ c \in Nat /\ tot_nb_tx \in Nat
       /\ tot_nb_rx \in Nat /\ UnderWay' \in Nat /\ strays \in Nat
  BY <1>3, <1>9, <1>10
<1>12. /\ t' = t /\ tot_nb_tx' = tot_nb_tx /\ c' = c /\ x' = x /\ tot_nb_rx' = tot_nb_rx
       /\ strays' = strays
  BY <1>1
<1>13. UnderWay = UnderWay' + n /\ i' = i + n
  BY <1>7, <1>10
<1>14. PICK u : u = UnderWay'
  OBVIOUS
<1>15. u \in Nat /\ UnderWay = u + n
  BY <1>11, <1>13, <1>14, Zenon
<1>16. AnsweredOnce'
  <2>1. /\ IsFiniteSet(wire)' /\ foreign' = foreign /\ foreign \in Nat
        /\ t + c + UnderWay + i <= tot_nb_tx + foreign
    BY <1>1 DEF TallyInv, AnsweredOnce, StraysBounded
  <2> HIDE DEF t, x, i, c
  <2>2. t + c + u + (i + n) <= tot_nb_tx + foreign
    BY <1>6, <1>11, <1>15, <2>1
  <2>3. t' + c' + UnderWay' + i' <= tot_nb_tx' + foreign'
    BY <1>12, <1>13, <1>14, <2>1, <2>2, Zenon
  <2> QED
    BY <2>1, <2>3 DEF AnsweredOnce, t, c, i
<1>17. FramesCounted'
  <2>1. tot_nb_rx + x = strays + UnderWay + i
    BY DEF TallyInv, FramesCounted
  <2> HIDE DEF t, x, i, c
  <2>2. tot_nb_rx + x = strays + u + (i + n)
    BY <1>6, <1>11, <1>15, <2>1
  <2>3. tot_nb_rx' + x' = strays' + UnderWay' + i'
    BY <1>12, <1>13, <1>14, <2>2, Zenon
  <2> QED
    BY <2>3 DEF FramesCounted, x, i
<1> QED
  BY <1>16, <1>17

-----------------------------------------------------------------------------
LEMMA UnstartedStep ==
  RolesInv /\ UnstartedIdle /\ [GenNext]_genVars => UnstartedIdle'
<1> SUFFICES ASSUME RolesInv, UnstartedIdle, [GenNext]_genVars PROVE UnstartedIdle'
  OBVIOUS
<1>1. CASE UNCHANGED <<txPc, rxPc, ringPc, tot_nb_tx, tot_nb_rx, q_rx, incoming>>
  BY <1>1 DEF UnstartedIdle
<1>2. CASE Main
  BY <1>1, <1>2, MainIsProcessStep DEF txOwn, txLocal, rxOwn, rxLcore, ringLcore
<1>3. CASE TxWorker
  <2>1. UNCHANGED <<rxPc, ringPc, tot_nb_rx, q_rx, incoming>>
    BY <1>3 DEF TxWorker, rxOwn, rxLcore, ringLcore
  <2>2. txPc' # "idle"
    BY <1>3 DEF TxWorker, TxThread, TxLaunch, TxLoop, TxSkip, TxFill, TxSend, TxFinish
  <2> QED
    BY <2>1, <2>2 DEF UnstartedIdle
<1>4. CASE RxWorker
  <2>1. UNCHANGED <<txPc, ringPc, tot_nb_tx, incoming>>
    BY <1>4, RxThreadLeaves DEF RxWorker, txOwn, txLocal
  <2>2. rxPc' # "idle"
    BY <1>4 DEF RxWorker, RxThread, RxLaunch, RxLoop, RxPoll, RxForward, RxFinish
  <2> QED
    BY <2>1, <2>2 DEF UnstartedIdle
<1>5. CASE RingWorker
  <2>1. UNCHANGED <<txPc, rxPc, tot_nb_tx, tot_nb_rx, q_rx>>
    BY <1>5 DEF RingWorker, RingThread, RingLaunch, RingDequeue, RingProcess,
                RingQuit, RingDone, rxLcore, txOwn, txLocal
  <2>2. ringPc' # "idle"
    BY <1>5 DEF RolesInv, RingWorker, RingThread, RingLaunch, RingDequeue,
                RingProcess, RingQuit, RingDone
  <2> QED
    BY <2>1, <2>2 DEF UnstartedIdle
<1>6. CASE Transmit \/ FromOutside \/ Time \/ UNCHANGED genVars
  <2>1. tot_nb_tx' = tot_nb_tx
    BY <1>6 DEF FromOutside, Transmit, NicTransmit, Answer, Stray, Foreign, Time,
                genVars, txOwn, txLocal
  <2> QED
    BY <1>1, <1>6, <2>1, OutsideLeaves DEF rxLcore, ringLcore
<1> QED
  BY <1>2, <1>3, <1>4, <1>5, <1>6 DEF GenNext, FromOutside

LEMMA StraysStep ==
  ASSUME StraysBounded, [GenNext]_genVars
  PROVE  StraysBounded' /\ strays' >= strays /\ foreign' >= foreign
<1> USE DEF StraysBounded
<1>1. CASE Stray \/ (\E t \in ForeignTimes : Foreign(t))
  <2>1. \/ strays' = strays + 1 /\ foreign' = foreign
        \/ strays' = strays /\ foreign' = foreign + 1
    BY <1>1 DEF Stray, Foreign
  <2>2. strays + foreign < MaxStray
    BY <1>1 DEF Stray, Foreign
  <2>3. MaxStray \in Nat
    BY GeneratorAssumption
  <2> QED
    BY <2>1, <2>2, <2>3
<1>2. CASE UNCHANGED <<strays, foreign>>
  BY <1>2
<1>3. CASE Main
  BY <1>2, <1>3 DEF Main, MainLaunch, MainSleep, MainQuitTx, MainQuitRx, MainQuitRing,
                    MainJoin, MainPrint, MainReturn, netOwn
<1>4. CASE \/ TxWorker \/ RxWorker \/ RingWorker \/ Transmit \/ Time
           \/ (\E w \in wire : Answer(w)) \/ UNCHANGED genVars
  BY <1>2, <1>4 DEF genVars, TxWorker, RxWorker, RingWorker, Transmit, Answer, Time,
                    netOwn
<1> QED
  BY <1>1, <1>3, <1>4 DEF GenNext

(* A step that moves no packet.                                               *)
LEMMA TalliesStay ==
  ASSUME TallyInv, UNCHANGED tallied
  PROVE  AnsweredOnce' /\ FramesCounted'
<1>1. UNCHANGED <<UnderWay, nicTx, tot_nb_tx, wire, nicRx, incoming, tot_nb_rx,
                  strays, foreign>>
  BY DEF tallied, UnderWay
<1> QED
  BY <1>1 DEF TallyInv, AnsweredOnce, FramesCounted

LEMMA TallyStep ==
  ASSUME HalvesInv, RolesInv, TallyInv, [GenNext]_genVars
  PROVE  TallyInv'
<1>1. AnsweredOnce' /\ FramesCounted'
  <2>1. CASE Main
    <3>1. UNCHANGED <<txOwn, rxOwn, wire>>
      BY <2>1, MainIsProcessStep
    <3>2. UNCHANGED <<strays, foreign>>
      BY <2>1 DEF Main, MainLaunch, MainSleep, MainQuitTx, MainQuitRx, MainQuitRing,
                  MainJoin, MainPrint, MainReturn, netOwn
    <3>3. UNCHANGED tallied
      BY <3>1, <3>2 DEF tallied, txOwn, txLocal, txNic, rxOwn, rxLcore, ringLcore
    <3> QED
      BY <3>3, TalliesStay
  <2>2. CASE TxWorker
    BY <2>2, SendTally
  <2>3. CASE RxWorker
    <3>1. UNCHANGED <<txOwn, netOwn>>
      BY <2>3 DEF RxWorker
    <3>2. CASE RxPoll
      BY <3>1, <3>2, PollTally
    <3>3. CASE RxForward
      BY <3>1, <3>3, ForwardTally
    <3>4. CASE RxLaunch \/ RxLoop \/ RxFinish
      <4>1. UNCHANGED tallied
        BY <3>1, <3>4 DEF RxLaunch, RxLoop, RxFinish, tallied, txOwn, txLocal, txNic,
                          netOwn, ringLcore
      <4> QED
        BY <4>1, TalliesStay
    <3> QED
      BY <2>3, <3>2, <3>3, <3>4 DEF RxWorker, RxThread
  <2>4. CASE RingWorker
    <3>1. UNCHANGED <<txOwn, netOwn>>
      BY <2>4 DEF RingWorker
    <3>2. CASE RingLaunch
      BY <3>1, <3>2, RingLaunchTally
    <3>3. CASE RingDequeue
      BY <3>1, <3>3, DequeueTally
    <3>4. CASE RingProcess
      <4>1. CASE RingRecords
        BY <3>1, <4>1, ProcessTally
      <4>2. CASE UNCHANGED rxOwn
        <5>1. UNCHANGED tallied
          BY <3>1, <4>2 DEF tallied, txOwn, txLocal, txNic, netOwn, rxOwn, rxLcore,
                            ringLcore
        <5> QED
          BY <5>1, TalliesStay
      <4> QED
        BY <3>4, <4>1, <4>2, RingProcessCases
    <3>5. CASE RingQuit \/ RingDone
      <4>1. UNCHANGED tallied
        BY <3>1, <3>5 DEF RingQuit, RingDone, tallied, txOwn, txLocal, txNic, netOwn,
                          rxLcore
      <4> QED
        BY <4>1, TalliesStay
    <3> QED
      BY <2>4, <3>2, <3>3, <3>4, <3>5 DEF RingWorker, RingThread
  <2>5. CASE Transmit
    BY <2>5, TransmitTally
  <2>6. CASE \E w \in wire : Answer(w)
    BY <2>6, AnswerTally
  <2>7. CASE Stray \/ (\E t \in ForeignTimes : Foreign(t))
    BY <2>7, StrayTally, ForeignTally
  <2>8. CASE Time \/ UNCHANGED genVars
    <3>1. UNCHANGED tallied
      BY <2>8 DEF Time, genVars, tallied, txOwn, txLocal, txNic, netOwn, rxOwn,
                  rxLcore, ringLcore
    <3> QED
      BY <3>1, TalliesStay
  <2> QED
    BY <2>1, <2>2, <2>3, <2>4, <2>5, <2>6, <2>7, <2>8 DEF GenNext
<1>2. UnstartedIdle' /\ StraysBounded'
  BY UnstartedStep, StraysStep DEF TallyInv
<1> QED
  BY <1>1, <1>2 DEF TallyInv

LEMMA TallyInit == GenInit => TallyInv
<1> SUFFICES ASSUME GenInit PROVE TallyInv
  OBVIOUS
<1>1. /\ nicTx = <<>> /\ tot_nb_tx = 0 /\ wire = {} /\ nicRx = <<>> /\ rxPkts = <<>>
      /\ rx_ring = <<>> /\ ringPkts = <<>> /\ incoming = <<>> /\ tot_nb_rx = 0
      /\ strays = 0 /\ foreign = 0 /\ q_rx.tot_rx = 0
  BY DEF GenInit, TxInit, RxInit
<1>2. UnderWay = 0
  <2>1. /\ NumRecorded(nicRx) = 0 /\ NumRecorded(rxPkts) = 0
        /\ NumRecorded(rx_ring) = 0 /\ NumRecorded(ringPkts) = 0
    BY <1>1, NoneInEmpty, Zenon
  <2> QED
    BY <2>1 DEF UnderWay
<1>3. IsFiniteSet(wire) /\ Cardinality(wire) = 0
  BY <1>1, FS_EmptySet, Zenon
<1> QED
  BY <1>1, <1>2, <1>3, GeneratorAssumption
  DEF TallyInv, AnsweredOnce, FramesCounted, UnstartedIdle, StraysBounded

THEOREM TallyInvariant == GenSpec => []TallyInv
<1>1. HalvesInv /\ RolesInv /\ TallyInv /\ [GenNext]_genVars => TallyInv'
  BY TallyStep
<1> QED
  BY <1>1, TallyInit, HalvesInvariant, RolesInvariant, PTL DEF GenSpec

(* No recorded frame is lost between the NIC and incoming_array               *)
(* (main.c:62-188), and the index of the array, which main.c:87 does not      *)
(* test, is behind its end by no more than the frames recorded that are no    *)
(* first answer: there are no more answers than requests, and no more         *)
(* requests than nodes. Whatever the network brings, in any interleaving.     *)
THEOREM NoAnswerLostOrTooMany == GenSpec => []AnswersKept
<1>1. HalvesInv /\ TallyInv => AnswersKept
  <2> SUFFICES ASSUME HalvesInv, TallyInv PROVE AnswersKept
    OBVIOUS
  <2>1. /\ Len(nicTx) \in Nat /\ tot_nb_tx \in Nat /\ Cardinality(wire) \in Nat
        /\ Len(nicRx) \in Nat /\ tot_nb_rx \in Nat /\ Len(incoming) \in Nat
        /\ NumRecorded(nicRx) \in Nat /\ NumRecorded(rxPkts) \in Nat
        /\ NumRecorded(rx_ring) \in Nat /\ NumRecorded(ringPkts) \in Nat
        /\ UnderWay \in Nat
    BY TalliesAreNumbers DEF TallyInv, AnsweredOnce
  <2>2. /\ NumRecorded(nicRx) <= Len(nicRx) /\ NumRecorded(rxPkts) <= Len(rxPkts)
        /\ NumRecorded(rx_ring) <= Len(rx_ring)
        /\ NumRecorded(ringPkts) <= Len(ringPkts)
        /\ Len(rxPkts) \in Nat /\ Len(rx_ring) \in Nat /\ Len(ringPkts) \in Nat
    <3>1. RxTypeOK
      BY DEF HalvesInv, RxInv
    <3> QED
      BY <3>1, RxSequences, NumRecordedType
  <2>3. IncomingFits
    <3>1. /\ tot_nb_tx + nr_never_sent = txI /\ nr_never_sent \in Nat
          /\ txI \in 0 .. nr_elements
      BY DEF HalvesInv, TxInv, TxAccounting, TxTypeOK
    <3>2. tot_nb_tx <= IncomingSize
      BY <2>1, <3>1, TxAssumption, GeneratorAssumption
    <3>3. Len(incoming) <= tot_nb_tx + foreign /\ foreign \in Nat
      BY <2>1 DEF TallyInv, AnsweredOnce, StraysBounded
    <3> QED
      BY <2>1, <3>2, <3>3, RxAssumption DEF IncomingFits
  <2>4. NoAnswerLost
    <3>1. UnderWay <= Len(nicRx) + Len(rxPkts) + Len(rx_ring) + Len(ringPkts)
      BY <2>1, <2>2 DEF UnderWay
    <3>2. strays \in Nat /\ tot_nb_rx + Len(nicRx) = strays + UnderWay + Len(incoming)
      BY DEF TallyInv, FramesCounted, StraysBounded
    <3> QED
      BY <2>1, <2>2, <3>1, <3>2 DEF NoAnswerLost
  <2> QED
    BY <2>3, <2>4 DEF AnswersKept
<1> QED
  BY <1>1, HalvesInvariant, TallyInvariant, PTL

-----------------------------------------------------------------------------
(* A difference printed as a uint64_t: it is no larger than what it is of.    *)
LEMMA UnsignedDifference ==
  ASSUME NEW x \in Int
  PROVE  Unsigned(x) \in Nat /\ (x \in Nat => Unsigned(x) <= x)
  BY GeneratorAssumption DEF Unsigned

(* The rows of the output file (util.c:355-375).                              *)
LEMMA LatenciesPrinted ==
  ASSUME HalvesInv
  PROVE  /\ Latencies \in Seq(Rows) /\ Len(Latencies) <= Len(incoming)
         /\ \A k \in 1 .. Len(Latencies) :
              Latencies[k].own => Latencies[k].latency <= clock
<1>1. /\ incoming \in Seq(Nodes) /\ Len(incoming) \in Nat
      /\ Warmup \in 0 .. Len(incoming)
  BY RxSequences DEF HalvesInv, RxInv, Warmup
<1>2. clock \in Nat
  BY DEF HalvesInv, RxInv, RxTypeOK, EalTypeOK
<1>3. ASSUME NEW k \in 1 .. Len(incoming) - Warmup
      PROVE  /\ Latencies[k] \in Rows
             /\ Latencies[k].own => Latencies[k].latency <= clock
  <2> DEFINE e == incoming[Warmup + k]
             x == e.timestamp_rx - e.timestamp_tx
  <2>1. Warmup + k \in 1 .. Len(incoming)
    BY <1>1
  <2>2. e \in Nodes
    BY <1>1, <2>1, ElementOfSeq
  <2>3. (e.own => e.timestamp_tx <= e.timestamp_rx) /\ e.timestamp_rx <= clock
    BY <2>1 DEF HalvesInv, RxInv, QueueInv, NoNegativeLatency, LogBeforePending
  <2>4. Latencies[k] = [latency |-> Unsigned(x), own |-> e.own]
    BY DEF Latencies
  <2> HIDE DEF e
  <2>5. /\ x \in Int /\ e.own \in BOOLEAN
        /\ e.own => x \in Nat /\ x <= clock
    BY <1>2, <2>2, <2>3 DEF Nodes
  <2> HIDE DEF x
  <2>6. Unsigned(x) \in Nat /\ (x \in Nat => Unsigned(x) <= x)
    BY <2>5, UnsignedDifference
  <2>7. Latencies[k] \in Rows
    BY <2>4, <2>5, <2>6 DEF Rows
  <2>8. e.own => Unsigned(x) <= clock
    BY <1>2, <2>5, <2>6
  <2> QED
    BY <2>4, <2>7, <2>8
<1>4. Len(incoming) - Warmup \in Nat /\ Len(incoming) - Warmup <= Len(incoming)
  BY <1>1
<1>5. Latencies \in [1 .. Len(incoming) - Warmup -> Rows]
  <2>1. DOMAIN Latencies = 1 .. Len(incoming) - Warmup
    BY DEF Latencies
  <2>2. Latencies = [k \in DOMAIN Latencies |-> Latencies[k]]
    BY DEF Latencies
  <2> QED
    BY <1>3, <2>1, <2>2
<1>6. Latencies \in Seq(Rows)
  BY <1>4, <1>5, SeqDef
<1>7. Len(Latencies) = Len(incoming) - Warmup
  <2>1. DOMAIN Latencies = 1 .. Len(Latencies) /\ Len(Latencies) \in Nat
    BY <1>6, LenProperties
  <2> QED
    BY <1>4, <1>5, <2>1
<1> QED
  BY <1>3, <1>4, <1>6, <1>7

(* The totals, once the workers that ran are joined: what lcore_rx took was a *)
(* first answer, a foreign frame or a stray.                                  *)
LEMMA TotalsAgree ==
  ASSUME HalvesInv, TallyInv, RolesInv, Joined
  PROVE  /\ q_tx.tot_tx \in Nat /\ q_rx.tot_rx \in Nat
         /\ q_rx.tot_rx <= q_tx.tot_tx + strays + foreign
         /\ Len(incoming) <= q_rx.tot_rx
<1>1. q_tx.tot_tx \in Nat /\ q_rx.tot_rx \in Nat
  BY DEF HalvesInv, TxInv, TxTypeOK, RxInv, RxTypeOK
<1>2. /\ Len(nicTx) \in Nat /\ tot_nb_tx \in Nat /\ Cardinality(wire) \in Nat
      /\ Len(nicRx) \in Nat /\ tot_nb_rx \in Nat /\ Len(incoming) \in Nat
      /\ NumRecorded(nicRx) \in Nat /\ NumRecorded(rxPkts) \in Nat
      /\ UnderWay \in Nat
  BY TalliesAreNumbers DEF TallyInv, AnsweredOnce
<1>7. strays \in Nat /\ foreign \in Nat
  BY DEF TallyInv, StraysBounded
<1>3. tot_nb_rx <= tot_nb_tx + strays + foreign
  <2>1. Len(nicTx) + Cardinality(wire) + UnderWay + Len(incoming)
          <= tot_nb_tx + foreign
    BY DEF TallyInv, AnsweredOnce
  <2>2. tot_nb_rx + Len(nicRx) = strays + UnderWay + Len(incoming)
    BY DEF TallyInv, FramesCounted
  <2> QED
    BY <1>2, <1>7, <2>1, <2>2
<1>4. q_rx.tot_rx = tot_nb_rx
  BY DEF RolesInv, AllJoined, TallyInv, UnstartedIdle, HalvesInv, RxInv, CountInv,
         RxAccounting
<1>5. tot_nb_tx <= q_tx.tot_tx
  <2>1. CASE txPc = "done"
    BY <1>1, <2>1 DEF HalvesInv, TxInv, TxAccounting
  <2>2. CASE txPc = "idle"
    BY <1>1, <2>2 DEF TallyInv, UnstartedIdle
  <2> QED
    BY <2>1, <2>2 DEF RolesInv, AllJoined
<1>6. Len(incoming) <= tot_nb_rx
  <2>1. /\ Len(rxPkts) \in Nat /\ Len(rx_ring) \in Nat /\ Len(ringPkts) \in Nat
    BY RxSequences DEF HalvesInv, RxInv
  <2> QED
    BY <1>2, <2>1 DEF HalvesInv, RxInv, CountInv, RxAccounting
<1> QED
  BY <1>1, <1>2, <1>3, <1>4, <1>5, <1>6, <1>7

-----------------------------------------------------------------------------
(* What has been written.                                                     *)
ReportTyped ==
  report \in [rows : Seq(Rows), tot_tx : Nat, tot_rx : Nat, dropped : Nat]

ReportAddsUp ==
  Printed =>
    /\ report.tot_rx <= report.tot_tx + strays + foreign
    /\ strays + foreign = 0 =>
         /\ report.dropped <= report.tot_tx - report.tot_rx
         /\ Len(report.rows) <= report.tot_rx

ReportInv == ReportTyped /\ ReportAddsUp /\ LatenciesReal

(* The clock does not go back.                                                *)
LEMMA ClockAdvances ==
  ASSUME TxInv, TxInv', [GenNext]_genVars
  PROVE  clock \in Nat /\ clock' \in Nat /\ clock' >= clock
<1>1. clock \in Nat /\ clock' \in Nat
  BY DEF TxInv, TxTypeOK, EalTypeOK
<1>2. [TxNext]_txVars
  BY GenStepIsTxStep
<1>3. clock' = clock \/ clock' = clock + 1
  BY <1>2 DEF TxNext, TxThread, TxLaunch, TxLoop, TxSkip, TxFill, TxSend, TxFinish,
              NicTransmit, Tick, ProcessStep, txVars, ealVars
<1> QED
  BY <1>1, <1>3

LEMMA PrintKeepsReport ==
  ASSUME HalvesInv, TallyInv, RolesInv, ReportInv, MainPrint
  PROVE  ReportInv'
<1>1. UNCHANGED <<strays, foreign, clock>> /\ Joined
  BY DEF MainPrint, netOwn, Joined
<1>2. CASE report' = report /\ mainPc' = mainPc
  BY <1>1, <1>2 DEF ReportInv, ReportTyped, ReportAddsUp, LatenciesReal, Printed
<1>3. ASSUME report'.rows = Latencies
      PROVE  LatenciesReal'
  <2>1. \A k \in 1 .. Len(Latencies) : Latencies[k].own => Latencies[k].latency <= clock
    BY LatenciesPrinted
  <2>2. \A k \in 1 .. Len(report'.rows) :
          report'.rows[k].own => report'.rows[k].latency <= clock'
    BY <1>1, <1>3, <2>1, Zenon
  <2> QED
    BY <2>2, Zenon DEF LatenciesReal
<1>4. CASE /\ report' = [NoReport EXCEPT !.rows = Latencies]
           /\ mainPc' = mainPc
  <2>1. report' = [rows |-> Latencies, tot_tx |-> 0, tot_rx |-> 0, dropped |-> 0]
    BY <1>4 DEF NoReport
  <2>2. ReportTyped'
    BY <2>1, LatenciesPrinted DEF ReportTyped
  <2>3. LatenciesReal'
    BY <1>3, <2>1
  <2>4. ReportAddsUp'
    BY <1>4 DEF ReportAddsUp, Printed, MainPrint
  <2> QED
    BY <2>2, <2>3, <2>4 DEF ReportInv
<1>5. CASE report' = [rows |-> Latencies,
                      tot_tx |-> q_tx.tot_tx, tot_rx |-> q_rx.tot_rx,
                      dropped |-> Unsigned(q_tx.tot_tx - q_rx.tot_rx)]
  <2>1. /\ report'.rows = Latencies /\ report'.tot_tx = q_tx.tot_tx
        /\ report'.tot_rx = q_rx.tot_rx
        /\ report'.dropped = Unsigned(q_tx.tot_tx - q_rx.tot_rx)
    BY <1>5
  <2>2. q_tx.tot_tx \in Nat /\ q_rx.tot_rx \in Nat
    BY DEF HalvesInv, TxInv, TxTypeOK, RxInv, RxTypeOK
  <2>3. Unsigned(q_tx.tot_tx - q_rx.tot_rx) \in Nat
    BY <2>2, UnsignedDifference
  <2>4. ReportTyped'
    BY <1>5, <2>2, <2>3, LatenciesPrinted DEF ReportTyped
  <2>5. LatenciesReal'
    BY <1>3, <2>1
  <2>6. /\ q_rx.tot_rx <= q_tx.tot_tx + strays + foreign
        /\ Len(incoming) <= q_rx.tot_rx
    BY <1>1, TotalsAgree
  <2>7. report'.tot_rx <= report'.tot_tx + strays' + foreign'
    BY <1>1, <2>1, <2>6
  <2>8. ASSUME strays' + foreign' = 0
        PROVE  /\ report'.dropped <= report'.tot_tx - report'.tot_rx
               /\ Len(report'.rows) <= report'.tot_rx
    <3>1. q_rx.tot_rx <= q_tx.tot_tx
      <4>1. strays \in Nat /\ foreign \in Nat
        BY DEF TallyInv, StraysBounded
      <4>2. strays + foreign = 0
        BY <1>1, <2>8
      <4> QED
        BY <2>2, <2>6, <4>1, <4>2
    <3>2. q_tx.tot_tx - q_rx.tot_rx \in Nat
      BY <2>2, <3>1
    <3>3. Unsigned(q_tx.tot_tx - q_rx.tot_rx) <= q_tx.tot_tx - q_rx.tot_rx
      BY <3>2, UnsignedDifference
    <3>4. Len(report'.rows) <= Len(incoming) /\ Len(report'.rows) \in Nat
      <4>1. Len(Latencies) <= Len(incoming) /\ Len(Latencies) \in Nat
        BY LatenciesPrinted, LenProperties
      <4> QED
        BY <2>1, <4>1, Zenon
    <3>5. Len(incoming) \in Nat
      BY RxSequences DEF HalvesInv, RxInv
    <3> QED
      BY <2>1, <2>2, <2>6, <3>3, <3>4, <3>5
  <2>9. ReportAddsUp'
    BY <2>7, <2>8 DEF ReportAddsUp
  <2> QED
    BY <2>4, <2>5, <2>9 DEF ReportInv
<1> QED
  BY <1>2, <1>4, <1>5 DEF MainPrint

LEMMA ReportStep ==
  ASSUME HalvesInv, HalvesInv', TallyInv, TallyInv', RolesInv, ReportInv,
         [GenNext]_genVars
  PROVE  ReportInv'
<1>1. CASE MainPrint
  BY <1>1, PrintKeepsReport
<1>2. CASE report' = report /\ (Printed' => Printed)
  <2>1. clock \in Nat /\ clock' \in Nat /\ clock' >= clock
    BY ClockAdvances DEF HalvesInv
  <2>2. /\ strays \in Nat /\ foreign \in Nat /\ strays' \in Nat /\ foreign' \in Nat
        /\ strays' >= strays /\ foreign' >= foreign
    BY StraysStep DEF TallyInv, StraysBounded
  <2>3. ReportTyped'
    BY <1>2 DEF ReportInv, ReportTyped
  <2>4. ReportAddsUp'
    <3>1. PICK s, f, s1, f1 \in Nat :
            s = strays /\ f = foreign /\ s1 = strays' /\ f1 = foreign'
      BY <2>2
    <3>2. s <= s1 /\ f <= f1
      BY <2>2, <3>1
    <3>3. report.tot_rx \in Nat /\ report.tot_tx \in Nat
      BY DEF ReportInv, ReportTyped
    <3>4. ASSUME Printed', report.tot_rx <= report.tot_tx + s + f
          PROVE  report.tot_rx <= report.tot_tx + s1 + f1
      BY <3>2, <3>3, <3>4
    <3>5. s1 + f1 = 0 => s + f = 0
      BY <3>2
    <3> QED
      BY <1>2, <3>1, <3>4, <3>5 DEF ReportInv, ReportAddsUp
  <2>5. LatenciesReal'
    <3> SUFFICES ASSUME NEW k \in 1 .. Len(report.rows), report.rows[k].own
                 PROVE  report.rows[k].latency <= clock'
      BY <1>2 DEF LatenciesReal
    <3>1. report.rows \in Seq(Rows)
      BY DEF ReportInv, ReportTyped
    <3>2. report.rows[k] \in Rows /\ report.rows[k].latency <= clock
      BY <3>1, ElementOfSeq DEF ReportInv, LatenciesReal
    <3> QED
      BY <2>1, <3>2 DEF Rows
  <2> QED
    BY <2>3, <2>4, <2>5 DEF ReportInv
<1>3. MainPrint \/ (report' = report /\ (Printed' => Printed))
  BY DEF GenNext, Main, MainLaunch, MainSleep, MainQuitTx, MainQuitRx, MainQuitRing,
         MainJoin, MainReturn, TxWorker, RxWorker, RingWorker, Transmit, Answer,
         Stray, Foreign, Time, genVars, mainOwn, Printed
<1> QED
  BY <1>1, <1>2, <1>3

THEOREM ReportInvariant == GenSpec => []ReportInv
<1>1. GenInit => ReportInv
  <2> SUFFICES ASSUME GenInit PROVE ReportInv
    OBVIOUS
  <2>1. report = NoReport /\ <<>> \in Seq(Rows) /\ Len(<<>>) = 0
    BY EmptySeq DEF GenInit
  <2>2. ReportTyped /\ ReportAddsUp
    BY <2>1 DEF ReportTyped, ReportAddsUp, NoReport, Printed, GenInit
  <2>3. LatenciesReal
    BY <2>1 DEF LatenciesReal, NoReport
  <2> QED
    BY <2>2, <2>3 DEF ReportInv
<1>2. HalvesInv /\ HalvesInv' /\ TallyInv /\ TallyInv' /\ RolesInv /\ ReportInv
        /\ [GenNext]_genVars => ReportInv'
  BY ReportStep
<1> QED
  BY <1>1, <1>2, HalvesInvariant, TallyInvariant, RolesInvariant, PTL DEF GenSpec

(* What is printed is what has happened (util.c:315-385): the totals differ   *)
(* by no more than the frames that were no first answers, and when there were *)
(* none the dropped ones are requests that were sent and not answered in      *)
(* time, and no subtraction wraps. Whatever is recorded besides, the latency  *)
(* printed for an answer to this process is not longer than the run.          *)
THEOREM PrintsWhatHappened == GenSpec => []ReportHonest
<1>1. ReportInv /\ TallyInv => ReportHonest
  <2> SUFFICES ASSUME ReportInv, TallyInv PROVE ReportHonest
    OBVIOUS
  <2>1. DroppedIsHonest
    <3> SUFFICES ASSUME Printed
                 PROVE  /\ report.tot_rx <= report.tot_tx + strays + foreign
                        /\ strays + foreign = 0 =>
                             /\ report.dropped <= report.tot_tx
                             /\ Len(report.rows) + report.dropped <= report.tot_tx
      BY DEF DroppedIsHonest
    <3>1. /\ report.tot_rx \in Nat /\ report.tot_tx \in Nat
          /\ report.dropped \in Nat /\ Len(report.rows) \in Nat
      BY LenProperties DEF ReportInv, ReportTyped
    <3> QED
      BY <3>1 DEF ReportInv, ReportAddsUp
  <2> QED
    BY <2>1 DEF ReportHonest, ReportInv
<1> QED
  BY <1>1, ReportInvariant, TallyInvariant, PTL

-----------------------------------------------------------------------------
MainTyped ==
  /\ mainPc \in {"launch", "sleep", "quit_rx", "quit_ring", "wait", "print",
                 "stats", "end"}
  /\ sleepStart \in 0 .. clock

LEMMA MainTypedStep ==
  ASSUME HalvesInv, HalvesInv', MainTyped, [GenNext]_genVars
  PROVE  MainTyped'
<1>1. clock \in Nat /\ clock' \in Nat /\ clock' >= clock
  BY ClockAdvances DEF HalvesInv
<1>2. CASE UNCHANGED <<mainPc, sleepStart>>
  BY <1>1, <1>2 DEF MainTyped
<1>3. CASE MainSleep
  BY <1>1, <1>3 DEF MainSleep, MainTyped, ealVars
<1>4. CASE Main /\ ~MainSleep
  <2>1. sleepStart' = sleepStart
    BY <1>4 DEF Main, MainLaunch, MainQuitTx, MainQuitRx, MainQuitRing, MainJoin,
                MainPrint, MainReturn
  <2>2. mainPc' \in {"launch", "sleep", "quit_rx", "quit_ring", "wait", "print",
                     "stats", "end"}
    BY <1>4 DEF MainTyped, Main, MainLaunch, MainQuitTx, MainQuitRx, MainQuitRing,
                MainJoin, MainPrint, MainReturn
  <2> QED
    BY <1>1, <2>1, <2>2 DEF MainTyped
<1>5. UNCHANGED <<mainPc, sleepStart>> \/ Main
  BY DEF GenNext, TxWorker, RxWorker, RingWorker, Transmit, Answer, Stray, Foreign,
         Time, genVars, mainOwn
<1> QED
  BY <1>2, <1>3, <1>4, <1>5

(* Every variable of the process keeps its type.                              *)
THEOREM GeneratorTyped == GenSpec => []GenTypeOK
<1>1. GenInit => MainTyped
  BY DEF GenInit, EalInit, TxInit, MainTyped
<1>2. HalvesInv /\ HalvesInv' /\ MainTyped /\ [GenNext]_genVars => MainTyped'
  BY MainTypedStep
<1>3. HalvesInv /\ RolesInv /\ TallyInv /\ ReportInv /\ MainTyped => GenTypeOK
  BY DEF HalvesInv, TxInv, RxInv, WireInPast, RolesInv, TallyInv, ReportInv,
         ReportTyped, StraysBounded, MainTyped, GenTypeOK
<1> QED
  BY <1>1, <1>2, <1>3, HalvesInvariant, RolesInvariant, TallyInvariant,
     ReportInvariant, PTL DEF GenSpec
=============================================================================
