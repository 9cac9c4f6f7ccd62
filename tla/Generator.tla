----------------------------- MODULE Generator -----------------------------
(* The whole process: main launches the three worker lcores, sleeps, raises   *)
(* the quit flags, joins the lcores and prints (src/src/main.c:304-340,       *)
(* src/src/util.c:315-385), composed with TxPath and RxPath and with what is  *)
(* outside: the server, the network, and whoever else sends to the port.       *)
EXTENDS TxPath, RxPath

CONSTANTS
  NWorkers,        \* worker lcores the EAL has (the -l option)
  rate, duration,  \* -r and -t
  RemainingInS,    \* remaining_in_s of wait_timeout, 5 in the code
  UIntRange,       \* 2^32: values of the unsigned that rte_delay_us_sleep takes
  ULongRange,      \* 2^64: values of a uint64_t
  MaxStray,        \* bound of the model: frames that are no first answer
  MaxLaunchClock   \* bound of the model: by then all lcores have started

ASSUME GeneratorAssumption ==
  /\ NWorkers \in Nat \ {0}
  /\ rate \in Nat /\ duration \in Nat /\ nr_elements = rate * duration
  /\ RemainingInS \in Nat
  /\ UIntRange \in Nat \ {0} /\ ULongRange \in Nat \ {0}
  /\ MaxStray \in Nat /\ MaxLaunchClock \in Nat
  /\ IncomingSize = rate * duration
  /\ MaxRx >= nr_elements + MaxStray

VARIABLES
  mainPc,      \* where main is
  launched,    \* calls of rte_eal_remote_launch made
  sleepStart,  \* when wait_timeout was entered
  wire,        \* requests sent and not answered yet
  strays,      \* frames that came and are not recorded
  foreign,     \* frames that came and are recorded, but are no first answer
  report       \* what print_stats_output has written

mainOwn == <<mainPc, launched, sleepStart, report>>
netOwn  == <<wire, strays, foreign>>
genVars == <<ealVars, txOwn, rxOwn, mainOwn, netOwn>>

(* A line of the output file; `own` is the history mark of its node.          *)
Rows == [latency : Nat, own : BOOLEAN]

NoReport == [rows |-> <<>>, tot_tx |-> 0, tot_rx |-> 0, dropped |-> 0]

GenTypeOK ==
  /\ TxTypeOK /\ RxTypeOK
  /\ mainPc \in {"launch", "sleep", "quit_rx", "quit_ring", "wait", "print",
                 "stats", "end"}
  /\ launched \in 0 .. 3
  /\ sleepStart \in 0 .. clock
  /\ wire \subseteq [req : Requests, send : Nat]
  /\ strays \in Nat /\ foreign \in Nat /\ strays + foreign <= MaxStray
  /\ report \in [rows : Seq(Rows), tot_tx : Nat, tot_rx : Nat, dropped : Nat]

GenInit ==
  /\ TxInit /\ RxInit
  /\ mainPc = "launch" /\ launched = 0 /\ sleepStart = 0
  /\ wire = {} /\ strays = 0 /\ foreign = 0
  /\ report = NoReport

-----------------------------------------------------------------------------
(* The k-th launch goes to the k-th worker, in the order ring, rx, tx. When   *)
(* there are fewer workers the search for the next lcore wraps around to one  *)
(* that is running already: the launch returns -EBUSY, which nobody looks at, *)
(* and the role is never run.                                                 *)
RoleRuns(k) == k <= launched /\ k <= NWorkers

(* Mutant of MainLaunch: the loop runs once too often.                        *)
MainLaunchFour ==
  /\ Running /\ mainPc = "launch" /\ launched <= 3
  /\ launched' = launched + 1
  /\ UNCHANGED <<ealVars, txOwn, rxOwn, netOwn, mainPc, sleepStart, report>>

MainLaunch ==
  /\ Running /\ mainPc = "launch" /\ launched < 3
  /\ launched' = launched + 1
  /\ UNCHANGED <<ealVars, txOwn, rxOwn, netOwn, mainPc, sleepStart, report>>

MainSleep ==
  /\ Running /\ mainPc = "launch" /\ launched = 3
  /\ mainPc' = "sleep" /\ sleepStart' = clock
  /\ UNCHANGED <<ealVars, txOwn, rxOwn, netOwn, launched, report>>

(* The argument of rte_delay_us_sleep. It is computed in 64 bits and passed   *)
(* as an unsigned. A tick of the model is a microsecond: Hz of them a second. *)
SleepTicks == ((duration + RemainingInS) * Hz) % UIntRange

(* Mutants: quit_rx_ring is raised before quit_rx; it is forgotten.           *)
MainQuitTxAndRing ==
  /\ Running /\ mainPc = "sleep" /\ clock >= sleepStart + SleepTicks
  /\ quit_tx' = TRUE /\ quit_rx_ring' = TRUE /\ mainPc' = "quit_rx"
  /\ UNCHANGED <<clock, status, quit_rx, txOwn, rxOwn, netOwn, launched,
                 sleepStart, report>>

MainQuitRingForgotten ==
  /\ Running /\ mainPc = "quit_ring"
  /\ mainPc' = "wait"
  /\ UNCHANGED <<ealVars, txOwn, rxOwn, netOwn, launched, sleepStart, report>>

(* wait_timeout, after the sleep: three stores to volatile flags, in order.   *)
MainQuitTx ==
  /\ Running /\ mainPc = "sleep" /\ clock >= sleepStart + SleepTicks
  /\ quit_tx' = TRUE /\ mainPc' = "quit_rx"
  /\ UNCHANGED <<clock, status, quit_rx, quit_rx_ring, txOwn, rxOwn, netOwn,
                 launched, sleepStart, report>>

MainQuitRx ==
  /\ Running /\ mainPc = "quit_rx"
  /\ quit_rx' = TRUE /\ mainPc' = "quit_ring"
  /\ UNCHANGED <<clock, status, quit_tx, quit_rx_ring, txOwn, rxOwn, netOwn,
                 launched, sleepStart, report>>

MainQuitRing ==
  /\ Running /\ mainPc = "quit_ring"
  /\ quit_rx_ring' = TRUE /\ mainPc' = "wait"
  /\ UNCHANGED <<clock, status, quit_tx, quit_rx, txOwn, rxOwn, netOwn,
                 launched, sleepStart, report>>

(* Mutants of AllJoined: main does not wait for lcore_rx_ring, for lcore_tx.  *)
RingNotJoined ==
  /\ RoleRuns(2) => rxPc = "done"
  /\ RoleRuns(3) => txPc = "done"

TxNotJoined ==
  /\ RoleRuns(1) => ringPc = "done"
  /\ RoleRuns(2) => rxPc = "done"

(* rte_eal_wait_lcore of every worker; the thread functions all return 0.     *)
AllJoined ==
  /\ RoleRuns(1) => ringPc = "done"
  /\ RoleRuns(2) => rxPc = "done"
  /\ RoleRuns(3) => txPc = "done"

MainJoin ==
  /\ Running /\ mainPc = "wait" /\ AllJoined
  /\ mainPc' = "print"
  /\ UNCHANGED <<ealVars, txOwn, rxOwn, netOwn, launched, sleepStart, report>>

(* print_stats_output drops the first tenth of the nodes and prints the       *)
(* latency of the others, an unsigned difference like `dropped`.              *)
Unsigned(x) == x % ULongRange

Warmup == Len(incoming) \div 10

Latencies ==
  [k \in 1 .. Len(incoming) - Warmup |->
     [latency |-> Unsigned(incoming[Warmup + k].timestamp_rx
                           - incoming[Warmup + k].timestamp_tx),
      own |-> incoming[Warmup + k].own]]

(* The output file is opened only now: if that fails, the run was in vain.    *)
(* The file of the totals is opened when the latencies are written: if that   *)
(* fails, which is not tested, fprintf writes to NULL.                        *)
MainPrint ==
  /\ Running /\ mainPc = "print"
  /\ \/ /\ report' = [rows |-> Latencies,
                      tot_tx |-> q_tx.tot_tx, tot_rx |-> q_rx.tot_rx,
                      dropped |-> Unsigned(q_tx.tot_tx - q_rx.tot_rx)]
        /\ mainPc' = "stats" /\ UNCHANGED status
     \/ status' = "rte_exit" /\ UNCHANGED <<report, mainPc>>
     \/ /\ report' = [NoReport EXCEPT !.rows = Latencies]
        /\ status' = "crashed" /\ UNCHANGED mainPc
  /\ UNCHANGED <<clock, quit_tx, quit_rx, quit_rx_ring, txOwn, rxOwn, netOwn,
                 launched, sleepStart>>

(* print_dpdk_stats, which gives up when the NIC does not tell its counters,  *)
(* the clean-up, and the return from main.                                    *)
MainReturn ==
  /\ Running /\ mainPc = "stats"
  /\ mainPc' = "end" /\ status' \in {"returned", "rte_exit"}
  /\ UNCHANGED <<clock, quit_tx, quit_rx, quit_rx_ring, txOwn, rxOwn, netOwn,
                 launched, sleepStart, report>>

Main ==
  \/ MainLaunch \/ MainSleep \/ MainQuitTx \/ MainQuitRx \/ MainQuitRing
  \/ MainJoin \/ MainPrint \/ MainReturn

-----------------------------------------------------------------------------
(* The workers. A role runs once main has launched it on a free worker.       *)
TxWorker ==
  /\ TxThread \/ (RoleRuns(3) /\ TxLaunch)
  /\ UNCHANGED <<rxOwn, mainOwn, netOwn>>

RxWorker ==
  /\ RxThread \/ (RoleRuns(2) /\ RxLaunch)
  /\ UNCHANGED <<txOwn, mainOwn, netOwn>>

RingWorker ==
  /\ RingThread \/ (RoleRuns(1) /\ RingLaunch)
  /\ UNCHANGED <<txOwn, mainOwn, netOwn>>

(* Outside. A request that is lost, or whose answer is, stays on the wire for *)
(* ever; the server echoes the time stamp of the request.                     *)
Transmit ==
  /\ NicTransmit
  /\ wire' = wire \cup {Head(nicTx)}
  /\ UNCHANGED <<rxOwn, mainOwn, strays, foreign>>

Answer(w) ==
  /\ Arrive([kind |-> "answer", send |-> w.send])
  /\ wire' = wire \ {w}
  /\ UNCHANGED <<txOwn, mainOwn, strays, foreign>>

(* A frame of somebody else, or an answer the network has duplicated: the     *)
(* port takes them all. ARP, ICMP and empty UDP are not recorded, ...         *)
Stray ==
  /\ strays + foreign < MaxStray /\ strays' = strays + 1
  /\ Arrive([kind |-> "other", send |-> 0])
  /\ UNCHANGED <<txOwn, mainOwn, wire, foreign>>

(* ... and any other datagram is, with the time it happens to carry.          *)
Foreign(t) ==
  /\ strays + foreign < MaxStray /\ foreign' = foreign + 1
  /\ Arrive([kind |-> "foreign", send |-> t])
  /\ UNCHANGED <<txOwn, mainOwn, wire, strays>>

(* Bound of the model: while an lcore is still to start, the clock waits at   *)
(* MaxLaunchClock.                                                            *)
Starting ==
  \/ mainPc = "launch"
  \/ RoleRuns(1) /\ ringPc = "idle"
  \/ RoleRuns(2) /\ rxPc = "idle"
  \/ RoleRuns(3) /\ txPc = "idle"

Time ==
  /\ Tick
  /\ Starting => clock < MaxLaunchClock
  /\ UNCHANGED <<txOwn, rxOwn, mainOwn, netOwn>>

GenNext ==
  \/ Main \/ TxWorker \/ RxWorker \/ RingWorker
  \/ Transmit \/ (\E w \in wire : Answer(w)) \/ Stray
  \/ (\E t \in ForeignTimes : Foreign(t))
  \/ Time

GenSpec == GenInit /\ [][GenNext]_genVars

(* Every lcore is a CPU of its own that polls, main is scheduled by the       *)
(* kernel, and time passes. Nothing is assumed of the NIC and the network.    *)
GenFairness ==
  /\ WF_genVars(Main) /\ WF_genVars(Time)
  /\ WF_genVars(TxWorker) /\ WF_genVars(RxWorker) /\ WF_genVars(RingWorker)

GenFairSpec == GenSpec /\ GenFairness

-----------------------------------------------------------------------------
(* incoming_array has rate * duration nodes and its index is never tested     *)
(* (main.c:87). Answers alone never overrun it, however the lcores interleave *)
(* and whatever was given up; each recorded frame that is no first answer can *)
(* take the index at most one node further.                                   *)
IncomingFits == Len(incoming) <= IncomingSize + foreign

(* No recorded frame disappears between the NIC and the array: what lcore_rx  *)
(* has counted, less the strays, is in the array or on its way there.         *)
NoAnswerLost ==
  tot_nb_rx - strays
    <= Len(rxPkts) + Len(rx_ring) + Len(ringPkts) + Len(incoming)

(* The array takes every answer, and only foreign frames take it too far.     *)
AnswersKept == IncomingFits /\ NoAnswerLost

(* Both files are written.                                                    *)
Printed == mainPc \in {"stats", "end"}

(* More is received than was sent by the frames of others at most, so the     *)
(* subtraction of util.c:375 wraps only if there were some; if there were     *)
(* none, `dropped` is the number of requests not answered in time.            *)
DroppedIsHonest ==
  Printed =>
    /\ report.tot_rx <= report.tot_tx + strays + foreign
    /\ strays + foreign = 0 =>
         /\ report.dropped <= report.tot_tx
         /\ Len(report.rows) + report.dropped <= report.tot_tx

(* A latency printed for an answer to this process is a time that has passed, *)
(* never a wrapped difference, whatever other frames have come in between.    *)
LatenciesReal ==
  \A k \in 1 .. Len(report.rows) :
    report.rows[k].own => report.rows[k].latency <= clock

(* What is printed is what has happened.                                      *)
ReportHonest == DroppedIsHonest /\ LatenciesReal

(* Once main has joined the workers, nothing it prints can still change under *)
(* its hands (main.c:325-331).                                                *)
Joined == mainPc \in {"print", "stats"}

ReportStable ==
  [][Joined => UNCHANGED <<incoming, q_rx, q_tx, nr_never_sent>>]_genVars

(* The order of the stores of wait_timeout bounds what the join can leave in  *)
(* rx_ring: lcore_rx, told to quit before lcore_rx_ring was, has at most the  *)
(* one burst left that it was handling.                                       *)
AtMostOneBurstLeft ==
  rxPc = "done" /\ ringPc = "done" => Len(rx_ring) <= BURST_SIZE

(* The process ends: wait_timeout's flags reach every thread, and main joins  *)
(* them, prints and returns, unless it was given up before.                   *)
Terminates == <>(~Running)
=============================================================================
