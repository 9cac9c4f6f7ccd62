-------------------------------- MODULE Eal --------------------------------
(* The state every lcore of the generator process shares: the time stamp      *)
(* counter, the three quit flags of main.c:42-46, and how the process ends.   *)
(*                                                                            *)
(* The clock counts ticks of rte_rdtsc(). The counters of all lcores are      *)
(* taken to be one clock (invariant, synchronised TSC), as main.c takes them: *)
(* it compares a time stamp written by the TX lcore with one of the RX lcore. *)
EXTENDS Integers, Sequences

CONSTANTS
  Hz,        \* rte_get_timer_hz(): ticks in a second
  MaxClock   \* bound of the model: the clock stops here

ASSUME EalAssumption == Hz \in Nat \ {0} /\ MaxClock \in Nat

VARIABLES
  clock,         \* rte_rdtsc()
  status,        \* "running", or how the process ended
  quit_tx, quit_rx, quit_rx_ring

ealVars == <<clock, status, quit_tx, quit_rx, quit_rx_ring>>

(* "segv" is the write through the NULL mbuf of main.c:221, "crashed" any     *)
(* other write or call that is undefined (main.c:87, util.c:380).             *)
Status == {"running", "returned", "rte_exit", "sigfpe", "segv", "crashed"}

EalTypeOK ==
  /\ clock \in 0 .. MaxClock
  /\ status \in Status
  /\ quit_tx \in BOOLEAN /\ quit_rx \in BOOLEAN /\ quit_rx_ring \in BOOLEAN

EalInit ==
  /\ clock = 0
  /\ status = "running"
  /\ quit_tx = FALSE /\ quit_rx = FALSE /\ quit_rx_ring = FALSE

Running == status = "running"

(* (rte_rdtsc() - start) / rte_get_timer_hz(), in integers: 0 within the first *)
(* second, and then the divisor of a division.                                *)
Seconds(start) == (clock - start) \div Hz

Tick ==
  /\ Running /\ clock < MaxClock
  /\ clock' = clock + 1
  /\ UNCHANGED <<status, quit_tx, quit_rx, quit_rx_ring>>

(* What the rest of the process does to this state, seen from one lcore: main *)
(* raises quit flags and never lowers one, and another thread may end the     *)
(* process (return from main, rte_exit, a signal).                            *)
ProcessStep ==
  /\ Running
  /\ status' \in Status \ {"segv"}
  /\ quit_tx' \in {quit_tx, TRUE}
  /\ quit_rx' \in {quit_rx, TRUE}
  /\ quit_rx_ring' \in {quit_rx_ring, TRUE}
  /\ UNCHANGED clock
=============================================================================
